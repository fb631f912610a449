--------------------------- MODULE MCTrainerThread ---------------------------
(***************************************************************************)
(* Tasks of one to four instructions for TrainerThread.                    *)
(***************************************************************************)
EXTENDS TrainerThread

HastaCuatro == 1 .. 4

=============================================================================
