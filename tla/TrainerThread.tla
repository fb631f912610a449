---------------------------- MODULE TrainerThread ----------------------------
(***************************************************************************)
(* A trainer's thread and the thread that plans it, which hand each cycle  *)
(* to each other with two semaphores and share the task without a mutex    *)
(* (team/src/modelo/planificable: HiloEntrenadorPlanificable.c,            *)
(* tarea/TareaPlanificable.c).                                             *)
(*                                                                         *)
(* An instruction is its position in the task; hechas are those that the   *)
(* trainer did. The log and the delay of a cycle are left out.             *)
(***************************************************************************)
EXTENDS Integers, Sequences

CONSTANT Totales            \* how many instructions a task may have

ASSUME TotalesAssumption == Totales \subseteq Nat \ {0}

VARIABLES
    tarea,          \* tareaAsignada: its size, its counter and its state
    hechas,         \* the instructions of it the trainer did
    pcE, pcP,       \* where the trainer's thread is, and the planner's
    instruccion,    \* the one the trainer's thread is at
    quedan,         \* the cycles the planner has still to ask for
    habilitada,     \* semaforoEjecucionHabilitada
    completado,     \* semaforoCicloCompletado
    fin,            \* semaforoFinDeTrabajo
    finDeTrabajo,
    parcial         \* rafaga_parcial_ejecutada

entrenador == <<hechas, pcE, instruccion>>
planificador == <<pcP, quedan, parcial>>
semaforos == <<habilitada, completado, fin>>
vars == <<tarea, entrenador, planificador, semaforos, finDeTrabajo>>

Estados == {"PENDIENTE_DE_EJECUCION", "EJECUTANDO", "FINALIZADA", "ABORTADA"}
NULL == [total |-> 0, contador |-> 0, estado |-> "ABORTADA"]

Init ==
    /\ tarea = NULL /\ hechas = << >> /\ instruccion = 0 /\ quedan = 0 /\ parcial = 0
    /\ pcE = "ciclo" /\ pcP = "libre"
    /\ habilitada = 0 /\ completado = 0 /\ fin = 0
    /\ finDeTrabajo = FALSE

-----------------------------------------------------------------------------
(* The task (TareaPlanificable.c)                                          *)

nueva(n) == [total |-> n, contador |-> 0, estado |-> "PENDIENTE_DE_EJECUCION"]

\* Mutant: the last instruction does not finish the task.
SinFinalizar(i, n) ==
    [i EXCEPT !.estado = IF @ = "ABORTADA" THEN @
                         ELSE IF n < i.total THEN "PENDIENTE_DE_EJECUCION" ELSE "ABORTADA"]

\* The last instruction finishes the task; one that was not asked for aborts it.
actualizarEstado(i, n) ==
    [i EXCEPT !.estado =
        CASE i.estado = "ABORTADA" -> "ABORTADA"
          [] i.estado # "ABORTADA" /\ i.total = i.contador + 1 /\ i.total = n + 1 -> "FINALIZADA"
          [] i.estado # "ABORTADA" /\ n < i.total - 1 -> "PENDIENTE_DE_EJECUCION"
          [] OTHER -> "ABORTADA"]

notificarEjecucion(i, n) ==
    actualizarEstado(
        IF i.estado = "EJECUTANDO" /\ i.contador = n /\ n < i.total - 1
        THEN [i EXCEPT !.contador = @ + 1] ELSE i, n)

\* A counter that did not move means that everything is left, even at the end.
cantidadInstruccionesRestantes(i) ==
    IF i.contador # 0 /\ i.estado = "FINALIZADA" THEN 0 ELSE i.total - i.contador

cantidadInstruccionesEjecutadas(i) == i.total - cantidadInstruccionesRestantes(i)

-----------------------------------------------------------------------------
(* The trainer's thread (trabajar)                                         *)

Ciclo ==
    /\ pcE = "ciclo"
    /\ pcE' = IF finDeTrabajo THEN "sale" ELSE "espera"
    /\ UNCHANGED <<tarea, hechas, instruccion, planificador, semaforos, finDeTrabajo>>

EsperaHabilitacion ==
    /\ pcE = "espera" /\ habilitada > 0
    /\ habilitada' = habilitada - 1
    /\ pcE' = IF finDeTrabajo THEN "sale" ELSE "obtiene"
    /\ UNCHANGED <<tarea, hechas, instruccion, planificador, completado, fin, finDeTrabajo>>

\* There is no next instruction of a task that is over: the NULL is read through.
proximaInstruccion ==
    /\ pcE = "obtiene"
    /\ IF tarea.estado \in {"FINALIZADA", "ABORTADA"}
       THEN pcE' = "NULL" /\ UNCHANGED <<tarea, instruccion>>
       ELSE /\ tarea' = [tarea EXCEPT !.estado = "EJECUTANDO"]
            /\ instruccion' = tarea.contador
            /\ pcE' = "ejecuta"
    /\ UNCHANGED <<hechas, planificador, semaforos, finDeTrabajo>>

ejecutarInstruccion ==
    /\ pcE = "ejecuta"
    /\ hechas' = Append(hechas, instruccion)
    /\ pcE' = "notifica"
    /\ UNCHANGED <<tarea, instruccion, planificador, semaforos, finDeTrabajo>>

Notifica ==
    /\ pcE = "notifica"
    /\ tarea' = notificarEjecucion(tarea, instruccion)
    /\ pcE' = "avisa"
    /\ UNCHANGED <<hechas, instruccion, planificador, semaforos, finDeTrabajo>>

\* Mutant: the planner is not told.
NoAvisa ==
    /\ pcE = "avisa"
    /\ pcE' = "ciclo"
    /\ UNCHANGED <<tarea, hechas, instruccion, planificador, semaforos, finDeTrabajo>>

CicloCompletado ==
    /\ pcE = "avisa"
    /\ completado' = completado + 1
    /\ pcE' = "ciclo"
    /\ UNCHANGED <<tarea, hechas, instruccion, planificador, habilitada, fin, finDeTrabajo>>

Sale ==
    /\ pcE = "sale"
    /\ fin' = fin + 1
    /\ pcE' = "fin"
    /\ UNCHANGED <<tarea, hechas, instruccion, planificador, habilitada, completado, finDeTrabajo>>

trabajar ==
    \/ Ciclo \/ EsperaHabilitacion \/ proximaInstruccion \/ ejecutarInstruccion
    \/ Notifica \/ CicloCompletado \/ Sale

-----------------------------------------------------------------------------
(* The planner                                                             *)

asignarTarea ==
    /\ pcP = "libre" /\ tarea = NULL
    /\ \E n \in Totales : tarea' = nueva(n)
    /\ hechas' = << >>
    /\ UNCHANGED <<pcE, instruccion, planificador, semaforos, finDeTrabajo>>

\* The planning algorithms ask for one cycle, a quantum or everything that is left.
ejecutarLimitado ==
    /\ pcP = "libre" /\ tarea.estado = "PENDIENTE_DE_EJECUCION"
    /\ quedan' \in 1 .. cantidadInstruccionesRestantes(tarea)
    /\ pcP' = "habilita"
    /\ UNCHANGED <<tarea, entrenador, parcial, semaforos, finDeTrabajo>>

\* Mutant: a cycle is not waited for before the next one is asked for.
HabilitaTodos ==
    /\ pcP = "habilita" /\ quedan > 0
    /\ habilitada' = habilitada + quedan
    /\ quedan' = 0
    /\ UNCHANGED <<tarea, entrenador, pcP, parcial, completado, fin, finDeTrabajo>>

Habilita ==
    /\ pcP = "habilita" /\ quedan > 0
    /\ habilitada' = habilitada + 1
    /\ pcP' = "espera_ciclo"
    /\ UNCHANGED <<tarea, entrenador, quedan, parcial, completado, fin, finDeTrabajo>>

EsperaCiclo ==
    /\ pcP = "espera_ciclo" /\ completado > 0
    /\ completado' = completado - 1
    /\ quedan' = quedan - 1
    /\ pcP' = "habilita"
    /\ UNCHANGED <<tarea, entrenador, parcial, habilitada, fin, finDeTrabajo>>

FinDeEjecucion ==
    /\ pcP = "habilita" /\ quedan = 0
    /\ parcial' = cantidadInstruccionesEjecutadas(tarea)
    /\ tarea' = IF tarea.estado = "FINALIZADA" THEN NULL ELSE tarea
    /\ hechas' = IF tarea.estado = "FINALIZADA" THEN << >> ELSE hechas
    /\ pcP' = "libre"
    /\ UNCHANGED <<pcE, instruccion, quedan, semaforos, finDeTrabajo>>

\* A trainer is destroyed with the task it has left.
destruir ==
    /\ pcP = "libre"
    /\ tarea' = NULL /\ hechas' = << >>
    /\ pcP' = "marca"
    /\ UNCHANGED <<pcE, instruccion, quedan, parcial, semaforos, finDeTrabajo>>

MarcaFin ==
    /\ pcP = "marca"
    /\ finDeTrabajo' = TRUE
    /\ pcP' = "despierta"
    /\ UNCHANGED <<tarea, entrenador, quedan, parcial, semaforos>>

Despierta ==
    /\ pcP = "despierta"
    /\ habilitada' = habilitada + 1
    /\ pcP' = "espera_fin"
    /\ UNCHANGED <<tarea, entrenador, quedan, parcial, completado, fin, finDeTrabajo>>

\* Mutant: its end is not waited for.
NoEsperaElFin ==
    /\ pcP = "espera_fin"
    /\ pcP' = "destruido"
    /\ UNCHANGED <<tarea, entrenador, quedan, parcial, semaforos, finDeTrabajo>>

EsperaFin ==
    /\ pcP = "espera_fin" /\ fin > 0
    /\ fin' = fin - 1
    /\ pcP' = "destruido"
    /\ UNCHANGED <<tarea, entrenador, quedan, parcial, habilitada, completado, finDeTrabajo>>

planificar ==
    \/ asignarTarea \/ ejecutarLimitado \/ Habilita \/ EsperaCiclo \/ FinDeEjecucion
    \/ destruir \/ MarcaFin \/ Despierta \/ EsperaFin

Next == trabajar \/ planificar

\* Both threads go on while they can; no task has to come, no trainer has to be
\* destroyed.
Spec ==
    /\ Init /\ [][Next]_vars
    /\ WF_vars(trabajar)
    /\ WF_vars(Habilita \/ EsperaCiclo \/ FinDeEjecucion)
    /\ WF_vars(MarcaFin \/ Despierta \/ EsperaFin)

-----------------------------------------------------------------------------
(* Properties                                                              *)

Trabajando == {"obtiene", "ejecuta", "notifica", "avisa"}

TypeOK ==
    /\ tarea \in [total : Nat, contador : Nat, estado : Estados]
    /\ hechas \in Seq(Nat) /\ instruccion \in Nat /\ quedan \in Nat /\ parcial \in Nat
    /\ pcE \in {"ciclo", "espera", "sale", "fin"} \cup Trabajando
    /\ pcP \in {"libre", "habilita", "espera_ciclo", "marca", "despierta", "espera_fin", "destruido"}
    /\ habilitada \in Nat /\ completado \in Nat /\ fin \in Nat
    /\ finDeTrabajo \in BOOLEAN

\* While the trainer's thread works on the task the planner waits for that cycle,
\* so that neither needs a mutex: what was handed over is in one pair of hands.
OneAtATime ==
    /\ pcE \in Trabajando => pcP = "espera_ciclo"
    /\ pcP = "espera_ciclo" =>
          habilitada + completado + (IF pcE \in Trabajando THEN 1 ELSE 0) = 1

\* "Orden de ejecucion corrompido" (TareaPlanificable.c:24) never happens, and no
\* cycle finds a task that is over: only a missing task is aborted.
NeverCorrupted == tarea.estado = "ABORTADA" => tarea = NULL /\ pcE \notin Trabajando

\* What is destroyed is not used any more: the trainer's thread has ended, and
\* nobody waits on its semaphores.
NothingAfterDestroy == pcP = "destruido" => pcE = "fin"

\* Neither the task nor the trainer is used beyond its end.
SafeUse == NeverCorrupted /\ NothingAfterDestroy

\* The instructions of a task are done in order, none of them twice.
Abstracta == INSTANCE Task WITH total <- tarea.total
InOrder == Abstracta!Spec

\* A turn ends, and so does a destruction.
TurnsEnd == pcP = "habilita" ~> pcP = "libre"
DestructionEnds == pcP = "marca" ~> pcP = "destruido"

\* Whoever plans a trainer gets it back, whatever the calls.
CallsReturn == TurnsEnd /\ DestructionEnds

=============================================================================
