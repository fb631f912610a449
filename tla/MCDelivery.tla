----------------------------- MODULE MCDelivery -----------------------------
(***************************************************************************)
(* Small sets of clients and connections: two clients that subscribe once, *)
(* and one client that may lose its connection and subscribe again.        *)
(***************************************************************************)
EXTENDS Delivery

CONSTANTS team, gamecard, first, second

\* They are of two clients that subscribe once, or of one that does it twice.
ClientsOf ==
    { [c \in {first, second} |-> IF c = first THEN team ELSE gamecard],
      [c \in {first, second} |-> team] }

=============================================================================
