--------------------------- MODULE GameCardServer ---------------------------
(***************************************************************************)
(* The server of the GameCard (gamecard/src/server.c): a thread per queue  *)
(* subscribes to the broker, receives and acknowledges, and leaves each    *)
(* message to a detached thread that works on the file system and          *)
(* publishes the answer on a connection of its own. The GameBoy connects   *)
(* without the broker.                                                     *)
(*                                                                         *)
(* A connection may break; the broker and the GameCard may die and start   *)
(* again. What the broker had in memory is gone then, and the threads of   *)
(* the GameCard; the files stay. An operation on a file is one step here,  *)
(* with the one coordinate its pokemon has: TallGrass takes it apart.      *)
(***************************************************************************)
EXTENDS Integers, FiniteSets, Functions

CONSTANTS Mensajes,         \* the messages: queue, pokemon, quantity and sender
          Iniciales,        \* how many of each pokemon there are, for those with a file
          Casos             \* bound: the messages that may come in one behaviour, how many
                            \* connections break in it and how often one of the two dies

Colas == {"NEW", "CATCH", "GET"}
Mensaje == [cola : Colas, pokemon : STRING, cantidad : Nat, via : {"BROKER", "GAMEBOY"}]

ASSUME ServerAssumption ==
    /\ IsFiniteSet(DOMAIN Mensajes)
    /\ \A m \in DOMAIN Mensajes : m \in Nat \ {0} /\ Mensajes[m] \in Mensaje
    /\ Iniciales \in [DOMAIN Iniciales -> Nat]
    /\ Casos \subseteq [llegan : SUBSET DOMAIN Mensajes, cortes : Nat, caidas : Nat]

Ids == DOMAIN Mensajes
De(m) == Mensajes[m]
Nada == 0
Pokemones == DOMAIN Iniciales \cup {De(m).pokemon : m \in Ids}

VARIABLES
    caso,           \* the one of Casos that happens; never changes
    \* the broker
    vivo,           \* whether it runs
    publicados,     \* the messages the clients sent
    guardados,      \* those it still has in memory
    confirmados,    \* those it got an acknowledgement of
    porEnviar, enVuelo, conectado,  \* for each queue, as TeamEvents has them
    respuestas,     \* the answers it got
    \* the GameCard
    pcL,            \* where each listener is
    recibido,       \* the message it received
    hilos,          \* the threads of the messages
    \* the disk
    hay,            \* how many of each pokemon there are; none: there is no file
    \* history
    creados,        \* how many threads each message was given to
    hechos,         \* how many of them did their operation
    muertos,        \* the messages a death of the GameCard cut short
    cortes, caidas

broker == <<vivo, publicados, guardados, confirmados, porEnviar, enVuelo, conectado>>
escucha == <<pcL, recibido>>
archivos == <<hay, hechos>>
fallas == <<caso, muertos, cortes, caidas>>
vars == <<broker, respuestas, escucha, hilos, creados, archivos, fallas>>

\* atenderConexiones: the three listeners start and the GameBoy is attended.
Listeners == [c \in Colas |-> "suscribe"]
Vacios == [c \in Colas |-> Nada]

Init ==
    /\ caso \in Casos
    /\ vivo = TRUE /\ publicados = {} /\ guardados = {} /\ confirmados = {}
    /\ porEnviar = [c \in Colas |-> {}] /\ enVuelo = Vacios /\ conectado = {}
    /\ respuestas = {}
    /\ pcL = Listeners /\ recibido = Vacios /\ hilos = {}
    /\ hay = Iniciales
    /\ creados = [m \in Ids |-> 0] /\ hechos = [m \in Ids |-> 0]
    /\ muertos = {} /\ cortes = [c \in Colas |-> 0] /\ caidas = 0

-----------------------------------------------------------------------------
(* The broker and what may fail                                            *)

Publica(m) ==
    /\ vivo /\ m \in caso.llegan \ publicados /\ De(m).via = "BROKER"
    /\ publicados' = publicados \cup {m}
    /\ guardados' = guardados \cup {m}
    /\ porEnviar' = [c \in Colas |-> IF c \in conectado /\ c = De(m).cola
                                     THEN porEnviar[c] \cup {m} ELSE porEnviar[c]]
    /\ UNCHANGED <<vivo, confirmados, enVuelo, conectado, respuestas, escucha, hilos, creados,
                   archivos, fallas>>

\* One message at a time, until it is acknowledged.
Envia(c) ==
    /\ c \in conectado /\ enVuelo[c] = Nada
    /\ \E m \in porEnviar[c] :
          /\ enVuelo' = [enVuelo EXCEPT ![c] = m]
          /\ porEnviar' = [porEnviar EXCEPT ![c] = @ \ {m}]
    /\ UNCHANGED <<vivo, publicados, guardados, confirmados, conectado, respuestas, escucha,
                   hilos, creados, archivos, fallas>>

Desconecta(C) ==
    /\ conectado' = conectado \ C
    /\ enVuelo' = [c \in Colas |-> IF c \in C THEN Nada ELSE enVuelo[c]]
    /\ porEnviar' = [c \in Colas |-> IF c \in C THEN {} ELSE porEnviar[c]]

SeCorta(c) ==
    /\ c \in conectado
    /\ SumFunction(cortes) < caso.cortes
    /\ Desconecta({c})
    /\ cortes' = [cortes EXCEPT ![c] = @ + 1]
    /\ UNCHANGED <<vivo, publicados, guardados, confirmados, respuestas, escucha, hilos, creados,
                   archivos, caso, muertos, caidas>>

CaeElBroker ==
    /\ vivo /\ caidas < caso.caidas
    /\ vivo' = FALSE /\ guardados' = {}
    /\ Desconecta(Colas)
    /\ caidas' = caidas + 1
    /\ UNCHANGED <<publicados, confirmados, respuestas, escucha, hilos, creados, archivos,
                   caso, muertos, cortes>>

LevantaElBroker ==
    /\ ~vivo
    /\ vivo' = TRUE
    /\ UNCHANGED <<publicados, guardados, confirmados, porEnviar, enVuelo, conectado, respuestas,
                   escucha, hilos, creados, archivos, fallas>>

\* The listeners start over; what they had acknowledged and not handed over, and the
\* threads, are gone.
CaeGameCard ==
    /\ caidas < caso.caidas
    /\ Desconecta(Colas)
    /\ pcL' = Listeners /\ recibido' = Vacios /\ hilos' = {}
    /\ muertos' = muertos \cup {h.m : h \in hilos}
                          \cup {recibido[c] : c \in {d \in Colas : pcL[d] = "crea"}}
    /\ caidas' = caidas + 1
    /\ UNCHANGED <<vivo, publicados, guardados, confirmados, respuestas, creados, archivos,
                   caso, cortes>>

-----------------------------------------------------------------------------
(* The listeners                                                           *)

\* The handshake: the broker accepts it and then sends what it keeps and has no
\* acknowledgement of.
iniciarSocketDeEscucha(c) ==
    /\ vivo
    /\ conectado' = conectado \cup {c}
    /\ porEnviar' = [porEnviar EXCEPT ![c] = {m \in guardados \ confirmados : De(m).cola = c}]

\* Mutant: the broker is asked for all that it keeps.
SuscribeATodo(c) ==
    /\ pcL[c] = "suscribe"
    /\ vivo
    /\ conectado' = conectado \cup {c}
    /\ porEnviar' = [porEnviar EXCEPT ![c] = {m \in guardados : De(m).cola = c}]
    /\ pcL' = [pcL EXCEPT ![c] = "recibe"]
    /\ UNCHANGED <<vivo, publicados, guardados, confirmados, enVuelo, respuestas, recibido, hilos,
                   creados, archivos, fallas>>

\* Tried again, after a sleep, until there is a broker.
subscribirseACola(c) ==
    /\ pcL[c] = "suscribe"
    /\ iniciarSocketDeEscucha(c)
    /\ pcL' = [pcL EXCEPT ![c] = "recibe"]
    /\ UNCHANGED <<vivo, publicados, guardados, confirmados, enVuelo, respuestas, recibido, hilos,
                   creados, archivos, fallas>>

\* Mutant: a connection that broke is listened to for ever.
NoReconecta(c) ==
    /\ pcL[c] = "recibe"
    /\ c \in conectado /\ enVuelo[c] # Nada
    /\ pcL' = [pcL EXCEPT ![c] = "confirma"]
    /\ recibido' = [recibido EXCEPT ![c] = enVuelo[c]]
    /\ UNCHANGED <<broker, respuestas, hilos, creados, archivos, fallas>>

Recibe(c) ==
    /\ pcL[c] = "recibe"
    /\ c \in conectado => enVuelo[c] # Nada
    /\ pcL' = [pcL EXCEPT ![c] = IF c \in conectado THEN "confirma" ELSE "suscribe"]
    /\ recibido' = [recibido EXCEPT ![c] = enVuelo[c]]
    /\ UNCHANGED <<broker, respuestas, hilos, creados, archivos, fallas>>

\* The acknowledgement precedes the thread. On a connection that broke it may be sent
\* without an error and never arrive.
Confirma(c) ==
    /\ pcL[c] = "confirma"
    /\ IF c \in conectado
       THEN /\ pcL' = [pcL EXCEPT ![c] = "crea"]
            /\ confirmados' = confirmados \cup {recibido[c]}
            /\ enVuelo' = [enVuelo EXCEPT ![c] = Nada]
       ELSE /\ \E d \in {"crea", "suscribe"} : pcL' = [pcL EXCEPT ![c] = d]
            /\ UNCHANGED <<confirmados, enVuelo>>
    /\ UNCHANGED <<vivo, publicados, guardados, porEnviar, conectado, respuestas, recibido, hilos,
                   creados, archivos, fallas>>

\* The thread of a message; "n" tells the threads of one message apart.
Hilo(m, id) ==
    /\ creados' = [creados EXCEPT ![m] = @ + 1]
    /\ hilos' = hilos \cup {[m |-> m, id |-> id, n |-> creados[m], pc |-> "procesa", da |-> "-"]}

Crea(c) ==
    /\ pcL[c] = "crea"
    /\ Hilo(recibido[c], recibido[c])
    /\ pcL' = [pcL EXCEPT ![c] = "recibe"]
    /\ UNCHANGED <<broker, respuestas, recibido, archivos, fallas>>

Escucha(c) == subscribirseACola(c) \/ Recibe(c) \/ Confirma(c) \/ Crea(c)

esperarBrokerNew == Escucha("NEW")
esperarBrokerCatch == Escucha("CATCH")
esperarBrokerGet == Escucha("GET")

\* What recv returns is not looked at: of a GameBoy that is cut off before its id, the
\* id is what the stack holds.
atenderGameboy ==
    \E m \in caso.llegan :
       /\ De(m).via = "GAMEBOY" /\ creados[m] = 0
       /\ \E id \in caso.llegan : Hilo(m, id)
       /\ UNCHANGED <<broker, respuestas, escucha, archivos, fallas>>

\* Cut off before the message, its thread dereferences NULL.
GameboyCortado ==
    /\ \E m \in caso.llegan : De(m).via = "GAMEBOY" /\ creados[m] = 0
    /\ CaeGameCard

-----------------------------------------------------------------------------
(* The threads of the messages                                             *)

Sigue(h, g) == hilos' = (hilos \ {h}) \cup {g}

HayDe(p) == IF p \in DOMAIN hay THEN hay[p] ELSE 0

\* Mutant: the pokemon stays in the file.
CatchNoDescuenta(h) ==
    IF HayDe(De(h.m).pokemon) > 0
    THEN [hay |-> hay, da |-> "OK"] ELSE [hay |-> hay, da |-> "FAIL"]

\* A NEW makes the file if there is none, and adds to it where there are blocks for it
\* (here, always); a CATCH takes one, if there is one; a GET tells what there is.
procesarNew(h) ==
    [hay |-> [p \in DOMAIN hay \cup {De(h.m).pokemon} |->
                 HayDe(p) + IF p = De(h.m).pokemon THEN De(h.m).cantidad ELSE 0],
     da |-> "APPEARED"]
procesarCatch(h) ==
    IF HayDe(De(h.m).pokemon) > 0
    THEN [hay |-> [hay EXCEPT ![De(h.m).pokemon] = @ - 1], da |-> "OK"]
    ELSE [hay |-> hay, da |-> "FAIL"]
procesarGet(h) == [hay |-> hay, da |-> IF HayDe(De(h.m).pokemon) > 0 THEN "LUGAR" ELSE "NADA"]

\* The operation on the file, which its thread does alone.
Opera(h, r) ==
    /\ h.pc = "procesa"
    /\ hay' = r.hay
    /\ hechos' = [hechos EXCEPT ![h.m] = @ + 1]
    /\ Sigue(h, [h EXCEPT !.pc = "responde", !.da = r.da])
    /\ UNCHANGED <<broker, respuestas, escucha, creados, fallas>>

\* The answer is sent once; without a broker it is lost.
Responde(h) ==
    /\ h.pc = "responde"
    /\ hilos' = hilos \ {h}
    /\ respuestas' = IF vivo THEN respuestas \cup {[id |-> h.id, m |-> h.m, n |-> h.n, da |-> h.da]}
                     ELSE respuestas
    /\ UNCHANGED <<broker, escucha, creados, archivos, fallas>>

procesarHiloNew(h) == De(h.m).cola = "NEW" /\ (Opera(h, procesarNew(h)) \/ Responde(h))
procesarHiloCatch(h) == De(h.m).cola = "CATCH" /\ (Opera(h, procesarCatch(h)) \/ Responde(h))
procesarHiloGet(h) == De(h.m).cola = "GET" /\ (Opera(h, procesarGet(h)) \/ Responde(h))

procesarHilo(h) == procesarHiloNew(h) \/ procesarHiloCatch(h) \/ procesarHiloGet(h)

Next ==
    \/ \E m \in Ids : Publica(m)
    \/ \E c \in Colas : Envia(c) \/ SeCorta(c)
    \/ CaeElBroker \/ LevantaElBroker \/ CaeGameCard
    \/ esperarBrokerNew \/ esperarBrokerCatch \/ esperarBrokerGet
    \/ atenderGameboy \/ GameboyCortado
    \/ \E h \in hilos : procesarHilo(h)

\* A broker that died is started again; it sends what it has to, and the threads of
\* the GameCard go on while they can.
Spec ==
    /\ Init /\ [][Next]_vars
    /\ WF_vars(LevantaElBroker)
    /\ \A c \in Colas : WF_vars(Envia(c)) /\ WF_vars(Escucha(c))
    /\ WF_vars(\E h \in hilos : procesarHilo(h))

-----------------------------------------------------------------------------
(* Properties                                                              *)

TypeOK ==
    /\ guardados \cup confirmados \subseteq publicados
    /\ \A c \in Colas : porEnviar[c] # {} \/ enVuelo[c] # Nada => vivo /\ c \in conectado
    /\ \A p \in DOMAIN hay : hay[p] \in Nat
    /\ \A h \in hilos : h.n < creados[h.m] /\ (h.pc = "procesa" <=> h.da = "-")
    /\ \A m \in Ids : hechos[m] <= creados[m]

\* What the broker will not send again was processed, is being processed, or was cut
\* short by a death of the GameCard.
AckedIsAttended ==
    \A m \in confirmados :
        \/ hechos[m] > 0 \/ m \in muertos
        \/ \E h \in hilos : h.m = m
        \/ \E c \in Colas : pcL[c] = "crea" /\ recibido[c] = m

\* A message is processed twice only when its connection broke: all the repeats of a
\* queue are no more than the breaks of its connection.
DeLaCola(c) == {m \in Ids : De(m).cola = c}
Repeticiones == [m \in Ids |-> IF creados[m] > 1 THEN creados[m] - 1 ELSE 0]
RepeatsAreBreaks == \A c \in Colas : SumFunctionOnSet(Repeticiones, DeLaCola(c)) <= cortes[c]

\* An acknowledged message is processed, and once, but for what the ends of the
\* processes and of their connections explain.
Attended == TypeOK /\ AckedIsAttended /\ RepeatsAreBreaks

\* Whatever is repeated, cut short or answered under a wrong id: no more catches are
\* told to have succeeded than there were pokemons to catch.
Ganados(p) == {r \in respuestas : De(r.m).pokemon = p /\ r.da = "OK"}
Agregados(p) == SumFunctionOnSet([m \in Ids |-> De(m).cantidad * hechos[m]],
                                 {m \in DeLaCola("NEW") : De(m).pokemon = p})
HabiaDe(p) == IF p \in DOMAIN Iniciales THEN Iniciales[p] ELSE 0
CatchesAreBacked ==
    \A p \in Pokemones : Cardinality(Ganados(p)) + HayDe(p) <= Agregados(p) + HabiaDe(p)

\* A message that is published is processed, whatever the state of the broker
\* afterwards, unless one of the two dies with it.
EveryMessageIsProcessed ==
    \A m \in Ids : m \in publicados ~>
        \/ hechos[m] > 0
        \/ m \in muertos
        \/ m \notin guardados

=============================================================================
