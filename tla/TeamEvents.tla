----------------------------- MODULE TeamEvents -----------------------------
(***************************************************************************)
(* How the events of the broker and of the GameBoy reach the Team process  *)
(* (team/src: ServidorTeam.c, ManejadorDeEventos.c, ClienteBrokerV2.c,     *)
(* RegistradorDeEventos.c, ObjetivoGlobal.c).                              *)
(*                                                                         *)
(* A thread per queue subscribes, receives, acknowledges and leaves each   *)
(* message to a thread of its own, so that messages are processed in any   *)
(* order. A connection may break at any time: the broker sends again what  *)
(* it got no acknowledgement of. Meanwhile main asks for each species and  *)
(* registers the id of its request once the broker has answered with it.   *)
(*                                                                         *)
(* list_add of the commons library links the new node after the last one   *)
(* it saw and then counts it: of two threads that add at once, one may     *)
(* lose its node and both may be counted. Whoever looks for as many nodes  *)
(* as were counted follows a NULL, and the process dies.                   *)
(***************************************************************************)
EXTENDS SequencesExt, FiniteSetsExt

CONSTANTS Necesarios,       \* the species of the global objective
          Mensajes,         \* the messages: queue, species, places and the request answered
          Conjuntos,        \* the sets of messages that may come in one behaviour
          Catches,          \* the ids of the catches that wait for their answer
          MaxCortes         \* bound of the model: how many times a connection breaks

Colas == {"APPEARED", "LOCALIZED", "CAUGHT"}
SinId == "ninguno"

\* The answer to a GET tells of the species that was asked for.
ASSUME EventsAssumption ==
    /\ Mensajes \in Seq([cola : Colas \cup {"GAMEBOY"}, especie : STRING, lugares : Nat,
                         id : Necesarios \cup Catches \cup {SinId}])
    /\ \A i \in DOMAIN Mensajes :
          Mensajes[i].id \in Necesarios => Mensajes[i].especie = Mensajes[i].id
    /\ Conjuntos \subseteq SUBSET DOMAIN Mensajes
    /\ Necesarios \cap Catches = {} /\ SinId \notin Necesarios \cup Catches
    /\ MaxCortes \in Nat

Ids == DOMAIN Mensajes
De(m) == Mensajes[m]

VARIABLES
    \* the broker
    llegan,         \* the messages that come; never changes
    pedidos,        \* the GETs it got: the id of each is here its species
    publicados,     \* the messages that were published
    confirmados,    \* those of them it got the acknowledgement of
    porEnviar,      \* for each queue, what it has to send on the connection
    enVuelo,        \* for each queue, what it sent and is not acknowledged yet
    conectado,      \* the queues with a connection
    cortes,
    \* the process
    pcGet,          \* main: the species it asked for and has not registered
    pedidas,        \* those it is done with
    pcL,            \* where each listener is
    recibido,       \* the message each listener received
    hilos,          \* the threads of the messages, the ended ones included
    getEnEspera,    \* listaGetEnEspera
    catchEnEspera,  \* listaCatchEnEspera
    recibidos,      \* listaLocalizedAppearedsRecibidos: its nodes
    elementos       \* and its elements_count

broker == <<llegan, pedidos, publicados, confirmados>>
conexion == <<porEnviar, enVuelo, conectado, cortes>>
solicitud == <<pcGet, pedidas>>
escucha == <<pcL, recibido>>
registro == <<getEnEspera, catchEnEspera, recibidos, elementos>>
vars == <<broker, conexion, solicitud, escucha, hilos, registro>>

Nada == 0
SinNodo == <<0, 0>>

Init ==
    /\ llegan \in Conjuntos
    /\ pedidos = {} /\ publicados = {} /\ confirmados = {}
    /\ porEnviar = [c \in Colas |-> {}] /\ enVuelo = [c \in Colas |-> Nada]
    /\ conectado = {} /\ cortes = 0
    /\ pcGet = {} /\ pedidas = {}
    /\ pcL = [c \in Colas |-> "suscribe"] /\ recibido = [c \in Colas |-> Nada]
    /\ hilos = {}
    /\ getEnEspera = {} /\ catchEnEspera = Catches /\ recibidos = << >>
    /\ elementos = 0

\* A thread that follows a NULL ends the process, which nobody starts again.
Vive == \A h \in hilos : h.pc # "muere"

-----------------------------------------------------------------------------
(* The broker and the connections                                          *)

\* A LOCALIZED comes after the request it answers. It is sent on the connection of
\* its queue; without one, it is kept for the next subscription.
Publica(m) ==
    /\ m \in llegan \ publicados
    /\ De(m).id \in Necesarios => De(m).id \in pedidos
    /\ publicados' = publicados \cup {m}
    /\ porEnviar' = [c \in Colas |-> IF c \in conectado /\ c = De(m).cola
                                     THEN porEnviar[c] \cup {m} ELSE porEnviar[c]]
    /\ UNCHANGED <<llegan, pedidos, confirmados, enVuelo, conectado, cortes, solicitud, escucha,
                   hilos, registro>>

\* One message at a time, until it is acknowledged.
Envia(c) ==
    /\ c \in conectado /\ enVuelo[c] = Nada
    /\ \E m \in porEnviar[c] :
          /\ enVuelo' = [enVuelo EXCEPT ![c] = m]
          /\ porEnviar' = [porEnviar EXCEPT ![c] = @ \ {m}]
    /\ UNCHANGED <<broker, conectado, cortes, solicitud, escucha, hilos, registro>>

SeCorta(c) ==
    /\ c \in conectado /\ cortes < MaxCortes
    /\ conectado' = conectado \ {c}
    /\ enVuelo' = [enVuelo EXCEPT ![c] = Nada]
    /\ porEnviar' = [porEnviar EXCEPT ![c] = {}]
    /\ cortes' = cortes + 1
    /\ UNCHANGED <<broker, solicitud, escucha, hilos, registro>>

-----------------------------------------------------------------------------
(* The requests of main (solicitarPokemones)                               *)

especiesNecesarias == Necesarios \ (pedidas \cup pcGet)

\* The broker has the request, and may answer it, before its id is registered. If
\* the broker is down there are no places to be told of.
enviarGet ==
    /\ pcGet = {}
    /\ \E e \in especiesNecesarias :
          \/ /\ pedidos' = pedidos \cup {e}
             /\ pcGet' = {e}
             /\ UNCHANGED pedidas
          \/ /\ pedidas' = pedidas \cup {e}
             /\ UNCHANGED <<pedidos, pcGet>>
    /\ UNCHANGED <<llegan, publicados, confirmados, conexion, escucha, hilos, registro>>

registrarGetEnEspera ==
    /\ pcGet # {}
    /\ getEnEspera' = getEnEspera \cup pcGet
    /\ pedidas' = pedidas \cup pcGet
    /\ pcGet' = {}
    /\ UNCHANGED <<broker, conexion, escucha, hilos, catchEnEspera, recibidos, elementos>>

solicitarPokemones == Vive /\ (enviarGet \/ registrarGetEnEspera)

-----------------------------------------------------------------------------
(* The listeners (ServidorTeam.c)                                          *)

Copias(m) == {h \in hilos : h.m = m}
Primero == [APPEARED |-> "filtra", GAMEBOY |-> "filtra", LOCALIZED |-> "get", CAUGHT |-> "catch"]

\* The thread of a message, which does not go through what its queue does not need.
NuevoHilo(m) == [m |-> m, n |-> Cardinality(Copias(m)), pc |-> Primero[De(m).cola],
                 visto |-> SinNodo, cuenta |-> 0, dados |-> 0]

\* Mutant: what was lost with a connection is not asked for again.
SuscribeSinPendientes(c) ==
    /\ pcL[c] = "suscribe"
    /\ conectado' = conectado \cup {c}
    /\ pcL' = [pcL EXCEPT ![c] = "recibe"]
    /\ UNCHANGED <<broker, porEnviar, enVuelo, cortes, solicitud, recibido, hilos, registro>>

\* It is tried until the broker accepts it, and then sends what it kept.
subscribirseACola(c) ==
    /\ pcL[c] = "suscribe"
    /\ conectado' = conectado \cup {c}
    /\ porEnviar' = [porEnviar EXCEPT ![c] = {m \in publicados \ confirmados : De(m).cola = c}]
    /\ pcL' = [pcL EXCEPT ![c] = "recibe"]
    /\ UNCHANGED <<broker, enVuelo, cortes, solicitud, recibido, hilos, registro>>

Recibe(c) ==
    /\ pcL[c] = "recibe"
    /\ c \in conectado => enVuelo[c] # Nada
    /\ pcL' = [pcL EXCEPT ![c] = IF c \in conectado THEN "confirma" ELSE "suscribe"]
    /\ recibido' = [recibido EXCEPT ![c] = enVuelo[c]]
    /\ UNCHANGED <<broker, conexion, solicitud, hilos, registro>>

\* Mutant: the message is dropped once it was acknowledged.
ConfirmaYOlvida(c) ==
    /\ pcL[c] = "confirma"
    /\ confirmados' = IF c \in conectado THEN confirmados \cup {recibido[c]} ELSE confirmados
    /\ enVuelo' = [enVuelo EXCEPT ![c] = Nada]
    /\ pcL' = [pcL EXCEPT ![c] = IF c \in conectado THEN "recibe" ELSE "suscribe"]
    /\ UNCHANGED <<llegan, pedidos, publicados, porEnviar, conectado, cortes, solicitud, recibido,
                   hilos, registro>>

\* The acknowledgement comes before there is a thread. On a connection that broke, it
\* may leave without an error and never arrive.
Confirma(c) ==
    /\ pcL[c] = "confirma"
    /\ IF c \in conectado
       THEN /\ confirmados' = confirmados \cup {recibido[c]}
            /\ enVuelo' = [enVuelo EXCEPT ![c] = Nada]
            /\ pcL' = [pcL EXCEPT ![c] = "lanza"]
       ELSE /\ \E pc \in {"lanza", "suscribe"} : pcL' = [pcL EXCEPT ![c] = pc]
            /\ UNCHANGED <<confirmados, enVuelo>>
    /\ UNCHANGED <<llegan, pedidos, publicados, porEnviar, conectado, cortes, solicitud, recibido,
                   hilos, registro>>

Lanza(c) ==
    /\ pcL[c] = "lanza"
    /\ hilos' = hilos \cup {NuevoHilo(recibido[c])}
    /\ pcL' = [pcL EXCEPT ![c] = "recibe"]
    /\ UNCHANGED <<broker, conexion, solicitud, recibido, registro>>

Escucha(c) == Vive /\ (subscribirseACola(c) \/ Recibe(c) \/ Confirma(c) \/ Lanza(c))

esperarBrokerAppeared == Escucha("APPEARED")
esperarBrokerLocalized == Escucha("LOCALIZED")
esperarBrokerCaught == Escucha("CAUGHT")

\* The GameBoy connects without a queue; its thread processes what it sent, and
\* only then accepts another one.
atenderGameboy ==
    /\ Vive
    /\ \A h \in hilos : De(h.m).cola = "GAMEBOY" => h.pc = "fin"
    /\ \E m \in llegan :
          /\ De(m).cola = "GAMEBOY" /\ Copias(m) = {}
          /\ hilos' = hilos \cup {NuevoHilo(m)}
    /\ UNCHANGED <<broker, conexion, solicitud, escucha, registro>>

-----------------------------------------------------------------------------
(* The threads of the messages (ManejadorDeEventos.c)                      *)

Sigue(h, g) == hilos' = (hilos \ {h}) \cup {g}

\* Mutant: the request stays registered.
GetNoSeSaca(h) ==
    /\ h.pc = "get"
    /\ Sigue(h, [h EXCEPT !.pc = IF De(h.m).id \in getEnEspera THEN "mira" ELSE "tira"])
    /\ UNCHANGED <<broker, conexion, solicitud, escucha, registro>>

\* The request leaves the list under its mutex; a LOCALIZED without one is thrown away.
ConsultaGet(h) ==
    /\ h.pc = "get"
    /\ Sigue(h, [h EXCEPT !.pc = IF De(h.m).id \in getEnEspera THEN "mira" ELSE "tira"])
    /\ getEnEspera' = getEnEspera \ {De(h.m).id}
    /\ UNCHANGED <<broker, conexion, solicitud, escucha, catchEnEspera, recibidos, elementos>>

Tira(h) ==
    /\ h.pc = "tira"
    /\ Sigue(h, [h EXCEPT !.pc = "fin"])
    /\ UNCHANGED <<broker, conexion, solicitud, escucha, registro>>

\* The list of what was received has no mutex. As many nodes are looked at as were
\* counted, up to the one of this species.
Miradas == {De(recibidos[i][1]).especie : i \in {j \in DOMAIN recibidos : j <= elementos}}
FaltaUnNodo == elementos > Len(recibidos)

ConsultaRecibidos(h) ==
    /\ h.pc = "mira"
    /\ \/ De(h.m).especie \in Miradas /\ Sigue(h, [h EXCEPT !.pc = "fin"])
       \/ /\ De(h.m).especie \notin Miradas /\ ~FaltaUnNodo
          /\ Sigue(h, [h EXCEPT !.pc = "agrega"])
    /\ UNCHANGED <<broker, conexion, solicitud, escucha, registro>>

\* What list_get returns past the last node is NULL, and so is what list_add would
\* link to. The connections end with the process.
Muere(h) ==
    /\ FaltaUnNodo
    /\ h.pc = "agrega" \/ (h.pc = "mira" /\ De(h.m).especie \notin Miradas)
    /\ Sigue(h, [h EXCEPT !.pc = "muere"])
    /\ conectado' = {}
    /\ enVuelo' = [c \in Colas |-> Nada] /\ porEnviar' = [c \in Colas |-> {}]
    /\ UNCHANGED <<broker, cortes, solicitud, escucha, registro>>

pokemonEstaEnLista(e) == e \in Necesarios

Filtra(h) ==
    /\ h.pc = "filtra"
    /\ Sigue(h, [h EXCEPT !.pc = IF pokemonEstaEnLista(De(h.m).especie) THEN "agrega" ELSE "fin"])
    /\ UNCHANGED <<broker, conexion, solicitud, escucha, registro>>

\* list_add finds the last of the nodes that were counted, links the new one after it
\* (or makes it the first), and reads and writes the count. A node is named for the
\* thread that adds it; what hangs from a lost node is lost.
Nodo(h) == <<h.m, h.n>>
Ultimo == IF elementos = 0 THEN SinNodo ELSE recibidos[elementos]
Hasta(nodo) ==
    IF nodo = SinNodo THEN << >>
    ELSE SubSeq(recibidos, 1, SelectInSeq(recibidos, LAMBDA n : n = nodo))

Agrega(h) ==
    /\ h.pc = "agrega" /\ ~FaltaUnNodo
    /\ Sigue(h, [h EXCEPT !.pc = "enlaza", !.visto = Ultimo])
    /\ UNCHANGED <<broker, conexion, solicitud, escucha, registro>>

Enlaza(h) ==
    /\ h.pc = "enlaza"
    /\ recibidos' = IF h.visto \in ToSet(recibidos) \cup {SinNodo}
                    THEN Append(Hasta(h.visto), Nodo(h)) ELSE recibidos
    /\ Sigue(h, [h EXCEPT !.pc = "suma", !.visto = Nodo(h)])
    /\ UNCHANGED <<broker, conexion, solicitud, escucha, getEnEspera, catchEnEspera, elementos>>

Suma(h) ==
    /\ h.pc = "suma"
    /\ Sigue(h, [h EXCEPT !.pc = "guarda", !.cuenta = elementos + 1])
    /\ UNCHANGED <<broker, conexion, solicitud, escucha, registro>>

Guarda(h) ==
    /\ h.pc = "guarda"
    /\ elementos' = h.cuenta
    /\ Sigue(h, [h EXCEPT !.pc = "entrega", !.cuenta = 0])
    /\ UNCHANGED <<broker, conexion, solicitud, escucha, getEnEspera, catchEnEspera, recibidos>>

list_add(h) == Agrega(h) \/ Enlaza(h) \/ Suma(h) \/ Guarda(h)

\* Every place of a LOCALIZED is handed to the capture service; of an APPEARED, the
\* only one.
Entrega(h) ==
    /\ h.pc = "entrega"
    /\ IF h.dados < De(h.m).lugares
       THEN Sigue(h, [h EXCEPT !.dados = @ + 1])
       ELSE Sigue(h, [h EXCEPT !.pc = "fin"])
    /\ UNCHANGED <<broker, conexion, solicitud, escucha, registro>>

procesarLocalizedRecibido(h) ==
    /\ De(h.m).cola = "LOCALIZED"
    /\ ConsultaGet(h) \/ Tira(h) \/ ConsultaRecibidos(h) \/ Muere(h) \/ list_add(h) \/ Entrega(h)

procesarAppearedRecibido(h) ==
    /\ De(h.m).cola \in {"APPEARED", "GAMEBOY"}
    /\ Filtra(h) \/ Muere(h) \/ list_add(h) \/ Entrega(h)

\* The catch leaves the list under its mutex. What its result does, TeamPlanner says.
ConsultaCatch(h) ==
    /\ De(h.m).cola = "CAUGHT" /\ h.pc = "catch"
    /\ Sigue(h, [h EXCEPT !.pc = IF De(h.m).id \in catchEnEspera THEN "entrega" ELSE "fin"])
    /\ catchEnEspera' = catchEnEspera \ {De(h.m).id}
    /\ UNCHANGED <<broker, conexion, solicitud, escucha, getEnEspera, recibidos, elementos>>

procesarCaughtRecibido(h) == ConsultaCatch(h) \/ (De(h.m).cola = "CAUGHT" /\ Entrega(h))

procesarHilo(h) ==
    /\ Vive
    /\ procesarLocalizedRecibido(h) \/ procesarAppearedRecibido(h) \/ procesarCaughtRecibido(h)

Next ==
    \/ \E m \in Ids : De(m).cola # "GAMEBOY" /\ Publica(m)
    \/ \E c \in Colas : Envia(c) \/ SeCorta(c)
    \/ solicitarPokemones
    \/ esperarBrokerAppeared \/ esperarBrokerLocalized \/ esperarBrokerCaught
    \/ atenderGameboy
    \/ \E h \in hilos : procesarHilo(h)

\* The broker sends what it has to, and the threads go on while they can.
Spec ==
    /\ Init /\ [][Next]_vars
    /\ \A c \in Colas : WF_vars(Envia(c)) /\ WF_vars(Escucha(c))
    /\ WF_vars(\E h \in hilos : procesarHilo(h))

-----------------------------------------------------------------------------
(* Properties                                                              *)

TypeOK ==
    /\ pedidos \subseteq Necesarios /\ getEnEspera \subseteq Necesarios
    /\ confirmados \subseteq publicados /\ publicados \subseteq llegan
    /\ catchEnEspera \subseteq Catches
    /\ \A c \in Colas : /\ recibido[c] \in Ids \cup {Nada}
                        /\ porEnviar[c] # {} \/ enVuelo[c] # Nada => c \in conectado
    /\ ToSet(recibidos) \subseteq {Nodo(h) : h \in hilos}
    /\ \A h \in hilos : h.dados \in 0 .. De(h.m).lugares /\ h.n \in 0 .. MaxCortes

\* What the broker will not send again was handed to a thread of the process, or the
\* listener that acknowledged it is about to.
AckedIsProcessed ==
    \A m \in confirmados :
        Copias(m) # {} \/ \E c \in Colas : pcL[c] = "lanza" /\ recibido[c] = m

\* The process ends only after two threads added at once to the list that has no mutex
\* (ManejadorDeEventos.c:50, :98): one of the nodes is not in it.
Perdidos == {h \in hilos : h.visto = Nodo(h) /\ Nodo(h) \notin ToSet(recibidos)}
DiesOfLostNode == Vive \/ Perdidos # {}

\* No message is forgotten between its connection and its thread, and nothing but a
\* lost node ends the threads.
Attended == TypeOK /\ AckedIsProcessed /\ DiesOfLostNode

\* However often a connection breaks, the places of a species are told at most once
\* by a LOCALIZED, and a catch is answered at most once.
EntregadosDe(cola, e) == {h \in hilos : De(h.m).cola = cola /\ De(h.m).especie = e /\ h.dados > 0}
AnsweredOnce ==
    \A m \in Ids : De(m).cola \in {"LOCALIZED", "CAUGHT"} =>
        /\ Cardinality({h \in Copias(m) : h.dados > 0}) <= 1
        /\ De(m).cola = "LOCALIZED" =>
               Cardinality(EntregadosDe("LOCALIZED", De(m).especie)) <= 1

\* Whatever is published, there comes a moment when all of it is acknowledged and
\* processed, unless the process died (DiesOfLostNode says of what).
Procesado(m) == m \in confirmados /\ Copias(m) # {} /\ \A h \in Copias(m) : h.pc = "fin"
EveryMessageGetsThrough == []<>(~Vive \/ \A m \in publicados : Procesado(m))

=============================================================================
