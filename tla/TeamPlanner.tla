----------------------------- MODULE TeamPlanner -----------------------------
(***************************************************************************)
(* The Team process while it plays: the three planner threads, the threads *)
(* that process the events of the broker and main, which waits for every   *)
(* trainer to finish (team/src: ServicioDePlanificacion.c, Planificador.c, *)
(* ServicioDeCaptura.c, ManejadorDeEventos.c, TareaDeCaptura.c, ...).      *)
(*                                                                         *)
(* Threads interleave at the calls that read or write what they share. To  *)
(* change a trainer's queue is three steps, because the queues' mutexes    *)
(* only cover each list operation: look for it, take it out, put it in and *)
(* post. A trainer's own thread works only while the short term thread     *)
(* waits for it (TrainerThread), so its instructions are that thread's.    *)
(*                                                                         *)
(* The broker answers a catch with an id, and later with a Caught; if it   *)
(* is down, every catch succeeds at once.                                  *)
(***************************************************************************)
EXTENDS Team, FiniteSetsExt

CONSTANTS Inicio,           \* where each trainer starts and what it already has
          Pokemones,        \* the pokemons the process may hear of, each once
          BrokerArriba,     \* whether the broker is up
          Algoritmos,       \* those of ALGORITMO_PLANIFICACION: FIFO, RR, SJF_CD, SJF_SD
          Quantum,          \* of RR
          MaxPermisos       \* bound of the model: the permits a semaphore may pile up

Posiciones == [x : Nat, y : Nat]

ASSUME PlannerAssumption ==
    /\ Inicio \in [Entrenadores -> [pos : Posiciones, cap : Contadores]]
    /\ Pokemones \in Seq([especie : Especies, pos : Posiciones])
    /\ BrokerArriba \in BOOLEAN
    /\ Algoritmos \subseteq {"FIFO", "RR", "SJF_CD", "SJF_SD"}
    /\ Quantum \in Nat \ {0}
    /\ MaxPermisos \in Nat

Ids == DOMAIN Pokemones         \* ordenDeAparicion, and the catch of each pokemon
Capturas == <<"capturas">>
CortoPlazo == <<"corto plazo">>
Deadlocks == <<"deadlocks">>
Caught(p) == <<"caught", p>>    \* the thread that processes the answer to a catch
Hilos == {Capturas, CortoPlazo, Deadlocks} \cup {Caught(p) : p \in Ids}
Nadie == << >>

\* The queues, in the order obtenerEstadoDeUnidadPlanificable looks into them.
Colas == <<"EXIT", "BLOCK", "NEW", "READY", "EXEC">>
Ninguna == "ninguna"

VARIABLES
    \* the planner
    algoritmo,      \* the configured one
    colas,          \* the trainers of each queue
    sem,            \* the counting semaphores
    \* the trainers
    pos, cap,       \* where each one is and what it holds
    espera,         \* those whose estaEsperandoAlgo is set
    tarea,          \* the task of each one, SinTarea if none
    parcial,        \* rafaga_parcial_ejecutada
    mutex,          \* which thread holds each trainer's mutex
    \* the pokemons
    atrapables,     \* pokemonesAtrapables: their ids, oldest first
    libre,          \* those whose disponible is set
    mapa,           \* those that are on the map
    conocidos,      \* those the process heard of
    capturados,     \* contabilidadEspeciesActualizable
    \* the catches
    enviados,       \* those the broker got and did not answer yet
    enEspera,       \* listaCatchEnEspera: catch, trainer and pokemon object
    \* the threads
    pc,             \* where each thread is
    mueve,          \* the change of queue each thread is making
    lectura,        \* the lists the capture thread read
    turno,          \* whom the short term thread runs, and for how many cycles
    ronda,          \* the round of the deadlock thread: its place, its exchanges
    detectado,      \* the deadlocks reported to the metrics, NoDetectado before
    terminados,     \* how many times main got its semaphore
    caido           \* whether the process crashed

planner == <<colas, sem>>
trainers == <<pos, cap, espera, tarea, parcial>>
pokemons == <<atrapables, libre, mapa, conocidos>>
catches == <<enviados, enEspera>>
locals == <<lectura, turno, ronda>>
vars == <<planner, trainers, mutex, pokemons, capturados, catches, pc, mueve, locals,
          detectado, terminados, caido, algoritmo>>

SinTarea == [total |-> 0]
Quieto == [t |-> 0]
SinLectura == [disponibles |-> << >>, trabajo |-> << >>]
SinTurno == [t |-> 0, quedan |-> 0]
SinRonda == [a |-> 1, bloqueados |-> FALSE, intercambios |-> << >>]
NoDetectado == {{}}

necesarios(e) == SumFunction([t \in Entrenadores |-> Objetivo[t][e]])

\* configurarEstadoInicialProcesoTeam: everybody is in NEW, with a permit each.
Init ==
    /\ algoritmo \in Algoritmos
    /\ colas = [c \in Range(Colas) |-> IF c = "NEW" THEN [t \in Entrenadores |-> t] ELSE << >>]
    /\ sem = [pokemon |-> 0, libres |-> Len(Objetivo), ready |-> 0, deadlock |-> 0, objetivo |-> 0]
    /\ pos = [t \in Entrenadores |-> Inicio[t].pos]
    /\ cap = [t \in Entrenadores |-> Inicio[t].cap]
    /\ espera = {}
    /\ tarea = [t \in Entrenadores |-> SinTarea]
    /\ parcial = [t \in Entrenadores |-> 0]
    /\ mutex = [t \in Entrenadores |-> Nadie]
    /\ atrapables = << >> /\ libre = {} /\ mapa = {} /\ conocidos = {}
    /\ capturados = [e \in Especies |-> SumFunction([t \in Entrenadores |-> Inicio[t].cap[e]])]
    /\ enviados = {} /\ enEspera = {}
    /\ pc = [h \in Hilos |-> "espera"]
    /\ mueve = [h \in Hilos |-> Quieto]
    /\ lectura = SinLectura /\ turno = SinTurno /\ ronda = SinRonda
    /\ detectado = NoDetectado
    /\ terminados = 0
    /\ caido = FALSE

En(h, donde) == ~caido /\ pc[h] = donde
Va(h, donde) == pc' = [pc EXCEPT ![h] = donde]
Posts(s) == [sem EXCEPT ![s] = @ + 1]
Wait(s) == sem[s] > 0 /\ sem' = [sem EXCEPT ![s] = @ - 1]

-----------------------------------------------------------------------------
(* Changing a trainer's queue (Planificador.c)                             *)

obtenerEstado(t) ==
    LET i == SelectInSeq(Colas, LAMBDA c : Contains(colas[c], t))
    IN  IF i = 0 THEN Ninguna ELSE Colas[i]

\* moverACola looks the trainer up; one that is in no queue makes it use a mutex
\* and a list that do not exist. Then the thread goes on at luego.
moverACola(h, t, a, luego) ==
    IF obtenerEstado(t) = Ninguna
    THEN caido' = TRUE /\ UNCHANGED <<pc, mueve>>
    ELSE /\ mueve' = [mueve EXCEPT ![h] = [t |-> t, de |-> obtenerEstado(t), a |-> a, luego |-> luego]]
         /\ Va(h, "saca")
         /\ UNCHANGED caido

\* Mutant: the trainer stays where it was.
NoLaSaca(h) ==
    /\ En(h, "saca")
    /\ Va(h, "pone")
    /\ UNCHANGED <<planner, trainers, mutex, pokemons, capturados, catches, mueve, locals,
                   detectado, terminados, caido, algoritmo>>

Saca(h) ==
    /\ En(h, "saca")
    /\ colas' = [colas EXCEPT ![mueve[h].de] = RemoveFirst(@, mueve[h].t)]
    /\ Va(h, "pone")
    /\ UNCHANGED <<sem, trainers, mutex, pokemons, capturados, catches, mueve, locals,
                   detectado, terminados, caido, algoritmo>>

\* Mutants: main is told of the blocked ones; nobody is.
BloqueadoCuenta(a) == CASE a = "READY" -> {"ready"}
                        [] a \in {"EXIT", "BLOCK"} -> {"objetivo", "deadlock"}
                        [] OTHER -> {}
SinAvisoDeBloqueo(a) == CASE a = "READY" -> {"ready"}
                          [] a = "EXIT" -> {"objetivo", "deadlock"}
                          [] OTHER -> {}

\* Who is told that a trainer arrived in a queue.
Avisados(a) == CASE a = "READY" -> {"ready"}
                 [] a = "EXIT" -> {"objetivo", "deadlock"}
                 [] a = "BLOCK" -> {"deadlock"}
                 [] OTHER -> {}

Pone(h) ==
    /\ En(h, "pone")
    /\ \A s \in Avisados(mueve[h].a) : sem[s] < MaxPermisos
    /\ colas' = [colas EXCEPT ![mueve[h].a] = Append(@, mueve[h].t)]
    /\ sem' = [s \in DOMAIN sem |-> IF s \in Avisados(mueve[h].a) THEN sem[s] + 1 ELSE sem[s]]
    /\ Va(h, mueve[h].luego)
    /\ mueve' = [mueve EXCEPT ![h] = IF mueve[h].luego = "avisa" THEN @ ELSE Quieto]
    /\ UNCHANGED <<trainers, mutex, pokemons, capturados, catches, locals, detectado,
                   terminados, caido, algoritmo>>

\* What becomes of a trainer that ran, or whose catch was answered. A blocked one
\* gives its permit back in a step of its own.
definirYCambiarEstado(h, t) ==
    CASE tarea[t] # SinTarea -> moverACola(h, t, "READY", "suelta")
      [] tarea[t] = SinTarea /\ objetivoCompletado(t, cap[t]) -> moverACola(h, t, "EXIT", "suelta")
      [] OTHER -> moverACola(h, t, "BLOCK", "avisa")

\* Mutant: a trainer that waits for something is offered again.
NoLleno(t) == puedeAtraparPokemones(t, cap[t])

disponible(t) == t \notin espera /\ puedeAtraparPokemones(t, cap[t])

Avisa(h) ==
    /\ En(h, "avisa")
    /\ sem' = IF disponible(mueve[h].t) THEN Posts("libres") ELSE sem
    /\ mueve' = [mueve EXCEPT ![h] = Quieto]
    /\ Va(h, "suelta")
    /\ UNCHANGED <<colas, trainers, mutex, pokemons, capturados, catches, locals, detectado,
                   terminados, caido, algoritmo>>

Suelta(h) ==
    /\ En(h, "suelta")
    /\ mutex' = [t \in Entrenadores |-> IF mutex[t] = h THEN Nadie ELSE mutex[t]]
    /\ Va(h, IF h = CortoPlazo THEN "espera" ELSE "fin")
    /\ turno' = IF h = CortoPlazo THEN SinTurno ELSE turno
    /\ UNCHANGED <<planner, trainers, pokemons, capturados, catches, mueve, lectura, ronda,
                   detectado, terminados, caido, algoritmo>>

-----------------------------------------------------------------------------
(* A pokemon appears (ManejadorDeEventos.c, ServicioDeCaptura.c)           *)

puedeCapturarse(e) == necesarios(e) > capturados[e]

procesarPokemonCapturable(p) ==
    /\ ~caido
    /\ p \notin conocidos
    /\ conocidos' = conocidos \cup {p}
    /\ IF puedeCapturarse(Pokemones[p].especie)
       THEN /\ mapa' = mapa \cup {p}
            /\ libre' = libre \cup {p}
            /\ atrapables' = Append(atrapables, p)
            /\ sem' = Posts("pokemon")
       ELSE UNCHANGED <<mapa, libre, atrapables, sem>>
    /\ UNCHANGED <<colas, trainers, mutex, capturados, catches, pc, mueve, locals, detectado,
                   terminados, caido, algoritmo>>

\* An object is looked up by its species and place, which another one may share.
ComoEl(p) == SelectInSeq(atrapables, LAMBDA q : Pokemones[q] = Pokemones[p])
obtenerPokemonAtrapable(p) == IF ComoEl(p) = 0 THEN {} ELSE {atrapables[ComoEl(p)]}

\* Only a pokemon that is still on the map can be captured, once.
registrarCapturaExitosa(t, q) ==
    IF q \in mapa
    THEN /\ mapa' = mapa \ {q}
         /\ cap' = [cap EXCEPT ![t] = registrarCaptura(@, Pokemones[q].especie)]
         /\ atrapables' = IF ComoEl(q) = 0 THEN atrapables ELSE RemoveAt(atrapables, ComoEl(q))
         /\ espera' = espera \ {t}
    ELSE UNCHANGED <<mapa, cap, atrapables, espera>>

sumarUnCapturado(c, e) == [c EXCEPT ![e] = @ + 1]
restarUnCapturado(c, e) == [c EXCEPT ![e] = @ - 1]

\* A pokemon that got away leaves the map, not the list.
registrarCapturaFallida(t, q) ==
    LET e == Pokemones[q].especie
    IN  IF q \in mapa
        THEN /\ mapa' = mapa \ {q}
             /\ espera' = espera \ {t}
             /\ capturados' = restarUnCapturado(sumarUnCapturado(capturados, e), e)
        ELSE /\ capturados' = restarUnCapturado(capturados, e)
             /\ UNCHANGED <<mapa, espera>>

-----------------------------------------------------------------------------
(* The capture thread (planificadorDeCapturas)                             *)

EsperaPokemon ==
    /\ En(Capturas, "espera")
    /\ Wait("pokemon")
    /\ Va(Capturas, "permiso")
    /\ UNCHANGED <<colas, trainers, mutex, pokemons, capturados, catches, mueve, locals,
                   detectado, terminados, caido, algoritmo>>

EsperaEntrenador ==
    /\ En(Capturas, "permiso")
    /\ Wait("libres")
    /\ Va(Capturas, "lee")
    /\ UNCHANGED <<colas, trainers, mutex, pokemons, capturados, catches, mueve, locals,
                   detectado, terminados, caido, algoritmo>>

\* Mutant: the full ones are offered too.
TodosLosBloqueados == colas["NEW"] \o colas["BLOCK"]
armarListaEntrenadoresDisponibles == colas["NEW"] \o SelectSeq(colas["BLOCK"], disponible)
pokemonesDisponibles == SelectSeq(atrapables, LAMBDA p : p \in libre)

\* With a list empty, both permits are gone.
LeeListas ==
    /\ En(Capturas, "lee")
    /\ IF atrapables = << >> \/ (colas["BLOCK"] = << >> /\ colas["NEW"] = << >>)
       THEN Va(Capturas, "espera") /\ UNCHANGED lectura
       ELSE /\ lectura' = [disponibles |-> armarListaEntrenadoresDisponibles,
                           trabajo |-> pokemonesDisponibles]
            /\ Va(Capturas, "asigna")
    /\ UNCHANGED <<planner, trainers, mutex, pokemons, capturados, catches, mueve, turno,
                   ronda, detectado, terminados, caido, algoritmo>>

generarTareaDeCaptura(t, p) ==
    [total |-> distanciaEntre(pos[t], Pokemones[p].pos) + 1, hechas |-> 0,
     camino |-> generarCamino(pos[t], Pokemones[p].pos), captura |-> p]

MasCercanos(p, lista) ==
    {t \in ToSet(lista) : \A u \in ToSet(lista) :
        distanciaEntre(pos[t], Pokemones[p].pos) <= distanciaEntre(pos[u], Pokemones[p].pos)}

\* The oldest pokemon and one of the trainers next to it, if both lists have any.
asignarTareasDeCaptura ==
    /\ En(Capturas, "asigna")
    /\ lectura' = SinLectura
    /\ LET capturables == SelectSeq(lectura.trabajo, LAMBDA q : puedeCapturarse(Pokemones[q].especie))
           p == Head(capturables)
       IN  CASE capturables = << >> ->
                  /\ sem' = Posts("libres")
                  /\ Va(Capturas, "espera")
                  /\ UNCHANGED <<tarea, espera, libre, capturados, mueve, caido>>
             [] capturables # << >> /\ lectura.disponibles = << >> ->
                  /\ caido' = TRUE
                  /\ UNCHANGED <<sem, tarea, espera, libre, capturados, pc, mueve>>
             [] OTHER ->
                  \E t \in MasCercanos(p, lectura.disponibles) :
                     /\ tarea' = [tarea EXCEPT ![t] = generarTareaDeCaptura(t, p)]
                     /\ espera' = espera \cup {t}
                     /\ libre' = libre \ {p}
                     /\ capturados' = restarUnCapturado(capturados, Pokemones[p].especie)
                     /\ moverACola(Capturas, t, "READY", "espera")
                     /\ UNCHANGED sem
    /\ UNCHANGED <<colas, pos, cap, parcial, mutex, atrapables, mapa, conocidos, catches,
                   turno, ronda, detectado, terminados, algoritmo>>

planificadorDeCapturas ==
    \/ EsperaPokemon \/ EsperaEntrenador \/ LeeListas \/ asignarTareasDeCaptura
    \/ Saca(Capturas) \/ Pone(Capturas)

-----------------------------------------------------------------------------
(* The short term thread (planificadorDeCortoPlazo), and the trainer's own *)

\* Whoever may run next. The estimates of SJF never leave zero, so that any of
\* READY comes first; with preemption, any of those that ran the most.
proximoAEjecutar ==
    CASE algoritmo \in {"FIFO", "RR"} -> {Head(colas["READY"])}
      [] algoritmo = "SJF_SD" -> ToSet(colas["READY"])
      [] OTHER -> {t \in ToSet(colas["READY"]) :
                      \A u \in ToSet(colas["READY"]) : parcial[t] >= parcial[u]}

Menor(a, b) == IF a < b THEN a ELSE b
cantidadDeRafagas(t) ==
    CASE algoritmo \in {"FIFO", "SJF_SD"} -> tarea[t].total
      [] algoritmo = "RR" -> Menor(Quantum, tarea[t].total - tarea[t].hechas)
      [] OTHER -> 1

\* A ready trainer without a task is a NULL the thread reads through.
obtenerProximoAEjecutar ==
    /\ En(CortoPlazo, "espera")
    /\ Wait("ready")
    /\ IF colas["READY"] = << >>
       THEN UNCHANGED <<turno, pc, caido>>
       ELSE \E t \in proximoAEjecutar :
               IF tarea[t] = SinTarea
               THEN caido' = TRUE /\ UNCHANGED <<turno, pc>>
               ELSE /\ turno' = [t |-> t, quedan |-> cantidadDeRafagas(t)]
                    /\ Va(CortoPlazo, "toma")
                    /\ UNCHANGED caido
    /\ UNCHANGED <<colas, trainers, mutex, pokemons, capturados, catches, mueve, lectura,
                   ronda, detectado, terminados, algoritmo>>

TomaEntrenador ==
    /\ En(CortoPlazo, "toma")
    /\ mutex[turno.t] = Nadie
    /\ mutex' = [mutex EXCEPT ![turno.t] = CortoPlazo]
    /\ moverACola(CortoPlazo, turno.t, "EXEC", "corre")
    /\ UNCHANGED <<planner, trainers, pokemons, capturados, catches, locals, detectado, terminados, algoritmo>>

Corriendo == En(CortoPlazo, "corre") /\ turno.quedan > 0
Ultima(t) == tarea[t].hechas + 1 = tarea[t].total

\* One instruction done; luego is where the thread goes on.
Instruccion(t, luego) ==
    /\ tarea' = [tarea EXCEPT ![t].hechas = @ + 1]
    /\ turno' = [turno EXCEPT !.quedan = @ - 1]
    /\ Va(CortoPlazo, luego)

mover ==
    /\ Corriendo
    /\ LET t == turno.t
       IN  /\ ~Ultima(t)
           /\ pos' = [pos EXCEPT ![t] = tarea[t].camino[tarea[t].hechas + 1]]
           /\ Instruccion(t, "corre")
    /\ UNCHANGED <<planner, cap, espera, parcial, mutex, pokemons, capturados, catches, mueve,
                   lectura, ronda, detectado, terminados, caido, algoritmo>>

\* The broker is asked before the catch is registered. Without a broker the
\* pokemon is captured, and the trainer waits for nothing.
iniciarCaptura ==
    /\ Corriendo
    /\ LET t == turno.t
           q == obtenerPokemonAtrapable(tarea[t].captura)
       IN  /\ Ultima(t) /\ "captura" \in DOMAIN tarea[t]
           /\ IF q # {} /\ BrokerArriba
              THEN /\ enviados' = enviados \cup {tarea[t].captura}
                   /\ Instruccion(t, "registra")
                   /\ UNCHANGED <<mapa, cap, atrapables, espera>>
              ELSE /\ Instruccion(t, "corre")
                   /\ UNCHANGED enviados
                   /\ IF q = {} THEN UNCHANGED <<mapa, cap, atrapables, espera>>
                      ELSE \E uno \in q :
                             IF uno \in mapa THEN registrarCapturaExitosa(t, uno)
                             ELSE espera' = espera \ {t} /\ UNCHANGED <<mapa, cap, atrapables>>
    /\ UNCHANGED <<planner, pos, parcial, mutex, libre, conocidos, capturados, enEspera, mueve,
                   lectura, ronda, detectado, terminados, caido, algoritmo>>

registrarCatchEnEspera ==
    /\ En(CortoPlazo, "registra")
    /\ LET p == tarea[turno.t].captura
       IN  enEspera' = enEspera \cup
                {[id |-> p, t |-> turno.t, obj |-> q] : q \in obtenerPokemonAtrapable(p)}
    /\ espera' = espera \cup {turno.t}
    /\ Va(CortoPlazo, "corre")
    /\ UNCHANGED <<planner, pos, cap, tarea, parcial, mutex, pokemons, capturados, enviados,
                   mueve, locals, detectado, terminados, caido, algoritmo>>

intercambiarPokemones ==
    /\ Corriendo
    /\ LET t == turno.t
           i == tarea[t]
       IN  /\ Ultima(t) /\ "con" \in DOMAIN i
           /\ cap' = intercambiarPokemon(cap, t, i.con, i.entrega, i.recibe)
           /\ espera' = espera \ {t, i.con}
           /\ Instruccion(t, "corre")
    /\ UNCHANGED <<planner, pos, parcial, mutex, pokemons, capturados, catches, mueve, lectura,
                   ronda, detectado, terminados, caido, algoritmo>>

\* The turn is over: a finished task is destroyed, in a step of its own because
\* the next state depends on it.
FinDeTurno ==
    /\ En(CortoPlazo, "corre") /\ turno.quedan = 0
    /\ LET t == turno.t
           i == tarea[t]
       IN  /\ parcial' = [parcial EXCEPT ![t] = IF i.total = 1 THEN 0 ELSE i.hechas]
           /\ tarea' = [tarea EXCEPT ![t] = IF i.hechas = i.total THEN SinTarea ELSE @]
    /\ Va(CortoPlazo, "define")
    /\ UNCHANGED <<planner, pos, cap, espera, mutex, pokemons, capturados, catches, mueve,
                   locals, detectado, terminados, caido, algoritmo>>

DefineTurno ==
    /\ En(CortoPlazo, "define")
    /\ definirYCambiarEstado(CortoPlazo, turno.t)
    /\ UNCHANGED <<planner, trainers, mutex, pokemons, capturados, catches, locals, detectado,
                   terminados, algoritmo>>

planificadorDeCortoPlazo ==
    \/ obtenerProximoAEjecutar \/ TomaEntrenador \/ mover \/ iniciarCaptura
    \/ registrarCatchEnEspera \/ intercambiarPokemones \/ FinDeTurno \/ DefineTurno
    \/ Saca(CortoPlazo) \/ Pone(CortoPlazo) \/ Avisa(CortoPlazo) \/ Suelta(CortoPlazo)

-----------------------------------------------------------------------------
(* The deadlock thread (planificadorDeDeadlocks)                           *)

Completados == {i \in DOMAIN colas["BLOCK"] :
                   i >= ronda.a /\ objetivoCompletado(colas["BLOCK"][i], cap[colas["BLOCK"][i]])}

EsperaDeadlock ==
    /\ En(Deadlocks, "espera")
    /\ Wait("deadlock")
    /\ ronda' = SinRonda
    /\ Va(Deadlocks, "recorre")
    /\ UNCHANGED <<colas, trainers, mutex, pokemons, capturados, catches, mueve, lectura, turno,
                   detectado, terminados, caido, algoritmo>>

\* The loop goes on at the next place of a list that has lost an element.
RecorreBlocked ==
    /\ En(Deadlocks, "recorre")
    /\ IF Completados = {}
       THEN Va(Deadlocks, "evalua") /\ UNCHANGED <<mueve, ronda, caido>>
       ELSE /\ ronda' = [ronda EXCEPT !.a = Min(Completados) + 1]
            /\ moverACola(Deadlocks, colas["BLOCK"][Min(Completados)], "EXIT", "recorre")
    /\ UNCHANGED <<planner, trainers, mutex, pokemons, capturados, catches, lectura, turno,
                   detectado, terminados, algoritmo>>

\* The other queues are looked at after BLOCKED was.
evaluarEstadoPosibleDeadlock ==
    /\ En(Deadlocks, "evalua")
    /\ ronda' = [ronda EXCEPT !.bloqueados = \A t \in ToSet(colas["BLOCK"]) :
                    ~puedeAtraparPokemones(t, cap[t]) /\ ~objetivoCompletado(t, cap[t])]
    /\ Va(Deadlocks, "procesa")
    /\ UNCHANGED <<planner, trainers, mutex, pokemons, capturados, catches, mueve, lectura, turno,
                   detectado, terminados, caido, algoritmo>>

\* The exchanges of a pair; a trainer with nothing to spare is a NULL.
Intercambios(p) ==
    {[movil |-> p[1], con |-> p[2], entrega |-> e, recibe |-> r] :
        e \in buscarPokemonQueNecesitoEnElOtro(p[2], p[1], cap),
        r \in buscarPokemonQueNecesitoEnElOtro(p[1], p[2], cap)}

\* BLOCKED is read again; the first time its deadlocks are reported.
procesarDeadlock ==
    \E procesables \in {SelectSeq(colas["BLOCK"], LAMBDA t : t \notin espera)} :
    \E dependencias \in {crearListaDeDependencias(procesables, cap)} :
    \E pares \in {resolverDeadlock(dependencias)} :
       /\ detectado' = IF detectado = NoDetectado THEN detectarEnDetalle(dependencias) ELSE detectado
       /\ IF \E p \in ToSet(pares) : Intercambios(p) = {}
          THEN caido' = TRUE /\ UNCHANGED <<ronda, pc>>
          ELSE /\ \E lista \in [DOMAIN pares -> UNION {Intercambios(p) : p \in ToSet(pares)}] :
                     /\ \A i \in DOMAIN pares : lista[i] \in Intercambios(pares[i])
                     /\ ronda' = [ronda EXCEPT !.intercambios = lista]
               /\ Va(Deadlocks, "asigna")
               /\ UNCHANGED caido

ProcesaRonda ==
    /\ En(Deadlocks, "procesa")
    /\ IF ronda.bloqueados /\ \A c \in {"READY", "NEW", "EXEC"} : colas[c] = << >>
       THEN procesarDeadlock
       ELSE Va(Deadlocks, "espera") /\ UNCHANGED <<ronda, detectado, caido>>
    /\ UNCHANGED <<planner, trainers, mutex, pokemons, capturados, catches, mueve, lectura, turno,
                   terminados, algoritmo>>

generarTareaDeIntercambio(i) ==
    [total |-> distanciaEntre(pos[i.movil], pos[i.con]) + 1, hechas |-> 0,
     camino |-> generarCamino(pos[i.movil], pos[i.con]),
     con |-> i.con, entrega |-> i.entrega, recibe |-> i.recibe]

asignarIntercambios ==
    /\ En(Deadlocks, "asigna")
    /\ IF ronda.intercambios = << >>
       THEN Va(Deadlocks, "espera") /\ UNCHANGED <<tarea, espera, mueve, ronda, caido>>
       ELSE LET i == Head(ronda.intercambios)
            IN  /\ tarea' = [tarea EXCEPT ![i.movil] = generarTareaDeIntercambio(i)]
                /\ espera' = espera \cup {i.movil, i.con}
                /\ ronda' = [ronda EXCEPT !.intercambios = Tail(@)]
                /\ moverACola(Deadlocks, i.movil, "READY", "asigna")
    /\ UNCHANGED <<planner, pos, cap, parcial, mutex, pokemons, capturados, catches, lectura,
                   turno, detectado, terminados, algoritmo>>

planificadorDeDeadlocks ==
    \/ EsperaDeadlock \/ RecorreBlocked \/ evaluarEstadoPosibleDeadlock \/ ProcesaRonda
    \/ asignarIntercambios \/ Saca(Deadlocks) \/ Pone(Deadlocks)

-----------------------------------------------------------------------------
(* The threads of the answers (procesarCaughtRecibido)                     *)

EnEspera(p) == {c \in enEspera : c.id = p}

\* An answer nobody waits for, yet or any more, is thrown away.
\* One that is waited for leaves the list; here it stays for its thread to use.
ConsultaCatch(p) ==
    /\ En(Caught(p), "espera")
    /\ p \in enviados
    /\ enviados' = enviados \ {p}
    /\ Va(Caught(p), IF EnEspera(p) = {} THEN "fin" ELSE "toma")
    /\ UNCHANGED <<planner, trainers, mutex, pokemons, capturados, enEspera, mueve, locals,
                   detectado, terminados, caido, algoritmo>>

\* The trainer's mutex is taken, and the result, which may be any, is registered.
RegistraResultado(p) ==
    /\ En(Caught(p), "toma")
    /\ \E c \in EnEspera(p) :
          /\ mutex[c.t] = Nadie
          /\ mutex' = [mutex EXCEPT ![c.t] = Caught(p)]
          /\ \/ registrarCapturaExitosa(c.t, c.obj) /\ UNCHANGED capturados
             \/ registrarCapturaFallida(c.t, c.obj) /\ UNCHANGED <<cap, atrapables>>
    /\ Va(Caught(p), "define")
    /\ UNCHANGED <<planner, pos, tarea, parcial, libre, conocidos, catches, mueve, locals,
                   detectado, terminados, caido, algoritmo>>

\* Only BLOCKED is searched for the trainer, and NULL is not expected.
DefineEstado(p) ==
    /\ En(Caught(p), "define")
    /\ \E c \in EnEspera(p) :
          /\ enEspera' = enEspera \ {c}
          /\ IF Contains(colas["BLOCK"], c.t)
             THEN definirYCambiarEstado(Caught(p), c.t)
             ELSE caido' = TRUE /\ UNCHANGED <<pc, mueve>>
    /\ UNCHANGED <<planner, trainers, mutex, pokemons, capturados, enviados, locals, detectado,
                   terminados, algoritmo>>

procesarResultado(p) ==
    \/ RegistraResultado(p) \/ DefineEstado(p)
    \/ Saca(Caught(p)) \/ Pone(Caught(p)) \/ Avisa(Caught(p)) \/ Suelta(Caught(p))

procesarCaughtRecibido(p) == ConsultaCatch(p) \/ procesarResultado(p)

-----------------------------------------------------------------------------
\* Main waits for as many trainers as there are.
main ==
    /\ ~caido
    /\ terminados < Len(Objetivo)
    /\ Wait("objetivo")
    /\ terminados' = terminados + 1
    /\ UNCHANGED <<colas, trainers, mutex, pokemons, capturados, catches, pc, mueve, locals,
                   detectado, caido, algoritmo>>

Next ==
    \/ \E p \in Ids : procesarPokemonCapturable(p) \/ procesarCaughtRecibido(p)
    \/ planificadorDeCapturas \/ planificadorDeCortoPlazo \/ planificadorDeDeadlocks
    \/ main

\* Every thread goes on while it can; pokemons appear and answers come as they may.
Spec ==
    /\ Init /\ [][Next]_vars
    /\ WF_vars(planificadorDeCapturas)
    /\ WF_vars(planificadorDeCortoPlazo)
    /\ WF_vars(planificadorDeDeadlocks)
    /\ WF_vars(main)
    /\ \A p \in Ids : WF_vars(procesarResultado(p))

-----------------------------------------------------------------------------
(* Properties                                                              *)

Veces(t, s) == Cardinality({i \in DOMAIN s : s[i] = t})
EnManos(t) == {h \in Hilos : pc[h] = "pone" /\ mueve[h].t = t}

\* What the variables hold; a trainer waits for what it may get.
TypeOK ==
    /\ colas \in [Range(Colas) -> Seq(Entrenadores)]
    /\ sem \in [{"pokemon", "libres", "ready", "deadlock", "objetivo"} -> Nat]
    /\ pos \in [Entrenadores -> Posiciones] /\ cap \in [Entrenadores -> Contadores]
    /\ \A t \in Entrenadores : tarea[t] = SinTarea \/ tarea[t].hechas \in 0 .. tarea[t].total
    /\ ToSet(atrapables) \subseteq conocidos /\ libre \subseteq conocidos
    /\ \A e \in Especies : capturados[e] \in Int

\* A trainer is in one queue, once, or in the hands of the one thread that moves it.
OneQueue ==
    \A t \in Entrenadores :
        SumFunction([c \in Range(Colas) |-> Veces(t, colas[c])]) + Cardinality(EnManos(t)) = 1

\* Every trainer that may be sent for a pokemon has one permit, be it in the
\* semaphore, in the hands of the capture thread or about to be posted.
PermitPerTrainer ==
    sem.libres + (IF pc[Capturas] \in {"lee", "asigna"} THEN 1 ELSE 0)
      = Cardinality({t \in ToSet(colas["NEW"]) : t \notin espera})
        + Cardinality({t \in ToSet(colas["BLOCK"]) : disponible(t)})
        - Cardinality({h \in Hilos : pc[h] = "avisa" /\ disponible(mueve[h].t)})

\* A trainer with a task is ready, runs, or is on its way there.
TaskedAreReady ==
    \A t \in Entrenadores :
        tarea[t] # SinTarea =>
            \/ t \in ToSet(colas["READY"] \o colas["EXEC"])
            \/ \E h \in Hilos : mueve[h].t = t

\* Nobody captures more than its objective has.
NeverOverLimit == \A t \in Entrenadores : totalDePokemones(cap[t]) <= limiteDeCaptura(t)

\* The process ends when every trainer finished.
DoneWhenAllAre ==
    terminados = Len(Objetivo) => \A t \in Entrenadores : objetivoCompletado(t, cap[t])

\* A catch that waits for its answer: its trainer waits for nothing else, and the
\* pokemon is still on the map, so that the answer, either way, takes effect.
PendingCatches ==
    \A c \in enEspera : pc[Caught(c.id)] \in {"espera", "toma"} =>
        /\ c.t \in espera
        /\ c.obj \in mapa /\ Contains(atrapables, c.obj)
        /\ \A d \in enEspera : d.t = c.t => d = c

\* The planner threads do not crash.
NoCrash == ~caido

\* Every trainer is where what it does belongs, and can be found there.
InPlace == TypeOK /\ OneQueue /\ TaskedAreReady /\ NoCrash

\* Once every pokemon appeared, every trainer finishes.
Finishes == conocidos = Ids ~> terminados = Len(Objetivo)

-----------------------------------------------------------------------------
(* What the comments promise, and the code does not keep                   *)

\* "Si vienen N ejemplares pero necesito M < N, mando M entrenadores, NO mas"
\* (ejemplo_flujo_CATCH_CAUGHT.md:27): those sent for a species and what is held of
\* it are no more than what is needed.
Mandados(e) == {t \in Entrenadores : "captura" \in DOMAIN tarea[t]
                                        /\ Pokemones[tarea[t].captura].especie = e}
NoMoreThanNeeded ==
    \A e \in Especies :
        Cardinality(Mandados(e)) + SumFunction([t \in Entrenadores |-> cap[t][e]]) <= necesarios(e)

\* "Me llegan los hilos entrenadores llenos y bloqueados"
\* (ServicioDeResolucionDeDeadlocks.c:11): whoever is processed can capture no more.
OnlyFullAreProcessed ==
    [][detectado' # detectado => \A t \in ToSet(colas["BLOCK"]) \ espera :
                                    ~puedeAtraparPokemones(t, cap[t])]_vars

\* Whoever exchanges was registered in a deadlock; if not, "no deberia tener un
\* intercambio" (ServicioDeMetricas.c:91).
ExchangesAreRegistered ==
    \A i \in ToSet(ronda.intercambios) : \E d \in detectado : i.movil \in d

\* The handler finds the catch of "un CAUGHT con un id requerido por un entrenador"
\* (ejemplo_flujo_CATCH_CAUGHT.md:157): who is blocked and waits for no exchange has
\* a catch that was not answered, or whose answer is being processed.
NoForgottenCatch ==
    \A t \in ToSet(colas["BLOCK"]) :
        t \in espera => \/ \E c \in enEspera : c.t = t /\ (c.id \in enviados \/ pc[Caught(c.id)] = "toma")
                        \/ \E u \in Entrenadores : "con" \in DOMAIN tarea[u] /\ t \in {u, tarea[u].con}

\* "Se le avisa al ServicioDePlanificacion se determine su futuro"
\* (ejemplo_flujo_CATCH_CAUGHT.md:159): an answered trainer is found in BLOCKED.
AnsweredIsFound ==
    \A p \in Ids : pc[Caught(p)] = "define" => \A c \in EnEspera(p) : Contains(colas["BLOCK"], c.t)

=============================================================================
