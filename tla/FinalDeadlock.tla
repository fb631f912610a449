---------------------------- MODULE FinalDeadlock ----------------------------
(***************************************************************************)
(* The end of a Team: every pokemon is captured, nobody can capture more,  *)
(* and the trainers that hold what another one needs exchange pokemons two *)
(* by two (planificadorDeDeadlocks and definirYCambiarEstado of            *)
(* ServicioDePlanificacion.c, ServicioDeResolucionDeDeadlocks.c and        *)
(* ServicioDeMetricas.c).                                                  *)
(*                                                                         *)
(* A round of the deadlock thread is one step here, and so is an exchange, *)
(* the trainer's walk included: nothing else moves trainers at this time.  *)
(* TeamPlanner takes both apart.                                           *)
(***************************************************************************)
EXTENDS Team

CONSTANT Repartos       \* the ways the captured pokemons may be distributed

\* Every trainer is full, and what is held is what is wanted.
ASSUME RepartosAssumption ==
    \A caps \in Repartos :
        /\ caps \in [Entrenadores -> Contadores]
        /\ \A t \in Entrenadores : totalDePokemones(caps[t]) = limiteDeCaptura(t)
        /\ \A e \in Especies : SumFunction([t \in Entrenadores |-> caps[t][e]])
                             = SumFunction([t \in Entrenadores |-> Objetivo[t][e]])

VARIABLES
    cap,                \* pokemonesCapturados of each trainer
    espera,             \* the trainers whose estaEsperandoAlgo is set
    colaBlocked,        \* the blocked trainers, in order
    colaReady,          \* the trainers about to move for an exchange
    colaExit,           \* the trainers that finished, in order
    tarea,              \* the exchange of each of colaReady
    semaforoDeadlock,   \* the permits of the deadlock thread
    primeraVez,         \* whether the deadlocks were not reported yet
    deadlocks           \* the registered ones: their trainers, their exchanges

vars == <<cap, espera, colaBlocked, colaReady, colaExit, tarea, semaforoDeadlock,
          primeraVez, deadlocks>>

Equipo == [i \in Entrenadores |-> i]

\* Each trainer posted the semaphore when it was blocked.
Init ==
    /\ cap \in Repartos
    /\ espera = {}
    /\ colaBlocked = Equipo
    /\ colaReady = << >>
    /\ colaExit = << >>
    /\ tarea = [t \in {} |-> 0]
    /\ semaforoDeadlock = Len(Equipo)
    /\ primeraVez = TRUE
    /\ deadlocks = {}

-----------------------------------------------------------------------------
\* Mutant: only the trainer that moved leaves.
NadieSaleDeBlocked == << >>

\* The loop over colaBlocked takes the finished ones out of the list it walks,
\* so it skips whoever comes next after each of them.
SalenDeBlocked ==
    LET sale[i \in 0 .. Len(colaBlocked)] ==
            i > 0 /\ objetivoCompletado(colaBlocked[i], cap[colaBlocked[i]]) /\ ~sale[i - 1]
    IN  Filtrar(colaBlocked, {colaBlocked[i] : i \in {j \in DOMAIN colaBlocked : sale[j]}})

\* Only trainers that can neither capture nor finish are left.
evaluarEstadoPosibleDeadlock(blocked) ==
    /\ colaReady = << >>
    /\ \A t \in ToSet(blocked) : /\ ~puedeAtraparPokemones(t, cap[t])
                                 /\ ~objetivoCompletado(t, cap[t])

registrarDeadlocks(listas) ==
    deadlocks \cup {[entrenadores |-> l, intercambios |-> 0] : l \in listas}

\* One more for the deadlock the trainer was registered in, if any: the lists that
\* are kept have no name in common.
registrarIntercambios(registrados, moviles) ==
    {[d EXCEPT !.intercambios = @ + Cardinality(d.entrenadores \cap moviles)] : d \in registrados}

\* The exchanges of a pair, by which pokemons its two trainers may get.
generarTareaDeIntercambio(p) ==
    {[con |-> p[2], entrega |-> e, recibe |-> r] :
        e \in buscarPokemonQueNecesitoEnElOtro(p[2], p[1], cap),
        r \in buscarPokemonQueNecesitoEnElOtro(p[1], p[2], cap)}

asignarIntercambios(blocked, registrados, pares) ==
    LET moviles == [i \in DOMAIN pares |-> pares[i][1]]
        posibles == [i \in DOMAIN pares |-> generarTareaDeIntercambio(pares[i])]
    IN  \E n \in [DOMAIN pares -> UNION Range(posibles)] :
          /\ \A i \in DOMAIN pares : n[i] \in posibles[i]
          /\ tarea' = [m \in ToSet(moviles) |-> n[SelectInSeq(moviles, LAMBDA x : x = m)]]
          /\ espera' = espera \cup UNION {ToSet(p) : p \in ToSet(pares)}
          /\ colaReady' = colaReady \o moviles
          /\ colaBlocked' = Filtrar(blocked, ToSet(blocked) \ ToSet(moviles))
          /\ deadlocks' = registrarIntercambios(registrados, ToSet(moviles))

\* The trainers that wait for nothing; the first time their deadlocks are reported.
procesarDeadlock(blocked) ==
    /\ primeraVez' = FALSE
    /\ \E procesables \in {Filtrar(blocked, ToSet(blocked) \ espera)} :
       \E dependencias \in {crearListaDeDependencias(procesables, cap)} :
       \E pares \in {resolverDeadlock(dependencias)} :
       \E registrados \in {IF primeraVez THEN registrarDeadlocks(detectarEnDetalle(dependencias))
                                         ELSE deadlocks} :
          asignarIntercambios(blocked, registrados, pares)

\* One round of the deadlock thread, once it has a permit.
planificadorDeDeadlocks ==
    /\ semaforoDeadlock > 0
    /\ UNCHANGED cap
    /\ \E salen \in {SalenDeBlocked} :
       \E blocked \in {Filtrar(colaBlocked, ToSet(colaBlocked) \ ToSet(salen))} :
          /\ semaforoDeadlock' = semaforoDeadlock - 1 + Len(salen)
          /\ colaExit' = colaExit \o salen
          /\ IF evaluarEstadoPosibleDeadlock(blocked)
             THEN procesarDeadlock(blocked)
             ELSE /\ colaBlocked' = blocked
                  /\ UNCHANGED <<espera, colaReady, tarea, primeraVez, deadlocks>>

\* The trainer walks to the other one, they exchange, and its next state is set.
planificadorDeCortoPlazo ==
    /\ colaReady # << >>
    /\ LET t == Head(colaReady)
           i == tarea[t]
           caps == intercambiarPokemon(cap, t, i.con, i.entrega, i.recibe)
       IN  /\ cap' = caps
           /\ espera' = espera \ {t, i.con}
           /\ IF objetivoCompletado(t, caps[t])
              THEN colaExit' = Append(colaExit, t) /\ UNCHANGED colaBlocked
              ELSE colaBlocked' = Append(colaBlocked, t) /\ UNCHANGED colaExit
           /\ tarea' = [m \in DOMAIN tarea \ {t} |-> tarea[m]]
    /\ colaReady' = Tail(colaReady)
    /\ semaforoDeadlock' = semaforoDeadlock + 1
    /\ UNCHANGED <<primeraVez, deadlocks>>

Next == planificadorDeDeadlocks \/ planificadorDeCortoPlazo

\* Each of the two threads goes on while it has a permit.
Spec == Init /\ [][Next]_vars /\ WF_vars(planificadorDeDeadlocks)
                              /\ WF_vars(planificadorDeCortoPlazo)

-----------------------------------------------------------------------------
(* Properties                                                              *)

\* Every trainer is in one of the three queues, once; who waits is in an exchange.
TypeOK ==
    /\ cap \in [Entrenadores -> Contadores]
    /\ LET todos == colaBlocked \o colaReady \o colaExit
       IN  /\ ToSet(todos) = Entrenadores
           /\ Len(todos) = Cardinality(Entrenadores)
    /\ DOMAIN tarea = ToSet(colaReady)
    /\ espera = DOMAIN tarea \cup {tarea[t].con : t \in DOMAIN tarea}
    /\ semaforoDeadlock \in Nat
    /\ primeraVez \in BOOLEAN

Deficit(caps) ==
    SumFunction([t \in Entrenadores |-> totalDePokemones(Falta(t, caps[t]))])

\* Each exchange leaves the team with fewer pokemons to get, so the greedy pairing
\* of resolverDeadlock and the spare pokemon buscarPokemonQueNecesitoEnElOtro falls
\* back on never undo what earlier exchanges achieved.
EveryExchangeHelps == [][planificadorDeCortoPlazo => Deficit(cap') < Deficit(cap)]_vars

\* Who is linked with whom, directly or through others, by what they lack.
Espera(a, b) == a # b /\ hayDependencias(Sobra(b, cap[b]), Falta(a, cap[a]))
Enlazados(S) == S \cup {b \in Entrenadores : \E a \in S : Espera(a, b) \/ Espera(b, a)}
Componente(t) ==
    LET n == Cardinality(Entrenadores)
        f[i \in 0 .. n] == IF i = 0 THEN {t} ELSE UNION {Enlazados(S) : S \in {f[i - 1]}}
    IN  f[n]

\* The lists reported to the metrics are "1 lista por conjunto de procesos en
\* deadlock" (ServicioDeResolucionDeDeadlocks.c:117): the connected components of
\* the waits, each whole and once.
DeadlocksAreComponents ==
    [][primeraVez /\ ~primeraVez' =>
          {d.entrenadores : d \in deadlocks'}
              = {Componente(t) : t \in {u \in Entrenadores : ~objetivoCompletado(u, cap[u])}}]_vars

Intercambios(registrados) ==
    MapThenSumSet(LAMBDA d : d.intercambios, registrados)

\* Every exchange that is assigned is counted in a registered deadlock: the report
\* is made once, and later rounds pair trainers of the same deadlocks
\* (ServicioDeMetricas.c:82-92).
ExchangesCounted ==
    [][Intercambios(deadlocks') - Intercambios(deadlocks)
         = Cardinality(DOMAIN tarea' \ DOMAIN tarea)]_vars

\* The report of the metrics is right, and every trainer stays in one queue.
DeadlocksAreReported == []TypeOK /\ DeadlocksAreComponents /\ ExchangesCounted

\* Every circular wait is dissolved: all the trainers reach EXIT.
Dissolves == <>(ToSet(colaExit) = Entrenadores)

=============================================================================
