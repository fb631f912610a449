-------------------------------- MODULE Team --------------------------------
(***************************************************************************)
(* The operators the Team process is built from: what a trainer wants, has *)
(* and may trade, how it walks, and the lists with which the deadlock      *)
(* service finds and dissolves circular waits (team/src/modelo,            *)
(* ServicioDeResolucionDeDeadlocks.c, libs ExtensionColecciones.c).        *)
(*                                                                         *)
(* A trainer is its place in the team, a species a model value, a counter  *)
(* of pokemons a function from species to numbers: a dictionary without    *)
(* the key and one that maps it to zero answer alike. A list of names is a *)
(* sequence where its order decides something, and otherwise the set of    *)
(* its names. The order in which a dictionary is walked is not part of the *)
(* model: where it decides which pokemon is taken, any of them may be.     *)
(***************************************************************************)
EXTENDS Integers, Sequences, FiniteSets, Functions, SequencesExt

CONSTANTS Especies,     \* the species of the pokemons
          Objetivo      \* what each trainer of the team has to capture

Entrenadores == DOMAIN Objetivo
Contadores == [Especies -> Nat]

ASSUME TeamAssumption ==
    /\ IsFiniteSet(Especies)
    /\ Objetivo \in Seq(Contadores)

-----------------------------------------------------------------------------
(* A trainer (Entrenador.c)                                                *)

totalDePokemones(c) == SumFunction(c)

\* A trainer never holds more pokemons than it wants.
limiteDeCaptura(t) == totalDePokemones(Objetivo[t])
puedeAtraparPokemones(t, cap) == totalDePokemones(cap) < limiteDeCaptura(t)

\* Only the species of the objective are looked at.
objetivoCompletado(t, cap) ==
    \A e \in Especies : Objetivo[t][e] > 0 => cap[e] = Objetivo[t][e]

registrarCaptura(cap, e) == [cap EXCEPT ![e] = @ + 1]
quitarPokemon(cap, e) == [cap EXCEPT ![e] = IF @ > 0 THEN @ - 1 ELSE @]

reemplazarPokemonCapturadoPor(cap, previa, nueva) ==
    IF cap[previa] > 0 THEN registrarCaptura(quitarPokemon(cap, previa), nueva)
                       ELSE cap

\* Mutant: each gives what it should get.
intercambiarAlReves(caps, movil, estatico, e, r) ==
    IF caps[movil][r] > 0 /\ caps[estatico][e] > 0
    THEN [caps EXCEPT ![movil] = reemplazarPokemonCapturadoPor(@, r, e),
                      ![estatico] = reemplazarPokemonCapturadoPor(@, e, r)]
    ELSE caps

\* The captures of a team once movil gave an e to estatico for an r of its own.
intercambiarPokemon(caps, movil, estatico, e, r) ==
    IF caps[movil][e] > 0 /\ caps[estatico][r] > 0
    THEN [caps EXCEPT ![movil] = reemplazarPokemonCapturadoPor(@, e, r),
                      ![estatico] = reemplazarPokemonCapturadoPor(@, r, e)]
    ELSE caps

-----------------------------------------------------------------------------
(* The way from one place to another (Movimiento.c): first along x.        *)

Distancia(a, b) == IF a > b THEN a - b ELSE b - a
Hacia(a, b) == IF b > a THEN 1 ELSE -1

generarCamino(origen, destino) ==
    [i \in 1 .. Distancia(origen.x, destino.x) |->
        [x |-> origen.x + Hacia(origen.x, destino.x) * i, y |-> origen.y]]
    \o [i \in 1 .. Distancia(origen.y, destino.y) |->
        [x |-> destino.x, y |-> origen.y + Hacia(origen.y, destino.y) * i]]

distanciaEntre(origen, destino) == Len(generarCamino(origen, destino))

-----------------------------------------------------------------------------
(* Lists of names (ExtensionColecciones.c)                                 *)

\* The elements of a list that are in S, in their order.
Filtrar(lista, S) ==
    LET hasta[i \in 0 .. Len(lista)] ==
            IF i = 0 THEN << >>
            ELSE IF lista[i] \in S THEN Append(hasta[i - 1], lista[i]) ELSE hasta[i - 1]
    IN  hasta[Len(lista)]

hayElementoEnComun(lista1, lista2) == lista1 \cap lista2 # {}

\* restarPrimerListaASegunda on lists that hold a name once per pokemon. Its
\* recursion compares a freed string with what is left, which equals no name.
Resto(c, d) == [e \in Especies |-> IF c[e] > d[e] THEN c[e] - d[e] ELSE 0]

Falta(t, cap) == Resto(Objetivo[t], cap)     \* what t still needs
Sobra(t, cap) == Resto(cap, Objetivo[t])     \* what t has beyond its objective

-----------------------------------------------------------------------------
(* The deadlocks (ServicioDeResolucionDeDeadlocks.c)                       *)

hayDependencias(sobra, falta) == \E e \in Especies : sobra[e] > 0 /\ falta[e] > 0

\* Who, of a list, has what each of the others lacks; nobody's entry is empty.
crearListaDeDependencias(lista, caps) ==
    LET Espera(a, b) == a # b /\ hayDependencias(Sobra(b, caps[b]), Falta(a, caps[a]))
        Todas == [i \in DOMAIN lista |->
                    [nombre |-> lista[i],
                     de |-> Filtrar(lista, {b \in ToSet(lista) : Espera(lista[i], b)})]]
    IN  Filtrar(Todas, {d \in ToSet(Todas) : d.de # << >>})

Nombres(d) == {d.nombre} \cup ToSet(d.de)
hayDependenciaEnComun(d, e) == hayElementoEnComun(Nombres(d), Nombres(e))

\* Whom an entry and those that share a name with it wait for.
UnDeadlock(d, dependencias) ==
    UNION {ToSet(d.de) \cup ToSet(e.de) :
              e \in {f \in ToSet(dependencias) : hayDependenciaEnComun(d, f)}}

\* Mutant: the lists are left as they are.
noSumarListas(listas) == listas

\* Each list together with the ones it meets: only one step of the closure.
sumarListasSiHayMatch(listas) ==
    [i \in DOMAIN listas |->
        listas[i] \cup UNION {l \in Range(listas) : hayElementoEnComun(listas[i], l)}]

\* The lists that meet none of those kept before them.
eliminarListasRepetidas(listas) ==
    LET queda[i \in DOMAIN listas] ==
            \A j \in 1 .. i - 1 : hayElementoEnComun(listas[i], listas[j]) => ~queda[j]
    IN  {listas[i] : i \in {j \in DOMAIN listas : queda[j]}}

\* The deadlocks that detectarEnDetalleYLogear reports to the metrics.
\* (TLC evaluates the elements of a set once, and an operator's argument at each use.)
detectarEnDetalle(dependencias) ==
    LET deadlocksTotales == [i \in DOMAIN dependencias |-> UnDeadlock(dependencias[i], dependencias)]
    IN  UNION {eliminarListasRepetidas(aux) :
                  aux \in {sumarListasSiHayMatch(listas) : listas \in {deadlocksTotales}}}

\* The pair of an entry: if it is free, it moves to the first free trainer it waits for.
Par(d, ocupados) ==
    LET libres == Filtrar(d.de, ToSet(d.de) \ ocupados)
    IN  IF d.nombre \in ocupados \/ libres = << >> THEN << >> ELSE <<d.nombre, libres[1]>>

\* Greedy pairs, in order. involucrados[i] are those paired by the first i entries.
resolverDeadlock(dependencias) ==
    LET involucrados[i \in 0 .. Len(dependencias)] ==
            IF i = 0 THEN {}
            ELSE UNION {o \cup ToSet(Par(dependencias[i], o)) : o \in {involucrados[i - 1]}}
        pares == [i \in DOMAIN dependencias |-> Par(dependencias[i], involucrados[i - 1])]
    IN  Filtrar(pares, ToSet(pares) \ {<< >>})

\* The pokemons that busca may get from da: one it needs, or one da can spare.
buscarPokemonQueNecesitoEnElOtro(busca, da, caps) ==
    LET falta == Falta(busca, caps[busca])
        sobra == Sobra(da, caps[da])
        necesarios == {e \in Especies : falta[e] > 0 /\ sobra[e] > 0}
    IN  IF necesarios # {} THEN necesarios ELSE {e \in Especies : sobra[e] > 0}

=============================================================================
