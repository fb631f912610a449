-------------------------- MODULE MCFinalDeadlock --------------------------
(***************************************************************************)
(* A team of five whose eight pokemons are distributed in every way, and   *)
(* a ring of eight.                                                        *)
(***************************************************************************)
EXTENDS FinalDeadlock

CONSTANTS pikachu, squirtle, charmander, bulbasaur

Bolsa(s) == [e \in Especies |-> Cardinality({i \in DOMAIN s : s[i] = e})]

CincoEntrenadores ==
    << Bolsa(<<pikachu, squirtle>>), Bolsa(<<pikachu, pikachu, charmander>>),
       Bolsa(<<charmander>>), Bolsa(<<bulbasaur>>), Bolsa(<<squirtle>>) >>

\* The counters with as many pokemons as each trainer may hold.
Llenos(t) == {c \in [Especies -> 0 .. 3] : SumFunction(c) = limiteDeCaptura(t)}
Demanda == [e \in Especies |-> SumFunction([t \in Entrenadores |-> Objetivo[t][e]])]

TodosLosRepartos ==
    {caps \in IF Len(Objetivo) # 5 THEN {}
               ELSE {<<a, b, c, d, e>> : a \in Llenos(1), b \in Llenos(2), c \in Llenos(3),
                                         d \in Llenos(4), e \in Llenos(5)} :
        \A x \in Especies :
            caps[1][x] + caps[2][x] + caps[3][x] + caps[4][x] + caps[5][x] = Demanda[x]}

\* Eight trainers that wait for each other in a ring, each for the next.
OchoEspecies == 1 .. 8
Anillo == [t \in 1 .. 8 |-> [e \in OchoEspecies |-> IF e = (t % 8) + 1 THEN 1 ELSE 0]]
CadaUnoElSuyo == {[t \in 1 .. 8 |-> [e \in OchoEspecies |-> IF e = t THEN 1 ELSE 0]]}

=============================================================================
