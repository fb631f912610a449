---------------------------- MODULE MCTeamPlanner ----------------------------
(***************************************************************************)
(* Small teams for TeamPlanner, and the pokemons they hear of.             *)
(***************************************************************************)
EXTENDS TeamPlanner

CONSTANTS pikachu, squirtle, charmander

En1(i) == [x |-> i, y |-> 1]
Bolsa(s) == [e \in Especies |-> Cardinality({i \in DOMAIN s : s[i] = e})]
Nada == Bolsa(<< >>)
Un(e, i) == [especie |-> e, pos |-> En1(i)]

\* One each, for whoever comes first: they may have to exchange.
UnoYUno == << Bolsa(<<pikachu>>), Bolsa(<<squirtle>>) >>
Separados == << [pos |-> En1(1), cap |-> Nada], [pos |-> En1(3), cap |-> Nada] >>
PikachuYSquirtle == << Un(pikachu, 2), Un(squirtle, 3) >>

\* Three trainers in a row.
EnFila == [i \in 1 .. 3 |-> [pos |-> En1(i), cap |-> Nada]]

\* Two trainers, the first with two to capture.
DosYUno == << Bolsa(<<pikachu, squirtle>>), Bolsa(<<squirtle>>) >>
TresPokemones == << Un(pikachu, 2), Un(squirtle, 3), Un(squirtle, 1) >>

\* Three trainers, one pokemon each; two of them get each other's.
UnoCadaUno == << Bolsa(<<pikachu>>), Bolsa(<<squirtle>>), Bolsa(<<pikachu>>) >>
Cambiados == << Un(squirtle, 1), Un(pikachu, 2), Un(pikachu, 3) >>

\* One trainer; two pikachus, more than it needs, at one place.
UnoSolo == << Bolsa(<<pikachu>>) >>
Aislado == << [pos |-> En1(2), cap |-> Nada] >>
DosIguales == << Un(pikachu, 2), Un(pikachu, 2) >>
DosPikachus == << Un(pikachu, 1), Un(pikachu, 3) >>

\* The first one is full from the start, with what the other one needs.
Lleno == << [pos |-> En1(2), cap |-> Bolsa(<<squirtle>>)], [pos |-> En1(3), cap |-> Nada] >>

\* Three trainers that may get each other's.
UnoDeCada == << Bolsa(<<pikachu>>), Bolsa(<<squirtle>>), Bolsa(<<charmander>>) >>
TresDistintos == << Un(squirtle, 1), Un(charmander, 2), Un(pikachu, 3) >>

=============================================================================
