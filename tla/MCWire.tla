------------------------------- MODULE MCWire -------------------------------
(***************************************************************************)
(* Two clients and a few messages for Wire: names of one and three bytes,  *)
(* no places, one and two, numbers of one and two bytes.                   *)
(***************************************************************************)
EXTENDS Wire

Abra == <<97, 98, 114>>
Msj(op, nombre, lugares, valor) ==
    [op |-> op, nombre |-> nombre, lugares |-> lugares, valor |-> valor,
     responde |-> IF op \in Pedidos THEN 0 ELSE 300]
Uno == << <<1, 513>> >>

Mensajes == { Msj("NEW", Abra, Uno, 7), Msj("APPEARED", <<99>>, Uno, 0),
              Msj("CATCH", Abra, Uno, 0), Msj("GET", <<99>>, << >>, 0),
              Msj("LOCALIZED", Abra, << >>, 0), Msj("LOCALIZED", <<99>>, Uno \o << <<2, 3>> >>, 0),
              Msj("CAUGHT", << >>, << >>, 1), Msj("CAUGHT", << >>, << >>, 2) }

=============================================================================
