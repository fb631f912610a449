-------------------------------- MODULE Wire --------------------------------
(***************************************************************************)
(* A message byte by byte, from the client that sends it through the cache *)
(* of the broker to a subscriber of its queue (libs/src: the files of the  *)
(* messages and utils.c; broker/src: server.c, serialization.c and what    *)
(* broker.c does with them; gameboy/src: ControladorBroker.c).             *)
(*                                                                         *)
(* Three layouts of a message have to agree: the one on the connection of  *)
(* the client, which ends in a '\0' and may be followed by the id of the   *)
(* request it answers in a send of its own; the one in the cache, without  *)
(* the '\0'; and the one a subscriber reads, with the '\0' and an id. The  *)
(* sizes of the three are counted apart from the bytes.                    *)
(*                                                                         *)
(* A connection is the sequence of the bytes that were sent and not read.  *)
(* What one send sends arrives whole. The subscribers are there from the   *)
(* start and stay (Delivery has the others), and every message fits in     *)
(* memory (BuddyMemory and DynamicMemory have the memory).                 *)
(***************************************************************************)
EXTENDS Integers, FiniteSets, SequencesExt

CONSTANTS Clientes,         \* the clients, each with one message
          Catalogo          \* the messages they may have

Codigo == [NEW |-> 1, LOCALIZED |-> 2, GET |-> 3, APPEARED |-> 4, CATCH |-> 5, CAUGHT |-> 6]
Colas == DOMAIN Codigo
Pedidos == {"NEW", "GET", "CATCH"}      \* the others answer one of these

Byte == 0 .. 255
Nat16 == 0 .. 65535         \* the integers of this model, which take four bytes

ASSUME WireAssumption ==
    /\ IsFiniteSet(Clientes)
    /\ Catalogo \subseteq [op : Colas, nombre : Seq(1 .. 127), lugares : Seq(Nat16 \X Nat16),
                           valor : Nat16, responde : Nat16]
    /\ \A m \in Catalogo : m.op \in {"NEW", "APPEARED", "CATCH"} => Len(m.lugares) = 1

-----------------------------------------------------------------------------
(* Bytes                                                                   *)

Word(n) == <<n % 256, n \div 256, 0, 0>>
Value(w) == w[1] + 256 * w[2] + 65536 * (w[3] + 256 * (w[4] % 128))
At(s, i) == Value(SubSeq(s, i, i + 3))
From(s, i) == SubSeq(s, i, Len(s))

strlen(s) == SelectInSeq(s, LAMBDA b : b = 0) - 1

\* malloc(bytes) and then memcpy: what is not written holds any byte, here 255.
Buffer(s, bytes) ==
    IF bytes <= Len(s) THEN SubSeq(s, 1, bytes) ELSE s \o [i \in 1 .. bytes - Len(s) |-> 255]

-----------------------------------------------------------------------------
(* The messages (libs)                                                     *)

\* The message as the client builds it; the size of a name counts its '\0'.
create_name(n) == [size |-> Len(n) + 1, value |-> Append(n, 0)]
create(m) == [name |-> create_name(m.nombre), coordinates |-> m.lugares, value |-> m.valor]

calculate_pokemon_bytes(o) == 4 + 4 + 8 * Len(o.coordinates) + strlen(o.name.value) + 1
calculate_new_bytes(o) == 4 + calculate_pokemon_bytes(o)
calculate_get_bytes(o) == 4 + 4 + strlen(o.name.value) + 1
calculate_caught_bytes == 4 * 2

\* Mutant: the number of places is forgotten.
SinLaCantidad(o) == calculate_pokemon_bytes(o)
calculate_localized_bytes(o) == 4 + calculate_pokemon_bytes(o)

calculate_bytes(op, o) ==
    CASE op = "NEW" -> calculate_new_bytes(o)
      [] op \in {"APPEARED", "CATCH"} -> calculate_pokemon_bytes(o)
      [] op = "GET" -> calculate_get_bytes(o)
      [] op = "LOCALIZED" -> calculate_localized_bytes(o)
      [] op = "CAUGHT" -> calculate_caught_bytes

Coordinates(o) == FlattenSeq([i \in DOMAIN o.coordinates |->
                                 Word(o.coordinates[i][1]) \o Word(o.coordinates[i][2])])

\* What follows the name; the same on the connections and in the cache.
AfterName(op, o) ==
    CASE op = "NEW" -> Coordinates(o) \o Word(o.value)
      [] op \in {"APPEARED", "CATCH"} -> Coordinates(o)
      [] op = "GET" -> << >>
      [] op = "LOCALIZED" -> Word(Len(o.coordinates)) \o Coordinates(o)

serialize(op, o) ==
    Word(Codigo[op]) \o
    IF op = "CAUGHT" THEN Word(o.value)
    ELSE Word(o.name.size) \o SubSeq(o.name.value, 1, o.name.size) \o AfterName(op, o)

\* recv: at most one result, with what is left to read; none while bytes are missing.
recv_name(s) ==
    {[name |-> [size |-> n, value |-> SubSeq(s, 5, 4 + n)], resto |-> From(s, 5 + n)] :
        n \in {k \in IF Len(s) < 4 THEN {} ELSE {At(s, 1)} : Len(s) >= 4 + k}}

recv_coordinate(s, i) == <<At(s, i), At(s, i + 4)>>

\* Several coordinates come after their number.
recv_coordinates(s, multiple) ==
    LET cuantas == IF ~multiple THEN {1} ELSE IF Len(s) < 4 THEN {} ELSE {At(s, 1)}
        desde == IF multiple THEN 5 ELSE 1
    IN {[coordinates |-> [i \in 1 .. k |-> recv_coordinate(s, desde + 8 * (i - 1))],
         resto |-> From(s, desde + 8 * k)] : k \in {j \in cuantas : Len(s) >= desde - 1 + 8 * j}}

recv_pokemon(s, multiple) ==
    UNION {{[name |-> n.name, coordinates |-> c.coordinates, value |-> 0, resto |-> c.resto] :
               c \in recv_coordinates(n.resto, multiple)} : n \in recv_name(s)}

recv_new(s) ==
    {[p EXCEPT !.value = At(p.resto, 1), !.resto = From(@, 5)] :
        p \in {q \in recv_pokemon(s, FALSE) : Len(q.resto) >= 4}}

recv_get(s) == {[name |-> n.name, coordinates |-> << >>, value |-> 0, resto |-> n.resto] :
                   n \in recv_name(s)}

recv_localized(s) == recv_pokemon(s, TRUE)

recv_caught(s) ==
    IF Len(s) < 4 THEN {}
    ELSE {[name |-> create_name(<< >>), coordinates |-> << >>, value |-> At(s, 1),
           resto |-> From(s, 5)]}

recv_message(op, s) ==
    CASE op = "NEW" -> recv_new(s)
      [] op \in {"APPEARED", "CATCH"} -> recv_pokemon(s, FALSE)
      [] op = "GET" -> recv_get(s)
      [] op = "LOCALIZED" -> recv_localized(s)
      [] op = "CAUGHT" -> recv_caught(s)

-----------------------------------------------------------------------------
(* The cache (serialization.c)                                             *)

calculate_message_size(op, o) == calculate_bytes(op, o) - 4 - IF op = "CAUGHT" THEN 0 ELSE 1

\* The name is kept without its '\0'.
serialize_data(op, o, bytes) ==
    LET size == o.name.size - 1
    IN Buffer(IF op = "CAUGHT" THEN Word(o.value)
              ELSE Word(size) \o SubSeq(o.name.value, 1, size) \o AfterName(op, o), bytes)

\* Mutant: every message goes out with its own id.
SiempreSuId(p, bytes) ==
    LET n == At(p.datos, 1)
    IN Buffer(Word(Codigo[p.op]) \o
              (IF p.op = "CAUGHT" THEN p.datos
               ELSE Word(n + 1) \o SubSeq(p.datos, 5, 4 + n) \o <<0>> \o From(p.datos, 5 + n))
              \o Word(p.id), bytes)

\* A request goes out with its own id; an answer, with that of its request.
copy_message_from_memory(p, bytes) ==
    LET n == At(p.datos, 1)
    IN Buffer(Word(Codigo[p.op]) \o
              (IF p.op = "CAUGHT" THEN p.datos
               ELSE Word(n + 1) \o SubSeq(p.datos, 5, 4 + n) \o <<0>> \o From(p.datos, 5 + n))
              \o Word(IF p.op \in Pedidos THEN p.id ELSE p.correlational_id), bytes)

\* Mutant: a byte for the '\0' of a name, also where there is no name.
UnoMasSiempre(op, data_size) == 4 + data_size + 4 + 1

_calculate_bytes_to_send(op, data_size) ==
    4 + data_size + IF op = "CAUGHT" THEN 4 ELSE 4 + 1

-----------------------------------------------------------------------------

VARIABLES
    \* the clients
    mensaje,        \* what each has to send; never changes
    pcC,            \* where it is
    abierta,        \* the clients that have not closed their connection
    asignado,       \* the id each was told, 0 for none
    \* the connections
    aBroker, aCliente, aSuscriptor,
    \* the broker
    pcB,            \* where the thread of each client is
    operacion,      \* the queue its first bytes name
    recibido,       \* the message it received, {} for none
    correlational_id, generated_id,
    MESSAGE_ID,
    memoria,        \* the saved messages, in order
    escribe,        \* who holds the memory lock to write, {} for none
    \* the subscriber of each queue
    llegados,       \* what it received: the message and the id
    acks

cliente == <<pcC, abierta, asignado>>
conexion == <<aBroker, aCliente, aSuscriptor>>
hilo == <<pcB, operacion, recibido, correlational_id, generated_id>>
cache == <<MESSAGE_ID, memoria, escribe>>
suscriptor == <<llegados, acks>>
vars == <<mensaje, cliente, conexion, hilo, cache, suscriptor>>

De(c) == mensaje[c]
EsRespuesta(c) == De(c).op \notin Pedidos

Init ==
    /\ mensaje \in [Clientes -> Catalogo]
    /\ pcC = [c \in Clientes |-> "envia"] /\ abierta = Clientes
    /\ asignado = [c \in Clientes |-> 0]
    /\ aBroker = [c \in Clientes |-> << >>] /\ aCliente = [c \in Clientes |-> << >>]
    /\ aSuscriptor = [q \in Colas |-> << >>]
    /\ pcB = [c \in Clientes |-> "operacion"] /\ operacion = [c \in Clientes |-> "NEW"]
    /\ recibido = [c \in Clientes |-> {}]
    /\ correlational_id = [c \in Clientes |-> -1] /\ generated_id = [c \in Clientes |-> 0]
    /\ MESSAGE_ID = 0 /\ memoria = << >> /\ escribe = {}
    /\ llegados = [q \in Colas |-> << >>] /\ acks = [q \in Colas |-> 0]

-----------------------------------------------------------------------------
(* The clients                                                             *)

\* send_new, send_pokemon, send_get, send_localized, send_caught
Envia(c) ==
    /\ pcC[c] = "envia"
    /\ LET o == create(De(c))
       IN aBroker' = [aBroker EXCEPT ![c] =
              @ \o Buffer(serialize(De(c).op, o), calculate_bytes(De(c).op, o))]
    /\ pcC' = [pcC EXCEPT ![c] = IF EsRespuesta(c) THEN "enviaId" ELSE "espera"]
    /\ UNCHANGED <<mensaje, abierta, asignado, aCliente, aSuscriptor, hilo, cache, suscriptor>>

EnviaId(c) ==
    /\ pcC[c] = "enviaId"
    /\ aBroker' = [aBroker EXCEPT ![c] = @ \o Word(De(c).responde)]
    /\ pcC' = [pcC EXCEPT ![c] = "espera"]
    /\ UNCHANGED <<mensaje, abierta, asignado, aCliente, aSuscriptor, hilo, cache, suscriptor>>

\* The client dies at any point, or, with a NEW of the GameBoy, does not wait for its id.
Cierra(c) ==
    /\ pcC[c] \in {"envia", "enviaId", "espera"}
    /\ pcC' = [pcC EXCEPT ![c] = IF @ = "espera" THEN "fin" ELSE "cortado"]
    /\ abierta' = abierta \ {c}
    /\ UNCHANGED <<mensaje, asignado, conexion, hilo, cache, suscriptor>>

RecibeAsignado(c) ==
    /\ pcC[c] = "espera"
    /\ Len(aCliente[c]) >= 4
    /\ asignado' = [asignado EXCEPT ![c] = At(aCliente[c], 1)]
    /\ aCliente' = [aCliente EXCEPT ![c] = From(@, 5)]
    /\ pcC' = [pcC EXCEPT ![c] = "fin"]
    /\ abierta' = abierta \ {c}
    /\ UNCHANGED <<mensaje, aBroker, aSuscriptor, hilo, cache, suscriptor>>

-----------------------------------------------------------------------------
(* The thread of a connection in the broker (server.c)                     *)

SeCayo(c) == c \notin abierta

\* A recv that takes n bytes, or fails once the client is gone and left fewer.
Falla(c, n) == SeCayo(c) /\ Len(aBroker[c]) < n

_serve_client(c) ==
    /\ pcB[c] = "operacion"
    /\ \/ /\ Len(aBroker[c]) >= 4
          /\ \E q \in Colas : /\ Codigo[q] = At(aBroker[c], 1)
                            /\ operacion' = [operacion EXCEPT ![c] = q]
          /\ pcB' = [pcB EXCEPT ![c] = "mensaje"]
          /\ aBroker' = [aBroker EXCEPT ![c] = From(@, 5)]
       \/ /\ Falla(c, 4)
          /\ pcB' = [pcB EXCEPT ![c] = "fin"]
          /\ UNCHANGED <<operacion, aBroker>>
    /\ UNCHANGED <<mensaje, cliente, aCliente, aSuscriptor, recibido, correlational_id,
                   generated_id, cache, suscriptor>>

RecibeMensaje(c) ==
    /\ pcB[c] = "mensaje"
    /\ LET leidos == recv_message(operacion[c], aBroker[c])
       IN \/ \E o \in leidos :
                /\ recibido' = [recibido EXCEPT ![c] = {o}]
                /\ aBroker' = [aBroker EXCEPT ![c] = o.resto]
                /\ pcB' = [pcB EXCEPT ![c] = IF operacion[c] \in Pedidos THEN "get_id" ELSE "id"]
          \/ /\ leidos = {} /\ SeCayo(c)
             /\ pcB' = [pcB EXCEPT ![c] = "fin"]
             /\ UNCHANGED <<recibido, aBroker>>
    /\ UNCHANGED <<mensaje, cliente, aCliente, aSuscriptor, operacion, correlational_id, generated_id,
                   cache, suscriptor>>

RecibeId(c) ==
    /\ pcB[c] = "id"
    /\ \/ /\ Len(aBroker[c]) >= 4
          /\ correlational_id' = [correlational_id EXCEPT ![c] = At(aBroker[c], 1)]
          /\ aBroker' = [aBroker EXCEPT ![c] = From(@, 5)]
          /\ pcB' = [pcB EXCEPT ![c] = "get_id"]
       \/ /\ Falla(c, 4)
          /\ pcB' = [pcB EXCEPT ![c] = "fin"]
          /\ UNCHANGED <<correlational_id, aBroker>>
    /\ UNCHANGED <<mensaje, cliente, aCliente, aSuscriptor, operacion, recibido, generated_id,
                   cache, suscriptor>>

get_id(c) ==
    /\ pcB[c] = "get_id"
    /\ MESSAGE_ID' = MESSAGE_ID + 1
    /\ generated_id' = [generated_id EXCEPT ![c] = MESSAGE_ID']
    /\ pcB' = [pcB EXCEPT ![c] = "new_request"]
    /\ UNCHANGED <<mensaje, cliente, conexion, operacion, recibido, correlational_id, memoria,
                   escribe, suscriptor>>

Partition(c, o, data_size) ==
    [op |-> operacion[c], id |-> generated_id[c], correlational_id |-> correlational_id[c],
     datos |-> serialize_data(operacion[c], o, data_size)]

\* Saves the message and sends it, with the memory locked.
new_request(c) ==
    /\ pcB[c] = "new_request" /\ escribe = {}
    /\ \E p \in {Partition(c, o, calculate_message_size(operacion[c], o)) : o \in recibido[c]} :
          /\ memoria' = Append(memoria, p)
          /\ aSuscriptor' = [aSuscriptor EXCEPT ![p.op] =
                @ \o copy_message_from_memory(p, _calculate_bytes_to_send(p.op, Len(p.datos)))]
    /\ escribe' = {c}
    /\ pcB' = [pcB EXCEPT ![c] = "ack"]
    /\ UNCHANGED <<mensaje, cliente, aBroker, aCliente, operacion, recibido, correlational_id,
                   generated_id, MESSAGE_ID, suscriptor>>

wait_for_ack(c) ==
    /\ pcB[c] = "ack" /\ acks[operacion[c]] > 0
    /\ acks' = [acks EXCEPT ![operacion[c]] = @ - 1]
    /\ escribe' = {}
    /\ pcB' = [pcB EXCEPT ![c] = "responde"]
    /\ UNCHANGED <<mensaje, cliente, conexion, operacion, recibido, correlational_id,
                   generated_id, MESSAGE_ID, memoria, llegados>>

\* The id is sent once the subscribers have the message, and nobody may be there to
\* read it.
Responde(c) ==
    /\ pcB[c] = "responde"
    /\ aCliente' = [aCliente EXCEPT ![c] = @ \o Word(generated_id[c])]
    /\ pcB' = [pcB EXCEPT ![c] = "fin"]
    /\ UNCHANGED <<mensaje, cliente, aBroker, aSuscriptor, operacion, recibido, correlational_id,
                   generated_id, cache, suscriptor>>

_process_request(c) ==
    RecibeMensaje(c) \/ RecibeId(c) \/ get_id(c) \/ new_request(c) \/ wait_for_ack(c) \/ Responde(c)

-----------------------------------------------------------------------------
(* The subscriber of a queue                                               *)

\* The operation that comes first is read and not looked at: the queue is known.
_listen_message(q) ==
    /\ Len(aSuscriptor[q]) >= 4
    /\ \E o \in recv_message(q, From(aSuscriptor[q], 5)) :
          /\ Len(o.resto) >= 4
          /\ llegados' = [llegados EXCEPT ![q] = Append(@, [o |-> o, id |-> At(o.resto, 1)])]
          /\ aSuscriptor' = [aSuscriptor EXCEPT ![q] = From(o.resto, 5)]
    /\ acks' = [acks EXCEPT ![q] = @ + 1]
    /\ UNCHANGED <<mensaje, cliente, aBroker, aCliente, hilo, cache>>

Next ==
    \/ \E c \in Clientes :
          \/ Envia(c) \/ EnviaId(c) \/ Cierra(c) \/ RecibeAsignado(c)
          \/ _serve_client(c) \/ _process_request(c)
    \/ \E q \in Colas : _listen_message(q)

\* The threads of the broker, the subscribers and the clients that wait go on while
\* they can.
Spec ==
    /\ Init /\ [][Next]_vars
    /\ \A c \in Clientes :
          WF_vars(_serve_client(c)) /\ WF_vars(_process_request(c)) /\ WF_vars(RecibeAsignado(c))
    /\ \A q \in Colas : WF_vars(_listen_message(q))

-----------------------------------------------------------------------------
(* Properties                                                              *)

\* The client whose message has an id.
Autor(id) == {c \in Clientes : generated_id[c] = id}

\* The message that was read is the one that was built.
EsElMensaje(o, c) ==
    /\ o.name = create(De(c)).name
    /\ o.coordinates = De(c).lugares
    /\ o.value = De(c).valor

\* Ids are given out once, in turn, and at most one thread writes to the memory: the
\* one that waits for an acknowledgement.
TypeOK ==
    /\ \A c \in Clientes : generated_id[c] \in 0 .. MESSAGE_ID
    /\ \A id \in 1 .. MESSAGE_ID : Cardinality(Autor(id)) = 1
    /\ escribe = {c \in Clientes : pcB[c] = "ack"}
    /\ \A q \in Colas : acks[q] \in 0 .. 1 /\ aSuscriptor[q] \in Seq(Byte)
    /\ \A i \in DOMAIN memoria : memoria[i].datos \in Seq(Byte)

\* What a subscriber reads of a message is what its client sent, whatever was read
\* before it: a request comes with the id that its client is told, and an answer
\* with that of the request it answers. No message comes twice.
ArrivesAsSent ==
    \A q \in Colas :
        LET publicaron == {c \in Clientes : De(c).op = q /\ pcB[c] \in {"ack", "responde", "fin"}}
        IN /\ Len(llegados[q]) <= Cardinality(publicaron)
           /\ \A i \in DOMAIN llegados[q] : \E c \in publicaron :
                 /\ EsElMensaje(llegados[q][i].o, c)
                 /\ llegados[q][i].id = IF q \in Pedidos THEN generated_id[c] ELSE De(c).responde
                 /\ asignado[c] \in {0, generated_id[c]}

\* Between two messages nothing is left on the connection of a subscriber, which takes
\* the first bytes it reads for the start of the next one.
InStep == \A q \in Colas : aSuscriptor[q] # << >> => \E c \in escribe : De(c).op = q

\* A client that died before it had sent everything, the id of an answer included,
\* publishes nothing.
CutPublishesNothing ==
    \A c \in Clientes : pcC[c] = "cortado" => generated_id[c] = 0 /\ pcB[c] # "get_id"

\* Neither half a message nor a byte too many gets beyond its connection.
NothingLeftOver == TypeOK /\ InStep /\ CutPublishesNothing

\* A message that was sent whole reaches the subscriber, and its client, if it waits,
\* is told the id.
EveryMessageArrives ==
    \A c \in Clientes :
        pcC[c] = "espera" ~>
            /\ \E i \in DOMAIN llegados[De(c).op] : EsElMensaje(llegados[De(c).op][i].o, c)
            /\ asignado[c] # 0 \/ c \notin abierta

=============================================================================
