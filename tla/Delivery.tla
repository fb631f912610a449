------------------------------ MODULE Delivery ------------------------------
(***************************************************************************)
(* One queue of the broker: new_request pushes each new message to the     *)
(* subscribers of its operation and waits for their acknowledgements;      *)
(* new_suscription replays to a subscriber what it has not acknowledged    *)
(* (broker/src/broker.c, subscribers.c, server.c:184-219).                 *)
(*                                                                         *)
(* A queue is an Operation; queues share only the memory lock and the      *)
(* cache. The lock is used through its promise, ReadersWriters, which      *)
(* MemoryLock implements. What the memory does to make room is abstracted  *)
(* to the messages it evicts: saving one may evict any of the others.      *)
(*                                                                         *)
(* A subscriber is a (process, id) pair. Its client program may lose a     *)
(* connection and subscribe again, and what it answers is no more than an  *)
(* acknowledgement, a Result that names no message.                        *)
(***************************************************************************)
EXTENDS Naturals, Sequences, FiniteSets, SequencesExt

CONSTANTS Subscribers,      \* the (process, id) pairs of the clients
          Connections,      \* the subscription connections, each tried once
          Clients,          \* the ways the connections may belong to them
          MaxMessages,      \* bound: how many messages clients publish
          NoConnection      \* the socket of a talk that used none so far

ASSUME DeliveryAssumption ==
    /\ IsFiniteSet(Subscribers)
    /\ IsFiniteSet(Connections)
    /\ NoConnection \notin Connections
    /\ Connections \cap (1 .. MaxMessages) = {}
    /\ Clients \subseteq [Connections -> Subscribers]
    /\ MaxMessages \in Nat

Ids == 1 .. MaxMessages

VARIABLES
    \* the broker's memory
    MESSAGE_ID,     \* the last id given out
    reading,        \* the threads that hold the memory lock to read
    writing,        \* the threads that hold it to write
    cached,         \* the ids of the messages in occupied partitions
    notified,       \* NOTIFIED_SUBSCRIBERS: who acknowledged each message
    \* the broker's subscribers
    records,        \* SUBSCRIBERS_BY_OPERATION: [who, socket] in list order
    registered,     \* REGISTERED_SUBSCRIBERS: who has a mutex
    locked,         \* whose mutex is held
    \* the broker's threads
    request,        \* where the thread that publishes each message is
    subscription,   \* where the thread of each connection is
    rec,            \* the record that thread works for, 0 before it has one
    replay,         \* the ids it still has to send, in their order
    talks,          \* the calls of send_message_and_wait_for_ack under way
    \* the network and the clients
    client,         \* whose connection each one is; it never changes
    live,           \* the connections whose client has not closed them
    wire,           \* the messages on their way to the client
    acks,           \* how many acknowledgements are on their way back
    received        \* how many times each client got each message

memory == <<MESSAGE_ID, reading, writing, cached, notified>>
subscribers == <<records, registered, locked>>
threads == <<request, subscription, rec, replay, talks>>
network == <<client, live, wire, acks, received>>
vars == <<memory, subscribers, threads, network>>

\* The memory lock, taken by a subscription's or by a publisher's thread.
Lock == INSTANCE ReadersWriters WITH Threads <- Connections \cup Ids

Init ==
    /\ MESSAGE_ID = 0
    /\ Lock!RWInit
    /\ cached = {}
    /\ notified = [m \in Ids |-> {}]
    /\ records = <<>>
    /\ registered = {}
    /\ locked = {}
    /\ request = [m \in Ids |-> "none"]
    /\ subscription = [c \in Connections |-> "none"]
    /\ rec = [c \in Connections |-> 0]
    /\ replay = [c \in Connections |-> {}]
    /\ talks = {}
    /\ client \in Clients
    /\ live = {}
    /\ wire = [c \in Connections |-> <<>>]
    /\ acks = [c \in Connections |-> 0]
    /\ received = [s \in Subscribers |-> [m \in Ids |-> 0]]

-----------------------------------------------------------------------------
(***************************************************************************)
(* The subscribers.                                                        *)
(***************************************************************************)

was_notified(m, who) == who \in notified[m]

\* _find_subscriber_with_operation: the first record, 0 for none.
FindSubscriber(who) == SelectInSeq(records, LAMBDA r : r.who = who)

(***************************************************************************)
(* The client subscribes and gets its OK (server.c:184-211). A client      *)
(* opens a connection when it has lost the one it had.                     *)
(***************************************************************************)
Connect(c) ==
    /\ subscription[c] = "none"
    /\ \A other \in live : client[other] # client[c]
    /\ live' = live \cup {c}
    /\ subscription' = [subscription EXCEPT ![c] = "accepted"]
    /\ UNCHANGED <<memory, subscribers, request, rec, replay, talks, client,
                   wire, acks, received>>

(***************************************************************************)
(* create_or_update_subscriber looks the record up and, when there is one, *)
(* points it at this connection. Records are never removed, so lookup and  *)
(* update are one step. The three steps of a new record are apart: each    *)
(* locks a mutex of its own, and none holds one throughout.                *)
(***************************************************************************)
create_or_update_subscriber(c) ==
    LET found == FindSubscriber(client[c])
    IN  /\ subscription[c] = "accepted"
        /\ IF found # 0
           THEN /\ records' = [records EXCEPT ![found].socket = c]
                /\ rec' = [rec EXCEPT ![c] = found]
                /\ subscription' = [subscription EXCEPT ![c] = "subscribed"]
           ELSE /\ subscription' = [subscription EXCEPT ![c] = "creating"]
                /\ UNCHANGED <<records, rec>>
        /\ UNCHANGED <<memory, registered, locked, request, replay, talks,
                       network>>

add_subscriber_by_operation(c) ==
    /\ subscription[c] = "creating"
    /\ records' = Append(records, [who |-> client[c], socket |-> c])
    /\ rec' = [rec EXCEPT ![c] = Len(records')]
    /\ subscription' = [subscription EXCEPT ![c] = "added"]
    /\ UNCHANGED <<memory, registered, locked, request, replay, talks, network>>

register_subscriber(c) ==
    /\ subscription[c] = "added"
    /\ registered' = registered \cup {client[c]}
    /\ subscription' = [subscription EXCEPT ![c] = "subscribed"]
    /\ UNCHANGED <<memory, records, locked, request, rec, replay, talks, network>>

-----------------------------------------------------------------------------
(***************************************************************************)
(* send_message_and_wait_for_ack: a publisher runs one per subscriber, in  *)
(* threads it joins; a subscription runs one after the other.              *)
(*                                                                         *)
(* A talk reads its record's socket twice, to send and to receive, and the *)
(* record may have been pointed at another connection in between.          *)
(***************************************************************************)

Talk(by, k, m) == [by |-> by, rec |-> k, msg |-> m, at |-> "lock",
                   sentOn |-> NoConnection, waitsOn |-> NoConnection]

Who(t) == records[t.rec].who
Socket(t) == records[t.rec].socket

Becomes(t, new) ==
    /\ talks' = (talks \ {t}) \cup {new}
    /\ UNCHANGED <<MESSAGE_ID, reading, writing, cached, records, registered,
                   request, subscription, rec, replay, client, live>>

\* _find_registered_subscriber finds somebody's mutex.
HasMutex(who) == who \in registered

lock_subscriber(t) ==
    /\ t.at = "lock"
    /\ HasMutex(Who(t)) => Who(t) \notin locked
    /\ locked' = IF HasMutex(Who(t)) THEN locked \cup {Who(t)} ELSE locked
    /\ Becomes(t, [t EXCEPT !.at = "send"])
    /\ UNCHANGED <<notified, wire, acks, received>>

\* What is sent on a connection the client has just closed is lost.
Send(t) ==
    /\ t.at = "send"
    /\ Becomes(t, [t EXCEPT !.at = "sent", !.sentOn = Socket(t)])
    /\ wire' = IF Socket(t) \in live
               THEN [wire EXCEPT ![Socket(t)] = Append(@, t.msg)]
               ELSE wire
    /\ UNCHANGED <<locked, notified, acks, received>>

\* Once the broker knows that it is closed, send returns an error.
SendFails(t) ==
    /\ t.at = "send"
    /\ Socket(t) \notin live
    /\ Becomes(t, [t EXCEPT !.at = "unlock"])
    /\ UNCHANGED <<locked, notified, wire, acks, received>>

\* recv has no timeout: from here the thread waits for this socket.
Recv(t) ==
    /\ t.at = "sent"
    /\ Becomes(t, [t EXCEPT !.at = "recv", !.waitsOn = Socket(t)])
    /\ UNCHANGED <<locked, notified, wire, acks, received>>

\* recv returned more than 0.
GotAck(t) == acks[t.waitsOn] > 0

RecvReturns(t) ==
    /\ t.at = "recv"
    /\ acks[t.waitsOn] > 0 \/ t.waitsOn \notin live
    /\ acks' = [acks EXCEPT ![t.waitsOn] = IF @ > 0 THEN @ - 1 ELSE 0]
    /\ notified' = IF GotAck(t)
                   THEN [notified EXCEPT ![t.msg] = @ \cup {Who(t)}]
                   ELSE notified
    /\ Becomes(t, [t EXCEPT !.at = "unlock"])
    /\ UNCHANGED <<locked, wire, received>>

\* Fault: a thread that could not send leaves the mutex locked.
UnlockedIfSent(t) ==
    IF HasMutex(Who(t)) /\ t.sentOn # NoConnection THEN locked \ {Who(t)}
                                                   ELSE locked

(***************************************************************************)
(* The mutex is released by name: one that was not there to be locked, and *)
(* is registered by now, is released whoever holds it.                     *)
(***************************************************************************)
Unlocked(t) == IF HasMutex(Who(t)) THEN locked \ {Who(t)} ELSE locked

unlock_subscriber(t) ==
    /\ t.at = "unlock"
    /\ locked' = Unlocked(t)
    /\ talks' = talks \ {t}
    /\ replay' = IF t.by \in Connections
                 THEN [replay EXCEPT ![t.by] = @ \ {t.msg}]
                 ELSE replay
    /\ UNCHANGED <<memory, records, registered, request, subscription, rec,
                   network>>

\* Fault: nobody waits for the threads to end.
NotJoined(thread) == TRUE

\* No call that a thread made is under way.
Joined(thread) == \A t \in talks : t.by # thread

TalkStep(t) ==
    \/ lock_subscriber(t)
    \/ Send(t)
    \/ SendFails(t)
    \/ Recv(t)
    \/ RecvReturns(t)
    \/ unlock_subscriber(t)

-----------------------------------------------------------------------------
(***************************************************************************)
(* new_suscription.                                                        *)
(***************************************************************************)

\* Fault: all the messages of the queue, acknowledged or not.
all_messages_from_operation(who) == cached

messages_from_operation(who) == {m \in cached : ~was_notified(m, who)}

\* The read lock and the list.
StartReplay(c) ==
    /\ subscription[c] = "subscribed"
    /\ Lock!StartRead(c)
    /\ replay' = [replay EXCEPT ![c] = messages_from_operation(client[c])]
    /\ subscription' = [subscription EXCEPT ![c] = "replaying"]
    /\ UNCHANGED <<MESSAGE_ID, cached, notified, subscribers, request, rec,
                   talks, network>>

\* The list is sorted by id before its messages are sent.
SendNext(c) ==
    /\ subscription[c] = "replaying"
    /\ replay[c] # {}
    /\ Joined(c)
    /\ talks' = talks \cup {Talk(c, rec[c], Min(replay[c]))}
    /\ UNCHANGED <<memory, subscribers, request, subscription, rec, replay,
                   network>>

EndReplay(c) ==
    /\ subscription[c] = "replaying"
    /\ replay[c] = {}
    /\ Lock!EndRead(c)
    /\ subscription' = [subscription EXCEPT ![c] = "done"]
    /\ UNCHANGED <<MESSAGE_ID, cached, notified, subscribers, request, rec,
                   replay, talks, network>>

-----------------------------------------------------------------------------
(***************************************************************************)
(* new_request.                                                            *)
(***************************************************************************)

\* The thread takes its id before it asks for the lock (server.c:78-80).
get_id ==
    /\ MESSAGE_ID < MaxMessages
    /\ MESSAGE_ID' = MESSAGE_ID + 1
    /\ request' = [request EXCEPT ![MESSAGE_ID'] = "locking"]
    /\ UNCHANGED <<reading, writing, cached, notified, subscribers,
                   subscription, rec, replay, talks, network>>

\* The subscribers send_messages_to_subscribers starts a thread for.
NotNotified(m) ==
    {k \in DOMAIN records : ~was_notified(m, records[k].who)}

(***************************************************************************)
(* The write lock, save_message and one thread per subscriber. Records are *)
(* only added, so that one added while the message is saved is the same as *)
(* one added before.                                                       *)
(***************************************************************************)
StartRequest(m) ==
    /\ request[m] = "locking"
    /\ Lock!StartWrite(m)
    /\ \E victims \in SUBSET cached : cached' = (cached \ victims) \cup {m}
    /\ talks' = talks \cup {Talk(m, k, m) : k \in NotNotified(m)}
    /\ request' = [request EXCEPT ![m] = "sending"]
    /\ UNCHANGED <<MESSAGE_ID, notified, subscribers, subscription, rec,
                   replay, network>>

EndRequest(m) ==
    /\ request[m] = "sending"
    /\ Joined(m)
    /\ Lock!EndWrite(m)
    /\ request' = [request EXCEPT ![m] = "done"]
    /\ UNCHANGED <<MESSAGE_ID, cached, notified, subscribers, subscription,
                   rec, replay, talks, network>>

-----------------------------------------------------------------------------
(***************************************************************************)
(* The clients.                                                            *)
(***************************************************************************)

\* A client acknowledges each message as it gets it.
Receive(c) ==
    /\ c \in live
    /\ wire[c] # <<>>
    /\ wire' = [wire EXCEPT ![c] = Tail(@)]
    /\ received' = [received EXCEPT ![client[c]][Head(wire[c])] = @ + 1]
    /\ acks' = [acks EXCEPT ![c] = @ + 1]
    /\ UNCHANGED <<memory, subscribers, threads, client, live>>

\* The connection ends, and with it, perhaps, what was on its way.
Drop(c) ==
    /\ c \in live
    /\ live' = live \ {c}
    /\ wire' = [wire EXCEPT ![c] = <<>>]
    /\ \E left \in {0, acks[c]} : acks' = [acks EXCEPT ![c] = left]
    /\ UNCHANGED <<memory, subscribers, threads, client, received>>

-----------------------------------------------------------------------------

BrokerStep ==
    \/ \E t \in talks : TalkStep(t)
    \/ \E c \in Connections :
        \/ create_or_update_subscriber(c)
        \/ add_subscriber_by_operation(c)
        \/ register_subscriber(c)
        \/ StartReplay(c)
        \/ SendNext(c)
        \/ EndReplay(c)
    \/ \E m \in Ids : StartRequest(m) \/ EndRequest(m)

ClientStep == \E c \in Connections : Receive(c)

Environment ==
    \/ get_id
    \/ \E c \in Connections : Connect(c) \/ Drop(c)

Next == BrokerStep \/ ClientStep \/ Environment

Spec == Init /\ [][Next]_vars

(***************************************************************************)
(* The threads of the broker run and a client that is alive answers. Each  *)
(* thread has a finite number of steps, so that fairness for all of them   *)
(* together is fairness for each. Nothing makes a client connect, publish  *)
(* or go away: the broker does not count on it.                            *)
(***************************************************************************)
FairSpec == Spec /\ WF_vars(BrokerStep \/ ClientStep)

-----------------------------------------------------------------------------

\* The variables range over the values their C types and uses allow.
TypeOK ==
    /\ MESSAGE_ID \in 0 .. MaxMessages
    /\ reading \subseteq Connections
    /\ writing \subseteq Ids
    /\ cached \subseteq Ids
    /\ notified \in [Ids -> SUBSET Subscribers]
    /\ records \in Seq([who : Subscribers, socket : Connections])
    /\ registered \subseteq Subscribers
    /\ locked \subseteq registered
    /\ request \in [Ids -> {"none", "locking", "sending", "done"}]
    /\ subscription \in [Connections -> {"none", "accepted", "creating",
                          "added", "subscribed", "replaying", "done"}]
    /\ rec \in [Connections -> 0 .. Len(records)]
    /\ replay \in [Connections -> SUBSET Ids]
    /\ \A t \in talks : t.rec \in DOMAIN records /\ t.msg \in Ids
    /\ client \in Clients
    /\ live \subseteq Connections
    /\ acks \in [Connections -> Nat]

(***************************************************************************)
(* No message is missed between the push and the replay: once the thread   *)
(* of the connection that a record points at has ended, a client that is   *)
(* still there has acknowledged every cached message that is not being     *)
(* pushed, whichever came first, the message or the subscription.          *)
(***************************************************************************)
NoMessageMissed ==
    \A k \in DOMAIN records :
        LET c == records[k].socket
        IN  c \in live /\ subscription[c] = "done" =>
                \A m \in cached :
                    request[m] = "sending" \/ was_notified(m, records[k].who)

(***************************************************************************)
(* A message that is being sent stays cached: the partition that           *)
(* new_suscription listed, or that new_request has just saved, is not      *)
(* evicted while a thread still reads it.                                  *)
(***************************************************************************)
SentStaysCached ==
    /\ \A c \in Connections : replay[c] \subseteq cached
    /\ \A t \in talks : t.msg \in cached

ConnectedOnce(who) ==
    Cardinality({c \in Connections :
                    client[c] = who /\ subscription[c] # "none"}) <= 1

(***************************************************************************)
(* An acknowledgement that names no message is still taken for the right   *)
(* one: a client is noted as notified of a message only if it got it. It   *)
(* is stated for clients that subscribed once.                             *)
(***************************************************************************)
NotifiedGotIt ==
    \A who \in Subscribers :
        ConnectedOnce(who) =>
            \A m \in Ids : was_notified(m, who) => received[who][m] > 0

(***************************************************************************)
(* A client that subscribed once gets a message once: the thread that      *)
(* pushes it and the thread that replays never both send it.               *)
(***************************************************************************)
GotOnce ==
    \A who \in Subscribers :
        ConnectedOnce(who) => \A m \in Ids : received[who][m] <= 1

(***************************************************************************)
(* A client that subscribed once gets each message it is noted for once and *)
(* no other.                                                               *)
(***************************************************************************)
OnceEach == TypeOK /\ NotifiedGotIt /\ GotOnce

\* The record was pointed at another connection between send and recv.
WaitsElsewhere == \E t \in talks : t.at = "recv" /\ t.waitsOn # t.sentOn

(***************************************************************************)
(* A publisher that has its id gets its turn, its message is delivered and *)
(* its call ends, however the clients come and go. There is one exception, *)
(* and no other: a thread that sent on one connection and waits for the    *)
(* acknowledgement on the next one holds the memory lock for as long as    *)
(* the client, which got nothing on that connection, keeps it open.        *)
(***************************************************************************)
RequestEnds ==
    \A m \in Ids : request[m] = "locking" ~> request[m] = "done" \/ WaitsElsewhere

=============================================================================
