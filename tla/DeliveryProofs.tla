--------------------------- MODULE DeliveryProofs ---------------------------
(***************************************************************************)
(* No message is missed, none is sent twice and none is evicted while it   *)
(* is sent, for any clients, connections and number of messages.           *)
(***************************************************************************)
EXTENDS Delivery, CollectionProofs, FiniteSetTheorems

\* A connection that has its record.
HasRecord(c) == subscription[c] \in {"added", "subscribed", "replaying", "done"}

\* A call of send_message_and_wait_for_ack.
ATalk == [by : Connections \cup Ids, rec : Nat, msg : Ids,
          at : {"lock", "send", "sent", "recv", "unlock"},
          sentOn : Connections \cup {NoConnection},
          waitsOn : Connections \cup {NoConnection}]

\* TypeOK and the rest of the types.
Types ==
    /\ TypeOK
    /\ talks \subseteq ATalk
    /\ wire \in [Connections -> Seq(Ids)]
    /\ received \in [Subscribers -> [Ids -> Nat]]

\* Who holds the memory lock, and that it excludes; the ids not given out yet.
LockInv ==
    /\ \A m \in Ids : m > MESSAGE_ID => request[m] = "none"
    /\ \A c \in Connections : c \in reading <=> subscription[c] = "replaying"
    /\ \A m \in Ids : m \in writing <=> request[m] = "sending"
    /\ writing # {} => reading = {}
    /\ \A m, n \in writing : m = n

\* The record of a connection is that of its client, and a record that points
\* at a connection is its record.
RecordInv ==
    /\ \A c \in Connections :
          HasRecord(c) => /\ rec[c] \in DOMAIN records
                          /\ records[rec[c]].who = client[c]
    /\ \A k \in DOMAIN records : \A c \in Connections :
          records[k].socket = c => HasRecord(c) /\ rec[c] = k /\ client[c] = records[k].who
    /\ \A c \in live : subscription[c] # "none"

\* Whose talk it is, about which message, and that it is the only one.
TalkInv ==
    \A t \in talks :
        /\ t.by \in Connections => /\ t.by \in reading
                                   /\ t.rec = rec[t.by]
                                   /\ t.msg \in replay[t.by]
        /\ t.by \in Ids => t.by \in writing /\ t.msg = t.by
        /\ \A u \in talks : u.by = t.by /\ u.rec = t.rec => u = t
        /\ t.at = "recv" => t.waitsOn \in Connections

\* What is replayed or written is cached.
CacheInv ==
    /\ \A c \in Connections :
          /\ replay[c] \subseteq cached
          /\ replay[c] # {} => subscription[c] = "replaying"
    /\ writing \subseteq cached

BaseInv == Types /\ LockInv /\ RecordInv /\ TalkInv /\ CacheInv

-----------------------------------------------------------------------------

\* The record that points at a connection whose client is there.
PointsAt(k, c) == records[k].socket = c /\ c \in live

\* While a connection replays, what its client has not acknowledged is still
\* to be sent; a talk about to end has its acknowledgement.
ReplayInv ==
    \A k \in DOMAIN records : \A c \in Connections : PointsAt(k, c) =>
        /\ subscription[c] = "replaying" =>
              \A m \in cached : was_notified(m, client[c]) \/ m \in replay[c]
        /\ \A t \in talks : t.by = c =>
              /\ t.at = "recv" => t.waitsOn = c
              /\ t.at = "unlock" => was_notified(t.msg, client[c])

\* A message that is pushed is still on its way to whoever did not get it.
PushInv ==
    \A k \in DOMAIN records : \A c \in Connections :
        PointsAt(k, c) /\ subscription[c] = "done" =>
            \A m \in writing :
                \/ was_notified(m, client[c])
                \/ \E t \in talks : /\ t.by = m /\ t.rec = k
                                    /\ t.at # "unlock"
                                    /\ t.at = "recv" => t.waitsOn = c

\* What was pushed, or was replayed by a connection that is done, is noted.
DoneInv ==
    \A k \in DOMAIN records : \A c \in Connections :
        PointsAt(k, c) /\ subscription[c] = "done" =>
            \A m \in cached : request[m] = "sending" \/ was_notified(m, client[c])

MissedInv == DoneInv /\ ReplayInv /\ PushInv

-----------------------------------------------------------------------------

\* The client subscribed once, and c is the connection.
Only(c) == \A d \in Connections :
              client[d] = client[c] /\ subscription[d] # "none" => d = c

\* A talk with the client of c.
With(t, c) == records[t.rec].who = client[c]

\* What was sent to the client and what became of it belong to its one talk.
OneTalk(c) ==
    /\ \A m \in Ids : /\ received[client[c]][m] <= 1
                      /\ was_notified(m, client[c]) => received[client[c]][m] = 1
    /\ acks[c] <= 1
    /\ wire[c] # <<>> => c \in live /\ \E t \in talks : With(t, c) /\ t.at \in {"sent", "recv"}
    /\ acks[c] > 0 => \E t \in talks : /\ With(t, c) /\ t.at \in {"sent", "recv"}
                                       /\ received[client[c]][t.msg] = 1
    /\ \A t \in talks : With(t, c) /\ t.at = "recv" => t.waitsOn = c
    /\ c \in live =>
          /\ \A t \in talks : With(t, c) =>
                /\ t.at \in {"lock", "send"} => ~was_notified(t.msg, client[c])
                /\ t.at \in {"sent", "recv"} =>
                      \/ /\ wire[c] = <<t.msg>> /\ acks[c] = 0
                         /\ received[client[c]][t.msg] = 0
                      \/ /\ wire[c] = <<>> /\ acks[c] = 1
                         /\ received[client[c]][t.msg] = 1
          /\ \A m \in Ids : received[client[c]][m] = 1 =>
                \/ was_notified(m, client[c])
                \/ \E t \in talks : /\ With(t, c) /\ t.msg = m
                                    /\ t.at \in {"sent", "recv"}
          /\ \A m \in replay[c] : was_notified(m, client[c]) =>
                \E t \in talks : t.by = c /\ t.msg = m /\ t.at = "unlock"

OnceInv == \A c \in Connections : Only(c) /\ subscription[c] # "none" => OneTalk(c)

\* A client that never subscribed got nothing, a connection that is not used
\* yet carries nothing, and a talk waits for its own client.
NeverInv ==
    \A who \in Subscribers :
        (\A c \in Connections : client[c] = who => subscription[c] = "none") =>
            \A m \in Ids : ~was_notified(m, who) /\ received[who][m] = 0

FreshInv ==
    \A c \in Connections : subscription[c] = "none" => wire[c] = <<>> /\ acks[c] = 0

WaitInv == \A t \in talks : t.at = "recv" => client[t.waitsOn] = records[t.rec].who

HistoryInv == NeverInv /\ FreshInv /\ WaitInv

IInv == BaseInv /\ MissedInv /\ OnceInv /\ HistoryInv

-----------------------------------------------------------------------------

LEMMA ConstantFacts ==
    /\ \A x \in Connections : x \notin Ids
    /\ NoConnection \notin Connections
    /\ \A f \in Clients : f \in [Connections -> Subscribers]
    /\ Ids \subseteq Nat
BY DeliveryAssumption DEF Ids

\* The record that is found is one of that subscriber.
LEMMA FindSubscriberProperties ==
    ASSUME NEW who, FindSubscriber(who) # 0, Len(records) \in Nat,
           DOMAIN records = 1 .. Len(records)
    PROVE  /\ FindSubscriber(who) \in DOMAIN records
           /\ records[FindSubscriber(who)].who = who
<1> DEFINE I == {i \in 1 .. Len(records) : records[i].who = who}
<1>1. FindSubscriber(who) = IF I # {} THEN Min(I) ELSE 0
  BY DEF FindSubscriber, SelectInSeq
<1>2. I \in SUBSET Nat
  OBVIOUS
<1>3. I # {} /\ FindSubscriber(who) = Min(I)
  BY <1>1
<1> HIDE DEF I
<1>4. Min(I) \in I
  BY <1>2, <1>3, MinProperties
<1>5. QED
  BY <1>3, <1>4 DEF I

\* What the list of records is made of.
LEMMA RecordTypes ==
    ASSUME TypeOK
    PROVE  /\ DOMAIN records = 1 .. Len(records) /\ Len(records) \in Nat
           /\ \A k \in DOMAIN records : /\ records[k] \in [who : Subscribers, socket : Connections]
                                       /\ records[k].who \in Subscribers
                                       /\ records[k].socket \in Connections
           /\ client \in [Connections -> Subscribers]
<1>1. records \in Seq([who : Subscribers, socket : Connections])
  BY DEF TypeOK
<1>2. DOMAIN records = 1 .. Len(records) /\ Len(records) \in Nat
  BY <1>1, LenProperties
<1>3. \A k \in DOMAIN records : records[k] \in [who : Subscribers, socket : Connections]
  BY <1>1, <1>2, ElementOfSeq
<1>4. QED
  BY <1>2, <1>3, ConstantFacts DEF TypeOK

-----------------------------------------------------------------------------

LEMMA InitBase == Init => BaseInv
<1> SUFFICES ASSUME Init PROVE BaseInv
  OBVIOUS
<1> USE ConstantFacts DEF Init, Lock!RWInit
<1>1. Types
  <2>1. wire \in [Connections -> Seq(Ids)] /\ acks \in [Connections -> Nat]
    BY EmptySeq
  <2>2. records \in Seq([who : Subscribers, socket : Connections]) /\ Len(records) = 0
    BY EmptySeq
  <2>3. received \in [Subscribers -> [Ids -> Nat]]
    OBVIOUS
  <2>4. rec \in [Connections -> 0 .. Len(records)] /\ MESSAGE_ID \in 0 .. MaxMessages
    BY <2>2, DeliveryAssumption
  <2>5. TypeOK
    BY <2>1, <2>2, <2>4 DEF TypeOK
  <2>6. QED
    BY <2>1, <2>3, <2>5 DEF Types
<1>2. LockInv
  BY DEF LockInv
<1>3. RecordInv
  BY DEF RecordInv, HasRecord
<1>4. TalkInv /\ CacheInv
  BY DEF TalkInv, CacheInv
<1>5. QED
  BY <1>1, <1>2, <1>3, <1>4 DEF BaseInv

\* What a step of a talk leaves as it is, whatever it does to the connections.
LEMMA BecomesBase ==
    ASSUME BaseInv, NEW t \in talks, NEW new \in ATalk, Becomes(t, new), UNCHANGED client,
           new.by = t.by, new.rec = t.rec, new.msg = t.msg,
           new.at = "recv" => new.waitsOn \in Connections,
           locked' \subseteq registered,
           notified' \in [Ids -> SUBSET Subscribers],
           acks' \in [Connections -> Nat],
           wire' \in [Connections -> Seq(Ids)],
           UNCHANGED received
    PROVE  BaseInv'
<1> USE DEF Becomes, BaseInv
<1>1. Types'
  BY DEF Types, TypeOK, ATalk
<1>2. LockInv' /\ CacheInv'
  BY DEF LockInv, CacheInv
<1>3. RecordInv'
  BY DEF RecordInv, HasRecord
<1>4. TalkInv'
  BY DEF TalkInv
<1>5. QED
  BY <1>1, <1>2, <1>3, <1>4

LEMMA TalkTypes ==
    ASSUME BaseInv, NEW t \in talks
    PROVE  /\ t \in ATalk /\ t.rec \in DOMAIN records /\ t.msg \in Ids
           /\ Who(t) \in Subscribers /\ Socket(t) \in Connections
           /\ t.at = "recv" => t.waitsOn \in Connections
<1>1. t \in ATalk /\ t.rec \in DOMAIN records /\ t.msg \in Ids
  BY DEF BaseInv, Types, TypeOK, ATalk
<1>2. records[t.rec].who \in Subscribers /\ records[t.rec].socket \in Connections
  BY <1>1, RecordTypes DEF BaseInv, Types
<1>3. QED
  BY <1>1, <1>2 DEF BaseInv, TalkInv, Who, Socket

\* One step per action of a talk.
LEMMA TalkBase ==
    ASSUME BaseInv, NEW t \in talks, TalkStep(t)
    PROVE  BaseInv'
<1> USE DEF BaseInv
<1>1. /\ t \in ATalk /\ t.rec \in DOMAIN records /\ t.msg \in Ids
      /\ Who(t) \in Subscribers /\ Socket(t) \in Connections
      /\ t.at = "recv" => t.waitsOn \in Connections
  BY TalkTypes
<1>2. CASE lock_subscriber(t)
  <2> DEFINE new == [t EXCEPT !.at = "send"]
  <2>1. /\ new \in ATalk /\ new.by = t.by /\ new.rec = t.rec /\ new.msg = t.msg
        /\ new.at # "recv"
    BY <1>1 DEF ATalk
  <2>2. Becomes(t, new) /\ UNCHANGED <<client, notified, acks, wire, received>>
    BY <1>2 DEF lock_subscriber, Becomes
  <2>3. locked' \subseteq registered
    BY <1>2 DEF lock_subscriber, HasMutex, Types, TypeOK
  <2> HIDE DEF new
  <2>4. QED
    BY <2>1, <2>2, <2>3, BecomesBase DEF Types, TypeOK
<1>3. CASE Send(t)
  <2> DEFINE new == [t EXCEPT !.at = "sent", !.sentOn = Socket(t)]
  <2>1. /\ new \in ATalk /\ new.by = t.by /\ new.rec = t.rec /\ new.msg = t.msg
        /\ new.at # "recv"
    BY <1>1 DEF ATalk
  <2>2. Becomes(t, new) /\ UNCHANGED <<client, notified, acks, locked, received>>
    BY <1>3 DEF Send, Becomes
  <2>3. wire' \in [Connections -> Seq(Ids)]
    <3>1. wire[Socket(t)] \in Seq(Ids)
      BY <1>1 DEF Types
    <3>2. Append(wire[Socket(t)], t.msg) \in Seq(Ids)
      BY <1>1, <3>1, AppendProperties
    <3>3. QED
      BY <1>3, <3>2 DEF Send, Types
  <2> HIDE DEF new
  <2>4. QED
    BY <2>1, <2>2, <2>3, BecomesBase DEF Types, TypeOK
<1>4. CASE SendFails(t)
  <2> DEFINE new == [t EXCEPT !.at = "unlock"]
  <2>1. /\ new \in ATalk /\ new.by = t.by /\ new.rec = t.rec /\ new.msg = t.msg
        /\ new.at # "recv"
    BY <1>1 DEF ATalk
  <2>2. Becomes(t, new) /\ UNCHANGED <<client, notified, acks, wire, locked, received>>
    BY <1>4 DEF SendFails, Becomes
  <2> HIDE DEF new
  <2>3. QED
    BY <2>1, <2>2, BecomesBase DEF Types, TypeOK
<1>5. CASE Recv(t)
  <2> DEFINE new == [t EXCEPT !.at = "recv", !.waitsOn = Socket(t)]
  <2>1. /\ new \in ATalk /\ new.by = t.by /\ new.rec = t.rec /\ new.msg = t.msg
        /\ new.waitsOn \in Connections
    BY <1>1 DEF ATalk
  <2>2. Becomes(t, new) /\ UNCHANGED <<client, notified, acks, wire, locked, received>>
    BY <1>5 DEF Recv, Becomes
  <2> HIDE DEF new
  <2>3. QED
    BY <2>1, <2>2, BecomesBase DEF Types, TypeOK
<1>6. CASE RecvReturns(t)
  <2> DEFINE new == [t EXCEPT !.at = "unlock"]
  <2>1. /\ new \in ATalk /\ new.by = t.by /\ new.rec = t.rec /\ new.msg = t.msg
        /\ new.at # "recv"
    BY <1>1 DEF ATalk
  <2>2. Becomes(t, new) /\ UNCHANGED <<client, wire, locked, received>>
    BY <1>6 DEF RecvReturns, Becomes
  <2>3. acks' \in [Connections -> Nat]
    <3> DEFINE left == IF acks[t.waitsOn] > 0 THEN acks[t.waitsOn] - 1 ELSE 0
    <3>1. acks[t.waitsOn] \in Nat
      BY <1>1, <1>6 DEF RecvReturns, Types, TypeOK
    <3>2. left \in Nat /\ acks' = [acks EXCEPT ![t.waitsOn] = left]
      BY <3>1, <1>6 DEF RecvReturns
    <3> HIDE DEF left
    <3>3. QED
      BY <3>2 DEF Types, TypeOK
  <2>4. notified' \in [Ids -> SUBSET Subscribers]
    BY <1>1, <1>6 DEF RecvReturns, Types, TypeOK
  <2> HIDE DEF new
  <2>5. QED
    BY <2>1, <2>2, <2>3, <2>4, BecomesBase DEF Types, TypeOK
<1>7. CASE unlock_subscriber(t)
  <2> USE <1>7 DEF unlock_subscriber, memory, network
  <2>1. Types'
    <3>1. replay' \in [Connections -> SUBSET Ids]
      BY DEF Types, TypeOK
    <3>2. locked' \subseteq registered
      BY DEF Unlocked, HasMutex, Types, TypeOK
    <3>3. QED
      BY <3>1, <3>2 DEF Types, TypeOK
  <2>2. LockInv' /\ RecordInv'
    BY DEF LockInv, RecordInv, HasRecord
  <2>3. CacheInv'
    BY DEF CacheInv, Types, TypeOK
  <2>4. TalkInv'
    <3>1. ASSUME NEW u \in talks, u # t, u.by \in Connections PROVE u.msg \in replay'[u.by]
      <4>1. u.by # t.by
        BY <1>1, <3>1 DEF TalkInv
      <4>2. u.msg \in replay[u.by]
        BY <3>1 DEF TalkInv
      <4>3. QED
        BY <3>1, <4>1, <4>2 DEF Types, TypeOK
    <3>2. QED
      BY <3>1 DEF TalkInv
  <2>5. QED
    BY <2>1, <2>2, <2>3, <2>4
<1>8. QED
  BY <1>2, <1>3, <1>4, <1>5, <1>6, <1>7 DEF TalkStep

\* One step per action of a subscription.
LEMMA SubscriptionBase ==
    ASSUME BaseInv, NEW c \in Connections,
           \/ create_or_update_subscriber(c)
           \/ add_subscriber_by_operation(c)
           \/ register_subscriber(c)
           \/ StartReplay(c)
           \/ SendNext(c)
           \/ EndReplay(c)
    PROVE  BaseInv'
<1> USE DEF BaseInv, memory, network
<1>1. /\ DOMAIN records = 1 .. Len(records) /\ Len(records) \in Nat
      /\ \A k \in DOMAIN records : /\ records[k] \in [who : Subscribers, socket : Connections]
                                  /\ records[k].who \in Subscribers
                                  /\ records[k].socket \in Connections
      /\ client \in [Connections -> Subscribers]
      /\ \A d \in Connections : rec[d] \in 0 .. Len(records)
  BY RecordTypes DEF Types, TypeOK
<1>2. CASE create_or_update_subscriber(c)
  <2> DEFINE found == FindSubscriber(client[c])
  <2>1. CASE found = 0
    <3> HIDE DEF found
    <3>0. /\ subscription' = [subscription EXCEPT ![c] = "creating"]
          /\ subscription[c] = "accepted"
          /\ UNCHANGED <<records, rec, memory, registered, locked, request, replay, talks, network>>
      BY <1>2, <2>1 DEF create_or_update_subscriber, found
    <3> USE <3>0
    <3>1. Types'
      BY DEF Types, TypeOK
    <3>2. \A d \in Connections : subscription'[d] = IF d = c THEN "creating" ELSE subscription[d]
      BY DEF Types, TypeOK
    <3>3. LockInv' /\ TalkInv' /\ CacheInv'
      BY <3>2 DEF LockInv, TalkInv, CacheInv
    <3>4. RecordInv'
      BY <3>2 DEF RecordInv, HasRecord, Types, TypeOK
    <3>5. QED
      BY <3>1, <3>3, <3>4
  <2>2. CASE found # 0
    <3>1. found \in DOMAIN records /\ records[found].who = client[c]
      BY <1>1, <2>2, FindSubscriberProperties
    <3>2. /\ records' = [records EXCEPT ![found].socket = c]
          /\ rec' = [rec EXCEPT ![c] = found]
          /\ subscription' = [subscription EXCEPT ![c] = "subscribed"]
          /\ subscription[c] = "accepted"
          /\ UNCHANGED <<memory, registered, locked, request, replay, talks, network>>
      BY <1>2, <2>2 DEF create_or_update_subscriber
    <3> HIDE DEF found
    <3>3. /\ records' \in Seq([who : Subscribers, socket : Connections])
          /\ Len(records') = Len(records) /\ DOMAIN records' = DOMAIN records
          /\ \A k \in DOMAIN records : /\ records'[k].who = records[k].who
                                      /\ records'[k].socket = IF k = found THEN c ELSE records[k].socket
      <4>1. records \in Seq([who : Subscribers, socket : Connections])
        BY DEF Types, TypeOK
      <4>2. [records[found] EXCEPT !.socket = c] \in [who : Subscribers, socket : Connections]
        BY <1>1, <3>1
      <4>3. QED
        BY <1>1, <3>1, <3>2, <4>1, <4>2, ExceptSeq
    <3>4. Types'
      BY <1>1, <3>1, <3>2, <3>3, SMTT(20) DEF Types, TypeOK
    <3>5. LockInv' /\ CacheInv'
      BY <3>2 DEF LockInv, CacheInv, Types, TypeOK
    <3>6. RecordInv'
      <4>1. \A k \in DOMAIN records : records[k].socket # c
        BY <3>2 DEF RecordInv, HasRecord
      <4>2. \A d \in Connections :
               /\ subscription'[d] = IF d = c THEN "subscribed" ELSE subscription[d]
               /\ rec'[d] = IF d = c THEN found ELSE rec[d]
        BY <3>2 DEF Types, TypeOK
      <4>3. QED
        BY <1>1, <3>1, <3>2, <3>3, <4>1, <4>2 DEF RecordInv, HasRecord
    <3>7. TalkInv'
      <4>1. c \notin reading
        BY <3>2 DEF LockInv
      <4>2. QED
        BY <3>2, <4>1 DEF TalkInv, Types, TypeOK
    <3>8. QED
      BY <3>4, <3>5, <3>6, <3>7
  <2>3. QED
    BY <2>1, <2>2
<1>3. CASE add_subscriber_by_operation(c)
  <2> DEFINE new == [who |-> client[c], socket |-> c]
  <2>1. new \in [who : Subscribers, socket : Connections] /\ new.who = client[c] /\ new.socket = c
    BY <1>1
  <2>2. /\ records' = Append(records, new)
        /\ rec' = [rec EXCEPT ![c] = Len(records')]
        /\ subscription' = [subscription EXCEPT ![c] = "added"]
        /\ subscription[c] = "creating"
        /\ UNCHANGED <<memory, registered, locked, request, replay, talks, network>>
    BY <1>3 DEF add_subscriber_by_operation
  <2> HIDE DEF new
  <2>3. /\ records' \in Seq([who : Subscribers, socket : Connections])
        /\ Len(records') = Len(records) + 1 /\ DOMAIN records' = 1 .. Len(records) + 1
        /\ \A k \in DOMAIN records : records'[k] = records[k]
        /\ records'[Len(records) + 1] = new
    <3>1. records \in Seq([who : Subscribers, socket : Connections])
      BY DEF Types, TypeOK
    <3>2. QED
      BY <1>1, <2>1, <2>2, <3>1, AppendProperties, LenProperties
  <2>4. Types'
    <3>1. rec' \in [Connections -> 0 .. Len(records')]
      BY <1>1, <2>2, <2>3 DEF Types, TypeOK
    <3>2. QED
      BY <1>1, <2>2, <2>3, <3>1 DEF Types, TypeOK
  <2>5. LockInv' /\ CacheInv'
    BY <2>2 DEF LockInv, CacheInv, Types, TypeOK
  <2>6. RecordInv'
    <3>1. \A k \in DOMAIN records : records[k].socket # c
      BY <2>2 DEF RecordInv, HasRecord
    <3>2. \A k \in 1 .. Len(records) + 1 : k \in DOMAIN records \/ k = Len(records) + 1
      BY <1>1
    <3> USE <1>1, <2>1, <2>2, <2>3
    <3>0. \A d \in Connections :
              /\ subscription'[d] = IF d = c THEN "added" ELSE subscription[d]
              /\ rec'[d] = IF d = c THEN Len(records) + 1 ELSE rec[d]
      BY DEF Types, TypeOK
    <3>3. \A d \in Connections : HasRecord(d)' => /\ rec'[d] \in DOMAIN records'
                                                 /\ records'[rec'[d]].who = client[d]
      BY <3>0 DEF RecordInv, HasRecord
    <3>4. ASSUME NEW k \in DOMAIN records', NEW d \in Connections, records'[k].socket = d
          PROVE  HasRecord(d)' /\ rec'[d] = k /\ client[d] = records'[k].who
      <4>1. CASE k \in DOMAIN records
        BY <3>0, <3>1, <3>4, <4>1 DEF RecordInv, HasRecord
      <4>2. CASE k = Len(records) + 1
        BY <3>0, <3>4, <4>2 DEF HasRecord
      <4>3. QED
        BY <3>2, <4>1, <4>2
    <3>5. \A d \in live' : subscription'[d] # "none"
      BY <3>0 DEF RecordInv, Types, TypeOK
    <3>6. QED
      BY <3>3, <3>4, <3>5 DEF RecordInv
  <2>7. TalkInv'
    <3>1. c \notin reading
      BY <2>2 DEF LockInv
    <3>2. QED
      BY <2>2, <3>1 DEF TalkInv, Types, TypeOK
  <2>8. QED
    BY <2>4, <2>5, <2>6, <2>7
<1>4. CASE register_subscriber(c)
  <2> USE <1>4 DEF register_subscriber
  <2>1. Types'
    <3>1. client[c] \in Subscribers /\ registered' = registered \cup {client[c]} /\ locked' = locked
      BY <1>1
    <3>2. QED
      BY <3>1 DEF Types, TypeOK
  <2>2. \A d \in Connections : subscription'[d] = IF d = c THEN "subscribed" ELSE subscription[d]
    BY DEF Types, TypeOK
  <2>3. LockInv' /\ TalkInv' /\ CacheInv'
    BY <2>2 DEF LockInv, TalkInv, CacheInv
  <2>4. RecordInv'
    BY <1>1, <2>2 DEF RecordInv, HasRecord
  <2>5. QED
    BY <2>1, <2>3, <2>4
<1>5. CASE StartReplay(c)
  <2> USE <1>5 DEF StartReplay, Lock!StartRead, subscribers
  <2>1. Types'
    BY <1>1 DEF Types, TypeOK, messages_from_operation
  <2>0. \A d \in Connections : subscription'[d] = IF d = c THEN "replaying" ELSE subscription[d]
    BY DEF Types, TypeOK
  <2>2. LockInv' /\ RecordInv'
    BY <1>1, <2>0, SMTT(20) DEF LockInv, RecordInv, HasRecord, Types, TypeOK
  <2>3. TalkInv' /\ CacheInv'
    BY <1>1 DEF LockInv, TalkInv, CacheInv, Types, TypeOK, messages_from_operation
  <2>4. QED
    BY <2>1, <2>2, <2>3
<1>6. CASE SendNext(c)
  <2> DEFINE new == Talk(c, rec[c], Min(replay[c]))
  <2> USE <1>6 DEF SendNext, subscribers
  <2>1. Min(replay[c]) \in replay[c] /\ Min(replay[c]) \in Ids
    <3>1. replay[c] \in SUBSET Ids
      BY DEF Types, TypeOK
    <3>2. Min(replay[c]) \in replay[c]
      BY <3>1, MinProperties, ConstantFacts
    <3>3. QED
      BY <3>1, <3>2
  <2>2. rec[c] \in DOMAIN records /\ c \in reading
    BY DEF RecordInv, HasRecord, LockInv
  <2>3. /\ new \in ATalk /\ new.by = c /\ new.rec = rec[c] /\ new.at = "lock"
        /\ new.msg = Min(replay[c]) /\ new.msg \in replay[c] /\ new.msg \in Ids
    BY <1>1, <2>1, <2>2 DEF Talk, ATalk
  <2>4. talks' = talks \cup {new}
    OBVIOUS
  <2> HIDE DEF new
  <2>5. Types'
    BY <2>2, <2>3, <2>4 DEF Types, TypeOK
  <2>6. LockInv' /\ RecordInv' /\ CacheInv'
    BY DEF LockInv, RecordInv, HasRecord, CacheInv
  <2>7. TalkInv'
    BY <2>2, <2>3, <2>4, ConstantFacts DEF TalkInv, Joined
  <2>8. QED
    BY <2>5, <2>6, <2>7
<1>7. CASE EndReplay(c)
  <2> USE <1>7 DEF EndReplay, Lock!EndRead, subscribers
  <2>1. Types'
    BY <1>1 DEF Types, TypeOK
  <2>0. \A d \in Connections : subscription'[d] = IF d = c THEN "done" ELSE subscription[d]
    BY DEF Types, TypeOK
  <2>2. LockInv' /\ RecordInv'
    <3>1. LockInv'
      BY <2>0 DEF LockInv
    <3>2. RecordInv'
      BY <1>1, <2>0 DEF RecordInv, HasRecord, Types, TypeOK
    <3>3. QED
      BY <3>1, <3>2
  <2>3. TalkInv' /\ CacheInv'
    BY <1>1 DEF LockInv, TalkInv, CacheInv, Types, TypeOK
  <2>4. QED
    BY <2>1, <2>2, <2>3
<1>8. QED
  BY <1>2, <1>3, <1>4, <1>5, <1>6, <1>7

\* One step per action of a publisher.
LEMMA RequestBase ==
    ASSUME BaseInv, \/ get_id
                    \/ \E m \in Ids : StartRequest(m) \/ EndRequest(m)
    PROVE  BaseInv'
<1> USE DEF BaseInv, memory, network, subscribers
<1>1. CASE get_id
  <2> USE <1>1 DEF get_id
  <2>1. MESSAGE_ID' \in 1 .. MaxMessages /\ MESSAGE_ID' \in Ids
    BY DeliveryAssumption DEF Types, TypeOK, Ids
  <2>2. request' = [request EXCEPT ![MESSAGE_ID'] = "locking"]
    OBVIOUS
  <2>3. \A m \in Ids : request'[m] = IF m = MESSAGE_ID + 1 THEN "locking" ELSE request[m]
    BY <2>1 DEF Types, TypeOK
  <2>4. Types'
    BY <2>1, <2>2 DEF Types, TypeOK
  <2>5. LockInv'
    <3>1. MESSAGE_ID' = MESSAGE_ID + 1 /\ MESSAGE_ID \in Nat /\ Ids \subseteq Nat
      BY ConstantFacts DEF Types, TypeOK
    <3>2. request[MESSAGE_ID + 1] = "none"
      BY <2>1, <3>1 DEF LockInv
    <3>3. \A m \in Ids : m > MESSAGE_ID + 1 => m > MESSAGE_ID /\ m # MESSAGE_ID + 1
      BY <3>1
    <3>4. QED
      BY <2>3, <3>1, <3>2, <3>3 DEF LockInv
  <2>6. RecordInv' /\ TalkInv' /\ CacheInv'
    BY DEF RecordInv, HasRecord, TalkInv, CacheInv
  <2>7. QED
    BY <2>4, <2>5, <2>6
<1>2. ASSUME NEW m \in Ids, StartRequest(m) PROVE BaseInv'
  <2> USE <1>2 DEF StartRequest, Lock!StartWrite
  <2>1. PICK victims \in SUBSET cached : cached' = (cached \ victims) \cup {m}
    OBVIOUS
  <2>2. talks = {}
    BY DEF TalkInv, Types, TypeOK, ATalk
  <2>3. \A t \in talks' : \E k \in DOMAIN records : t = Talk(m, k, m)
    BY <2>2 DEF NotNotified
  <2>4. ASSUME NEW k \in DOMAIN records
        PROVE  LET t == Talk(m, k, m)
               IN  t \in ATalk /\ t.by = m /\ t.rec = k /\ t.msg = m /\ t.at = "lock"
    BY RecordTypes DEF Talk, ATalk, Types
  <2>5. \A t \in talks' : /\ t \in ATalk /\ t.rec \in DOMAIN records
                          /\ t.by = m /\ t.msg = m /\ t.at = "lock"
    BY <2>3, <2>4
  <2>6. \A t, u \in talks' : t.rec = u.rec => t = u
    BY <2>3, <2>4
  <2>7. Types'
    BY <2>1, <2>5 DEF Types, TypeOK
  <2>8. \A n \in Ids : request'[n] = IF n = m THEN "sending" ELSE request[n]
    BY DEF Types, TypeOK
  <2>9. LockInv' /\ RecordInv'
    BY <2>8 DEF LockInv, RecordInv, HasRecord
  <2>10. TalkInv'
    BY <2>5, <2>6, ConstantFacts DEF TalkInv
  <2>11. CacheInv'
    BY <2>1 DEF CacheInv, LockInv
  <2>12. QED
    BY <2>7, <2>9, <2>10, <2>11
<1>3. ASSUME NEW m \in Ids, EndRequest(m) PROVE BaseInv'
  <2> USE <1>3 DEF EndRequest, Lock!EndWrite
  <2>1. \A n \in Ids : request'[n] = IF n = m THEN "done" ELSE request[n]
    BY DEF Types, TypeOK
  <2>2. Types'
    BY DEF Types, TypeOK
  <2>3. LockInv' /\ RecordInv'
    BY <2>1 DEF LockInv, RecordInv, HasRecord
  <2>4. TalkInv' /\ CacheInv'
    BY DEF TalkInv, CacheInv, Joined
  <2>5. QED
    BY <2>2, <2>3, <2>4
<1>4. QED
  BY <1>1, <1>2, <1>3

\* One step per action of a client.
LEMMA ClientBase ==
    ASSUME BaseInv, NEW c \in Connections, Connect(c) \/ Receive(c) \/ Drop(c)
    PROVE  BaseInv'
<1> USE DEF BaseInv, memory, threads, subscribers
<1>1. CASE Connect(c)
  <2> USE <1>1 DEF Connect
  <2>1. \A d \in Connections : subscription'[d] = IF d = c THEN "accepted" ELSE subscription[d]
    BY DEF Types, TypeOK
  <2>2. Types'
    BY DEF Types, TypeOK
  <2>3. LockInv' /\ TalkInv' /\ CacheInv'
    BY <2>1 DEF LockInv, TalkInv, CacheInv
  <2>4. RecordInv'
    <3>1. ~HasRecord(c) /\ ~HasRecord(c)'
      BY <2>1 DEF HasRecord
    <3>2. \A d \in Connections : HasRecord(d)' <=> HasRecord(d)
      BY <2>1, <3>1 DEF HasRecord
    <3>3. live \subseteq Connections
      BY DEF Types, TypeOK
    <3>4. QED
      BY <2>1, <3>2, <3>3 DEF RecordInv
  <2>5. QED
    BY <2>2, <2>3, <2>4
<1>2. CASE Receive(c)
  <2> USE <1>2 DEF Receive
  <2>1. wire[c] \in Seq(Ids) /\ Head(wire[c]) \in Ids /\ Tail(wire[c]) \in Seq(Ids)
    BY HeadTailProperties DEF Types
  <2>2. acks[c] \in Nat /\ client[c] \in Subscribers
    BY RecordTypes DEF Types, TypeOK
  <2>3. received[client[c]] \in [Ids -> Nat] /\ received[client[c]][Head(wire[c])] \in Nat
    BY <2>1, <2>2 DEF Types
  <2>4. /\ wire' \in [Connections -> Seq(Ids)]
        /\ acks' \in [Connections -> Nat]
        /\ received' \in [Subscribers -> [Ids -> Nat]]
    <3>1. wire' \in [Connections -> Seq(Ids)]
      BY <2>1 DEF Types
    <3>2. acks' \in [Connections -> Nat]
      BY <2>2 DEF Types, TypeOK
    <3> DEFINE got == [received[client[c]] EXCEPT ![Head(wire[c])] =
                          received[client[c]][Head(wire[c])] + 1]
    <3>3. got \in [Ids -> Nat]
      BY <2>1, <2>3
    <3>4. received' = [received EXCEPT ![client[c]] = got]
      OBVIOUS
    <3> HIDE DEF got
    <3>5. received' \in [Subscribers -> [Ids -> Nat]]
      BY <2>2, <3>3, <3>4 DEF Types
    <3>6. QED
      BY <3>1, <3>2, <3>5
  <2>5. Types'
    BY <2>4 DEF Types, TypeOK
  <2>6. LockInv' /\ RecordInv' /\ TalkInv' /\ CacheInv'
    BY DEF LockInv, RecordInv, HasRecord, TalkInv, CacheInv
  <2>7. QED
    BY <2>5, <2>6
<1>3. CASE Drop(c)
  <2> USE <1>3 DEF Drop
  <2>1. wire' \in [Connections -> Seq(Ids)] /\ acks' \in [Connections -> Nat]
    BY EmptySeq DEF Types, TypeOK
  <2>2. Types'
    BY <2>1 DEF Types, TypeOK
  <2>3. LockInv' /\ RecordInv' /\ TalkInv' /\ CacheInv'
    BY DEF LockInv, RecordInv, HasRecord, TalkInv, CacheInv
  <2>4. QED
    BY <2>2, <2>3
<1>4. QED
  BY <1>1, <1>2, <1>3

LEMMA NextBase == BaseInv /\ [Next]_vars => BaseInv'
<1> SUFFICES ASSUME BaseInv, [Next]_vars PROVE BaseInv'
  OBVIOUS
<1>1. CASE Next
  BY <1>1, TalkBase, SubscriptionBase, RequestBase, ClientBase
     DEF Next, BrokerStep, ClientStep, Environment
<1>2. CASE UNCHANGED vars
  <2> USE <1>2 DEF vars, memory, subscribers, threads, network, BaseInv
  <2>1. Types'
    BY DEF Types, TypeOK
  <2>2. LockInv' /\ RecordInv' /\ TalkInv' /\ CacheInv'
    BY DEF LockInv, RecordInv, HasRecord, TalkInv, CacheInv
  <2>3. QED
    BY <2>1, <2>2
<1>3. QED
  BY <1>1, <1>2

\* The partition that is being sent stays cached (broker.c:95-115, 117-139): the
\* lock is held to read while anything is replayed, to write while it is pushed.
THEOREM SentIsCached == Spec => []SentStaysCached
<1>1. BaseInv => SentStaysCached
  <2>1. SUFFICES ASSUME BaseInv, NEW t \in talks PROVE t.msg \in cached
    BY DEF BaseInv, CacheInv, SentStaysCached
  <2>2. t.by \in Connections \cup Ids
    BY <2>1, TalkTypes DEF ATalk
  <2>3. QED
    BY <2>1, <2>2 DEF BaseInv, TalkInv, CacheInv
<1>2. QED
  BY <1>1, InitBase, NextBase, PTL DEF Spec

-----------------------------------------------------------------------------
(***************************************************************************)
(* No message is missed.                                                   *)
(***************************************************************************)

LEMMA InitMissed == Init => MissedInv
BY DEF Init, MissedInv, DoneInv, ReplayInv, PushInv

LEMMA BecomesMissed ==
    ASSUME BaseInv, MissedInv, NEW t \in talks, NEW new, Becomes(t, new), UNCHANGED client,
           new.by = t.by, new.rec = t.rec, new.msg = t.msg,
           \A m \in Ids : notified[m] \subseteq notified'[m],
           new.at = "recv" => new.waitsOn = Socket(t),
           ASSUME NEW c \in Connections, PointsAt(t.rec, c), new.at = "unlock",
                  t.at = "recv" => t.waitsOn = c
           PROVE  was_notified(t.msg, client[c])'
    PROVE  MissedInv'
<1> USE DEF Becomes, PointsAt
<1>1. t.rec \in DOMAIN records /\ t.msg \in Ids /\ cached \subseteq Ids /\ writing \subseteq Ids
  BY TalkTypes DEF BaseInv, Types, TypeOK
<1>2. \A m \in Ids : \A who : was_notified(m, who) => was_notified(m, who)'
  BY DEF was_notified
<1>3. DoneInv'
  BY <1>1, <1>2 DEF MissedInv, DoneInv
<1>4. ReplayInv'
  <2>1. ASSUME NEW k \in DOMAIN records, NEW c \in Connections, PointsAt(k, c),
               subscription[c] = "replaying", NEW m \in cached
        PROVE  was_notified(m, client[c])' \/ m \in replay[c]
    BY <1>1, <1>2, <2>1 DEF MissedInv, ReplayInv
  <2>2. ASSUME NEW k \in DOMAIN records, NEW c \in Connections, PointsAt(k, c),
               NEW u \in talks', u.by = c
        PROVE  /\ u.at = "recv" => u.waitsOn = c
               /\ u.at = "unlock" => was_notified(u.msg, client[c])'
    <3>1. CASE u \in talks
      BY <1>1, <1>2, <2>2, <3>1, TalkTypes DEF MissedInv, ReplayInv
    <3>2. CASE u = new
      <4>1. t.rec = k
        BY <2>2, <3>2 DEF BaseInv, TalkInv, RecordInv
      <4>2. t.at = "recv" => t.waitsOn = c
        BY <2>2, <3>2 DEF MissedInv, ReplayInv
      <4>3. QED
        BY <2>2, <3>2, <4>1, <4>2 DEF Socket
    <3>3. QED
      BY <3>1, <3>2
  <2>3. QED
    BY <2>1, <2>2 DEF ReplayInv
<1>5. PushInv'
  <2>1. ASSUME NEW k \in DOMAIN records, NEW c \in Connections, PointsAt(k, c),
               subscription[c] = "done", NEW m \in writing, ~was_notified(m, client[c])'
        PROVE  \E u \in talks' : /\ u.by = m /\ u.rec = k /\ u.at # "unlock"
                                 /\ u.at = "recv" => u.waitsOn = c
    <3>1. ~was_notified(m, client[c])
      BY <1>1, <1>2, <2>1
    <3>2. PICK u \in talks : /\ u.by = m /\ u.rec = k /\ u.at # "unlock"
                             /\ u.at = "recv" => u.waitsOn = c
      BY <2>1, <3>1 DEF MissedInv, PushInv
    <3>3. CASE u # t
      BY <3>2, <3>3
    <3>4. CASE u = t
      <4>1. t.msg = m
        BY <1>1, <3>2, <3>4 DEF BaseInv, TalkInv
      <4>2. new.at # "unlock"
        BY <2>1, <3>2, <3>4, <4>1
      <4>3. new.at = "recv" => new.waitsOn = c
        BY <2>1, <3>2, <3>4 DEF Socket
      <4>4. QED
        BY <3>2, <3>4, <4>2, <4>3
    <3>5. QED
      BY <3>3, <3>4
  <2>2. QED
    BY <2>1 DEF PushInv
<1>6. QED
  BY <1>3, <1>4, <1>5 DEF MissedInv

LEMMA TalkMissed ==
    ASSUME BaseInv, MissedInv, NEW t \in talks, TalkStep(t)
    PROVE  MissedInv'
<1>1. /\ t \in ATalk /\ t.rec \in DOMAIN records /\ t.msg \in Ids
      /\ t.at = "recv" => t.waitsOn \in Connections
      /\ \A c \in Connections : PointsAt(t.rec, c) => Who(t) = client[c] /\ Socket(t) = c
  BY TalkTypes DEF BaseInv, RecordInv, PointsAt, Who, Socket
<1>2. CASE lock_subscriber(t)
  <2> DEFINE new == [t EXCEPT !.at = "send"]
  <2>1. /\ new.by = t.by /\ new.rec = t.rec /\ new.msg = t.msg /\ new.at = "send"
    BY <1>1 DEF ATalk
  <2>2. Becomes(t, new) /\ UNCHANGED <<client, notified>>
    BY <1>2 DEF lock_subscriber, Becomes
  <2> HIDE DEF new
  <2>3. QED
    BY <2>1, <2>2, BecomesMissed
<1>3. CASE Send(t)
  <2> DEFINE new == [t EXCEPT !.at = "sent", !.sentOn = Socket(t)]
  <2>1. /\ new.by = t.by /\ new.rec = t.rec /\ new.msg = t.msg /\ new.at = "sent"
    BY <1>1 DEF ATalk
  <2>2. Becomes(t, new) /\ UNCHANGED <<client, notified>>
    BY <1>3 DEF Send, Becomes
  <2> HIDE DEF new
  <2>3. QED
    BY <2>1, <2>2, BecomesMissed
<1>4. CASE SendFails(t)
  <2> DEFINE new == [t EXCEPT !.at = "unlock"]
  <2>1. /\ new.by = t.by /\ new.rec = t.rec /\ new.msg = t.msg /\ new.at = "unlock"
    BY <1>1 DEF ATalk
  <2>2. Becomes(t, new) /\ UNCHANGED <<client, notified>> /\ Socket(t) \notin live
    BY <1>4 DEF SendFails, Becomes
  <2>3. \A c \in Connections : ~PointsAt(t.rec, c)
    BY <1>1, <2>2 DEF PointsAt
  <2> HIDE DEF new
  <2>4. QED
    BY <2>1, <2>2, <2>3, BecomesMissed
<1>5. CASE Recv(t)
  <2> DEFINE new == [t EXCEPT !.at = "recv", !.waitsOn = Socket(t)]
  <2>1. /\ new.by = t.by /\ new.rec = t.rec /\ new.msg = t.msg /\ new.at = "recv"
        /\ new.waitsOn = Socket(t)
    BY <1>1 DEF ATalk
  <2>2. Becomes(t, new) /\ UNCHANGED <<client, notified>>
    BY <1>5 DEF Recv, Becomes
  <2> HIDE DEF new
  <2>3. QED
    BY <2>1, <2>2, BecomesMissed
<1>6. CASE RecvReturns(t)
  <2> DEFINE new == [t EXCEPT !.at = "unlock"]
  <2>1. /\ new.by = t.by /\ new.rec = t.rec /\ new.msg = t.msg /\ new.at = "unlock"
    BY <1>1 DEF ATalk
  <2>2. Becomes(t, new) /\ UNCHANGED client /\ t.at = "recv"
    BY <1>6 DEF RecvReturns, Becomes
  <2>3. \A m \in Ids : notified[m] \subseteq notified'[m]
    BY <1>6 DEF RecvReturns, BaseInv, Types, TypeOK
  <2>4. ASSUME NEW c \in Connections, PointsAt(t.rec, c), t.waitsOn = c
        PROVE  was_notified(t.msg, client[c])'
    <3>1. GotAck(t)
      BY <1>6, <2>4 DEF RecvReturns, GotAck, PointsAt
    <3>2. notified' = [notified EXCEPT ![t.msg] = @ \cup {Who(t)}]
      BY <1>6, <3>1 DEF RecvReturns
    <3>3. client' = client /\ Who(t) = client[c]
      BY <1>1, <2>2, <2>4
    <3>4. QED
      BY <1>1, <3>2, <3>3 DEF was_notified, BaseInv, Types, TypeOK
  <2> HIDE DEF new
  <2>5. QED
    BY <2>1, <2>2, <2>3, <2>4, BecomesMissed
<1>7. CASE unlock_subscriber(t)
  <2> USE <1>7 DEF unlock_subscriber, memory, network, PointsAt, was_notified
  <2>1. DoneInv'
    BY DEF MissedInv, DoneInv
  <2>2. ReplayInv'
    <3>1. ASSUME NEW k \in DOMAIN records, NEW c \in Connections, PointsAt(k, c),
                 subscription[c] = "replaying", NEW m \in cached, m \in replay[c]
          PROVE  was_notified(m, client[c]) \/ m \in replay'[c]
      <4>1. CASE t.by = c /\ t.msg = m
        BY <3>1, <4>1 DEF MissedInv, ReplayInv
      <4>2. CASE ~(t.by = c /\ t.msg = m)
        BY <3>1, <4>2 DEF BaseInv, Types, TypeOK
      <4>3. QED
        BY <4>1, <4>2
    <3>2. QED
      BY <3>1 DEF MissedInv, ReplayInv
  <2>3. PushInv'
    BY DEF MissedInv, PushInv
  <2>4. QED
    BY <2>1, <2>2, <2>3 DEF MissedInv
<1>8. QED
  BY <1>2, <1>3, <1>4, <1>5, <1>6, <1>7 DEF TalkStep

LEMMA SubscriptionMissed ==
    ASSUME BaseInv, MissedInv, NEW c \in Connections,
           \/ create_or_update_subscriber(c)
           \/ add_subscriber_by_operation(c)
           \/ register_subscriber(c)
           \/ StartReplay(c)
           \/ SendNext(c)
           \/ EndReplay(c)
    PROVE  MissedInv'
<1> USE DEF memory, network, subscribers
<1>1. /\ DOMAIN records = 1 .. Len(records) /\ Len(records) \in Nat
      /\ records \in Seq([who : Subscribers, socket : Connections])
      /\ subscription \in [Connections -> {"none", "accepted", "creating",
                          "added", "subscribed", "replaying", "done"}]
  BY RecordTypes DEF BaseInv, Types, TypeOK
<1>2. ASSUME NEW k \in DOMAIN records, NEW d \in Connections, PointsAt(k, d)
      PROVE  rec[d] = k /\ client[d] = records[k].who /\ HasRecord(d)
  BY <1>2 DEF BaseInv, RecordInv, PointsAt
\* A connection that has just got its record neither replays nor is done.
<1>3. ASSUME subscription[c] \in {"accepted", "creating"},
             subscription'[c] \notin {"replaying", "done"},
             \A d \in Connections : d # c => subscription'[d] = subscription[d],
             UNCHANGED <<live, cached, notified, client, request, replay, talks, writing>>,
             \A k \in DOMAIN records' : \A d \in Connections :
                 records'[k].socket = d => d = c \/ (k \in DOMAIN records /\ records[k].socket = d)
      PROVE  MissedInv'
  <2>1. \A t \in talks : t.by # c
    BY <1>3 DEF BaseInv, TalkInv, LockInv
  <2>2. \A k \in DOMAIN records' : \A d \in Connections :
            PointsAt(k, d)' => d = c \/ (k \in DOMAIN records /\ PointsAt(k, d))
    BY <1>3 DEF PointsAt
  <2>3. DoneInv'
    BY <1>3, <2>2 DEF MissedInv, DoneInv, was_notified
  <2>4. ReplayInv'
    BY <1>3, <2>1, <2>2 DEF MissedInv, ReplayInv, was_notified
  <2>5. PushInv'
    BY <1>3, <2>2 DEF MissedInv, PushInv, was_notified
  <2>6. QED
    BY <2>3, <2>4, <2>5 DEF MissedInv
<1>4. CASE create_or_update_subscriber(c)
  <2> DEFINE found == FindSubscriber(client[c])
  <2>1. CASE found = 0
    <3> HIDE DEF found
    <3>1. /\ subscription' = [subscription EXCEPT ![c] = "creating"]
          /\ subscription[c] = "accepted"
          /\ UNCHANGED <<records, memory, request, replay, talks, network>>
      BY <1>4, <2>1 DEF create_or_update_subscriber, found
    <3>2. \A d \in Connections : subscription'[d] = IF d = c THEN "creating" ELSE subscription[d]
      BY <1>1, <3>1
    <3>3. QED
      BY <1>3, <3>1, <3>2
  <2>2. CASE found # 0
    <3>1. found \in DOMAIN records
      BY <1>1, <2>2, FindSubscriberProperties
    <3> HIDE DEF found
    <3>2. /\ records' = [records EXCEPT ![found].socket = c]
          /\ subscription' = [subscription EXCEPT ![c] = "subscribed"]
          /\ subscription[c] = "accepted"
          /\ UNCHANGED <<memory, request, replay, talks, network>>
      BY <1>4, <2>2 DEF create_or_update_subscriber, found
    <3>3. DOMAIN records' = DOMAIN records
      BY <1>1, <3>2
    <3>4. \A k \in DOMAIN records : k # found => records'[k].socket = records[k].socket
      BY <1>1, <3>1, <3>2
    <3>5. records'[found].socket = c
      BY <1>1, <3>1, <3>2, RecordTypes DEF BaseInv, Types
    <3>6. \A d \in Connections : subscription'[d] = IF d = c THEN "subscribed" ELSE subscription[d]
      BY <1>1, <3>2
    <3>7. QED
      BY <1>3, <3>2, <3>3, <3>4, <3>5, <3>6
  <2>3. QED
    BY <2>1, <2>2
<1>5. CASE add_subscriber_by_operation(c)
  <2> DEFINE new == [who |-> client[c], socket |-> c]
  <2>1. new \in [who : Subscribers, socket : Connections] /\ new.socket = c
    BY RecordTypes DEF BaseInv, Types
  <2>2. /\ records' = Append(records, new)
        /\ subscription' = [subscription EXCEPT ![c] = "added"]
        /\ subscription[c] = "creating"
        /\ UNCHANGED <<memory, request, replay, talks, network>>
    BY <1>5 DEF add_subscriber_by_operation
  <2> HIDE DEF new
  <2>3. /\ DOMAIN records' = 1 .. Len(records) + 1
        /\ \A k \in DOMAIN records : records'[k] = records[k]
        /\ records'[Len(records) + 1] = new
    BY <1>1, <2>1, <2>2, AppendProperties, LenProperties
  <2>4. \A k \in DOMAIN records' : k \in DOMAIN records \/ k = Len(records) + 1
    BY <1>1, <2>3
  <2>5. \A d \in Connections : subscription'[d] = IF d = c THEN "added" ELSE subscription[d]
    BY <1>1, <2>2
  <2>6. QED
    BY <1>3, <2>1, <2>2, <2>3, <2>4, <2>5
<1>6. CASE register_subscriber(c)
  <2>1. /\ subscription' = [subscription EXCEPT ![c] = "subscribed"]
        /\ subscription[c] = "added"
        /\ UNCHANGED <<records, memory, request, replay, talks, network>>
    BY <1>6 DEF register_subscriber
  <2>2. \A d \in Connections : subscription'[d] = IF d = c THEN "subscribed" ELSE subscription[d]
    BY <1>1, <2>1
  <2>3. DoneInv' /\ ReplayInv' /\ PushInv'
    BY <2>1, <2>2 DEF MissedInv, DoneInv, ReplayInv, PushInv, PointsAt, was_notified
  <2>4. QED
    BY <2>3 DEF MissedInv
<1>7. CASE StartReplay(c)
  <2> USE <1>7 DEF StartReplay, Lock!StartRead, PointsAt, was_notified
  <2>1. \A d \in Connections : subscription'[d] = IF d = c THEN "replaying" ELSE subscription[d]
    BY <1>1
  <2>2. replay'[c] = {m \in cached : c \in Connections /\ ~was_notified(m, client[c])}
    BY DEF messages_from_operation, BaseInv, Types, TypeOK
  <2>3. \A t \in talks : t.by # c
    BY DEF BaseInv, TalkInv
  <2>4. \A d \in Connections : d # c => replay'[d] = replay[d]
    BY DEF BaseInv, Types, TypeOK
  <2>5. DoneInv' /\ PushInv'
    BY <2>1 DEF MissedInv, DoneInv, PushInv
  <2>6. ReplayInv'
    BY <2>1, <2>2, <2>3, <2>4 DEF MissedInv, ReplayInv
  <2>7. QED
    BY <2>5, <2>6 DEF MissedInv
<1>8. CASE SendNext(c)
  <2> DEFINE new == Talk(c, rec[c], Min(replay[c]))
  <2>1. new.by = c /\ new.at = "lock"
    BY DEF Talk
  <2>2. talks' = talks \cup {new}
        /\ UNCHANGED <<memory, subscribers, request, subscription, rec, replay, network>>
    BY <1>8 DEF SendNext
  <2> HIDE DEF new
  <2>3. DoneInv' /\ ReplayInv' /\ PushInv'
    BY <2>1, <2>2 DEF MissedInv, DoneInv, ReplayInv, PushInv, PointsAt, was_notified
  <2>4. QED
    BY <2>3 DEF MissedInv
<1>9. CASE EndReplay(c)
  <2> USE <1>9 DEF EndReplay, Lock!EndRead, PointsAt, was_notified
  <2>1. \A d \in Connections : subscription'[d] = IF d = c THEN "done" ELSE subscription[d]
    BY <1>1
  <2>2. writing = {} /\ writing' = {}
    BY DEF BaseInv, LockInv
  <2>3. DoneInv'
    BY <2>1 DEF MissedInv, DoneInv, ReplayInv
  <2>4. ReplayInv'
    BY <2>1 DEF MissedInv, ReplayInv
  <2>5. PushInv'
    BY <2>2 DEF PushInv
  <2>6. QED
    BY <2>3, <2>4, <2>5 DEF MissedInv
<1>10. QED
  BY <1>4, <1>5, <1>6, <1>7, <1>8, <1>9

LEMMA RequestMissed ==
    ASSUME BaseInv, MissedInv, \/ get_id
                               \/ \E m \in Ids : StartRequest(m) \/ EndRequest(m)
    PROVE  MissedInv'
<1> USE DEF memory, network, subscribers, PointsAt, was_notified
<1>1. CASE get_id
  <2> USE <1>1 DEF get_id
  <2>1. \A m \in Ids : request[m] = "sending" => request'[m] = "sending"
    BY RequestBase DEF BaseInv, LockInv
  <2>2. DoneInv'
    BY <2>1 DEF MissedInv, DoneInv, BaseInv, Types, TypeOK
  <2>3. ReplayInv' /\ PushInv'
    BY DEF MissedInv, ReplayInv, PushInv
  <2>4. QED
    BY <2>2, <2>3 DEF MissedInv
<1>2. ASSUME NEW m \in Ids, StartRequest(m) PROVE MissedInv'
  <2> USE <1>2 DEF StartRequest, Lock!StartWrite
  <2>1. PICK victims \in SUBSET cached : cached' = (cached \ victims) \cup {m}
    OBVIOUS
  <2>2. \A n \in Ids : request'[n] = IF n = m THEN "sending" ELSE request[n]
    BY DEF BaseInv, Types, TypeOK
  <2>3. \A c \in Connections : subscription[c] # "replaying"
    BY DEF BaseInv, LockInv
  <2>4. ASSUME NEW k \in DOMAIN records
        PROVE  LET t == Talk(m, k, m) IN t.by = m /\ t.rec = k /\ t.at = "lock"
    BY DEF Talk
  <2>5. \A k \in NotNotified(m) : Talk(m, k, m) \in talks'
    OBVIOUS
  <2>6. \A t \in talks' : t.by \notin Connections
    <3>1. talks = {}
      BY DEF BaseInv, TalkInv, Types, TypeOK, ATalk
    <3>2. \A t \in talks' : \E k \in DOMAIN records : t = Talk(m, k, m)
      BY <3>1 DEF NotNotified
    <3>3. QED
      BY <2>4, <3>2, ConstantFacts
  <2>7. DoneInv'
    BY <2>1, <2>2, ZenonT(40) DEF MissedInv, DoneInv, BaseInv, Types, TypeOK
  <2>8. ReplayInv'
    BY <2>3, <2>6 DEF ReplayInv
  <2>9. PushInv'
    <3>1. SUFFICES ASSUME NEW k \in DOMAIN records, NEW c \in Connections, PointsAt(k, c),
                          ~was_notified(m, client[c])
                   PROVE  \E t \in talks' : /\ t.by = m /\ t.rec = k
                                            /\ t.at # "unlock"
                                            /\ t.at = "recv" => t.waitsOn = c
      BY DEF PushInv
    <3>2. k \in NotNotified(m)
      BY <3>1 DEF NotNotified, BaseInv, RecordInv
    <3>3. QED
      BY <2>4, <2>5, <3>2
  <2>10. QED
    BY <2>7, <2>8, <2>9 DEF MissedInv
<1>3. ASSUME NEW m \in Ids, EndRequest(m) PROVE MissedInv'
  <2> USE <1>3 DEF EndRequest, Lock!EndWrite
  <2>1. \A n \in Ids : request'[n] = IF n = m THEN "done" ELSE request[n]
    BY DEF BaseInv, Types, TypeOK
  <2>2. m \in writing
    OBVIOUS
  <2>3. DoneInv'
    <3>1. ASSUME NEW k \in DOMAIN records, NEW c \in Connections, PointsAt(k, c),
                 subscription[c] = "done"
          PROVE  was_notified(m, client[c])
      BY <2>2, <3>1 DEF MissedInv, PushInv, Joined
    <3>2. cached \subseteq Ids
      BY DEF BaseInv, Types, TypeOK
    <3>3. QED
      BY <2>1, <3>1, <3>2 DEF MissedInv, DoneInv
  <2>4. ReplayInv' /\ PushInv'
    BY DEF MissedInv, ReplayInv, PushInv
  <2>5. QED
    BY <2>3, <2>4 DEF MissedInv
<1>4. QED
  BY <1>1, <1>2, <1>3

LEMMA ClientMissed ==
    ASSUME BaseInv, MissedInv, NEW c \in Connections, Connect(c) \/ Receive(c) \/ Drop(c)
    PROVE  MissedInv'
<1> USE DEF memory, threads, subscribers, was_notified
<1>1. CASE Connect(c)
  <2> USE <1>1 DEF Connect
  <2>1. \A d \in Connections : subscription'[d] = IF d = c THEN "accepted" ELSE subscription[d]
    BY DEF BaseInv, Types, TypeOK
  <2>2. \A k \in DOMAIN records, d \in Connections : PointsAt(k, d)' => PointsAt(k, d) /\ d # c
    BY DEF PointsAt, BaseInv, RecordInv, HasRecord
  <2>3. DoneInv' /\ ReplayInv' /\ PushInv'
    BY <2>1, <2>2 DEF MissedInv, DoneInv, ReplayInv, PushInv
  <2>4. QED
    BY <2>3 DEF MissedInv
<1>2. CASE Receive(c)
  BY <1>2 DEF Receive, MissedInv, DoneInv, ReplayInv, PushInv, PointsAt
<1>3. CASE Drop(c)
  BY <1>3 DEF Drop, MissedInv, DoneInv, ReplayInv, PushInv, PointsAt
<1>4. QED
  BY <1>1, <1>2, <1>3

LEMMA NextMissed == BaseInv /\ MissedInv /\ [Next]_vars => MissedInv'
<1> SUFFICES ASSUME BaseInv, MissedInv, [Next]_vars PROVE MissedInv'
  OBVIOUS
<1>1. CASE Next
  BY <1>1, TalkMissed, SubscriptionMissed, RequestMissed, ClientMissed
     DEF Next, BrokerStep, ClientStep, Environment
<1>2. CASE UNCHANGED vars
  BY <1>2 DEF vars, memory, subscribers, threads, network, was_notified,
              MissedInv, DoneInv, ReplayInv, PushInv, PointsAt
<1>3. QED
  BY <1>1, <1>2

\* A client that is still there when its replay has ended has acknowledged every
\* cached message that is not being pushed (broker.c:95-139), whatever the order
\* of publications, subscriptions, evictions and lost connections.
THEOREM NoneIsMissed == Spec => []NoMessageMissed
<1>1. BaseInv /\ MissedInv => NoMessageMissed
  <2>1. SUFFICES ASSUME BaseInv, MissedInv, NEW k \in DOMAIN records,
                        records[k].socket \in live, subscription[records[k].socket] = "done",
                        NEW m \in cached
                 PROVE  request[m] = "sending" \/ was_notified(m, records[k].who)
    BY DEF NoMessageMissed
  <2>2. records[k].socket \in Connections
    BY <2>1, RecordTypes DEF BaseInv, Types
  <2>3. client[records[k].socket] = records[k].who
    BY <2>1, <2>2 DEF BaseInv, RecordInv
  <2>4. QED
    BY <2>1, <2>2, <2>3 DEF MissedInv, DoneInv, PointsAt
<1>2. QED
  BY <1>1, InitBase, NextBase, InitMissed, NextMissed, PTL DEF Spec

-----------------------------------------------------------------------------
(***************************************************************************)
(* A client that subscribed once gets each message once.                   *)
(***************************************************************************)

LEMMA InitHistory == Init => HistoryInv
<1> SUFFICES ASSUME Init PROVE HistoryInv
  OBVIOUS
<1> USE ConstantFacts DEF Init
<1>1. NeverInv
  BY DEF NeverInv, was_notified
<1>2. FreshInv /\ WaitInv
  BY DEF FreshInv, WaitInv
<1>3. QED
  BY <1>1, <1>2 DEF HistoryInv

\* The subscriber of a talk has subscribed.
LEMMA TalkSubscribed ==
    ASSUME BaseInv, NEW t \in talks
    PROVE  /\ client[Socket(t)] = Who(t)
           /\ subscription[Socket(t)] # "none"
  BY TalkTypes DEF BaseInv, RecordInv, HasRecord, Socket, Who

LEMMA TalkHistory ==
    ASSUME BaseInv, HistoryInv, NEW t \in talks, TalkStep(t)
    PROVE  HistoryInv'
<1> USE DEF Becomes, memory, network
<1>1. /\ t \in ATalk /\ t.rec \in DOMAIN records /\ t.msg \in Ids
      /\ Who(t) \in Subscribers /\ Socket(t) \in Connections
      /\ t.at = "recv" => t.waitsOn \in Connections
      /\ client[Socket(t)] = Who(t) /\ subscription[Socket(t)] # "none"
  BY TalkTypes, TalkSubscribed
<1>2. UNCHANGED <<client, subscription, records, received, live>>
  BY DEF TalkStep, lock_subscriber, Send, SendFails, Recv, RecvReturns, unlock_subscriber
<1>3. NeverInv'
  <2>1. ASSUME NEW who \in Subscribers, NEW m \in Ids, was_notified(m, who)'
        PROVE  was_notified(m, who) \/ who = Who(t)
    <3>1. CASE RecvReturns(t)
      <4>1. notified' = notified \/ notified' = [notified EXCEPT ![t.msg] = @ \cup {Who(t)}]
        BY <3>1 DEF RecvReturns
      <4>2. notified \in [Ids -> SUBSET Subscribers]
        BY DEF BaseInv, Types, TypeOK
      <4>3. notified'[m] = notified[m] \/ notified'[m] = notified[m] \cup {Who(t)}
        BY <1>1, <4>1, <4>2
      <4>4. QED
        BY <2>1, <4>3 DEF was_notified
    <3>2. CASE ~RecvReturns(t)
      BY <2>1, <3>2 DEF TalkStep, lock_subscriber, Send, SendFails, Recv, unlock_subscriber, was_notified
    <3>3. QED
      BY <3>1, <3>2
  <2>2. QED
    BY <1>1, <1>2, <2>1 DEF HistoryInv, NeverInv
<1>4. FreshInv'
  <2>1. CASE Send(t)
    <3>1. \A c \in Connections : wire'[c] = wire[c] \/ c = Socket(t)
      BY <1>1, <2>1 DEF Send, BaseInv, Types
    <3>2. QED
      BY <1>1, <1>2, <2>1, <3>1 DEF Send, HistoryInv, FreshInv
  <2>2. CASE RecvReturns(t)
    <3>1. \A c \in Connections : acks[c] = 0 => acks'[c] = 0
      BY <1>1, <2>2, SMTT(20) DEF RecvReturns, BaseInv, Types, TypeOK
    <3>2. QED
      BY <1>2, <2>2, <3>1 DEF RecvReturns, HistoryInv, FreshInv
  <2>3. CASE ~Send(t) /\ ~RecvReturns(t)
    BY <1>2, <2>3 DEF TalkStep, lock_subscriber, SendFails, Recv, unlock_subscriber, HistoryInv, FreshInv
  <2>4. QED
    BY <2>1, <2>2, <2>3
<1>5. WaitInv'
  <2>1. CASE unlock_subscriber(t)
    BY <1>2, <2>1 DEF unlock_subscriber, HistoryInv, WaitInv
  <2>2. CASE ~unlock_subscriber(t)
    <3>1. PICK new : /\ talks' = (talks \ {t}) \cup {new}
                     /\ new.at = "recv" => new.waitsOn = Socket(t) /\ new.rec = t.rec
      <4>1. CASE lock_subscriber(t)
        <5>1. [t EXCEPT !.at = "send"].at = "send"
          BY <1>1 DEF ATalk
        <5>2. QED
          BY <4>1, <5>1 DEF lock_subscriber
      <4>2. CASE Send(t)
        <5>1. [t EXCEPT !.at = "sent", !.sentOn = Socket(t)].at = "sent"
          BY <1>1 DEF ATalk
        <5>2. QED
          BY <4>2, <5>1 DEF Send
      <4>3. CASE SendFails(t) \/ RecvReturns(t)
        <5>1. [t EXCEPT !.at = "unlock"].at = "unlock"
          BY <1>1 DEF ATalk
        <5>2. QED
          BY <4>3, <5>1 DEF SendFails, RecvReturns
      <4>4. CASE Recv(t)
        <5>1. LET new == [t EXCEPT !.at = "recv", !.waitsOn = Socket(t)]
              IN  new.waitsOn = Socket(t) /\ new.rec = t.rec
          BY <1>1 DEF ATalk
        <5>2. QED
          BY <4>4, <5>1 DEF Recv
      <4>5. QED
        BY <2>2, <4>1, <4>2, <4>3, <4>4 DEF TalkStep
    <3>2. QED
      BY <1>1, <1>2, <3>1 DEF HistoryInv, WaitInv, Who
  <2>3. QED
    BY <2>1, <2>2
<1>6. QED
  BY <1>3, <1>4, <1>5 DEF HistoryInv

\* Records are only added, and keep their subscriber.
LEMMA RecordsKeepWho ==
    ASSUME BaseInv, NEW c \in Connections,
           \/ create_or_update_subscriber(c)
           \/ add_subscriber_by_operation(c)
           \/ register_subscriber(c)
           \/ StartReplay(c)
           \/ SendNext(c)
           \/ EndReplay(c)
    PROVE  \A k \in DOMAIN records : records'[k].who = records[k].who
<1>1. /\ DOMAIN records = 1 .. Len(records) /\ Len(records) \in Nat
      /\ records \in Seq([who : Subscribers, socket : Connections])
      /\ client \in [Connections -> Subscribers]
      /\ \A k \in DOMAIN records : records[k] \in [who : Subscribers, socket : Connections]
  BY RecordTypes DEF BaseInv, Types, TypeOK
<1>2. CASE create_or_update_subscriber(c)
  <2> DEFINE found == FindSubscriber(client[c])
  <2>1. CASE found = 0
    BY <1>2, <2>1 DEF create_or_update_subscriber
  <2>2. CASE found # 0
    <3>1. records' = [records EXCEPT ![found].socket = c]
      BY <1>2, <2>2 DEF create_or_update_subscriber
    <3> HIDE DEF found
    <3>2. QED
      BY <1>1, <3>1
  <2>3. QED
    BY <2>1, <2>2
<1>3. CASE add_subscriber_by_operation(c)
  <2>1. [who |-> client[c], socket |-> c] \in [who : Subscribers, socket : Connections]
    BY <1>1
  <2>2. QED
    BY <1>1, <1>3, <2>1, AppendProperties DEF add_subscriber_by_operation
<1>4. CASE register_subscriber(c) \/ StartReplay(c) \/ SendNext(c) \/ EndReplay(c)
  BY <1>4 DEF register_subscriber, StartReplay, SendNext, EndReplay, subscribers
<1>5. QED
  BY <1>2, <1>3, <1>4

\* A step of a subscription leaves what its connection carries as it is.
LEMMA SubscriptionFrame ==
    ASSUME BaseInv, NEW c \in Connections,
           \/ create_or_update_subscriber(c)
           \/ add_subscriber_by_operation(c)
           \/ register_subscriber(c)
           \/ StartReplay(c)
           \/ SendNext(c)
           \/ EndReplay(c)
    PROVE  /\ subscription[c] # "none"
           /\ \A d \in Connections : subscription'[d] = "none" <=> subscription[d] = "none"
           /\ UNCHANGED <<client, live, wire, acks, received, notified>>
<1> USE DEF memory, network, BaseInv, Types, TypeOK
<1>1. CASE create_or_update_subscriber(c)
  BY <1>1 DEF create_or_update_subscriber
<1>2. CASE add_subscriber_by_operation(c) \/ register_subscriber(c)
  BY <1>2 DEF add_subscriber_by_operation, register_subscriber
<1>3. CASE StartReplay(c) \/ SendNext(c) \/ EndReplay(c)
  BY <1>3 DEF StartReplay, SendNext, EndReplay
<1>4. QED
  BY <1>1, <1>2, <1>3

LEMMA SubscriptionHistory ==
    ASSUME BaseInv, HistoryInv, NEW c \in Connections,
           \/ create_or_update_subscriber(c)
           \/ add_subscriber_by_operation(c)
           \/ register_subscriber(c)
           \/ StartReplay(c)
           \/ SendNext(c)
           \/ EndReplay(c)
    PROVE  HistoryInv'
<1>1. NeverInv' /\ FreshInv'
  BY SubscriptionFrame DEF HistoryInv, NeverInv, FreshInv, was_notified
<1>2. \A t \in talks' : t \in talks \/ t.at = "lock"
  BY DEF create_or_update_subscriber, add_subscriber_by_operation, register_subscriber,
         StartReplay, SendNext, EndReplay, Talk
<1>3. WaitInv'
  BY <1>2, TalkTypes, SubscriptionFrame, RecordsKeepWho DEF HistoryInv, WaitInv
<1>4. QED
  BY <1>1, <1>3 DEF HistoryInv

LEMMA OtherHistory ==
    ASSUME BaseInv, HistoryInv,
           \/ get_id
           \/ \E m \in Ids : StartRequest(m) \/ EndRequest(m)
           \/ \E c \in Connections : Connect(c) \/ Receive(c) \/ Drop(c)
    PROVE  HistoryInv'
<1> USE DEF memory, network, subscribers, threads, was_notified
<1>1. CASE get_id \/ \E m \in Ids : EndRequest(m)
  BY <1>1 DEF get_id, EndRequest, HistoryInv, NeverInv, FreshInv, WaitInv
<1>2. ASSUME NEW m \in Ids, StartRequest(m) PROVE HistoryInv'
  <2>1. NeverInv' /\ FreshInv'
    BY <1>2 DEF StartRequest, HistoryInv, NeverInv, FreshInv
  <2>2. \A t \in talks' : t \in talks \/ t.at = "lock"
    BY <1>2 DEF StartRequest, Talk
  <2>3. WaitInv'
    BY <1>2, <2>2 DEF StartRequest, HistoryInv, WaitInv
  <2>4. QED
    BY <2>1, <2>3 DEF HistoryInv
<1>3. ASSUME NEW c \in Connections, Connect(c) PROVE HistoryInv'
  BY <1>3, ZenonT(40) DEF Connect, HistoryInv, NeverInv, FreshInv, WaitInv, BaseInv, Types, TypeOK
<1>4. ASSUME NEW c \in Connections, Receive(c) PROVE HistoryInv'
  <2> USE <1>4 DEF Receive
  <2>1. subscription[c] # "none"
    BY DEF BaseInv, RecordInv
  <2>2. \A who \in Subscribers : who # client[c] => received'[who] = received[who]
    BY DEF BaseInv, Types
  <2>3. NeverInv'
    BY <2>1, <2>2 DEF HistoryInv, NeverInv
  <2>4. FreshInv' /\ WaitInv'
    BY <2>1 DEF HistoryInv, FreshInv, WaitInv, BaseInv, Types, TypeOK
  <2>5. QED
    BY <2>3, <2>4 DEF HistoryInv
<1>5. ASSUME NEW c \in Connections, Drop(c) PROVE HistoryInv'
  <2> USE <1>5 DEF Drop
  <2>1. NeverInv' /\ WaitInv'
    BY DEF HistoryInv, NeverInv, WaitInv
  <2>2. FreshInv'
    BY DEF HistoryInv, FreshInv, BaseInv, RecordInv, Types, TypeOK
  <2>3. QED
    BY <2>1, <2>2 DEF HistoryInv
<1>6. QED
  BY <1>1, <1>2, <1>3, <1>4, <1>5

LEMMA NextHistory == BaseInv /\ HistoryInv /\ [Next]_vars => HistoryInv'
<1> SUFFICES ASSUME BaseInv, HistoryInv, [Next]_vars PROVE HistoryInv'
  OBVIOUS
<1>1. CASE Next
  BY <1>1, TalkHistory, SubscriptionHistory, OtherHistory
     DEF Next, BrokerStep, ClientStep, Environment
<1>2. CASE UNCHANGED vars
  BY <1>2 DEF vars, memory, subscribers, threads, network, was_notified,
              HistoryInv, NeverInv, FreshInv, WaitInv
<1>3. QED
  BY <1>1, <1>2

LEMMA InitOnce == Init => OnceInv
BY DEF Init, OnceInv

\* A client that subscribed once has one record.
LEMMA OneRecord ==
    ASSUME BaseInv, NEW c \in Connections, Only(c), NEW k \in DOMAIN records,
           records[k].who = client[c]
    PROVE  records[k].socket = c /\ rec[c] = k
<1>1. records[k].socket \in Connections
  BY RecordTypes DEF BaseInv, Types
<1>2. client[records[k].socket] = client[c] /\ subscription[records[k].socket] # "none"
      /\ rec[records[k].socket] = k
  BY <1>1 DEF BaseInv, RecordInv, HasRecord
<1>3. QED
  BY <1>1, <1>2 DEF Only

\* The subscription's own thread and a publisher's never talk to it together.
LEMMA OneTalkAtATime ==
    ASSUME BaseInv, NEW c \in Connections, Only(c), NEW t \in talks, With(t, c)
    PROVE  /\ Socket(t) = c /\ t.rec = rec[c] /\ Who(t) = client[c]
           /\ t.by \in Connections => t.by = c
           /\ replay[c] # {} => t.by = c
           /\ \A u \in talks : With(u, c) => u = t
<1>1. ASSUME NEW u \in talks, With(u, c)
      PROVE  /\ u.rec \in DOMAIN records /\ records[u.rec].socket = c /\ u.rec = rec[c]
             /\ u.by \in Connections => u.by = c /\ c \in reading
             /\ u.by \in Connections \/ u.by \in writing
  <2>1. u \in ATalk /\ u.rec \in DOMAIN records
    BY TalkTypes
  <2>2. records[u.rec].socket = c /\ u.rec = rec[c]
    BY <1>1, <2>1, OneRecord DEF With
  <2>3. u.by \in Connections \/ u.by \in writing
    BY <2>1 DEF ATalk, BaseInv, TalkInv
  <2>4. ASSUME u.by \in Connections PROVE u.by = c /\ c \in reading
    <3>1. u.by \in reading /\ u.rec = rec[u.by]
      BY <2>4 DEF BaseInv, TalkInv
    <3>2. client[u.by] = client[c] /\ subscription[u.by] # "none"
      BY <1>1, <2>4, <3>1 DEF BaseInv, LockInv, RecordInv, HasRecord, With
    <3>3. QED
      BY <2>4, <3>1, <3>2 DEF Only
  <2>5. QED
    BY <2>1, <2>2, <2>3, <2>4
<1>2. ASSUME NEW u \in talks, With(u, c) PROVE u = t
  <2>1. u.rec = t.rec /\ u.by = t.by
    BY <1>1, <1>2 DEF BaseInv, LockInv
  <2>2. QED
    BY <2>1 DEF BaseInv, TalkInv
<1>3. replay[c] # {} => t.by = c
  BY <1>1 DEF BaseInv, CacheInv, LockInv
<1>4. QED
  BY <1>1, <1>2, <1>3 DEF Socket, Who, With

\* What does not concern a client leaves its talk and its messages as they are.
LEMMA OnceFrame ==
    ASSUME NEW c \in Connections, OneTalk(c), UNCHANGED client,
           received'[client[c]] = received[client[c]],
           \A m \in Ids : was_notified(m, client[c])' <=> was_notified(m, client[c]),
           wire'[c] = wire[c], acks'[c] = acks[c], c \in live' <=> c \in live,
           \A m \in replay'[c] : m \in Ids /\ (m \in replay[c] \/ ~was_notified(m, client[c])),
           \A t \in talks : t.msg \in Ids /\ (t.by = c => With(t, c)),
           \A t : t \in talks /\ With(t, c) <=> t \in talks' /\ With(t, c)'
    PROVE  OneTalk(c)'
<1>1. \A m \in Ids : /\ received'[client'[c]][m] <= 1
                     /\ was_notified(m, client[c])' => received'[client'[c]][m] = 1
  BY DEF OneTalk
<1>2. wire'[c] # <<>> => c \in live' /\ \E t \in talks' : With(t, c)' /\ t.at \in {"sent", "recv"}
  BY DEF OneTalk
<1>3. acks'[c] <= 1 /\ (acks'[c] > 0 => \E t \in talks' :
          With(t, c)' /\ t.at \in {"sent", "recv"} /\ received'[client'[c]][t.msg] = 1)
  BY DEF OneTalk
<1>4. \A t \in talks' : With(t, c)' /\ t.at = "recv" => t.waitsOn = c
  BY DEF OneTalk
<1>5. ASSUME c \in live', NEW t \in talks', With(t, c)'
      PROVE  /\ t.at \in {"lock", "send"} => ~was_notified(t.msg, client[c])'
             /\ t.at \in {"sent", "recv"} =>
                   \/ wire'[c] = <<t.msg>> /\ acks'[c] = 0 /\ received'[client'[c]][t.msg] = 0
                   \/ wire'[c] = <<>> /\ acks'[c] = 1 /\ received'[client'[c]][t.msg] = 1
  BY <1>5 DEF OneTalk
<1>6. ASSUME c \in live', NEW m \in Ids, received'[client'[c]][m] = 1
      PROVE  \/ was_notified(m, client[c])'
             \/ \E t \in talks' : With(t, c)' /\ t.msg = m /\ t.at \in {"sent", "recv"}
  BY <1>6 DEF OneTalk
<1>7. ASSUME c \in live', NEW m \in replay'[c], was_notified(m, client[c])'
      PROVE  \E t \in talks' : t.by = c /\ t.msg = m /\ t.at = "unlock"
  BY <1>7 DEF OneTalk
<1>8. QED
  BY <1>1, <1>2, <1>3, <1>4, <1>5, <1>6, <1>7 DEF OneTalk, was_notified, With

\* OneTalk for a client whose talk is t.
Exchange(t, c) ==
    /\ \A m \in Ids : /\ received[client[c]][m] <= 1
                      /\ was_notified(m, client[c]) => received[client[c]][m] = 1
    /\ acks[c] <= 1
    /\ wire[c] # <<>> => c \in live /\ t.at \in {"sent", "recv"}
    /\ acks[c] > 0 => t.at \in {"sent", "recv"} /\ received[client[c]][t.msg] = 1
    /\ t.at = "recv" => t.waitsOn = c
    /\ c \in live =>
          /\ t.at \in {"lock", "send"} => ~was_notified(t.msg, client[c])
          /\ t.at \in {"sent", "recv"} =>
                \/ /\ wire[c] = <<t.msg>> /\ acks[c] = 0
                   /\ received[client[c]][t.msg] = 0
                \/ /\ wire[c] = <<>> /\ acks[c] = 1
                   /\ received[client[c]][t.msg] = 1
          /\ \A m \in Ids : received[client[c]][m] = 1 =>
                was_notified(m, client[c]) \/ (t.msg = m /\ t.at \in {"sent", "recv"})
          /\ \A m \in replay[c] : was_notified(m, client[c]) =>
                t.by = c /\ t.msg = m /\ t.at = "unlock"

LEMMA OneTalkExchange ==
    ASSUME NEW c, NEW t \in talks, With(t, c), OneTalk(c),
           \A u \in talks : With(u, c) => u = t,
           \A u \in talks : u.by = c => With(u, c)
    PROVE  Exchange(t, c)
BY DEF OneTalk, Exchange

LEMMA ExchangeOneTalk ==
    ASSUME NEW c, NEW t \in talks', With(t, c)', Exchange(t, c)',
           \A u \in talks' : With(u, c)' => u = t
    PROVE  OneTalk(c)'
BY DEF OneTalk, Exchange

\* The thread of a connection talks with its client.
LEMMA ByIsWith ==
    ASSUME BaseInv
    PROVE  \A t \in talks : /\ t.msg \in Ids
                            /\ \A c \in Connections : t.by = c => With(t, c)
BY TalkTypes DEF BaseInv, TalkInv, LockInv, RecordInv, HasRecord, With

LEMMA BecomesOnce ==
    ASSUME BaseInv, NEW c \in Connections, Only(c), NEW t \in talks, With(t, c),
           NEW new, new.rec = t.rec, Becomes(t, new), UNCHANGED client,
           Exchange(new, c)'
    PROVE  OneTalk(c)'
<1>1. new \in talks' /\ With(new, c)'
  BY DEF Becomes, With
<1>2. \A u \in talks' : With(u, c)' => u = new
  BY OneTalkAtATime DEF Becomes, With
<1>3. QED
  BY <1>1, <1>2, ExchangeOneTalk

\* A talk with the client that subscribed once.
LEMMA OwnTalkOnce ==
    ASSUME BaseInv, NEW c \in Connections, Only(c), OneTalk(c),
           NEW t \in talks, TalkStep(t), With(t, c)
    PROVE  OneTalk(c)'
<1>1. /\ Socket(t) = c /\ Who(t) = client[c]
      /\ replay[c] # {} => t.by = c
      /\ \A u \in talks : With(u, c) => u = t
  BY OneTalkAtATime
<1>2. Exchange(t, c)
  BY <1>1, ByIsWith, OneTalkExchange
<1>3. t \in ATalk /\ t.msg \in Ids /\ client[c] \in Subscribers
  BY TalkTypes, RecordTypes DEF BaseInv, Types
<1>4. /\ wire \in [Connections -> Seq(Ids)] /\ acks \in [Connections -> Nat]
      /\ notified \in [Ids -> SUBSET Subscribers] /\ replay \in [Connections -> SUBSET Ids]
      /\ received[client[c]] \in [Ids -> Nat]
  BY <1>3 DEF BaseInv, Types, TypeOK
<1>5. CASE lock_subscriber(t)
  <2> DEFINE new == [t EXCEPT !.at = "send"]
  <2>1. /\ new.by = t.by /\ new.rec = t.rec /\ new.msg = t.msg /\ new.at = "send"
    BY <1>3 DEF ATalk
  <2>2. /\ t.at = "lock" /\ Becomes(t, new)
        /\ UNCHANGED <<client, notified, wire, acks, received, live, replay>>
    BY <1>5 DEF lock_subscriber, Becomes
  <2> HIDE DEF new
  <2>3. Exchange(new, c)'
    BY <1>2, <2>1, <2>2 DEF Exchange, was_notified
  <2>4. QED
    BY <2>1, <2>2, <2>3, BecomesOnce
<1>6. CASE Send(t)
  <2> DEFINE new == [t EXCEPT !.at = "sent", !.sentOn = c]
  <2>1. /\ new.by = t.by /\ new.rec = t.rec /\ new.msg = t.msg /\ new.at = "sent"
    BY <1>3 DEF ATalk
  <2>2. /\ t.at = "send" /\ Becomes(t, new)
        /\ UNCHANGED <<client, notified, acks, received, live, replay>>
    BY <1>1, <1>6 DEF Send, Becomes
  <2>3. wire[c] = <<>> /\ acks[c] = 0
    BY <1>2, <1>4, <2>2 DEF Exchange
  <2>4. wire'[c] = IF c \in live THEN <<t.msg>> ELSE <<>>
    <3>1. CASE c \in live
      <4>1. wire' = [wire EXCEPT ![c] = Append(wire[c], t.msg)]
        BY <1>1, <1>6, <3>1 DEF Send
      <4>2. wire'[c] = Append(<<>>, t.msg)
        BY <1>4, <2>3, <4>1
      <4>3. QED
        BY <3>1, <4>2
    <3>2. CASE c \notin live
      BY <1>1, <1>6, <2>3, <3>2 DEF Send
    <3>3. QED
      BY <3>1, <3>2
  <2>5. received[client[c]][t.msg] \in Nat
    BY <1>3, <1>4
  <2>6. c \in live => received[client[c]][t.msg] = 0
    BY <1>2, <1>3, <2>2, <2>5 DEF Exchange
  <2> HIDE DEF new
  <2>7. Exchange(new, c)'
    BY <1>2, <2>1, <2>2, <2>3, <2>4, <2>6 DEF Exchange, was_notified
  <2>8. QED
    BY <2>1, <2>2, <2>7, BecomesOnce
<1>7. CASE SendFails(t)
  <2> DEFINE new == [t EXCEPT !.at = "unlock"]
  <2>1. /\ new.by = t.by /\ new.rec = t.rec /\ new.msg = t.msg /\ new.at = "unlock"
    BY <1>3 DEF ATalk
  <2>2. /\ t.at = "send" /\ c \notin live /\ Becomes(t, new)
        /\ UNCHANGED <<client, notified, wire, acks, received, live, replay>>
    BY <1>1, <1>7 DEF SendFails, Becomes
  <2> HIDE DEF new
  <2>3. Exchange(new, c)'
    BY <1>2, <2>1, <2>2 DEF Exchange, was_notified
  <2>4. QED
    BY <2>1, <2>2, <2>3, BecomesOnce
<1>8. CASE Recv(t)
  <2> DEFINE new == [t EXCEPT !.at = "recv", !.waitsOn = c]
  <2>1. /\ new.by = t.by /\ new.rec = t.rec /\ new.msg = t.msg /\ new.at = "recv"
        /\ new.waitsOn = c
    BY <1>3 DEF ATalk
  <2>2. /\ t.at = "sent" /\ Becomes(t, new)
        /\ UNCHANGED <<client, notified, wire, acks, received, live, replay>>
    BY <1>1, <1>8 DEF Recv, Becomes
  <2> HIDE DEF new
  <2>3. Exchange(new, c)'
    BY <1>2, <2>1, <2>2 DEF Exchange, was_notified
  <2>4. QED
    BY <2>1, <2>2, <2>3, BecomesOnce
<1>9. CASE RecvReturns(t)
  <2> DEFINE new == [t EXCEPT !.at = "unlock"]
  <2>1. /\ new.by = t.by /\ new.rec = t.rec /\ new.msg = t.msg /\ new.at = "unlock"
    BY <1>3 DEF ATalk
  <2>2. /\ t.at = "recv" /\ t.waitsOn = c /\ Becomes(t, new)
        /\ UNCHANGED <<client, wire, received, live, replay>>
    BY <1>2, <1>9 DEF RecvReturns, Becomes, Exchange
  <2>3. acks[c] > 0 \/ c \notin live
    BY <1>9, <2>2 DEF RecvReturns
  <2>4. acks[c] \in Nat /\ acks'[c] = IF acks[c] > 0 THEN acks[c] - 1 ELSE 0
    <3> DEFINE left == IF acks[c] > 0 THEN acks[c] - 1 ELSE 0
    <3>1. acks' = [acks EXCEPT ![c] = left]
      BY <1>9, <2>2 DEF RecvReturns
    <3>2. QED
      BY <1>4, <3>1
  <2>5. acks'[c] = 0
    BY <1>2, <2>4 DEF Exchange
  <2>6. notified' = IF acks[c] > 0 THEN [notified EXCEPT ![t.msg] = @ \cup {client[c]}]
                                   ELSE notified
    BY <1>1, <1>9, <2>2 DEF RecvReturns, GotAck
  <2>7. \A m \in Ids : was_notified(m, client[c])'
                           <=> was_notified(m, client[c]) \/ (m = t.msg /\ acks[c] > 0)
    BY <1>3, <1>4, <2>2, <2>6 DEF was_notified
  <2>8. /\ acks[c] > 0 => received[client[c]][t.msg] = 1
        /\ c \in live => wire[c] = <<>> /\ acks[c] > 0
    BY <1>2, <2>2, <2>3 DEF Exchange
  <2> HIDE DEF new
  <2>9. \A m \in replay[c] : m \in Ids /\ t.by = c
    BY <1>1, <1>4
  <2>10. /\ \A m \in Ids : received'[client'[c]][m] <= 1 /\ (was_notified(m, client[c])' => received'[client'[c]][m] = 1)
         /\ wire'[c] # <<>> => c \in live /\ new.at \in {"sent", "recv"}
    BY <1>2, <2>1, <2>2, <2>7, <2>8 DEF Exchange
  <2>11. c \in live => \A m \in Ids : received'[client'[c]][m] = 1 => was_notified(m, client[c])'
    BY <1>2, <2>2, <2>7, <2>8 DEF Exchange
  <2>12. c \in live => \A m \in replay'[c] : was_notified(m, client[c])' =>
                            new.by = c /\ new.msg = m /\ new.at = "unlock"
    BY <1>2, <2>1, <2>2, <2>7, <2>9 DEF Exchange
  <2>13. Exchange(new, c)'
    BY <2>1, <2>2, <2>5, <2>10, <2>11, <2>12 DEF Exchange, was_notified
  <2>14. QED
    BY <2>1, <2>2, <2>13, BecomesOnce
<1>10. CASE unlock_subscriber(t)
  <2>1. /\ t.at = "unlock" /\ talks' = talks \ {t}
        /\ UNCHANGED <<client, notified, wire, acks, received, live, records>>
    BY <1>10 DEF unlock_subscriber, memory, network
  <2>2. \A m \in replay'[c] : m \in replay[c] /\ m # t.msg /\ m \in Ids
    BY <1>1, <1>4, <1>10 DEF unlock_subscriber
  <2>3. \A u \in talks' : ~With(u, c)'
    BY <1>1, <2>1 DEF With
  <2>4. acks[c] \in Nat
    BY <1>4
  <2>5. /\ wire[c] = <<>> /\ acks[c] = 0
        /\ c \in live => \A m \in Ids : received[client[c]][m] = 1 => was_notified(m, client[c])
        /\ c \in live => \A m \in replay'[c] : ~was_notified(m, client[c])
        /\ \A m \in Ids : /\ received[client[c]][m] <= 1
                          /\ was_notified(m, client[c]) => received[client[c]][m] = 1
    BY <1>2, <2>1, <2>2, <2>4 DEF Exchange
  <2>6. QED
    BY <2>1, <2>3, <2>5 DEF OneTalk, was_notified
<1>11. QED
  BY <1>5, <1>6, <1>7, <1>8, <1>9, <1>10 DEF TalkStep

\* A talk with another client.
LEMMA OtherTalkOnce ==
    ASSUME BaseInv, HistoryInv, NEW c \in Connections, OneTalk(c),
           NEW t \in talks, TalkStep(t), ~With(t, c)
    PROVE  OneTalk(c)'
<1> USE DEF Becomes, memory, network
<1>1. /\ t \in ATalk /\ t.msg \in Ids /\ Socket(t) \in Connections /\ Socket(t) # c
      /\ t.at = "recv" => t.waitsOn \in Connections /\ t.waitsOn # c
      /\ Who(t) # client[c] /\ t.by # c
  BY TalkTypes, TalkSubscribed, ByIsWith DEF With, Who, HistoryInv, WaitInv
<1>2. UNCHANGED <<client, records, received, live>>
  BY DEF TalkStep, lock_subscriber, Send, SendFails, Recv, RecvReturns, unlock_subscriber
<1>3. wire'[c] = wire[c]
  BY <1>1 DEF TalkStep, lock_subscriber, Send, SendFails, Recv, RecvReturns, unlock_subscriber,
              BaseInv, Types
<1>4. acks'[c] = acks[c]
  <2>1. CASE RecvReturns(t)
    BY <1>1, <2>1 DEF RecvReturns, BaseInv, Types, TypeOK
  <2>2. CASE ~RecvReturns(t)
    BY <2>2 DEF TalkStep, lock_subscriber, Send, SendFails, Recv, unlock_subscriber
  <2>3. QED
    BY <2>1, <2>2
<1>5. \A m \in Ids : was_notified(m, client[c])' <=> was_notified(m, client[c])
  <2>1. CASE RecvReturns(t)
    <3>1. notified' = notified \/ notified' = [notified EXCEPT ![t.msg] = @ \cup {Who(t)}]
      BY <2>1 DEF RecvReturns
    <3>2. notified \in [Ids -> SUBSET Subscribers]
      BY DEF BaseInv, Types, TypeOK
    <3>3. \A m \in Ids : notified'[m] = notified[m] \/ notified'[m] = notified[m] \cup {Who(t)}
      BY <1>1, <3>1, <3>2
    <3>4. QED
      BY <1>1, <1>2, <3>3 DEF was_notified
  <2>2. CASE ~RecvReturns(t)
    BY <1>2, <2>2 DEF TalkStep, lock_subscriber, Send, SendFails, Recv, unlock_subscriber, was_notified
  <2>3. QED
    BY <2>1, <2>2
<1>6. replay[c] \subseteq Ids /\ replay'[c] = replay[c]
  BY <1>1 DEF TalkStep, lock_subscriber, Send, SendFails, Recv, RecvReturns, unlock_subscriber,
              BaseInv, Types, TypeOK
<1>7. \A u : u \in talks /\ With(u, c) <=> u \in talks' /\ With(u, c)'
  <2>1. CASE unlock_subscriber(t)
    BY <1>2, <2>1 DEF unlock_subscriber, With
  <2>2. CASE ~unlock_subscriber(t)
    <3>1. \E new : talks' = (talks \ {t}) \cup {new} /\ new.rec = t.rec
      <4>1. /\ \A a : [t EXCEPT !.at = a].rec = t.rec
            /\ \A a, s : [t EXCEPT !.at = a, !.sentOn = s].rec = t.rec
            /\ \A a, s : [t EXCEPT !.at = a, !.waitsOn = s].rec = t.rec
        BY <1>1 DEF ATalk
      <4>2. CASE lock_subscriber(t)
        BY <4>1, <4>2 DEF lock_subscriber
      <4>3. CASE Send(t)
        <5> DEFINE new == [t EXCEPT !.at = "sent", !.sentOn = Socket(t)]
        <5>1. talks' = (talks \ {t}) \cup {new} /\ new.rec = t.rec
          BY <4>1, <4>3 DEF Send
        <5> HIDE DEF new
        <5>2. QED
          BY <5>1
      <4>4. CASE SendFails(t) \/ RecvReturns(t)
        BY <4>1, <4>4 DEF SendFails, RecvReturns
      <4>5. CASE Recv(t)
        <5> DEFINE new == [t EXCEPT !.at = "recv", !.waitsOn = Socket(t)]
        <5>1. talks' = (talks \ {t}) \cup {new} /\ new.rec = t.rec
          BY <4>1, <4>5 DEF Recv
        <5> HIDE DEF new
        <5>2. QED
          BY <5>1
      <4>6. QED
        BY <2>2, <4>2, <4>3, <4>4, <4>5 DEF TalkStep
    <3>2. QED
      BY <1>2, <3>1 DEF With
  <2>3. QED
    BY <2>1, <2>2
<1>8. QED
  BY <1>2, <1>3, <1>4, <1>5, <1>6, <1>7, ByIsWith, OnceFrame

\* While its connection replays, only its own thread talks with a client.
LEMMA NoTalkWith ==
    ASSUME BaseInv, NEW c \in Connections, Only(c), replay[c] # {}, Joined(c)
    PROVE  \A t \in talks : ~With(t, c)
BY OneTalkAtATime DEF Joined

LEMMA SubscriptionOnce ==
    ASSUME BaseInv, NEW c \in Connections, Only(c), subscription[c] # "none", OneTalk(c),
           NEW d \in Connections,
           \/ create_or_update_subscriber(d)
           \/ add_subscriber_by_operation(d)
           \/ register_subscriber(d)
           \/ StartReplay(d)
           \/ SendNext(d)
           \/ EndReplay(d)
    PROVE  OneTalk(c)'
<1>1. /\ subscription[d] # "none"
      /\ UNCHANGED <<client, live, wire, acks, received, notified>>
      /\ \A k \in DOMAIN records : records'[k].who = records[k].who
  BY SubscriptionFrame, RecordsKeepWho
<1>2. \A t \in talks : t.rec \in DOMAIN records
  BY TalkTypes
<1>3. replay[c] \subseteq Ids /\ replay[d] \subseteq Ids
  BY DEF BaseInv, Types, TypeOK
<1>4. CASE ~SendNext(d)
  <2>1. UNCHANGED talks
    BY <1>4 DEF create_or_update_subscriber, add_subscriber_by_operation, register_subscriber,
                StartReplay, EndReplay
  <2>2. \A m \in replay'[c] : m \in Ids /\ (m \in replay[c] \/ ~was_notified(m, client[c]))
    <3>1. CASE StartReplay(d)
      BY <1>3, <3>1 DEF StartReplay, messages_from_operation, BaseInv, Types, TypeOK
    <3>2. CASE ~StartReplay(d)
      BY <1>3, <1>4, <3>2 DEF create_or_update_subscriber, add_subscriber_by_operation,
                              register_subscriber, EndReplay
    <3>3. QED
      BY <3>1, <3>2
  <2>3. \A t : t \in talks /\ With(t, c) <=> t \in talks' /\ With(t, c)'
    BY <1>1, <1>2, <2>1 DEF With
  <2>4. QED
    BY <1>1, <2>2, <2>3, ByIsWith, OnceFrame DEF was_notified
<1>5. CASE SendNext(d)
  <2> DEFINE new == Talk(d, rec[d], Min(replay[d]))
  <2>1. /\ replay[d] # {} /\ Joined(d) /\ talks' = talks \cup {new}
        /\ UNCHANGED <<records, replay>>
    BY <1>5 DEF SendNext, subscribers
  <2>2. /\ new.by = d /\ new.rec = rec[d] /\ new.msg = Min(replay[d]) /\ new.at = "lock"
        /\ Min(replay[d]) \in replay[d] /\ replay[d] \in SUBSET Nat
    BY <1>3, <2>1, MinProperties, ConstantFacts DEF Talk
  <2> HIDE DEF new
  <2>3. records[rec[d]].who = client[d]
    BY <1>5 DEF SendNext, BaseInv, RecordInv, HasRecord
  <2>4. CASE d # c
    <3>1. records[new.rec].who # client[c]
      BY <1>1, <2>2, <2>3, <2>4 DEF Only
    <3>2. \A t : t \in talks /\ With(t, c) <=> t \in talks' /\ With(t, c)'
      BY <1>1, <2>1, <3>1 DEF With
    <3>3. QED
      BY <1>1, <1>3, <2>1, <3>2, ByIsWith, OnceFrame DEF was_notified
  <2>5. CASE d = c
    <3>1. \A t \in talks : ~With(t, c)
      BY <2>1, <2>5, NoTalkWith
    <3>2. \A m \in replay[c] : c \in live => ~was_notified(m, client[c])
      BY <3>1, ByIsWith DEF OneTalk
    <3>3. \A u \in talks' : u = new
                 \/ (u \in talks /\ ~With(u, c)')
      BY <1>1, <2>1, <3>1 DEF With
    <3>4. acks[c] = 0 /\ wire[c] = <<>>
      BY <3>1 DEF OneTalk, BaseInv, Types, TypeOK
    <3>5. c \in live => ~was_notified(Min(replay[c]), client[c])
      BY <2>2, <2>5, <3>2
    <3> DEFINE first == Min(replay[d])
    <3>6. PICK n \in talks' : n = new
      BY <2>1
    <3>7. /\ n.at = "lock" /\ n.msg = first /\ n.rec = rec[d]
      BY <2>2, <3>6
    <3>8. \A m \in Ids : received[client[c]][m] = 1 /\ c \in live => was_notified(m, client[c])
      BY <3>1 DEF OneTalk
    <3> HIDE DEF first
    <3>9. c \in live => ~was_notified(first, client[c])
      BY <2>5, <3>5 DEF first
    <3>10. Exchange(n, c)'
      BY <1>1, <2>1, <3>2, <3>4, <3>7, <3>8, <3>9 DEF Exchange, OneTalk, was_notified
    <3>11. With(n, c)'
      BY <1>1, <2>1, <2>3, <2>5, <3>7 DEF With
    <3>12. QED
      BY <3>3, <3>6, <3>10, <3>11, ExchangeOneTalk
  <2>6. QED
    BY <2>4, <2>5
<1>6. QED
  BY <1>4, <1>5

LEMMA RequestOnce ==
    ASSUME BaseInv, NEW c \in Connections, Only(c), OneTalk(c),
           get_id \/ \E m \in Ids : StartRequest(m) \/ EndRequest(m)
    PROVE  OneTalk(c)'
<1> USE DEF memory, network, subscribers
<1>1. replay[c] \subseteq Ids
  BY DEF BaseInv, Types, TypeOK
<1>2. CASE get_id \/ \E m \in Ids : EndRequest(m)
  <2>1. UNCHANGED <<client, live, wire, acks, received, notified, records, replay, talks>>
    BY <1>2 DEF get_id, EndRequest
  <2>2. QED
    BY <1>1, <2>1, ByIsWith, OnceFrame DEF was_notified, With
<1>3. ASSUME NEW m \in Ids, StartRequest(m) PROVE OneTalk(c)'
  <2>1. /\ UNCHANGED <<client, live, wire, acks, received, notified, records, replay>>
        /\ talks' = talks \cup {Talk(m, k, m) : k \in NotNotified(m)}
        /\ reading = {} /\ writing = {}
    BY <1>3 DEF StartRequest, Lock!StartWrite
  <2>2. talks = {}
    BY <2>1, TalkTypes DEF BaseInv, TalkInv, ATalk
  <2>3. replay[c] = {}
    BY <2>1 DEF BaseInv, CacheInv, LockInv
  <2>4. /\ acks[c] = 0 /\ wire[c] = <<>>
        /\ c \in live => \A n \in Ids : received[client[c]][n] = 1 => was_notified(n, client[c])
    BY <2>2 DEF OneTalk, BaseInv, Types, TypeOK
  <2>5. \A u \in talks' : /\ u.msg = m /\ u.at = "lock" /\ u.rec \in DOMAIN records
                          /\ ~was_notified(m, records[u.rec].who)
    BY <2>1, <2>2 DEF NotNotified, Talk
  <2>6. \A u, v \in talks' : u.rec = v.rec => u = v
    BY <2>1, <2>2 DEF Talk
  <2>7. \A u, v \in talks' : With(u, c)' /\ With(v, c)' => u = v
    BY <2>1, <2>5, <2>6, OneRecord DEF With
  <2>8. CASE \A u \in talks' : ~With(u, c)'
    BY <2>1, <2>3, <2>4, <2>8 DEF OneTalk, was_notified
  <2>9. ASSUME NEW u \in talks', With(u, c)' PROVE OneTalk(c)'
    <3>1. u.msg = m /\ u.at = "lock" /\ ~was_notified(m, client[c])
      BY <2>1, <2>5, <2>9 DEF With
    <3>2. Exchange(u, c)'
      BY <2>1, <2>3, <2>4, <3>1 DEF OneTalk, Exchange, was_notified
    <3>3. QED
      BY <2>7, <2>9, <3>2, ExchangeOneTalk
  <2>10. QED
    BY <2>8, <2>9
<1>4. QED
  BY <1>2, <1>3

\* Its first connection.
LEMMA ConnectOnce ==
    ASSUME BaseInv, HistoryInv, NEW c \in Connections, Connect(c), Only(c)'
    PROVE  OneTalk(c)'
<1> USE DEF memory, threads, subscribers
<1>1. /\ subscription[c] = "none"
      /\ UNCHANGED <<client, wire, acks, received, notified, records, replay, talks>>
      /\ subscription' = [subscription EXCEPT ![c] = "accepted"]
      /\ client[c] \in Subscribers
  BY RecordTypes DEF Connect, BaseInv, Types
<1>2. \A d \in Connections : client[d] = client[c] => subscription[d] = "none"
  BY <1>1 DEF Only, BaseInv, Types, TypeOK
<1>3. \A m \in Ids : ~was_notified(m, client[c]) /\ received[client[c]][m] = 0
  BY <1>1, <1>2 DEF HistoryInv, NeverInv
<1>4. wire[c] = <<>> /\ acks[c] = 0
  BY <1>1 DEF HistoryInv, FreshInv
<1>5. \A t \in talks : ~With(t, c)
  BY <1>2, TalkTypes, TalkSubscribed DEF With, Who
<1>6. replay[c] = {}
  BY <1>1 DEF BaseInv, CacheInv
<1>7. QED
  BY <1>1, <1>3, <1>4, <1>5, <1>6 DEF OneTalk, With, was_notified

LEMMA ReceiveOnce ==
    ASSUME BaseInv, NEW c \in Connections, Only(c), OneTalk(c), Receive(c)
    PROVE  OneTalk(c)'
<1> USE DEF memory, threads, subscribers
<1>1. /\ c \in live /\ wire[c] # <<>>
      /\ wire' = [wire EXCEPT ![c] = Tail(@)]
      /\ received' = [received EXCEPT ![client[c]][Head(wire[c])] = @ + 1]
      /\ acks' = [acks EXCEPT ![c] = @ + 1]
      /\ UNCHANGED <<client, live, notified, records, replay, talks>>
      /\ client[c] \in Subscribers
  BY RecordTypes DEF Receive, BaseInv, Types
<1>2. PICK t \in talks : With(t, c) /\ t.at \in {"sent", "recv"}
  BY <1>1 DEF OneTalk
<1>3. \A u \in talks : With(u, c) => u = t
  BY <1>2, OneTalkAtATime
<1>4. Exchange(t, c) /\ t.msg \in Ids
  BY <1>2, <1>3, ByIsWith, OneTalkExchange
<1>5. wire[c] = <<t.msg>> /\ acks[c] = 0 /\ received[client[c]][t.msg] = 0
  BY <1>1, <1>2, <1>4 DEF Exchange
<1>6. wire'[c] = <<>> /\ acks'[c] = 1
  BY <1>1, <1>5 DEF BaseInv, Types, TypeOK
<1>7. \A m \in Ids : received'[client[c]][m] = IF m = t.msg THEN 1 ELSE received[client[c]][m]
  <2>1. received[client[c]] \in [Ids -> Nat] /\ received \in [Subscribers -> [Ids -> Nat]]
    BY <1>1 DEF BaseInv, Types
  <2>2. Head(wire[c]) = t.msg
    BY <1>5
  <2>3. received' = [received EXCEPT ![client[c]] = [received[client[c]] EXCEPT ![t.msg] = received[client[c]][t.msg] + 1]]
    BY <1>1, <2>2
  <2>4. QED
    BY <1>1, <1>4, <1>5, <2>1, <2>3
<1>8. Exchange(t, c)'
  BY <1>1, <1>2, <1>4, <1>6, <1>7 DEF Exchange, was_notified
<1>9. t \in talks' /\ With(t, c)' /\ \A u \in talks' : With(u, c)' => u = t
  BY <1>1, <1>2, <1>3 DEF With
<1>10. QED
  BY <1>8, <1>9, ExchangeOneTalk

\* The acknowledgement may be lost with the connection.
LEMMA DropOnce ==
    ASSUME BaseInv, NEW c \in Connections, OneTalk(c), Drop(c)
    PROVE  OneTalk(c)'
<1> USE DEF memory, threads, subscribers
<1>1. /\ c \notin live' /\ wire'[c] = <<>> /\ acks'[c] \in {0, acks[c]}
      /\ UNCHANGED <<client, received, notified, records, replay, talks>>
  BY DEF Drop, BaseInv, Types, TypeOK
<1>2. QED
  BY <1>1 DEF OneTalk, With, was_notified

\* Another client of the broker connects, answers or goes away.
LEMMA ClientOnce ==
    ASSUME BaseInv, NEW c \in Connections, Only(c), subscription[c] # "none", OneTalk(c),
           NEW d \in Connections, d # c, Connect(d) \/ Receive(d) \/ Drop(d)
    PROVE  OneTalk(c)'
<1> USE DEF memory, threads, subscribers
<1>1. UNCHANGED <<client, notified, records, replay, talks>>
  BY DEF Connect, Receive, Drop
<1>2. wire'[c] = wire[c] /\ acks'[c] = acks[c]
  BY DEF Connect, Receive, Drop, BaseInv, Types, TypeOK
<1>3. c \in live' <=> c \in live
  BY DEF Connect, Receive, Drop
<1>4. received'[client[c]] = received[client[c]]
  <2>1. CASE Receive(d)
    <3>1. client[d] # client[c]
      BY <2>1 DEF Receive, Only, BaseInv, RecordInv
    <3>2. QED
      BY <2>1, <3>1 DEF Receive, BaseInv, Types
  <2>2. CASE ~Receive(d)
    BY <2>2 DEF Connect, Drop
  <2>3. QED
    BY <2>1, <2>2
<1>5. replay[c] \subseteq Ids
  BY DEF BaseInv, Types, TypeOK
<1>6. QED
  BY <1>1, <1>2, <1>3, <1>4, <1>5, ByIsWith, OnceFrame DEF was_notified, With

\* A connection that is taken stays taken, and a client keeps its connections.
LEMMA StaysTaken ==
    ASSUME BaseInv, Next, NEW c \in Connections
    PROVE  /\ UNCHANGED client
           /\ subscription[c] # "none" => subscription'[c] # "none"
           /\ subscription'[c] # "none" => subscription[c] # "none" \/ Connect(c)
<1> USE DEF memory, network, threads, subscribers, BaseInv, Types, TypeOK
<1>1. ASSUME NEW t \in talks, TalkStep(t) PROVE UNCHANGED <<client, subscription>>
  BY <1>1 DEF TalkStep, lock_subscriber, Send, SendFails, Recv, RecvReturns, unlock_subscriber, Becomes
<1>2. CASE \/ \E d \in Connections : Receive(d) \/ Drop(d)
           \/ \E m \in Ids : StartRequest(m) \/ EndRequest(m)
           \/ get_id
  BY <1>2 DEF Receive, Drop, StartRequest, EndRequest, get_id
<1>3. ASSUME NEW d \in Connections, Connect(d)
      PROVE  UNCHANGED client /\ subscription' = [subscription EXCEPT ![d] = "accepted"]
  BY <1>3 DEF Connect
<1>4. QED
  BY <1>1, <1>2, <1>3, SubscriptionFrame
     DEF Next, BrokerStep, ClientStep, Environment

LEMMA NextOnce == BaseInv /\ HistoryInv /\ OnceInv /\ [Next]_vars => OnceInv'
<1> SUFFICES ASSUME BaseInv, HistoryInv, OnceInv, [Next]_vars,
                    NEW c \in Connections, Only(c)', subscription'[c] # "none"
             PROVE  OneTalk(c)'
  BY DEF OnceInv
<1>1. CASE UNCHANGED vars
  <2>1. UNCHANGED <<client, live, wire, acks, received, notified, records, replay, talks, subscription>>
    BY <1>1 DEF vars, memory, subscribers, threads, network
  <2>2. OneTalk(c) /\ replay[c] \subseteq Ids
    BY <2>1 DEF OnceInv, Only, BaseInv, Types, TypeOK
  <2>3. QED
    BY <2>1, <2>2, ByIsWith, OnceFrame DEF was_notified, With
<1>2. CASE Next /\ ~Connect(c)
  <2>1. Only(c)
    BY <1>2, StaysTaken DEF Only
  <2>2. subscription[c] # "none" /\ OneTalk(c)
    BY <1>2, <2>1, StaysTaken DEF OnceInv
  <2>3. ASSUME NEW t \in talks, TalkStep(t) PROVE OneTalk(c)'
    BY <2>1, <2>2, <2>3, OwnTalkOnce, OtherTalkOnce
  <2>4. ASSUME NEW d \in Connections, Connect(d) \/ Receive(d) \/ Drop(d) PROVE OneTalk(c)'
    BY <1>2, <2>1, <2>2, <2>4, ReceiveOnce, DropOnce, ClientOnce
  <2>5. QED
    BY <1>2, <2>1, <2>2, <2>3, <2>4, SubscriptionOnce, RequestOnce
       DEF Next, BrokerStep, ClientStep, Environment
<1>3. CASE Connect(c)
  BY <1>3, ConnectOnce
<1>4. QED
  BY <1>1, <1>2, <1>3

\* A set with at most one element.
LEMMA AtMostOne ==
    ASSUME NEW S, IsFiniteSet(S), Cardinality(S) <= 1, NEW x \in S, NEW y \in S
    PROVE  x = y
<1> SUFFICES ASSUME x # y PROVE FALSE
  OBVIOUS
<1>1. Cardinality(S \ {x}) = Cardinality(S) - 1 /\ IsFiniteSet(S \ {x})
  BY FS_RemoveElement
<1>2. Cardinality(S) \in Nat /\ Cardinality(S \ {x}) \in Nat
  BY <1>1, FS_CardinalityType
<1>3. Cardinality(S \ {x}) = 0
  BY <1>1, <1>2
<1>4. S \ {x} = {}
  BY <1>1, <1>3, FS_EmptySet
<1>5. QED
  BY <1>4

\* A client that subscribed once is noted for a message only when it got it,
\* and gets it once: for any clients, connections and messages, whichever
\* thread sends it, the publisher's or the subscription's.
THEOREM EachGetsItOnce == Spec => []OnceEach
<1>1. Init => BaseInv /\ HistoryInv /\ OnceInv
  BY InitBase, InitHistory, InitOnce
<1>2. BaseInv /\ HistoryInv /\ OnceInv /\ [Next]_vars => (BaseInv /\ HistoryInv /\ OnceInv)'
  BY NextBase, NextHistory, NextOnce
<1>3. BaseInv /\ HistoryInv /\ OnceInv => OnceEach
  <2> SUFFICES ASSUME BaseInv, HistoryInv, OnceInv PROVE OnceEach
    OBVIOUS
  <2>1. ASSUME NEW who \in Subscribers, ConnectedOnce(who), NEW m \in Ids
        PROVE  /\ was_notified(m, who) => received[who][m] > 0
               /\ received[who][m] <= 1
    <3> DEFINE own == {c \in Connections : client[c] = who /\ subscription[c] # "none"}
    <3>1. IsFiniteSet(own) /\ Cardinality(own) <= 1
      BY <2>1, FS_Subset, DeliveryAssumption DEF ConnectedOnce
    <3>2. CASE own = {}
      BY <3>2 DEF HistoryInv, NeverInv
    <3>3. ASSUME NEW c \in own PROVE OneTalk(c)
      <4>1. \A d \in own : d = c
        BY <3>1, <3>3, AtMostOne
      <4>2. QED
        BY <3>3, <4>1 DEF OnceInv, Only
    <3>4. QED
      BY <3>2, <3>3 DEF OneTalk
  <2>2. QED
    BY <2>1 DEF OnceEach, NotifiedGotIt, GotOnce, BaseInv, Types
<1>4. QED
  BY <1>1, <1>2, <1>3, PTL DEF Spec

=============================================================================
