--------------------------- MODULE GameCardProofs ---------------------------
(***************************************************************************)
(* What the GameCard acknowledges is processed, its repeats are explained  *)
(* by broken connections, and it gives no pokemon twice: for any messages, *)
(* files, breaks and ends of the two processes. And one thread at a time   *)
(* works on a file: for any threads, messages, files, disk and number of   *)
(* crashes, as long as no two messages create the same file.               *)
(***************************************************************************)
EXTENDS GameCardServer, CollectionProofs

\* The thread of a message.
HiloT == [m : Ids, id : Ids, n : Nat, pc : {"procesa", "responde"},
          da : {"-", "APPEARED", "OK", "FAIL", "LUGAR", "NADA"}]

Types ==
    /\ caso \in Casos
    /\ publicados \subseteq {m \in caso.llegan : De(m).via = "BROKER"}
    /\ guardados \cup confirmados \subseteq publicados
    /\ porEnviar \in [Colas -> SUBSET Ids] /\ enVuelo \in [Colas -> Ids \cup {Nada}]
    /\ conectado \subseteq Colas
    /\ pcL \in [Colas -> {"suscribe", "recibe", "confirma", "crea"}]
    /\ recibido \in [Colas -> Ids \cup {Nada}]
    /\ hilos \subseteq HiloT /\ IsFiniteSet(hilos)
    /\ hay \in [DOMAIN hay -> Nat]
    /\ creados \in [Ids -> Nat] /\ hechos \in [Ids -> Nat]
    /\ cortes \in [Colas -> Nat]

\* What a connection carries is kept, not acknowledged yet, and carried once.
PipeInv ==
    \A c \in Colas :
        /\ \A m \in porEnviar[c] : m \in guardados \ confirmados /\ De(m).cola = c
        /\ enVuelo[c] # Nada => enVuelo[c] \in guardados \ confirmados /\ De(enVuelo[c]).cola = c
        /\ enVuelo[c] \notin porEnviar[c]
        /\ porEnviar[c] # {} \/ enVuelo[c] # Nada => c \in conectado
        /\ c \in conectado => vivo /\ pcL[c] # "suscribe"

\* What a listener holds: what its connection carries, or what it acknowledged.
HeldInv ==
    \A c \in Colas :
        /\ pcL[c] \in {"confirma", "crea"} => recibido[c] \in publicados /\ De(recibido[c]).cola = c
        /\ pcL[c] = "confirma" => recibido[c] \notin confirmados
        /\ pcL[c] = "confirma" /\ c \in conectado => enVuelo[c] = recibido[c]
        /\ pcL[c] = "crea" /\ c \in conectado => recibido[c] \in confirmados

\* The threads of a message that have not processed it.
Procesan(m) == {h \in hilos : h.m = m /\ h.pc = "procesa"}

ThreadInv ==
    /\ \A h \in hilos : /\ h.n < creados[h.m]
                        /\ h.pc = "procesa" <=> h.da = "-"
                        /\ h.pc = "responde" => hechos[h.m] > 0
    /\ \A m \in Ids : hechos[m] + Cardinality(Procesan(m)) <= creados[m]

FlowInv == Types /\ PipeInv /\ HeldInv /\ ThreadInv /\ AckedIsAttended

-----------------------------------------------------------------------------

\* A message in the hands of the listener of its queue.
EnMano(m) ==
    \E c \in Colas : c = De(m).cola /\ pcL[c] \in {"confirma", "crea"} /\ recibido[c] = m

\* One that had a thread and will have another.
Vuelve(m) == creados[m] > 0 /\ (m \in guardados \ confirmados \/ EnMano(m))

\* One that may be given to a thread although the broker will send it again.
EnDuda(m) == EnMano(m) /\ De(m).cola \notin conectado /\ m \in guardados \ confirmados

\* The repeats of a message, and those that are sure to come or may come without one more
\* break.
Peso == [m \in Ids |-> (IF creados[m] > 1 THEN creados[m] - 1 ELSE 0)
                       + (IF Vuelve(m) THEN 1 ELSE 0) + (IF EnDuda(m) THEN 1 ELSE 0)]

RepeatInv ==
    /\ \A c \in Colas : SumFunctionOnSet(Peso, DeLaCola(c)) <= cortes[c]
    /\ \A m \in Ids : De(m).via = "BROKER" /\ m \notin publicados => creados[m] = 0

\* The successful catches whose answers are not sent yet.
PorGanar(p) == {[id |-> h.id, m |-> h.m, n |-> h.n, da |-> h.da] :
                   h \in {g \in hilos : De(g.m).pokemon = p /\ g.da = "OK"}}

Ganancia(p) == Ganados(p) \cup PorGanar(p)

BackedInv ==
    \A p \in Pokemones : /\ IsFiniteSet(Ganancia(p))
                         /\ Cardinality(Ganancia(p)) + HayDe(p) <= Agregados(p) + HabiaDe(p)

IInv == FlowInv /\ RepeatInv /\ BackedInv

-----------------------------------------------------------------------------

LEMMA MessageFacts ==
    /\ \A m \in Ids : /\ De(m).cola \in Colas /\ De(m).cantidad \in Nat
                      /\ De(m).via \in {"BROKER", "GAMEBOY"}
    /\ Nada \notin Ids /\ IsFiniteSet(Ids)
    /\ \A k \in Casos : k.llegan \subseteq Ids
<1>1. \A m \in Ids : De(m) \in Mensaje
  BY ServerAssumption DEF De, Ids
<1>2. QED
  BY <1>1, ServerAssumption DEF Mensaje, Ids, Nada, Colas

\* What an operation on the file returns.
Resultado(h) ==
    CASE De(h.m).cola = "NEW" -> procesarNew(h)
      [] De(h.m).cola = "CATCH" -> procesarCatch(h)
      [] De(h.m).cola = "GET" -> procesarGet(h)

\* What a step may be.
Paso ==
    \/ \E m \in Ids : Publica(m)
    \/ \E c \in Colas : \/ Envia(c) \/ SeCorta(c) \/ subscribirseACola(c)
                        \/ Recibe(c) \/ Confirma(c) \/ Crea(c)
    \/ CaeElBroker \/ LevantaElBroker \/ CaeGameCard \/ atenderGameboy
    \/ \E h \in hilos : Opera(h, Resultado(h)) \/ Responde(h)

LEMMA EveryStep ==
    ASSUME Next PROVE Paso
<1>1. CASE esperarBrokerNew \/ esperarBrokerCatch \/ esperarBrokerGet
  BY <1>1 DEF Paso, esperarBrokerNew, esperarBrokerCatch, esperarBrokerGet, Escucha, Colas
<1>2. CASE GameboyCortado
  BY <1>2 DEF Paso, GameboyCortado
<1>3. ASSUME NEW h \in hilos, procesarHilo(h) PROVE Paso
  <2>1. CASE procesarHiloNew(h)
    BY <2>1 DEF Paso, procesarHiloNew, Resultado
  <2>2. CASE procesarHiloCatch(h)
    BY <2>2 DEF Paso, procesarHiloCatch, Resultado
  <2>3. CASE procesarHiloGet(h)
    BY <2>3 DEF Paso, procesarHiloGet, Resultado
  <2>4. QED
    BY <1>3, <2>1, <2>2, <2>3 DEF procesarHilo
<1>4. QED
  BY <1>1, <1>2, <1>3 DEF Next, Paso

\* No operation leaves a file with less than nothing.
LEMMA ResultadoType ==
    ASSUME Types, NEW h \in hilos
    PROVE  /\ Resultado(h).hay \in [DOMAIN Resultado(h).hay -> Nat]
           /\ Resultado(h).da \in {"APPEARED", "OK", "FAIL", "LUGAR", "NADA"}
<1>1. h.m \in Ids /\ De(h.m).cola \in Colas /\ De(h.m).cantidad \in Nat
  BY MessageFacts DEF Types, HiloT
<1>2. hay \in [DOMAIN hay -> Nat] /\ \A p : HayDe(p) \in Nat
  BY DEF Types, HayDe
<1>3. CASE De(h.m).cola = "NEW"
  <2>1. procesarNew(h).hay \in [DOMAIN hay \cup {De(h.m).pokemon} -> Nat]
    BY <1>1, <1>2 DEF procesarNew
  <2>2. QED
    BY <1>3, <2>1 DEF Resultado, procesarNew
<1>4. CASE De(h.m).cola = "CATCH"
  <2>1. procesarCatch(h).hay \in [DOMAIN hay -> Nat]
    <3>1. CASE HayDe(De(h.m).pokemon) > 0
      <4>1. De(h.m).pokemon \in DOMAIN hay /\ hay[De(h.m).pokemon] - 1 \in Nat
        BY <1>2, <3>1 DEF HayDe
      <4>2. QED
        BY <1>2, <3>1, <4>1 DEF procesarCatch
    <3>2. CASE ~ (HayDe(De(h.m).pokemon) > 0)
      BY <1>2, <3>2 DEF procesarCatch
    <3>3. QED
      BY <3>1, <3>2
  <2>2. QED
    BY <1>4, <2>1 DEF Resultado, procesarCatch
<1>5. CASE De(h.m).cola = "GET"
  BY <1>2, <1>5 DEF Resultado, procesarGet
<1>6. QED
  BY <1>1, <1>3, <1>4, <1>5 DEF Colas

LEMMA HiloType ==
    ASSUME Types, NEW m \in Ids, NEW id \in Ids, Hilo(m, id)
    PROVE  creados' \in [Ids -> Nat] /\ hilos' \subseteq HiloT /\ IsFiniteSet(hilos')
<1> DEFINE h == [m |-> m, id |-> id, n |-> creados[m], pc |-> "procesa", da |-> "-"]
<1>1. creados' = [creados EXCEPT ![m] = @ + 1] /\ hilos' = hilos \cup {h}
  BY DEF Hilo
<1>2. h \in HiloT
  BY DEF Types, HiloT
<1> HIDE DEF h
<1>3. IsFiniteSet(hilos')
  BY <1>1, FS_AddElement DEF Types
<1>4. QED
  BY <1>1, <1>2, <1>3 DEF Types

LEMMA TypesNext ==
    ASSUME Types, HeldInv, Next PROVE Types'
<1> USE MessageFacts
<1>1. Paso
  BY EveryStep
<1>2. caso' = caso /\ caso.llegan \subseteq Ids
  <2>1. caso' = caso
    BY <1>1 DEF Paso, Publica, Envia, SeCorta, subscribirseACola, Recibe, Confirma, Crea,
                CaeElBroker, LevantaElBroker, CaeGameCard, atenderGameboy, Opera, Responde,
                fallas, vars
  <2>2. QED
    BY <2>1 DEF Types
<1>3. ASSUME NEW m \in Ids, Publica(m) PROVE Types'
  BY <1>2, <1>3 DEF Types, Publica, escucha, archivos, fallas
<1>4. ASSUME NEW c \in Colas, Envia(c) PROVE Types'
  BY <1>2, <1>4 DEF Types, Envia, escucha, archivos, fallas
<1>5. ASSUME NEW c \in Colas, SeCorta(c) PROVE Types'
  BY <1>2, <1>5 DEF Types, SeCorta, Desconecta, escucha, archivos, fallas
<1>6. ASSUME NEW c \in Colas, subscribirseACola(c) PROVE Types'
  BY <1>2, <1>6 DEF Types, subscribirseACola, iniciarSocketDeEscucha, archivos, fallas
<1>7. ASSUME NEW c \in Colas, Recibe(c) PROVE Types'
  BY <1>2, <1>7 DEF Types, Recibe, broker, archivos, fallas
<1>8. ASSUME NEW c \in Colas, Confirma(c) PROVE Types'
  BY <1>2, <1>8 DEF Types, HeldInv, Confirma, archivos, fallas
<1>9. ASSUME NEW c \in Colas, Crea(c) PROVE Types'
  <2>1. recibido[c] \in Ids
    BY <1>9 DEF Types, HeldInv, Crea
  <2>2. creados' \in [Ids -> Nat] /\ hilos' \subseteq HiloT /\ IsFiniteSet(hilos')
    BY <1>9, <2>1, HiloType DEF Crea
  <2>3. QED
    BY <1>2, <1>9, <2>2 DEF Types, Crea, broker, archivos, fallas
<1>10. CASE CaeElBroker
  BY <1>2, <1>10 DEF Types, CaeElBroker, Desconecta, escucha, archivos
<1>11. CASE LevantaElBroker
  BY <1>2, <1>11 DEF Types, LevantaElBroker, escucha, archivos, fallas
<1>12. CASE CaeGameCard
  BY <1>2, <1>12, FS_EmptySet DEF Types, CaeGameCard, Desconecta, Listeners, Vacios, archivos
<1>13. CASE atenderGameboy
  <2>1. PICK m \in caso.llegan, id \in caso.llegan :
           /\ Hilo(m, id)
           /\ UNCHANGED <<broker, respuestas, escucha, archivos, fallas>>
    BY <1>13 DEF atenderGameboy
  <2>2. creados' \in [Ids -> Nat] /\ hilos' \subseteq HiloT /\ IsFiniteSet(hilos')
    BY <1>2, <2>1, HiloType
  <2>3. QED
    BY <1>2, <2>1, <2>2 DEF Types, broker, escucha, archivos, fallas
<1>14. ASSUME NEW h \in hilos, Opera(h, Resultado(h)) PROVE Types'
  <2> DEFINE r == Resultado(h)
  <2>1. /\ r.hay \in [DOMAIN r.hay -> Nat]
        /\ r.da \in {"APPEARED", "OK", "FAIL", "LUGAR", "NADA"}
    BY ResultadoType
  <2> HIDE DEF r
  <2>2. /\ hay' = r.hay /\ hechos' = [hechos EXCEPT ![h.m] = @ + 1]
        /\ Sigue(h, [h EXCEPT !.pc = "responde", !.da = r.da])
        /\ UNCHANGED <<broker, respuestas, escucha, creados, fallas>>
    BY <1>14 DEF Opera, r
  <2>3. [h EXCEPT !.pc = "responde", !.da = r.da] \in HiloT /\ h.m \in Ids
    <3>1. h \in HiloT
      BY DEF Types
    <3>2. QED
      BY ONLY <2>1, <3>1 DEF HiloT
  <2>4. hilos' \subseteq HiloT /\ IsFiniteSet(hilos')
    BY <2>2, <2>3, FS_AddElement, FS_RemoveElement DEF Types, Sigue
  <2>5. hechos' \in [Ids -> Nat] /\ hay' \in [DOMAIN hay' -> Nat]
    BY <2>1, <2>2, <2>3 DEF Types
  <2>6. QED
    BY <1>2, <2>2, <2>4, <2>5 DEF Types, broker, escucha, fallas
<1>15. ASSUME NEW h \in hilos, Responde(h) PROVE Types'
  <2>1. hilos' \subseteq HiloT /\ IsFiniteSet(hilos')
    BY <1>15, FS_RemoveElement DEF Types, Responde
  <2>2. QED
    BY <1>2, <1>15, <2>1 DEF Types, Responde, broker, escucha, archivos, fallas
<1>16. QED
  BY <1>1, <1>3, <1>4, <1>5, <1>6, <1>7, <1>8, <1>9, <1>10, <1>11, <1>12, <1>13, <1>14, <1>15
  DEF Paso

LEMMA PipeNext ==
    ASSUME Types, PipeInv, HeldInv, Next PROVE PipeInv'
<1> USE MessageFacts
<1>1. Paso
  BY EveryStep
<1>2. ASSUME NEW m \in Ids, Publica(m) PROVE PipeInv'
  BY <1>2 DEF Types, PipeInv, Publica, escucha
<1>3. ASSUME NEW c \in Colas, Envia(c) PROVE PipeInv'
  BY <1>3 DEF Types, PipeInv, Envia, escucha
<1>4. ASSUME NEW c \in Colas, SeCorta(c) PROVE PipeInv'
  BY <1>4 DEF Types, PipeInv, SeCorta, Desconecta, escucha
<1>5. ASSUME NEW c \in Colas, subscribirseACola(c) PROVE PipeInv'
  BY <1>5 DEF Types, PipeInv, subscribirseACola, iniciarSocketDeEscucha
<1>6. ASSUME NEW c \in Colas, Recibe(c) PROVE PipeInv'
  BY <1>6 DEF Types, PipeInv, Recibe, broker
<1>7. ASSUME NEW c \in Colas, Confirma(c) PROVE PipeInv'
  BY <1>7 DEF Types, PipeInv, HeldInv, Confirma
<1>8. ASSUME NEW c \in Colas, Crea(c) PROVE PipeInv'
  BY <1>8 DEF Types, PipeInv, Crea, broker
<1>9. CASE CaeElBroker
  BY <1>9 DEF Types, PipeInv, CaeElBroker, Desconecta
<1>10. CASE LevantaElBroker
  BY <1>10 DEF Types, PipeInv, LevantaElBroker, escucha
<1>11. CASE CaeGameCard
  BY <1>11 DEF Types, PipeInv, CaeGameCard, Desconecta
<1>12. CASE UNCHANGED <<broker, escucha>>
  BY <1>12 DEF PipeInv, broker, escucha
<1>13. atenderGameboy \/ (\E h \in hilos : Opera(h, Resultado(h)) \/ Responde(h))
          => UNCHANGED <<broker, escucha>>
  BY DEF atenderGameboy, Opera, Responde
<1>14. QED
  BY <1>1, <1>2, <1>3, <1>4, <1>5, <1>6, <1>7, <1>8, <1>9, <1>10, <1>11, <1>12, <1>13 DEF Paso

LEMMA HeldNext ==
    ASSUME Types, PipeInv, HeldInv, Next PROVE HeldInv'
<1> USE MessageFacts
<1>1. Paso
  BY EveryStep
<1>2. ASSUME NEW m \in Ids, Publica(m) PROVE HeldInv'
  BY <1>2 DEF HeldInv, Publica, escucha
<1>3. ASSUME NEW c \in Colas, Envia(c) PROVE HeldInv'
  BY <1>3 DEF Types, HeldInv, PipeInv, Envia, escucha
<1>4. ASSUME NEW c \in Colas, SeCorta(c) PROVE HeldInv'
  BY <1>4 DEF Types, HeldInv, SeCorta, Desconecta, escucha
<1>5. ASSUME NEW c \in Colas, subscribirseACola(c) PROVE HeldInv'
  BY <1>5 DEF Types, HeldInv, subscribirseACola, iniciarSocketDeEscucha
<1>6. ASSUME NEW c \in Colas, Recibe(c) PROVE HeldInv'
  BY <1>6 DEF Types, HeldInv, PipeInv, Recibe, broker
<1>7. ASSUME NEW c \in Colas, Confirma(c) PROVE HeldInv'
  BY <1>7 DEF Types, HeldInv, Confirma
<1>8. ASSUME NEW c \in Colas, Crea(c) PROVE HeldInv'
  BY <1>8 DEF Types, HeldInv, Crea, broker
<1>9. CASE CaeElBroker
  BY <1>9 DEF Types, HeldInv, CaeElBroker, Desconecta, escucha
<1>10. CASE LevantaElBroker
  BY <1>10 DEF HeldInv, LevantaElBroker, escucha
<1>11. CASE CaeGameCard
  BY <1>11 DEF HeldInv, CaeGameCard, Listeners
<1>12. CASE UNCHANGED <<broker, escucha>>
  BY <1>12 DEF HeldInv, broker, escucha
<1>13. atenderGameboy \/ (\E h \in hilos : Opera(h, Resultado(h)) \/ Responde(h))
          => UNCHANGED <<broker, escucha>>
  BY DEF atenderGameboy, Opera, Responde
<1>14. QED
  BY <1>1, <1>2, <1>3, <1>4, <1>5, <1>6, <1>7, <1>8, <1>9, <1>10, <1>11, <1>12, <1>13 DEF Paso

\* The threads of a message that have not processed it can be counted.
LEMMA ProcesanType ==
    ASSUME Types, NEW m \in Ids
    PROVE  IsFiniteSet(Procesan(m)) /\ Cardinality(Procesan(m)) \in Nat
  BY FS_Subset, FS_CardinalityType DEF Types, Procesan

LEMMA HiloThreads ==
    ASSUME Types, ThreadInv, NEW m \in Ids, NEW id \in Ids, Hilo(m, id), UNCHANGED hechos
    PROVE  ThreadInv'
<1> DEFINE h == [m |-> m, id |-> id, n |-> creados[m], pc |-> "procesa", da |-> "-"]
<1>1. /\ hilos' = hilos \cup {h} /\ h.m = m /\ h.pc = "procesa" /\ h.da = "-"
      /\ h.n = creados[m]
  BY DEF Hilo
<1> HIDE DEF h
<1>2. /\ creados \in [Ids -> Nat] /\ hechos \in [Ids -> Nat]
      /\ creados' = [creados EXCEPT ![m] = @ + 1]
  BY DEF Types, Hilo
<1>3. \A g \in hilos : g \in HiloT /\ g.m \in Ids /\ g.n \in Nat
  BY DEF Types, HiloT
<1>4. ASSUME NEW g \in hilos'
      PROVE  /\ g.n < creados'[g.m]
             /\ g.pc = "procesa" <=> g.da = "-"
             /\ g.pc = "responde" => hechos'[g.m] > 0
  <2>1. CASE g = h
    BY <1>1, <1>2, <2>1
  <2>2. CASE g \in hilos
    BY <1>2, <1>3, <2>2 DEF ThreadInv
  <2>3. QED
    BY <1>1, <1>4, <2>1, <2>2
<1>5. ASSUME NEW k \in Ids PROVE hechos'[k] + Cardinality(Procesan(k)') <= creados'[k]
  <2>1. /\ IsFiniteSet(Procesan(k)) /\ Cardinality(Procesan(k)) \in Nat
        /\ hechos[k] + Cardinality(Procesan(k)) <= creados[k]
    BY ProcesanType DEF ThreadInv
  <2>2. CASE k = m
    <3>1. Procesan(k)' = Procesan(k) \cup {h}
      BY <1>1, <2>2 DEF Procesan
    <3>2. Cardinality(Procesan(k)') <= Cardinality(Procesan(k)) + 1
      <4>1. Cardinality(Procesan(k) \cup {h}) =
               IF h \in Procesan(k) THEN Cardinality(Procesan(k)) ELSE Cardinality(Procesan(k)) + 1
        BY <2>1, FS_AddElement
      <4>2. QED
        BY <2>1, <3>1, <4>1
    <3>3. Cardinality(Procesan(k)') \in Nat
      BY <2>1, <3>1, FS_AddElement, FS_CardinalityType
    <3>4. QED
      BY <1>2, <2>1, <2>2, <3>2, <3>3
  <2>3. CASE k # m
    <3>1. Procesan(k)' = Procesan(k)
      BY <1>1, <2>3 DEF Procesan
    <3>2. QED
      BY <1>2, <2>1, <2>3, <3>1
  <2>4. QED
    BY <2>2, <2>3
<1>6. QED
  BY <1>4, <1>5 DEF ThreadInv

LEMMA ThreadNext ==
    ASSUME Types, HeldInv, ThreadInv, Next PROVE ThreadInv'
<1> USE MessageFacts
<1>1. Paso
  BY EveryStep
<1>2. /\ creados \in [Ids -> Nat] /\ hechos \in [Ids -> Nat]
      /\ \A g \in hilos : g \in HiloT /\ g.m \in Ids /\ g.n \in Nat
  BY DEF Types, HiloT
<1>3. CASE UNCHANGED <<hilos, creados, hechos>>
  BY <1>3 DEF ThreadInv, Procesan
<1>4. ASSUME NEW c \in Colas, Crea(c) PROVE ThreadInv'
  <2>1. recibido[c] \in Ids /\ Hilo(recibido[c], recibido[c]) /\ UNCHANGED hechos
    BY <1>4 DEF Types, HeldInv, Crea, archivos
  <2>2. QED
    BY <2>1, HiloThreads
<1>5. CASE CaeGameCard
  <2>1. hilos' = {} /\ UNCHANGED <<creados, hechos>>
    BY <1>5 DEF CaeGameCard, archivos
  <2>2. \A m \in Ids : Procesan(m)' = {} /\ Cardinality(Procesan(m)) \in Nat
    BY <2>1, ProcesanType DEF Procesan
  <2>3. \A m \in Ids : Cardinality(Procesan(m)') = 0
    BY <2>2, FS_EmptySet
  <2>4. QED
    BY <1>2, <2>1, <2>2, <2>3 DEF ThreadInv
<1>6. CASE atenderGameboy
  <2>1. PICK m \in caso.llegan, id \in caso.llegan : Hilo(m, id) /\ UNCHANGED hechos
    BY <1>6 DEF atenderGameboy, archivos
  <2>2. m \in Ids /\ id \in Ids
    BY DEF Types
  <2>3. QED
    BY <2>1, <2>2, HiloThreads
<1>7. ASSUME NEW h \in hilos, Opera(h, Resultado(h)) PROVE ThreadInv'
  <2> DEFINE g == [h EXCEPT !.pc = "responde", !.da = Resultado(h).da]
  <2>1. /\ hilos' = (hilos \ {h}) \cup {g} /\ hechos' = [hechos EXCEPT ![h.m] = @ + 1]
        /\ creados' = creados /\ h.pc = "procesa"
    BY <1>7 DEF Opera, Sigue
  <2>2. g.m = h.m /\ g.n = h.n /\ g.pc = "responde" /\ g.da # "-"
    BY <1>2, ResultadoType DEF HiloT
  <2> HIDE DEF g
  <2>3. \A f \in hilos' : /\ f.n < creados'[f.m]
                          /\ f.pc = "procesa" <=> f.da = "-"
                          /\ f.pc = "responde" => hechos'[f.m] > 0
    BY <1>2, <2>1, <2>2 DEF ThreadInv
  <2>4. ASSUME NEW k \in Ids PROVE hechos'[k] + Cardinality(Procesan(k)') <= creados'[k]
    <3>1. /\ IsFiniteSet(Procesan(k)) /\ Cardinality(Procesan(k)) \in Nat
          /\ hechos[k] + Cardinality(Procesan(k)) <= creados[k]
      BY ProcesanType DEF ThreadInv
    <3>2. CASE k = h.m
      <4>1. Procesan(k)' = Procesan(k) \ {h} /\ h \in Procesan(k)
        BY <2>1, <2>2, <3>2 DEF Procesan
      <4>2. Cardinality(Procesan(k)') = Cardinality(Procesan(k)) - 1
        BY <3>1, <4>1, FS_RemoveElement
      <4>3. QED
        BY <1>2, <2>1, <3>1, <3>2, <4>2
    <3>3. CASE k # h.m
      <4>1. Procesan(k)' = Procesan(k)
        BY <2>1, <2>2, <3>3 DEF Procesan
      <4>2. QED
        BY <1>2, <2>1, <3>1, <3>3, <4>1
    <3>4. QED
      BY <3>2, <3>3
  <2>5. QED
    BY <2>3, <2>4 DEF ThreadInv
<1>8. ASSUME NEW h \in hilos, Responde(h) PROVE ThreadInv'
  <2>1. hilos' = hilos \ {h} /\ UNCHANGED <<creados, hechos>> /\ h.pc = "responde"
    BY <1>8 DEF Responde, archivos
  <2>2. \A k \in Ids : Procesan(k)' = Procesan(k)
    BY <2>1 DEF Procesan
  <2>3. QED
    BY <2>1, <2>2 DEF ThreadInv
<1>9. ASSUME NEW c \in Colas,
             Envia(c) \/ SeCorta(c) \/ subscribirseACola(c) \/ Recibe(c) \/ Confirma(c)
      PROVE  UNCHANGED <<hilos, creados, hechos>>
  BY <1>9 DEF Envia, SeCorta, subscribirseACola, Recibe, Confirma, archivos
<1>10. ASSUME (\E m \in Ids : Publica(m)) \/ CaeElBroker \/ LevantaElBroker
       PROVE  UNCHANGED <<hilos, creados, hechos>>
  BY <1>10 DEF Publica, CaeElBroker, LevantaElBroker, archivos
<1>11. QED
  BY <1>1, <1>3, <1>4, <1>5, <1>6, <1>7, <1>8, <1>9, <1>10 DEF Paso

LEMMA AckedNext ==
    ASSUME Types, HeldInv, ThreadInv, AckedIsAttended, Next PROVE AckedIsAttended'
<1> USE MessageFacts
<1>1. Paso
  BY EveryStep
<1>2. /\ hechos \in [Ids -> Nat] /\ confirmados \subseteq Ids
      /\ \A g \in hilos : g \in HiloT /\ g.m \in Ids
  BY DEF Types, HiloT
<1>3. CASE UNCHANGED <<hilos, hechos, confirmados, muertos, escucha>>
  BY <1>3 DEF AckedIsAttended, escucha
<1>4. ASSUME NEW c \in Colas, subscribirseACola(c) \/ Recibe(c) PROVE AckedIsAttended'
  BY <1>4 DEF Types, AckedIsAttended, subscribirseACola, Recibe, broker, archivos, fallas
<1>5. ASSUME NEW c \in Colas, Confirma(c) PROVE AckedIsAttended'
  BY <1>5 DEF Types, AckedIsAttended, Confirma, archivos, fallas
<1>6. ASSUME NEW c \in Colas, Crea(c) PROVE AckedIsAttended'
  <2>1. /\ \E h \in hilos' : h.m = recibido[c]
        /\ hilos \subseteq hilos' /\ pcL' = [pcL EXCEPT ![c] = "recibe"]
        /\ UNCHANGED <<confirmados, recibido, hechos, muertos>>
    <3> DEFINE h == [m |-> recibido[c], id |-> recibido[c], n |-> creados[recibido[c]],
                     pc |-> "procesa", da |-> "-"]
    <3>1. hilos' = hilos \cup {h} /\ h.m = recibido[c]
      BY <1>6 DEF Crea, Hilo
    <3> HIDE DEF h
    <3>2. QED
      BY <1>6, <3>1 DEF Crea, broker, archivos, fallas
  <2>2. QED
    BY <2>1 DEF Types, AckedIsAttended
<1>7. CASE CaeGameCard
  BY <1>7 DEF AckedIsAttended, CaeGameCard, archivos
<1>8. CASE atenderGameboy
  <2>1. hilos \subseteq hilos' /\ UNCHANGED <<confirmados, escucha, hechos, muertos>>
    BY <1>8 DEF atenderGameboy, Hilo, broker, archivos, fallas
  <2>2. QED
    BY <2>1 DEF AckedIsAttended, escucha
<1>9. ASSUME NEW h \in hilos, Opera(h, Resultado(h)) \/ Responde(h) PROVE AckedIsAttended'
  <2>1. /\ hilos \ {h} \subseteq hilos' /\ h.m \in Ids
        /\ \A m \in Ids : hechos[m] > 0 => hechos'[m] > 0
        /\ hechos'[h.m] > 0
        /\ UNCHANGED <<confirmados, escucha, muertos>>
    BY <1>2, <1>9 DEF Opera, Responde, Sigue, ThreadInv, broker, archivos, fallas
  <2>2. QED
    BY <1>2, <2>1 DEF AckedIsAttended, escucha
<1>10. ASSUME NEW c \in Colas, Envia(c) \/ SeCorta(c)
       PROVE  UNCHANGED <<hilos, hechos, confirmados, muertos, escucha>>
  BY <1>10 DEF Envia, SeCorta, archivos, fallas
<1>11. ASSUME (\E m \in Ids : Publica(m)) \/ CaeElBroker \/ LevantaElBroker
       PROVE  UNCHANGED <<hilos, hechos, confirmados, muertos, escucha>>
  BY <1>11 DEF Publica, CaeElBroker, LevantaElBroker, archivos, fallas
<1>12. QED
  BY <1>1, <1>3, <1>4, <1>5, <1>6, <1>7, <1>8, <1>9, <1>10, <1>11 DEF Paso

-----------------------------------------------------------------------------
(* Repeats                                                                 *)

LEMMA PesoIs ==
    ASSUME NEW m \in Ids
    PROVE  /\ Peso[m] = (IF creados[m] > 1 THEN creados[m] - 1 ELSE 0)
                         + (IF Vuelve(m) THEN 1 ELSE 0) + (IF EnDuda(m) THEN 1 ELSE 0)
           /\ Peso'[m] = (IF creados'[m] > 1 THEN creados'[m] - 1 ELSE 0)
                          + (IF Vuelve(m)' THEN 1 ELSE 0) + (IF EnDuda(m)' THEN 1 ELSE 0)
  BY DEF Peso

LEMMA PesoType ==
    ASSUME Types, Types', NEW m \in Ids PROVE Peso[m] \in Nat /\ Peso'[m] \in Nat
<1>1. creados[m] \in Nat /\ creados'[m] \in Nat
  BY DEF Types
<1>2. QED
  BY <1>1, PesoIs

LEMMA DeLaColaFinite == \A c : IsFiniteSet(DeLaCola(c)) /\ DeLaCola(c) \subseteq Ids
  BY MessageFacts, FS_Subset DEF DeLaCola

\* No message of a queue weighs more than it did.
LEMMA NoHeavier ==
    ASSUME Types, Types', RepeatInv, NEW c \in Colas, cortes[c] <= cortes'[c],
           \A m \in DeLaCola(c) : Peso'[m] <= Peso[m]
    PROVE  SumFunctionOnSet(Peso', DeLaCola(c)) <= cortes'[c]
<1>1. \A m \in DeLaCola(c) : Peso[m] \in Nat /\ Peso'[m] \in Nat
  BY PesoType, DeLaColaFinite
<1>2. SumFunctionOnSet(Peso', DeLaCola(c)) <= SumFunctionOnSet(Peso, DeLaCola(c))
  BY <1>1, DeLaColaFinite, SumMonotone
<1>3. /\ SumFunctionOnSet(Peso, DeLaCola(c)) \in Nat
      /\ SumFunctionOnSet(Peso', DeLaCola(c)) \in Nat
  BY <1>1, DeLaColaFinite, SumProperties
<1>4. /\ cortes[c] \in Nat /\ cortes'[c] \in Nat
      /\ SumFunctionOnSet(Peso, DeLaCola(c)) <= cortes[c]
  BY DEF Types, RepeatInv
<1>5. QED
  BY <1>2, <1>3, <1>4

\* When no thread starts, it is enough that nothing new comes again or is in doubt.
LEMMA NoNewRepeats ==
    ASSUME Types, Types', RepeatInv, UNCHANGED <<creados, cortes>>, publicados \subseteq publicados',
           \A m \in Ids : (Vuelve(m)' => Vuelve(m)) /\ (EnDuda(m)' => EnDuda(m))
    PROVE  RepeatInv'
<1>1. \A m \in Ids : Peso'[m] <= Peso[m]
  <2>1. SUFFICES ASSUME NEW m \in Ids PROVE Peso'[m] <= Peso[m]
    OBVIOUS
  <2>2. creados[m] \in Nat
    BY DEF Types
  <2>3. QED
    BY <2>2, PesoIs
<1>2. \A c \in Colas : SumFunctionOnSet(Peso', DeLaCola(c)) <= cortes'[c]
  BY <1>1, NoHeavier, DeLaColaFinite DEF Types
<1>3. \A c : DeLaCola(c)' = DeLaCola(c)
  BY DEF DeLaCola
<1>4. QED
  BY <1>2, <1>3 DEF RepeatInv

LEMMA RepeatNext ==
    ASSUME Types, Types', PipeInv, HeldInv, RepeatInv, Next PROVE RepeatInv'
<1> USE MessageFacts
<1>1. Paso
  BY EveryStep
<1>2. ASSUME NEW m \in Ids, Publica(m) PROVE RepeatInv'
  <2>1. /\ UNCHANGED <<creados, cortes>> /\ publicados \subseteq publicados'
        /\ creados[m] = 0 /\ ~ EnMano(m)
    BY <1>2 DEF RepeatInv, HeldInv, EnMano, Publica, archivos, fallas
  <2>2. \A k \in Ids : EnMano(k)' = EnMano(k)
    BY <1>2 DEF EnMano, Publica, escucha
  <2>3. \A k \in Ids : (Vuelve(k)' => Vuelve(k)) /\ (EnDuda(k)' => EnDuda(k))
    BY <1>2, <2>1, <2>2 DEF Vuelve, EnDuda, Publica
  <2>4. QED
    BY <2>1, <2>3, NoNewRepeats
<1>3. CASE UNCHANGED <<publicados, guardados, confirmados, conectado, escucha, creados, cortes>>
  <2>1. \A k \in Ids : (Vuelve(k)' => Vuelve(k)) /\ (EnDuda(k)' => EnDuda(k))
    BY <1>3 DEF Vuelve, EnDuda, EnMano, escucha
  <2>2. QED
    BY <1>3, <2>1, NoNewRepeats
<1>4. ASSUME NEW c \in Colas, SeCorta(c) PROVE RepeatInv'
  <2>1. /\ UNCHANGED <<publicados, guardados, confirmados, escucha, creados>>
        /\ conectado' = conectado \ {c} /\ c \in conectado
        /\ cortes' = [cortes EXCEPT ![c] = @ + 1]
    BY <1>4 DEF SeCorta, Desconecta
  <2>2. ASSUME NEW m \in Ids
        PROVE  /\ Vuelve(m)' = Vuelve(m)
               /\ EnDuda(m)' => EnDuda(m) \/ (De(m).cola = c /\ recibido[c] = m)
    BY <2>1 DEF Vuelve, EnDuda, EnMano, escucha
  <2>3. ASSUME NEW m \in Ids
        PROVE  /\ Peso'[m] <= Peso[m] + 1
               /\ ~ (De(m).cola = c /\ recibido[c] = m) => Peso'[m] <= Peso[m]
    <3>1. creados[m] \in Nat
      BY DEF Types
    <3>2. QED
      BY <2>1, <2>2, <3>1, PesoIs
  <2>4. ASSUME NEW d \in Colas PROVE SumFunctionOnSet(Peso', DeLaCola(d)) <= cortes'[d]
    <3>1. cortes[d] \in Nat /\ cortes[d] <= cortes'[d]
      BY <2>1 DEF Types
    <3>2. CASE d = c /\ recibido[c] \in DeLaCola(c)
      <4> DEFINE S == DeLaCola(c)
                 y == recibido[c]
      <4>1. \A m \in S : Peso[m] \in Nat /\ Peso'[m] \in Nat
        BY PesoType, DeLaColaFinite
      <4>2. \A m \in S \ {y} : Peso'[m] <= Peso[m]
        BY <2>3, DeLaColaFinite
      <4>3. Peso'[y] <= Peso[y] + 1
        BY <2>3, <3>2, DeLaColaFinite
      <4>4. IsFiniteSet(S) /\ y \in S
        BY <3>2, DeLaColaFinite
      <4> HIDE DEF S, y
      <4>5. SumFunctionOnSet(Peso', S) <= SumFunctionOnSet(Peso, S) + 1
        BY <4>1, <4>2, <4>3, <4>4, SumGrows
      <4>6. SumFunctionOnSet(Peso', S) \in Nat /\ SumFunctionOnSet(Peso, S) \in Nat
        BY <4>1, <4>4, SumProperties
      <4>7. SumFunctionOnSet(Peso, S) <= cortes[c] /\ cortes'[c] = cortes[c] + 1
        BY <2>1 DEF RepeatInv, Types, S
      <4>8. QED
        BY <3>1, <3>2, <4>5, <4>6, <4>7 DEF S
    <3>3. CASE ~ (d = c /\ recibido[c] \in DeLaCola(c))
      <4>1. \A m \in DeLaCola(d) : Peso'[m] <= Peso[m]
        BY <2>3, <3>3 DEF DeLaCola
      <4>2. QED
        BY <3>1, <4>1, NoHeavier
    <3>4. QED
      BY <3>2, <3>3
  <2>5. \A d : DeLaCola(d)' = DeLaCola(d)
    BY DEF DeLaCola
  <2>6. QED
    BY <2>1, <2>4, <2>5 DEF RepeatInv
<1>5. ASSUME NEW c \in Colas, subscribirseACola(c) PROVE RepeatInv'
  <2>1. /\ UNCHANGED <<publicados, guardados, confirmados, creados, cortes, recibido>>
        /\ conectado \subseteq conectado' /\ pcL' = [pcL EXCEPT ![c] = "recibe"]
    BY <1>5 DEF subscribirseACola, iniciarSocketDeEscucha, archivos, fallas
  <2>2. \A k \in Ids : (Vuelve(k)' => Vuelve(k)) /\ (EnDuda(k)' => EnDuda(k))
    BY <2>1 DEF Types, Vuelve, EnDuda, EnMano
  <2>3. QED
    BY <2>1, <2>2, NoNewRepeats
<1>6. ASSUME NEW c \in Colas, Recibe(c) PROVE RepeatInv'
  <2>1. /\ UNCHANGED <<publicados, guardados, confirmados, conectado, creados, cortes>>
        /\ pcL' = [pcL EXCEPT ![c] = IF c \in conectado THEN "confirma" ELSE "suscribe"]
        /\ recibido' = [recibido EXCEPT ![c] = enVuelo[c]]
        /\ c \in conectado => enVuelo[c] \in guardados \ confirmados
    BY <1>6 DEF Recibe, PipeInv, broker, archivos, fallas
  <2>2. \A k \in Ids : EnMano(k)' => EnMano(k) \/ (/\ k \in guardados \ confirmados
                                                 /\ De(k).cola \in conectado)
    BY <2>1 DEF Types, EnMano
  <2>3. \A k \in Ids : (Vuelve(k)' => Vuelve(k)) /\ (EnDuda(k)' => EnDuda(k))
    BY <2>1, <2>2 DEF Vuelve, EnDuda
  <2>4. QED
    BY <2>1, <2>3, NoNewRepeats
<1>7. ASSUME NEW c \in Colas, Confirma(c) PROVE RepeatInv'
  <2>1. /\ UNCHANGED <<publicados, guardados, conectado, creados, cortes, recibido>>
        /\ confirmados \subseteq confirmados' /\ pcL[c] = "confirma"
        /\ \E d \in {"crea", "suscribe"} : pcL' = [pcL EXCEPT ![c] = d]
    BY <1>7 DEF Confirma, archivos, fallas
  <2>2. \A k \in Ids : EnMano(k)' => EnMano(k)
    BY <2>1 DEF Types, EnMano
  <2>3. \A k \in Ids : (Vuelve(k)' => Vuelve(k)) /\ (EnDuda(k)' => EnDuda(k))
    BY <2>1, <2>2 DEF Vuelve, EnDuda
  <2>4. QED
    BY <2>1, <2>3, NoNewRepeats
<1>8. ASSUME NEW c \in Colas, Crea(c) PROVE RepeatInv'
  <2>1. PICK m : m = recibido[c]
    OBVIOUS
  <2>2. /\ UNCHANGED <<publicados, guardados, confirmados, conectado, recibido, cortes>>
        /\ creados' = [creados EXCEPT ![m] = @ + 1]
        /\ pcL' = [pcL EXCEPT ![c] = "recibe"] /\ pcL[c] = "crea"
    BY <1>8, <2>1 DEF Crea, Hilo, broker, archivos, fallas
  <2>3. m \in Ids /\ m \in publicados /\ De(m).cola = c /\ EnMano(m)
    BY <2>2, <2>1 DEF Types, HeldInv, EnMano
  <2>4. ~ EnMano(m)' /\ ~ EnDuda(m)'
    BY <2>2, <2>3, <2>1 DEF Types, EnMano, EnDuda
  <2>5. \A k \in Ids : creados[k] \in Nat /\ creados'[k] = IF k = m THEN creados[k] + 1 ELSE creados[k]
    BY <2>2, <2>3 DEF Types
  <2>6. ASSUME NEW k \in Ids, k # m PROVE Peso'[k] <= Peso[k]
    <3>1. EnMano(k)' => EnMano(k)
      BY <2>2, <2>6, <2>1 DEF Types, EnMano
    <3>2. creados[k] \in Nat /\ creados'[k] = creados[k]
      BY <2>5, <2>6
    <3>3. (Vuelve(k)' => Vuelve(k)) /\ (EnDuda(k)' => EnDuda(k))
      BY <2>2, <3>1, <3>2 DEF Vuelve, EnDuda
    <3>4. QED
      BY <3>2, <3>3, PesoIs
  <2>7. Peso'[m] <= Peso[m]
    <3>1. creados[m] \in Nat /\ creados'[m] = creados[m] + 1
      BY <2>3, <2>5
    <3>2. Vuelve(m)' <=> m \in guardados \ confirmados
      BY <2>2, <2>4, <3>1 DEF Vuelve
    <3>3. EnDuda(m) <=> m \in guardados \ confirmados
      BY <2>2, <2>3, <2>1 DEF HeldInv, EnDuda
    <3>4. Vuelve(m) <=> creados[m] > 0
      BY <2>3 DEF Vuelve
    <3>5. QED
      BY <2>3, <2>4, <3>1, <3>2, <3>3, <3>4, PesoIs
  <2>8. \A d \in Colas : SumFunctionOnSet(Peso', DeLaCola(d)) <= cortes'[d]
    BY <2>2, <2>6, <2>7, NoHeavier, DeLaColaFinite DEF Types
  <2>9. \A d : DeLaCola(d)' = DeLaCola(d)
    BY DEF DeLaCola
  <2>10. \A k \in Ids : De(k).via = "BROKER" /\ k \notin publicados' => creados'[k] = 0
    BY <2>2, <2>3, <2>5 DEF RepeatInv
  <2>11. QED
    BY <2>8, <2>9, <2>10 DEF RepeatInv
<1>9. CASE CaeElBroker
  <2>1. /\ UNCHANGED <<publicados, confirmados, escucha, creados, cortes>> /\ guardados' = {}
    BY <1>9 DEF CaeElBroker
  <2>2. \A k \in Ids : (Vuelve(k)' => Vuelve(k)) /\ (EnDuda(k)' => EnDuda(k))
    BY <2>1 DEF Vuelve, EnDuda, EnMano, escucha
  <2>3. QED
    BY <2>1, <2>2, NoNewRepeats
<1>10. CASE CaeGameCard
  <2>1. /\ UNCHANGED <<publicados, guardados, confirmados, creados, cortes>>
        /\ \A k \in Ids : ~ EnMano(k)'
    BY <1>10 DEF CaeGameCard, EnMano, Listeners
  <2>2. \A k \in Ids : (Vuelve(k)' => Vuelve(k)) /\ (EnDuda(k)' => EnDuda(k))
    BY <2>1 DEF Vuelve, EnDuda
  <2>3. QED
    BY <2>1, <2>2, NoNewRepeats
<1>11. CASE atenderGameboy
  <2>1. PICK m \in caso.llegan : /\ De(m).via = "GAMEBOY" /\ creados[m] = 0
                                /\ creados' = [creados EXCEPT ![m] = @ + 1]
                                /\ UNCHANGED <<broker, escucha, cortes>>
    BY <1>11 DEF atenderGameboy, Hilo, fallas
  <2>2. m \in Ids /\ m \notin publicados
    BY <2>1 DEF Types
  <2>3. ASSUME NEW k \in Ids PROVE Peso'[k] <= Peso[k]
    <3>1. EnMano(k)' = EnMano(k) /\ EnDuda(k)' = EnDuda(k)
      BY <2>1 DEF EnMano, EnDuda, broker, escucha
    <3>2. creados[k] \in Nat
      BY DEF Types
    <3>3. CASE k = m
      <4>1. ~ EnMano(m) /\ m \notin guardados
        BY <2>2 DEF EnMano, HeldInv, Types
      <4>2. ~ Vuelve(k)' /\ creados'[k] = 1
        BY <2>1, <2>2, <3>1, <3>3, <4>1 DEF Vuelve, Types, broker
      <4>3. QED
        BY <2>1, <3>1, <3>2, <3>3, <4>2, PesoIs
    <3>4. CASE k # m
      <4>1. creados'[k] = creados[k] /\ Vuelve(k)' = Vuelve(k)
        BY <2>1, <2>2, <3>1, <3>4 DEF Vuelve, Types, broker
      <4>2. QED
        BY <3>1, <3>2, <4>1, PesoIs
    <3>5. QED
      BY <3>3, <3>4
  <2>4. \A d \in Colas : SumFunctionOnSet(Peso', DeLaCola(d)) <= cortes'[d]
    BY <2>1, <2>3, NoHeavier, DeLaColaFinite DEF Types
  <2>5. \A d : DeLaCola(d)' = DeLaCola(d)
    BY DEF DeLaCola
  <2>6. \A k \in Ids : De(k).via = "BROKER" /\ k \notin publicados' => creados'[k] = 0
    BY <2>1, <2>2 DEF RepeatInv, Types, broker
  <2>7. QED
    BY <2>4, <2>5, <2>6 DEF RepeatInv
<1>12. ASSUME \/ \E c \in Colas : Envia(c)
              \/ LevantaElBroker
              \/ \E h \in hilos : Opera(h, Resultado(h)) \/ Responde(h)
       PROVE  UNCHANGED <<publicados, guardados, confirmados, conectado, escucha, creados, cortes>>
  BY <1>12 DEF Envia, LevantaElBroker, Opera, Responde, broker, archivos, fallas
<1>13. QED
  BY <1>1, <1>2, <1>3, <1>4, <1>5, <1>6, <1>7, <1>8, <1>9, <1>10, <1>11, <1>12 DEF Paso

-----------------------------------------------------------------------------
(* Pokemons                                                                *)

\* The terms of Agregados, and what they are added up over.
Aportes == [m \in Ids |-> De(m).cantidad * hechos[m]]
Nuevos(p) == {m \in DeLaCola("NEW") : De(m).pokemon = p}

LEMMA CountTypes ==
    ASSUME Types, BackedInv, NEW p \in Pokemones
    PROVE  /\ HayDe(p) \in Nat /\ HabiaDe(p) \in Nat /\ Agregados(p) \in Nat
           /\ IsFiniteSet(Ganancia(p)) /\ Cardinality(Ganancia(p)) \in Nat
           /\ IsFiniteSet(Nuevos(p)) /\ Nuevos(p) \subseteq Ids
           /\ \A m \in Ids : Aportes[m] \in Nat
<1>1. HayDe(p) \in Nat /\ HabiaDe(p) \in Nat
  BY ServerAssumption DEF Types, HayDe, HabiaDe
<1>2. IsFiniteSet(Nuevos(p)) /\ Nuevos(p) \subseteq Ids
  BY MessageFacts, FS_Subset DEF Nuevos, DeLaCola
<1>3. \A m \in Ids : Aportes[m] \in Nat
  BY MessageFacts DEF Types, Aportes
<1>4. Agregados(p) \in Nat
  <2>1. SumFunctionOnSet(Aportes, Nuevos(p)) \in Nat
    BY <1>2, <1>3, SumProperties
  <2>2. QED
    BY <2>1 DEF Agregados, Aportes, Nuevos
<1>5. QED
  BY <1>1, <1>2, <1>3, <1>4, FS_CardinalityType DEF BackedInv

\* Nothing new is won, and no file changes.
LEMMA NoMoreWon ==
    ASSUME Types, BackedInv, UNCHANGED <<hay, hechos>>,
           \A p \in Pokemones : Ganancia(p)' \subseteq Ganancia(p)
    PROVE  BackedInv'
<1>1. ASSUME NEW p \in Pokemones
      PROVE  /\ IsFiniteSet(Ganancia(p)')
             /\ Cardinality(Ganancia(p)') + HayDe(p)' <= Agregados(p)' + HabiaDe(p)
  <2>1. HayDe(p)' = HayDe(p) /\ Agregados(p)' = Agregados(p)
    BY DEF HayDe, Agregados, DeLaCola
  <2>2. /\ IsFiniteSet(Ganancia(p)') /\ Cardinality(Ganancia(p)') <= Cardinality(Ganancia(p))
        /\ Cardinality(Ganancia(p)') \in Nat
    <3>1. PICK S : S = Ganancia(p)'
      OBVIOUS
    <3>2. IsFiniteSet(S) /\ Cardinality(S) <= Cardinality(Ganancia(p)) /\ Cardinality(S) \in Nat
      BY <3>1, CountTypes, FS_Subset, FS_CardinalityType
    <3>3. QED
      BY <3>1, <3>2
  <2>3. QED
    BY <2>1, <2>2, CountTypes DEF BackedInv
<1>2. QED
  BY <1>1 DEF BackedInv, HabiaDe

\* An operation on a file: what it adds is counted, and what it gives was there.
LEMMA BackedOpera ==
    ASSUME Types, ThreadInv, BackedInv, NEW h \in hilos, Opera(h, Resultado(h))
    PROVE  BackedInv'
<1> DEFINE r == Resultado(h)
           g == [h EXCEPT !.pc = "responde", !.da = r.da]
           premio == [id |-> h.id, m |-> h.m, n |-> h.n, da |-> r.da]
<1>1. /\ h.m \in Ids /\ De(h.m).cola \in Colas /\ De(h.m).cantidad \in Nat /\ h.da = "-"
      /\ g.id = h.id /\ g.m = h.m /\ g.n = h.n /\ g.da = r.da
  BY MessageFacts DEF Types, HiloT, ThreadInv, Opera
<1>2. /\ hilos' = (hilos \ {h}) \cup {g} /\ hay' = r.hay
      /\ hechos' = [hechos EXCEPT ![h.m] = @ + 1] /\ respuestas' = respuestas
  BY DEF Opera, Sigue
<1>3. PICK q : q = De(h.m).pokemon
  OBVIOUS
<1> HIDE DEF g
<1>4. \A p : Ganancia(p)' = IF p = q /\ r.da = "OK" THEN Ganancia(p) \cup {premio} ELSE Ganancia(p)
  <2>1. \A p : Ganados(p)' = Ganados(p)
    BY <1>2 DEF Ganados
  <2>2. \A p : PorGanar(p)' = IF p = q /\ r.da = "OK" THEN PorGanar(p) \cup {premio} ELSE PorGanar(p)
    BY <1>1, <1>2, <1>3 DEF PorGanar
  <2>3. QED
    BY <2>1, <2>2 DEF Ganancia
<1> HIDE DEF premio
<1>5. ASSUME NEW p \in Pokemones
      PROVE  /\ IsFiniteSet(Ganancia(p)') /\ Cardinality(Ganancia(p)') \in Nat
             /\ Cardinality(Ganancia(p)') <=
                   Cardinality(Ganancia(p)) + IF p = q /\ r.da = "OK" THEN 1 ELSE 0
  <2>1. /\ IsFiniteSet(Ganancia(p) \cup {premio})
        /\ Cardinality(Ganancia(p) \cup {premio}) =
              IF premio \in Ganancia(p) THEN Cardinality(Ganancia(p))
              ELSE Cardinality(Ganancia(p)) + 1
    BY CountTypes, FS_AddElement
  <2>2. CASE p = q /\ r.da = "OK"
    <3>1. Ganancia(p)' = Ganancia(p) \cup {premio}
      BY <1>4, <2>2
    <3>2. QED
      BY <2>1, <2>2, <3>1, CountTypes
  <2>3. CASE ~ (p = q /\ r.da = "OK")
    <3>1. Ganancia(p)' = Ganancia(p)
      BY <1>4, <2>3
    <3>2. QED
      BY <2>3, <3>1, CountTypes
  <2>4. QED
    BY <2>2, <2>3
<1>6. ASSUME NEW p \in Pokemones
      PROVE  /\ Agregados(p)' \in Nat
             /\ Agregados(p) + (IF p = q /\ De(h.m).cola = "NEW" THEN De(h.m).cantidad ELSE 0)
                   <= Agregados(p)'
  <2>1. /\ Agregados(p) = SumFunctionOnSet(Aportes, Nuevos(p))
        /\ Agregados(p)' = SumFunctionOnSet(Aportes', Nuevos(p))
    BY DEF Agregados, Aportes, Nuevos, DeLaCola
  <2>2. ASSUME NEW m \in Ids
        PROVE  /\ Aportes'[m] \in Nat /\ Aportes[m] \in Nat /\ Aportes[m] <= Aportes'[m]
               /\ m = h.m => Aportes[m] + De(m).cantidad <= Aportes'[m]
    <3>1. De(m).cantidad \in Nat /\ hechos[m] \in Nat
      BY MessageFacts DEF Types
    <3>2. /\ Aportes[m] = De(m).cantidad * hechos[m]
          /\ Aportes'[m] = De(m).cantidad * hechos'[m]
          /\ hechos'[m] = IF m = h.m THEN hechos[m] + 1 ELSE hechos[m]
      BY <1>2 DEF Aportes, Types
    <3>3. /\ De(m).cantidad * (hechos[m] + 1) = De(m).cantidad * hechos[m] + De(m).cantidad
          /\ De(m).cantidad * hechos[m] \in Nat
      BY <3>1
    <3>4. QED
      BY <3>1, <3>2, <3>3
  <2>3. IsFiniteSet(Nuevos(p)) /\ Nuevos(p) \subseteq Ids
    BY CountTypes
  <2>4. SumFunctionOnSet(Aportes, Nuevos(p)) \in Nat /\ SumFunctionOnSet(Aportes', Nuevos(p)) \in Nat
    BY <2>2, <2>3, SumProperties
  <2>5. CASE p = q /\ De(h.m).cola = "NEW"
    <3>1. h.m \in Nuevos(p)
      BY <1>1, <1>3, <2>5 DEF Nuevos, DeLaCola
    <3>2. SumFunctionOnSet(Aportes, Nuevos(p)) + De(h.m).cantidad
             <= SumFunctionOnSet(Aportes', Nuevos(p))
      BY <1>1, <2>2, <2>3, <3>1, SumAdds
    <3>3. QED
      BY <2>1, <2>4, <2>5, <3>2
  <2>6. CASE ~ (p = q /\ De(h.m).cola = "NEW")
    <3>1. SumFunctionOnSet(Aportes, Nuevos(p)) <= SumFunctionOnSet(Aportes', Nuevos(p))
      BY <2>2, <2>3, SumMonotone
    <3>2. QED
      BY <2>1, <2>4, <2>6, <3>1
  <2>7. QED
    BY <2>5, <2>6
<1>7. ASSUME NEW p \in Pokemones
      PROVE  /\ HayDe(p)' \in Nat
             /\ HayDe(p)' + (IF p = q /\ r.da = "OK" THEN 1 ELSE 0)
                   <= HayDe(p) + (IF p = q /\ De(h.m).cola = "NEW" THEN De(h.m).cantidad ELSE 0)
  <2>1. \A s : HayDe(s) \in Nat
    BY DEF HayDe, Types
  <2>2. HayDe(p)' = IF p \in DOMAIN r.hay THEN r.hay[p] ELSE 0
    BY <1>2 DEF HayDe
  <2>3. CASE De(h.m).cola = "NEW"
    <3>1. r = procesarNew(h)
      BY <2>3 DEF Resultado
    <3>2. /\ r.da = "APPEARED"
          /\ r.hay = [s \in DOMAIN hay \cup {q} |-> HayDe(s) + IF s = q THEN De(h.m).cantidad ELSE 0]
      BY <1>3, <3>1 DEF procesarNew
    <3> HIDE DEF r
    <3>3. HayDe(p)' = HayDe(p) + IF p = q THEN De(h.m).cantidad ELSE 0
      BY <2>1, <2>2, <3>2 DEF HayDe
    <3>4. QED
      BY <1>1, <2>1, <2>3, <3>2, <3>3
  <2>4. CASE De(h.m).cola = "CATCH"
    <3>1. r = procesarCatch(h)
      BY <2>4 DEF Resultado
    <3>2. CASE HayDe(q) > 0
      <4>1. r.da = "OK" /\ r.hay = [hay EXCEPT ![q] = @ - 1]
        BY <1>3, <3>1, <3>2 DEF procesarCatch
      <4> HIDE DEF r
      <4>2. q \in DOMAIN hay /\ hay[q] = HayDe(q)
        BY <3>2 DEF HayDe
      <4>3. HayDe(p)' = IF p = q THEN HayDe(p) - 1 ELSE HayDe(p)
        BY <2>1, <2>2, <4>1, <4>2 DEF HayDe, Types
      <4>4. QED
        BY <2>1, <2>4, <3>2, <4>1, <4>3
    <3>3. CASE ~ (HayDe(q) > 0)
      <4>1. r.da = "FAIL" /\ r.hay = hay
        BY <1>3, <3>1, <3>3 DEF procesarCatch
      <4> HIDE DEF r
      <4>2. QED
        BY <2>1, <2>2, <2>4, <4>1 DEF HayDe
    <3>4. QED
      BY <3>2, <3>3
  <2>5. CASE De(h.m).cola = "GET"
    <3>1. r.hay = hay /\ r.da # "OK"
      BY <2>5 DEF Resultado, procesarGet
    <3> HIDE DEF r
    <3>2. QED
      BY <2>1, <2>2, <2>5, <3>1 DEF HayDe
  <2>6. QED
    BY <1>1, <2>3, <2>4, <2>5 DEF Colas
<1> HIDE DEF r
<1>8. ASSUME NEW p \in Pokemones
      PROVE  /\ IsFiniteSet(Ganancia(p)')
             /\ Cardinality(Ganancia(p)') + HayDe(p)' <= Agregados(p)' + HabiaDe(p)
  <2>1. Cardinality(Ganancia(p)) + HayDe(p) <= Agregados(p) + HabiaDe(p)
    BY DEF BackedInv
  <2>2. /\ HayDe(p) \in Nat /\ HabiaDe(p) \in Nat /\ Agregados(p) \in Nat
        /\ Cardinality(Ganancia(p)) \in Nat
    BY CountTypes
  <2>3. QED
    BY <1>1, <1>5, <1>6, <1>7, <2>1, <2>2
<1>9. QED
  BY <1>8 DEF BackedInv, HabiaDe

LEMMA BackedNext ==
    ASSUME Types, ThreadInv, BackedInv, Next PROVE BackedInv'
<1>1. Paso
  BY EveryStep
<1>2. ASSUME NEW m, NEW id, Hilo(m, id), UNCHANGED <<respuestas, archivos>> PROVE BackedInv'
  <2> DEFINE h == [m |-> m, id |-> id, n |-> creados[m], pc |-> "procesa", da |-> "-"]
  <2>1. hilos' = hilos \cup {h} /\ h.da = "-"
    BY <1>2 DEF Hilo
  <2> HIDE DEF h
  <2>2. \A p \in Pokemones : Ganancia(p)' \subseteq Ganancia(p)
    BY <1>2, <2>1 DEF Ganancia, Ganados, PorGanar
  <2>3. QED
    BY <1>2, <2>2, NoMoreWon DEF archivos
<1>3. ASSUME NEW c \in Colas, Crea(c) PROVE BackedInv'
  BY <1>2, <1>3 DEF Crea
<1>4. CASE atenderGameboy
  BY <1>2, <1>4 DEF atenderGameboy
<1>5. CASE CaeGameCard
  <2>1. hilos' = {} /\ UNCHANGED <<respuestas, archivos>>
    BY <1>5 DEF CaeGameCard
  <2>2. \A p \in Pokemones : Ganancia(p)' \subseteq Ganancia(p)
    BY <2>1 DEF Ganancia, Ganados, PorGanar
  <2>3. QED
    BY <2>1, <2>2, NoMoreWon DEF archivos
<1>6. ASSUME NEW h \in hilos, Opera(h, Resultado(h)) PROVE BackedInv'
  BY <1>6, BackedOpera
<1>7. ASSUME NEW h \in hilos, Responde(h) PROVE BackedInv'
  <2> DEFINE r == [id |-> h.id, m |-> h.m, n |-> h.n, da |-> h.da]
  <2>1. /\ hilos' = hilos \ {h} /\ respuestas' \subseteq respuestas \cup {r}
        /\ UNCHANGED archivos
    BY <1>7 DEF Responde
  <2>2. /\ r.m = h.m /\ r.da = h.da
        /\ \A p : De(h.m).pokemon = p /\ h.da = "OK" => r \in PorGanar(p)
    BY DEF PorGanar
  <2> HIDE DEF r
  <2>3. ASSUME NEW p \in Pokemones PROVE Ganancia(p)' \subseteq Ganancia(p)
    <3>1. PorGanar(p)' \subseteq PorGanar(p)
      BY <2>1 DEF PorGanar
    <3>2. Ganados(p)' \subseteq Ganancia(p)
      BY <2>1, <2>2 DEF Ganados, Ganancia
    <3>3. QED
      BY <3>1, <3>2 DEF Ganancia
  <2>4. QED
    BY <2>1, <2>3, NoMoreWon DEF archivos
<1>8. CASE UNCHANGED <<respuestas, hilos, archivos>>
  <2>1. \A p \in Pokemones : Ganancia(p)' \subseteq Ganancia(p)
    BY <1>8 DEF Ganancia, Ganados, PorGanar
  <2>2. QED
    BY <1>8, <2>1, NoMoreWon DEF archivos
<1>9. ASSUME NEW c \in Colas,
             Envia(c) \/ SeCorta(c) \/ subscribirseACola(c) \/ Recibe(c) \/ Confirma(c)
      PROVE  UNCHANGED <<respuestas, hilos, archivos>>
  BY <1>9 DEF Envia, SeCorta, subscribirseACola, Recibe, Confirma
<1>10. ASSUME (\E m \in Ids : Publica(m)) \/ CaeElBroker \/ LevantaElBroker
       PROVE  UNCHANGED <<respuestas, hilos, archivos>>
  BY <1>10 DEF Publica, CaeElBroker, LevantaElBroker
<1>11. QED
  BY <1>1, <1>3, <1>4, <1>5, <1>6, <1>7, <1>8, <1>9, <1>10 DEF Paso

-----------------------------------------------------------------------------

LEMMA InitHolds ==
    ASSUME Init PROVE IInv
<1> USE MessageFacts
<1>1. Types
  BY FS_EmptySet, ServerAssumption DEF Init, Types, Listeners, Vacios
<1>2. PipeInv /\ HeldInv /\ AckedIsAttended
  BY DEF Init, PipeInv, HeldInv, AckedIsAttended, Listeners, Vacios
<1>3. ThreadInv
  <2>1. \A m \in Ids : Procesan(m) = {}
    BY DEF Init, Procesan
  <2>2. \A m \in Ids : Cardinality(Procesan(m)) = 0
    BY <2>1, FS_EmptySet
  <2>3. QED
    BY <2>2 DEF Init, ThreadInv
<1>4. RepeatInv
  <2>1. ASSUME NEW m \in Ids PROVE Peso[m] = 0
    <3>1. creados[m] = 0 /\ ~ Vuelve(m) /\ ~ EnDuda(m)
      BY DEF Init, Vuelve, EnDuda
    <3>2. QED
      BY <3>1 DEF Peso
  <2>2. ASSUME NEW c \in Colas PROVE SumFunctionOnSet(Peso, DeLaCola(c)) = 0
    BY <2>1, DeLaColaFinite, SumOfZeros
  <2>3. QED
    BY <2>2 DEF Init, RepeatInv
<1>5. BackedInv
  <2>1. \A p : Ganancia(p) = {}
    BY DEF Init, Ganancia, Ganados, PorGanar
  <2>2. ASSUME NEW p \in Pokemones PROVE Agregados(p) = 0
    <3>1. IsFiniteSet(Nuevos(p)) /\ Nuevos(p) \subseteq Ids
      BY FS_Subset DEF Nuevos, DeLaCola
    <3>2. \A m \in Nuevos(p) : Aportes[m] = 0
      BY <3>1 DEF Init, Aportes
    <3>3. SumFunctionOnSet(Aportes, Nuevos(p)) = 0
      BY <3>1, <3>2, SumOfZeros
    <3>4. QED
      BY <3>3 DEF Agregados, Aportes, Nuevos
  <2>3. \A p : HayDe(p) = HabiaDe(p) /\ HabiaDe(p) \in Nat
    BY ServerAssumption DEF Init, HayDe, HabiaDe
  <2>4. QED
    BY <2>1, <2>2, <2>3, FS_EmptySet DEF BackedInv
<1>6. QED
  BY <1>1, <1>2, <1>3, <1>4, <1>5 DEF IInv, FlowInv

LEMMA Inductive ==
    ASSUME IInv, [Next]_vars PROVE IInv'
<1>1. CASE Next
  BY <1>1, TypesNext, PipeNext, HeldNext, ThreadNext, AckedNext, RepeatNext, BackedNext
  DEF IInv, FlowInv
<1>2. CASE UNCHANGED vars
  <2> USE <1>2 DEF vars, broker, escucha, archivos, fallas
  <2>1. Types' /\ PipeInv' /\ HeldInv' /\ AckedIsAttended'
    BY DEF IInv, FlowInv, Types, PipeInv, HeldInv, AckedIsAttended
  <2>2. ThreadInv'
    BY DEF IInv, FlowInv, ThreadInv, Procesan
  <2>3. RepeatInv'
    BY <2>1, NoNewRepeats DEF IInv, FlowInv, Vuelve, EnDuda, EnMano
  <2>4. BackedInv'
    BY NoMoreWon DEF IInv, FlowInv, Ganancia, Ganados, PorGanar
  <2>5. QED
    BY <2>1, <2>2, <2>3, <2>4 DEF IInv, FlowInv
<1>3. QED
  BY <1>1, <1>2

LEMMA InvariantHolds == Spec => []IInv
<1>1. Init => IInv
  BY InitHolds
<1>2. IInv /\ [Next]_vars => IInv'
  BY Inductive
<1>3. QED
  BY <1>1, <1>2, PTL DEF Spec

\* The repeats of a message are part of what it weighs.
LEMMA RepeatsWeighLess ==
    ASSUME Types, RepeatInv PROVE RepeatsAreBreaks
<1>1. SUFFICES ASSUME NEW c \in Colas
               PROVE  SumFunctionOnSet(Repeticiones, DeLaCola(c)) <= cortes[c]
  BY DEF RepeatsAreBreaks
<1>2. \A m \in Ids : /\ creados[m] \in Nat
                     /\ Peso[m] \in Nat /\ Repeticiones[m] \in Nat
                     /\ Repeticiones[m] <= Peso[m]
  BY DEF Types, Peso, Repeticiones
<1>3. /\ SumFunctionOnSet(Repeticiones, DeLaCola(c)) <= SumFunctionOnSet(Peso, DeLaCola(c))
      /\ SumFunctionOnSet(Repeticiones, DeLaCola(c)) \in Nat
      /\ SumFunctionOnSet(Peso, DeLaCola(c)) \in Nat
  BY <1>2, DeLaColaFinite, SumMonotone, SumProperties
<1>4. SumFunctionOnSet(Peso, DeLaCola(c)) <= cortes[c] /\ cortes[c] \in Nat
  BY DEF Types, RepeatInv
<1>5. QED
  BY <1>3, <1>4

\* An acknowledged message is processed, or was cut short by an end of the GameCard, and
\* its repeats are no more than the breaks of its connection (server.c:35-73): for any
\* messages, breaks and ends of the two processes.
THEOREM AcknowledgedIsProcessed == Spec => []Attended
<1>1. ASSUME IInv PROVE Attended
  <2>1. \A m \in Ids : hechos[m] <= creados[m]
    <3>1. SUFFICES ASSUME NEW m \in Ids PROVE hechos[m] <= creados[m]
      OBVIOUS
    <3>2. hechos[m] \in Nat /\ creados[m] \in Nat /\ Cardinality(Procesan(m)) \in Nat
      BY <1>1, ProcesanType DEF IInv, FlowInv, Types
    <3>3. QED
      BY <1>1, <3>2 DEF IInv, FlowInv, ThreadInv
  <2>2. TypeOK
    BY <1>1, <2>1 DEF IInv, FlowInv, Types, PipeInv, ThreadInv, TypeOK
  <2>3. RepeatsAreBreaks
    BY <1>1, RepeatsWeighLess DEF IInv, FlowInv
  <2>4. QED
    BY <1>1, <2>2, <2>3 DEF IInv, FlowInv, Attended
<1>2. QED
  BY <1>1, InvariantHolds, PTL

\* No pokemon is given twice, however often a CATCH is repeated and whatever becomes of
\* its answer (server.c:174-221): for any messages, files, breaks and ends.
THEOREM NothingGivenTwice == Spec => []CatchesAreBacked
<1>1. ASSUME IInv PROVE CatchesAreBacked
  <2>1. SUFFICES ASSUME NEW p \in Pokemones
                 PROVE  Cardinality(Ganados(p)) + HayDe(p) <= Agregados(p) + HabiaDe(p)
    BY DEF CatchesAreBacked
  <2>2. /\ HayDe(p) \in Nat /\ HabiaDe(p) \in Nat /\ Agregados(p) \in Nat
        /\ IsFiniteSet(Ganancia(p)) /\ Cardinality(Ganancia(p)) \in Nat
    BY <1>1, CountTypes DEF IInv, FlowInv
  <2>3. /\ IsFiniteSet(Ganados(p)) /\ Cardinality(Ganados(p)) <= Cardinality(Ganancia(p))
        /\ Cardinality(Ganados(p)) \in Nat
    <3>1. Ganados(p) \subseteq Ganancia(p)
      BY DEF Ganancia
    <3>2. QED
      BY <2>2, <3>1, FS_Subset, FS_CardinalityType
  <2>4. Cardinality(Ganancia(p)) + HayDe(p) <= Agregados(p) + HabiaDe(p)
    BY <1>1 DEF IInv, BackedInv
  <2>5. QED
    BY <2>2, <2>3, <2>4
<1>2. QED
  BY <1>1, InvariantHolds, PTL

-----------------------------------------------------------------------------
(***************************************************************************)
(* The files. TallGrass is a specification of its own: Files is a copy of  *)
(* it with the constants and the variables below, and what its ASSUME says *)
(* of them is a hypothesis here.                                           *)
(***************************************************************************)

CONSTANTS Threads, Pokemons, Existing, Coordinates, Tasks, NumberOfBlocks,
          BlockSize, LineLength, MaxCrashes

VARIABLES bitmap, disk, files, semaphores, task, pc, mine, result, deaths,
          cutShort

Files == INSTANCE TallGrass

\* Of the messages, one at most is a New for a pokemon that has no file yet.
OneCreator(messages) ==
    \A t, u \in Threads :
        /\ messages[t].op = "NEW" /\ messages[u].op = "NEW"
        /\ messages[t].pokemon = messages[u].pokemon
        /\ messages[t].pokemon \notin Existing
        => t = u

Locations == {"start", "create", "register", "access", "opened", "allocate",
              "restore", "free", "dumped", "size", "close", "done", "lost"}

FileTypes ==
    /\ task \in Tasks
    /\ pc \in [Threads -> Locations]
    /\ DOMAIN files = Pokemons
    /\ \A p \in Pokemons : DOMAIN files[p] = {"exists", "open", "blocks", "size"}

\* A file is created once, by the one thread that is about to, and there is
\* one from then on.
FileInv ==
    /\ \A p \in Existing : files[p].exists
    /\ \A t \in Threads :
          /\ pc[t] = "create" => Files!Op(t) = "NEW" /\ ~Files!File(t).exists
          /\ pc[t] \in {"register", "access"} => Files!File(t).exists
          /\ Files!Inside(t) => Files!File(t).exists /\ Files!File(t).open

\* The flag of a file is set while a thread is inside, and that thread alone.
FileSystemInv == FileTypes /\ FileInv /\ Files!OneInside

-----------------------------------------------------------------------------

\* Being inside is a matter of where the thread is.
LEMMA InsideNext ==
    ASSUME NEW t
    PROVE  Files!Inside(t)' <=> pc'[t] \notin {"start", "create", "register", "access", "done", "lost"}
BY DEF Files!Inside

\* A thread that is inside, and stays there, leaves the flags as they are.
LEMMA StaysInside ==
    ASSUME Files!TallGrassAssumption, FileSystemInv, NEW t \in Threads, Files!Inside(t), UNCHANGED task,
           NEW location \in Locations, pc' = [pc EXCEPT ![t] = location],
           location \notin {"start", "create", "register", "access", "done", "lost"},
           DOMAIN files' = Pokemons,
           \A p \in Pokemons : /\ DOMAIN files'[p] = DOMAIN files[p]
                               /\ files'[p].exists = files[p].exists
                               /\ files'[p].open = files[p].open
    PROVE  FileSystemInv'
<1>1. FileTypes'
  BY DEF FileSystemInv, FileTypes
<1>2. \A u \in Threads : Files!Inside(u)' <=> Files!Inside(u)
  BY DEF FileSystemInv, FileTypes, Files!Inside
<1>3. \A u \in Threads : Files!Pokemon(u) \in Pokemons
  BY Files!TallGrassAssumption DEF FileSystemInv, FileTypes, Files!Task, Files!Pokemon
<1>4. FileInv'
  BY <1>2, <1>3, Files!TallGrassAssumption DEF FileSystemInv, FileTypes, FileInv, Files!File, Files!Pokemon, Files!Op
<1>5. Files!OneInside'
  BY <1>2 DEF FileSystemInv, Files!OneInside, Files!Pokemon
<1>6. QED
  BY <1>1, <1>4, <1>5 DEF FileSystemInv

LEMMA InitFileSystemInv ==
    ASSUME Files!TallGrassAssumption
    PROVE  Files!Init => FileSystemInv
BY Files!TallGrassAssumption DEF Files!Init, FileSystemInv, FileTypes, Locations, FileInv, Files!OneInside, Files!Inside, Files!EmptyFile, Files!NoFile

\* Nobody is inside when the process starts again.
LEMMA DieFileSystemInv ==
    ASSUME Files!TallGrassAssumption
    PROVE  FileSystemInv /\ Files!Die => FileSystemInv'
<1> SUFFICES ASSUME FileSystemInv, Files!Die PROVE FileSystemInv'
  OBVIOUS
<1>1. /\ UNCHANGED task
      /\ \A t \in Threads : pc'[t] \in {"start", "done", "lost"}
      /\ pc' \in [Threads -> Locations]
      /\ files' = [p \in Pokemons |-> Files!Closed(files[p])]
  BY DEF Files!Die, FileSystemInv, FileTypes, Locations
<1>2. \A p \in Pokemons : DOMAIN files'[p] = DOMAIN files[p] /\ files'[p].exists = files[p].exists
  BY <1>1 DEF Files!Closed, FileSystemInv, FileTypes
<1>3. FileTypes'
  BY <1>1, <1>2 DEF FileSystemInv, FileTypes
<1>4. \A t \in Threads : ~Files!Inside(t)' /\ pc'[t] \notin {"create", "register", "access"}
  BY <1>1 DEF Files!Inside
<1>5. FileInv' /\ Files!OneInside'
  BY <1>2, <1>4, Files!TallGrassAssumption DEF FileSystemInv, FileInv, Files!OneInside
<1>6. QED
  BY <1>3, <1>5 DEF FileSystemInv

LEMMA StepFileSystemInv ==
    ASSUME Files!TallGrassAssumption, FileSystemInv, OneCreator(task), NEW t \in Threads, Files!Step(t)
    PROVE  FileSystemInv'
<1> USE DEF Files!Goto
<1>1. /\ \A u \in Threads : Files!Pokemon(u) \in Pokemons
      /\ pc \in [Threads -> Locations]
  BY Files!TallGrassAssumption DEF FileSystemInv, FileTypes, Files!Task, Files!Pokemon
<1>2. CASE Files!Start(t)
  <2>1. UNCHANGED <<task, files>> /\ \E l \in {"access", "create", "done"} :
              /\ pc' = [pc EXCEPT ![t] = l]
              /\ l = "create" => Files!Op(t) = "NEW" /\ ~Files!File(t).exists
              /\ l = "access" => Files!File(t).exists
    BY <1>2 DEF Files!Start
  <2>2. FileTypes'
    BY <2>1 DEF FileSystemInv, FileTypes, Locations
  <2>3. \A u \in Threads : /\ Files!Inside(u)' => Files!Inside(u)
                           /\ pc'[u] = "create" => Files!Op(u) = "NEW" /\ ~Files!File(u).exists
                           /\ pc'[u] \in {"register", "access"} => Files!File(u).exists
    BY <1>1, <2>1 DEF Files!Inside, FileSystemInv, FileInv
  <2>4. FileInv' /\ Files!OneInside'
    BY <2>1, <2>3 DEF FileSystemInv, FileInv, Files!OneInside, Files!Pokemon, Files!File, Files!Op
  <2>5. QED
    BY <2>2, <2>4 DEF FileSystemInv
<1>3. CASE Files!crearPokemon(t)
  <2>1. /\ UNCHANGED task /\ pc[t] = "create"
        /\ pc' = [pc EXCEPT ![t] = "register"]
        /\ files' = [files EXCEPT ![Files!Pokemon(t)] = Files!EmptyFile]
        /\ Files!Op(t) = "NEW" /\ ~Files!File(t).exists
    BY <1>3 DEF Files!crearPokemon, FileSystemInv, FileInv
  <2>2. FileTypes'
    BY <2>1 DEF FileSystemInv, FileTypes, Locations, Files!EmptyFile
  <2>3. \A u \in Threads : /\ Files!Inside(u)' <=> Files!Inside(u)
                           /\ Files!Inside(u) => Files!Pokemon(u) # Files!Pokemon(t)
    BY <1>1, <2>1 DEF Files!Inside, FileSystemInv, FileInv, Files!File
  <2>4. Files!Pokemon(t) \notin Existing
    BY <2>1 DEF FileSystemInv, FileInv, Files!File
  <2>5. \A u \in Threads : pc'[u] = "create" => pc[u] = "create" /\ Files!Pokemon(u) # Files!Pokemon(t)
    BY <1>1, <2>1, <2>4 DEF OneCreator, Files!Op, Files!Pokemon, FileSystemInv, FileInv
  <2>6. \A p \in Pokemons : files'[p] = IF p = Files!Pokemon(t) THEN Files!EmptyFile ELSE files[p]
    BY <2>1 DEF FileSystemInv, FileTypes
  <2>7. FileInv'
    <3>1. \A p \in Existing : files'[p].exists
      BY <2>4, <2>6, Files!TallGrassAssumption DEF FileSystemInv, FileInv
    <3>2. \A u \in Threads :
             /\ pc'[u] = "create" => Files!Op(u)' = "NEW" /\ ~Files!File(u)'.exists
             /\ pc'[u] \in {"register", "access"} => Files!File(u)'.exists
             /\ Files!Inside(u)' => Files!File(u)'.exists /\ Files!File(u)'.open
      BY <1>1, <2>1, <2>3, <2>5, <2>6 DEF FileSystemInv, FileInv, Files!File, Files!Op, Files!Pokemon, Files!EmptyFile
    <3>3. QED
      BY <3>1, <3>2 DEF FileInv
  <2>8. Files!OneInside'
    BY <2>1, <2>3 DEF FileSystemInv, Files!OneInside, Files!Pokemon
  <2>9. QED
    BY <2>2, <2>7, <2>8 DEF FileSystemInv
<1>4. CASE Files!agregarSemaforoALista(t)
  <2>1. UNCHANGED <<task, files>> /\ pc' = [pc EXCEPT ![t] = "access"]
    BY <1>4 DEF Files!agregarSemaforoALista
  <2>2. FileTypes'
    BY <2>1 DEF FileSystemInv, FileTypes, Locations
  <2>3. \A u \in Threads : /\ Files!Inside(u)' => Files!Inside(u)
                           /\ pc'[u] = "create" => pc[u] = "create"
                           /\ pc'[u] \in {"register", "access"} => pc[u] \in {"register", "access"}
    BY <1>1, <2>1, <1>4 DEF Files!Inside, Files!agregarSemaforoALista
  <2>4. FileInv' /\ Files!OneInside'
    BY <2>1, <2>3 DEF FileSystemInv, FileInv, Files!OneInside, Files!Pokemon, Files!File, Files!Op
  <2>5. QED
    BY <2>2, <2>4 DEF FileSystemInv
<1>5. CASE Files!puedeAccederAArchivo(t)
  <2>1. /\ UNCHANGED task /\ pc[t] = "access"
        /\ pc' = [pc EXCEPT ![t] = "opened"]
        /\ files' = [files EXCEPT ![Files!Pokemon(t)].open = TRUE]
        /\ Files!File(t).exists /\ ~Files!File(t).open
    BY <1>5 DEF Files!puedeAccederAArchivo, Files!estaAbierto, Files!File, FileSystemInv, FileInv
  <2>2. \A p \in Pokemons : /\ DOMAIN files'[p] = DOMAIN files[p]
                            /\ files'[p].exists = files[p].exists
                            /\ files'[p].open = IF p = Files!Pokemon(t) THEN TRUE ELSE files[p].open
    BY <1>1, <2>1 DEF FileSystemInv, FileTypes
  <2>3. FileTypes'
    BY <2>1, <2>2 DEF FileSystemInv, FileTypes, Locations
  <2>4. \A u \in Threads : /\ Files!Inside(u)' <=> Files!Inside(u) \/ u = t
                           /\ Files!Inside(u) => Files!Pokemon(u) # Files!Pokemon(t)
                           /\ u # t => pc'[u] = pc[u]
    BY <1>1, <2>1 DEF Files!Inside, FileSystemInv, FileInv, Files!File
  <2>5. FileInv'
    <3>1. \A p \in Existing : files'[p].exists
      BY <2>2, Files!TallGrassAssumption DEF FileSystemInv, FileInv
    <3>2. \A u \in Threads :
             /\ pc'[u] = "create" => Files!Op(u)' = "NEW" /\ ~Files!File(u)'.exists
             /\ pc'[u] \in {"register", "access"} => Files!File(u)'.exists
      BY <1>1, <2>1, <2>2, <2>4 DEF FileSystemInv, FileInv, Files!File, Files!Op, Files!Pokemon
    <3>3. \A u \in Threads : Files!Inside(u)' => files'[Files!Pokemon(u)].exists /\ files'[Files!Pokemon(u)].open
      BY <1>1, <2>1, <2>2, <2>4, ZenonT(40) DEF FileSystemInv, FileInv, Files!File
    <3>4. QED
      BY <2>1, <3>1, <3>2, <3>3 DEF FileInv, Files!File, Files!Pokemon
  <2>6. Files!OneInside'
    BY <2>1, <2>4 DEF FileSystemInv, Files!OneInside, Files!Pokemon
  <2>7. QED
    BY <2>3, <2>5, <2>6 DEF FileSystemInv
<1>6. CASE Files!cerrarArchivo(t)
  <2>1. /\ UNCHANGED task /\ Files!Inside(t)
        /\ pc' = [pc EXCEPT ![t] = "done"]
        /\ files' = [files EXCEPT ![Files!Pokemon(t)].open = FALSE]
    BY <1>6 DEF Files!cerrarArchivo, Files!Inside
  <2>2. \A p \in Pokemons : /\ DOMAIN files'[p] = DOMAIN files[p]
                            /\ files'[p].exists = files[p].exists
                            /\ p # Files!Pokemon(t) => files'[p].open = files[p].open
    BY <1>1, <2>1 DEF FileSystemInv, FileTypes
  <2>3. FileTypes'
    BY <2>1, <2>2 DEF FileSystemInv, FileTypes, Locations
  <2>4. \A u \in Threads : /\ Files!Inside(u)' => Files!Inside(u) /\ Files!Pokemon(u) # Files!Pokemon(t)
                           /\ pc'[u] \in {"create", "register", "access"} => pc'[u] = pc[u]
    BY <1>1, <2>1 DEF Files!Inside, FileSystemInv, Files!OneInside
  <2>5. FileInv'
    <3>1. \A p \in Existing : files'[p].exists
      BY <2>2, Files!TallGrassAssumption DEF FileSystemInv, FileInv
    <3>2. \A u \in Threads :
             /\ pc'[u] = "create" => Files!Op(u)' = "NEW" /\ ~Files!File(u)'.exists
             /\ pc'[u] \in {"register", "access"} => Files!File(u)'.exists
             /\ Files!Inside(u)' => Files!File(u)'.exists /\ Files!File(u)'.open
      BY <1>1, <2>1, <2>2, <2>4 DEF FileSystemInv, FileInv, Files!File, Files!Op, Files!Pokemon
    <3>3. QED
      BY <3>1, <3>2 DEF FileInv
  <2>6. Files!OneInside'
    BY <2>1, <2>4 DEF FileSystemInv, Files!OneInside, Files!Pokemon
  <2>7. QED
    BY <2>3, <2>5, <2>6 DEF FileSystemInv
<1>7. CASE \/ Files!ReadNew(t) \/ Files!DiskFull(t) \/ Files!Restored(t) \/ Files!ReadCatch(t) \/ Files!dumpearArchivo(t)
           \/ Files!ReadGet(t)
  <2>1. \E l \in Locations \ {"start", "create", "register", "access", "done", "lost"} :
           pc' = [pc EXCEPT ![t] = l]
    BY <1>7 DEF Files!ReadNew, Files!DiskFull, Files!Restored, Files!ReadCatch, Files!dumpearArchivo, Files!ReadGet, Locations
  <2>2. Files!Inside(t) /\ UNCHANGED <<task, files>>
    BY <1>7 DEF Files!ReadNew, Files!DiskFull, Files!Restored, Files!ReadCatch, Files!dumpearArchivo, Files!ReadGet, Files!Inside
  <2>3. QED
    BY <2>1, <2>2, StaysInside DEF FileSystemInv, FileTypes
<1>8. CASE Files!asignarBloqueLibre(t) \/ Files!Restore(t) \/ Files!Free(t)
  <2>1. Files!Inside(t) /\ UNCHANGED <<task, files, pc>>
    BY <1>8 DEF Files!asignarBloqueLibre, Files!Restore, Files!Free, Files!liberarBloque, Files!Inside
  <2>2. pc' = [pc EXCEPT ![t] = pc[t]] /\ pc[t] \in Locations
    BY <1>1, <2>1
  <2>3. QED
    BY <2>1, <2>2, StaysInside DEF FileSystemInv, FileTypes, Files!Inside
<1>9. CASE Files!SetBlocks(t) \/ Files!SetSize(t)
  <2>1. Files!Inside(t) /\ UNCHANGED task
    BY <1>9 DEF Files!SetBlocks, Files!SetSize, Files!Inside
  <2>2. \E l \in {"size", "close"} : pc' = [pc EXCEPT ![t] = l]
    BY <1>9 DEF Files!SetBlocks, Files!SetSize
  <2>3. /\ DOMAIN files' = Pokemons
        /\ \A p \in Pokemons : /\ DOMAIN files'[p] = DOMAIN files[p]
                               /\ files'[p].exists = files[p].exists
                               /\ files'[p].open = files[p].open
    BY <1>1, <1>9 DEF Files!SetBlocks, Files!SetSize, FileSystemInv, FileTypes
  <2>4. QED
    BY <2>1, <2>2, <2>3, StaysInside DEF Locations
<1>10. CASE Files!SemaphoreMissing(t)
  BY <1>10, DieFileSystemInv DEF Files!SemaphoreMissing
<1>11. QED
  BY <1>2, <1>3, <1>4, <1>5, <1>6, <1>7, <1>8, <1>9, <1>10 DEF Files!Step

\* One thread at a time is between puedeAccederAArchivo and cerrarArchivo of a
\* file (fileSystem.c:119), also when the process dies and finds the flags of
\* its files set: as long as no two messages create the same file.
THEOREM OneThreadInside ==
    ASSUME Files!TallGrassAssumption, \A messages \in Tasks : OneCreator(messages)
    PROVE  Files!Spec => []Files!OneInside
<1>1. FileSystemInv /\ [Files!Next]_(Files!vars) => FileSystemInv'
  <2> SUFFICES ASSUME FileSystemInv, [Files!Next]_(Files!vars) PROVE FileSystemInv'
    OBVIOUS
  <2>1. CASE UNCHANGED Files!vars
    BY <2>1 DEF Files!vars, FileSystemInv, FileTypes, FileInv, Files!OneInside, Files!Inside, Files!File, Files!Pokemon, Files!Op
  <2>2. CASE Files!Next
    <3>1. OneCreator(task)
      BY DEF FileSystemInv, FileTypes
    <3>2. QED
      BY <2>2, <3>1, StepFileSystemInv, DieFileSystemInv DEF Files!Next, Files!Crash
  <2>3. QED
    BY <2>1, <2>2
<1>2. FileSystemInv => Files!OneInside
  BY DEF FileSystemInv
<1>3. QED
  BY <1>1, <1>2, InitFileSystemInv, PTL DEF Files!Spec

=============================================================================
