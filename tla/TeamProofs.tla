----------------------------- MODULE TeamProofs -----------------------------
(***************************************************************************)
(* Every message the Team acknowledges is left to a thread, and an answer  *)
(* is processed once, for any messages, requests and broken connections.   *)
(* And each exchange at the end leaves the Team with less to get: for any  *)
(* team, species and distribution of the captured pokemons.                *)
(***************************************************************************)
EXTENDS TeamEvents, CollectionProofs, FiniteSetTheorems

\* The thread of a message.
Hilo == [m : Ids, n : 0 .. MaxCortes,
         pc : {"filtra", "get", "catch", "mira", "tira", "agrega", "enlaza", "suma", "guarda",
               "entrega", "fin", "muere"},
         visto : (Ids \X Nat) \cup {SinNodo}, cuenta : Nat, dados : Nat]

\* TypeOK and the rest of the types.
Types ==
    /\ llegan \subseteq Ids /\ publicados \subseteq llegan /\ confirmados \subseteq publicados
    /\ pedidos \subseteq Necesarios /\ catchEnEspera \subseteq Catches
    /\ porEnviar \in [Colas -> SUBSET Ids] /\ enVuelo \in [Colas -> Ids \cup {Nada}]
    /\ conectado \subseteq Colas /\ cortes \in 0 .. MaxCortes
    /\ pcL \in [Colas -> {"suscribe", "recibe", "confirma", "lanza"}]
    /\ recibido \in [Colas -> Ids \cup {Nada}]
    /\ hilos \subseteq Hilo /\ IsFiniteSet(hilos)
    /\ \A h \in hilos : h.dados <= De(h.m).lugares
    /\ recibidos \in Seq(Ids \X Nat) /\ elementos \in Nat

\* What a connection carries is not acknowledged yet, is carried once, and ends with it.
PipeInv ==
    \A c \in Colas :
        /\ \A m \in porEnviar[c] : m \in publicados \ confirmados /\ De(m).cola = c
        /\ enVuelo[c] # Nada => /\ enVuelo[c] \in publicados \ confirmados
                                /\ De(enVuelo[c]).cola = c
        /\ enVuelo[c] \notin porEnviar[c]
        /\ porEnviar[c] # {} \/ enVuelo[c] # Nada => c \in conectado
        /\ pcL[c] = "suscribe" => c \notin conectado
        /\ pcL[c] = "confirma" => /\ recibido[c] \in publicados \ confirmados
                                  /\ De(recibido[c]).cola = c
                                  /\ c \in conectado => enVuelo[c] = recibido[c]
        /\ pcL[c] = "lanza" => recibido[c] \in publicados /\ De(recibido[c]).cola = c

\* A message is received again only after a connection broke, and not once it is
\* acknowledged. The end of the process breaks them all, and nothing is received then.
Repite(c) ==
    /\ recibido[c] \notin confirmados
    /\ pcL[c] = "lanza" \/ (pcL[c] = "confirma" /\ c \notin conectado)

CopyInv ==
    /\ \A m \in Ids : m \notin confirmados /\ De(m).cola \in Colas => Cardinality(Copias(m)) <= cortes
    /\ \A c \in Colas : Vive /\ Repite(c) => Cardinality(Copias(recibido[c])) < cortes
    /\ \A c \in Colas : pcL[c] = "lanza" => Cardinality(Copias(recibido[c])) <= cortes

NodeInv == ToSet(recibidos) \subseteq {Nodo(h) : h \in hilos}

BaseInv == Types /\ PipeInv /\ CopyInv /\ NodeInv /\ AckedIsProcessed

-----------------------------------------------------------------------------

\* The thread of an answer that found what it answers.
Encontro(h) ==
    /\ De(h.m).cola \in {"LOCALIZED", "CAUGHT"}
    /\ h.pc \in {"mira", "agrega", "enlaza", "suma", "guarda", "entrega"} \/ h.dados > 0

\* What was found is not in the list any more and does not come back.
FoundInv ==
    /\ getEnEspera \subseteq pedidas /\ pedidas \subseteq Necesarios /\ pcGet \subseteq Necesarios
    /\ pcGet \cap pedidas = {}
    /\ \A h \in hilos : Encontro(h) =>
          /\ De(h.m).cola = "LOCALIZED" => De(h.m).id \in pedidas \ getEnEspera
          /\ De(h.m).cola = "CAUGHT" => De(h.m).id \in Catches \ catchEnEspera
    /\ \A h, g \in hilos : Encontro(h) /\ Encontro(g) /\ De(h.m).id = De(g.m).id => h = g

-----------------------------------------------------------------------------

\* A thread is named by its message and its number.
NameInv ==
    /\ \A h, g \in hilos : Nodo(h) = Nodo(g) => h = g
    /\ \A h \in hilos : h.n < Cardinality(Copias(h.m))

\* The threads that added their node and counted it. A count is written by a thread that
\* read a smaller one, so that it is never more than there are of them; unless a node was
\* lost, each has its own in the list.
Contado(h) == h.visto = Nodo(h) /\ h.pc \notin {"enlaza", "suma", "guarda"}
Contados == {h \in hilos : Contado(h)}

ListInv ==
    /\ elementos <= Cardinality(Contados)
    /\ \A h \in hilos :
          /\ h.pc \in {"filtra", "get", "catch", "mira", "tira", "agrega"} => h.visto = SinNodo
          /\ h.pc \in {"suma", "guarda"} => h.visto = Nodo(h)
          /\ h.pc = "guarda" => h.cuenta <= Cardinality(Contados) + 1
    /\ DiesOfLostNode

IInv == BaseInv /\ FoundInv /\ NameInv /\ ListInv

-----------------------------------------------------------------------------

LEMMA MessageFacts ==
    /\ \A m \in Ids : /\ De(m).cola \in Colas \cup {"GAMEBOY"} /\ De(m).lugares \in Nat
                      /\ De(m).id \in Necesarios \cup Catches \cup {SinId}
                      /\ De(m).id \in Necesarios => De(m).especie = De(m).id
    /\ Ids \subseteq Nat \ {0} /\ Nada \notin Ids
    /\ \A conjunto \in Conjuntos : conjunto \subseteq Ids
    /\ MaxCortes \in Nat /\ "GAMEBOY" \notin Colas
<1> DEFINE Mensaje == [cola : Colas \cup {"GAMEBOY"}, especie : STRING, lugares : Nat,
                       id : Necesarios \cup Catches \cup {SinId}]
<1>1. Mensajes \in Seq(Mensaje)
  BY EventsAssumption
<1>2. Ids = 1 .. Len(Mensajes) /\ Len(Mensajes) \in Nat
  BY <1>1, LenProperties DEF Ids
<1>3. \A m \in Ids : De(m) \in Mensaje
  BY <1>1, <1>2, ElementOfSeq DEF De
<1>4. QED
  BY <1>2, <1>3, EventsAssumption DEF De, Ids, Nada, Colas

\* What list_add keeps was there.
LEMMA HastaProperties ==
    ASSUME Types, NEW nodo \in ToSet(recibidos) \cup {SinNodo}
    PROVE  Hasta(nodo) \in Seq(Ids \X Nat) /\ ToSet(Hasta(nodo)) \subseteq ToSet(recibidos)
<1>1. /\ recibidos \in Seq(Ids \X Nat) /\ Len(recibidos) \in Nat
      /\ DOMAIN recibidos = 1 .. Len(recibidos)
      /\ \A i \in 1 .. Len(recibidos) : recibidos[i] \in Ids \X Nat
  BY LenProperties, ElementOfSeq DEF Types
<1>2. CASE nodo = SinNodo
  <2>1. Hasta(nodo) = << >>
    BY <1>2 DEF Hasta
  <2>2. QED
    BY <2>1, EmptySeq DEF ToSet
<1>3. CASE nodo # SinNodo
  <2> DEFINE I == {i \in 1 .. Len(recibidos) : recibidos[i] = nodo}
             k == SelectInSeq(recibidos, LAMBDA n : n = nodo)
  <2>1. I \in SUBSET Nat /\ I # {}
    BY <1>1, <1>3 DEF ToSet
  <2>2. k = Min(I)
    BY <2>1 DEF SelectInSeq
  <2> HIDE DEF k
  <2>3. k \in 1 .. Len(recibidos)
    <3>1. Min(I) \in I
      BY <2>1, MinProperties
    <3>2. QED
      BY <2>2, <3>1
  <2>4. Hasta(nodo) = SubSeq(recibidos, 1, k)
    BY <1>3 DEF Hasta, k
  <2>5. /\ SubSeq(recibidos, 1, k) \in Seq(Ids \X Nat)
        /\ Len(SubSeq(recibidos, 1, k)) = k
        /\ \A i \in 1 .. k : SubSeq(recibidos, 1, k)[i] = recibidos[i]
    <3>1. \A i \in 1 .. k : recibidos[i] \in Ids \X Nat
      BY <1>1, <2>3
    <3>2. /\ SubSeq(recibidos, 1, k) \in Seq(Ids \X Nat)
          /\ Len(SubSeq(recibidos, 1, k)) = IF 1 <= k THEN k - 1 + 1 ELSE 0
          /\ \A i \in 1 .. k - 1 + 1 : SubSeq(recibidos, 1, k)[i] = recibidos[1 + i - 1]
      BY <1>1, <2>3, <3>1, SubSeqProperties
    <3>3. QED
      BY <2>3, <3>2
  <2>6. DOMAIN SubSeq(recibidos, 1, k) = 1 .. k
    BY <2>5, LenProperties
  <2>7. QED
    BY <1>1, <2>3, <2>4, <2>5, <2>6 DEF ToSet
<1>4. QED
  BY <1>2, <1>3

\* A thread goes on: there are no more threads of a message than there were.
LEMMA CopiasSigue ==
    ASSUME Types, NEW h \in hilos, NEW g, g.m = h.m, Sigue(h, g), NEW m \in Ids
    PROVE  /\ IsFiniteSet(Copias(m)) /\ IsFiniteSet(Copias(m)')
           /\ Cardinality(Copias(m)) \in Nat /\ Cardinality(Copias(m)') \in Nat
           /\ Cardinality(Copias(m)') <= Cardinality(Copias(m))
           /\ Copias(m) # {} => Copias(m)' # {}
<1>1. IsFiniteSet(Copias(m)) /\ Cardinality(Copias(m)) \in Nat
  BY FS_Subset, FS_CardinalityType DEF Types, Copias
<1>2. CASE m # h.m
  <2>1. Copias(m)' = Copias(m)
    BY <1>2 DEF Copias, Sigue
  <2>2. QED
    BY <1>1, <2>1
<1>3. CASE m = h.m
  <2> DEFINE rest == Copias(m) \ {h}
  <2>1. Copias(m)' = rest \cup {g} /\ h \in Copias(m)
    BY <1>3 DEF Copias, Sigue
  <2>2. IsFiniteSet(rest) /\ Cardinality(rest) = Cardinality(Copias(m)) - 1
    BY <1>1, <2>1, FS_RemoveElement
  <2> HIDE DEF rest
  <2>3. /\ IsFiniteSet(rest \cup {g})
        /\ Cardinality(rest \cup {g}) = Cardinality(rest) \/ Cardinality(rest \cup {g}) = Cardinality(rest) + 1
    BY <2>2, FS_AddElement
  <2>4. QED
    BY <1>1, <2>1, <2>2, <2>3, FS_CardinalityType
<1>4. QED
  BY <1>2, <1>3

LEMMA InitBase == Init => BaseInv
<1> SUFFICES ASSUME Init PROVE BaseInv
  OBVIOUS
<1> USE MessageFacts DEF Init
<1>1. Types
  <2>1. recibidos \in Seq(Ids \X Nat)
    BY EmptySeq
  <2>2. IsFiniteSet(hilos)
    BY FS_EmptySet
  <2>3. QED
    BY <2>1, <2>2 DEF Types
<1>2. PipeInv
  BY DEF PipeInv
<1>3. CopyInv
  <2>1. \A m \in Ids : Copias(m) = {} /\ Cardinality(Copias(m)) = 0
    BY FS_EmptySet DEF Copias
  <2>2. QED
    BY <2>1 DEF CopyInv, Repite
<1>4. NodeInv /\ AckedIsProcessed
  BY DEF NodeInv, AckedIsProcessed, ToSet
<1>5. QED
  BY <1>1, <1>2, <1>3, <1>4 DEF BaseInv

\* The thread of a message goes on, or ends the process.
LEMMA SigueBase ==
    ASSUME BaseInv, Vive, NEW h \in hilos, NEW g \in Hilo, Sigue(h, g),
           g.m = h.m, g.n = h.n, g.dados <= De(h.m).lugares,
           UNCHANGED <<broker, cortes, escucha>>,
           \/ UNCHANGED conexion
           \/ /\ g.pc = "muere" /\ conectado' = {}
              /\ enVuelo' = [c \in Colas |-> Nada] /\ porEnviar' = [c \in Colas |-> {}],
           catchEnEspera' \subseteq catchEnEspera, elementos' \in Nat,
           recibidos' \in Seq(Ids \X Nat),
           ToSet(recibidos') \subseteq ToSet(recibidos) \cup {Nodo(h)}
    PROVE  BaseInv'
<1> USE DEF BaseInv, broker, escucha
<1>1. \A m \in Ids : /\ Cardinality(Copias(m)) \in Nat /\ Cardinality(Copias(m)') \in Nat
                     /\ Cardinality(Copias(m)') <= Cardinality(Copias(m))
                     /\ Copias(m) # {} => Copias(m)' # {}
  BY CopiasSigue
<1>2. /\ conectado' \subseteq conectado
      /\ \A c \in Colas : \/ enVuelo'[c] = enVuelo[c] /\ porEnviar'[c] = porEnviar[c]
                          \/ enVuelo'[c] = Nada /\ porEnviar'[c] = {}
      /\ enVuelo' \in [Colas -> Ids \cup {Nada}] /\ porEnviar' \in [Colas -> SUBSET Ids]
      /\ Vive' => UNCHANGED <<enVuelo, porEnviar, conectado>>
      /\ UNCHANGED <<enVuelo, porEnviar, conectado>> \/
            (conectado' = {} /\ \A c \in Colas : enVuelo'[c] = Nada /\ porEnviar'[c] = {})
  BY DEF Types, conexion, Sigue, Vive
<1>3. Types'
  <2>1. IsFiniteSet(hilos')
    BY FS_RemoveElement, FS_AddElement DEF Sigue, Types
  <2>2. hilos' \subseteq Hilo /\ \A x \in hilos' : x.dados <= De(x.m).lugares
    BY DEF Sigue, Types
  <2>3. QED
    BY <1>2, <2>1, <2>2 DEF Types
<1>4. PipeInv'
  <2>1. Nada \notin publicados
    BY MessageFacts DEF Types
  <2>2. CASE UNCHANGED <<enVuelo, porEnviar, conectado>>
    BY <2>2 DEF PipeInv
  <2>3. CASE conectado' = {} /\ \A c \in Colas : enVuelo'[c] = Nada /\ porEnviar'[c] = {}
    BY <2>1, <2>3 DEF PipeInv
  <2>4. QED
    BY <1>2, <2>2, <2>3
<1>5. CopyInv'
  <2>1. \A c \in Colas : pcL[c] \in {"confirma", "lanza"} => recibido[c] \in Ids
    BY DEF PipeInv, Types
  <2>2. cortes \in Nat
    BY DEF Types
  <2>3. ASSUME NEW m \in Ids, m \notin confirmados', De(m).cola \in Colas
        PROVE  Cardinality(Copias(m)') <= cortes'
    BY <1>1, <2>2, <2>3 DEF CopyInv
  <2>4. ASSUME NEW c \in Colas, Vive', Repite(c)'
        PROVE  Cardinality(Copias(recibido[c])') < cortes'
    <3>1. Repite(c) /\ recibido[c] \in Ids
      BY <1>2, <2>1, <2>4 DEF Repite
    <3>2. Cardinality(Copias(recibido[c])) < cortes
      BY <3>1 DEF CopyInv
    <3> HIDE DEF BaseInv
    <3>3. QED
      BY <1>1, <2>2, <3>1, <3>2
  <2>5. ASSUME NEW c \in Colas, pcL'[c] = "lanza"
        PROVE  Cardinality(Copias(recibido[c])') <= cortes'
    <3>1. recibido[c] \in Ids /\ Cardinality(Copias(recibido[c])) <= cortes
      BY <2>1, <2>5 DEF CopyInv
    <3> HIDE DEF BaseInv
    <3>2. QED
      BY <1>1, <2>2, <3>1
  <2>6. \A c \in Colas : recibido'[c] = recibido[c]
    OBVIOUS
  <2>7. QED
    BY <2>3, <2>4, <2>5, <2>6 DEF CopyInv, Copias
<1>6. NodeInv'
  <2>1. \A x \in hilos : \E y \in hilos' : Nodo(y) = Nodo(x)
    BY DEF Sigue, Nodo
  <2>2. QED
    BY <2>1 DEF NodeInv
<1>7. AckedIsProcessed'
  BY <1>1 DEF AckedIsProcessed, Types
<1>8. QED
  BY <1>3, <1>4, <1>5, <1>6, <1>7

\* One step per action of the thread of a message.
LEMMA HiloBase ==
    ASSUME BaseInv, NEW h \in hilos, procesarHilo(h)
    PROVE  BaseInv'
<1> USE DEF registro
<1>1. /\ h \in Hilo /\ h.dados \in Nat /\ h.dados <= De(h.m).lugares /\ h.m \in Ids
      /\ De(h.m).lugares \in Nat /\ h.cuenta \in Nat
      /\ recibidos \in Seq(Ids \X Nat) /\ elementos \in Nat
      /\ Vive
  BY MessageFacts DEF BaseInv, Types, Hilo, procesarHilo
<1>2. ASSUME NEW pc1 \in {"mira", "tira", "agrega", "entrega", "fin"},
             Sigue(h, [h EXCEPT !.pc = pc1]),
             UNCHANGED <<broker, conexion, escucha, recibidos, elementos>>,
             catchEnEspera' \subseteq catchEnEspera
      PROVE  BaseInv'
  <2> DEFINE g == [h EXCEPT !.pc = pc1]
  <2>1. g \in Hilo /\ g.m = h.m /\ g.n = h.n /\ g.dados = h.dados
    BY <1>1 DEF Hilo
  <2> HIDE DEF g
  <2>2. Sigue(h, g) /\ UNCHANGED <<broker, cortes, escucha>> /\ UNCHANGED conexion
    BY <1>2 DEF g, conexion
  <2>3. QED
    BY <1>1, <1>2, <2>1, <2>2, SigueBase
<1>3. CASE ConsultaGet(h) \/ Tira(h) \/ ConsultaRecibidos(h) \/ Filtra(h) \/ ConsultaCatch(h)
  <2>1. /\ UNCHANGED <<broker, conexion, escucha, recibidos, elementos>>
        /\ catchEnEspera' \subseteq catchEnEspera
    BY <1>3 DEF ConsultaGet, Tira, ConsultaRecibidos, Filtra, ConsultaCatch
  <2>2. \E pc1 \in {"mira", "tira", "agrega", "entrega", "fin"} : Sigue(h, [h EXCEPT !.pc = pc1])
    BY <1>3 DEF ConsultaGet, Tira, ConsultaRecibidos, Filtra, ConsultaCatch
  <2>3. QED
    BY <1>2, <2>1, <2>2
<1>4. CASE Agrega(h)
  <2> DEFINE g == [h EXCEPT !.pc = "enlaza", !.visto = Ultimo]
  <2>1. Ultimo \in (Ids \X Nat) \cup {SinNodo}
    <3>1. elementos # 0 => elementos \in 1 .. Len(recibidos)
      BY <1>1, <1>4, LenProperties DEF Agrega, FaltaUnNodo
    <3>2. QED
      BY <1>1, <3>1, ElementOfSeq DEF Ultimo
  <2>2. g \in Hilo /\ g.m = h.m /\ g.n = h.n /\ g.dados = h.dados
    BY <1>1, <2>1 DEF Hilo
  <2>3. /\ Sigue(h, g) /\ UNCHANGED conexion
        /\ UNCHANGED <<broker, cortes, escucha, recibidos, elementos, catchEnEspera>>
    BY <1>4 DEF Agrega, conexion
  <2> HIDE DEF g
  <2>4. QED
    BY <1>1, <2>2, <2>3, SigueBase
<1>5. CASE Enlaza(h)
  <2> DEFINE g == [h EXCEPT !.pc = "suma", !.visto = Nodo(h)]
  <2>1. g \in Hilo /\ g.m = h.m /\ g.n = h.n /\ g.dados = h.dados
    <3>1. Nodo(h) \in Ids \X Nat
      BY <1>1, MessageFacts DEF Nodo, Hilo
    <3>2. QED
      BY <1>1, <3>1 DEF Hilo
  <2>2. /\ Sigue(h, g) /\ UNCHANGED conexion
        /\ UNCHANGED <<broker, cortes, escucha, elementos, catchEnEspera>>
    BY <1>5 DEF Enlaza, conexion
  <2> HIDE DEF g
  <2>3. recibidos' \in Seq(Ids \X Nat) /\ ToSet(recibidos') \subseteq ToSet(recibidos) \cup {Nodo(h)}
    <3>1. CASE h.visto \notin ToSet(recibidos) \cup {SinNodo}
      BY <1>1, <1>5, <3>1 DEF Enlaza
    <3>2. CASE h.visto \in ToSet(recibidos) \cup {SinNodo}
      <4> DEFINE kept == Hasta(h.visto)
      <4>1. recibidos' = Append(kept, Nodo(h))
        BY <1>5, <3>2 DEF Enlaza
      <4>2. kept \in Seq(Ids \X Nat) /\ ToSet(kept) \subseteq ToSet(recibidos)
        BY <3>2, HastaProperties DEF BaseInv
      <4>3. Nodo(h) \in Ids \X Nat
        BY <1>1 DEF Nodo, Hilo
      <4> HIDE DEF kept
      <4>4. /\ Append(kept, Nodo(h)) \in Seq(Ids \X Nat)
            /\ DOMAIN Append(kept, Nodo(h)) = 1 .. Len(kept) + 1
            /\ \A i \in 1 .. Len(kept) + 1 :
                  \/ i \in DOMAIN kept /\ Append(kept, Nodo(h))[i] = kept[i]
                  \/ Append(kept, Nodo(h))[i] = Nodo(h)
        BY <4>2, <4>3, AppendProperties, LenProperties
      <4>5. QED
        BY <4>1, <4>2, <4>4 DEF ToSet
    <3>3. QED
      BY <3>1, <3>2
  <2>4. QED
    BY <1>1, <2>1, <2>2, <2>3, SigueBase
<1>6. CASE Suma(h)
  <2> DEFINE g == [h EXCEPT !.pc = "guarda", !.cuenta = elementos + 1]
  <2>1. g \in Hilo /\ g.m = h.m /\ g.n = h.n /\ g.dados = h.dados
    <3>1. elementos + 1 \in Nat
      BY <1>1
    <3>2. QED
      BY <1>1, <3>1 DEF Hilo
  <2>2. /\ Sigue(h, g) /\ UNCHANGED conexion
        /\ UNCHANGED <<broker, cortes, escucha, recibidos, elementos, catchEnEspera>>
    BY <1>6 DEF Suma, conexion
  <2> HIDE DEF g
  <2>3. QED
    BY <1>1, <2>1, <2>2, SigueBase
<1>7. CASE Guarda(h)
  <2> DEFINE g == [h EXCEPT !.pc = "entrega", !.cuenta = 0]
  <2>1. g \in Hilo /\ g.m = h.m /\ g.n = h.n /\ g.dados = h.dados
    BY <1>1 DEF Hilo
  <2>2. /\ Sigue(h, g) /\ UNCHANGED conexion
        /\ UNCHANGED <<broker, cortes, escucha, recibidos, catchEnEspera>>
        /\ elementos' \in Nat
    BY <1>1, <1>7 DEF Guarda, conexion
  <2> HIDE DEF g
  <2>3. QED
    BY <1>1, <2>1, <2>2, SigueBase
<1>8. CASE Muere(h)
  <2> DEFINE g == [h EXCEPT !.pc = "muere"]
  <2>1. g \in Hilo /\ g.m = h.m /\ g.n = h.n /\ g.dados = h.dados /\ g.pc = "muere"
    BY <1>1 DEF Hilo
  <2>2. /\ Sigue(h, g) /\ conectado' = {}
        /\ enVuelo' = [c \in Colas |-> Nada] /\ porEnviar' = [c \in Colas |-> {}]
        /\ UNCHANGED <<broker, cortes, escucha, recibidos, elementos, catchEnEspera>>
    BY <1>8 DEF Muere
  <2> HIDE DEF g
  <2>3. QED
    BY <1>1, <2>1, <2>2, SigueBase
<1>9. CASE Entrega(h) /\ h.dados < De(h.m).lugares
  <2> DEFINE g == [h EXCEPT !.dados = h.dados + 1]
  <2>1. g \in Hilo /\ g.m = h.m /\ g.n = h.n /\ g.dados <= De(h.m).lugares
    <3>1. h.dados + 1 \in Nat /\ h.dados + 1 <= De(h.m).lugares
      BY <1>1, <1>9
    <3>2. QED
      BY <1>1, <3>1 DEF Hilo
  <2>2. /\ Sigue(h, g) /\ UNCHANGED conexion
        /\ UNCHANGED <<broker, cortes, escucha, recibidos, elementos, catchEnEspera>>
    BY <1>9 DEF Entrega, conexion
  <2> HIDE DEF g
  <2>3. QED
    BY <1>1, <2>1, <2>2, SigueBase
<1>10. CASE Entrega(h) /\ ~(h.dados < De(h.m).lugares)
  BY <1>2, <1>10 DEF Entrega
<1>11. QED
  BY <1>3, <1>4, <1>5, <1>6, <1>7, <1>8, <1>9, <1>10
     DEF procesarHilo, procesarLocalizedRecibido, procesarAppearedRecibido, procesarCaughtRecibido,
         list_add

\* A thread is started for a message that was received.
LEMMA NuevoHiloProperties ==
    ASSUME Types, NEW m \in Ids, Cardinality(Copias(m)) <= MaxCortes,
           hilos' = hilos \cup {NuevoHilo(m)}
    PROVE  /\ NuevoHilo(m) \in Hilo /\ NuevoHilo(m).m = m /\ NuevoHilo(m).dados = 0
           /\ NuevoHilo(m).pc = Primero[De(m).cola] /\ NuevoHilo(m).pc \in {"filtra", "get", "catch"}
           /\ hilos' \subseteq Hilo /\ IsFiniteSet(hilos')
           /\ \A x \in hilos' : x.dados <= De(x.m).lugares
           /\ Copias(m)' # {}
           /\ Cardinality(Copias(m)) \in Nat /\ Cardinality(Copias(m)') \in Nat
           /\ Cardinality(Copias(m)') <= Cardinality(Copias(m)) + 1
           /\ \A k \in Ids \ {m} : Copias(k)' = Copias(k)
           /\ {Nodo(x) : x \in hilos} \subseteq {Nodo(x) : x \in hilos'}
<1> DEFINE nuevo == NuevoHilo(m)
<1>1. IsFiniteSet(Copias(m)) /\ Cardinality(Copias(m)) \in Nat
  BY FS_Subset, FS_CardinalityType DEF Types, Copias
<1>2. nuevo \in Hilo /\ nuevo.m = m /\ nuevo.dados = 0 /\ nuevo.pc = Primero[De(m).cola]
      /\ nuevo.pc \in {"filtra", "get", "catch"}
  BY <1>1, MessageFacts DEF NuevoHilo, Hilo, Primero, Colas, SinNodo
<1>3. hilos' = hilos \cup {nuevo}
  OBVIOUS
<1> HIDE DEF nuevo
<1>4. IsFiniteSet(hilos') /\ hilos' \subseteq Hilo
  <2>1. IsFiniteSet(hilos \cup {nuevo})
    BY FS_AddElement DEF Types
  <2>2. QED
    BY <1>2, <1>3, <2>1 DEF Types
<1>5. \A x \in hilos' : x.dados <= De(x.m).lugares
  BY <1>2, <1>3, MessageFacts DEF Types
<1>6. /\ Copias(m)' = Copias(m) \cup {nuevo}
      /\ \A k \in Ids \ {m} : Copias(k)' = Copias(k)
  BY <1>2, <1>3 DEF Copias
<1>7. /\ IsFiniteSet(Copias(m) \cup {nuevo})
      /\ \/ Cardinality(Copias(m) \cup {nuevo}) = Cardinality(Copias(m))
         \/ Cardinality(Copias(m) \cup {nuevo}) = Cardinality(Copias(m)) + 1
  BY <1>1, FS_AddElement
<1>8. Cardinality(Copias(m)') <= Cardinality(Copias(m)) + 1 /\ Cardinality(Copias(m)') \in Nat
  BY <1>1, <1>6, <1>7
<1>9. {Nodo(x) : x \in hilos} \subseteq {Nodo(x) : x \in hilos'}
  BY <1>3
<1>10. QED
  BY <1>1, <1>2, <1>4, <1>5, <1>6, <1>8, <1>9 DEF nuevo

\* What does not concern the threads.
LEMMA BrokerBase ==
    ASSUME BaseInv,
           \/ \E m \in Ids : De(m).cola # "GAMEBOY" /\ Publica(m)
           \/ \E c \in Colas : Envia(c) \/ SeCorta(c) \/ subscribirseACola(c) \/ Recibe(c)
           \/ solicitarPokemones
    PROVE  BaseInv'
<1> USE DEF BaseInv, broker, conexion, solicitud, escucha, registro
<1>1. /\ UNCHANGED <<hilos, recibidos, elementos, confirmados, catchEnEspera, llegan>>
      /\ \A c \in Colas : pcL[c] = "lanza" => pcL'[c] = "lanza" /\ recibido'[c] = recibido[c]
      /\ \A c \in Colas : pcL'[c] = "lanza" => pcL[c] = "lanza"
      /\ publicados \subseteq publicados'
  BY DEF Publica, Envia, SeCorta, subscribirseACola, Recibe, solicitarPokemones, enviarGet,
         registrarGetEnEspera, Types
<1>2. NodeInv' /\ AckedIsProcessed'
  BY <1>1 DEF NodeInv, AckedIsProcessed, Copias
<1>3. (\A m : Copias(m)' = Copias(m)) /\ Vive' = Vive
  BY <1>1 DEF Copias, Vive
<1>4. CASE solicitarPokemones
  <2>1. UNCHANGED <<llegan, publicados, conexion, escucha>> /\ pedidos' \subseteq Necesarios
    BY <1>4 DEF solicitarPokemones, enviarGet, registrarGetEnEspera, especiesNecesarias, Types
  <2>2. Types' /\ PipeInv' /\ CopyInv'
    BY <1>1, <1>3, <2>1 DEF Types, PipeInv, CopyInv, Repite, Copias
  <2>3. QED
    BY <1>2, <2>2
<1>5. ASSUME NEW m \in Ids, De(m).cola # "GAMEBOY", Publica(m) PROVE BaseInv'
  <2>1. Types'
    BY <1>5 DEF Publica, Types
  <2>2. /\ m \in publicados' /\ m \notin publicados /\ publicados' = publicados \cup {m}
        /\ \A c \in Colas : porEnviar'[c] = IF c \in conectado /\ c = De(m).cola
                                            THEN porEnviar[c] \cup {m} ELSE porEnviar[c]
        /\ UNCHANGED <<enVuelo, conectado, pcL, recibido, confirmados, cortes>>
        /\ m \notin confirmados
    BY <1>5 DEF Publica, Types
  <2>3. m # Nada /\ \A c \in Colas : enVuelo[c] # Nada => enVuelo[c] \in publicados
    BY MessageFacts DEF PipeInv
  <2>4. ASSUME NEW c \in Colas
        PROVE  /\ \A k \in porEnviar'[c] : k \in publicados' \ confirmados' /\ De(k).cola = c
               /\ enVuelo'[c] \notin porEnviar'[c]
               /\ porEnviar'[c] # {} => c \in conectado'
    <3>1. /\ \A k \in porEnviar[c] : k \in publicados \ confirmados /\ De(k).cola = c
          /\ enVuelo[c] \notin porEnviar[c] /\ enVuelo[c] # m
          /\ porEnviar[c] # {} => c \in conectado
      BY <2>2, <2>3 DEF PipeInv
    <3>2. QED
      BY <2>2, <3>1, ZenonT(40)
  <2>5. PipeInv'
    BY <2>2, <2>4 DEF PipeInv
  <2>6. CopyInv'
    BY <2>2, <1>3 DEF CopyInv, Repite
  <2>7. QED
    BY <1>2, <2>1, <2>5, <2>6
<1>6. ASSUME NEW c \in Colas, Envia(c) PROVE BaseInv'
  <2>1. PICK m \in porEnviar[c] : /\ enVuelo' = [enVuelo EXCEPT ![c] = m]
                                  /\ porEnviar' = [porEnviar EXCEPT ![c] = porEnviar[c] \ {m}]
    BY <1>6 DEF Envia
  <2>2. c \in conectado /\ UNCHANGED <<broker, conectado, cortes, escucha>> /\ enVuelo[c] = Nada
    BY <1>6 DEF Envia
  <2>3. Types'
    BY <1>1, <1>6, <2>1, <2>2 DEF Types, Envia
  <2>4. \A d \in Colas : /\ enVuelo'[d] = IF d = c THEN m ELSE enVuelo[d]
                         /\ porEnviar'[d] = IF d = c THEN porEnviar[c] \ {m} ELSE porEnviar[d]
    BY <2>1 DEF Types
  <2>5. pcL[c] # "confirma"
    <3>1. publicados \subseteq Ids /\ Nada \notin Ids
      BY MessageFacts DEF Types
    <3>2. QED
      BY <2>2, <3>1 DEF PipeInv
  <2>6. PipeInv'
    BY <2>1, <2>2, <2>4, <2>5 DEF PipeInv
  <2>7. CopyInv'
    BY <2>2, <1>3 DEF CopyInv, Repite
  <2>8. QED
    BY <1>2, <2>3, <2>6, <2>7
<1>7. ASSUME NEW c \in Colas, SeCorta(c) PROVE BaseInv'
  <2>1. /\ UNCHANGED <<broker, escucha>> /\ c \in conectado
        /\ conectado' = conectado \ {c} /\ cortes' = cortes + 1 /\ cortes' \in 0 .. MaxCortes
        /\ \A d \in Colas : /\ enVuelo'[d] = IF d = c THEN Nada ELSE enVuelo[d]
                            /\ porEnviar'[d] = IF d = c THEN {} ELSE porEnviar[d]
    BY <1>7, MessageFacts DEF SeCorta, Types
  <2>2. Types'
    BY <1>1, <1>7, <2>1 DEF Types, SeCorta
  <2>3. PipeInv'
    BY <2>1 DEF PipeInv
  <2>4. \A m \in Ids : Cardinality(Copias(m)) \in Nat
    BY FS_Subset, FS_CardinalityType DEF Types, Copias
  <2>5. cortes \in Nat
    BY DEF Types
  <2>6. \A m \in Ids : m \notin confirmados /\ De(m).cola \in Colas => Cardinality(Copias(m)) < cortes'
    BY <2>1, <2>4, <2>5 DEF CopyInv
  <2>7. \A d \in Colas : pcL[d] \in {"confirma", "lanza"} => recibido[d] \in Ids /\ De(recibido[d]).cola = d
    BY DEF PipeInv, Types
  <2>8. CopyInv'
    <3>1. \A m \in Ids : m \notin confirmados /\ De(m).cola \in Colas => Cardinality(Copias(m)) <= cortes'
      BY <2>1, <2>4, <2>5, <2>6
    <3>2. \A d \in Colas : Repite(d)' => Cardinality(Copias(recibido[d])) < cortes'
      BY <2>1, <2>6, <2>7 DEF Repite
    <3>3. \A d \in Colas : pcL[d] = "lanza" => Cardinality(Copias(recibido[d])) <= cortes'
      <4>1. ASSUME NEW d \in Colas, pcL[d] = "lanza"
            PROVE  Cardinality(Copias(recibido[d])) <= cortes'
        <5>1. Cardinality(Copias(recibido[d])) \in Nat /\ Cardinality(Copias(recibido[d])) <= cortes
          BY <2>4, <2>7, <4>1 DEF CopyInv
        <5>2. QED
          BY <2>1, <2>5, <5>1
      <4>2. QED
        BY <4>1
    <3>4. QED
      BY <1>3, <2>1, <3>1, <3>2, <3>3 DEF CopyInv
  <2>9. QED
    BY <1>2, <2>2, <2>3, <2>8
<1>8. ASSUME NEW c \in Colas, subscribirseACola(c) PROVE BaseInv'
  <2>1. /\ UNCHANGED <<broker, enVuelo, cortes, recibido>> /\ pcL[c] = "suscribe"
        /\ conectado' = conectado \cup {c}
        /\ \A d \in Colas : /\ pcL'[d] = IF d = c THEN "recibe" ELSE pcL[d]
                            /\ porEnviar'[d] = IF d = c THEN {m \in publicados \ confirmados : De(m).cola = c}
                                                        ELSE porEnviar[d]
    BY <1>8 DEF subscribirseACola, Types
  <2>2. Types'
    BY <1>1, <1>8, <2>1 DEF Types, subscribirseACola
  <2>3. enVuelo[c] = Nada
    BY <2>1 DEF PipeInv
  <2>4. PipeInv'
    <3>1. Nada \notin publicados
      BY MessageFacts DEF Types
    <3>2. ASSUME NEW d \in Colas, d # c
          PROVE  /\ porEnviar'[d] = porEnviar[d] /\ enVuelo'[d] = enVuelo[d] /\ pcL'[d] = pcL[d]
                 /\ d \in conectado' <=> d \in conectado
      BY <2>1, <3>2
    <3>3. /\ \A m \in porEnviar'[c] : m \in publicados \ confirmados /\ De(m).cola = c
          /\ enVuelo'[c] = Nada /\ enVuelo'[c] \notin porEnviar'[c]
          /\ c \in conectado' /\ pcL'[c] = "recibe"
      BY <2>1, <2>3, <3>1
    <3>4. QED
      BY <2>1, <3>2, <3>3 DEF PipeInv
  <2>5. CopyInv'
    BY <2>1, <1>3 DEF CopyInv, Repite
  <2>6. QED
    BY <1>2, <2>2, <2>4, <2>5
<1>9. ASSUME NEW c \in Colas, Recibe(c) PROVE BaseInv'
  <2>1. /\ UNCHANGED <<broker, conexion>>
        /\ c \in conectado => enVuelo[c] # Nada
        /\ \A d \in Colas : /\ pcL'[d] = IF d = c THEN IF c \in conectado THEN "confirma" ELSE "suscribe" ELSE pcL[d]
                            /\ recibido'[d] = IF d = c THEN enVuelo[c] ELSE recibido[d]
    BY <1>9 DEF Recibe, Types
  <2>2. Types'
    BY <1>1, <1>9, <2>1 DEF Types, Recibe
  <2>3. PipeInv'
    BY <2>1 DEF PipeInv
  <2>4. CopyInv'
    BY <1>3, <2>1 DEF CopyInv, Repite
  <2>5. QED
    BY <1>2, <2>2, <2>3, <2>4
<1>10. QED
  BY <1>4, <1>5, <1>6, <1>7, <1>8, <1>9

\* What is acknowledged on a connection waits for its thread.
LEMMA ConfirmaBase ==
    ASSUME BaseInv, NEW c \in Colas, Confirma(c)
    PROVE  BaseInv'
<1> USE DEF BaseInv
<1>1. pcL[c] = "confirma" /\ publicados \subseteq Ids /\ Nada \notin publicados
  BY MessageFacts DEF Confirma, Types
<1>2. PICK m \in Ids : /\ m = recibido[c]
                       /\ m \in publicados \ confirmados /\ De(m).cola = c
                       /\ c \in conectado => enVuelo[c] = m
  BY <1>1 DEF PipeInv
<1>3. /\ UNCHANGED <<llegan, pedidos, publicados, porEnviar, conectado, cortes, recibido, hilos,
                     catchEnEspera, recibidos, elementos>>
      /\ pcL' \in [Colas -> {"suscribe", "recibe", "confirma", "lanza"}]
      /\ \A d \in Colas \ {c} : pcL'[d] = pcL[d]
      /\ pcL'[c] \in {"suscribe", "lanza"} /\ (c \in conectado => pcL'[c] = "lanza")
  BY DEF Confirma, registro, Types
<1>4. (\A k : Copias(k)' = Copias(k)) /\ Vive' = Vive
  BY <1>3 DEF Copias, Vive
<1>5. confirmados' = IF c \in conectado THEN confirmados \cup {m} ELSE confirmados
  BY <1>2 DEF Confirma
<1>6. /\ enVuelo' \in [Colas -> Ids \cup {Nada}]
      /\ enVuelo'[c] = IF c \in conectado THEN Nada ELSE enVuelo[c]
      /\ \A d \in Colas \ {c} : enVuelo'[d] = enVuelo[d]
  BY DEF Confirma, Types
<1>7. Types' /\ NodeInv'
  BY <1>2, <1>3, <1>5, <1>6 DEF Types, NodeInv
<1>8. AckedIsProcessed'
  <2>1. \A d \in Colas : pcL[d] = "lanza" => pcL'[d] = "lanza" /\ recibido'[d] = recibido[d]
    BY <1>1, <1>3
  <2>2. c \in conectado => pcL'[c] = "lanza" /\ recibido'[c] = m
    BY <1>2, <1>3
  <2>3. QED
    BY <1>4, <1>5, <2>1, <2>2 DEF AckedIsProcessed
<1>9. PipeInv'
  <2>1. ASSUME NEW d \in Colas, d # c
        PROVE  /\ \A k \in porEnviar'[d] : k \in publicados' \ confirmados' /\ De(k).cola = d
               /\ enVuelo'[d] # Nada => /\ enVuelo'[d] \in publicados' \ confirmados'
                                        /\ De(enVuelo'[d]).cola = d
               /\ pcL'[d] = "confirma" => recibido'[d] \in publicados' \ confirmados'
    BY <1>2, <1>3, <1>5, <1>6, <2>1 DEF PipeInv
  <2>2. ASSUME NEW d \in Colas, d # c
        PROVE  /\ enVuelo'[d] \notin porEnviar'[d]
               /\ porEnviar'[d] # {} \/ enVuelo'[d] # Nada => d \in conectado'
               /\ pcL'[d] = "suscribe" => d \notin conectado'
               /\ pcL'[d] = "confirma" => /\ De(recibido'[d]).cola = d
                                          /\ d \in conectado' => enVuelo'[d] = recibido'[d]
               /\ pcL'[d] = "lanza" => recibido'[d] \in publicados' /\ De(recibido'[d]).cola = d
    BY <1>3, <1>6, <2>2 DEF PipeInv
  <2>3. \A k \in porEnviar'[c] : k \in publicados' \ confirmados' /\ De(k).cola = c
    BY <1>2, <1>3, <1>5 DEF PipeInv
  <2>4. /\ enVuelo'[c] = Nada
        /\ enVuelo'[c] \notin porEnviar'[c]
        /\ porEnviar'[c] # {} => c \in conectado'
        /\ pcL'[c] = "suscribe" => c \notin conectado'
        /\ pcL'[c] # "confirma"
        /\ recibido'[c] \in publicados' /\ De(recibido'[c]).cola = c
    BY <1>1, <1>2, <1>3, <1>6 DEF PipeInv
  <2>5. QED
    BY <2>1, <2>2, <2>3, <2>4 DEF PipeInv
<1>10. CopyInv'
  <2>1. cortes \in Nat /\ \A k \in Ids : Cardinality(Copias(k)) \in Nat
    BY FS_Subset, FS_CardinalityType DEF Types, Copias
  <2>2. \A d \in Colas : Repite(d)' => Repite(d)
    BY <1>1, <1>2, <1>3, <1>5 DEF Repite
  <2>3. Cardinality(Copias(m)) <= cortes
    BY <1>2 DEF CopyInv
  <2>4. \A d \in Colas : pcL'[d] = "lanza" => Cardinality(Copias(recibido[d])) <= cortes
    BY <1>2, <1>3, <2>3 DEF CopyInv
  <2>5. \A k \in Ids : k \notin confirmados' => k \notin confirmados
    BY <1>5
  <2>6. QED
    BY <1>3, <1>4, <2>2, <2>4, <2>5 DEF CopyInv
<1>11. QED
  BY <1>7, <1>8, <1>9, <1>10

LEMMA LanzaBase ==
    ASSUME BaseInv, Vive, NEW c \in Colas, Lanza(c)
    PROVE  BaseInv'
<1> USE DEF BaseInv
<1>1. pcL[c] = "lanza" /\ publicados \subseteq Ids
  BY DEF Lanza, Types
<1>2. PICK m \in Ids : m = recibido[c] /\ m \in publicados /\ De(m).cola = c
  BY <1>1 DEF PipeInv
<1>3. /\ UNCHANGED <<llegan, pedidos, publicados, confirmados, porEnviar, enVuelo, conectado, cortes,
                     recibido, catchEnEspera, recibidos, elementos>>
      /\ pcL' \in [Colas -> {"suscribe", "recibe", "confirma", "lanza"}]
      /\ \A d \in Colas \ {c} : pcL'[d] = pcL[d]
      /\ pcL'[c] = "recibe"
  BY DEF Lanza, broker, conexion, registro, Types
<1>4. /\ cortes \in Nat /\ cortes <= MaxCortes /\ MaxCortes \in Nat
      /\ Cardinality(Copias(m)) \in Nat /\ Cardinality(Copias(m)) <= cortes
      /\ m \notin confirmados => Cardinality(Copias(m)) < cortes
  <2>1. cortes \in Nat /\ cortes <= MaxCortes /\ MaxCortes \in Nat /\ Cardinality(Copias(m)) \in Nat
    BY MessageFacts, FS_Subset, FS_CardinalityType DEF Types, Copias
  <2>2. /\ Cardinality(Copias(m)) <= cortes
        /\ m \notin confirmados => Cardinality(Copias(m)) < cortes
    BY <1>1, <1>2 DEF CopyInv, Repite
  <2>3. QED
    BY <2>1, <2>2
<1>5. hilos' = hilos \cup {NuevoHilo(m)} /\ Cardinality(Copias(m)) <= MaxCortes
  BY <1>2, <1>4 DEF Lanza
<1>6. /\ hilos' \subseteq Hilo /\ IsFiniteSet(hilos')
      /\ \A x \in hilos' : x.dados <= De(x.m).lugares
      /\ Copias(m)' # {}
      /\ Cardinality(Copias(m)') \in Nat
      /\ Cardinality(Copias(m)') <= Cardinality(Copias(m)) + 1
      /\ \A k \in Ids \ {m} : Copias(k)' = Copias(k)
      /\ {Nodo(x) : x \in hilos} \subseteq {Nodo(x) : x \in hilos'}
  BY <1>5, NuevoHiloProperties
<1>7. Types' /\ NodeInv' /\ PipeInv'
  <2>1. Types' /\ NodeInv'
    BY <1>3, <1>6 DEF Types, NodeInv
  <2>2. PipeInv'
    BY <1>3 DEF PipeInv
  <2>3. QED
    BY <2>1, <2>2
<1>8. AckedIsProcessed'
  <2>1. ASSUME NEW k \in confirmados, k # m
        PROVE  Copias(k)' # {} \/ \E d \in Colas : pcL'[d] = "lanza" /\ recibido'[d] = k
    <3>1. k \in Ids /\ Copias(k)' = Copias(k)
      BY <1>6, <2>1 DEF Types
    <3>2. \A d \in Colas : pcL[d] = "lanza" /\ recibido[d] = k => pcL'[d] = "lanza" /\ recibido'[d] = k
      BY <1>2, <1>3, <2>1
    <3>3. QED
      BY <3>1, <3>2 DEF AckedIsProcessed
  <2>2. QED
    BY <1>3, <1>6, <2>1 DEF AckedIsProcessed
<1>9. CopyInv'
  <2>1. ASSUME NEW k \in Ids, k \notin confirmados, De(k).cola \in Colas
        PROVE  Cardinality(Copias(k)') <= cortes
    <3>1. CASE k = m
      BY <1>4, <1>6, <2>1, <3>1
    <3>2. CASE k # m
      BY <1>6, <2>1, <3>2 DEF CopyInv
    <3>3. QED
      BY <3>1, <3>2
  <2>2. ASSUME NEW d \in Colas, pcL'[d] \in {"confirma", "lanza"}
        PROVE  /\ Copias(recibido[d])' = Copias(recibido[d])
               /\ pcL'[d] = pcL[d] /\ recibido'[d] = recibido[d]
    <3>1. d # c /\ recibido[d] \in Ids \ {m}
      BY <1>1, <1>2, <1>3, <2>2 DEF PipeInv
    <3>2. PICK k \in Ids \ {m} : k = recibido[d] /\ k = recibido'[d]
      BY <1>3, <3>1
    <3>3. Copias(recibido[d])' = Copias(k)' /\ Copias(recibido[d]) = Copias(k)
      BY <3>2 DEF Copias
    <3>4. QED
      BY <1>3, <1>6, <3>1, <3>3
  <2>3. \A d \in Colas : Repite(d)' => Repite(d) /\ Copias(recibido[d])' = Copias(recibido[d])
    BY <1>3, <2>2 DEF Repite
  <2>4. \A d \in Colas : pcL'[d] = "lanza" => pcL[d] = "lanza" /\ Copias(recibido[d])' = Copias(recibido[d])
    BY <2>2
  <2>5. QED
    BY <1>3, <2>1, <2>3, <2>4 DEF CopyInv, Copias
<1>10. QED
  BY <1>7, <1>8, <1>9

LEMMA GameboyBase ==
    ASSUME BaseInv, atenderGameboy
    PROVE  BaseInv'
<1> USE DEF BaseInv, broker, conexion, solicitud, escucha, registro
<1>1. PICK m \in llegan : /\ De(m).cola = "GAMEBOY" /\ Copias(m) = {}
                          /\ hilos' = hilos \cup {NuevoHilo(m)}
  BY DEF atenderGameboy
<1>2. UNCHANGED <<broker, conexion, solicitud, escucha, registro>> /\ m \in Ids
  BY <1>1 DEF atenderGameboy, Types
<1>3. Cardinality(Copias(m)) <= MaxCortes
  BY <1>1, FS_EmptySet, MessageFacts
<1>4. /\ hilos' \subseteq Hilo /\ IsFiniteSet(hilos')
      /\ \A x \in hilos' : x.dados <= De(x.m).lugares
      /\ Copias(m)' # {}
      /\ \A k \in Ids \ {m} : Copias(k)' = Copias(k)
      /\ {Nodo(x) : x \in hilos} \subseteq {Nodo(x) : x \in hilos'}
  BY <1>1, <1>2, <1>3, NuevoHiloProperties
<1>5. Types' /\ PipeInv'
  BY <1>2, <1>4 DEF Types, PipeInv
<1>6. NodeInv' /\ AckedIsProcessed'
  BY <1>2, <1>4 DEF NodeInv, AckedIsProcessed, Types
<1>7. CopyInv'
  <2>1. \A d \in Colas : pcL[d] \in {"confirma", "lanza"} => recibido[d] \in Ids \ {m}
    <3>1. publicados \subseteq Ids /\ De(m).cola \notin Colas
      BY <1>1, MessageFacts DEF Types
    <3>2. QED
      BY <3>1 DEF PipeInv
  <2>2. \A d \in Colas : pcL[d] \in {"confirma", "lanza"} => Copias(recibido[d])' = {x \in hilos' : x.m = recibido[d]}
    BY <1>2 DEF Copias
  <2>3. \A d \in Colas : pcL[d] \in {"confirma", "lanza"} => {x \in hilos' : x.m = recibido[d]} = Copias(recibido[d])
    BY <1>2, <1>4, <2>1 DEF Copias
  <2>4. \A k \in Ids : De(k).cola \in Colas => Copias(k)' = Copias(k)
    BY <1>1, <1>4, MessageFacts
  <2>5. \A d \in Colas : Repite(d)' => Repite(d) /\ pcL[d] \in {"confirma", "lanza"}
    BY <1>2 DEF Repite
  <2>6. Vive
    BY DEF atenderGameboy
  <2>7. QED
    BY <1>2, <2>2, <2>3, <2>4, <2>5, <2>6 DEF CopyInv
<1>8. QED
  BY <1>5, <1>6, <1>7

LEMMA NextBase == BaseInv /\ [Next]_vars => BaseInv'
<1> SUFFICES ASSUME BaseInv, [Next]_vars PROVE BaseInv'
  OBVIOUS
<1>1. CASE Next
  <2>1. ASSUME NEW c \in Colas, Escucha(c) PROVE BaseInv'
    BY <2>1, BrokerBase, ConfirmaBase, LanzaBase DEF Escucha
  <2>2. {"APPEARED", "LOCALIZED", "CAUGHT"} = Colas
    BY DEF Colas
  <2>3. QED
    BY <1>1, <2>1, <2>2, BrokerBase, GameboyBase, HiloBase
       DEF Next, esperarBrokerAppeared, esperarBrokerLocalized, esperarBrokerCaught
<1>2. CASE UNCHANGED vars
  BY <1>2 DEF vars, broker, conexion, solicitud, escucha, registro, BaseInv, Types, PipeInv,
              CopyInv, Repite, Vive, NodeInv, AckedIsProcessed, Copias, Nodo
<1>3. QED
  BY <1>1, <1>2

-----------------------------------------------------------------------------
(***************************************************************************)
(* An answer is processed once.                                            *)
(***************************************************************************)

LEMMA InitFound == Init => FoundInv
BY DEF Init, FoundInv

\* A thread goes on that had found what it answers, or does not find it now.
LEMMA SigueFound ==
    ASSUME FoundInv, NEW h \in hilos, NEW g, Sigue(h, g), g.m = h.m,
           Encontro(g) => Encontro(h),
           UNCHANGED <<solicitud, getEnEspera, catchEnEspera>>
    PROVE  FoundInv'
<1>1. \A x \in hilos' : Encontro(x) => \E y \in hilos : Encontro(y) /\ y.m = x.m /\ (x # g => y = x)
                                                        /\ (x = g => y = h)
  BY DEF Sigue
<1>2. \A x, y \in hilos' : Encontro(x) /\ Encontro(y) /\ De(x.m).id = De(y.m).id => x = y
  BY <1>1 DEF FoundInv, Sigue
<1>3. QED
  BY <1>1, <1>2 DEF FoundInv, solicitud

LEMMA HiloFound ==
    ASSUME BaseInv, FoundInv, NEW h \in hilos, procesarHilo(h)
    PROVE  FoundInv'
<1> USE DEF registro
<1>1. h \in Hilo /\ h.dados \in Nat
  BY DEF BaseInv, Types, Hilo
<1>2. ASSUME NEW pc1 \in {"mira", "tira", "agrega", "entrega", "fin"},
             Sigue(h, [h EXCEPT !.pc = pc1]),
             pc1 = "fin" \/ pc1 = "tira" \/ h.pc \in {"mira", "entrega"}
                \/ De(h.m).cola \notin {"LOCALIZED", "CAUGHT"},
             UNCHANGED <<solicitud, getEnEspera, catchEnEspera>>
      PROVE  FoundInv'
  <2> DEFINE g == [h EXCEPT !.pc = pc1]
  <2>1. g.m = h.m /\ g.dados = h.dados /\ g.pc = pc1
    BY <1>1 DEF Hilo
  <2> HIDE DEF g
  <2>2. Sigue(h, g) /\ (Encontro(g) => Encontro(h))
    BY <1>2, <2>1 DEF g, Encontro
  <2>3. QED
    BY <1>2, <2>1, <2>2, SigueFound
<1>3. ASSUME NEW g, g.m = h.m, Sigue(h, g),
             /\ De(h.m).cola = "LOCALIZED" /\ De(h.m).id \in getEnEspera
             /\ UNCHANGED <<solicitud, catchEnEspera>>
             /\ getEnEspera' = getEnEspera \ {De(h.m).id}
      PROVE  FoundInv'
  <2>1. De(h.m).id \in pedidas /\ De(h.m).id \notin Catches
    BY <1>3, EventsAssumption DEF FoundInv
  <2>2. \A x \in hilos : Encontro(x) => De(x.m).id # De(h.m).id
    BY <1>3, <2>1 DEF FoundInv, Encontro
  <2>3. QED
    BY <1>3, <2>1, <2>2 DEF FoundInv, solicitud, Sigue, Encontro
<1>4. ASSUME NEW g, g.m = h.m, Sigue(h, g),
             /\ De(h.m).cola = "CAUGHT" /\ De(h.m).id \in catchEnEspera
             /\ UNCHANGED <<solicitud, getEnEspera>>
             /\ catchEnEspera' = catchEnEspera \ {De(h.m).id}
      PROVE  FoundInv'
  <2>1. De(h.m).id \in Catches /\ De(h.m).id \notin pedidas
    BY <1>4, EventsAssumption DEF FoundInv, BaseInv, Types
  <2>2. \A x \in hilos : Encontro(x) => De(x.m).id # De(h.m).id
    BY <1>4, <2>1 DEF FoundInv, Encontro
  <2>3. QED
    BY <1>4, <2>1, <2>2 DEF FoundInv, solicitud, Sigue, Encontro
<1>5. CASE ConsultaGet(h) /\ De(h.m).cola = "LOCALIZED"
  <2>1. CASE De(h.m).id \in getEnEspera
    <3> DEFINE g == [h EXCEPT !.pc = "mira"]
    <3>1. g.m = h.m
      BY <1>1 DEF Hilo
    <3>2. Sigue(h, g)
      BY <1>5, <2>1 DEF ConsultaGet
    <3> HIDE DEF g
    <3>3. QED
      BY <1>3, <1>5, <2>1, <3>1, <3>2 DEF ConsultaGet
  <2>2. CASE De(h.m).id \notin getEnEspera
    BY <1>2, <1>5, <2>2 DEF ConsultaGet
  <2>3. QED
    BY <2>1, <2>2
<1>6. CASE ConsultaCatch(h)
  <2>1. CASE De(h.m).id \in catchEnEspera
    <3> DEFINE g == [h EXCEPT !.pc = "entrega"]
    <3>1. g.m = h.m
      BY <1>1 DEF Hilo
    <3>2. Sigue(h, g)
      BY <1>6, <2>1 DEF ConsultaCatch
    <3> HIDE DEF g
    <3>3. QED
      BY <1>4, <1>6, <2>1, <3>1, <3>2 DEF ConsultaCatch
  <2>2. CASE De(h.m).id \notin catchEnEspera
    BY <1>2, <1>6, <2>2 DEF ConsultaCatch
  <2>3. QED
    BY <2>1, <2>2
<1>7. CASE Tira(h) \/ ConsultaRecibidos(h)
  BY <1>2, <1>7 DEF Tira, ConsultaRecibidos
<1>8. CASE Filtra(h) /\ De(h.m).cola \in {"APPEARED", "GAMEBOY"}
  BY <1>2, <1>8 DEF Filtra
<1>9. CASE list_add(h) \/ Muere(h)
  <2>1. ASSUME NEW g, Sigue(h, g), g.m = h.m, g.dados = h.dados,
               h.pc \in {"agrega", "enlaza", "suma", "guarda"} \/ g.pc = "muere",
               UNCHANGED <<solicitud, getEnEspera, catchEnEspera>>
        PROVE  FoundInv'
    <3>1. Encontro(g) => Encontro(h)
      BY <2>1 DEF Encontro
    <3>2. QED
      BY <2>1, <3>1, SigueFound
  <2>2. CASE Agrega(h)
    <3> DEFINE g == [h EXCEPT !.pc = "enlaza", !.visto = Ultimo]
    <3>1. g.m = h.m /\ g.dados = h.dados
      BY <1>1 DEF Hilo
    <3>2. Sigue(h, g)
      BY <2>2 DEF Agrega
    <3> HIDE DEF g
    <3>3. QED
      BY <2>1, <2>2, <3>1, <3>2 DEF Agrega
  <2>3. CASE Enlaza(h)
    <3> DEFINE g == [h EXCEPT !.pc = "suma", !.visto = Nodo(h)]
    <3>1. g.m = h.m /\ g.dados = h.dados
      BY <1>1 DEF Hilo
    <3>2. Sigue(h, g)
      BY <2>3 DEF Enlaza
    <3> HIDE DEF g
    <3>3. QED
      BY <2>1, <2>3, <3>1, <3>2 DEF Enlaza
  <2>4. CASE Suma(h)
    <3> DEFINE g == [h EXCEPT !.pc = "guarda", !.cuenta = elementos + 1]
    <3>1. g.m = h.m /\ g.dados = h.dados
      BY <1>1 DEF Hilo
    <3>2. Sigue(h, g)
      BY <2>4 DEF Suma
    <3> HIDE DEF g
    <3>3. QED
      BY <2>1, <2>4, <3>1, <3>2 DEF Suma
  <2>5. CASE Guarda(h)
    <3> DEFINE g == [h EXCEPT !.pc = "entrega", !.cuenta = 0]
    <3>1. g.m = h.m /\ g.dados = h.dados
      BY <1>1 DEF Hilo
    <3>2. Sigue(h, g)
      BY <2>5 DEF Guarda
    <3> HIDE DEF g
    <3>3. QED
      BY <2>1, <2>5, <3>1, <3>2 DEF Guarda
  <2>6. CASE Muere(h)
    <3> DEFINE g == [h EXCEPT !.pc = "muere"]
    <3>1. g.m = h.m /\ g.dados = h.dados /\ g.pc = "muere"
      BY <1>1 DEF Hilo
    <3>2. Sigue(h, g)
      BY <2>6 DEF Muere
    <3> HIDE DEF g
    <3>3. QED
      BY <2>1, <2>6, <3>1, <3>2 DEF Muere
  <2>7. QED
    BY <1>9, <2>2, <2>3, <2>4, <2>5, <2>6 DEF list_add
<1>10. CASE Entrega(h) /\ h.dados < De(h.m).lugares
  <2> DEFINE g == [h EXCEPT !.dados = h.dados + 1]
  <2>1. g.m = h.m
    BY <1>1 DEF Hilo
  <2>2. Sigue(h, g) /\ UNCHANGED <<solicitud, getEnEspera, catchEnEspera>> /\ h.pc = "entrega"
    BY <1>10 DEF Entrega
  <2> HIDE DEF g
  <2>3. Encontro(g) => Encontro(h)
    BY <2>1, <2>2 DEF Encontro
  <2>4. QED
    BY <2>1, <2>2, <2>3, SigueFound
<1>11. CASE Entrega(h) /\ ~(h.dados < De(h.m).lugares)
  BY <1>2, <1>11 DEF Entrega
<1>12. QED
  BY <1>5, <1>6, <1>7, <1>8, <1>9, <1>10, <1>11
     DEF procesarHilo, procesarLocalizedRecibido, procesarAppearedRecibido, procesarCaughtRecibido

\* A request is registered once, so that what it found does not come back.
LEMMA SolicitudFound ==
    ASSUME FoundInv, solicitarPokemones
    PROVE  FoundInv'
<1> USE DEF conexion, escucha
<1>1. UNCHANGED <<hilos, catchEnEspera>>
  BY DEF solicitarPokemones, enviarGet, registrarGetEnEspera, registro
<1>2. CASE enviarGet
  BY <1>1, <1>2 DEF enviarGet, especiesNecesarias, registro, FoundInv
<1>3. CASE registrarGetEnEspera
  BY <1>1, <1>3 DEF registrarGetEnEspera, FoundInv
<1>4. QED
  BY <1>2, <1>3 DEF solicitarPokemones

\* A new thread has not found anything yet.
LEMMA NuevoFound ==
    ASSUME BaseInv, FoundInv, NEW m \in Ids, Cardinality(Copias(m)) <= MaxCortes,
           hilos' = hilos \cup {NuevoHilo(m)},
           UNCHANGED <<solicitud, getEnEspera, catchEnEspera>>
    PROVE  FoundInv'
<1> DEFINE nuevo == NuevoHilo(m)
<1>1. nuevo.dados = 0 /\ nuevo.pc \in {"filtra", "get", "catch"}
  BY NuevoHiloProperties DEF BaseInv
<1>2. hilos' = hilos \cup {nuevo}
  OBVIOUS
<1> HIDE DEF nuevo
<1>3. \A x \in hilos' : Encontro(x) => x \in hilos
  BY <1>1, <1>2 DEF Encontro
<1>4. QED
  BY <1>3 DEF FoundInv, solicitud

LEMMA NextFound == BaseInv /\ FoundInv /\ [Next]_vars => FoundInv'
<1> SUFFICES ASSUME BaseInv, FoundInv, [Next]_vars PROVE FoundInv'
  OBVIOUS
<1>1. ASSUME UNCHANGED <<solicitud, hilos, getEnEspera, catchEnEspera>> PROVE FoundInv'
  BY <1>1 DEF FoundInv, solicitud
<1>2. CASE \/ \E m \in Ids : Publica(m)
           \/ \E c \in Colas : Envia(c) \/ SeCorta(c) \/ subscribirseACola(c) \/ Recibe(c)
                                 \/ Confirma(c)
           \/ UNCHANGED vars
  BY <1>1, <1>2 DEF Publica, Envia, SeCorta, subscribirseACola, Recibe, Confirma, vars, registro
<1>3. ASSUME NEW c \in Colas, Lanza(c) PROVE FoundInv'
  <2>1. /\ UNCHANGED <<solicitud, getEnEspera, catchEnEspera>>
        /\ hilos' = hilos \cup {NuevoHilo(recibido[c])} /\ pcL[c] = "lanza"
    BY <1>3 DEF Lanza, registro
  <2>2. publicados \subseteq Ids /\ cortes \in Nat /\ cortes <= MaxCortes /\ MaxCortes \in Nat
    BY MessageFacts DEF BaseInv, Types
  <2>3. PICK m \in Ids : m = recibido[c]
    BY <2>1, <2>2 DEF BaseInv, PipeInv
  <2>4. Cardinality(Copias(m)) <= cortes
    BY <2>1, <2>3 DEF BaseInv, CopyInv
  <2>5. Cardinality(Copias(m)) \in Nat
    BY FS_Subset, FS_CardinalityType DEF BaseInv, Types, Copias
  <2>6. Cardinality(Copias(m)) <= MaxCortes
    BY <2>2, <2>4, <2>5
  <2>7. QED
    BY <2>1, <2>3, <2>6, NuevoFound
<1>4. CASE atenderGameboy
  <2>1. PICK m \in Ids : Copias(m) = {} /\ hilos' = hilos \cup {NuevoHilo(m)}
    BY <1>4 DEF atenderGameboy, BaseInv, Types
  <2>2. Cardinality(Copias(m)) <= MaxCortes
    BY <2>1, FS_EmptySet, MessageFacts
  <2>3. QED
    BY <1>4, <2>1, <2>2, NuevoFound DEF atenderGameboy, registro
<1>5. ASSUME NEW c \in Colas, Escucha(c) PROVE FoundInv'
  BY <1>2, <1>3, <1>5 DEF Escucha
<1>6. {"APPEARED", "LOCALIZED", "CAUGHT"} = Colas
  BY DEF Colas
<1>7. QED
  BY <1>2, <1>4, <1>5, <1>6, SolicitudFound, HiloFound
     DEF Next, esperarBrokerAppeared, esperarBrokerLocalized, esperarBrokerCaught

-----------------------------------------------------------------------------
(***************************************************************************)
(* The process dies of a lost node only.                                   *)
(***************************************************************************)

\* A thread that goes on keeps its name.
LEMMA SigueNames ==
    ASSUME Types, NameInv, NEW h \in hilos, NEW g, g.m = h.m, g.n = h.n, Sigue(h, g)
    PROVE  NameInv' /\ g \notin hilos \ {h}
<1>1. Nodo(g) = Nodo(h)
  BY DEF Nodo
<1>2. g \notin hilos \ {h}
  BY <1>1 DEF NameInv
<1>3. \A x, y \in hilos' : Nodo(x) = Nodo(y) => x = y
  BY <1>1 DEF NameInv, Sigue
<1>4. ASSUME NEW m PROVE Cardinality(Copias(m)') = Cardinality(Copias(m))
  <2>1. IsFiniteSet(Copias(m)) /\ Cardinality(Copias(m)) \in Nat
    BY FS_Subset, FS_CardinalityType DEF Types, Copias
  <2>2. CASE m # h.m
    BY <2>2 DEF Copias, Sigue
  <2>3. CASE m = h.m
    <3> DEFINE rest == Copias(m) \ {h}
    <3>1. Copias(m)' = rest \cup {g} /\ h \in Copias(m) /\ g \notin rest
      BY <1>2, <2>3 DEF Copias, Sigue
    <3>2. IsFiniteSet(rest) /\ Cardinality(rest) = Cardinality(Copias(m)) - 1
      BY <2>1, <3>1, FS_RemoveElement
    <3> HIDE DEF rest
    <3>3. Cardinality(rest \cup {g}) = Cardinality(rest) + 1
      BY <3>1, <3>2, FS_AddElement
    <3>4. QED
      BY <2>1, <3>1, <3>2, <3>3
  <2>4. QED
    BY <2>2, <2>3
<1>5. \A x \in hilos' : x.n < Cardinality(Copias(x.m)')
  BY <1>4 DEF NameInv, Sigue
<1>6. QED
  BY <1>2, <1>3, <1>5 DEF NameInv, Nodo, Copias

\* A new thread has a name of its own.
LEMMA NuevoNames ==
    ASSUME Types, NameInv, NEW m \in Ids, Cardinality(Copias(m)) <= MaxCortes,
           hilos' = hilos \cup {NuevoHilo(m)}
    PROVE  NameInv' /\ NuevoHilo(m) \notin hilos
<1>0. PICK nuevo : nuevo = NuevoHilo(m)
  OBVIOUS
<1>1. nuevo.m = m /\ nuevo.n = Cardinality(Copias(m))
  BY <1>0 DEF NuevoHilo
<1>2. hilos' = hilos \cup {nuevo}
  BY <1>0
<1>3. IsFiniteSet(Copias(m)) /\ Cardinality(Copias(m)) \in Nat
  BY FS_Subset, FS_CardinalityType DEF Types, Copias
<1>4. \A x \in hilos : x.n \in Nat /\ Nodo(x) # Nodo(nuevo)
  <2>1. ASSUME NEW x \in hilos PROVE x.n \in Nat /\ Nodo(x) # Nodo(nuevo)
    <3>1. x.n \in Nat
      BY MessageFacts DEF Types, Hilo
    <3>2. x.m = m => x.n < Cardinality(Copias(m))
      BY DEF NameInv
    <3>3. QED
      BY <1>1, <1>3, <3>1, <3>2 DEF Nodo
  <2>2. QED
    BY <2>1
<1>5. \A x, y \in hilos' : Nodo(x) = Nodo(y) => x = y
  BY <1>2, <1>4 DEF NameInv
<1>6. nuevo \notin hilos
  BY <1>4
<1>7. Copias(m)' = Copias(m) \cup {nuevo} /\ nuevo \notin Copias(m)
      /\ \A k : k # m => Copias(k)' = Copias(k)
  BY <1>1, <1>2, <1>6 DEF Copias
<1>8. Cardinality(Copias(m)') = Cardinality(Copias(m)) + 1
  BY <1>3, <1>7, FS_AddElement
<1>9. \A x \in hilos' : x.n < Cardinality(Copias(x.m)')
  <2>1. ASSUME NEW x \in hilos PROVE x.n < Cardinality(Copias(x.m)')
    <3>1. CASE x.m = m
      <4>1. x.n < Cardinality(Copias(m))
        BY <3>1 DEF NameInv
      <4>2. QED
        BY <1>3, <1>4, <1>8, <3>1, <4>1
    <3>2. CASE x.m # m
      BY <1>7, <3>2 DEF NameInv
    <3>3. QED
      BY <3>1, <3>2
  <2>2. nuevo.n < Cardinality(Copias(nuevo.m)')
    BY <1>1, <1>3, <1>8 DEF Copias
  <2>3. QED
    BY <1>2, <2>1, <2>2
<1>10. QED
  BY <1>0, <1>5, <1>6, <1>9 DEF NameInv, Nodo, Copias

\* While no node is lost, the list has one for each that was counted.
LEMMA CountedAreThere ==
    ASSUME Types, NameInv, ListInv, Perdidos = {}
    PROVE  elementos <= Len(recibidos)
<1>1. recibidos \in Seq(Ids \X Nat) /\ Len(recibidos) \in Nat /\ DOMAIN recibidos = 1 .. Len(recibidos)
  BY LenProperties DEF Types
<1>2. IsFiniteSet(1 .. Len(recibidos)) /\ Cardinality(1 .. Len(recibidos)) = Len(recibidos)
  BY <1>1, FS_Interval
<1> DEFINE place == [h \in Contados |-> CHOOSE i \in 1 .. Len(recibidos) : recibidos[i] = Nodo(h)]
<1>3. \A h \in Contados : \E i \in 1 .. Len(recibidos) : recibidos[i] = Nodo(h)
  BY <1>1 DEF Contados, Contado, Perdidos, ToSet
<1>4. \A h \in Contados : place[h] \in 1 .. Len(recibidos) /\ recibidos[place[h]] = Nodo(h)
  BY <1>3
<1>5. \A h, g \in Contados : place[h] = place[g] => h = g
  BY <1>4 DEF NameInv, Contados
<1>6. place \in Injection(Contados, 1 .. Len(recibidos))
  BY <1>4, <1>5 DEF Injection, IsInjective
<1>7. Cardinality(Contados) <= Len(recibidos)
  BY <1>2, <1>6, FS_Injection
<1>8. Cardinality(Contados) \in Nat /\ elementos \in Nat
  BY FS_Subset, FS_CardinalityType DEF Types, Contados
<1>9. QED
  BY <1>1, <1>7, <1>8 DEF ListInv

\* A thread goes on without counting.
LEMMA SigueList ==
    ASSUME Types, NameInv, ListInv, NEW h \in hilos, NEW g, g.m = h.m, g.n = h.n, Sigue(h, g),
           Contado(g) <=> Contado(h), UNCHANGED elementos,
           g.pc \in {"filtra", "get", "catch", "mira", "tira", "agrega"} => g.visto = SinNodo,
           g.pc \in {"suma", "guarda"} => g.visto = Nodo(g),
           g.pc = "guarda" => g.cuenta <= Cardinality(Contados) + 1,
           DiesOfLostNode'
    PROVE  ListInv'
<1>1. g \notin hilos \ {h}
  BY SigueNames
<1>2. IsFiniteSet(Contados) /\ Cardinality(Contados) \in Nat
  BY FS_Subset, FS_CardinalityType DEF Types, Contados
<1>3. Cardinality(Contados') = Cardinality(Contados)
  <2>1. CASE ~Contado(h)
    <3>1. Contados' = Contados
      BY <2>1 DEF Contados, Sigue
    <3>2. QED
      BY <3>1
  <2>2. CASE Contado(h)
    <3> DEFINE rest == Contados \ {h}
    <3>1. Contados' = rest \cup {g} /\ h \in Contados /\ g \notin rest
      BY <1>1, <2>2 DEF Contados, Sigue
    <3>2. IsFiniteSet(rest) /\ Cardinality(rest) = Cardinality(Contados) - 1
      BY <1>2, <3>1, FS_RemoveElement
    <3> HIDE DEF rest
    <3>3. Cardinality(rest \cup {g}) = Cardinality(rest) + 1
      BY <3>1, <3>2, FS_AddElement
    <3>4. QED
      BY <1>2, <3>1, <3>2, <3>3
  <2>3. QED
    BY <2>1, <2>2
<1>4. \A x \in hilos' : x = g \/ x \in hilos
  BY DEF Sigue
<1>5. QED
  BY <1>3, <1>4 DEF ListInv

\* One step per action of the thread of a message.
LEMMA HiloList ==
    ASSUME Types, NameInv, ListInv, NEW h \in hilos, procesarHilo(h)
    PROVE  NameInv' /\ ListInv'
<1> USE DEF registro
<1>1. /\ h \in Hilo /\ h.cuenta \in Nat /\ h.m \in Ids /\ elementos \in Nat /\ Vive
      /\ Nodo(h) # SinNodo /\ IsFiniteSet(Contados) /\ Cardinality(Contados) \in Nat
  <2>1. h \in Hilo /\ h.cuenta \in Nat /\ h.m \in Ids /\ elementos \in Nat /\ Vive
    BY DEF Types, Hilo, procesarHilo
  <2>2. h.m # 0
    BY <2>1, MessageFacts
  <2>3. Nodo(h) # SinNodo
    BY <2>2 DEF Nodo, SinNodo
  <2>4. QED
    BY <2>1, <2>3, FS_Subset, FS_CardinalityType DEF Types, Contados
<1>2. ASSUME NEW g, Sigue(h, g), g.pc # "muere" PROVE DiesOfLostNode'
  BY <1>1, <1>2 DEF DiesOfLostNode, Vive, Sigue
<1>3. ASSUME NEW pc1 \in {"mira", "tira", "agrega", "entrega", "fin"},
             Sigue(h, [h EXCEPT !.pc = pc1]),
             pc1 \in {"entrega", "fin"} \/ h.pc \in {"filtra", "get", "catch", "mira"},
             h.pc \notin {"enlaza", "suma", "guarda"},
             UNCHANGED elementos
      PROVE  NameInv' /\ ListInv'
  <2> DEFINE g == [h EXCEPT !.pc = pc1]
  <2>1. g.m = h.m /\ g.n = h.n /\ g.visto = h.visto /\ g.pc = pc1
    BY <1>1 DEF Hilo
  <2> HIDE DEF g
  <2>2. Sigue(h, g)
    BY <1>3 DEF g
  <2>3. /\ Contado(g) <=> Contado(h)
        /\ g.pc \in {"filtra", "get", "catch", "mira", "tira", "agrega"} => g.visto = SinNodo
        /\ g.pc \notin {"suma", "guarda", "muere"}
    BY <1>3, <2>1 DEF Contado, Nodo, ListInv
  <2>4. QED
    BY <1>2, <1>3, <2>1, <2>2, <2>3, SigueNames, SigueList
<1>4. CASE ConsultaGet(h) \/ Tira(h) \/ ConsultaRecibidos(h) \/ Filtra(h) \/ ConsultaCatch(h)
  <2>1. UNCHANGED elementos
    BY <1>4 DEF ConsultaGet, Tira, ConsultaRecibidos, Filtra, ConsultaCatch
  <2>2. h.pc \in {"get", "tira", "mira", "filtra", "catch"}
    BY <1>4 DEF ConsultaGet, Tira, ConsultaRecibidos, Filtra, ConsultaCatch
  <2>3. \E pc1 \in {"mira", "tira", "agrega", "entrega", "fin"} :
           Sigue(h, [h EXCEPT !.pc = pc1]) /\ (h.pc = "tira" => pc1 = "fin")
    BY <1>4 DEF ConsultaGet, Tira, ConsultaRecibidos, Filtra, ConsultaCatch
  <2>4. QED
    BY <1>3, <2>1, <2>2, <2>3
<1>5. CASE Agrega(h)
  <2> DEFINE g == [h EXCEPT !.pc = "enlaza", !.visto = Ultimo]
  <2>1. g.m = h.m /\ g.n = h.n /\ g.pc = "enlaza"
    BY <1>1 DEF Hilo
  <2>2. Sigue(h, g) /\ UNCHANGED elementos
    BY <1>5 DEF Agrega
  <2> HIDE DEF g
  <2>3. ~Contado(h) /\ ~Contado(g)
    BY <1>1, <1>5, <2>1 DEF Agrega, Contado, ListInv
  <2>4. QED
    BY <1>2, <2>1, <2>2, <2>3, SigueNames, SigueList
<1>6. CASE Enlaza(h)
  <2> DEFINE g == [h EXCEPT !.pc = "suma", !.visto = Nodo(h)]
  <2>1. g.m = h.m /\ g.n = h.n /\ g.pc = "suma" /\ g.visto = Nodo(g)
    BY <1>1 DEF Hilo, Nodo
  <2>2. Sigue(h, g) /\ UNCHANGED elementos
    BY <1>6 DEF Enlaza
  <2> HIDE DEF g
  <2>3. ~Contado(h) /\ ~Contado(g)
    BY <1>6, <2>1 DEF Enlaza, Contado
  <2>4. QED
    BY <1>2, <2>1, <2>2, <2>3, SigueNames, SigueList
<1>7. CASE Suma(h)
  <2> DEFINE g == [h EXCEPT !.pc = "guarda", !.cuenta = elementos + 1]
  <2>1. g.m = h.m /\ g.n = h.n /\ g.pc = "guarda" /\ g.visto = h.visto /\ g.cuenta = elementos + 1
    BY <1>1 DEF Hilo
  <2>2. Sigue(h, g) /\ UNCHANGED elementos
    BY <1>7 DEF Suma
  <2> HIDE DEF g
  <2>3. ~Contado(h) /\ ~Contado(g) /\ g.visto = Nodo(g)
    BY <1>7, <2>1 DEF Suma, Contado, ListInv, Nodo
  <2>4. g.cuenta <= Cardinality(Contados) + 1
    BY <1>1, <2>1 DEF ListInv
  <2>5. QED
    BY <1>2, <2>1, <2>2, <2>3, <2>4, SigueNames, SigueList
<1>8. CASE Guarda(h)
  <2> DEFINE g == [h EXCEPT !.pc = "entrega", !.cuenta = 0]
  <2>1. g.m = h.m /\ g.n = h.n /\ g.pc = "entrega" /\ g.visto = h.visto
    BY <1>1 DEF Hilo
  <2>2. Sigue(h, g) /\ elementos' = h.cuenta /\ h.pc = "guarda"
    BY <1>8 DEF Guarda
  <2> HIDE DEF g
  <2>3. NameInv' /\ g \notin hilos \ {h}
    BY <2>1, <2>2, SigueNames
  <2>4. Contado(g) /\ ~Contado(h) /\ h.cuenta <= Cardinality(Contados) + 1
    BY <2>1, <2>2 DEF Contado, ListInv, Nodo
  <2>5. Contados' = Contados \cup {g} /\ g \notin Contados
    BY <2>2, <2>3, <2>4 DEF Contados, Sigue
  <2>6. Cardinality(Contados') = Cardinality(Contados) + 1
    BY <1>1, <2>5, FS_AddElement
  <2>7. elementos' <= Cardinality(Contados')
    BY <2>2, <2>4, <2>6
  <2>8. ASSUME NEW x \in hilos'
        PROVE  /\ x.pc \in {"filtra", "get", "catch", "mira", "tira", "agrega"} => x.visto = SinNodo
               /\ x.pc \in {"suma", "guarda"} => x.visto = Nodo(x)
               /\ x.pc = "guarda" => x.cuenta <= Cardinality(Contados') + 1
    <3>1. CASE x = g
      BY <2>1, <3>1
    <3>2. CASE x # g
      <4>1. x \in hilos /\ x.cuenta \in Nat
        BY <2>2, <3>2 DEF Sigue, Types, Hilo
      <4>2. QED
        BY <1>1, <2>6, <4>1 DEF ListInv
    <3>3. QED
      BY <3>1, <3>2
  <2>9. DiesOfLostNode'
    BY <1>2, <2>1, <2>2
  <2>10. QED
    BY <2>3, <2>7, <2>8, <2>9 DEF ListInv
<1>9. CASE Muere(h)
  <2> DEFINE g == [h EXCEPT !.pc = "muere"]
  <2>1. g.m = h.m /\ g.n = h.n /\ g.pc = "muere" /\ g.visto = h.visto
    BY <1>1 DEF Hilo
  <2>2. /\ Sigue(h, g) /\ UNCHANGED <<elementos, recibidos>> /\ h.pc \in {"agrega", "mira"}
        /\ elementos > Len(recibidos)
    BY <1>9 DEF Muere, FaltaUnNodo
  <2> HIDE DEF g
  <2>3. Len(recibidos) \in Nat
    BY LenProperties DEF Types
  <2>4. Perdidos # {}
    BY <1>1, <2>2, <2>3, CountedAreThere
  <2>5. Perdidos' # {}
    <3>1. PICK x \in hilos : x.visto = Nodo(x) /\ Nodo(x) \notin ToSet(recibidos)
      BY <2>4 DEF Perdidos
    <3>2. x # h
      BY <1>1, <2>2, <3>1 DEF ListInv
    <3>3. x \in hilos'
      BY <2>2, <3>2 DEF Sigue
    <3>4. QED
      BY <2>2, <3>1, <3>3 DEF Perdidos
  <2>6. ~Contado(h) /\ ~Contado(g)
    BY <1>1, <2>1, <2>2 DEF Contado, ListInv, Nodo
  <2>7. QED
    BY <2>1, <2>2, <2>5, <2>6, SigueNames, SigueList DEF DiesOfLostNode
<1>10. CASE Entrega(h) /\ h.dados < De(h.m).lugares
  <2> DEFINE g == [h EXCEPT !.dados = h.dados + 1]
  <2>1. g.m = h.m /\ g.n = h.n /\ g.pc = h.pc /\ g.visto = h.visto
    BY <1>1 DEF Hilo
  <2>2. Sigue(h, g) /\ UNCHANGED elementos /\ h.pc = "entrega"
    BY <1>10 DEF Entrega
  <2> HIDE DEF g
  <2>3. Contado(g) <=> Contado(h)
    BY <2>1 DEF Contado, Nodo
  <2>4. QED
    BY <1>2, <2>1, <2>2, <2>3, SigueNames, SigueList
<1>11. CASE Entrega(h) /\ ~(h.dados < De(h.m).lugares)
  BY <1>3, <1>11 DEF Entrega
<1>12. QED
  BY <1>4, <1>5, <1>6, <1>7, <1>8, <1>9, <1>10, <1>11
     DEF procesarHilo, procesarLocalizedRecibido, procesarAppearedRecibido, procesarCaughtRecibido,
         list_add

\* A new thread has added nothing.
LEMMA NuevoList ==
    ASSUME Types, NameInv, ListInv, Vive, NEW m \in Ids, Cardinality(Copias(m)) <= MaxCortes,
           hilos' = hilos \cup {NuevoHilo(m)}, UNCHANGED elementos
    PROVE  NameInv' /\ ListInv'
<1> DEFINE nuevo == NuevoHilo(m)
<1>1. nuevo.pc \in {"filtra", "get", "catch"} /\ nuevo.m = m
  BY NuevoHiloProperties
<1>2. nuevo.visto = SinNodo
  BY DEF NuevoHilo
<1>3. hilos' = hilos \cup {nuevo}
  OBVIOUS
<1> HIDE DEF nuevo
<1>4. ~Contado(nuevo)
  <2>1. m # 0
    BY MessageFacts
  <2>2. QED
    BY <1>1, <1>2, <2>1 DEF Contado, Nodo, SinNodo
<1>5. Contados' = Contados
  BY <1>3, <1>4 DEF Contados
<1>6. DiesOfLostNode'
  BY <1>1, <1>3 DEF DiesOfLostNode, Vive
<1>7. NameInv'
  BY NuevoNames
<1>8. QED
  BY <1>1, <1>2, <1>3, <1>5, <1>6, <1>7 DEF ListInv

LEMMA NextList == BaseInv /\ NameInv /\ ListInv /\ [Next]_vars => NameInv' /\ ListInv'
<1> SUFFICES ASSUME BaseInv, NameInv, ListInv, [Next]_vars PROVE NameInv' /\ ListInv'
  OBVIOUS
<1>1. ASSUME UNCHANGED <<hilos, recibidos, elementos>> PROVE NameInv' /\ ListInv'
  BY <1>1 DEF NameInv, ListInv, Contados, Contado, Copias, Nodo, DiesOfLostNode, Vive, Perdidos
<1>2. CASE \/ \E m \in Ids : Publica(m)
           \/ \E c \in Colas : Envia(c) \/ SeCorta(c) \/ subscribirseACola(c) \/ Recibe(c)
                                 \/ Confirma(c)
           \/ solicitarPokemones
           \/ UNCHANGED vars
  BY <1>1, <1>2 DEF Publica, Envia, SeCorta, subscribirseACola, Recibe, Confirma,
                    solicitarPokemones, enviarGet, registrarGetEnEspera, vars, registro
<1>3. ASSUME NEW c \in Colas, Vive, Lanza(c) PROVE NameInv' /\ ListInv'
  <2>1. /\ UNCHANGED elementos
        /\ hilos' = hilos \cup {NuevoHilo(recibido[c])} /\ pcL[c] = "lanza"
    BY <1>3 DEF Lanza, registro
  <2>2. publicados \subseteq Ids /\ cortes \in Nat /\ cortes <= MaxCortes /\ MaxCortes \in Nat
    BY MessageFacts DEF BaseInv, Types
  <2>3. PICK m \in Ids : m = recibido[c]
    BY <2>1, <2>2 DEF BaseInv, PipeInv
  <2>4. Cardinality(Copias(m)) <= cortes
    BY <2>1, <2>3 DEF BaseInv, CopyInv
  <2>5. Cardinality(Copias(m)) \in Nat
    BY FS_Subset, FS_CardinalityType DEF BaseInv, Types, Copias
  <2>6. Cardinality(Copias(m)) <= MaxCortes
    BY <2>2, <2>4, <2>5
  <2>7. QED
    BY <1>3, <2>1, <2>3, <2>6, NuevoList DEF BaseInv
<1>4. CASE atenderGameboy
  <2>1. PICK m \in Ids : Copias(m) = {} /\ hilos' = hilos \cup {NuevoHilo(m)}
    BY <1>4 DEF atenderGameboy, BaseInv, Types
  <2>2. Cardinality(Copias(m)) <= MaxCortes
    BY <2>1, FS_EmptySet, MessageFacts
  <2>3. QED
    BY <1>4, <2>1, <2>2, NuevoList DEF atenderGameboy, registro, BaseInv
<1>5. ASSUME NEW c \in Colas, Escucha(c) PROVE NameInv' /\ ListInv'
  BY <1>2, <1>3, <1>5 DEF Escucha
<1>6. {"APPEARED", "LOCALIZED", "CAUGHT"} = Colas
  BY DEF Colas
<1>7. QED
  BY <1>2, <1>4, <1>5, <1>6, HiloList
     DEF Next, esperarBrokerAppeared, esperarBrokerLocalized, esperarBrokerCaught, BaseInv

LEMMA InitList == Init => NameInv /\ ListInv
<1> SUFFICES ASSUME Init PROVE NameInv /\ ListInv
  OBVIOUS
<1>1. Contados = {} /\ hilos = {} /\ elementos = 0
  BY DEF Init, Contados
<1>2. Cardinality(Contados) = 0
  BY <1>1, FS_EmptySet
<1>3. QED
  BY <1>1, <1>2 DEF NameInv, ListInv, DiesOfLostNode, Vive

LEMMA InvariantHolds == Spec => []IInv
<1>1. Init => IInv
  BY InitBase, InitFound, InitList DEF IInv
<1>2. IInv /\ [Next]_vars => IInv'
  BY NextBase, NextFound, NextList DEF IInv
<1>3. QED
  BY <1>1, <1>2, PTL DEF Spec

\* No message is forgotten between its connection and its thread: what the broker
\* has an acknowledgement of, and will not send again, is left to a thread
\* (ServidorTeam.c), however often the connections break. And the process dies only of
\* a node that was lost, when two threads added at once (ManejadorDeEventos.c).
THEOREM AcknowledgedIsAttended == Spec => []Attended
<1>1. IInv => Attended
  <2> SUFFICES ASSUME BaseInv, FoundInv, ListInv PROVE Attended
    BY DEF IInv
  <2>1. \A h \in hilos : h.dados \in 0 .. De(h.m).lugares /\ h.n \in 0 .. MaxCortes
    BY MessageFacts DEF BaseInv, Types, Hilo
  <2>2. \A c \in Colas : porEnviar[c] # {} \/ enVuelo[c] # Nada => c \in conectado
    BY DEF BaseInv, PipeInv
  <2>3. QED
    BY <2>1, <2>2 DEF BaseInv, Types, NodeInv, FoundInv, ListInv, Attended, TypeOK
<1>2. QED
  BY <1>1, InvariantHolds, PTL

LEMMA AtMostOne ==
    ASSUME NEW S, \A x, y \in S : x = y
    PROVE  Cardinality(S) <= 1
<1>1. CASE S = {}
  BY <1>1, FS_EmptySet
<1>2. ASSUME NEW x \in S PROVE Cardinality(S) <= 1
  <2>1. S = {x}
    OBVIOUS
  <2>2. QED
    BY <2>1, FS_Singleton
<1>3. QED
  BY <1>1, <1>2

\* Of the copies of an answer one at most finds what it answers: a catch is
\* answered once and the places of a species are told once, by a LOCALIZED
\* (RegistradorDeEventos.c), in whatever order the threads run.
THEOREM OneCopyAnswers == Spec => []AnsweredOnce
<1>1. IInv => AnsweredOnce
  <2> SUFFICES ASSUME BaseInv, FoundInv, NEW m \in Ids,
                      De(m).cola \in {"LOCALIZED", "CAUGHT"}
               PROVE  /\ Cardinality({h \in Copias(m) : h.dados > 0}) <= 1
                      /\ Cardinality(EntregadosDe("LOCALIZED", De(m).especie)) <= 1
    BY DEF AnsweredOnce, IInv
  <2>1. \A x, y \in {h \in Copias(m) : h.dados > 0} : x = y
    BY DEF Copias, FoundInv, Encontro
  <2>2. \A x \in EntregadosDe("LOCALIZED", De(m).especie) :
           x \in hilos /\ Encontro(x) /\ De(x.m).id = De(m).especie
    <3>1. \A x \in hilos : x.m \in Ids
      BY DEF BaseInv, Types, Hilo
    <3>2. QED
      BY <3>1, MessageFacts DEF EntregadosDe, FoundInv, Encontro
  <2>3. \A x, y \in EntregadosDe("LOCALIZED", De(m).especie) : x = y
    BY <2>2 DEF FoundInv
  <2>4. QED
    BY <2>1, <2>3, AtMostOne
<1>2. QED
  BY <1>1, InvariantHolds, PTL


-----------------------------------------------------------------------------
(* The end of the Team. FinalDeadlock is a specification of its own: Final *)
(* is a copy of it with the constants and the variables below, and what    *)
(* its ASSUMEs say of them are hypotheses here.                            *)

CONSTANTS Especies, Objetivo, Repartos

VARIABLES cap, espera, colaBlocked, colaReady, colaExit, tarea,
          semaforoDeadlock, primeraVez, deadlocks

Final == INSTANCE FinalDeadlock

\* hasta of Filtrar: what is taken of the first entries of s, for each number of them.
IsTaken(h, s, S, n) ==
    h = [i \in 0 .. n |-> IF i = 0 THEN << >>
                          ELSE IF s[i] \in S THEN Append(h[i - 1], s[i]) ELSE h[i - 1]]

LEMMA TakenExists ==
    ASSUME NEW s, NEW S, NEW n \in Nat
    PROVE  \E h : IsTaken(h, s, S, n)
<1> DEFINE T == {k \in 0 .. n : ~ \E h : IsTaken(h, s, S, k)}
<1>1. SUFFICES ASSUME T # {} PROVE FALSE
  OBVIOUS
<1>2. T \in SUBSET (0 .. n)
  OBVIOUS
<1> HIDE DEF T
<1>3. PICK k \in T : \A l \in T : k <= l
  BY <1>1, <1>2, LeastOf
<1>4. k \in 0 .. n /\ ~ \E h : IsTaken(h, s, S, k)
  BY DEF T
<1>5. CASE k = 0
  <2> DEFINE g == [i \in 0 .. 0 |-> << >>]
  <2>1. g = [i \in 0 .. 0 |-> IF i = 0 THEN << >>
                              ELSE IF s[i] \in S THEN Append(g[i - 1], s[i]) ELSE g[i - 1]]
    OBVIOUS
  <2>2. QED
    BY <1>4, <1>5, <2>1 DEF IsTaken
<1>6. CASE k # 0
  <2>1. k - 1 \in 0 .. n /\ ~(k <= k - 1)
    BY <1>4, <1>6
  <2>2. PICK f : IsTaken(f, s, S, k - 1)
    BY <1>3, <2>1 DEF T
  <2> DEFINE next(h, i) == IF i = 0 THEN << >>
                           ELSE IF s[i] \in S THEN Append(h[i - 1], s[i]) ELSE h[i - 1]
             g == [i \in 0 .. k |-> IF i = k THEN next(f, k) ELSE f[i]]
  <2>3. f = [i \in 0 .. k - 1 |-> next(f, i)]
    BY <2>2 DEF IsTaken
  <2>4. ASSUME NEW i \in 0 .. k PROVE g[i] = next(g, i)
    <3>1. CASE i = 0
      <4>1. i # k /\ 0 \in 0 .. k - 1
        BY <1>4, <1>6, <3>1
      <4>2. g[i] = f[0] /\ f[0] = << >>
        BY <2>3, <3>1, <4>1
      <4>3. QED
        BY <3>1, <4>2
    <3>2. CASE i # 0
      <4>1. i - 1 \in 0 .. k /\ i - 1 # k /\ (i # k => i \in 0 .. k - 1)
        BY <1>4, <3>2
      <4>2. g[i - 1] = f[i - 1]
        BY <4>1
      <4>3. g[i] = next(f, i)
        BY <2>3, <4>1
      <4> HIDE DEF g
      <4>4. QED
        BY <3>2, <4>2, <4>3
    <3>3. QED
      BY <3>1, <3>2
  <2>5. g = [i \in 0 .. k |-> next(g, i)]
    <3>1. g = [i \in 0 .. k |-> g[i]]
      OBVIOUS
    <3> HIDE DEF g, next
    <3>2. QED
      BY <2>4, <3>1
  <2> HIDE DEF g
  <2>6. IsTaken(g, s, S, k)
    BY <2>5 DEF IsTaken
  <2>7. QED
    BY <1>4, <2>6
<1>7. QED
  BY <1>5, <1>6

\* r is taken from the first n entries of s: those that are in S, in order.
TakenFrom(r, s, S, n, X) ==
    /\ r \in Seq(X)
    /\ \A k \in 1 .. Len(r) : \E a \in 1 .. n : r[k] = s[a] /\ s[a] \in S
    /\ \A j, k \in 1 .. Len(r) :
          j < k => \E a, b \in 1 .. n : a < b /\ r[j] = s[a] /\ r[k] = s[b]

\* Filtrar returns entries of the list that are in the set, in their order.
LEMMA FiltrarProperties ==
    ASSUME NEW X, NEW s \in Seq(X), NEW S
    PROVE  TakenFrom(Final!Filtrar(s, S), s, S, Len(s), X)
<1> DEFINE h == CHOOSE g : IsTaken(g, s, S, Len(s))
           T == {i \in 0 .. Len(s) : ~ TakenFrom(h[i], s, S, i, X)}
<1>1. Len(s) \in Nat /\ \A i \in 1 .. Len(s) : s[i] \in X
  BY LenProperties, ElementOfSeq
<1>2. IsTaken(h, s, S, Len(s))
  BY <1>1, TakenExists
<1>3. Final!Filtrar(s, S) = h[Len(s)]
  BY DEF Final!Filtrar, IsTaken
<1> HIDE DEF h
<1>4. T = {}
  <2>1. SUFFICES ASSUME T # {} PROVE FALSE
    OBVIOUS
  <2>2. T \in SUBSET (0 .. Len(s))
    OBVIOUS
  <2> HIDE DEF T
  <2>3. PICK i \in T : \A l \in T : i <= l
    BY <1>1, <2>1, <2>2, LeastOf
  <2>4. i \in 0 .. Len(s) /\ ~ TakenFrom(h[i], s, S, i, X)
    BY DEF T
  <2>5. h[i] = IF i = 0 THEN << >>
               ELSE IF s[i] \in S THEN Append(h[i - 1], s[i]) ELSE h[i - 1]
    BY <1>2, <2>4 DEF IsTaken
  <2>6. CASE i = 0
    <3>1. << >> \in Seq(X) /\ Len(<< >>) = 0
      BY EmptySeq
    <3>2. QED
      BY <2>4, <2>5, <2>6, <3>1 DEF TakenFrom
  <2>7. CASE i # 0
    <3> DEFINE q == h[i - 1]
    <3>1. i - 1 \in 0 .. Len(s) /\ ~(i <= i - 1) /\ i \in 1 .. Len(s) /\ i \in Nat
      BY <1>1, <2>4, <2>7
    <3>2. TakenFrom(q, s, S, i - 1, X)
      BY <2>3, <3>1 DEF T
    <3> HIDE DEF q
    <3>3. q \in Seq(X) /\ Len(q) \in Nat
      BY <3>2, LenProperties DEF TakenFrom
    <3>4. TakenFrom(q, s, S, i, X)
      <4>1. \A a \in 1 .. i - 1 : a \in 1 .. i
        BY <3>1
      <4>2. QED
        BY <3>2, <4>1 DEF TakenFrom
    <3>5. CASE s[i] \notin S
      BY <2>4, <2>5, <2>7, <3>4, <3>5 DEF q
    <3>6. CASE s[i] \in S
      <4> DEFINE r == Append(q, s[i])
      <4>1. h[i] = r
        BY <2>5, <2>7, <3>6 DEF q
      <4>2. s[i] \in X
        BY <1>1, <3>1
      <4>3. /\ r \in Seq(X) /\ Len(r) = Len(q) + 1
            /\ \A k \in 1 .. Len(q) : r[k] = q[k]
            /\ r[Len(q) + 1] = s[i]
        BY <3>3, <4>2, AppendProperties
      <4> HIDE DEF r
      <4>4. ASSUME NEW k \in 1 .. Len(r)
            PROVE  \E a \in 1 .. i : r[k] = s[a] /\ s[a] \in S
        <5>1. CASE k = Len(q) + 1
          BY <3>1, <3>6, <4>3, <5>1
        <5>2. CASE k # Len(q) + 1
          <6>1. k \in 1 .. Len(q)
            BY <3>3, <4>3, <5>2
          <6>2. QED
            BY <3>4, <4>3, <6>1 DEF TakenFrom
        <5>3. QED
          BY <5>1, <5>2
      <4>5. ASSUME NEW j \in 1 .. Len(r), NEW k \in 1 .. Len(r), j < k
            PROVE  \E a, b \in 1 .. i : a < b /\ r[j] = s[a] /\ r[k] = s[b]
        <5>1. j \in 1 .. Len(q)
          BY <3>3, <4>3, <4>5
        <5>2. CASE k = Len(q) + 1
          <6>1. PICK a \in 1 .. i - 1 : q[j] = s[a]
            BY <3>2, <5>1 DEF TakenFrom
          <6>2. a < i /\ a \in 1 .. i /\ i \in 1 .. i
            BY <3>1
          <6>3. r[j] = s[a] /\ r[k] = s[i]
            BY <4>3, <5>1, <5>2, <6>1
          <6>4. QED
            BY <6>2, <6>3
        <5>3. CASE k # Len(q) + 1
          <6>1. k \in 1 .. Len(q)
            BY <3>3, <4>3, <5>3
          <6>2. PICK a \in 1 .. i, b \in 1 .. i : a < b /\ q[j] = s[a] /\ q[k] = s[b]
            BY <3>4, <4>5, <5>1, <6>1 DEF TakenFrom
          <6>3. QED
            BY <4>3, <5>1, <6>1, <6>2
        <5>4. QED
          BY <5>2, <5>3
      <4>6. QED
        BY <2>4, <4>1, <4>3, <4>4, <4>5 DEF TakenFrom
    <3>7. QED
      BY <3>5, <3>6
  <2>8. QED
    BY <2>6, <2>7
<1>5. Len(s) \in 0 .. Len(s)
  BY <1>1
<1>6. QED
  BY <1>3, <1>4, <1>5

Entry(T) == [nombre : T, de : Seq(T)]

\* An entry gets a pair of trainers that are free, itself and one it waits for, or none.
LEMMA ParProperties ==
    ASSUME NEW T, NEW d \in Entry(T), NEW busy, NEW p, p = Final!Par(d, busy)
    PROVE  \/ p = << >>
           \/ \E i \in 1 .. Len(d.de) :
                 p = <<d.nombre, d.de[i]>> /\ d.nombre \notin busy /\ d.de[i] \notin busy
<1> DEFINE S == Final!ToSet(d.de) \ busy
           free == Final!Filtrar(d.de, S)
<1>1. d.de \in Seq(T) /\ d.nombre \in T
  BY DEF Entry
<1>2. S \cap busy = {}
  OBVIOUS
<1>3. p = IF d.nombre \in busy \/ free = << >> THEN << >> ELSE <<d.nombre, free[1]>>
  BY DEF Final!Par
<1> HIDE DEF S
<1>4. TakenFrom(free, d.de, S, Len(d.de), T)
  BY <1>1, FiltrarProperties
<1> HIDE DEF free
<1>5. CASE d.nombre \in busy \/ free = << >>
  BY <1>3, <1>5
<1>6. CASE ~(d.nombre \in busy \/ free = << >>)
  <2>1. 1 \in 1 .. Len(free)
    BY <1>4, <1>6, EmptySeq, LenProperties DEF TakenFrom
  <2>2. PICK i \in 1 .. Len(d.de) : free[1] = d.de[i] /\ d.de[i] \in S
    BY <1>4, <2>1 DEF TakenFrom
  <2>3. QED
    BY <1>2, <1>3, <1>6, <2>2
<1>7. QED
  BY <1>5, <1>6

\* involucrados of resolverDeadlock: who is in the pair of one of the first entries.
IsBusy(h, deps, n) ==
    h = [i \in 0 .. n |-> IF i = 0 THEN {}
                          ELSE UNION {o \cup Final!ToSet(Final!Par(deps[i], o)) : o \in {h[i - 1]}}]

LEMMA BusyExists ==
    ASSUME NEW deps, NEW n \in Nat
    PROVE  \E h : IsBusy(h, deps, n)
<1> DEFINE T == {k \in 0 .. n : ~ \E h : IsBusy(h, deps, k)}
<1>1. SUFFICES ASSUME T # {} PROVE FALSE
  OBVIOUS
<1>2. T \in SUBSET (0 .. n)
  OBVIOUS
<1> HIDE DEF T
<1>3. PICK k \in T : \A l \in T : k <= l
  BY <1>1, <1>2, LeastOf
<1>4. k \in 0 .. n /\ ~ \E h : IsBusy(h, deps, k)
  BY DEF T
<1> DEFINE more(o, i) == o \cup Final!ToSet(Final!Par(deps[i], o))
<1>5. CASE k = 0
  <2> DEFINE g == [i \in 0 .. 0 |-> {}]
  <2>1. g = [i \in 0 .. 0 |-> IF i = 0 THEN {} ELSE UNION {more(o, i) : o \in {g[i - 1]}}]
    OBVIOUS
  <2>2. QED
    BY <1>4, <1>5, <2>1 DEF IsBusy
<1>6. CASE k # 0
  <2>1. k - 1 \in 0 .. n /\ ~(k <= k - 1)
    BY <1>4, <1>6
  <2>2. PICK f : IsBusy(f, deps, k - 1)
    BY <1>3, <2>1 DEF T
  <2> DEFINE next(h, i) == IF i = 0 THEN {} ELSE UNION {more(o, i) : o \in {h[i - 1]}}
             g == [i \in 0 .. k |-> IF i = k THEN next(f, k) ELSE f[i]]
  <2>3. f = [i \in 0 .. k - 1 |-> next(f, i)]
    BY <2>2 DEF IsBusy
  <2> HIDE DEF more
  <2>4. ASSUME NEW i \in 0 .. k PROVE g[i] = next(g, i)
    <3>1. CASE i = 0
      <4>1. i # k /\ 0 \in 0 .. k - 1
        BY <1>4, <1>6, <3>1
      <4>2. g[i] = f[0] /\ f[0] = {}
        BY <2>3, <3>1, <4>1
      <4>3. QED
        BY <3>1, <4>2
    <3>2. CASE i # 0
      <4>1. i - 1 \in 0 .. k /\ i - 1 # k /\ (i # k => i \in 0 .. k - 1)
        BY <1>4, <3>2
      <4>2. g[i - 1] = f[i - 1]
        BY <4>1
      <4>3. g[i] = next(f, i)
        BY <2>3, <4>1
      <4> HIDE DEF g
      <4>4. QED
        BY <3>2, <4>2, <4>3
    <3>3. QED
      BY <3>1, <3>2
  <2>5. g = [i \in 0 .. k |-> next(g, i)]
    <3>1. g = [i \in 0 .. k |-> g[i]]
      OBVIOUS
    <3> HIDE DEF g, next
    <3>2. QED
      BY <2>4, <3>1
  <2> HIDE DEF g
  <2>6. IsBusy(g, deps, k)
    BY <2>5 DEF IsBusy, more
  <2>7. QED
    BY <1>4, <2>6
<1>7. QED
  BY <1>5, <1>6

\* Who is in a pair stays so.
LEMMA BusyGrows ==
    ASSUME NEW deps, NEW n \in Nat, NEW h, IsBusy(h, deps, n)
    PROVE  /\ \A i \in 1 .. n : Final!ToSet(Final!Par(deps[i], h[i - 1])) \subseteq h[i]
           /\ \A i, j \in 0 .. n : i <= j => h[i] \subseteq h[j]
<1>1. ASSUME NEW i \in 1 .. n
      PROVE  h[i] = h[i - 1] \cup Final!ToSet(Final!Par(deps[i], h[i - 1]))
  <2> DEFINE more(o) == o \cup Final!ToSet(Final!Par(deps[i], o))
  <2>1. i \in 0 .. n /\ i # 0
    OBVIOUS
  <2>2. h[i] = UNION {more(o) : o \in {h[i - 1]}}
    BY <2>1 DEF IsBusy
  <2> HIDE DEF more
  <2>3. h[i] = more(h[i - 1])
    BY <2>2
  <2>4. QED
    BY <2>3 DEF more
<1>2. ASSUME NEW i \in 0 .. n
      PROVE  \A j \in 0 .. n : i <= j => h[i] \subseteq h[j]
  <2> DEFINE T == {j \in 0 .. n : i <= j /\ ~(h[i] \subseteq h[j])}
  <2>1. SUFFICES ASSUME T # {} PROVE FALSE
    OBVIOUS
  <2>2. T \in SUBSET (0 .. n)
    OBVIOUS
  <2> HIDE DEF T
  <2>3. PICK j \in T : \A l \in T : j <= l
    BY <2>1, <2>2, LeastOf
  <2>4. j \in 0 .. n /\ i <= j /\ ~(h[i] \subseteq h[j])
    BY DEF T
  <2>5. j \in 1 .. n /\ j - 1 \in 0 .. n /\ i <= j - 1 /\ ~(j <= j - 1)
    BY <2>4
  <2>6. h[i] \subseteq h[j - 1]
    BY <2>3, <2>5 DEF T
  <2>7. h[j - 1] \subseteq h[j]
    BY <1>1, <2>5
  <2>8. QED
    BY <2>4, <2>6, <2>7
<1>3. QED
  BY <1>1, <1>2

\* No trainer is in two of the pairs of a round, and each moves to one it waits for.
LEMMA PairsProperties ==
    ASSUME NEW T, NEW deps \in Seq(Entry(T)), NEW r, r = Final!resolverDeadlock(deps)
    PROVE  /\ r \in Seq(T \X T)
           /\ \A k \in 1 .. Len(r) : \E i \in 1 .. Len(deps) : \E b \in 1 .. Len(deps[i].de) :
                 r[k] = <<deps[i].nombre, deps[i].de[b]>>
           /\ \A j, k \in 1 .. Len(r) :
                 j # k => {r[j][1], r[j][2]} \cap {r[k][1], r[k][2]} = {}
<1> DEFINE h == CHOOSE g : IsBusy(g, deps, Len(deps))
           par(i) == Final!Par(deps[i], h[i - 1])
           pares == [i \in 1 .. Len(deps) |-> par(i)]
           S == Final!ToSet(pares) \ {<< >>}
           X == {par(i) : i \in 1 .. Len(deps)}
<1>1. /\ Len(deps) \in Nat /\ DOMAIN deps = 1 .. Len(deps)
      /\ \A i \in 1 .. Len(deps) : deps[i] \in Entry(T)
  BY LenProperties, ElementOfSeq
<1>2. IsBusy(h, deps, Len(deps))
  BY <1>1, BusyExists
<1>3. r = Final!Filtrar(pares, S)
  BY <1>1 DEF Final!resolverDeadlock, IsBusy
<1> HIDE DEF h
<1>4. pares \in Seq(X) /\ Len(pares) = Len(deps)
  <2>1. pares \in [1 .. Len(deps) -> X]
    OBVIOUS
  <2> HIDE DEF pares, X
  <2>2. QED
    BY <1>1, <2>1, ListFromFunction
<1>5. \A p \in S : p # << >>
  OBVIOUS
<1>6. \A i \in 1 .. Len(deps) : pares[i] = par(i)
  OBVIOUS
<1> HIDE DEF pares, S
<1>7. TakenFrom(r, pares, S, Len(deps), X)
  BY <1>3, <1>4, FiltrarProperties
<1> HIDE DEF X, par
<1>8. Len(r) \in Nat /\ DOMAIN r = 1 .. Len(r)
  BY <1>7, LenProperties DEF TakenFrom
<1>9. ASSUME NEW i \in 1 .. Len(deps), par(i) # << >>
      PROVE  /\ \E b \in 1 .. Len(deps[i].de) : par(i) = <<deps[i].nombre, deps[i].de[b]>>
             /\ {par(i)[1], par(i)[2]} \cap h[i - 1] = {}
             /\ {par(i)[1], par(i)[2]} \subseteq h[i]
             /\ par(i) \in T \X T
  <2>1. par(i) = Final!Par(deps[i], h[i - 1])
    BY DEF par
  <2>2. PICK b \in 1 .. Len(deps[i].de) :
            /\ par(i) = <<deps[i].nombre, deps[i].de[b]>>
            /\ deps[i].nombre \notin h[i - 1] /\ deps[i].de[b] \notin h[i - 1]
    BY <1>1, <1>9, <2>1, ParProperties
  <2>3. Final!ToSet(par(i)) \subseteq h[i]
    BY <1>1, <1>2, <2>1, BusyGrows
  <2>4. par(i)[1] = deps[i].nombre /\ par(i)[2] = deps[i].de[b] /\ DOMAIN par(i) = 1 .. 2
    BY <2>2
  <2>5. par(i)[1] \in Final!ToSet(par(i)) /\ par(i)[2] \in Final!ToSet(par(i))
    BY <2>4 DEF Final!ToSet
  <2>6. deps[i].nombre \in T /\ deps[i].de[b] \in T
    BY <1>1, ElementOfSeq DEF Entry
  <2>7. QED
    BY <2>2, <2>3, <2>4, <2>5, <2>6
<1>10. ASSUME NEW k \in 1 .. Len(r)
       PROVE  \E i \in 1 .. Len(deps) : r[k] = par(i) /\ par(i) # << >>
  BY <1>5, <1>6, <1>7 DEF TakenFrom
<1>11. r \in Seq(T \X T)
  <2>1. r \in [1 .. Len(r) -> T \X T]
    <3>1. r \in [1 .. Len(r) -> X]
      BY <1>7, LenProperties DEF TakenFrom
    <3>2. \A k \in 1 .. Len(r) : r[k] \in T \X T
      BY <1>9, <1>10
    <3>3. QED
      BY <3>1, <3>2
  <2>2. QED
    BY <1>8, <2>1, ListFromFunction
<1>12. ASSUME NEW j \in 1 .. Len(r), NEW k \in 1 .. Len(r), j < k
       PROVE  {r[j][1], r[j][2]} \cap {r[k][1], r[k][2]} = {}
  <2>1. PICK a \in 1 .. Len(deps), b \in 1 .. Len(deps) :
            a < b /\ r[j] = pares[a] /\ r[k] = pares[b]
    BY <1>7, <1>12 DEF TakenFrom
  <2>2. r[j] = par(a) /\ r[k] = par(b) /\ par(a) # << >> /\ par(b) # << >>
    BY <1>6, <1>10, <2>1
  <2>3. {par(a)[1], par(a)[2]} \subseteq h[a] /\ {par(b)[1], par(b)[2]} \cap h[b - 1] = {}
    BY <1>9, <2>2
  <2>4. h[a] \subseteq h[b - 1]
    <3>1. a \in 0 .. Len(deps) /\ b - 1 \in 0 .. Len(deps) /\ a <= b - 1
      BY <1>1, <2>1
    <3>2. QED
      BY <1>1, <1>2, <3>1, BusyGrows
  <2>5. QED
    BY <2>2, <2>3, <2>4
<1>13. ASSUME NEW j \in 1 .. Len(r), NEW k \in 1 .. Len(r), j # k
       PROVE  {r[j][1], r[j][2]} \cap {r[k][1], r[k][2]} = {}
  <2>1. j < k \/ k < j
    BY <1>8, <1>13
  <2>2. QED
    BY <1>12, <2>1
<1>14. ASSUME NEW k \in 1 .. Len(r)
       PROVE  \E i \in 1 .. Len(deps) : \E b \in 1 .. Len(deps[i].de) :
                 r[k] = <<deps[i].nombre, deps[i].de[b]>>
  <2>1. PICK i \in 1 .. Len(deps) : r[k] = par(i) /\ par(i) # << >>
    BY <1>10
  <2>2. \E b \in 1 .. Len(deps[i].de) : par(i) = <<deps[i].nombre, deps[i].de[b]>>
    BY <1>9, <2>1
  <2>3. QED
    BY <2>1, <2>2
<1>15. QED
  BY <1>11, <1>13, <1>14

\* Who is in the entry of a trainer has a pokemon to spare that it lacks.
LEMMA DependenciasProperties ==
    ASSUME NEW T, NEW s \in Seq(T), NEW caps,
           NEW r, r = Final!crearListaDeDependencias(s, caps)
    PROVE  /\ r \in Seq(Entry(T))
           /\ \A k \in 1 .. Len(r) : \A b \in 1 .. Len(r[k].de) :
                 /\ r[k].nombre # r[k].de[b]
                 /\ Final!hayDependencias(Final!Sobra(r[k].de[b], caps[r[k].de[b]]),
                                          Final!Falta(r[k].nombre, caps[r[k].nombre]))
<1> DEFINE Waits(a, b) == a # b /\ Final!hayDependencias(Final!Sobra(b, caps[b]), Final!Falta(a, caps[a]))
           of(i) == {b \in Final!ToSet(s) : Waits(s[i], b)}
           entry(i) == [nombre |-> s[i], de |-> Final!Filtrar(s, of(i))]
           all == [i \in 1 .. Len(s) |-> entry(i)]
           S == {d \in Final!ToSet(all) : d.de # << >>}
<1>1. Len(s) \in Nat /\ DOMAIN s = 1 .. Len(s) /\ \A i \in 1 .. Len(s) : s[i] \in T
  BY LenProperties, ElementOfSeq
<1>2. r = Final!Filtrar(all, S)
  BY <1>1 DEF Final!crearListaDeDependencias
<1>3. \A i \in 1 .. Len(s) : \A x \in of(i) : Waits(s[i], x)
  OBVIOUS
<1> HIDE DEF Waits, of
<1>4. ASSUME NEW i \in 1 .. Len(s)
      PROVE  /\ entry(i) \in Entry(T)
             /\ \A b \in 1 .. Len(entry(i).de) : Waits(entry(i).nombre, entry(i).de[b])
  <2> DEFINE q == Final!Filtrar(s, of(i))
  <2>1. TakenFrom(q, s, of(i), Len(s), T)
    BY FiltrarProperties
  <2> HIDE DEF q
  <2>2. entry(i) = [nombre |-> s[i], de |-> q]
    BY DEF q
  <2>3. q \in Seq(T) /\ s[i] \in T
    BY <1>1, <2>1 DEF TakenFrom
  <2>4. \A b \in 1 .. Len(q) : q[b] \in of(i)
    BY <2>1 DEF TakenFrom
  <2> HIDE DEF entry
  <2>5. QED
    BY <1>3, <2>2, <2>3, <2>4 DEF Entry
<1>5. \A i \in 1 .. Len(s) : all[i] = entry(i)
  OBVIOUS
<1>6. all \in Seq(Entry(T)) /\ Len(all) = Len(s)
  <2> HIDE DEF entry
  <2>1. all \in [1 .. Len(s) -> Entry(T)]
    BY <1>4
  <2> HIDE DEF all
  <2>2. QED
    BY <1>1, <2>1, ListFromFunction
<1> HIDE DEF all, S, entry
<1>7. TakenFrom(r, all, S, Len(s), Entry(T))
  BY <1>2, <1>6, FiltrarProperties
<1>8. ASSUME NEW k \in 1 .. Len(r) PROVE \E i \in 1 .. Len(s) : r[k] = entry(i)
  <2>1. PICK i \in 1 .. Len(s) : r[k] = all[i]
    BY <1>7 DEF TakenFrom
  <2>2. QED
    BY <1>5, <2>1
<1>9. ASSUME NEW k \in 1 .. Len(r), NEW b \in 1 .. Len(r[k].de)
      PROVE  Waits(r[k].nombre, r[k].de[b])
  BY <1>4, <1>8
<1>10. QED
  BY <1>7, <1>9 DEF TakenFrom, Waits

-----------------------------------------------------------------------------
(* What an exchange does *)

\* The sums of the specification are those of the lemmas on sums.
LEMMA SumsAreTheSame ==
    ASSUME NEW f
    PROVE  Final!SumFunction(f) = SumFunctionOnSet(f, DOMAIN f)
BY DEF Final!SumFunction, Final!SumFunctionOnSet, Final!FoldFunctionOnSet, Final!MapThenFoldSet,
       SumFunctionOnSet, FoldFunctionOnSet, MapThenFoldSet

Lack(t, c) == SumFunctionOnSet(Final!Falta(t, c), Especies)

LEMMA TeamProperties ==
    ASSUME Final!TeamAssumption
    PROVE  /\ IsFiniteSet(Especies) /\ IsFiniteSet(Final!Entrenadores)
           /\ \A t \in Final!Entrenadores : Objetivo[t] \in [Especies -> Nat]
<1>1. Objetivo \in Seq([Especies -> Nat])
  BY DEF Final!TeamAssumption, Final!Contadores
<1>2. /\ Final!Entrenadores = 1 .. Len(Objetivo) /\ Len(Objetivo) \in Nat
      /\ \A t \in 1 .. Len(Objetivo) : Objetivo[t] \in [Especies -> Nat]
  BY <1>1, LenProperties, ElementOfSeq DEF Final!Entrenadores
<1>3. IsFiniteSet(1 .. Len(Objetivo))
  BY <1>2, FS_Interval
<1>4. IsFiniteSet(Especies)
  BY DEF Final!TeamAssumption, Final!IsFiniteSet, IsFiniteSet
<1>5. QED
  BY <1>2, <1>3, <1>4

LEMMA LackProperties ==
    ASSUME Final!TeamAssumption, NEW t \in Final!Entrenadores, NEW c \in Final!Contadores
    PROVE  /\ \A e \in Especies :
                 /\ Final!Falta(t, c)[e] \in Nat
                 /\ Final!Falta(t, c)[e] = IF Objetivo[t][e] > c[e] THEN Objetivo[t][e] - c[e] ELSE 0
           /\ Lack(t, c) \in Nat
           /\ Final!totalDePokemones(Final!Falta(t, c)) = Lack(t, c)
<1>1. Objetivo[t] \in [Especies -> Nat] /\ c \in [Especies -> Nat] /\ IsFiniteSet(Especies)
  BY TeamProperties DEF Final!Contadores
<1>2. /\ DOMAIN Final!Falta(t, c) = Especies
      /\ \A e \in Especies :
            /\ Final!Falta(t, c)[e] \in Nat
            /\ Final!Falta(t, c)[e] = IF Objetivo[t][e] > c[e] THEN Objetivo[t][e] - c[e] ELSE 0
  BY <1>1 DEF Final!Falta, Final!Resto
<1>3. Lack(t, c) \in Nat
  BY <1>1, <1>2, SumProperties DEF Lack
<1>4. Final!totalDePokemones(Final!Falta(t, c)) = Lack(t, c)
  BY <1>2, SumsAreTheSame DEF Final!totalDePokemones, Lack
<1>5. QED
  BY <1>2, <1>3, <1>4

LEMMA DeficitIsSum ==
    ASSUME Final!TeamAssumption, NEW caps \in [Final!Entrenadores -> Final!Contadores]
    PROVE  Final!Deficit(caps)
             = SumFunctionOnSet([t \in Final!Entrenadores |-> Lack(t, caps[t])], Final!Entrenadores)
<1> DEFINE f == [t \in Final!Entrenadores |-> Final!totalDePokemones(Final!Falta(t, caps[t]))]
           g == [t \in Final!Entrenadores |-> Lack(t, caps[t])]
<1>1. \A t \in Final!Entrenadores :
         Final!totalDePokemones(Final!Falta(t, caps[t])) = Lack(t, caps[t])
  BY LackProperties
<1>2. f = g
  BY <1>1
<1>3. DOMAIN f = Final!Entrenadores
  OBVIOUS
<1>4. Final!Deficit(caps) = Final!SumFunction(f)
  BY DEF Final!Deficit
<1> HIDE DEF f, g
<1>5. QED
  BY <1>2, <1>3, <1>4, SumsAreTheSame DEF g

\* The exchange a trainer was assigned: of the pokemons it gives it has one too many,
\* and of those it gets it lacks one and the other trainer has one too many.
Helpful(caps, t, i) ==
    /\ i.con \in Final!Entrenadores /\ i.con # t
    /\ i.entrega \in Especies /\ i.recibe \in Especies
    /\ caps[t][i.entrega] > Objetivo[t][i.entrega]
    /\ caps[t][i.recibe] < Objetivo[t][i.recibe]
    /\ caps[i.con][i.recibe] > Objetivo[i.con][i.recibe]

\* Such an exchange leaves less to get, and no third trainer takes part.
LEMMA HelpfulExchange ==
    ASSUME Final!TeamAssumption, NEW caps \in [Final!Entrenadores -> Final!Contadores],
           NEW t \in Final!Entrenadores, NEW i, Helpful(caps, t, i),
           NEW new, new = Final!intercambiarPokemon(caps, t, i.con, i.entrega, i.recibe)
    PROVE  /\ new \in [Final!Entrenadores -> Final!Contadores]
           /\ \A u \in Final!Entrenadores \ {t, i.con} : new[u] = caps[u]
           /\ Final!Deficit(new) < Final!Deficit(caps)
<1> DEFINE T == Final!Entrenadores
           c == i.con
           e == i.entrega
           r == i.recibe
           mine == [Especies -> Nat]
<1>1. /\ c \in T /\ c # t /\ e \in Especies /\ r \in Especies /\ e # r
      /\ caps[t] \in mine /\ caps[c] \in mine
      /\ Objetivo[t] \in mine /\ Objetivo[c] \in mine
      /\ caps[t][e] > Objetivo[t][e] /\ caps[t][r] < Objetivo[t][r]
      /\ caps[c][r] > Objetivo[c][r]
  <2>1. c \in T /\ c # t /\ e \in Especies /\ r \in Especies
    BY DEF Helpful
  <2>2. /\ caps[t] \in mine /\ caps[c] \in mine
        /\ Objetivo[t] \in mine /\ Objetivo[c] \in mine
    BY <2>1, TeamProperties DEF Final!Contadores
  <2>3. /\ caps[t][e] > Objetivo[t][e] /\ caps[t][r] < Objetivo[t][r]
        /\ caps[c][r] > Objetivo[c][r]
    BY DEF Helpful
  <2>4. e # r
    <3>1. \A x \in Especies : caps[t][x] \in Nat /\ Objetivo[t][x] \in Nat
      BY <2>2
    <3>2. QED
      BY <2>1, <2>3, <3>1
  <2>5. QED
    BY <2>1, <2>2, <2>3, <2>4
<1> DEFINE newT == [[caps[t] EXCEPT ![e] = @ - 1] EXCEPT ![r] = @ + 1]
           newC == [[caps[c] EXCEPT ![r] = @ - 1] EXCEPT ![e] = @ + 1]
<1>2. caps[t][e] > 0 /\ caps[c][r] > 0
  BY <1>1, SMTT(20)
<1>3. /\ Final!reemplazarPokemonCapturadoPor(caps[t], e, r) = newT
      /\ Final!reemplazarPokemonCapturadoPor(caps[c], r, e) = newC
  BY <1>2 DEF Final!reemplazarPokemonCapturadoPor, Final!registrarCaptura, Final!quitarPokemon
<1>4. newT \in mine /\ newC \in mine
  <2>1. caps[t][e] - 1 \in Nat /\ caps[c][r] - 1 \in Nat
    BY <1>1, <1>2, SMTT(20)
  <2>2. [caps[t] EXCEPT ![e] = @ - 1] \in mine /\ [caps[c] EXCEPT ![r] = @ - 1] \in mine
    BY <1>1, <2>1
  <2>3. QED
    BY <2>2, SMTT(20)
<1>5. /\ \A x \in Especies \ {e, r} : newT[x] = caps[t][x] /\ newC[x] = caps[c][x]
      /\ newT[e] = caps[t][e] - 1 /\ newT[r] = caps[t][r] + 1
      /\ newC[r] = caps[c][r] - 1 /\ newC[e] = caps[c][e] + 1
  BY <1>1
<1>6. new = [caps EXCEPT ![t] = Final!reemplazarPokemonCapturadoPor(@, e, r),
                         ![c] = Final!reemplazarPokemonCapturadoPor(@, r, e)]
  BY <1>2 DEF Final!intercambiarPokemon
<1> HIDE DEF newT, newC, c, e, r, mine
<1>7. /\ DOMAIN new = T /\ new[t] = newT /\ new[c] = newC
      /\ \A u \in T \ {t, c} : new[u] = caps[u]
      /\ new = [u \in T |-> new[u]]
  BY <1>1, <1>3, <1>6
<1>8. new \in [T -> Final!Contadores]
  BY <1>4, <1>7 DEF Final!Contadores, mine
<1>9. Lack(t, newT) + 1 <= Lack(t, caps[t])
  <2> DEFINE f == Final!Falta(t, newT)
             g == Final!Falta(t, caps[t])
  <2>1. /\ \A x \in Especies : f[x] = IF Objetivo[t][x] > newT[x] THEN Objetivo[t][x] - newT[x] ELSE 0
        /\ \A x \in Especies :
              g[x] = IF Objetivo[t][x] > caps[t][x] THEN Objetivo[t][x] - caps[t][x] ELSE 0
        /\ \A x \in Especies : f[x] \in Nat /\ g[x] \in Nat
    BY <1>1, <1>4, LackProperties DEF Final!Contadores, mine
  <2>2. \A x \in Especies : newT[x] \in Nat /\ caps[t][x] \in Nat /\ Objetivo[t][x] \in Nat
    BY <1>1, <1>4 DEF mine
  <2> HIDE DEF f, g
  <2>3. f[r] + 1 <= g[r]
    BY <1>1, <1>5, <2>1, <2>2, SMTT(20)
  <2>4. ASSUME NEW x \in Especies \ {r} PROVE f[x] <= g[x]
    <3>1. CASE x = e
      BY <1>1, <1>5, <2>1, <2>2, <3>1, SMTT(20)
    <3>2. CASE x # e
      BY <1>5, <2>1, <2>2, <3>2
    <3>3. QED
      BY <3>1, <3>2
  <2>5. IsFiniteSet(Especies)
    BY TeamProperties
  <2>6. QED
    BY <1>1, <2>1, <2>3, <2>4, <2>5, SumAdds DEF Lack, f, g
<1>10. Lack(c, newC) <= Lack(c, caps[c])
  <2> DEFINE f == Final!Falta(c, newC)
             g == Final!Falta(c, caps[c])
  <2>1. /\ \A x \in Especies : f[x] = IF Objetivo[c][x] > newC[x] THEN Objetivo[c][x] - newC[x] ELSE 0
        /\ \A x \in Especies :
              g[x] = IF Objetivo[c][x] > caps[c][x] THEN Objetivo[c][x] - caps[c][x] ELSE 0
        /\ \A x \in Especies : f[x] \in Nat /\ g[x] \in Nat
    BY <1>1, <1>4, LackProperties DEF Final!Contadores, mine
  <2>2. \A x \in Especies : newC[x] \in Nat /\ caps[c][x] \in Nat /\ Objetivo[c][x] \in Nat
    BY <1>1, <1>4 DEF mine
  <2> HIDE DEF f, g
  <2>3. ASSUME NEW x \in Especies PROVE f[x] <= g[x]
    <3>1. CASE x = e
      <4>1. newC[x] = caps[c][x] + 1
        BY <1>5, <3>1
      <4>2. QED
        BY <2>1, <2>2, <4>1
    <3>2. CASE x = r
      BY <1>1, <1>5, <2>1, <2>2, <3>2
    <3>3. CASE x # e /\ x # r
      BY <1>5, <2>1, <2>2, <3>3
    <3>4. QED
      BY <3>1, <3>2, <3>3
  <2>4. IsFiniteSet(Especies)
    BY TeamProperties
  <2>5. QED
    BY <2>1, <2>3, <2>4, SumMonotone DEF Lack, f, g
<1>11. Final!Deficit(new) < Final!Deficit(caps)
  <2> DEFINE f == [u \in T |-> Lack(u, new[u])]
             g == [u \in T |-> Lack(u, caps[u])]
  <2>1. \A u \in T : f[u] \in Nat /\ g[u] \in Nat
    BY <1>8, LackProperties
  <2>2. f[t] + 1 <= g[t]
    BY <1>7, <1>9
  <2>3. ASSUME NEW u \in T \ {t} PROVE f[u] <= g[u]
    <3>1. CASE u = c
      BY <1>7, <1>10, <3>1
    <3>2. CASE u # c
      <4>1. f[u] = g[u]
        BY <1>7, <3>2
      <4> HIDE DEF f, g
      <4>2. QED
        BY <2>1, <4>1
    <3>3. QED
      BY <3>1, <3>2
  <2>4. IsFiniteSet(T)
    BY TeamProperties
  <2>5. /\ Final!Deficit(new) = SumFunctionOnSet(f, T)
        /\ Final!Deficit(caps) = SumFunctionOnSet(g, T)
    BY <1>8, DeficitIsSum
  <2> HIDE DEF f, g
  <2>6. SumFunctionOnSet(f, T) + 1 <= SumFunctionOnSet(g, T)
    BY <2>1, <2>2, <2>3, <2>4, SumAdds
  <2>7. SumFunctionOnSet(f, T) \in Nat /\ SumFunctionOnSet(g, T) \in Nat
    BY <2>1, <2>4, SumProperties
  <2>8. QED
    BY <2>5, <2>6, <2>7
<1>12. QED
  BY <1>7, <1>8, <1>11 DEF c

-----------------------------------------------------------------------------
(* The invariant                                                           *)

\* What is assigned is helpful, and no trainer is in two of the exchanges.
FinalInv ==
    /\ cap \in [Final!Entrenadores -> Final!Contadores]
    /\ colaBlocked \in Seq(Final!Entrenadores)
    /\ colaReady \in Seq(Final!Entrenadores)
    /\ \A j, k \in 1 .. Len(colaReady) : j # k => colaReady[j] # colaReady[k]
    /\ DOMAIN tarea = {colaReady[k] : k \in 1 .. Len(colaReady)}
    /\ \A m \in DOMAIN tarea : Helpful(cap, m, tarea[m])
    /\ \A m, n \in DOMAIN tarea : m # n => tarea[m].con # n /\ tarea[m].con # tarea[n].con

LEMMA FinalInvInit ==
    ASSUME Final!TeamAssumption, Final!RepartosAssumption, Final!Init
    PROVE  FinalInv
<1>1. cap \in [Final!Entrenadores -> Final!Contadores]
  BY DEF Final!RepartosAssumption, Final!Init
<1>2. Final!Entrenadores = 1 .. Len(Objetivo) /\ Len(Objetivo) \in Nat
  BY LenProperties DEF Final!TeamAssumption, Final!Entrenadores
<1>3. colaBlocked \in Seq(Final!Entrenadores)
  <2> DEFINE f == [i \in 1 .. Len(Objetivo) |-> i]
  <2>1. f \in [1 .. Len(Objetivo) -> Final!Entrenadores]
    BY <1>2
  <2>2. colaBlocked = f
    BY <1>2 DEF Final!Init, Final!Equipo
  <2> HIDE DEF f
  <2>3. QED
    BY <1>2, <2>1, <2>2, ListFromFunction
<1>4. colaReady = << >> /\ DOMAIN tarea = {}
  BY DEF Final!Init
<1>5. << >> \in Seq(Final!Entrenadores) /\ Len(<< >>) = 0
  BY EmptySeq
<1>6. QED
  BY <1>1, <1>3, <1>4, <1>5 DEF FinalInv

\* A pair of trainers of which the first one needs what the other one can spare.
Matched(p) ==
    /\ p \in Final!Entrenadores \X Final!Entrenadores
    /\ p[1] # p[2]
    /\ Final!hayDependencias(Final!Sobra(p[2], cap[p[2]]), Final!Falta(p[1], cap[p[1]]))

\* The exchanges the service makes of such a pair are helpful.
LEMMA MatchedIsHelpful ==
    ASSUME Final!TeamAssumption, cap \in [Final!Entrenadores -> Final!Contadores],
           NEW p, Matched(p), NEW i \in Final!generarTareaDeIntercambio(p)
    PROVE  i.con = p[2] /\ Helpful(cap, p[1], i)
<1> DEFINE t == p[1]
           c == p[2]
<1>1. t \in Final!Entrenadores /\ c \in Final!Entrenadores /\ t # c
  BY DEF Matched
<1>2. \A u \in {t, c} : /\ cap[u] \in [Especies -> Nat]
                        /\ Objetivo[u] \in [Especies -> Nat]
  BY <1>1, TeamProperties DEF Final!Contadores
<1>3. \A u \in {t, c} : \A e \in Especies :
         /\ Final!Sobra(u, cap[u])[e] > 0 => cap[u][e] > Objetivo[u][e]
         /\ Final!Falta(u, cap[u])[e] > 0 => cap[u][e] < Objetivo[u][e]
  BY <1>2 DEF Final!Sobra, Final!Falta, Final!Resto
<1>4. PICK x \in Especies : Final!Sobra(c, cap[c])[x] > 0 /\ Final!Falta(t, cap[t])[x] > 0
  BY DEF Matched, Final!hayDependencias
<1>5. \A r \in Final!buscarPokemonQueNecesitoEnElOtro(t, c, cap) :
         r \in Especies /\ Final!Falta(t, cap[t])[r] > 0 /\ Final!Sobra(c, cap[c])[r] > 0
  BY <1>4 DEF Final!buscarPokemonQueNecesitoEnElOtro
<1>6. \A e \in Final!buscarPokemonQueNecesitoEnElOtro(c, t, cap) :
         e \in Especies /\ Final!Sobra(t, cap[t])[e] > 0
  BY DEF Final!buscarPokemonQueNecesitoEnElOtro
<1>7. /\ i.con = c
      /\ i.entrega \in Final!buscarPokemonQueNecesitoEnElOtro(c, t, cap)
      /\ i.recibe \in Final!buscarPokemonQueNecesitoEnElOtro(t, c, cap)
  BY DEF Final!generarTareaDeIntercambio
<1>8. QED
  BY <1>1, <1>3, <1>5, <1>6, <1>7 DEF Helpful

\* The pairs of a round are such pairs.
LEMMA PairsAreMatched ==
    ASSUME NEW s \in Seq(Final!Entrenadores),
           NEW r, r = Final!resolverDeadlock(Final!crearListaDeDependencias(s, cap))
    PROVE  /\ r \in Seq(Final!Entrenadores \X Final!Entrenadores)
           /\ \A k \in 1 .. Len(r) : Matched(r[k])
           /\ \A j, k \in 1 .. Len(r) :
                 j # k => {r[j][1], r[j][2]} \cap {r[k][1], r[k][2]} = {}
<1> DEFINE T == Final!Entrenadores
           deps == Final!crearListaDeDependencias(s, cap)
<1>1. /\ deps \in Seq(Entry(T))
      /\ \A k \in 1 .. Len(deps) : \A b \in 1 .. Len(deps[k].de) :
            /\ deps[k].nombre # deps[k].de[b]
            /\ Final!hayDependencias(Final!Sobra(deps[k].de[b], cap[deps[k].de[b]]),
                                     Final!Falta(deps[k].nombre, cap[deps[k].nombre]))
  BY DependenciasProperties
<1> HIDE DEF deps, T
<1>2. /\ r \in Seq(T \X T)
      /\ \A k \in 1 .. Len(r) : \E i \in 1 .. Len(deps) : \E b \in 1 .. Len(deps[i].de) :
            r[k] = <<deps[i].nombre, deps[i].de[b]>>
      /\ \A j, k \in 1 .. Len(r) :
            j # k => {r[j][1], r[j][2]} \cap {r[k][1], r[k][2]} = {}
  <2>1. r = Final!resolverDeadlock(deps)
    BY DEF deps
  <2>2. QED
    BY <1>1, <2>1, PairsProperties
<1>3. ASSUME NEW k \in 1 .. Len(r) PROVE Matched(r[k])
  <2>1. r[k] \in T \X T
    BY <1>2, ElementOfSeq
  <2>2. PICK i \in 1 .. Len(deps) : \E b \in 1 .. Len(deps[i].de) :
            r[k] = <<deps[i].nombre, deps[i].de[b]>>
    BY <1>2
  <2>3. PICK b \in 1 .. Len(deps[i].de) : r[k] = <<deps[i].nombre, deps[i].de[b]>>
    BY <2>2
  <2>4. r[k][1] = deps[i].nombre /\ r[k][2] = deps[i].de[b]
    BY <2>3
  <2>5. QED
    BY <1>1, <2>1, <2>4 DEF Matched, T
<1>4. QED
  BY <1>2, <1>3 DEF T

\* What the service assigns is helpful: nothing was assigned before, and each mover
\* gets the exchange of its own pair.
LEMMA AssignFinalInv ==
    ASSUME Final!TeamAssumption, FinalInv, cap' = cap, colaReady = << >>,
           NEW blocked \in Seq(Final!Entrenadores), NEW registered,
           NEW pairs \in Seq(Final!Entrenadores \X Final!Entrenadores),
           \A k \in 1 .. Len(pairs) : Matched(pairs[k]),
           \A j, k \in 1 .. Len(pairs) :
              j # k => {pairs[j][1], pairs[j][2]} \cap {pairs[k][1], pairs[k][2]} = {},
           Final!asignarIntercambios(blocked, registered, pairs)
    PROVE  FinalInv'
<1> DEFINE T == Final!Entrenadores
           movers == [i \in DOMAIN pairs |-> pairs[i][1]]
           possible == [i \in DOMAIN pairs |-> Final!generarTareaDeIntercambio(pairs[i])]
           at(m) == Final!SelectInSeq(movers, LAMBDA x : x = m)
<1>1. /\ DOMAIN pairs = 1 .. Len(pairs) /\ Len(pairs) \in Nat
      /\ \A k \in 1 .. Len(pairs) : pairs[k] \in T \X T
  BY LenProperties, ElementOfSeq
<1>2. PICK n \in [DOMAIN pairs -> UNION Final!Range(possible)] :
          /\ \A i \in DOMAIN pairs : n[i] \in possible[i]
          /\ tarea' = [m \in Final!ToSet(movers) |-> n[at(m)]]
          /\ colaReady' = colaReady \o movers
          /\ colaBlocked' = Final!Filtrar(blocked, Final!ToSet(blocked) \ Final!ToSet(movers))
  BY DEF Final!asignarIntercambios
<1>3. /\ movers \in Seq(T) /\ Len(movers) = Len(pairs)
      /\ \A k \in 1 .. Len(pairs) : movers[k] = pairs[k][1]
  <2>1. movers \in [1 .. Len(pairs) -> T]
    BY <1>1
  <2>2. \A k \in 1 .. Len(pairs) : movers[k] = pairs[k][1]
    BY <1>1
  <2> HIDE DEF movers
  <2>3. QED
    BY <1>1, <2>1, <2>2, ListFromFunction, ZenonT(60)
<1>4. \A k \in 1 .. Len(pairs) : n[k] \in Final!generarTareaDeIntercambio(pairs[k])
  BY <1>1, <1>2
<1> HIDE DEF possible
<1>5. ASSUME NEW k \in 1 .. Len(pairs) PROVE at(movers[k]) = k
  <2> DEFINE I == {j \in 1 .. Len(movers) : movers[j] = movers[k]}
  <2>1. ASSUME NEW j \in 1 .. Len(pairs), j # k PROVE movers[j] # movers[k]
    <3>1. {pairs[j][1], pairs[j][2]} \cap {pairs[k][1], pairs[k][2]} = {}
      BY <2>1
    <3>2. movers[j] = pairs[j][1] /\ movers[k] = pairs[k][1]
      BY <1>3
    <3>3. QED
      BY <3>1, <3>2
  <2>2. I = {k}
    BY <1>3, <2>1
  <2>3. at(movers[k]) = IF I # {} THEN Final!Min(I) ELSE 0
    BY DEF Final!SelectInSeq
  <2> HIDE DEF I
  <2>4. Final!Min({k}) = k
    BY <1>1 DEF Final!Min
  <2>5. QED
    BY <2>2, <2>3, <2>4
<1>6. Final!ToSet(movers) = {movers[k] : k \in 1 .. Len(pairs)}
  BY <1>1 DEF Final!ToSet
<1> HIDE DEF movers, at
<1>7. colaReady' = movers
  BY <1>2, <1>3, ConcatEmptySeq
<1>8. ASSUME NEW k \in 1 .. Len(pairs) PROVE tarea'[pairs[k][1]] = n[k]
  <2>1. movers[k] \in Final!ToSet(movers)
    BY <1>6
  <2>2. tarea'[movers[k]] = n[at(movers[k])]
    BY <1>2, <2>1
  <2>3. QED
    BY <1>3, <1>5, <2>2
<1>9. DOMAIN tarea' = {pairs[k][1] : k \in 1 .. Len(pairs)}
  BY <1>2, <1>3, <1>6, SMTT(20)
<1>10. ASSUME NEW k \in 1 .. Len(pairs)
       PROVE  n[k].con = pairs[k][2] /\ Helpful(cap, pairs[k][1], n[k])
  BY <1>4, MatchedIsHelpful DEF FinalInv
<1>11. colaBlocked' \in Seq(T)
  BY <1>2, FiltrarProperties DEF TakenFrom
<1>12. ASSUME NEW j \in 1 .. Len(pairs), NEW k \in 1 .. Len(pairs), j # k
       PROVE  colaReady'[j] # colaReady'[k]
  <2>1. {pairs[j][1], pairs[j][2]} \cap {pairs[k][1], pairs[k][2]} = {}
    BY <1>12
  <2>2. movers[j] = pairs[j][1] /\ movers[k] = pairs[k][1]
    BY <1>3
  <2>3. QED
    BY <1>7, <2>1, <2>2
<1>13. ASSUME NEW m \in DOMAIN tarea' PROVE Helpful(cap, m, tarea'[m])
  <2>1. PICK k \in 1 .. Len(pairs) : m = pairs[k][1]
    BY <1>9
  <2>2. tarea'[m] = n[k] /\ Helpful(cap, m, n[k])
    BY <1>8, <1>10, <2>1
  <2>3. QED
    BY <2>2
<1>14. ASSUME NEW m \in DOMAIN tarea', NEW o \in DOMAIN tarea', m # o
       PROVE  tarea'[m].con # o /\ tarea'[m].con # tarea'[o].con
  <2>1. PICK j \in 1 .. Len(pairs) : m = pairs[j][1]
    BY <1>9
  <2>2. PICK k \in 1 .. Len(pairs) : o = pairs[k][1]
    BY <1>9
  <2>3. tarea'[m].con = pairs[j][2] /\ tarea'[o].con = pairs[k][2]
    BY <1>8, <1>10, <2>1, <2>2
  <2>4. j # k
    BY <1>14, <2>1, <2>2
  <2>5. QED
    BY <2>1, <2>2, <2>3, <2>4
<1>15. DOMAIN tarea' = {colaReady'[k] : k \in 1 .. Len(colaReady')}
  <2>1. DOMAIN tarea' = {movers[k] : k \in 1 .. Len(movers)}
    BY <1>2, <1>3, <1>6
  <2>2. QED
    BY <1>7, <2>1
<1>16. cap' \in [T -> Final!Contadores]
  BY DEF FinalInv
<1>17. \A m \in DOMAIN tarea' : Helpful(cap', m, tarea'[m])
  BY <1>13
<1>18. QED
  BY <1>3, <1>7, <1>11, <1>12, <1>14, <1>15, <1>16, <1>17, ZenonT(60) DEF FinalInv

\* Only the exchanges, the captures and who is about to move matter.
LEMMA SameFinalInv ==
    ASSUME FinalInv, cap' = cap, colaReady' = colaReady, tarea' = tarea,
           colaBlocked' \in Seq(Final!Entrenadores)
    PROVE  FinalInv'
<1>1. \A m \in DOMAIN tarea' : Helpful(cap', m, tarea'[m])
  BY DEF FinalInv
<1>2. QED
  BY <1>1, ZenonT(60) DEF FinalInv

\* A round of the deadlock thread.
LEMMA RoundFinalInv ==
    ASSUME Final!TeamAssumption, FinalInv, Final!planificadorDeDeadlocks
    PROVE  FinalInv'
<1>1. PICK blocked :
          /\ blocked \in Seq(Final!Entrenadores)
          /\ cap' = cap
          /\ IF Final!evaluarEstadoPosibleDeadlock(blocked)
             THEN Final!procesarDeadlock(blocked)
             ELSE colaBlocked' = blocked /\ colaReady' = colaReady /\ tarea' = tarea
  <2>1. \A S : Final!Filtrar(colaBlocked, S) \in Seq(Final!Entrenadores)
    BY FiltrarProperties DEF FinalInv, TakenFrom
  <2>2. QED
    BY <2>1 DEF Final!planificadorDeDeadlocks
<1>2. CASE Final!evaluarEstadoPosibleDeadlock(blocked)
  <2> DEFINE s == Final!Filtrar(blocked, Final!ToSet(blocked) \ espera)
             pairs == Final!resolverDeadlock(Final!crearListaDeDependencias(s, cap))
  <2>1. s \in Seq(Final!Entrenadores)
    BY <1>1, FiltrarProperties DEF TakenFrom
  <2>2. colaReady = << >>
    BY <1>2 DEF Final!evaluarEstadoPosibleDeadlock
  <2>3. PICK registered : Final!asignarIntercambios(blocked, registered, pairs)
    BY <1>1, <1>2 DEF Final!procesarDeadlock
  <2> HIDE DEF s
  <2>4. /\ pairs \in Seq(Final!Entrenadores \X Final!Entrenadores)
        /\ \A k \in 1 .. Len(pairs) : Matched(pairs[k])
        /\ \A j, k \in 1 .. Len(pairs) :
              j # k => {pairs[j][1], pairs[j][2]} \cap {pairs[k][1], pairs[k][2]} = {}
    BY <2>1, PairsAreMatched
  <2> HIDE DEF pairs
  <2>5. QED
    BY <1>1, <2>2, <2>3, <2>4, AssignFinalInv
<1>3. CASE ~Final!evaluarEstadoPosibleDeadlock(blocked)
  <2>1. /\ cap' = cap /\ colaReady' = colaReady /\ tarea' = tarea
        /\ colaBlocked' \in Seq(Final!Entrenadores)
    BY <1>1, <1>3
  <2>2. QED
    BY <2>1, SameFinalInv
<1>4. QED
  BY <1>2, <1>3

\* An exchange: the others are of other trainers, so they stay helpful.
LEMMA ExchangeFinalInv ==
    ASSUME Final!TeamAssumption, FinalInv, Final!planificadorDeCortoPlazo
    PROVE  FinalInv' /\ Final!Deficit(cap') < Final!Deficit(cap)
<1> DEFINE T == Final!Entrenadores
           t == Head(colaReady)
           i == tarea[t]
<1>1. /\ colaReady # << >>
      /\ cap' = Final!intercambiarPokemon(cap, t, i.con, i.entrega, i.recibe)
      /\ colaBlocked' = Append(colaBlocked, t) \/ colaBlocked' = colaBlocked
      /\ tarea' = [m \in DOMAIN tarea \ {t} |-> tarea[m]]
      /\ colaReady' = Tail(colaReady)
  BY DEF Final!planificadorDeCortoPlazo
<1>2. /\ colaReady \in Seq(T) /\ Len(colaReady) \in Nat \ {0}
      /\ t = colaReady[1] /\ t \in T
      /\ Tail(colaReady) \in Seq(T) /\ Len(Tail(colaReady)) = Len(colaReady) - 1
      /\ \A k \in 1 .. Len(colaReady) - 1 : Tail(colaReady)[k] = colaReady[k + 1]
  <2>1. colaReady \in Seq(T)
    BY DEF FinalInv
  <2>2. Len(colaReady) \in Nat \ {0}
    BY <1>1, <2>1, EmptySeq
  <2>3. QED
    BY <1>1, <2>1, <2>2, HeadTailProperties
<1> HIDE DEF t
<1>3. t \in DOMAIN tarea
  BY <1>2 DEF FinalInv
<1>4. Helpful(cap, t, i)
  BY <1>3 DEF FinalInv
<1>5. /\ cap' \in [T -> Final!Contadores]
      /\ \A u \in T \ {t, i.con} : cap'[u] = cap[u]
      /\ Final!Deficit(cap') < Final!Deficit(cap)
  BY <1>1, <1>2, <1>4, HelpfulExchange DEF FinalInv
<1>6. colaBlocked' \in Seq(T)
  <2>1. colaBlocked \in Seq(T)
    BY DEF FinalInv
  <2>2. Append(colaBlocked, t) \in Seq(T)
    BY <1>2, <2>1, AppendProperties
  <2>3. QED
    BY <1>1, <2>1, <2>2
<1>7. \A j, k \in 1 .. Len(colaReady') : j # k => colaReady'[j] # colaReady'[k]
  <2>1. SUFFICES ASSUME NEW j \in 1 .. Len(colaReady'), NEW k \in 1 .. Len(colaReady'), j # k
                 PROVE  colaReady'[j] # colaReady'[k]
    OBVIOUS
  <2>2. j + 1 \in 1 .. Len(colaReady) /\ k + 1 \in 1 .. Len(colaReady) /\ j + 1 # k + 1
    BY <1>1, <1>2, <2>1
  <2>3. colaReady'[j] = colaReady[j + 1] /\ colaReady'[k] = colaReady[k + 1]
    BY <1>1, <1>2
  <2>4. QED
    BY <2>2, <2>3 DEF FinalInv
<1>8. DOMAIN tarea' = {colaReady'[k] : k \in 1 .. Len(colaReady')}
  <2>1. DOMAIN tarea' = DOMAIN tarea \ {t}
    BY <1>1
  <2>2. ASSUME NEW k \in 1 .. Len(colaReady') PROVE colaReady'[k] \in DOMAIN tarea \ {t}
    <3>1. k + 1 \in 1 .. Len(colaReady) /\ 1 \in 1 .. Len(colaReady) /\ k + 1 # 1
      BY <1>1, <1>2
    <3>2. colaReady'[k] = colaReady[k + 1]
      BY <1>1, <1>2
    <3>3. QED
      BY <1>2, <3>1, <3>2 DEF FinalInv
  <2>3. ASSUME NEW m \in DOMAIN tarea \ {t}
        PROVE  \E k \in 1 .. Len(colaReady') : m = colaReady'[k]
    <3>1. PICK k \in 1 .. Len(colaReady) : m = colaReady[k]
      BY DEF FinalInv
    <3>2. k - 1 \in 1 .. Len(colaReady')
      BY <1>1, <1>2, <3>1
    <3>3. colaReady'[k - 1] = colaReady[k]
      BY <1>1, <1>2, <3>2
    <3>4. QED
      BY <3>1, <3>2, <3>3
  <2>4. QED
    BY <2>1, <2>2, <2>3
<1>9. ASSUME NEW m \in DOMAIN tarea'
      PROVE  m \in DOMAIN tarea /\ m # t /\ tarea'[m] = tarea[m]
  BY <1>1
<1>10. ASSUME NEW m \in DOMAIN tarea' PROVE Helpful(cap', m, tarea'[m])
  <2>1. m \in DOMAIN tarea /\ m # t /\ tarea'[m] = tarea[m] /\ Helpful(cap, m, tarea[m])
    BY <1>9 DEF FinalInv
  <2>2. m # i.con /\ tarea[m].con # t /\ tarea[m].con # i.con
    BY <1>3, <2>1 DEF FinalInv
  <2>3. m \in T
    <3>1. PICK k \in 1 .. Len(colaReady) : m = colaReady[k]
      BY <2>1 DEF FinalInv
    <3>2. QED
      BY <1>2, <3>1, ElementOfSeq
  <2>4. tarea[m].con \in T
    BY <2>1 DEF Helpful
  <2>5. cap'[m] = cap[m] /\ cap'[tarea[m].con] = cap[tarea[m].con]
    BY <1>5, <2>1, <2>2, <2>3, <2>4
  <2>6. QED
    BY <2>1, <2>5 DEF Helpful
<1>11. \A m, o \in DOMAIN tarea' :
          m # o => tarea'[m].con # o /\ tarea'[m].con # tarea'[o].con
  BY <1>9 DEF FinalInv
<1>12. colaReady' \in Seq(T)
  BY <1>1, <1>2
<1>13. QED
  BY <1>5, <1>6, <1>7, <1>8, <1>10, <1>11, <1>12 DEF FinalInv

\* An exchange between two trainers leaves the team with fewer pokemons to get: what
\* asignarIntercambios pairs is still worth exchanging when the trainers meet, so the
\* greedy pairs of resolverDeadlock (ServicioDeResolucionDeDeadlocks.c:138) never go
\* back on what earlier ones achieved.
THEOREM ExchangesHelp ==
    ASSUME Final!TeamAssumption, Final!RepartosAssumption
    PROVE  Final!Spec => Final!EveryExchangeHelps
<1>1. FinalInv /\ [Final!Next]_(Final!vars) =>
          FinalInv' /\ [Final!planificadorDeCortoPlazo =>
                           Final!Deficit(cap') < Final!Deficit(cap)]_(Final!vars)
  <2> SUFFICES ASSUME FinalInv, [Final!Next]_(Final!vars)
               PROVE  FinalInv' /\ (\/ Final!vars' = Final!vars
                                    \/ Final!planificadorDeCortoPlazo =>
                                          Final!Deficit(cap') < Final!Deficit(cap))
    OBVIOUS
  <2>1. CASE UNCHANGED Final!vars
    <3>1. cap' = cap /\ colaReady' = colaReady /\ tarea' = tarea /\ colaBlocked' = colaBlocked
      BY <2>1 DEF Final!vars
    <3>2. FinalInv'
      BY <3>1, SameFinalInv DEF FinalInv
    <3>3. QED
      BY <2>1, <3>2
  <2>2. CASE Final!planificadorDeDeadlocks /\ ~Final!planificadorDeCortoPlazo
    BY <2>2, RoundFinalInv
  <2>3. CASE Final!planificadorDeCortoPlazo
    BY <2>3, ExchangeFinalInv
  <2>4. QED
    BY <2>1, <2>2, <2>3 DEF Final!Next
<1>2. QED
  BY <1>1, FinalInvInit, PTL DEF Final!Spec, Final!EveryExchangeHelps

=============================================================================
