------------------------ MODULE TrainerThreadProofs -------------------------
(***************************************************************************)
(* The planner and a trainer's thread hand the task to each other, for     *)
(* tasks of any size.                                                      *)
(*                                                                         *)
(* OneAtATime is not inductive: which thread may touch the task rests on   *)
(* where the tokens of the semaphores are (TokenInv), and that a cycle     *)
(* finds an instruction to do rests on the planner not asking for more     *)
(* cycles than are left (TurnInv).                                         *)
(***************************************************************************)
EXTENDS TrainerThread, TLAPS

\* The task agrees with what the trainer did of it.
TaskInv ==
    /\ tarea # NULL => /\ tarea.total > 0 /\ tarea.contador < tarea.total
                       /\ tarea.estado # "ABORTADA"
    /\ tarea = NULL => hechas = << >>
    /\ tarea.estado = "PENDIENTE_DE_EJECUCION" => Len(hechas) = tarea.contador
    /\ tarea.estado = "FINALIZADA" => tarea.contador + 1 = tarea.total /\ Len(hechas) = tarea.total
    /\ tarea.estado = "EJECUTANDO" <=> pcE \in {"ejecuta", "notifica"}
    /\ pcE = "obtiene" => tarea.estado = "PENDIENTE_DE_EJECUCION"
    /\ pcE = "ejecuta" => instruccion = tarea.contador /\ Len(hechas) = tarea.contador
    /\ pcE = "notifica" => instruccion = tarea.contador /\ Len(hechas) = tarea.contador + 1

\* Where the tokens are, and that the end is only marked between turns.
TokenInv ==
    /\ OneAtATime
    /\ pcP # "espera_ciclo" => completado = 0
    /\ pcP \in {"libre", "habilita", "marca", "despierta"} => habilitada = 0
    /\ finDeTrabajo <=> pcP \in {"despierta", "espera_fin", "destruido"}
    /\ pcE \in {"sale", "fin"} => finDeTrabajo
    /\ fin > 0 => pcE = "fin"
    /\ NothingAfterDestroy

\* What is left of the task when quedan cycles are.
Alcanza(quedan_) ==
    \/ tarea.estado \in {"PENDIENTE_DE_EJECUCION", "EJECUTANDO"}
          /\ quedan_ <= tarea.total - tarea.contador
    \/ tarea.estado = "FINALIZADA" /\ quedan_ = 0

\* The planner asks for no more cycles than there are instructions left.
TurnInv ==
    /\ pcP = "libre" => tarea = NULL \/ tarea.estado = "PENDIENTE_DE_EJECUCION"
    /\ pcP = "habilita" => Alcanza(quedan) /\ tarea.estado # "EJECUTANDO"
    /\ pcP = "espera_ciclo" =>
          /\ quedan > 0
          /\ IF pcE = "avisa" \/ completado > 0 THEN Alcanza(quedan - 1)
             ELSE Alcanza(quedan)
    /\ pcP \in {"marca", "despierta", "espera_fin", "destruido"} => tarea = NULL

IInv == TypeOK /\ TaskInv /\ TokenInv /\ TurnInv

-----------------------------------------------------------------------------

LEMMA InitIInv == Init => IInv
<1> SUFFICES ASSUME Init PROVE IInv
  OBVIOUS
<1>1. TypeOK
  <2>1. tarea \in [total : Nat, contador : Nat, estado : Estados]
    BY DEF Init, Estados, NULL
  <2>2. hechas \in Seq(Nat)
    BY DEF Init
  <2>3. QED
    BY <2>1, <2>2 DEF Init, TypeOK
<1>2. TaskInv
  BY DEF Init, TaskInv, NULL
<1>3. TokenInv /\ TurnInv
  BY DEF Init, TokenInv, TurnInv, OneAtATime, NothingAfterDestroy, Trabajando
<1>4. QED
  BY <1>1, <1>2, <1>3 DEF IInv

\* A notified instruction advances the task, or finishes it if it was the last.
LEMMA Notified ==
    ASSUME TypeOK, tarea.estado = "EJECUTANDO", tarea.contador < tarea.total
    PROVE  LET i == notificarEjecucion(tarea, tarea.contador)
           IN  /\ i.total = tarea.total /\ i.contador \in Nat
               /\ i \in [total : Nat, contador : Nat, estado : Estados]
               /\ \/ /\ i.estado = "PENDIENTE_DE_EJECUCION"
                     /\ i.contador = tarea.contador + 1 /\ i.contador < i.total
                  \/ /\ i.estado = "FINALIZADA"
                     /\ i.contador = tarea.contador /\ i.contador + 1 = i.total
<1>1. CASE tarea.contador < tarea.total - 1
  <2> DEFINE avanzada == [tarea EXCEPT !.contador = @ + 1]
  <2>1. notificarEjecucion(tarea, tarea.contador) = actualizarEstado(avanzada, tarea.contador)
    BY <1>1 DEF notificarEjecucion
  <2>2. /\ avanzada \in [total : Nat, contador : Nat, estado : Estados]
        /\ avanzada.total = tarea.total /\ avanzada.contador = tarea.contador + 1
        /\ avanzada.estado = "EJECUTANDO"
    BY DEF TypeOK
  <2>3. actualizarEstado(avanzada, tarea.contador) =
            [avanzada EXCEPT !.estado = "PENDIENTE_DE_EJECUCION"]
    <3> HIDE DEF avanzada
    <3>1. ~ (avanzada.total = avanzada.contador + 1 /\ avanzada.total = tarea.contador + 1)
      BY <2>2 DEF TypeOK
    <3>2. QED
      BY <1>1, <2>2, <3>1 DEF actualizarEstado
  <2>4. QED
    <3> HIDE DEF avanzada
    <3>1. avanzada.contador < avanzada.total
      BY <1>1, <2>2 DEF TypeOK
    <3>2. QED
      BY <2>1, <2>2, <2>3, <3>1 DEF TypeOK, Estados
<1>2. CASE ~ (tarea.contador < tarea.total - 1)
  <2>1. tarea.contador + 1 = tarea.total
    BY <1>2 DEF TypeOK
  <2>2. notificarEjecucion(tarea, tarea.contador) = [tarea EXCEPT !.estado = "FINALIZADA"]
    <3>1. notificarEjecucion(tarea, tarea.contador) = actualizarEstado(tarea, tarea.contador)
      BY <1>2 DEF notificarEjecucion
    <3>2. actualizarEstado(tarea, tarea.contador) = [tarea EXCEPT !.estado = "FINALIZADA"]
      BY <2>1 DEF TypeOK, actualizarEstado
    <3>3. QED
      BY <3>1, <3>2
  <2>3. QED
    BY <2>1, <2>2 DEF TypeOK, Estados
<1>3. QED
  BY <1>1, <1>2

\* One step per action of the trainer's thread.
LEMMA WorkIInv == IInv /\ trabajar => IInv'
<1> SUFFICES ASSUME IInv, trabajar PROVE IInv'
  OBVIOUS
<1> USE DEF entrenador, planificador, semaforos
<1>1. CASE Ciclo
  <2>1. TypeOK'
    BY <1>1 DEF IInv, TypeOK, Ciclo, Trabajando
  <2>2. TaskInv' /\ TokenInv' /\ TurnInv'
    BY <1>1 DEF IInv, TaskInv, TokenInv, TurnInv, OneAtATime, NothingAfterDestroy, Ciclo, Trabajando, Alcanza
  <2>3. QED
    BY <2>1, <2>2 DEF IInv
<1>2. CASE EsperaHabilitacion
  <2>1. TypeOK'
    BY <1>2 DEF IInv, TypeOK, EsperaHabilitacion, Trabajando
  <2>2. CASE finDeTrabajo
    <3>1. pcE' = "sale" /\ pcP \in {"espera_fin", "destruido"}
      BY <1>2, <2>2 DEF IInv, TypeOK, TokenInv, EsperaHabilitacion
    <3>2. TaskInv' /\ TokenInv' /\ TurnInv'
      BY <1>2, <2>2, <3>1 DEF IInv, TypeOK, TaskInv, TokenInv, TurnInv, OneAtATime, NothingAfterDestroy,
                         EsperaHabilitacion, Trabajando, Alcanza
    <3>3. QED
      BY <2>1, <3>2 DEF IInv
  <2>3. CASE ~finDeTrabajo
    <3>1. pcE' = "obtiene" /\ pcP = "espera_ciclo" /\ completado = 0 /\ habilitada' = 0
      BY <1>2, <2>3 DEF IInv, TypeOK, TokenInv, OneAtATime, EsperaHabilitacion, Trabajando
    <3>2. tarea.estado = "PENDIENTE_DE_EJECUCION"
      BY <1>2, <3>1 DEF IInv, TypeOK, TaskInv, TurnInv, Alcanza, EsperaHabilitacion
    <3>3. TaskInv' /\ TokenInv' /\ TurnInv'
      BY <1>2, <2>3, <3>1, <3>2 DEF IInv, TypeOK, TaskInv, TokenInv, TurnInv, OneAtATime,
                         NothingAfterDestroy, EsperaHabilitacion, Trabajando, Alcanza
    <3>4. QED
      BY <2>1, <3>3 DEF IInv
  <2>4. QED
    BY <2>2, <2>3
<1>3. CASE proximaInstruccion
  <2>1. tarea.estado = "PENDIENTE_DE_EJECUCION" /\ pcP = "espera_ciclo"
    BY <1>3 DEF IInv, TaskInv, TokenInv, OneAtATime, proximaInstruccion, Trabajando
  <2>2. /\ tarea' = [tarea EXCEPT !.estado = "EJECUTANDO"] /\ tarea # NULL /\ tarea' # NULL
        /\ instruccion' = tarea.contador /\ pcE' = "ejecuta"
    BY <1>3, <2>1 DEF IInv, TypeOK, proximaInstruccion, NULL
  <2>3. TypeOK'
    BY <1>3, <2>2 DEF IInv, TypeOK, proximaInstruccion, Trabajando, Estados
  <2>4. TaskInv' /\ TokenInv'
    BY <1>3, <2>1, <2>2 DEF IInv, TypeOK, TaskInv, TokenInv, OneAtATime, NothingAfterDestroy,
                            proximaInstruccion, Trabajando
  <2>5. TurnInv'
    BY <1>3, <2>1, <2>2 DEF IInv, TypeOK, TurnInv, proximaInstruccion, Alcanza
  <2>6. QED
    BY <2>3, <2>4, <2>5 DEF IInv
<1>4. CASE ejecutarInstruccion
  <2>1. /\ pcP = "espera_ciclo" /\ tarea.estado = "EJECUTANDO" /\ tarea # NULL
        /\ instruccion = tarea.contador /\ Len(hechas) = tarea.contador
    BY <1>4 DEF IInv, TaskInv, TokenInv, OneAtATime, ejecutarInstruccion, Trabajando, NULL
  <2>2. hechas' \in Seq(Nat) /\ Len(hechas') = Len(hechas) + 1
    BY <1>4 DEF IInv, TypeOK, ejecutarInstruccion
  <2>3. TypeOK'
    BY <1>4, <2>2 DEF IInv, TypeOK, ejecutarInstruccion, Trabajando
  <2>4. TaskInv' /\ TokenInv' /\ TurnInv'
    BY <1>4, <2>1, <2>2 DEF IInv, TypeOK, TaskInv, TokenInv, TurnInv, OneAtATime,
                            NothingAfterDestroy, ejecutarInstruccion, Trabajando, Alcanza
  <2>5. QED
    BY <2>3, <2>4 DEF IInv
<1>5. CASE Notifica
  <2>1. /\ pcP = "espera_ciclo" /\ tarea.estado = "EJECUTANDO" /\ tarea.contador < tarea.total
        /\ instruccion = tarea.contador /\ Len(hechas) = tarea.contador + 1 /\ completado = 0
    BY <1>5 DEF IInv, TypeOK, TaskInv, TokenInv, OneAtATime, Notifica, Trabajando, NULL
  <2>2. /\ tarea'.total = tarea.total
        /\ tarea' \in [total : Nat, contador : Nat, estado : Estados]
        /\ \/ /\ tarea'.estado = "PENDIENTE_DE_EJECUCION"
              /\ tarea'.contador = tarea.contador + 1 /\ tarea'.contador < tarea'.total
           \/ /\ tarea'.estado = "FINALIZADA"
              /\ tarea'.contador = tarea.contador /\ tarea'.contador + 1 = tarea'.total
    BY <1>5, <2>1, Notified DEF IInv, Notifica
  <2>3. TypeOK'
    BY <1>5, <2>2 DEF IInv, TypeOK, Notifica, Trabajando
  <2>4. TaskInv'
    BY <1>5, <2>1, <2>2 DEF IInv, TypeOK, TaskInv, Notifica, NULL
  <2>5. TokenInv'
    BY <1>5, <2>1 DEF IInv, TokenInv, OneAtATime, NothingAfterDestroy, Notifica, Trabajando
  <2>6. TurnInv'
    BY <1>5, <2>1, <2>2 DEF IInv, TypeOK, TurnInv, Alcanza, Notifica
  <2>7. QED
    BY <2>3, <2>4, <2>5, <2>6 DEF IInv
<1>6. CASE CicloCompletado
  <2>1. pcP = "espera_ciclo" /\ completado = 0 /\ habilitada = 0
    BY <1>6 DEF IInv, TypeOK, TokenInv, OneAtATime, CicloCompletado, Trabajando
  <2>2. TypeOK'
    BY <1>6 DEF IInv, TypeOK, CicloCompletado, Trabajando
  <2>3. TaskInv' /\ TokenInv' /\ TurnInv'
    BY <1>6, <2>1 DEF IInv, TypeOK, TaskInv, TokenInv, TurnInv, OneAtATime,
                      NothingAfterDestroy, CicloCompletado, Trabajando, Alcanza
  <2>4. QED
    BY <2>2, <2>3 DEF IInv
<1>7. CASE Sale
  <2>1. TypeOK'
    BY <1>7 DEF IInv, TypeOK, Sale, Trabajando
  <2>2. TaskInv' /\ TokenInv' /\ TurnInv'
    BY <1>7 DEF IInv, TypeOK, TaskInv, TokenInv, TurnInv, OneAtATime, NothingAfterDestroy,
                Sale, Trabajando, Alcanza
  <2>3. QED
    BY <2>1, <2>2 DEF IInv
<1>8. QED
  BY <1>1, <1>2, <1>3, <1>4, <1>5, <1>6, <1>7 DEF trabajar

\* One step per action of the planner.
LEMMA PlanIInv == IInv /\ planificar => IInv'
<1> SUFFICES ASSUME IInv, planificar PROVE IInv'
  OBVIOUS
<1> USE DEF entrenador, planificador, semaforos
<1>1. CASE asignarTarea
  <2>1. PICK n \in Totales : tarea' = nueva(n)
    BY <1>1 DEF asignarTarea
  <2>2. n \in Nat /\ n > 0 /\ tarea' # NULL
    BY <2>1, TotalesAssumption DEF nueva, NULL
  <2>3. tarea'.total = n /\ tarea'.contador = 0 /\ tarea'.estado = "PENDIENTE_DE_EJECUCION"
    BY <2>1 DEF nueva
  <2>4. pcE \notin Trabajando
    BY <1>1 DEF IInv, TokenInv, OneAtATime, asignarTarea
  <2>5. TypeOK'
    BY <1>1, <2>1, <2>2 DEF IInv, TypeOK, asignarTarea, nueva, Estados
  <2>6. TaskInv'
    BY <1>1, <2>2, <2>3, <2>4 DEF IInv, TaskInv, asignarTarea, Trabajando
  <2>7. TokenInv' /\ TurnInv'
    BY <1>1, <2>3 DEF IInv, TokenInv, TurnInv, OneAtATime, NothingAfterDestroy, asignarTarea
  <2>8. QED
    BY <2>5, <2>6, <2>7 DEF IInv
<1>2. CASE ejecutarLimitado
  <2>1. quedan' \in Nat /\ quedan' <= tarea.total - tarea.contador
    <3>1. cantidadInstruccionesRestantes(tarea) = tarea.total - tarea.contador
      BY <1>2 DEF ejecutarLimitado, cantidadInstruccionesRestantes
    <3>2. QED
      BY <1>2, <3>1 DEF IInv, TypeOK, ejecutarLimitado
  <2>2. TypeOK'
    BY <1>2, <2>1 DEF IInv, TypeOK, ejecutarLimitado
  <2>3. TaskInv' /\ TokenInv'
    BY <1>2 DEF IInv, TaskInv, TokenInv, OneAtATime, NothingAfterDestroy, ejecutarLimitado, Trabajando
  <2>4. TurnInv'
    BY <1>2, <2>1 DEF IInv, TurnInv, Alcanza, ejecutarLimitado
  <2>5. QED
    BY <2>2, <2>3, <2>4 DEF IInv
<1>3. CASE Habilita
  <2>1. pcE \notin Trabajando /\ completado = 0 /\ habilitada = 0 /\ ~finDeTrabajo
    BY <1>3 DEF IInv, TokenInv, OneAtATime, Habilita
  <2>2. TypeOK'
    BY <1>3 DEF IInv, TypeOK, Habilita
  <2>3. TaskInv' /\ TokenInv'
    BY <1>3, <2>1 DEF IInv, TaskInv, TokenInv, OneAtATime, NothingAfterDestroy, Habilita, Trabajando
  <2>4. TurnInv'
    BY <1>3, <2>1 DEF IInv, TypeOK, TurnInv, Alcanza, Habilita, Trabajando
  <2>5. QED
    BY <2>2, <2>3, <2>4 DEF IInv
<1>4. CASE EsperaCiclo
  <2>1. pcE \notin Trabajando /\ completado' = 0 /\ habilitada = 0
    BY <1>4 DEF IInv, TypeOK, TokenInv, OneAtATime, EsperaCiclo
  <2>2. quedan' \in Nat
    BY <1>4 DEF IInv, TypeOK, TurnInv, EsperaCiclo
  <2>3. TypeOK'
    BY <1>4, <2>1, <2>2 DEF IInv, TypeOK, EsperaCiclo
  <2>4. TaskInv' /\ TokenInv'
    BY <1>4, <2>1 DEF IInv, TaskInv, TokenInv, OneAtATime, NothingAfterDestroy, EsperaCiclo, Trabajando
  <2>5. TurnInv'
    BY <1>4, <2>1 DEF IInv, TypeOK, TurnInv, TaskInv, Alcanza, EsperaCiclo, Trabajando
  <2>6. QED
    BY <2>3, <2>4, <2>5 DEF IInv
<1>5. CASE FinDeEjecucion
  <2>1. pcE \notin Trabajando
    BY <1>5 DEF IInv, TokenInv, OneAtATime, FinDeEjecucion
  <2>2. cantidadInstruccionesEjecutadas(tarea) \in Nat
    <3>1. tarea.contador <= tarea.total
      BY <1>5 DEF IInv, TypeOK, TaskInv, NULL
    <3>2. QED
      BY <3>1 DEF IInv, TypeOK, cantidadInstruccionesEjecutadas, cantidadInstruccionesRestantes
  <2>3. TypeOK'
    <3>1. tarea' \in [total : Nat, contador : Nat, estado : Estados] /\ hechas' \in Seq(Nat)
      BY <1>5 DEF IInv, TypeOK, FinDeEjecucion, NULL, Estados
    <3>2. QED
      BY <1>5, <2>2, <3>1 DEF IInv, TypeOK, FinDeEjecucion
  <2>4. TaskInv' /\ TokenInv'
    BY <1>5, <2>1 DEF IInv, TaskInv, TokenInv, OneAtATime, NothingAfterDestroy, FinDeEjecucion,
                      Trabajando, NULL
  <2>5. TurnInv'
    BY <1>5 DEF IInv, TurnInv, Alcanza, FinDeEjecucion
  <2>6. QED
    BY <2>3, <2>4, <2>5 DEF IInv
<1>6. CASE destruir
  <2>1. pcE \notin Trabajando
    BY <1>6 DEF IInv, TokenInv, OneAtATime, destruir
  <2>2. TypeOK'
    BY <1>6 DEF IInv, TypeOK, destruir, NULL, Estados
  <2>3. TaskInv' /\ TokenInv' /\ TurnInv'
    BY <1>6, <2>1 DEF IInv, TaskInv, TokenInv, TurnInv, OneAtATime, NothingAfterDestroy,
                      destruir, Trabajando, NULL
  <2>4. QED
    BY <2>2, <2>3 DEF IInv
<1>7. CASE MarcaFin
  <2>1. TypeOK'
    BY <1>7 DEF IInv, TypeOK, MarcaFin
  <2>2. TaskInv' /\ TokenInv' /\ TurnInv'
    BY <1>7 DEF IInv, TaskInv, TokenInv, TurnInv, OneAtATime, NothingAfterDestroy, MarcaFin, Trabajando
  <2>3. QED
    BY <2>1, <2>2 DEF IInv
<1>8. CASE Despierta
  <2>1. TypeOK'
    BY <1>8 DEF IInv, TypeOK, Despierta
  <2>2. TaskInv' /\ TokenInv' /\ TurnInv'
    BY <1>8 DEF IInv, TaskInv, TokenInv, TurnInv, OneAtATime, NothingAfterDestroy, Despierta, Trabajando
  <2>3. QED
    BY <2>1, <2>2 DEF IInv
<1>9. CASE EsperaFin
  <2>1. fin' \in Nat /\ pcE = "fin"
    BY <1>9 DEF IInv, TypeOK, TokenInv, EsperaFin
  <2>2. TypeOK'
    BY <1>9, <2>1 DEF IInv, TypeOK, EsperaFin
  <2>3. TaskInv' /\ TokenInv' /\ TurnInv'
    BY <1>9, <2>1 DEF IInv, TypeOK, TaskInv, TokenInv, TurnInv, OneAtATime, NothingAfterDestroy,
                      EsperaFin, Trabajando
  <2>4. QED
    BY <2>2, <2>3 DEF IInv
<1>10. QED
  BY <1>1, <1>2, <1>3, <1>4, <1>5, <1>6, <1>7, <1>8, <1>9 DEF planificar

LEMMA StutterIInv == IInv /\ UNCHANGED vars => IInv'
BY DEF IInv, TypeOK, TaskInv, TokenInv, TurnInv, OneAtATime, NothingAfterDestroy, Alcanza,
       vars, entrenador, planificador, semaforos

THEOREM Inductive == Spec => []IInv
<1>1. Init => IInv
  BY InitIInv
<1>2. IInv /\ [Next]_vars => IInv'
  BY WorkIInv, PlanIInv, StutterIInv DEF Next
<1>3. QED
  BY <1>1, <1>2, PTL DEF Spec

\* The threads never touch a task at the same time (HiloEntrenadorPlanificable.c).
THEOREM AlternateAlways == Spec => []OneAtATime
<1>1. IInv => OneAtATime
  BY DEF IInv, TokenInv
<1>2. QED
  BY <1>1, Inductive, PTL

\* Whatever the sizes of the tasks, their order of execution is not corrupted
\* (TareaPlanificable.c:24), and a trainer's thread has ended when what it uses is
\* destroyed (HiloEntrenadorPlanificable.c:76-90).
THEOREM UsedSafely == Spec => []SafeUse
<1>1. IInv => NeverCorrupted
  BY DEF IInv, TypeOK, TaskInv, TokenInv, TurnInv, OneAtATime, NeverCorrupted, NULL, Trabajando, Alcanza
<1>2. IInv => NothingAfterDestroy
  BY DEF IInv, TokenInv
<1>3. IInv => SafeUse
  BY <1>1, <1>2 DEF SafeUse
<1>4. QED
  BY <1>3, Inductive, PTL

-----------------------------------------------------------------------------
\* Every step of the trainer's thread is one of its abstract task, or none.
LEMMA WorkRefines == IInv /\ trabajar => [Abstracta!Next]_<<tarea.total, hechas>>
<1> SUFFICES ASSUME IInv, trabajar PROVE [Abstracta!Next]_<<tarea.total, hechas>>
  OBVIOUS
<1>1. CASE ejecutarInstruccion
  <2>1. instruccion = Len(hechas) /\ Len(hechas) < tarea.total
    BY <1>1 DEF IInv, TaskInv, ejecutarInstruccion, NULL
  <2>2. Abstracta!Avanzar
    BY <1>1, <2>1 DEF ejecutarInstruccion, Abstracta!Avanzar
  <2>3. QED
    BY <2>2 DEF Abstracta!Next
<1>2. CASE Notifica
  <2>1. tarea.estado = "EJECUTANDO" /\ tarea.contador < tarea.total /\ instruccion = tarea.contador
    BY <1>2 DEF IInv, TaskInv, Notifica, NULL
  <2>2. tarea'.total = tarea.total
    BY <1>2, <2>1, Notified DEF IInv, Notifica
  <2>3. QED
    BY <1>2, <2>2 DEF Notifica
<1>3. CASE proximaInstruccion
  BY <1>3 DEF IInv, TypeOK, proximaInstruccion
<1>4. CASE Ciclo \/ EsperaHabilitacion \/ CicloCompletado \/ Sale
  BY <1>4 DEF Ciclo, EsperaHabilitacion, CicloCompletado, Sale
<1>5. QED
  BY <1>1, <1>2, <1>3, <1>4 DEF trabajar

\* So is every step of the planner.
LEMMA PlanRefines == IInv /\ planificar => [Abstracta!Next]_<<tarea.total, hechas>>
<1> SUFFICES ASSUME IInv, planificar PROVE [Abstracta!Next]_<<tarea.total, hechas>>
  OBVIOUS
<1>1. CASE asignarTarea
  <2>1. tarea.total = 0 /\ tarea'.total \in Totales /\ hechas' = << >>
    BY <1>1 DEF asignarTarea, nueva, NULL
  <2>2. QED
    BY <2>1 DEF Abstracta!Asignar, Abstracta!Next
<1>2. CASE FinDeEjecucion
  <2>1. CASE tarea.estado = "FINALIZADA"
    <3>1. tarea.total > 0 /\ Len(hechas) = tarea.total /\ tarea'.total = 0 /\ hechas' = << >>
      BY <1>2, <2>1 DEF IInv, TaskInv, FinDeEjecucion, NULL
    <3>2. QED
      BY <3>1 DEF Abstracta!Terminar, Abstracta!Next
  <2>2. CASE tarea.estado # "FINALIZADA"
    BY <1>2, <2>2 DEF FinDeEjecucion
  <2>3. QED
    BY <2>1, <2>2
<1>3. CASE destruir
  <2>1. tarea'.total = 0 /\ hechas' = << >>
    BY <1>3 DEF destruir, NULL
  <2>2. CASE tarea = NULL
    BY <2>1, <2>2 DEF IInv, TaskInv, NULL
  <2>3. CASE tarea # NULL
    BY <2>1, <2>3 DEF IInv, TaskInv, Abstracta!Abandonar, Abstracta!Next
  <2>4. QED
    BY <2>2, <2>3
<1>4. CASE ejecutarLimitado \/ Habilita \/ EsperaCiclo \/ MarcaFin \/ Despierta \/ EsperaFin
  BY <1>4 DEF ejecutarLimitado, Habilita, EsperaCiclo, MarcaFin, Despierta, EsperaFin, entrenador
<1>5. QED
  BY <1>1, <1>2, <1>3, <1>4 DEF planificar

\* The two threads implement the task: its instructions are done once each, in
\* order, whatever its size and however the planner splits it into turns.
THEOREM ImplementsTask == Spec => InOrder
<1>1. Init => Abstracta!Init
  BY DEF Init, Abstracta!Init, NULL
<1>2. IInv /\ [Next]_vars => [Abstracta!Next]_<<tarea.total, hechas>>
  <2>1. UNCHANGED vars => UNCHANGED <<tarea.total, hechas>>
    BY DEF vars, entrenador
  <2>2. QED
    BY <2>1, WorkRefines, PlanRefines DEF Next
<1>3. QED
  BY <1>1, <1>2, Inductive, PTL DEF Spec, InOrder, Abstracta!Spec

=============================================================================
