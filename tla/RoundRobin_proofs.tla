--------------------------- MODULE RoundRobin_proofs ---------------------------
(***************************************************************************)
(* What KernelScheduler keeps with either algorithm, and so what is left   *)
(* of the guarantees of FIFO when the quantum gives the process back.      *)
(***************************************************************************)
EXTENDS KernelScheduler_proofs

-----------------------------------------------------------------------------
(* The queues and their semaphores *)

\* Without its i-th element a queue of processes is still one.
LEMMA SinElI ==
    ASSUME NEW s \in Seq({PID}), NEW i \in DOMAIN s
    PROVE  RemoveAt(s, i) \in Seq({PID}) /\ Len(RemoveAt(s, i)) = Len(s) - 1
BY RemoveAtTipo

\* A queue of processes that is not empty has one first.
LEMMA PrimeroPid ==
    ASSUME NEW cola \in Seq({PID}), Len(cola) > 0
    PROVE  /\ Primero(cola) = PID
           /\ Resto(cola) \in Seq({PID}) /\ Len(Resto(cola)) = Len(cola) - 1
<1>1. cola # <<>>
  OBVIOUS
<1>2. /\ Head(cola) = PID
      /\ Tail(cola) \in Seq({PID})
      /\ Len(Tail(cola)) = Len(cola) - 1
  BY <1>1
<1> QED BY <1>1, <1>2 DEF Primero, Resto

\* Adding a process to a queue.
LEMMA AgregaPid ==
    ASSUME NEW cola \in Seq({PID})
    PROVE  /\ Append(cola, PID) \in Seq({PID})
           /\ Len(Append(cola, PID)) = Len(cola) + 1
OBVIOUS

LEMMA TurnosLargoPlazo ==
    ASSUME TypeOK, InvTurnos, LargoPlazo
    PROVE  InvTurnos'
<1> USE DEF colas, semaforos, locSts, locLts, InvTurnos, SemNewReadyExacto,
            Lugares, Uno
<1>1. CASE LtsEspera
  BY <1>1 DEF Wait, LtsEspera, TypeOK
<1>2. CASE LtsRetira
  <2>1. Len(cola_new) > 0
    BY <1>2 DEF LtsRetira, TypeOK
  <2>2. /\ lts_pcb' = PID
        /\ cola_new' \in Seq({PID}) /\ Len(cola_new') = Len(cola_new) - 1
    BY <1>2, <2>1, PrimeroPid DEF LtsRetira
  <2> QED BY <1>2, <2>1, <2>2 DEF LtsRetira, TypeOK
<1>3. CASE LtsAgrega
  BY <1>3, AgregaPid DEF LtsAgrega, TypeOK
<1>4. CASE LtsAvisa
  BY <1>4 DEF Signal, LtsAvisa, TypeOK
<1> QED BY <1>1, <1>2, <1>3, <1>4 DEF LargoPlazo

LEMMA TurnosCortoPlazo ==
    ASSUME TypeOK, InvTurnos, CortoPlazo
    PROVE  InvTurnos'
<1> USE DEF colas, semaforos, locSts, locLts, InvTurnos, SemNewReadyExacto,
            Lugares, Uno
<1>1. CASE StsEsperaReady
  BY <1>1 DEF Wait, StsEsperaReady, TypeOK
<1>2. CASE StsEsperaCpu
  BY <1>2 DEF Wait, StsEsperaCpu, TypeOK
<1>3. CASE StsRetira
  <2>1. Len(cola_ready) > 0 /\ cola_ready # <<>>
    BY <1>3 DEF StsRetira, TypeOK
  <2>2. /\ un_pcb' = PID
        /\ cola_ready' \in Seq({PID}) /\ Len(cola_ready') = Len(cola_ready) - 1
    <3>1. cola_ready \in Seq({PID})
      OBVIOUS
    <3> QED BY <1>3, <2>1, <3>1, PrimeroPid DEF StsRetira
  <2>3. pc_sts' = "busca"
    BY <1>3, <2>1 DEF StsRetira
  <2>4. /\ pc_sts = "retira"
        /\ UNCHANGED <<cola_new, cola_exec, sem_new, sem_new_ready, locLts>>
    BY <1>3 DEF StsRetira
  <2>5. Len(cola_new) \in Nat /\ Len(cola_ready) \in Nat /\ Len(cola_exec) \in Nat
        /\ sem_new \in Nat /\ sem_new_ready \in Nat
    BY DEF TypeOK
  <2>6. SemNewReadyExacto'
    BY <2>2, <2>3, <2>4, <2>5
  <2>10. Lugares' <= 1
    <3>1. PICK u \in Nat : /\ u = Uno(pc_lts = "agrega")
                           /\ u = Uno(pc_lts = "agrega")'
      BY <2>4
    <3>2. Lugares = Len(cola_new) + Len(cola_ready) + Len(cola_exec) + u + 0
      BY <2>4, <3>1
    <3>3. Lugares' = Len(cola_new) + (Len(cola_ready) - 1) + Len(cola_exec) + u + 1
      BY <2>2, <2>3, <2>4, <3>1
    <3>4. Lugares' = Lugares
      BY <2>5, <3>2, <3>3
    <3> QED BY <3>4
  <2>7. {cola_new, cola_ready, cola_exec}' \subseteq Seq({PID})
    BY <2>2, <2>4
  <2>8. Len(cola_new') = sem_new' + Uno(pc_lts' = "retira")
    BY <2>4
  <2>9. pc_lts' \in {"agrega", "avisa"} => lts_pcb' = PID
    BY <2>4
  <2> QED BY <2>2, <2>6, <2>10, <2>7, <2>8, <2>9, Zenon
<1>4. CASE StsBuscaCpu
  <2>1. pc_sts' = "exec" /\ pc_sts = "busca"
        /\ UNCHANGED <<colas, semaforos, locLts, un_pcb>>
    BY <1>4, Zenon DEF StsBuscaCpu
  <2> QED BY <2>1 DEF TypeOK
<1>5. CASE StsSinCpu
  BY <1>5 DEF StsSinCpu, TypeOK
<1>6. CASE StsExec
  BY <1>6, AgregaPid DEF StsExec, TypeOK
<1>7. CASE StsEnvia
  BY <1>7 DEF StsEnvia, TypeOK
<1> QED BY <1>1, <1>2, <1>3, <1>4, <1>5, <1>6, <1>7 DEF CortoPlazo

LEMMA TurnosQuantum ==
    ASSUME TypeOK, InvTurnos, Quantum
    PROVE  InvTurnos'
<1> USE DEF colas, semaforos, locSts, locLts, InvTurnos, SemNewReadyExacto,
            Lugares, Uno
<1>1. CASE RrFinQuantum
  <2>1. CASE pc_sts' = "espera_ready" /\ cola_exec' = cola_exec
    BY <1>1, <2>1 DEF RrFinQuantum, TypeOK
  <2>2. CASE pc_sts' = "vuelve"
    <3>1. PICK i \in DOMAIN cola_exec : cola_exec' = RemoveAt(cola_exec, i)
      BY <1>1, <2>2 DEF RrFinQuantum
    <3>2. /\ cola_exec' \in Seq({PID})
          /\ Len(cola_exec') = Len(cola_exec) - 1
      BY <3>1, SinElI
    <3> QED BY <1>1, <2>2, <3>2 DEF RrFinQuantum, TypeOK
  <2> QED BY <1>1, <2>1, <2>2 DEF RrFinQuantum
<1>2. CASE RrVuelve
  BY <1>2, AgregaPid DEF RrVuelve, TypeOK
<1>3. CASE RrAvisaCpu
  BY <1>3 DEF Signal, RrAvisaCpu, TypeOK
<1>4. CASE RrAvisaReady
  BY <1>4 DEF Signal, RrAvisaReady, TypeOK
<1> QED BY <1>1, <1>2, <1>3, <1>4 DEF Quantum

\* Nothing else touches the queues, their semaphores or the two schedulers.
LEMMA TurnosResto ==
    ASSUME InvTurnos,
           UNCHANGED <<cola_new, cola_ready, cola_exec, sem_new, sem_new_ready,
                       locLts, locSts>>
    PROVE  InvTurnos'
BY DEF InvTurnos, SemNewReadyExacto, Lugares, locLts, locSts, Uno

-----------------------------------------------------------------------------
(* The CPUs: sem_ready never falls behind the CPUs that are disponible *)

\* The unit that the scheduler has taken and not spent, and the semaphore.
LEMMA CreditoTipo ==
    ASSUME TypeOK
    PROVE  /\ Uno(pc_sts \in {"retira", "busca"}) \in {0, 1}
           /\ CreditoCpu = sem_ready + Cardinality(PorAvisar)
                           + Uno(pc_sts \in {"retira", "busca"})
           /\ sem_ready \in Nat
           /\ Cardinality(PorAvisar) \in Nat /\ Cardinality(Disponibles) \in Nat
BY Finitos DEF Uno, CreditoCpu, TypeOK

LEMMA SuficienteCortoPlazo ==
    ASSUME TypeOK, InvTurnos, SemReadySuficiente, CortoPlazo
    PROVE  SemReadySuficiente'
<1>1. TypeOK'
  BY TipoCortoPlazo
<1>2. hilo' = hilo /\ PorAvisar' = PorAvisar
  <2>1. UNCHANGED varsServidor
    BY DEF CortoPlazo, StsEsperaReady, StsEsperaCpu, StsRetira, StsBuscaCpu,
           StsSinCpu, StsExec, StsEnvia
  <2> QED BY <2>1 DEF varsServidor, PorAvisar
<1>3. CASE StsBuscaCpu
  <2>1. pc_sts = "busca" /\ pc_sts' = "exec" /\ sem_ready' = sem_ready
    BY <1>3, Zenon DEF StsBuscaCpu, semaforos
  <2>2. /\ cpu_libre' \in Disponibles
        /\ Disponibles' = Disponibles \ {cpu_libre'}
    BY <1>3, BuscaTipo
  <2>3. Cardinality(Disponibles') = Cardinality(Disponibles) - 1
    BY <2>2, Finitos, FS_RemoveElement
  <2> QED BY <1>2, <2>1, <2>3, CreditoTipo
             DEF SemReadySuficiente, CreditoCpu, Uno
<1>4. CASE StsSinCpu
  <2>1. Disponibles' = {}
    BY <1>4 DEF StsSinCpu, recursos, Disponibles
  <2>2. Cardinality(Disponibles') = 0
    BY <2>1, FS_EmptySet
  <2>3. CreditoCpu' >= 0
    <3>1. sem_ready' \in Nat /\ Cardinality(PorAvisar') \in Nat
      BY <1>1, <1>2, CreditoTipo DEF TypeOK
    <3> QED BY <3>1 DEF CreditoCpu, Uno
  <2> QED BY <2>2, <2>3 DEF SemReadySuficiente
<1>5. CASE StsEsperaReady \/ StsEsperaCpu \/ StsRetira \/ StsExec \/ StsEnvia
  <2>1. recursos_cpu' = recursos_cpu
    BY <1>5 DEF StsEsperaReady, StsEsperaCpu, StsRetira, StsExec, StsEnvia,
                recursos
  <2>2. Disponibles' = Disponibles
    BY <2>1 DEF Disponibles
  <2>3. sem_ready' + Uno(pc_sts \in {"retira", "busca"})'
            = sem_ready + Uno(pc_sts \in {"retira", "busca"})
    <3>1. pc_sts = "retira" => cola_ready # <<>>
      BY DEF InvTurnos, SemNewReadyExacto, Uno, TypeOK
    <3> QED BY <1>5, <3>1
               DEF Wait, StsEsperaReady, StsEsperaCpu, StsRetira, StsExec,
                   StsEnvia, semaforos, Uno, TypeOK
  <2>4. /\ Uno(pc_sts \in {"retira", "busca"})' \in {0, 1}
        /\ sem_ready' \in Nat
    BY <1>1 DEF Uno, TypeOK
  <2> QED BY <1>2, <2>2, <2>3, <2>4, CreditoTipo
             DEF SemReadySuficiente, CreditoCpu
<1> QED BY <1>3, <1>4, <1>5 DEF CortoPlazo

\* The quantum signals sem_ready for a CPU that has not come back: one unit more.
LEMMA SuficienteQuantum ==
    ASSUME TypeOK, SemReadySuficiente, Quantum
    PROVE  SemReadySuficiente'
<1>1. UNCHANGED <<hilo, recursos_cpu>>
  BY DEF Quantum, RrFinQuantum, RrVuelve, RrAvisaCpu, RrAvisaReady,
         varsServidor, recursos
<1>2. PorAvisar' = PorAvisar /\ Disponibles' = Disponibles
  BY <1>1 DEF PorAvisar, Disponibles
<1>3. /\ sem_ready' \in {sem_ready, sem_ready + 1}
      /\ pc_sts \notin {"retira", "busca"} /\ pc_sts' \notin {"retira", "busca"}
  BY DEF Quantum, RrFinQuantum, RrVuelve, RrAvisaCpu, RrAvisaReady, Signal,
         semaforos
<1> QED BY <1>2, <1>3, CreditoTipo DEF SemReadySuficiente, CreditoCpu, Uno

\* The thread of a CPU adds an entry and owes a signal, then pays it.
LEMMA SuficienteNewCpu ==
    ASSUME TypeOK, SemReadySuficiente, NEW c \in Clientes, AtenderNewCpu(c)
    PROVE  SemReadySuficiente'
<1> DEFINE r == [id |-> leyendo[c], socket |-> socket[c], disponible |-> TRUE]
<1>1. hilo[c] = "recv" /\ UNCHANGED <<sem_ready, pc_sts>>
  BY Zenon DEF AtenderNewCpu, Llega, semaforos, locSts
<1>2. CASE recursos_cpu' = recursos_cpu /\ hilo' = [hilo EXCEPT ![c] = "fin"]
  <2>1. PorAvisar' = PorAvisar /\ Disponibles' = Disponibles
    BY <1>1, <1>2 DEF PorAvisar, Disponibles, TypeOK
  <2> QED BY <1>1, <2>1 DEF SemReadySuficiente, CreditoCpu
<1>3. CASE /\ recursos_cpu' = Append(recursos_cpu, r)
           /\ hilo' = [hilo EXCEPT ![c] = "avisa"]
  <2>1. PorAvisar' = PorAvisar \cup {c} /\ c \notin PorAvisar
    BY <1>1, <1>3 DEF PorAvisar, TypeOK
  <2>2. r \in Recurso /\ r.disponible = TRUE
    BY <1>1 DEF Recurso, TypeOK
  <2>3. /\ Len(recursos_cpu) + 1 \notin Disponibles
        /\ Disponibles' = Disponibles \cup {Len(recursos_cpu) + 1}
    BY <1>3, <2>2, Agregado
  <2>4. /\ Cardinality(PorAvisar') = Cardinality(PorAvisar) + 1
        /\ Cardinality(Disponibles') = Cardinality(Disponibles) + 1
    BY <2>1, <2>3, Finitos, FS_AddElement
  <2> QED BY <1>1, <2>4, CreditoTipo DEF SemReadySuficiente, CreditoCpu, Uno
<1> QED BY <1>2, <1>3, Zenon DEF AtenderNewCpu, RecursoDe, Seguir

LEMMA SuficienteAvisar ==
    ASSUME TypeOK, SemReadySuficiente, NEW c \in Clientes, AvisarCpu(c)
    PROVE  SemReadySuficiente'
<1>1. /\ hilo[c] = "avisa" /\ hilo' = [hilo EXCEPT ![c] = "llama"]
      /\ sem_ready' = sem_ready + 1
      /\ UNCHANGED <<pc_sts, recursos_cpu>>
  BY DEF Signal, AvisarCpu, Seguir, locSts, recursos
<1>2. PorAvisar' = PorAvisar \ {c} /\ c \in PorAvisar
  BY <1>1 DEF PorAvisar, TypeOK
<1>3. Cardinality(PorAvisar') = Cardinality(PorAvisar) - 1
  BY <1>2, Finitos, FS_RemoveElement
<1>4. Disponibles' = Disponibles
  BY <1>1 DEF Disponibles
<1> QED BY <1>1, <1>3, <1>4, CreditoTipo DEF SemReadySuficiente, CreditoCpu, Uno

\* A step that neither registers a CPU nor moves a thread to or from the point
\* where it signals leaves both sides alone.
LEMMA SuficienteResto ==
    ASSUME SemReadySuficiente,
           UNCHANGED <<recursos_cpu, sem_ready, pc_sts>>,
           \A d \in Clientes : hilo'[d] = "avisa" <=> hilo[d] = "avisa"
    PROVE  SemReadySuficiente'
<1>1. PorAvisar' = PorAvisar /\ Disponibles' = Disponibles
  BY DEF PorAvisar, Disponibles
<1> QED BY <1>1 DEF SemReadySuficiente, CreditoCpu

-----------------------------------------------------------------------------
(* The invariant of both algorithms *)

LEMMA InvRrInit == Init => InvRr
<1> SUFFICES ASSUME Init PROVE InvRr
  OBVIOUS
<1>1. TypeOK
  BY TipoInit
<1>2. InvTurnos
  BY DEF Init, InvTurnos, SemNewReadyExacto, Lugares, Uno, PID
<1>3. PorAvisar = {} /\ Disponibles = {}
  BY DEF Init, InitServidor, PorAvisar, Disponibles
<1>4. SemReadySuficiente
  BY <1>3, FS_EmptySet DEF Init, SemReadySuficiente, CreditoCpu, Uno
<1> QED BY <1>1, <1>2, <1>4 DEF InvRr

\* Every step keeps it, whatever the algorithm.
LEMMA InvRrPaso ==
    ASSUME InvRr, [Next]_vars
    PROVE  InvRr'
<1>1. TypeOK /\ InvTurnos /\ SemReadySuficiente
  BY DEF InvRr
<1>2. TypeOK'
  BY <1>1, TipoPaso
<1>3. CASE LargoPlazo
  <2>1. UNCHANGED <<recursos_cpu, sem_ready, pc_sts, hilo>>
    BY <1>3 DEF Wait, Signal, LargoPlazo, LtsEspera, LtsRetira, LtsAgrega,
                LtsAvisa, recursos, semaforos, locSts, varsServidor
  <2> QED BY <1>1, <1>2, <1>3, <2>1, TurnosLargoPlazo, SuficienteResto
             DEF InvRr
<1>4. CASE CortoPlazo
  BY <1>1, <1>2, <1>4, TurnosCortoPlazo, SuficienteCortoPlazo DEF InvRr
<1>5. CASE Quantum
  BY <1>1, <1>2, <1>5, TurnosQuantum, SuficienteQuantum DEF InvRr
<1>6. ASSUME NEW c \in Clientes, Admision(c) \/ Atencion(c) PROVE InvRr'
  <2>1. InvTurnos'
    BY <1>1, <1>6, AtencionColas, TurnosResto
  <2>2. CASE AtenderNewCpu(c)
    BY <1>1, <1>2, <2>1, <2>2, SuficienteNewCpu DEF InvRr
  <2>3. CASE AvisarCpu(c)
    BY <1>1, <1>2, <2>1, <2>3, SuficienteAvisar DEF InvRr
  <2>4. CASE ~AtenderNewCpu(c) /\ ~AvisarCpu(c)
    BY <1>1, <1>2, <1>6, <2>1, <2>4, AtencionCredito, SuficienteResto DEF InvRr
  <2> QED BY <2>2, <2>3, <2>4
<1>7. CASE Entorno \/ UNCHANGED vars
  BY <1>1, <1>2, <1>7, EntornoAjeno, TurnosResto, SuficienteResto DEF InvRr
<1> QED BY <1>3, <1>4, <1>5, <1>6, <1>7 DEF Next

\* The invariant holds in every state, with either algorithm.
THEOREM InvarianteRr == Spec => []InvRr
BY InvRrInit, InvRrPaso, PTL DEF Spec

\* What follows from it.
LEMMA ConsecuenciasRr ==
    ASSUME InvRr
    PROVE  /\ NuncaDosLugares /\ SemReadySuficiente
           /\ SemNewReadyExacto /\ SinDespertarPerdido
<1>1. TypeOK /\ InvTurnos /\ SemReadySuficiente
  BY DEF InvRr
<1>2. Lugares <= 1 /\ SemNewReadyExacto
  BY <1>1 DEF InvTurnos
<1>3. NULO \notin Range(cola_new \o cola_ready \o cola_exec)
  <2>1. cola_new \o cola_ready \o cola_exec \in Seq({PID})
    BY <1>1 DEF InvTurnos
  <2>2. Range(cola_new \o cola_ready \o cola_exec) \subseteq {PID}
    BY <2>1 DEF Range
  <2> QED BY <2>2 DEF PID, NULO
<1>4. SinDespertarPerdido
  <2>1. SUFFICES ASSUME cola_ready # <<>>, Disponibles # {}, PorAvisar = {},
                        pc_lts # "avisa"
                 PROVE  /\ pc_sts = "espera_ready" => sem_new_ready > 0
                        /\ pc_sts = "espera_cpu" => sem_ready > 0
    BY DEF SinDespertarPerdido
  <2>2. pc_sts = "espera_ready" => sem_new_ready > 0
    <3>1. Len(cola_ready) \in Nat /\ Len(cola_ready) > 0
      BY <1>1, <2>1 DEF TypeOK
    <3> QED BY <1>1, <1>2, <2>1, <3>1 DEF SemNewReadyExacto, Uno, TypeOK
  <2>3. pc_sts = "espera_cpu" => sem_ready > 0
    <3>1. Cardinality(Disponibles) # 0 /\ Cardinality(Disponibles) \in Nat
      BY <1>1, <2>1, Finitos, FS_EmptySet
    <3>2. Cardinality(PorAvisar) = 0
      BY <2>1, FS_EmptySet
    <3> QED BY <1>1, <3>1, <3>2 DEF SemReadySuficiente, CreditoCpu, Uno, TypeOK
  <2> QED BY <2>2, <2>3
<1> QED BY <1>1, <1>2, <1>3, <1>4 DEF NuncaDosLugares

\* The process may be lost, but it is never in two queues and no queue holds a
\* null pointer (gestion.c:285-291, 345-349).
THEOREM NuncaDosLugaresSiempre == Spec => []NuncaDosLugares
BY InvarianteRr, ConsecuenciasRr, PTL

\* sem_ready has a unit for every CPU that is disponible: the quantum only adds
\* to it (gestion.c:144-148, 283, 293, 356).
THEOREM SemReadySuficienteSiempre == Spec => []SemReadySuficiente
BY InvarianteRr, ConsecuenciasRr, PTL

\* The quantum gives cola_ready and sem_new_ready back together: the count stays
\* exact and list_remove never finds the queue empty (gestion.c:282, 285-291, 348-358).
THEOREM SemNewReadyExactoSiempre == Spec => []SemNewReadyExacto
BY InvarianteRr, ConsecuenciasRr, PTL

\* With either algorithm the scheduler never sleeps through a wake-up: a process
\* that waits, a CPU that is disponible and nobody about to signal mean that the
\* semaphore it is on has a unit (gestion.c:229-230, 282-283, 356-358).
THEOREM SinDespertarPerdidoSiempre == Spec => []SinDespertarPerdido
BY InvarianteRr, ConsecuenciasRr, PTL
=============================================================================
