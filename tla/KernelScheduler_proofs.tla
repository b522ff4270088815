------------------------ MODULE KernelScheduler_proofs ------------------------
(***************************************************************************)
(* Proofs about KernelScheduler, for any set of CPUs and devices, any      *)
(* number of descriptors and any set of clients that may leave.            *)
(***************************************************************************)
EXTENDS PropiedadesScheduler, TLAPS, FiniteSetTheorems, SequenceTheorems

-----------------------------------------------------------------------------
(* Types *)

\* What a reader leaves in a stream is made of words.
LEMMA TrasCargaTipo ==
    ASSUME NEW flujo \in Seq(Palabras)
    PROVE  TrasCarga(flujo) \in Seq(Palabras)
<1>1. Len(Carga(flujo)) \in Nat
  BY DEF Carga
<1>2. \A i \in (3 + Len(Carga(flujo)))..Len(flujo) : flujo[i] \in Palabras
  BY <1>1
<1> QED BY <1>1, <1>2, SubSeqProperties DEF TrasCarga

\* Without its i-th element a sequence keeps the type of its elements and is
\* one shorter.
LEMMA RemoveAtTipo ==
    ASSUME NEW S, NEW s \in Seq(S), NEW i \in DOMAIN s
    PROVE  /\ RemoveAt(s, i) \in Seq(S)
           /\ Len(RemoveAt(s, i)) = Len(s) - 1
<1>1. i \in 1..Len(s) /\ Len(s) \in Nat
  OBVIOUS
<1>2. /\ SubSeq(s, 1, i - 1) \in Seq(S)
      /\ Len(SubSeq(s, 1, i - 1)) = i - 1
  <2>1. \A k \in 1..(i - 1) : s[k] \in S
    BY <1>1
  <2> QED BY <1>1, <2>1, SubSeqProperties
<1>3. /\ SubSeq(s, i + 1, Len(s)) \in Seq(S)
      /\ Len(SubSeq(s, i + 1, Len(s))) = Len(s) - i
  <2>1. \A k \in (i + 1)..Len(s) : s[k] \in S
    BY <1>1
  <2> QED BY <1>1, <2>1, SubSeqProperties
<1>4. \A a, b \in Seq(S) : a \o b \in Seq(S) /\ Len(a \o b) = Len(a) + Len(b)
  OBVIOUS
<1>5. /\ RemoveAt(s, i) \in Seq(S)
      /\ Len(RemoveAt(s, i)) = (i - 1) + (Len(s) - i)
  BY <1>2, <1>3, <1>4, Zenon DEF RemoveAt
<1> QED BY <1>1, <1>5

\* The first element of a queue and the rest of it.
LEMMA PrimeroTipo ==
    ASSUME NEW cola \in Seq(Punteros)
    PROVE  Primero(cola) \in Punteros /\ Resto(cola) \in Seq(Punteros)
BY DEF Primero, Resto, Punteros

\* A packet that is sent lands in the output of somebody or nowhere.
LEMMA EnviarTipo ==
    ASSUME TypeOK, NEW fd, NEW paquete \in Paquetes, Enviar(fd, paquete)
    PROVE  salida' \in [Clientes -> Seq(Paquetes)] /\ vivo' \in BOOLEAN
<1>1. salida' \in [Clientes -> Seq(Paquetes)]
  BY DEF TypeOK, Enviar
<1>2. vivo' \in BOOLEAN
  BY DEF Enviar
<1> QED BY <1>1, <1>2

\* An entry of recursos_cpu is replaced by one that is not disponible.
LEMMA Reemplazo ==
    ASSUME TypeOK, NEW i \in DOMAIN recursos_cpu,
           NEW r \in Recurso, r.disponible = FALSE,
           recursos_cpu' = [recursos_cpu EXCEPT ![i] = r]
    PROVE  /\ recursos_cpu' \in Seq(Recurso)
           /\ DOMAIN recursos_cpu' = DOMAIN recursos_cpu
           /\ Disponibles' = Disponibles \ {i}
<1>1. /\ recursos_cpu' \in Seq(Recurso)
      /\ DOMAIN recursos_cpu' = DOMAIN recursos_cpu
      /\ \A j \in DOMAIN recursos_cpu :
            recursos_cpu'[j] = IF j = i THEN r ELSE recursos_cpu[j]
  BY DEF TypeOK
<1>2. Disponibles' = Disponibles \ {i}
  BY <1>1, Zenon DEF Disponibles
<1> QED BY <1>1, <1>2

\* A CPU that registers is one more entry, and it is disponible.
LEMMA Agregado ==
    ASSUME TypeOK, NEW r \in Recurso, r.disponible = TRUE,
           recursos_cpu' = Append(recursos_cpu, r)
    PROVE  /\ recursos_cpu' \in Seq(Recurso)
           /\ DOMAIN recursos_cpu \subseteq DOMAIN recursos_cpu'
           /\ Len(recursos_cpu) + 1 \notin Disponibles
           /\ Disponibles' = Disponibles \cup {Len(recursos_cpu) + 1}
<1> DEFINE n == Len(recursos_cpu) + 1
<1>1. /\ recursos_cpu \in Seq(Recurso)
      /\ n \notin DOMAIN recursos_cpu
      /\ DOMAIN recursos_cpu' = DOMAIN recursos_cpu \cup {n}
      /\ recursos_cpu' \in Seq(Recurso)
      /\ recursos_cpu'[n] = r
      /\ \A j \in DOMAIN recursos_cpu : recursos_cpu'[j] = recursos_cpu[j]
  BY AppendProperties DEF TypeOK
<1> HIDE DEF n
<1>2. n \notin Disponibles /\ Disponibles' = Disponibles \cup {n}
  BY <1>1, Zenon DEF Disponibles
<1> QED BY <1>1, <1>2, Zenon DEF n

\* buscar_cpu_libre changes one field of one entry.
LEMMA BuscaTipo ==
    ASSUME TypeOK, StsBuscaCpu
    PROVE  /\ recursos_cpu' \in Seq(Recurso)
           /\ DOMAIN recursos_cpu' = DOMAIN recursos_cpu
           /\ cpu_libre' \in Disponibles
           /\ Disponibles' = Disponibles \ {cpu_libre'}
<1>1. PICK i \in Disponibles :
          /\ cpu_libre' = i
          /\ recursos_cpu' = [recursos_cpu EXCEPT ![i].disponible = FALSE]
  BY Zenon DEF StsBuscaCpu
<1> DEFINE r == [recursos_cpu[i] EXCEPT !.disponible = FALSE]
<1>2. recursos_cpu[i] \in Recurso /\ i \in DOMAIN recursos_cpu
  BY DEF TypeOK, Disponibles
<1>3. r \in Recurso /\ r.disponible = FALSE
  BY <1>2 DEF Recurso
<1>4. recursos_cpu' = [recursos_cpu EXCEPT ![i] = r]
  BY <1>1, Zenon
<1> HIDE DEF r
<1>5. /\ recursos_cpu' \in Seq(Recurso)
      /\ DOMAIN recursos_cpu' = DOMAIN recursos_cpu
      /\ Disponibles' = Disponibles \ {i}
  BY <1>2, <1>3, <1>4, Reemplazo
<1> QED BY <1>1, <1>5, Zenon

\* The initial state has the types.
LEMMA TipoInit == Init => TypeOK
BY SupuestosServidor, SupuestosScheduler
   DEF Init, InitServidor, TypeOK, Fds, Palabras, PuntosHilo, PuntosLts,
       PuntosSts, Punteros, Recurso, PID, NULO, Disponibles

\* A step of long_term_scheduler keeps them.
LEMMA TipoLargoPlazo == TypeOK /\ LargoPlazo => TypeOK'
<1> USE DEF varsServidor, colas, semaforos, locSts, locLts, recursos, externos,
            TypeOK
<1> SUFFICES ASSUME TypeOK, LargoPlazo PROVE TypeOK'
  OBVIOUS
<1>1. CASE LtsEspera
  BY <1>1 DEF Wait, LtsEspera, PuntosLts
<1>2. CASE LtsRetira
  BY <1>2, PrimeroTipo DEF LtsRetira, PuntosLts
<1>3. CASE LtsAgrega
  BY <1>3 DEF LtsAgrega, PuntosLts
<1>4. CASE LtsAvisa
  BY <1>4 DEF Signal, LtsAvisa, PuntosLts
<1> QED BY <1>1, <1>2, <1>3, <1>4 DEF LargoPlazo

\* So does a step of fifo or of round_robin, up to the quantum ...
LEMMA TipoCortoPlazo == TypeOK /\ CortoPlazo => TypeOK'
<1> USE DEF varsServidor, colas, semaforos, locSts, locLts, recursos, externos,
            TypeOK
<1> SUFFICES ASSUME TypeOK, CortoPlazo PROVE TypeOK'
  OBVIOUS
<1>1. CASE StsEsperaReady
  BY <1>1 DEF Wait, StsEsperaReady, PuntosSts
<1>2. CASE StsEsperaCpu
  BY <1>2 DEF Wait, StsEsperaCpu, PuntosSts
<1>3. CASE StsRetira
  BY <1>3, PrimeroTipo DEF StsRetira, PuntosSts
<1>4. CASE StsBuscaCpu
  <2>1. /\ pc_sts' = "exec"
        /\ UNCHANGED <<varsServidor, colas, estado, semaforos, locLts, un_pcb,
                       recursos_io, vivo, externos>>
    BY <1>4, Zenon DEF StsBuscaCpu
  <2> QED BY <1>4, <2>1, BuscaTipo DEF PuntosSts, Disponibles
<1>5. CASE StsSinCpu
  BY <1>5 DEF StsSinCpu, PuntosSts, Punteros
<1>6. CASE StsExec
  BY <1>6 DEF StsExec, PuntosSts
<1>7. CASE StsEnvia
  <2>1. EXECUTE_PROCESS \in Paquetes
    BY DEF Paquetes
  <2>2. salida' \in [Clientes -> Seq(Paquetes)] /\ vivo' \in BOOLEAN
    BY <1>7, <2>1, EnviarTipo DEF StsEnvia
  <2> QED BY <1>7, <2>2 DEF StsEnvia, PuntosSts
<1> QED BY <1>1, <1>2, <1>3, <1>4, <1>5, <1>6, <1>7 DEF CortoPlazo

\* ... and after it.
LEMMA TipoQuantum == TypeOK /\ Quantum => TypeOK'
<1> USE DEF varsServidor, colas, semaforos, locSts, locLts, recursos, externos,
            TypeOK
<1> SUFFICES ASSUME TypeOK, Quantum PROVE TypeOK'
  OBVIOUS
<1>1. CASE RrFinQuantum
  BY <1>1, RemoveAtTipo DEF RrFinQuantum, PuntosSts
<1>2. CASE RrVuelve
  BY <1>2 DEF RrVuelve, PuntosSts
<1>3. CASE RrAvisaCpu
  BY <1>3 DEF Signal, RrAvisaCpu, PuntosSts
<1>4. CASE RrAvisaReady
  BY <1>4 DEF Signal, RrAvisaReady, PuntosSts
<1> QED BY <1>1, <1>2, <1>3, <1>4 DEF Quantum

\* A thread consumes words of a stream and leaves words.
LEMMA ConsumirTipo ==
    ASSUME TypeOK, NEW c \in Clientes, hilo[c] = "recv",
           NEW resto \in Seq(Palabras), Consumir(c, resto)
    PROVE  entrada' \in [Clientes -> Seq(Palabras)]
BY DEF TypeOK, Consumir

\* Accepting a connection, and every step of the thread that attends it, keep
\* the types.
LEMMA TipoAtencion ==
    ASSUME TypeOK, NEW c \in Clientes, Admision(c) \/ Atencion(c)
    PROVE  TypeOK'
<1> USE DEF varsServidor, colas, semaforos, locSts, locLts, recursos, externos,
            restoScheduler, PuntosHilo
<1>1. CASE Admision(c)
  BY <1>1 DEF Admision, Aceptar, TypeOK, Fds
<1>2. CASE LlamarRecv(c) /\ UNCHANGED restoScheduler
  BY <1>2 DEF LlamarRecv, TypeOK
<1>3. CASE LlegaFin(c) /\ UNCHANGED restoScheduler
  BY <1>3 DEF LlegaFin, TypeOK
<1>4. CASE CerrarEnRecibir(c) /\ UNCHANGED restoScheduler
  BY <1>4 DEF CerrarEnRecibir, Close, TypeOK
<1>5. ASSUME hilo[c] = "recv", entrada[leyendo[c]] # <<>>
      PROVE  /\ entrada[leyendo[c]] \in Seq(Palabras)
             /\ TrasCarga(entrada[leyendo[c]]) \in Seq(Palabras)
             /\ Tail(entrada[leyendo[c]]) \in Seq(Palabras)
  <2>1. entrada[leyendo[c]] \in Seq(Palabras)
    <3>1. leyendo[c] \in Clientes
      BY <1>5 DEF TypeOK
    <3>2. entrada \in [Clientes -> Seq(Palabras)]
      BY DEF TypeOK
    <3> QED BY <3>1, <3>2
  <2>2. Tail(entrada[leyendo[c]]) \in Seq(Palabras)
    BY <1>5, <2>1
  <2> QED BY <2>1, <2>2, TrasCargaTipo
<1>6. CASE AtenderNewCpu(c)
  <2>1. hilo[c] = "recv" /\ entrada[leyendo[c]] # <<>>
    BY <1>6 DEF AtenderNewCpu, Llega
  <2>2. entrada' \in [Clientes -> Seq(Palabras)]
    BY <1>5, <1>6, <2>1, ConsumirTipo DEF AtenderNewCpu
  <2>3. /\ recursos_cpu' \in Seq(Recurso)
        /\ DOMAIN recursos_cpu \subseteq DOMAIN recursos_cpu'
    <3> DEFINE r == [id |-> leyendo[c], socket |-> socket[c],
                     disponible |-> TRUE]
    <3>1. r \in Recurso
      BY <2>1 DEF TypeOK, Recurso
    <3>2. recursos_cpu' \in {recursos_cpu, Append(recursos_cpu, r)}
      BY <1>6, Zenon DEF AtenderNewCpu, RecursoDe
    <3>3. r.disponible = TRUE
      OBVIOUS
    <3> HIDE DEF r
    <3>4. CASE recursos_cpu' = recursos_cpu
      BY <3>4 DEF TypeOK
    <3>5. CASE recursos_cpu' = Append(recursos_cpu, r)
      BY <3>1, <3>3, <3>5, Agregado
    <3> QED BY <3>2, <3>4, <3>5
  <2>4. /\ hilo' \in [Clientes -> PuntosHilo]
        /\ \A d \in Clientes : /\ hilo'[d] # "sin" => hilo[d] # "sin"
                               /\ hilo'[d] = "recv" => hilo[d] = "recv"
    BY <1>6, <2>1 DEF AtenderNewCpu, Seguir, TypeOK
  <2>5. /\ UNCHANGED <<cliente, conexion, socket, leyendo>>
        /\ UNCHANGED <<colas, estado, semaforos, locLts, locSts, recursos_io,
                       vivo, externos>>
    BY <1>6, Zenon DEF AtenderNewCpu, Consumir
  <2>6. \A d \in Clientes : /\ hilo'[d] # "sin" => socket'[d] \in Fds
                            /\ hilo'[d] = "recv" => leyendo'[d] \in Clientes
    BY <2>4, <2>5 DEF TypeOK
  <2>7. pc_sts' \in {"exec", "envia"} => cpu_libre' \in DOMAIN recursos_cpu'
    BY <2>3, <2>5 DEF TypeOK
  <2> QED BY <2>2, <2>3, <2>4, <2>5, <2>6, <2>7 DEF TypeOK
<1>7. CASE AvisarCpu(c)
  BY <1>7 DEF Signal, AvisarCpu, Seguir, TypeOK
<1>8. CASE AtenderNewIo(c)
  <2>1. hilo[c] = "recv" /\ entrada[leyendo[c]] # <<>>
    BY <1>8 DEF AtenderNewIo, Llega
  <2>2. entrada' \in [Clientes -> Seq(Palabras)]
    BY <1>5, <1>8, <2>1, ConsumirTipo DEF AtenderNewIo
  <2> QED BY <1>8, <2>1, <2>2 DEF AtenderNewIo, Consumir, Seguir, TypeOK
<1>9. CASE BloquearPid(c)
  BY <1>9 DEF BloquearPid, Seguir, TypeOK
<1>10. CASE EnviarSleep(c)
  <2>1. IO_SLEEP \in Paquetes
    BY DEF Paquetes
  <2>2. salida' \in [Clientes -> Seq(Paquetes)] /\ vivo' \in BOOLEAN
    BY <1>10, <2>1, EnviarTipo DEF EnviarSleep, TypeOK
  <2> QED BY <1>10, <2>2 DEF EnviarSleep, Seguir, TypeOK
<1>11. CASE AtenderIoFinished(c)
  <2>1. hilo[c] = "recv" /\ entrada[leyendo[c]] # <<>>
    BY <1>11 DEF AtenderIoFinished, Llega
  <2>2. entrada' \in [Clientes -> Seq(Palabras)]
    BY <1>5, <1>11, <2>1, ConsumirTipo DEF AtenderIoFinished
  <2> QED BY <1>11, <2>1, <2>2 DEF AtenderIoFinished, Consumir, Seguir, TypeOK
<1>12. CASE IgnorarOperacion(c)
  <2>1. hilo[c] = "recv" /\ entrada[leyendo[c]] # <<>>
    BY <1>12 DEF IgnorarOperacion, Llega
  <2>2. entrada' \in [Clientes -> Seq(Palabras)]
    BY <1>5, <1>12, <2>1, ConsumirTipo DEF IgnorarOperacion
  <2> QED BY <1>12, <2>1, <2>2 DEF IgnorarOperacion, Consumir, Seguir, TypeOK
<1>13. CASE CerrarEnAdmitir(c)
  BY <1>13 DEF CerrarEnAdmitir, Close, Seguir, TypeOK
<1> QED BY <1>1, <1>2, <1>3, <1>4, <1>6, <1>7, <1>8, <1>9, <1>10, <1>11, <1>12,
           <1>13 DEF Atencion

\* The packets that the clients write are made of words.
LEMMA PaquetesTipo ==
    /\ \A op \in Nat, x \in Palabras : PaqueteCadena(op, x) \in Seq(Palabras)
    /\ \A op \in Nat : PaquetePcb(op, PID, 0) \in Seq(Palabras)
BY DEF PaqueteCadena, PaquetePcb, Palabras, LONGITUD_CADENA, PID

\* What the clients do keeps the types.
LEMMA TipoEntorno == TypeOK /\ Entorno => TypeOK'
<1> USE DEF varsServidor, colas, semaforos, locSts, locLts, recursos, externos,
            restoScheduler
<1> SUFFICES ASSUME TypeOK, Entorno PROVE TypeOK'
  OBVIOUS
<1>1. ASSUME NEW c \in Clientes, Entra(c) PROVE TypeOK'
  <2>1. Saludo(c) \in Seq(Palabras)
    BY PaquetesTipo DEF Saludo, NEW_CPU, NEW_IO, Palabras
  <2> QED BY <1>1, <2>1 DEF Entra, Conectar, TypeOK
<1>2. ASSUME NEW c \in Clientes, SeVa(c) PROVE TypeOK'
  BY <1>2 DEF SeVa, Desconectar, TypeOK
<1>3. ASSUME NEW c \in Cpus, CpuRecibe(c) PROVE TypeOK'
  <2>1. salida' \in [Clientes -> Seq(Paquetes)]
    <3>1. salida' \in {salida, [salida EXCEPT ![c] = Tail(salida[c])]}
      BY <1>3, Zenon DEF CpuRecibe
    <3>2. /\ c \in Clientes /\ salida[c] # <<>>
          /\ salida \in [Clientes -> Seq(Paquetes)]
      BY <1>3, SupuestosScheduler DEF CpuRecibe, TypeOK
    <3>3. Tail(salida[c]) \in Seq(Paquetes)
      BY <3>2
    <3> QED BY <3>1, <3>2, <3>3
  <2>2. /\ cliente' \in [Clientes -> {"fuera", "dentro", "ido"}]
        /\ ejecutando' \subseteq Cpus
    BY <1>3 DEF CpuRecibe, TypeOK
  <2> QED BY <1>3, <2>1, <2>2 DEF CpuRecibe, TypeOK
<1>4. ASSUME NEW c \in Cpus, CpuTermina(c) PROVE TypeOK'
  <2>1. \A v \in {PaquetePcb(EXECUTE_PROCESS, PID, 0), <<>>} :
           v \in Seq(Palabras)
    <3>1. PaquetePcb(EXECUTE_PROCESS, PID, 0) \in Seq(Palabras)
      BY PaquetesTipo DEF EXECUTE_PROCESS
    <3>2. <<>> \in Seq(Palabras)
      OBVIOUS
    <3> QED BY <3>1, <3>2, Zenon
  <2>2. PICK v \in {PaquetePcb(EXECUTE_PROCESS, PID, 0), <<>>} :
           entrada' = [entrada EXCEPT ![c] = entrada[c] \o v]
    BY <1>4, Zenon DEF CpuTermina
  <2>3. entrada' \in [Clientes -> Seq(Palabras)]
    <3>1. entrada[c] \in Seq(Palabras) /\ v \in Seq(Palabras)
      BY <2>1, SupuestosScheduler DEF TypeOK
    <3>2. entrada[c] \o v \in Seq(Palabras)
      BY <3>1
    <3> QED BY <2>2, <3>2 DEF TypeOK
  <2> QED BY <1>4, <2>3 DEF CpuTermina, TypeOK
<1>5. ASSUME NEW c \in Cpus, CpuSegFault(c) PROVE TypeOK'
  <2>1. PaquetePcb(SEG_FAULT, PID, 0) \in Seq(Palabras)
    BY PaquetesTipo DEF SEG_FAULT
  <2> QED BY <1>5, <2>1, SupuestosScheduler DEF CpuSegFault, TypeOK
<1>6. ASSUME NEW c \in Cpus, CpuInterrumpida(c) PROVE TypeOK'
  <2>1. Head(salida[c]) \in Nat
    <3>1. salida[c] \in Seq(Paquetes) /\ salida[c] # <<>>
      BY <1>6, SupuestosScheduler DEF CpuInterrumpida, TypeOK
    <3>2. Head(salida[c]) \in Paquetes
      BY <3>1
    <3> QED BY <3>2 DEF Paquetes, EXECUTE_PROCESS, IO_SLEEP
  <2>2. PaquetePcb(Head(salida[c]), PID, 0) \in Seq(Palabras)
    BY <2>1, PaquetesTipo
  <2> QED BY <1>6, <2>2, SupuestosScheduler DEF CpuInterrumpida, TypeOK
<1>7. ASSUME NEW c \in Ios, IoRecibe(c) PROVE TypeOK'
  <2>1. PaqueteCadena(IO_FINISHED, PID_MOCK) \in Seq(Palabras)
    BY PaquetesTipo DEF IO_FINISHED, PID_MOCK, Palabras
  <2> QED BY <1>7, <2>1, SupuestosScheduler DEF IoRecibe, TypeOK
<1> QED BY <1>1, <1>2, <1>3, <1>4, <1>5, <1>6, <1>7 DEF Entorno

\* Every step keeps the types.
LEMMA TipoPaso == TypeOK /\ [Next]_vars => TypeOK'
<1> SUFFICES ASSUME TypeOK, [Next]_vars PROVE TypeOK'
  OBVIOUS
<1>1. CASE UNCHANGED vars
  BY <1>1 DEF vars, varsServidor, colas, semaforos, locSts, locLts, recursos,
              externos, TypeOK
<1>2. CASE Next
  BY <1>2, TipoLargoPlazo, TipoCortoPlazo, TipoQuantum, TipoAtencion,
     TipoEntorno DEF Next
<1> QED BY <1>1, <1>2

\* Every state the scheduler reaches has the types: no semaphore below zero, no
\* thread on a descriptor that is not of the table, no dispatch to a resource
\* that does not exist.
THEOREM TipoCorrecto == Spec => []TypeOK
BY TipoInit, TipoPaso, PTL DEF Spec

-----------------------------------------------------------------------------
(* FIFO: the semaphores count exactly what they stand for *)

\* The sets that are counted are finite.
LEMMA Finitos ==
    ASSUME TypeOK
    PROVE  /\ IsFiniteSet(PorAvisar) /\ Cardinality(PorAvisar) \in Nat
           /\ IsFiniteSet(Disponibles) /\ Cardinality(Disponibles) \in Nat
<1>1. IsFiniteSet(PorAvisar)
  BY SupuestosServidor, FS_Subset DEF PorAvisar
<1>2. DOMAIN recursos_cpu = 1..Len(recursos_cpu) /\ Len(recursos_cpu) \in Nat
  BY DEF TypeOK
<1>3. IsFiniteSet(Disponibles)
  <2>1. IsFiniteSet(1..Len(recursos_cpu))
    BY <1>2, FS_Interval
  <2>2. Disponibles \subseteq 1..Len(recursos_cpu)
    BY <1>2 DEF Disponibles
  <2> QED BY <2>1, <2>2, FS_Subset
<1> QED BY <1>1, <1>3, FS_CardinalityType

\* The initial state satisfies the invariant: one process in cola_new and one
\* unit of sem_new.
LEMMA InvInit == Init => InvFifo
<1> SUFFICES ASSUME Init PROVE InvFifo
  OBVIOUS
<1>1. TypeOK
  BY TipoInit
<1>2. InvColas
  BY DEF Init, InvColas, SemNewReadyExacto, UnSoloLugar, Lugares, Uno, PID
<1>3. PorAvisar = {} /\ Disponibles = {}
  BY DEF Init, InitServidor, PorAvisar, Disponibles
<1>4. SemReadyExacto
  BY <1>3, FS_EmptySet DEF Init, SemReadyExacto, CreditoCpu, Uno
<1> QED BY <1>1, <1>2, <1>4 DEF InvFifo

\* The queues: the steps of the two schedulers.
LEMMA ColasLargoPlazo ==
    ASSUME TypeOK, InvColas, LargoPlazo
    PROVE  InvColas'
<1> USE DEF colas, semaforos, locSts, locLts, InvColas, SemNewReadyExacto,
            UnSoloLugar, Lugares, Uno
<1>1. CASE LtsEspera
  BY <1>1 DEF Wait, LtsEspera, TypeOK
<1>2. CASE LtsRetira
  <2>1. Len(cola_new) \in Nat /\ Len(cola_new) > 0 /\ cola_new # <<>>
    BY <1>2 DEF LtsRetira, TypeOK
  <2>2. /\ Head(cola_new) = PID
        /\ Tail(cola_new) \in Seq({PID})
        /\ Len(Tail(cola_new)) = Len(cola_new) - 1
    BY <2>1
  <2>3. lts_pcb' = PID /\ cola_new' = Tail(cola_new)
    BY <1>2, <2>1, <2>2 DEF LtsRetira, Primero, Resto
  <2> QED BY <1>2, <2>1, <2>2, <2>3 DEF LtsRetira, TypeOK
<1>3. CASE LtsAgrega
  BY <1>3 DEF LtsAgrega, TypeOK
<1>4. CASE LtsAvisa
  BY <1>4 DEF Signal, LtsAvisa, TypeOK
<1> QED BY <1>1, <1>2, <1>3, <1>4 DEF LargoPlazo

LEMMA ColasCortoPlazo ==
    ASSUME Algoritmo = "FIFO", TypeOK, InvColas, SemReadyExacto, CortoPlazo
    PROVE  InvColas'
<1> USE DEF colas, semaforos, locSts, locLts, InvColas, SemNewReadyExacto,
            UnSoloLugar, Lugares, Uno
<1>1. CASE StsEsperaReady
  BY <1>1 DEF Wait, StsEsperaReady, TypeOK
<1>2. CASE StsEsperaCpu
  BY <1>2 DEF Wait, StsEsperaCpu, TypeOK
<1>3. CASE StsRetira
  <2>1. Len(cola_ready) \in Nat /\ Len(cola_ready) > 0 /\ cola_ready # <<>>
    BY <1>3 DEF StsRetira, TypeOK
  <2>2. /\ Head(cola_ready) = PID
        /\ Tail(cola_ready) \in Seq({PID})
        /\ Len(Tail(cola_ready)) = Len(cola_ready) - 1
    BY <2>1
  <2>3. un_pcb' = PID /\ cola_ready' = Tail(cola_ready) /\ pc_sts' = "busca"
    BY <1>3, <2>1, <2>2 DEF StsRetira, Primero, Resto
  <2> QED BY <1>3, <2>1, <2>2, <2>3 DEF StsRetira, TypeOK
<1>4. CASE StsBuscaCpu
  <2>1. pc_sts' = "exec" /\ pc_sts = "busca"
        /\ UNCHANGED <<colas, semaforos, locLts, un_pcb>>
    BY <1>4, Zenon DEF StsBuscaCpu
  <2> QED BY <2>1 DEF TypeOK
<1>5. CASE StsSinCpu
  <2>1. Cardinality(Disponibles) = 0
    BY <1>5, FS_EmptySet DEF StsSinCpu
  <2>2. CreditoCpu > 0
    BY <1>5, Finitos DEF StsSinCpu, CreditoCpu, TypeOK
  <2> QED BY <2>1, <2>2 DEF SemReadyExacto
<1>6. CASE StsExec
  BY <1>6 DEF StsExec, TypeOK
<1>7. CASE StsEnvia
  BY <1>7 DEF StsEnvia, TypeOK
<1> QED BY <1>1, <1>2, <1>3, <1>4, <1>5, <1>6, <1>7 DEF CortoPlazo

\* Nothing else touches the queues, their semaphores or the two schedulers.
LEMMA ColasResto ==
    ASSUME InvColas,
           UNCHANGED <<cola_new, cola_ready, cola_exec, sem_new, sem_new_ready,
                       locLts, locSts>>
    PROVE  InvColas'
BY DEF InvColas, SemNewReadyExacto, UnSoloLugar, Lugares, locLts, locSts, Uno

\* The CPUs: what is counted on each side of SemReadyExacto, step by step.
LEMMA CreditoCortoPlazo ==
    ASSUME Algoritmo = "FIFO", TypeOK, InvColas, SemReadyExacto, CortoPlazo
    PROVE  SemReadyExacto'
<1>1. CASE StsBuscaCpu
  <2>1. /\ pc_sts = "busca" /\ pc_sts' = "exec"
        /\ UNCHANGED <<sem_ready, hilo>>
    BY <1>1, Zenon DEF StsBuscaCpu, varsServidor, semaforos
  <2>2. Cardinality(Disponibles') = Cardinality(Disponibles) - 1
    <3>1. /\ cpu_libre' \in Disponibles
          /\ Disponibles' = Disponibles \ {cpu_libre'}
      BY <1>1, BuscaTipo
    <3> QED BY <3>1, Finitos, FS_RemoveElement
  <2>3. PorAvisar' = PorAvisar
    BY <2>1 DEF PorAvisar
  <2> QED BY <2>1, <2>2, <2>3, Finitos
             DEF SemReadyExacto, CreditoCpu, Uno, TypeOK
<1>2. CASE ~StsBuscaCpu
  <2>1. UNCHANGED <<recursos_cpu, hilo>>
    BY <1>2 DEF Wait, CortoPlazo, StsEsperaReady, StsEsperaCpu, StsRetira,
                StsSinCpu, StsExec, StsEnvia, varsServidor, recursos
  <2>2. Disponibles' = Disponibles /\ PorAvisar' = PorAvisar
    BY <2>1 DEF Disponibles, PorAvisar
  <2>3. Disponibles # {} \/ pc_sts # "busca"
    <3>1. SUFFICES ASSUME pc_sts = "busca", Disponibles = {} PROVE FALSE
      OBVIOUS
    <3>2. CreditoCpu > 0
      BY <3>1, Finitos DEF CreditoCpu, Uno, TypeOK
    <3> QED BY <3>1, <3>2, FS_EmptySet DEF SemReadyExacto
  <2>4. sem_ready' + Uno(pc_sts \in {"retira", "busca"})'
            = sem_ready + Uno(pc_sts \in {"retira", "busca"})
    BY <1>2, <2>3
       DEF Wait, CortoPlazo, StsEsperaReady, StsEsperaCpu, StsRetira, StsSinCpu,
           StsExec, StsEnvia, semaforos, Uno, TypeOK
  <2>5. /\ Uno(pc_sts \in {"retira", "busca"}) \in Nat
        /\ Uno(pc_sts \in {"retira", "busca"})' \in Nat
        /\ sem_ready \in Nat /\ sem_ready' \in Nat
    BY TipoCortoPlazo DEF Uno, TypeOK
  <2> QED BY <2>2, <2>4, <2>5, Finitos DEF SemReadyExacto, CreditoCpu
<1> QED BY <1>1, <1>2

\* The thread of a CPU adds an entry and owes a signal, then pays it.
LEMMA CreditoNewCpu ==
    ASSUME TypeOK, SemReadyExacto, NEW c \in Clientes, AtenderNewCpu(c)
    PROVE  SemReadyExacto'
<1> DEFINE r == [id |-> leyendo[c], socket |-> socket[c], disponible |-> TRUE]
<1>1. hilo[c] = "recv" /\ UNCHANGED <<sem_ready, pc_sts>>
  BY Zenon DEF AtenderNewCpu, Llega, semaforos, locSts
<1>2. CASE Carga(entrada[leyendo[c]]) = <<>>
  <2>1. recursos_cpu' = recursos_cpu /\ hilo' = [hilo EXCEPT ![c] = "fin"]
    BY <1>2, Zenon DEF AtenderNewCpu, Seguir
  <2>2. PorAvisar' = PorAvisar /\ Disponibles' = Disponibles
    BY <1>1, <2>1 DEF PorAvisar, Disponibles, TypeOK
  <2> QED BY <1>1, <2>2 DEF SemReadyExacto, CreditoCpu
<1>3. CASE Carga(entrada[leyendo[c]]) # <<>>
  <2>1. /\ recursos_cpu' = Append(recursos_cpu, r)
        /\ hilo' = [hilo EXCEPT ![c] = "avisa"]
    BY <1>3, Zenon DEF AtenderNewCpu, RecursoDe, Seguir
  <2>2. PorAvisar' = PorAvisar \cup {c} /\ c \notin PorAvisar
    BY <1>1, <2>1 DEF PorAvisar, TypeOK
  <2>3. r \in Recurso /\ r.disponible = TRUE
    BY <1>1 DEF Recurso, TypeOK
  <2>4. /\ Len(recursos_cpu) + 1 \notin Disponibles
        /\ Disponibles' = Disponibles \cup {Len(recursos_cpu) + 1}
    BY <2>1, <2>3, Agregado
  <2>5. /\ Cardinality(PorAvisar') = Cardinality(PorAvisar) + 1
        /\ Cardinality(Disponibles') = Cardinality(Disponibles) + 1
    BY <2>2, <2>4, Finitos, FS_AddElement
  <2> QED BY <1>1, <2>5, Finitos DEF SemReadyExacto, CreditoCpu, Uno, TypeOK
<1> QED BY <1>2, <1>3

LEMMA CreditoAvisar ==
    ASSUME TypeOK, SemReadyExacto, NEW c \in Clientes, AvisarCpu(c)
    PROVE  SemReadyExacto'
<1>1. /\ hilo[c] = "avisa" /\ hilo' = [hilo EXCEPT ![c] = "llama"]
      /\ sem_ready' = sem_ready + 1
      /\ UNCHANGED <<pc_sts, recursos_cpu>>
  BY DEF Signal, AvisarCpu, Seguir, locSts, recursos
<1>2. PorAvisar' = PorAvisar \ {c} /\ c \in PorAvisar
  BY <1>1 DEF PorAvisar, TypeOK
<1>3. Cardinality(PorAvisar') = Cardinality(PorAvisar) - 1
  BY <1>2, Finitos, FS_RemoveElement
<1>4. Disponibles' = Disponibles
  BY <1>1 DEF Disponibles
<1>5. /\ Uno(pc_sts \in {"retira", "busca"}) \in Nat
      /\ Uno(pc_sts \in {"retira", "busca"})'
           = Uno(pc_sts \in {"retira", "busca"})
  BY <1>1 DEF Uno
<1>6. sem_ready \in Nat
  BY DEF TypeOK
<1> QED BY <1>1, <1>3, <1>4, <1>5, <1>6, Finitos DEF SemReadyExacto, CreditoCpu

\* A step that neither registers a CPU nor moves a thread to or from the point
\* where it signals leaves both sides alone.
LEMMA CreditoResto ==
    ASSUME SemReadyExacto,
           UNCHANGED <<recursos_cpu, sem_ready, pc_sts>>,
           \A d \in Clientes : hilo'[d] = "avisa" <=> hilo[d] = "avisa"
    PROVE  SemReadyExacto'
<1>1. PorAvisar' = PorAvisar /\ Disponibles' = Disponibles
  BY DEF PorAvisar, Disponibles
<1> QED BY <1>1 DEF SemReadyExacto, CreditoCpu

\* The threads that attend the clients leave the queues to the schedulers.
LEMMA AtencionColas ==
    ASSUME NEW c \in Clientes, Admision(c) \/ Atencion(c)
    PROVE  UNCHANGED <<cola_new, cola_ready, cola_exec, sem_new, sem_new_ready,
                       locLts, locSts>>
BY DEF Signal, Admision, Atencion, AtenderNewCpu, AvisarCpu, AtenderNewIo,
       BloquearPid, EnviarSleep, AtenderIoFinished, IgnorarOperacion,
       CerrarEnAdmitir, colas, semaforos, locSts, locLts, recursos,
       restoScheduler

\* Only two of their steps have to do with the CPUs that are counted.
LEMMA AtencionCredito ==
    ASSUME TypeOK, NEW c \in Clientes, Admision(c) \/ Atencion(c),
           ~AtenderNewCpu(c), ~AvisarCpu(c)
    PROVE  /\ UNCHANGED <<recursos_cpu, sem_ready, pc_sts>>
           /\ \A d \in Clientes : hilo'[d] = "avisa" <=> hilo[d] = "avisa"
<1> USE DEF colas, semaforos, locSts, locLts, recursos, restoScheduler
<1>1. UNCHANGED <<recursos_cpu, sem_ready, pc_sts>>
  BY DEF Admision, Atencion, AtenderNewIo, BloquearPid, EnviarSleep,
         AtenderIoFinished, IgnorarOperacion, CerrarEnAdmitir
<1>2. PICK p \in PuntosHilo \ {"avisa"} : hilo' = [hilo EXCEPT ![c] = p]
  BY Zenon
     DEF Admision, Atencion, Aceptar, LlamarRecv, LlegaFin, CerrarEnRecibir,
         AtenderNewIo, BloquearPid, EnviarSleep, AtenderIoFinished,
         IgnorarOperacion, CerrarEnAdmitir, Seguir, PuntosHilo
<1>3. hilo[c] # "avisa"
  BY DEF Admision, Atencion, Aceptar, LlamarRecv, LlegaFin, CerrarEnRecibir,
         AtenderNewIo, BloquearPid, EnviarSleep, AtenderIoFinished,
         IgnorarOperacion, CerrarEnAdmitir, Llega
<1>4. \A d \in Clientes : hilo'[d] = "avisa" <=> hilo[d] = "avisa"
  BY <1>2, <1>3 DEF TypeOK
<1> QED BY <1>1, <1>4

\* What the clients do, and what nobody does, changes none of this.
LEMMA EntornoAjeno ==
    ASSUME Entorno \/ UNCHANGED vars
    PROVE  /\ UNCHANGED <<cola_new, cola_ready, cola_exec, sem_new,
                          sem_new_ready, locLts, locSts>>
           /\ UNCHANGED <<recursos_cpu, sem_ready, pc_sts, hilo>>
BY DEF Entorno, Entra, Conectar, SeVa, Desconectar, CpuRecibe, CpuTermina,
       CpuSegFault, CpuInterrumpida, IoRecibe, vars, varsServidor, colas,
       semaforos, locSts, locLts, recursos, restoScheduler

\* Every step of FIFO keeps the invariant.
LEMMA InvPaso ==
    ASSUME Algoritmo = "FIFO", InvFifo, [Next]_vars
    PROVE  InvFifo'
<1>1. TypeOK /\ InvColas /\ SemReadyExacto
  BY DEF InvFifo
<1>2. TypeOK'
  BY <1>1, TipoPaso
<1>3. CASE LargoPlazo
  <2>1. UNCHANGED <<recursos_cpu, sem_ready, pc_sts, hilo>>
    BY <1>3 DEF Wait, Signal, LargoPlazo, LtsEspera, LtsRetira, LtsAgrega,
                LtsAvisa, recursos, semaforos, locSts, varsServidor
  <2> QED BY <1>1, <1>2, <1>3, <2>1, ColasLargoPlazo, CreditoResto DEF InvFifo
<1>4. CASE CortoPlazo
  BY <1>1, <1>2, <1>4, ColasCortoPlazo, CreditoCortoPlazo DEF InvFifo
<1>5. CASE Quantum
  BY <1>1, <1>5 DEF Signal, Quantum, RrFinQuantum, RrVuelve, RrAvisaCpu,
                    RrAvisaReady, InvColas
<1>6. ASSUME NEW c \in Clientes, Admision(c) \/ Atencion(c) PROVE InvFifo'
  <2>1. InvColas'
    BY <1>1, <1>6, AtencionColas, ColasResto
  <2>2. CASE AtenderNewCpu(c)
    BY <1>1, <1>2, <2>1, <2>2, CreditoNewCpu DEF InvFifo
  <2>3. CASE AvisarCpu(c)
    BY <1>1, <1>2, <2>1, <2>3, CreditoAvisar DEF InvFifo
  <2>4. CASE ~AtenderNewCpu(c) /\ ~AvisarCpu(c)
    BY <1>1, <1>2, <1>6, <2>1, <2>4, AtencionCredito, CreditoResto DEF InvFifo
  <2> QED BY <2>2, <2>3, <2>4
<1>7. CASE Entorno \/ UNCHANGED vars
  BY <1>1, <1>2, <1>7, EntornoAjeno, ColasResto, CreditoResto DEF InvFifo
<1> QED BY <1>3, <1>4, <1>5, <1>6, <1>7 DEF Next

\* The invariant holds in every state of FIFO.
THEOREM InvarianteFifo ==
    ASSUME Algoritmo = "FIFO"
    PROVE  Spec => []InvFifo
BY InvInit, InvPaso, PTL DEF Spec

\* What follows from it.
LEMMA ConsecuenciasFifo ==
    ASSUME InvFifo
    PROVE  /\ UnSoloLugar /\ SemReadyExacto /\ SemNewReadyExacto
           /\ HayCpuLibre /\ SinDespertarPerdido
<1>1. TypeOK /\ InvColas /\ SemReadyExacto
  BY DEF InvFifo
<1>2. UnSoloLugar /\ SemNewReadyExacto
  BY <1>1 DEF InvColas
<1>3. HayCpuLibre
  <2>1. SUFFICES ASSUME pc_sts = "busca", Disponibles = {} PROVE FALSE
    BY DEF HayCpuLibre
  <2>2. CreditoCpu > 0
    BY <1>1, <2>1, Finitos DEF CreditoCpu, Uno, TypeOK
  <2> QED BY <1>1, <2>1, <2>2, FS_EmptySet DEF SemReadyExacto
<1>4. SinDespertarPerdido
  <2>1. SUFFICES ASSUME cola_ready # <<>>, Disponibles # {}, PorAvisar = {},
                        pc_lts # "avisa"
                 PROVE  /\ pc_sts = "espera_ready" => sem_new_ready > 0
                        /\ pc_sts = "espera_cpu" => sem_ready > 0
    BY DEF SinDespertarPerdido
  <2>2. pc_sts = "espera_ready" => sem_new_ready > 0
    <3>1. Len(cola_ready) \in Nat /\ Len(cola_ready) > 0
      BY <1>1, <2>1 DEF TypeOK
    <3> QED BY <1>1, <1>2, <2>1, <3>1 DEF SemNewReadyExacto, Uno, TypeOK
  <2>3. pc_sts = "espera_cpu" => sem_ready > 0
    <3>1. Cardinality(Disponibles) # 0 /\ Cardinality(Disponibles) \in Nat
      BY <1>1, <2>1, Finitos, FS_EmptySet
    <3>2. Cardinality(PorAvisar) = 0
      BY <2>1, FS_EmptySet
    <3> QED BY <1>1, <3>1, <3>2 DEF SemReadyExacto, CreditoCpu, Uno, TypeOK
  <2> QED BY <2>2, <2>3
<1> QED BY <1>1, <1>2, <1>3, <1>4

\* With FIFO, whatever the clients do: the process is in exactly one place, both
\* semaphores stand for what they count, the scheduler that got past them finds
\* a process and a CPU, and it never sleeps through a wake-up.
THEOREM SeguridadFifo ==
    ASSUME Algoritmo = "FIFO"
    PROVE  Spec => [](/\ UnSoloLugar /\ SemReadyExacto /\ SemNewReadyExacto
                      /\ HayCpuLibre /\ SinDespertarPerdido)
BY InvarianteFifo, ConsecuenciasFifo, PTL

\* The same, one property at a time.  Between two critical sections the process
\* is nowhere else than in the hands of one scheduler (gestion.c:402-412, 232-247).
THEOREM UnSoloLugarFifo ==
    ASSUME Algoritmo = "FIFO"
    PROVE  Spec => []UnSoloLugar
BY InvarianteFifo, ConsecuenciasFifo, PTL

\* sem_ready is the number of free CPUs, up to the signals and waits under way
\* (gestion.c:144-148, 230, 236).
THEOREM SemReadyExactoFifo ==
    ASSUME Algoritmo = "FIFO"
    PROVE  Spec => []SemReadyExacto
BY InvarianteFifo, ConsecuenciasFifo, PTL

\* sem_new_ready is the length of cola_ready, in the same sense
\* (gestion.c:229, 232-234, 410-416).
THEOREM SemNewReadyExactoFifo ==
    ASSUME Algoritmo = "FIFO"
    PROVE  Spec => []SemNewReadyExacto
BY InvarianteFifo, ConsecuenciasFifo, PTL

\* buscar_cpu_libre never gives NULL (gestion.c:236, 435-452).
THEOREM HayCpuLibreFifo ==
    ASSUME Algoritmo = "FIFO"
    PROVE  Spec => []HayCpuLibre
BY InvarianteFifo, ConsecuenciasFifo, PTL

-----------------------------------------------------------------------------
(* FIFO implements CicloDeVida: a state maps to Lugar and Libres, and each  *)
(* step to LlegaCpu, Admite, Despacha or none.                              *)

\* What Libres counts is a number.
LEMMA LibresTipo ==
    ASSUME TypeOK
    PROVE  /\ Libres = Cardinality(Disponibles) + Uno(pc_sts = "exec")
           /\ Cardinality(Disponibles) \in Nat /\ Libres \in Nat
BY Finitos DEF Libres, Uno

LEMMA CicloInit == Init => Ciclo!Init
<1> SUFFICES ASSUME Init PROVE Ciclo!Init
  OBVIOUS
<1>1. Disponibles = {}
  BY DEF Init, Disponibles
<1>2. Libres = 0
  BY <1>1, FS_EmptySet DEF Init, Libres, Uno
<1>3. Lugar = "NEW"
  BY DEF Init, Lugar
<1> QED BY <1>2, <1>3 DEF Ciclo!Init

\* A step that leaves the queues, the control points and the CPUs alone is no
\* step of the life cycle.
LEMMA CicloResto ==
    ASSUME UNCHANGED <<cola_new, cola_exec, pc_lts, pc_sts, recursos_cpu>>
    PROVE  UNCHANGED Ciclo!vars
BY DEF Ciclo!vars, Lugar, Libres, Disponibles

\* long_term_scheduler admits the process when it adds it to cola_ready.
LEMMA CicloLargoPlazo ==
    ASSUME InvFifo, LargoPlazo
    PROVE  Ciclo!Admite \/ UNCHANGED Ciclo!vars
<1> USE DEF colas, recursos, locSts
<1>1. TypeOK /\ UnSoloLugar
  BY DEF InvFifo, InvColas
<1>2. /\ Len(cola_new) \in Nat /\ Len(cola_ready) \in Nat /\ Len(cola_exec) \in Nat
      /\ cola_new # <<>> <=> Len(cola_new) > 0
      /\ cola_exec # <<>> <=> Len(cola_exec) > 0
  BY <1>1 DEF TypeOK
<1>3. UNCHANGED <<cola_exec, pc_sts, recursos_cpu>>
  BY DEF LargoPlazo, LtsEspera, LtsRetira, LtsAgrega, LtsAvisa
<1>4. Libres' = Libres
  BY <1>3 DEF Libres, Disponibles
<1>5. CASE LtsRetira
  <2>1. cola_new # <<>>
    BY <1>1, <1>2, <1>5 DEF InvFifo, InvColas, Uno, LtsRetira, TypeOK
  <2>2. Lugar' = Lugar
    BY <1>3, <1>5, <2>1 DEF Lugar, LtsRetira
  <2> QED BY <1>4, <2>2 DEF Ciclo!vars
<1>6. CASE LtsAgrega
  <2>1. cola_new = <<>> /\ cola_exec = <<>>
    BY <1>1, <1>2, <1>6 DEF UnSoloLugar, Lugares, Uno, LtsAgrega
  <2>2. Lugar = "NEW" /\ Lugar' = "READY"
    BY <1>6, <2>1 DEF Lugar, LtsAgrega
  <2> QED BY <1>4, <2>2 DEF Ciclo!Admite
<1>7. CASE LtsEspera \/ LtsAvisa
  <2>1. Lugar' = Lugar
    BY <1>7 DEF Lugar, LtsEspera, LtsAvisa
  <2> QED BY <1>4, <2>1 DEF Ciclo!vars
<1> QED BY <1>5, <1>6, <1>7 DEF LargoPlazo

\* The short term scheduler takes a CPU and holds it until the process is in
\* cola_exec: between the two the life cycle still counts the CPU as free.
LEMMA CicloCortoPlazo ==
    ASSUME InvFifo, CortoPlazo
    PROVE  Ciclo!Despacha \/ UNCHANGED Ciclo!vars
<1> USE DEF colas, recursos, locLts
<1>1. TypeOK /\ UnSoloLugar /\ HayCpuLibre
  BY ConsecuenciasFifo DEF InvFifo
<1>2. /\ Len(cola_new) \in Nat /\ Len(cola_ready) \in Nat /\ Len(cola_exec) \in Nat
      /\ cola_new # <<>> <=> Len(cola_new) > 0
      /\ cola_exec # <<>> <=> Len(cola_exec) > 0
  BY <1>1 DEF TypeOK
<1>3. CASE StsBuscaCpu
  <2>1. /\ cpu_libre' \in Disponibles
        /\ Disponibles' = Disponibles \ {cpu_libre'}
    BY <1>1, <1>3, BuscaTipo
  <2>2. Cardinality(Disponibles') = Cardinality(Disponibles) - 1
    BY <1>1, <2>1, Finitos, FS_RemoveElement
  <2>3. /\ pc_sts = "busca" /\ pc_sts' = "exec"
        /\ UNCHANGED <<cola_new, cola_exec, pc_lts>>
    BY <1>3, Zenon DEF StsBuscaCpu
  <2>4. Libres' = Libres
    BY <1>1, <2>2, <2>3, LibresTipo DEF Libres, Uno
  <2> QED BY <2>3, <2>4 DEF Lugar, Ciclo!vars
<1>4. CASE StsExec
  <2>1. cola_new = <<>> /\ cola_exec = <<>> /\ pc_lts # "agrega"
    BY <1>1, <1>2, <1>4 DEF UnSoloLugar, Lugares, Uno, StsExec
  <2>2. Lugar = "READY"
    BY <2>1 DEF Lugar
  <2>3. cola_exec' # <<>>
    <3>1. cola_exec' = Append(<<>>, un_pcb)
      BY <1>4, <2>1 DEF StsExec
    <3> QED BY <3>1
  <2>4. Lugar' = "EXEC"
    BY <2>3 DEF Lugar
  <2>5. UNCHANGED recursos_cpu /\ pc_sts = "exec" /\ pc_sts' = "envia"
    BY <1>4 DEF StsExec
  <2>6. Libres > 0 /\ Libres' = Libres - 1
    BY <1>1, <2>5, LibresTipo DEF Libres, Disponibles, Uno
  <2> QED BY <2>2, <2>4, <2>6 DEF Ciclo!Despacha
<1>5. CASE StsSinCpu
  BY <1>1, <1>5 DEF StsSinCpu, HayCpuLibre
<1>6. CASE StsEsperaReady \/ StsEsperaCpu \/ StsRetira \/ StsEnvia
  <2>1. /\ UNCHANGED <<cola_new, cola_exec, pc_lts, recursos_cpu>>
        /\ pc_sts # "exec" /\ pc_sts' # "exec"
    BY <1>6 DEF StsEsperaReady, StsEsperaCpu, StsRetira, StsEnvia
  <2> QED BY <2>1 DEF Lugar, Libres, Disponibles, Ciclo!vars
<1> QED BY <1>3, <1>4, <1>5, <1>6 DEF CortoPlazo

\* A thread that attends a client adds a CPU, or does nothing that counts.
LEMMA CicloAtencion ==
    ASSUME InvFifo, NEW c \in Clientes, Admision(c) \/ Atencion(c)
    PROVE  Ciclo!LlegaCpu \/ UNCHANGED Ciclo!vars
<1> USE DEF colas, semaforos, locSts, locLts, recursos, restoScheduler
<1>1. TypeOK
  BY DEF InvFifo
<1>2. UNCHANGED <<cola_new, cola_exec, pc_lts, pc_sts>>
  BY DEF Signal, Admision, Atencion, AtenderNewCpu, AvisarCpu, AtenderNewIo,
         BloquearPid, EnviarSleep, AtenderIoFinished, IgnorarOperacion,
         CerrarEnAdmitir
<1>3. Lugar' = Lugar
  BY <1>2 DEF Lugar
<1>4. CASE AtenderNewCpu(c) /\ recursos_cpu' # recursos_cpu
  <2> DEFINE r == [id |-> leyendo[c], socket |-> socket[c], disponible |-> TRUE]
  <2>1. r \in Recurso /\ r.disponible = TRUE
    BY <1>1, <1>4 DEF Recurso, TypeOK, AtenderNewCpu, Llega
  <2>2. recursos_cpu' = Append(recursos_cpu, r)
    BY <1>4, Zenon DEF AtenderNewCpu, RecursoDe
  <2> HIDE DEF r
  <2>3. /\ Len(recursos_cpu) + 1 \notin Disponibles
        /\ Disponibles' = Disponibles \cup {Len(recursos_cpu) + 1}
    BY <1>1, <2>1, <2>2, Agregado
  <2>4. Cardinality(Disponibles') = Cardinality(Disponibles) + 1
    BY <1>1, <2>3, Finitos, FS_AddElement
  <2>5. Libres' = Libres + 1
    BY <1>1, <1>2, <2>4, LibresTipo DEF Libres, Uno
  <2> QED BY <1>3, <2>5 DEF Ciclo!LlegaCpu
<1>5. CASE ~AtenderNewCpu(c) \/ recursos_cpu' = recursos_cpu
  <2>1. recursos_cpu' = recursos_cpu
    BY <1>5 DEF Signal, Admision, Atencion, AvisarCpu, AtenderNewIo,
         BloquearPid, EnviarSleep, AtenderIoFinished, IgnorarOperacion,
         CerrarEnAdmitir
  <2> QED BY <1>2, <2>1, CicloResto
<1> QED BY <1>4, <1>5

\* Every step of FIFO is a step of CicloDeVida or none.
LEMMA CicloPaso ==
    ASSUME InvFifo, [Next]_vars
    PROVE  [Ciclo!Next]_(Ciclo!vars)
<1> USE DEF colas, recursos, locSts, locLts
<1>1. CASE LargoPlazo
  BY <1>1, CicloLargoPlazo DEF Ciclo!Next
<1>2. CASE CortoPlazo
  BY <1>2, CicloCortoPlazo DEF Ciclo!Next
<1>3. CASE Quantum
  BY <1>3 DEF Quantum, RrFinQuantum, RrVuelve, RrAvisaCpu, RrAvisaReady,
              InvFifo, InvColas
<1>4. ASSUME NEW c \in Clientes, Admision(c) \/ Atencion(c)
      PROVE  [Ciclo!Next]_(Ciclo!vars)
  BY <1>4, CicloAtencion DEF Ciclo!Next
<1>5. CASE Entorno
  <2>1. UNCHANGED <<cola_new, cola_exec, pc_lts, pc_sts, recursos_cpu>>
    BY <1>5 DEF Entorno, Entra, SeVa, CpuRecibe, CpuTermina, CpuSegFault,
                CpuInterrumpida, IoRecibe, restoScheduler
  <2> QED BY <2>1, CicloResto
<1>6. CASE UNCHANGED vars
  BY <1>6, CicloResto DEF vars
<1> QED BY <1>1, <1>2, <1>3, <1>4, <1>5, <1>6 DEF Next

\* FIFO implements the life cycle: the process is admitted once and dispatched
\* once, to a CPU that is free and then no longer is, however the threads
\* interleave (gestion.c:225-276, 399-420).
THEOREM FifoImplementaCiclo ==
    ASSUME Algoritmo = "FIFO"
    PROVE  Spec => ImplementaCiclo
BY CicloInit, CicloPaso, InvarianteFifo, PTL
   DEF Spec, ImplementaCiclo, Ciclo!EspecSegura
=============================================================================
