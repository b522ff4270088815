--------------------------- MODULE Conexiones_proofs ---------------------------
(***************************************************************************)
(* Who is at the other end of each descriptor of KernelScheduler, who has  *)
(* the process, and what can kill the scheduler before anybody has it.     *)
(***************************************************************************)
EXTENDS KernelScheduler_proofs

-----------------------------------------------------------------------------
(* While no client has left, a descriptor is never closed *)

\* A client connects once, and one that has left does not come back.
LEMMA ClienteAvanza ==
    ASSUME TypeOK, [Next]_vars, NEW d \in Clientes
    PROVE  /\ cliente[d] = "ido" => cliente'[d] = "ido"
           /\ cliente'[d] = "fuera" => cliente[d] = "fuera"
<1> DEFINE Avanza == /\ cliente[d] = "ido" => cliente'[d] = "ido"
                     /\ cliente'[d] = "fuera" => cliente[d] = "fuera"
<1> USE DEF varsServidor, restoScheduler
<1>1. CASE UNCHANGED cliente
  BY <1>1
<1>2. ASSUME NEW c \in Clientes, cliente' = [cliente EXCEPT ![c] = "ido"]
      PROVE  Avanza
  BY <1>2 DEF TypeOK
<1>3. ASSUME NEW c \in Clientes, Entra(c) PROVE Avanza
  BY <1>3 DEF Entra, Conectar, TypeOK
<1>4. CASE LargoPlazo \/ CortoPlazo \/ Quantum
  BY <1>1, <1>4 DEF LargoPlazo, LtsEspera, LtsRetira, LtsAgrega, LtsAvisa,
       CortoPlazo, StsEsperaReady, StsEsperaCpu, StsRetira, StsBuscaCpu,
       StsSinCpu, StsExec, StsEnvia, Quantum, RrFinQuantum, RrVuelve,
       RrAvisaCpu, RrAvisaReady
<1>5. ASSUME NEW c \in Clientes, Admision(c) \/ Atencion(c) PROVE Avanza
  BY <1>1, <1>5 DEF Admision, Atencion, Aceptar, LlamarRecv, LlegaFin,
       CerrarEnRecibir, AtenderNewCpu, AvisarCpu, AtenderNewIo, BloquearPid,
       EnviarSleep, AtenderIoFinished, IgnorarOperacion, CerrarEnAdmitir, Consumir
<1>6. ASSUME NEW c \in Clientes, SeVa(c) PROVE Avanza
  BY <1>2, <1>6 DEF SeVa, Desconectar
<1>7. ASSUME NEW c \in Cpus, CpuRecibe(c) PROVE Avanza
  BY <1>1, <1>2, <1>7, SupuestosScheduler DEF CpuRecibe
<1>8. ASSUME NEW c \in Cpus,
             CpuTermina(c) \/ CpuSegFault(c) \/ CpuInterrumpida(c)
      PROVE  Avanza
  BY <1>1, <1>2, <1>8, SupuestosScheduler
     DEF CpuTermina, CpuSegFault, CpuInterrumpida
<1>9. ASSUME NEW c \in Ios, IoRecibe(c) PROVE Avanza
  BY <1>1, <1>9 DEF IoRecibe
<1>10. CASE UNCHANGED vars
  BY <1>1, <1>10 DEF vars
<1> QED BY <1>3, <1>4, <1>5, <1>6, <1>7, <1>8, <1>9, <1>10 DEF Next, Entorno

LEMMA IdoQueda ==
    ASSUME TypeOK, [Next]_vars, NadieSeFue'
    PROVE  NadieSeFue
BY ClienteAvanza DEF NadieSeFue

\* A step that touches neither the descriptors nor what the threads and the
\* resources keep of them.
LEMMA ConexionesResto ==
    ASSUME InvConexiones, NadieSeFue' => NadieSeFue,
           UNCHANGED <<conexion, hilo, socket, leyendo, recursos_cpu>>
    PROVE  InvConexiones'
BY DEF InvConexiones

\* A thread that goes on to a point that is not a recv().
LEMMA ConexionesSigue ==
    ASSUME TypeOK, InvConexiones, NadieSeFue' => NadieSeFue,
           NEW c \in Clientes, hilo[c] # "sin",
           NEW p \in PuntosHilo \ {"sin", "recv", "cierra", "desconocida"},
           hilo' = [hilo EXCEPT ![c] = p],
           UNCHANGED <<conexion, socket, leyendo, recursos_cpu>>
    PROVE  InvConexiones'
BY DEF InvConexiones, TypeOK

\* accept(): the descriptor was of nobody, so of no other thread or resource.
LEMMA ConexionesAceptar ==
    ASSUME TypeOK, InvConexiones, NadieSeFue' => NadieSeFue,
           NEW c \in Clientes, Admision(c)
    PROVE  InvConexiones'
<1>1. PICK f \in Fds : /\ conexion[f] = Libre
                       /\ conexion' = [conexion EXCEPT ![f] = c]
                       /\ socket' = [socket EXCEPT ![c] = f]
  BY DEF Admision, Aceptar, FdMinimo
<1>2. /\ hilo[c] = "sin" /\ hilo' = [hilo EXCEPT ![c] = "llama"]
      /\ UNCHANGED <<leyendo, recursos_cpu>>
  BY DEF Admision, Aceptar, restoScheduler, recursos
<1>3. SUFFICES ASSUME NadieSeFue, NadieSeFue'
               PROVE  /\ \A d \in Clientes :
                            /\ hilo'[d] \notin {"cierra", "desconocida"}
                            /\ hilo'[d] # "sin" => conexion'[socket'[d]] = d
                            /\ hilo'[d] = "recv" => leyendo'[d] = d
                      /\ \A i \in DOMAIN recursos_cpu' :
                            conexion'[recursos_cpu'[i].socket] = recursos_cpu'[i].id
  BY DEF InvConexiones
<1>4. ASSUME NEW d \in Clientes
      PROVE  /\ hilo'[d] \notin {"cierra", "desconocida"}
             /\ hilo'[d] # "sin" => conexion'[socket'[d]] = d
             /\ hilo'[d] = "recv" => leyendo'[d] = d
  BY <1>1, <1>2, <1>3, SupuestosServidor DEF InvConexiones, TypeOK
<1>5. ASSUME NEW i \in DOMAIN recursos_cpu'
      PROVE  conexion'[recursos_cpu'[i].socket] = recursos_cpu'[i].id
  <2>1. /\ recursos_cpu[i] \in Recurso
        /\ conexion[recursos_cpu[i].socket] = recursos_cpu[i].id
    BY <1>2, <1>3 DEF InvConexiones, TypeOK
  <2>2. recursos_cpu[i].id \in Clientes /\ recursos_cpu[i].socket \in Fds
    BY <2>1 DEF Recurso
  <2>3. recursos_cpu[i].socket # f
    BY <1>1, <2>1, <2>2, SupuestosServidor
  <2> QED BY <1>1, <1>2, <2>1, <2>2, <2>3 DEF TypeOK
<1> QED BY <1>3, <1>4, <1>5

\* recv() blocks on the connection that the thread's descriptor has.
LEMMA ConexionesLlamar ==
    ASSUME TypeOK, InvConexiones, NadieSeFue' => NadieSeFue,
           NEW c \in Clientes, LlamarRecv(c), UNCHANGED restoScheduler
    PROVE  InvConexiones'
<1>1. /\ hilo[c] = "llama" /\ UNCHANGED <<conexion, socket, recursos_cpu>>
      /\ leyendo' = [leyendo EXCEPT ![c] = conexion[socket[c]]]
      /\ hilo' = [hilo EXCEPT ![c] =
                     IF conexion[socket[c]] = Libre THEN "cierra" ELSE "recv"]
  BY DEF LlamarRecv, restoScheduler, recursos
<1>2. ASSUME NadieSeFue
      PROVE  /\ leyendo' = [leyendo EXCEPT ![c] = c]
             /\ hilo' = [hilo EXCEPT ![c] = "recv"]
  <2>1. conexion[socket[c]] = c
    BY <1>1, <1>2 DEF InvConexiones
  <2> QED BY <1>1, <2>1, SupuestosServidor
<1> QED BY <1>1, <1>2 DEF InvConexiones, TypeOK

\* A CPU registers the descriptor of its own thread.
LEMMA ConexionesNewCpu ==
    ASSUME TypeOK, InvConexiones, NadieSeFue' => NadieSeFue,
           NEW c \in Clientes, AtenderNewCpu(c)
    PROVE  InvConexiones'
<1> DEFINE r == [id |-> leyendo[c], socket |-> socket[c], disponible |-> TRUE]
<1>1. /\ hilo[c] = "recv" /\ UNCHANGED <<conexion, socket, leyendo>>
      /\ \E p \in {"fin", "avisa"} : hilo' = [hilo EXCEPT ![c] = p]
      /\ recursos_cpu' \in {recursos_cpu, Append(recursos_cpu, r)}
  BY Zenon DEF AtenderNewCpu, Llega, Consumir, Seguir, RecursoDe
<1>2. SUFFICES ASSUME NadieSeFue, NadieSeFue'
               PROVE  /\ \A d \in Clientes :
                            /\ hilo'[d] \notin {"cierra", "desconocida"}
                            /\ hilo'[d] # "sin" => conexion'[socket'[d]] = d
                            /\ hilo'[d] = "recv" => leyendo'[d] = d
                      /\ \A i \in DOMAIN recursos_cpu' :
                            conexion'[recursos_cpu'[i].socket] = recursos_cpu'[i].id
  BY DEF InvConexiones
<1>3. \A d \in Clientes : /\ hilo'[d] \notin {"cierra", "desconocida"}
                          /\ hilo'[d] # "sin" => conexion'[socket'[d]] = d
                          /\ hilo'[d] = "recv" => leyendo'[d] = d
  BY <1>1, <1>2 DEF InvConexiones, TypeOK
<1>4. conexion[r.socket] = r.id
  BY <1>1, <1>2 DEF InvConexiones
<1> HIDE DEF r
<1>5. \A i \in DOMAIN recursos_cpu' :
         recursos_cpu'[i] = r \/ (i \in DOMAIN recursos_cpu
                                  /\ recursos_cpu'[i] = recursos_cpu[i])
  <2>1. recursos_cpu \in Seq(Recurso)
    BY DEF TypeOK
  <2>2. CASE recursos_cpu' = recursos_cpu
    BY <2>2
  <2>3. CASE recursos_cpu' = Append(recursos_cpu, r)
    BY <2>1, <2>3
  <2> QED BY <1>1, <2>2, <2>3
<1>6. \A i \in DOMAIN recursos_cpu' :
         conexion'[recursos_cpu'[i].socket] = recursos_cpu'[i].id
  BY <1>1, <1>2, <1>4, <1>5 DEF InvConexiones
<1> QED BY <1>3, <1>6

\* buscar_cpu_libre changes another field.
LEMMA ConexionesBusca ==
    ASSUME TypeOK, InvConexiones, NadieSeFue' => NadieSeFue, StsBuscaCpu
    PROVE  InvConexiones'
<1>1. UNCHANGED <<conexion, hilo, socket, leyendo>>
  BY Zenon DEF StsBuscaCpu, varsServidor
<1>2. PICK k \in Disponibles :
         recursos_cpu' = [recursos_cpu EXCEPT ![k].disponible = FALSE]
  BY Zenon DEF StsBuscaCpu
<1>3. \A i \in DOMAIN recursos_cpu : recursos_cpu[i] \in Recurso
  BY DEF TypeOK
<1>4. /\ DOMAIN recursos_cpu' = DOMAIN recursos_cpu
      /\ \A i \in DOMAIN recursos_cpu :
            /\ recursos_cpu'[i].id = recursos_cpu[i].id
            /\ recursos_cpu'[i].socket = recursos_cpu[i].socket
  <2> DEFINE r == [recursos_cpu[k] EXCEPT !.disponible = FALSE]
  <2>1. k \in DOMAIN recursos_cpu /\ recursos_cpu' = [recursos_cpu EXCEPT ![k] = r]
    BY <1>2, Zenon DEF Disponibles
  <2>2. r.id = recursos_cpu[k].id /\ r.socket = recursos_cpu[k].socket
    BY <1>3, <2>1 DEF Recurso
  <2> HIDE DEF r
  <2>3. /\ DOMAIN recursos_cpu' = DOMAIN recursos_cpu
        /\ \A i \in DOMAIN recursos_cpu :
              recursos_cpu'[i] = IF i = k THEN r ELSE recursos_cpu[i]
    BY <2>1 DEF TypeOK
  <2> QED BY <2>2, <2>3
<1> QED BY <1>1, <1>4 DEF InvConexiones

LEMMA ConexionesInit == Init => InvConexiones
BY DEF Init, InitServidor, InvConexiones

LEMMA ConexionesPaso ==
    ASSUME TypeOK, InvConexiones, [Next]_vars
    PROVE  InvConexiones'
<1> USE DEF varsServidor, recursos, restoScheduler
<1>1. NadieSeFue' => NadieSeFue
  BY IdoQueda
<1>2. CASE LargoPlazo \/ Quantum
  <2>1. UNCHANGED <<conexion, hilo, socket, leyendo, recursos_cpu>>
    BY <1>2 DEF LargoPlazo, LtsEspera, LtsRetira, LtsAgrega, LtsAvisa, Quantum,
                RrFinQuantum, RrVuelve, RrAvisaCpu, RrAvisaReady
  <2> QED BY <1>1, <2>1, ConexionesResto
<1>3. CASE CortoPlazo
  <2>1. CASE StsBuscaCpu
    BY <1>1, <2>1, ConexionesBusca
  <2>2. CASE ~StsBuscaCpu
    <3>1. UNCHANGED <<conexion, hilo, socket, leyendo, recursos_cpu>>
      BY <1>3, <2>2 DEF CortoPlazo, StsEsperaReady, StsEsperaCpu, StsRetira,
                        StsSinCpu, StsExec, StsEnvia
    <3> QED BY <1>1, <3>1, ConexionesResto
  <2> QED BY <2>1, <2>2
<1>4. ASSUME NEW c \in Clientes, Admision(c) \/ Atencion(c)
      PROVE  InvConexiones'
  <2>1. CASE Admision(c)
    BY <1>1, <2>1, ConexionesAceptar
  <2>2. CASE LlamarRecv(c) /\ UNCHANGED restoScheduler
    BY <1>1, <2>2, ConexionesLlamar
  <2>3. CASE LlegaFin(c) /\ UNCHANGED restoScheduler
    <3>1. ~NadieSeFue
      BY <2>3 DEF LlegaFin, NadieSeFue, TypeOK
    <3> QED BY <1>1, <3>1 DEF InvConexiones
  <2>4. CASE CerrarEnRecibir(c) \/ CerrarEnAdmitir(c)
    <3>1. ~NadieSeFue
      BY <2>4 DEF CerrarEnRecibir, CerrarEnAdmitir, InvConexiones
    <3> QED BY <1>1, <3>1 DEF InvConexiones
  <2>5. CASE AtenderNewCpu(c)
    BY <1>1, <2>5, ConexionesNewCpu
  <2>6. CASE \/ AvisarCpu(c) \/ AtenderNewIo(c) \/ BloquearPid(c)
             \/ EnviarSleep(c) \/ AtenderIoFinished(c) \/ IgnorarOperacion(c)
    <3>1. /\ hilo[c] # "sin"
          /\ UNCHANGED <<conexion, socket, leyendo, recursos_cpu>>
      BY <2>6 DEF AvisarCpu, AtenderNewIo, BloquearPid, EnviarSleep,
                  AtenderIoFinished, IgnorarOperacion, Llega, Consumir
    <3>2. \E p \in {"llama", "bloquea", "duerme"} :
             hilo' = [hilo EXCEPT ![c] = p]
      BY <2>6, Zenon DEF AvisarCpu, AtenderNewIo, BloquearPid, EnviarSleep,
                         AtenderIoFinished, IgnorarOperacion, Seguir
    <3>3. {"llama", "bloquea", "duerme"}
             \subseteq PuntosHilo \ {"sin", "recv", "cierra", "desconocida"}
      BY DEF PuntosHilo
    <3> QED BY <1>1, <3>1, <3>2, <3>3, ConexionesSigue
  <2> QED BY <1>4, <2>1, <2>2, <2>3, <2>4, <2>5, <2>6 DEF Atencion
<1>5. CASE Entorno \/ UNCHANGED vars
  <2>1. UNCHANGED <<conexion, hilo, socket, leyendo, recursos_cpu>>
    BY <1>5 DEF Entorno, Entra, Conectar, SeVa, Desconectar, CpuRecibe,
                CpuTermina, CpuSegFault, CpuInterrumpida, IoRecibe, vars
  <2> QED BY <1>1, <2>1, ConexionesResto
<1> QED BY <1>2, <1>3, <1>4, <1>5 DEF Next

\* Until a client leaves, each thread and each resource keeps its own connection.
THEOREM InvarianteConexiones == Spec => [](TypeOK /\ InvConexiones)
BY TipoInit, TipoPaso, ConexionesInit, ConexionesPaso, PTL DEF Spec

\* The acceptor never hands a thread the socket of another, with either
\* algorithm and any number of descriptors (gestion.c:41-52, 66-72).
THEOREM ConexionPropiaSiempre == Spec => []ConexionPropia
<1>1. InvConexiones => ConexionPropia
  BY DEF InvConexiones, ConexionPropia
<1> QED BY <1>1, InvarianteConexiones, PTL

\* What the short term scheduler is about to send goes to the CPU that
\* registered the resource it chose (gestion.c:252-271).
THEOREM EnviaACpuConectadaSiempre == Spec => []EnviaACpuConectada
<1>1. TypeOK /\ InvConexiones => EnviaACpuConectada
  BY DEF TypeOK, InvConexiones, EnviaACpuConectada
<1> QED BY <1>1, InvarianteConexiones, PTL

-----------------------------------------------------------------------------
(* Who has the process *)

\* What is in a stream after a packet is added or the first one taken.
LEMMA EnCola ==
    ASSUME NEW S, NEW s \in Seq(S), NEW x \in S
    PROVE  /\ Range(Append(s, x)) = Range(s) \cup {x}
           /\ s # <<>> => Range(Tail(s)) \subseteq Range(s) /\ Head(s) \in Range(s)
<1>1. Range(Append(s, x)) = Range(s) \cup {x}
  <2>1. /\ DOMAIN Append(s, x) = DOMAIN s \cup {Len(s) + 1}
        /\ Len(s) + 1 \notin DOMAIN s
        /\ Append(s, x)[Len(s) + 1] = x
        /\ \A i \in DOMAIN s : Append(s, x)[i] = s[i]
    BY AppendProperties
  <2> QED BY <2>1, Zenon DEF Range
<1>2. ASSUME s # <<>>
      PROVE  Range(Tail(s)) \subseteq Range(s) /\ Head(s) \in Range(s)
  <2>1. \A i \in DOMAIN Tail(s) : i + 1 \in DOMAIN s /\ Tail(s)[i] = s[i + 1]
    BY <1>2
  <2>2. 1 \in DOMAIN s /\ Head(s) = s[1]
    BY <1>2
  <2>3. ASSUME NEW y \in Range(Tail(s)) PROVE y \in Range(s)
    <3>1. PICK i \in DOMAIN Tail(s) : y = Tail(s)[i]
      BY <2>3, Zenon DEF Range
    <3>2. i + 1 \in DOMAIN s /\ y = s[i + 1]
      BY <2>1, <3>1, Zenon
    <3> QED BY <3>2, Zenon DEF Range
  <2>4. Head(s) \in Range(s)
    BY <2>2, Zenon DEF Range
  <2> QED BY <2>3, <2>4, Zenon
<1> QED BY <1>1, <1>2

\* What is in a stream after another packet, or after the payload is read.
LEMMA EnFlujo ==
    ASSUME NEW s \in Seq(Palabras), NEW t \in Seq(Palabras)
    PROVE  /\ Range(s \o t) \subseteq Range(s) \cup Range(t)
           /\ Range(TrasCarga(s)) \subseteq Range(s)
<1>1. Range(s \o t) \subseteq Range(s) \cup Range(t)
  <2>1. \A i \in DOMAIN (s \o t) :
           \/ i \in DOMAIN s /\ (s \o t)[i] = s[i]
           \/ i - Len(s) \in DOMAIN t /\ (s \o t)[i] = t[i - Len(s)]
    OBVIOUS
  <2> QED BY <2>1, Zenon DEF Range
<1>2. Range(TrasCarga(s)) \subseteq Range(s)
  <2> DEFINE m == 3 + Len(Carga(s))
  <2>1. m \in Nat \ {0}
    <3>1. Len(Carga(s)) \in {0, 1}
      BY DEF Carga
    <3> QED BY <3>1
  <2>2. TrasCarga(s) = SubSeq(s, m, Len(s))
    BY DEF TrasCarga
  <2> HIDE DEF m
  <2>3. \A i \in DOMAIN SubSeq(s, m, Len(s)) :
           /\ m + i - 1 \in DOMAIN s
           /\ SubSeq(s, m, Len(s))[i] = s[m + i - 1]
    BY <2>1
  <2> QED BY <2>2, <2>3, Zenon DEF Range
<1> QED BY <1>1, <1>2

LEMMA PortadoresMenos ==
    ASSUME ejecutando' \subseteq ejecutando,
           \A c \in Clientes : EXECUTE_PROCESS \in Range(salida'[c])
                               => EXECUTE_PROCESS \in Range(salida[c])
    PROVE  Portadores' \subseteq Portadores
BY DEF Portadores

\* The threads of the clients send nothing but IO_SLEEP.
LEMMA PortadoresAtencion ==
    ASSUME TypeOK, NEW c \in Clientes, Admision(c) \/ Atencion(c)
    PROVE  Portadores' \subseteq Portadores
<1> USE DEF colas, locSts, externos, restoScheduler
<1>1. UNCHANGED ejecutando
  BY DEF Admision, Atencion, AtenderNewCpu, AvisarCpu, AtenderNewIo,
         BloquearPid, EnviarSleep, AtenderIoFinished, IgnorarOperacion,
         CerrarEnAdmitir
<1>2. ASSUME NEW d \in Clientes, EXECUTE_PROCESS \in Range(salida'[d])
      PROVE  EXECUTE_PROCESS \in Range(salida[d])
  <2>1. CASE EnviarSleep(c)
    <3>1. salida'[d] \in {salida[d], Append(salida[d], IO_SLEEP)}
      BY <2>1 DEF EnviarSleep, Enviar, TypeOK
    <3>2. salida[d] \in Seq(Paquetes) /\ IO_SLEEP \in Paquetes
      BY DEF TypeOK, Paquetes
    <3>3. Range(Append(salida[d], IO_SLEEP)) = Range(salida[d]) \cup {IO_SLEEP}
      BY <3>2, EnCola
    <3>4. EXECUTE_PROCESS # IO_SLEEP
      BY DEF EXECUTE_PROCESS, IO_SLEEP
    <3> QED BY <1>2, <3>1, <3>3, <3>4, Zenon
  <2>2. CASE ~EnviarSleep(c)
    <3>1. salida' = salida
      BY <2>2 DEF Admision, Atencion, AtenderNewCpu, AvisarCpu, AtenderNewIo,
                  BloquearPid, AtenderIoFinished, IgnorarOperacion,
                  CerrarEnAdmitir
    <3> QED BY <1>2, <3>1
  <2> QED BY <2>1, <2>2
<1> QED BY <1>1, <1>2, PortadoresMenos

\* A CPU that executes what it has received had it already.
LEMMA PortadoresEntorno ==
    ASSUME TypeOK, Entorno
    PROVE  Portadores' \subseteq Portadores
<1> USE DEF colas, locSts, externos, restoScheduler
<1>1. ASSUME NEW c \in Clientes, salida[c] # <<>>
      PROVE  /\ Range(Tail(salida[c])) \subseteq Range(salida[c])
             /\ Head(salida[c]) \in Range(salida[c])
  <2>1. salida[c] \in Seq(Paquetes) /\ IO_SLEEP \in Paquetes
    BY DEF TypeOK, Paquetes
  <2> QED BY <1>1, <2>1, EnCola
<1>2. CASE UNCHANGED salida /\ ejecutando' \subseteq ejecutando
  BY <1>2, PortadoresMenos
<1>3. ASSUME NEW c \in Cpus, CpuRecibe(c) PROVE Portadores' \subseteq Portadores
  <2>1. c \in Clientes
    BY SupuestosScheduler
  <2>2. CASE UNCHANGED <<salida, ejecutando>>
    BY <1>2, <2>2
  <2>3. CASE /\ Head(salida[c]) = EXECUTE_PROCESS
             /\ salida' = [salida EXCEPT ![c] = Tail(salida[c])]
             /\ ejecutando' = ejecutando \cup {c}
    <3>1. salida[c] # <<>>
      BY <1>3 DEF CpuRecibe
    <3>2. EXECUTE_PROCESS \in Range(salida[c])
      BY <1>1, <2>1, <2>3, <3>1
    <3>3. \A d \in Clientes :
             salida'[d] = IF d = c THEN Tail(salida[c]) ELSE salida[d]
      BY <2>1, <2>3 DEF TypeOK
    <3>4. \A d \in Clientes : Range(salida'[d]) \subseteq Range(salida[d])
      BY <1>1, <2>1, <3>1, <3>3, Zenon
    <3> QED BY <2>3, <3>2, <3>4, Zenon DEF Portadores
  <2> QED BY <1>3, <2>2, <2>3 DEF CpuRecibe
<1>4. ASSUME NEW c \in Ios, IoRecibe(c) PROVE Portadores' \subseteq Portadores
  <2>1. c \in Clientes
    BY SupuestosScheduler
  <2>2. /\ salida[c] # <<>> /\ ejecutando' = ejecutando
        /\ salida' = [salida EXCEPT ![c] = Tail(salida[c])]
    BY <1>4 DEF IoRecibe
  <2>3. \A d \in Clientes :
           salida'[d] = IF d = c THEN Tail(salida[c]) ELSE salida[d]
    BY <2>1, <2>2 DEF TypeOK
  <2>4. \A d \in Clientes : Range(salida'[d]) \subseteq Range(salida[d])
    BY <1>1, <2>1, <2>2, <2>3, Zenon
  <2> QED BY <2>2, <2>4, PortadoresMenos, Zenon
<1>5. ASSUME NEW c \in Clientes, Entra(c) \/ SeVa(c)
      PROVE  Portadores' \subseteq Portadores
  BY <1>2, <1>5 DEF Entra, SeVa
<1>6. ASSUME NEW c \in Cpus,
             CpuTermina(c) \/ CpuSegFault(c) \/ CpuInterrumpida(c)
      PROVE  Portadores' \subseteq Portadores
  BY <1>2, <1>6 DEF CpuTermina, CpuSegFault, CpuInterrumpida
<1> QED BY <1>3, <1>4, <1>5, <1>6 DEF Entorno

-----------------------------------------------------------------------------
(* While no client has left, the process goes to a CPU that does not have it *)

\* The greetings, and the only one that registers a CPU.
LEMMA SaludoNewCpu ==
    ASSUME NEW c \in Clientes, NEW_CPU \in Range(Saludo(c))
    PROVE  /\ c \in Cpus
           /\ Saludo(c) = <<NEW_CPU, LONGITUD_CADENA, c>>
           /\ Operacion(Saludo(c)) = NEW_CPU
           /\ Carga(Saludo(c)) = <<c>>
           /\ Range(TrasCarga(Saludo(c))) = {}
<1>1. c \in Cpus
  <2>1. SUFFICES ASSUME c \notin Cpus PROVE FALSE
    OBVIOUS
  <2>2. Saludo(c) = <<NEW_IO, LONGITUD_CADENA, c>>
    BY <2>1 DEF Saludo, PaqueteCadena
  <2>3. NEW_CPU \in {NEW_IO, LONGITUD_CADENA, c}
    BY <2>2 DEF Range
  <2> QED BY <2>3, SupuestosServidor DEF NEW_CPU, NEW_IO, LONGITUD_CADENA
<1>2. Saludo(c) = <<NEW_CPU, LONGITUD_CADENA, c>>
  BY <1>1 DEF Saludo, PaqueteCadena
<1>3. Operacion(Saludo(c)) = NEW_CPU /\ Carga(Saludo(c)) = <<c>>
  BY <1>2 DEF Operacion, Carga, LONGITUD_CADENA
<1>4. Range(TrasCarga(Saludo(c))) = {}
  <2> DEFINE s == <<NEW_CPU, LONGITUD_CADENA, c>>
  <2>1. Len(Carga(s)) = 1 /\ Len(s) = 3
    BY DEF Carga, LONGITUD_CADENA
  <2>2. s \in Seq(Palabras)
    BY DEF Palabras, NEW_CPU, LONGITUD_CADENA
  <2> HIDE DEF s
  <2>3. SubSeq(s, 4, 3) = <<>>
    BY <2>1, <2>2, SubSeqProperties
  <2>4. TrasCarga(s) = <<>>
    BY <2>1, <2>3 DEF TrasCarga
  <2> QED BY <1>2, <2>4 DEF Range, s
<1> QED BY <1>1, <1>2, <1>3, <1>4

\* The packets that a CPU and a device send later are no greeting of a CPU.
LEMMA SinNewCpu ==
    /\ NEW_CPU \notin Range(PaquetePcb(EXECUTE_PROCESS, PID, 0))
    /\ NEW_CPU \notin Range(PaquetePcb(SEG_FAULT, PID, 0))
    /\ NEW_CPU \notin Range(PaqueteCadena(IO_FINISHED, PID_MOCK))
    /\ NEW_CPU \notin Range(<<>>)
BY DEF Range, PaquetePcb, PaqueteCadena, NEW_CPU, EXECUTE_PROCESS, SEG_FAULT,
       IO_FINISHED, LONGITUD_CADENA, PID, PID_MOCK

\* A step that registers nobody, sends the process to nobody and puts no greeting
\* in a stream.
LEMMA OciosasResto ==
    ASSUME InvOciosas, NadieSeFue' => NadieSeFue, Portadores' \subseteq Portadores,
           UNCHANGED <<recursos_cpu, cpu_libre>>,
           pc_sts' \in {"exec", "envia"} => pc_sts \in {"exec", "envia"},
           NadieSeFue =>
              \A c \in Clientes :
                 /\ NEW_CPU \in Range(entrada'[c]) => entrada'[c] = entrada[c]
                 /\ cliente'[c] = "fuera" => cliente[c] = "fuera"
                 /\ hilo'[c] # hilo[c] => hilo'[c] # "sin" /\ cliente'[c] # "fuera"
    PROVE  InvOciosas'
<1> SUFFICES ASSUME NadieSeFue, NadieSeFue' PROVE InvOciosas'
  BY DEF InvOciosas
<1>1. Disponibles' = Disponibles /\ Registradas' = Registradas
  BY DEF Disponibles, Registradas
<1>2. \A c \in Clientes : Saludo(c)' = Saludo(c)
  BY DEF Saludo
<1> QED BY <1>1, <1>2, Zenon DEF InvOciosas

\* buscar_cpu_libre takes one that is disponible, so one that does not have it.
LEMMA OciosasBusca ==
    ASSUME TypeOK, InvOciosas, NadieSeFue' => NadieSeFue, StsBuscaCpu
    PROVE  InvOciosas'
<1> SUFFICES ASSUME NadieSeFue, NadieSeFue' PROVE InvOciosas'
  BY DEF InvOciosas
<1>1. PICK k \in Disponibles :
         /\ recursos_cpu' = [recursos_cpu EXCEPT ![k].disponible = FALSE]
         /\ cpu_libre' = k
  BY Zenon DEF StsBuscaCpu
<1>2. UNCHANGED <<cliente, hilo, entrada, salida, ejecutando>>
  BY Zenon DEF StsBuscaCpu, varsServidor, externos
<1>3. k \in DOMAIN recursos_cpu
  BY DEF Disponibles
<1>4. /\ DOMAIN recursos_cpu' = DOMAIN recursos_cpu
      /\ \A i \in DOMAIN recursos_cpu : recursos_cpu'[i].id = recursos_cpu[i].id
      /\ \A i \in DOMAIN recursos_cpu :
            recursos_cpu'[i].disponible <=> (recursos_cpu[i].disponible /\ i # k)
  <2> DEFINE r == [recursos_cpu[k] EXCEPT !.disponible = FALSE]
  <2>1. recursos_cpu' = [recursos_cpu EXCEPT ![k] = r]
    BY <1>1, Zenon
  <2>2. r.id = recursos_cpu[k].id /\ r.disponible = FALSE
    <3>1. recursos_cpu[k] \in Recurso
      BY <1>3 DEF TypeOK
    <3> QED BY <3>1 DEF Recurso
  <2> HIDE DEF r
  <2>3. /\ DOMAIN recursos_cpu' = DOMAIN recursos_cpu
        /\ \A i \in DOMAIN recursos_cpu :
              recursos_cpu'[i] = IF i = k THEN r ELSE recursos_cpu[i]
    BY <2>1 DEF TypeOK
  <2> QED BY <2>2, <2>3
<1>5. Disponibles' = Disponibles \ {k}
  BY <1>4 DEF Disponibles
<1>6. Registradas' = Registradas
  BY <1>4 DEF Registradas
<1>7. Portadores' = Portadores
  BY <1>2 DEF Portadores
<1>8. recursos_cpu'[k].id \notin Portadores
  BY <1>3, <1>4 DEF InvOciosas
<1> QED BY <1>1, <1>2, <1>4, <1>5, <1>6, <1>7, <1>8 DEF InvOciosas, Saludo

\* The send: the CPU that gets it has been taken, and nobody else registered
\* with its name.
LEMMA OciosasEnvia ==
    ASSUME TypeOK, InvConexiones, InvOciosas, NadieSeFue' => NadieSeFue, StsEnvia
    PROVE  InvOciosas'
<1> SUFFICES ASSUME NadieSeFue, NadieSeFue' PROVE InvOciosas'
  BY DEF InvOciosas
<1> DEFINE r == recursos_cpu[cpu_libre]
<1>1. /\ UNCHANGED <<cliente, hilo, entrada, ejecutando, recursos_cpu, cpu_libre>>
      /\ pc_sts = "envia" /\ pc_sts' \notin {"exec", "envia"}
  BY DEF StsEnvia, varsServidor, recursos
<1>2. cpu_libre \in DOMAIN recursos_cpu /\ conexion[r.socket] = r.id
  BY <1>1 DEF TypeOK, InvConexiones
<1>3. \A c \in Clientes : salida'[c] # salida[c] => c = r.id
  BY <1>2 DEF StsEnvia, Enviar, TypeOK
<1>4. Portadores' \subseteq Portadores \cup {r.id}
  BY <1>1, <1>3 DEF Portadores
<1>5. r.id \in Registradas /\ cpu_libre \notin Disponibles
  BY <1>1, <1>2 DEF InvOciosas, Registradas
<1>6. \A i \in Disponibles : recursos_cpu[i].id # r.id
  BY <1>2, <1>5 DEF InvOciosas, Disponibles
<1>7. Disponibles' = Disponibles /\ Registradas' = Registradas
  BY <1>1 DEF Disponibles, Registradas
<1> HIDE DEF r
<1> QED BY <1>1, <1>4, <1>5, <1>6, <1>7 DEF InvOciosas, Saludo

\* A CPU registers, for the first time, and what it sent is gone.
LEMMA OciosasNewCpu ==
    ASSUME TypeOK, InvConexiones, InvOciosas, NadieSeFue' => NadieSeFue,
           NEW c \in Clientes, AtenderNewCpu(c)
    PROVE  InvOciosas'
<1> SUFFICES ASSUME NadieSeFue, NadieSeFue' PROVE InvOciosas'
  BY DEF InvOciosas
<1> DEFINE r == [id |-> leyendo[c], socket |-> socket[c], disponible |-> TRUE]
<1>1. /\ hilo[c] = "recv" /\ leyendo[c] = c
      /\ entrada[c] # <<>> /\ Operacion(entrada[c]) = NEW_CPU
  BY DEF AtenderNewCpu, Llega, InvConexiones
<1>2. entrada[c] = Saludo(c) /\ c \notin Registradas /\ NEW_CPU \in Range(Saludo(c))
  <2>1. entrada[c] \in Seq(Palabras) /\ NEW_CPU \in Palabras
    BY DEF TypeOK, Palabras, NEW_CPU
  <2>2. NEW_CPU \in Range(entrada[c])
    BY <1>1, <2>1, EnCola DEF Operacion
  <2> QED BY <2>2 DEF InvOciosas
<1>3. /\ UNCHANGED <<cliente, salida, ejecutando, pc_sts, cpu_libre>>
      /\ \E p \in {"fin", "avisa"} : hilo' = [hilo EXCEPT ![c] = p]
      /\ entrada' = [entrada EXCEPT ![c] = TrasCarga(Saludo(c))]
      /\ recursos_cpu' = Append(recursos_cpu, r)
  <2>1. Carga(entrada[leyendo[c]]) # <<>>
    BY <1>1, <1>2, SaludoNewCpu
  <2>2. recursos_cpu' = Append(recursos_cpu, r)
    BY <2>1, Zenon DEF AtenderNewCpu, RecursoDe
  <2>3. /\ UNCHANGED <<cliente, salida, ejecutando, pc_sts, cpu_libre>>
        /\ \E p \in {"fin", "avisa"} : hilo' = [hilo EXCEPT ![c] = p]
    BY Zenon DEF AtenderNewCpu, Consumir, Seguir, externos, locSts
  <2>4. entrada' = [entrada EXCEPT ![c] = TrasCarga(Saludo(c))]
    BY <1>1, <1>2 DEF AtenderNewCpu, Consumir
  <2> QED BY <2>2, <2>3, <2>4
<1>4. r.id = c /\ r.disponible
  BY <1>1
<1> HIDE DEF r
<1>5. /\ DOMAIN recursos_cpu' = DOMAIN recursos_cpu \cup {Len(recursos_cpu) + 1}
      /\ Len(recursos_cpu) + 1 \notin DOMAIN recursos_cpu
      /\ recursos_cpu'[Len(recursos_cpu) + 1] = r
      /\ \A i \in DOMAIN recursos_cpu : recursos_cpu'[i] = recursos_cpu[i]
  <2>1. recursos_cpu \in Seq(Recurso)
    BY DEF TypeOK
  <2> QED BY <1>3, <2>1, AppendProperties
<1>6. Registradas' = Registradas \cup {c}
  BY <1>4, <1>5 DEF Registradas
<1>7. /\ Disponibles' = Disponibles \cup {Len(recursos_cpu) + 1}
      /\ Disponibles \subseteq DOMAIN recursos_cpu
  BY <1>4, <1>5 DEF Disponibles
<1>8. Portadores' = Portadores /\ c \notin Portadores
  BY <1>2, <1>3 DEF Portadores, InvOciosas
<1>9. \A i, j \in DOMAIN recursos_cpu' :
         recursos_cpu'[i].id = recursos_cpu'[j].id => i = j
  <2>1. \A i \in DOMAIN recursos_cpu : recursos_cpu[i].id # c
    BY <1>2 DEF Registradas
  <2> QED BY <1>4, <1>5, <2>1 DEF InvOciosas
<1>10. \A i \in Disponibles' : recursos_cpu'[i].id \notin Portadores'
  BY <1>4, <1>5, <1>7, <1>8 DEF InvOciosas
<1>11. pc_sts' \in {"exec", "envia"} =>
          /\ cpu_libre' \notin Disponibles'
          /\ recursos_cpu'[cpu_libre'].id \notin Portadores'
  BY <1>3, <1>5, <1>7, <1>8 DEF InvOciosas, TypeOK
<1>12. \A d \in Clientes :
          /\ NEW_CPU \in Range(entrada'[d]) =>
                entrada'[d] = Saludo(d) /\ d \notin Registradas'
          /\ cliente'[d] = "fuera" => hilo'[d] = "sin"
          /\ hilo'[d] = "sin" => d \notin Registradas'
  <2>1. Range(entrada'[c]) = {} /\ hilo'[c] \in {"fin", "avisa"}
    BY <1>2, <1>3, SaludoNewCpu DEF TypeOK
  <2>2. cliente'[c] # "fuera"
    BY <1>1, <1>3 DEF InvOciosas
  <2>3. \A d \in Clientes \ {c} : entrada'[d] = entrada[d] /\ hilo'[d] = hilo[d]
    BY <1>3 DEF TypeOK
  <2> QED BY <1>3, <1>6, <2>1, <2>2, <2>3 DEF InvOciosas
<1>13. \A d \in Clientes : Saludo(d)' = Saludo(d)
  BY DEF Saludo
<1>14. Portadores' \subseteq Registradas'
  BY <1>6, <1>8 DEF InvOciosas
<1> QED BY <1>9, <1>10, <1>11, <1>12, <1>13, <1>14, Zenon DEF InvOciosas

\* The other steps of a thread read what is no greeting of a CPU, and leave no
\* such word behind.
LEMMA OciosasAtencion ==
    ASSUME TypeOK, InvConexiones, InvOciosas, NadieSeFue' => NadieSeFue,
           NEW c \in Clientes, Admision(c) \/ Atencion(c), ~AtenderNewCpu(c)
    PROVE  InvOciosas'
<1> USE DEF colas, locSts, recursos, restoScheduler
<1> SUFFICES ASSUME NadieSeFue PROVE InvOciosas'
  BY DEF InvOciosas
<1>1. Portadores' \subseteq Portadores
  BY PortadoresAtencion
<1>2. UNCHANGED <<cliente, recursos_cpu, cpu_libre, pc_sts>>
  BY DEF Admision, Atencion, Aceptar, LlamarRecv, LlegaFin, CerrarEnRecibir,
         AvisarCpu, AtenderNewIo, BloquearPid, EnviarSleep, AtenderIoFinished,
         IgnorarOperacion, CerrarEnAdmitir, Consumir
<1>3. cliente[c] # "fuera"
  <2>1. CASE Admision(c)
    BY <2>1 DEF Admision, Aceptar
  <2>2. CASE Atencion(c)
    <3>1. hilo[c] # "sin"
      BY <2>2 DEF Atencion, LlamarRecv, LlegaFin, CerrarEnRecibir, AvisarCpu,
                  AtenderNewIo, BloquearPid, EnviarSleep, AtenderIoFinished,
                  IgnorarOperacion, CerrarEnAdmitir, Llega
    <3> QED BY <3>1 DEF InvOciosas
  <2> QED BY <2>1, <2>2
<1>4. \E p \in PuntosHilo \ {"sin"} : hilo' = [hilo EXCEPT ![c] = p]
  BY Zenon DEF Admision, Atencion, Aceptar, LlamarRecv, LlegaFin,
         CerrarEnRecibir, AvisarCpu, AtenderNewIo, BloquearPid, EnviarSleep,
         AtenderIoFinished, IgnorarOperacion, CerrarEnAdmitir, Seguir, PuntosHilo
<1>5. \A d \in Clientes : hilo'[d] # hilo[d] => hilo'[d] # "sin" /\ d = c
  BY <1>4 DEF TypeOK
<1>6. ASSUME NEW op, Llega(c, op), op # NEW_CPU,
             NEW resto, Range(resto) \subseteq Range(entrada[c]), Consumir(c, resto),
             NEW d \in Clientes, NEW_CPU \in Range(entrada'[d])
      PROVE  entrada'[d] = entrada[d]
  <2>1. leyendo[c] = c /\ Operacion(entrada[c]) = op
    BY <1>6 DEF Llega, InvConexiones
  <2>2. NEW_CPU \notin Range(entrada[c])
    BY <1>6, <2>1, SaludoNewCpu DEF InvOciosas
  <2>3. entrada' = [entrada EXCEPT ![c] = resto]
    BY <1>6, <2>1 DEF Consumir
  <2> QED BY <1>6, <2>2, <2>3 DEF TypeOK
<1>7. ASSUME NEW d \in Clientes, NEW_CPU \in Range(entrada'[d])
      PROVE  entrada'[d] = entrada[d]
  <2>1. CASE AtenderNewIo(c) \/ AtenderIoFinished(c)
    <3>1. hilo[c] = "recv"
      BY <2>1 DEF AtenderNewIo, AtenderIoFinished, Llega
    <3>2. leyendo[c] = c
      BY <3>1 DEF InvConexiones
    <3>3. entrada[c] \in Seq(Palabras)
      BY DEF TypeOK
    <3>4. Range(TrasCarga(entrada[c])) \subseteq Range(entrada[c])
      BY <3>3, EnFlujo
    <3>5. PICK op \in {NEW_IO, IO_FINISHED} :
             Llega(c, op) /\ Consumir(c, TrasCarga(entrada[c]))
      BY <2>1, <3>2, Zenon DEF AtenderNewIo, AtenderIoFinished
    <3>6. op # NEW_CPU
      BY DEF NEW_IO, IO_FINISHED, NEW_CPU
    <3> HIDE DEF colas, locSts, recursos, restoScheduler
    <3> QED BY <1>6, <1>7, <3>4, <3>5, <3>6
  <2>2. CASE IgnorarOperacion(c)
    <3>1. PICK op \in {EXECUTE_PROCESS, SEG_FAULT, IO_SLEEP, 48, 44} : Llega(c, op)
      BY <2>2 DEF IgnorarOperacion
    <3>2. leyendo[c] = c /\ entrada[c] # <<>>
      BY <3>1 DEF Llega, InvConexiones
    <3>3. op # NEW_CPU
      BY DEF EXECUTE_PROCESS, SEG_FAULT, IO_SLEEP, NEW_CPU
    <3>4. entrada[c] \in Seq(Palabras) /\ 0 \in Palabras
      BY DEF TypeOK, Palabras
    <3>5. Range(Tail(entrada[c])) \subseteq Range(entrada[c])
      BY <3>2, <3>4, EnCola
    <3>6. Consumir(c, Tail(entrada[c]))
      BY <2>2, <3>2 DEF IgnorarOperacion
    <3> HIDE DEF colas, locSts, recursos, restoScheduler
    <3> QED BY <1>6, <1>7, <3>1, <3>3, <3>5, <3>6
  <2>3. CASE ~(AtenderNewIo(c) \/ AtenderIoFinished(c) \/ IgnorarOperacion(c))
    <3>1. entrada' = entrada
      BY <2>3 DEF Admision, Atencion, Aceptar, LlamarRecv, LlegaFin,
                  CerrarEnRecibir, AvisarCpu, BloquearPid, EnviarSleep,
                  CerrarEnAdmitir
    <3> QED BY <3>1
  <2> QED BY <2>1, <2>2, <2>3
<1> QED BY <1>1, <1>2, <1>3, <1>5, <1>7, OciosasResto

\* What the clients add to their streams, whoever of them has the process.
LEMMA OciosasEntorno ==
    ASSUME TypeOK, InvOciosas, NadieSeFue' => NadieSeFue, Entorno
    PROVE  InvOciosas'
<1> USE DEF colas, locSts, recursos, restoScheduler
<1> SUFFICES ASSUME NadieSeFue, NadieSeFue' PROVE InvOciosas'
  BY DEF InvOciosas
<1>1. /\ Portadores' \subseteq Portadores
      /\ UNCHANGED <<hilo, recursos_cpu, cpu_libre, pc_sts>>
  BY PortadoresEntorno DEF Entorno, Entra, Conectar, SeVa, Desconectar,
     CpuRecibe, CpuTermina, CpuSegFault, CpuInterrumpida, IoRecibe
<1>2. ASSUME NEW c \in Clientes, cliente[c] # "ido",
             cliente' = [cliente EXCEPT ![c] = "ido"]
      PROVE  FALSE
  BY <1>2 DEF NadieSeFue, TypeOK
<1>3. ASSUME NEW c \in Clientes, Entra(c) PROVE InvOciosas'
  <2>1. /\ cliente[c] = "fuera" /\ cliente' = [cliente EXCEPT ![c] = "dentro"]
        /\ entrada' = [entrada EXCEPT ![c] = Saludo(c)]
    BY <1>3 DEF Entra, Conectar
  <2>2. c \notin Registradas
    BY <2>1 DEF InvOciosas
  <2>3. /\ entrada'[c] = Saludo(c) /\ cliente'[c] = "dentro"
        /\ \A d \in Clientes \ {c} :
              entrada'[d] = entrada[d] /\ cliente'[d] = cliente[d]
    BY <2>1 DEF TypeOK
  <2>4. Disponibles' = Disponibles /\ Registradas' = Registradas
    BY <1>1 DEF Disponibles, Registradas
  <2>5. \A d \in Clientes : Saludo(d)' = Saludo(d)
    BY DEF Saludo
  <2> HIDE DEF colas, locSts, recursos, restoScheduler
  <2> QED BY <1>1, <2>2, <2>3, <2>4, <2>5 DEF InvOciosas
<1>4. ASSUME NEW c \in Clientes, NEW v \in Seq(Palabras), NEW_CPU \notin Range(v),
             c \in Ios \/ c \in Portadores, UNCHANGED cliente,
             \/ entrada' = [entrada EXCEPT ![c] = entrada[c] \o v]
             \/ entrada' = [entrada EXCEPT ![c] = v]
      PROVE  InvOciosas'
  <2>1. NEW_CPU \notin Range(entrada[c])
    <3>1. CASE c \in Ios
      BY <3>1, SaludoNewCpu, SupuestosScheduler DEF InvOciosas
    <3>2. CASE c \in Portadores
      BY <3>2 DEF InvOciosas
    <3> QED BY <1>4, <3>1, <3>2
  <2>2. NEW_CPU \notin Range(entrada[c] \o v)
    <3>1. entrada[c] \in Seq(Palabras)
      BY DEF TypeOK
    <3> QED BY <1>4, <2>1, <3>1, EnFlujo
  <2>3. \A d \in Clientes : NEW_CPU \in Range(entrada'[d]) => entrada'[d] = entrada[d]
    BY <1>4, <2>2 DEF TypeOK
  <2> QED BY <1>1, <1>4, <2>3, OciosasResto
<1>5. CASE UNCHANGED <<cliente, entrada>>
  BY <1>1, <1>5, OciosasResto
<1>6. ASSUME NEW c \in Clientes, SeVa(c) PROVE FALSE
  BY <1>2, <1>6 DEF SeVa, Desconectar
<1>7. ASSUME NEW c \in Cpus, CpuRecibe(c) PROVE InvOciosas'
  BY <1>2, <1>5, <1>7, SupuestosScheduler DEF CpuRecibe
<1>8. ASSUME NEW c \in Cpus, CpuTermina(c) \/ CpuSegFault(c) PROVE InvOciosas'
  <2>1. c \in Clientes /\ c \in Portadores
    BY <1>8, SupuestosScheduler DEF CpuTermina, CpuSegFault, Portadores
  <2>2. {PaquetePcb(EXECUTE_PROCESS, PID, 0), PaquetePcb(SEG_FAULT, PID, 0), <<>>}
           \subseteq Seq(Palabras)
    BY PaquetesTipo DEF EXECUTE_PROCESS, SEG_FAULT
  <2>3. /\ UNCHANGED cliente
        /\ \E v \in {PaquetePcb(EXECUTE_PROCESS, PID, 0),
                     PaquetePcb(SEG_FAULT, PID, 0), <<>>} :
              \/ entrada' = [entrada EXCEPT ![c] = entrada[c] \o v]
              \/ entrada' = [entrada EXCEPT ![c] = v]
    BY <1>8, Zenon DEF CpuTermina, CpuSegFault
  <2> QED BY <1>4, <2>1, <2>2, <2>3, SinNewCpu
<1>9. ASSUME NEW c \in Cpus, CpuInterrumpida(c) PROVE FALSE
  BY <1>2, <1>9, SupuestosScheduler DEF CpuInterrumpida
<1>10. ASSUME NEW c \in Ios, IoRecibe(c) PROVE InvOciosas'
  <2> DEFINE v == PaqueteCadena(IO_FINISHED, PID_MOCK)
  <2>1. c \in Clientes
    BY SupuestosScheduler
  <2>2. UNCHANGED cliente
    BY <1>10 DEF IoRecibe
  <2>3. CASE entrada' = [entrada EXCEPT ![c] = entrada[c]]
    BY <1>5, <2>2, <2>3 DEF TypeOK
  <2>4. CASE entrada' = [entrada EXCEPT ![c] = entrada[c] \o v]
    <3>1. v \in Seq(Palabras)
      BY PaquetesTipo DEF IO_FINISHED, PID_MOCK, Palabras
    <3>2. NEW_CPU \notin Range(v)
      BY SinNewCpu
    <3> HIDE DEF v
    <3> QED BY <1>4, <1>10, <2>1, <2>2, <2>4, <3>1, <3>2
  <2> QED BY <1>10, <2>3, <2>4 DEF IoRecibe
<1> QED BY <1>3, <1>6, <1>7, <1>8, <1>9, <1>10 DEF Entorno

LEMMA OciosasInit == Init => InvOciosas
<1> SUFFICES ASSUME Init PROVE InvOciosas
  OBVIOUS
<1>1. /\ recursos_cpu = <<>> /\ ejecutando = {} /\ pc_sts = "espera_ready"
      /\ \A c \in Clientes : salida[c] = <<>> /\ entrada[c] = <<>> /\ hilo[c] = "sin"
  BY DEF Init, InitServidor
<1>2. Portadores = {} /\ Registradas = {} /\ Disponibles = {}
  BY <1>1 DEF Portadores, Registradas, Disponibles, Range
<1>3. \A c \in Clientes : NEW_CPU \notin Range(entrada[c])
  BY <1>1, SinNewCpu
<1> QED BY <1>1, <1>2, <1>3 DEF InvOciosas

LEMMA OciosasPaso ==
    ASSUME TypeOK, InvConexiones, InvOciosas, [Next]_vars
    PROVE  InvOciosas'
<1> USE DEF varsServidor, locSts, recursos, externos
<1>1. NadieSeFue' => NadieSeFue
  BY IdoQueda
<1>2. CASE LargoPlazo \/ Quantum \/ UNCHANGED vars
  <2>1. /\ UNCHANGED <<recursos_cpu, cpu_libre, salida, ejecutando, entrada,
                       cliente, hilo>>
        /\ pc_sts' \in {"exec", "envia"} => pc_sts' = pc_sts
    BY <1>2 DEF LargoPlazo, LtsEspera, LtsRetira, LtsAgrega, LtsAvisa, Quantum,
                RrFinQuantum, RrVuelve, RrAvisaCpu, RrAvisaReady, vars
  <2>2. Portadores' \subseteq Portadores
    BY <2>1, PortadoresMenos
  <2> QED BY <1>1, <2>1, <2>2, OciosasResto
<1>3. CASE CortoPlazo
  <2>1. CASE StsBuscaCpu
    BY <1>1, <2>1, OciosasBusca
  <2>2. CASE StsEnvia
    BY <1>1, <2>2, OciosasEnvia
  <2>3. CASE ~StsBuscaCpu /\ ~StsEnvia
    <3>1. /\ UNCHANGED <<recursos_cpu, cpu_libre, salida, ejecutando, entrada,
                         cliente, hilo>>
          /\ pc_sts' \in {"exec", "envia"} => pc_sts = "exec"
      BY <1>3, <2>3 DEF CortoPlazo, StsEsperaReady, StsEsperaCpu, StsRetira,
                        StsSinCpu, StsExec
    <3>2. Portadores' \subseteq Portadores
      BY <3>1, PortadoresMenos
    <3> QED BY <1>1, <3>1, <3>2, OciosasResto
  <2> QED BY <2>1, <2>2, <2>3
<1>4. ASSUME NEW c \in Clientes, Admision(c) \/ Atencion(c)
      PROVE  InvOciosas'
  BY <1>1, <1>4, OciosasNewCpu, OciosasAtencion
<1>5. CASE Entorno
  BY <1>1, <1>5, OciosasEntorno
<1> QED BY <1>2, <1>3, <1>4, <1>5 DEF Next

\* Whatever the algorithm, the clients and the descriptors, until somebody leaves
\* no CPU is sent the process while it has it (gestion.c:346-353, 435-452).
THEOREM DespachaAOciosaSiempre == Spec => []DespachaAOciosa
<1>1. InvOciosas => DespachaAOciosa
  BY DEF InvOciosas, DespachaAOciosa
<1>2. Spec => []InvOciosas
  BY OciosasInit, OciosasPaso, InvarianteConexiones, PTL DEF Spec
<1> QED BY <1>1, <1>2, PTL

-----------------------------------------------------------------------------
(* FIFO: nobody has the process before it is in cola_exec *)

LEMMA DespachoResto ==
    ASSUME InvDespacho, Portadores' \subseteq Portadores, cola_exec' = cola_exec,
           pc_sts' = "envia" => pc_sts = "envia"
    PROVE  InvDespacho'
BY DEF InvDespacho

LEMMA DespachoCortoPlazo ==
    ASSUME TypeOK, Algoritmo = "FIFO", InvDespacho, CortoPlazo
    PROVE  InvDespacho'
<1> USE DEF colas, externos
<1>1. CASE StsExec
  <2>1. cola_exec \in Seq(Punteros) /\ un_pcb \in Punteros
    BY DEF TypeOK
  <2>2. Len(Append(cola_exec, un_pcb)) = Len(cola_exec) + 1 /\ Len(cola_exec) \in Nat
    BY <2>1
  <2>3. cola_exec' # <<>>
    BY <1>1, <2>2 DEF StsExec
  <2> QED BY <2>3 DEF InvDespacho
<1>2. CASE StsEnvia
  BY <1>2 DEF StsEnvia, InvDespacho
<1>3. CASE ~StsExec /\ ~StsEnvia
  <2>1. /\ UNCHANGED <<cola_exec, salida, ejecutando>>
        /\ pc_sts' # "envia"
    BY <1>3 DEF CortoPlazo, StsEsperaReady, StsEsperaCpu, StsRetira,
                StsBuscaCpu, StsSinCpu
  <2>2. Portadores' \subseteq Portadores
    BY <2>1, PortadoresMenos
  <2> QED BY <2>1, <2>2, DespachoResto
<1> QED BY <1>1, <1>2, <1>3

LEMMA DespachoInit == Init => InvDespacho
<1> SUFFICES ASSUME Init PROVE InvDespacho
  OBVIOUS
<1>1. \A c \in Clientes : salida[c] = <<>>
  BY DEF Init
<1>2. Portadores = {}
  BY <1>1 DEF Init, Portadores, Range
<1> QED BY <1>2 DEF Init, InvDespacho

LEMMA DespachoPaso ==
    ASSUME Algoritmo = "FIFO", InvFifo, InvDespacho, [Next]_vars
    PROVE  InvDespacho'
<1> USE DEF colas, locSts, externos
<1>1. TypeOK
  BY DEF InvFifo
<1>2. CASE LargoPlazo \/ UNCHANGED vars
  <2>1. UNCHANGED <<cola_exec, pc_sts, salida, ejecutando>>
    BY <1>2 DEF LargoPlazo, LtsEspera, LtsRetira, LtsAgrega, LtsAvisa, vars
  <2>2. Portadores' \subseteq Portadores
    BY <2>1, PortadoresMenos
  <2> QED BY <2>1, <2>2, DespachoResto
<1>3. CASE CortoPlazo
  BY <1>1, <1>3, DespachoCortoPlazo
<1>4. CASE Quantum
  BY <1>4 DEF Quantum, RrFinQuantum, RrVuelve, RrAvisaCpu, RrAvisaReady,
              InvFifo, InvColas
<1>5. ASSUME NEW c \in Clientes, Admision(c) \/ Atencion(c) PROVE InvDespacho'
  <2>1. UNCHANGED <<cola_exec, pc_sts>>
    BY <1>5, AtencionColas
  <2> QED BY <1>1, <1>5, <2>1, PortadoresAtencion, DespachoResto
<1>6. CASE Entorno
  <2>1. UNCHANGED <<cola_exec, pc_sts>>
    BY <1>6, EntornoAjeno
  <2> QED BY <1>1, <1>6, <2>1, PortadoresEntorno, DespachoResto
<1> QED BY <1>2, <1>3, <1>4, <1>5, <1>6 DEF Next

-----------------------------------------------------------------------------
(* FIFO: what can happen before the dispatch, while no device has come *)

\* The greeting of a CPU is read whole: nothing is left of it, and its operation
\* is no other.
LEMMA SaludoCpu ==
    ASSUME NEW c \in Cpus
    PROVE  Operacion(Saludo(c)) = NEW_CPU /\ TrasCarga(Saludo(c)) = <<>>
<1>1. Saludo(c) = <<NEW_CPU, LONGITUD_CADENA, c>>
  BY DEF Saludo, PaqueteCadena
<1>2. c \in Clientes
  BY SupuestosScheduler
<1>3. Operacion(Saludo(c)) = NEW_CPU
  BY <1>1 DEF Operacion
<1>4. TrasCarga(Saludo(c)) = <<>>
  <2> DEFINE s == <<NEW_CPU, LONGITUD_CADENA, c>>
  <2>1. Len(Carga(s)) = 1 /\ Len(s) = 3
    BY DEF Carga, LONGITUD_CADENA
  <2>2. s \in Seq(Palabras)
    BY <1>2 DEF Palabras, NEW_CPU, LONGITUD_CADENA
  <2> HIDE DEF s
  <2>3. SubSeq(s, 4, 3) = <<>>
    BY <2>1, <2>2, SubSeqProperties
  <2> QED BY <1>1, <2>1, <2>3 DEF TrasCarga, s
<1> QED BY <1>3, <1>4

\* What leaves the threads, the streams and the process as they were.
LEMMA AntesResto ==
    ASSUME InvAntes, UNCHANGED <<entrada, hilo, vivo>>,
           SinDispositivos' => SinDispositivos, cola_exec' = <<>> => cola_exec = <<>>
    PROVE  InvAntes'
BY DEF InvAntes, Saludo

LEMMA AntesAtencion ==
    ASSUME TypeOK, InvAntes, SinDispositivos, cola_exec = <<>>,
           NEW c \in Clientes, Admision(c) \/ Atencion(c)
    PROVE  InvAntes'
<1> USE DEF colas, restoScheduler
<1>1. /\ vivo
      /\ \A d \in Cpus : entrada[d] \in {<<>>, Saludo(d)}
      /\ \A i \in Ios : entrada[i] = <<>>
      /\ \A d \in Clientes : hilo[d] \notin {"bloquea", "duerme"}
  BY DEF InvAntes
<1>2. \A op : Llega(c, op) => /\ op = NEW_CPU /\ leyendo[c] \in Cpus
                              /\ entrada[leyendo[c]] = Saludo(leyendo[c])
  BY <1>1, SaludoCpu, SupuestosScheduler DEF Llega, TypeOK
<1>3. CASE \E op \in {EXECUTE_PROCESS, SEG_FAULT, IO_SLEEP, 48, 44, NEW_IO,
                      IO_FINISHED} : Llega(c, op)
  BY <1>2, <1>3 DEF EXECUTE_PROCESS, SEG_FAULT, IO_SLEEP, NEW_IO, IO_FINISHED,
                    NEW_CPU
<1>4. CASE AtenderNewCpu(c)
  <2>1. TrasCarga(entrada[leyendo[c]]) = <<>>
    BY <1>2, <1>4, SaludoCpu DEF AtenderNewCpu
  <2>2. /\ entrada' = [entrada EXCEPT ![leyendo[c]] = <<>>]
        /\ vivo' = vivo
        /\ \E p \in {"fin", "avisa"} : hilo' = [hilo EXCEPT ![c] = p]
    BY <1>4, <2>1, Zenon DEF AtenderNewCpu, Consumir, Seguir
  <2>3. \A d \in Clientes : /\ entrada'[d] \in {<<>>, entrada[d]}
                            /\ hilo'[d] \in {"fin", "avisa", hilo[d]}
    BY <2>2 DEF TypeOK
  <2> QED BY <1>1, <2>2, <2>3, SupuestosScheduler DEF InvAntes, Saludo
<1>5. CASE BloquearPid(c) \/ EnviarSleep(c)
  BY <1>1, <1>5 DEF BloquearPid, EnviarSleep
<1>6. CASE \/ Admision(c) \/ AvisarCpu(c) \/ CerrarEnAdmitir(c)
           \/ (LlamarRecv(c) \/ LlegaFin(c) \/ CerrarEnRecibir(c))
                 /\ UNCHANGED restoScheduler
  <2>1. UNCHANGED <<entrada, vivo>>
    BY <1>6 DEF Admision, Aceptar, AvisarCpu, CerrarEnAdmitir, LlamarRecv,
                LlegaFin, CerrarEnRecibir
  <2>2. \E p \in {"llama", "cierra", "recv", "desconocida", "fin"} :
           hilo' = [hilo EXCEPT ![c] = p]
    BY <1>6, Zenon DEF Admision, Aceptar, AvisarCpu, CerrarEnAdmitir,
                LlamarRecv, LlegaFin, CerrarEnRecibir, Seguir
  <2>3. \A d \in Clientes : hilo'[d] \notin {"bloquea", "duerme"}
    BY <1>1, <2>2 DEF TypeOK
  <2> QED BY <1>1, <2>1, <2>3 DEF InvAntes, Saludo
<1>7. CASE AtenderNewIo(c) \/ AtenderIoFinished(c) \/ IgnorarOperacion(c)
  BY <1>3, <1>7 DEF AtenderNewIo, AtenderIoFinished, IgnorarOperacion
<1> QED BY <1>4, <1>5, <1>6, <1>7 DEF Atencion

LEMMA AntesEntorno ==
    ASSUME TypeOK, InvDespacho, InvAntes, SinDispositivos, cola_exec = <<>>,
           SinDispositivos', Entorno
    PROVE  InvAntes'
<1> USE DEF colas, restoScheduler
<1>1. /\ vivo
      /\ \A d \in Cpus : entrada[d] \in {<<>>, Saludo(d)}
      /\ \A i \in Ios : entrada[i] = <<>>
      /\ \A d \in Clientes : hilo[d] \notin {"bloquea", "duerme"}
  BY DEF InvAntes
<1>2. Portadores = {}
  BY DEF InvDespacho
<1>3. ASSUME NEW c \in Clientes, Entra(c) PROVE InvAntes'
  <2>1. /\ UNCHANGED <<hilo, vivo>>
        /\ entrada' = [entrada EXCEPT ![c] = Saludo(c)]
        /\ cliente' = [cliente EXCEPT ![c] = "dentro"]
    BY <1>3 DEF Entra, Conectar
  <2>2. c \notin Ios
    BY <2>1 DEF SinDispositivos, TypeOK
  <2>3. \A d \in Clientes : entrada'[d] = IF d = c THEN Saludo(c) ELSE entrada[d]
    BY <2>1 DEF TypeOK
  <2> QED BY <1>1, <2>1, <2>2, <2>3, SupuestosScheduler DEF InvAntes, Saludo
<1>4. CASE UNCHANGED <<entrada, hilo, vivo, cola_exec>>
  BY <1>4, AntesResto
<1>5. ASSUME NEW c \in Clientes, SeVa(c) PROVE InvAntes'
  BY <1>4, <1>5 DEF SeVa, Desconectar
<1>6. ASSUME NEW c \in Cpus, CpuRecibe(c) PROVE InvAntes'
  BY <1>4, <1>6 DEF CpuRecibe
<1>7. ASSUME NEW c \in Cpus,
             CpuTermina(c) \/ CpuSegFault(c) \/ CpuInterrumpida(c)
      PROVE  FALSE
  BY <1>2, <1>7, SupuestosScheduler
     DEF CpuTermina, CpuSegFault, CpuInterrumpida, Portadores
<1>8. ASSUME NEW i \in Ios, IoRecibe(i) PROVE FALSE
  BY <1>8 DEF IoRecibe, SinDispositivos
<1> QED BY <1>3, <1>5, <1>6, <1>7, <1>8 DEF Entorno

LEMMA AntesPaso ==
    ASSUME Algoritmo = "FIFO", InvFifo, InvDespacho, InvAntes, [Next]_vars
    PROVE  InvAntes'
<1> USE DEF colas, varsServidor, recursos, locLts, locSts, semaforos
<1>1. TypeOK /\ InvColas
  BY DEF InvFifo
<1>2. SinDispositivos' => SinDispositivos
  BY <1>1, ClienteAvanza, SupuestosScheduler DEF SinDispositivos
<1>3. CASE ~SinDispositivos'
  BY <1>3 DEF InvAntes
<1>4. CASE cola_exec # <<>>
  <2>1. CASE CortoPlazo
    <3>1. cola_exec' \in {cola_exec, Append(cola_exec, un_pcb)}
      BY <2>1 DEF CortoPlazo, StsEsperaReady, StsEsperaCpu, StsRetira,
                  StsBuscaCpu, StsSinCpu, StsExec, StsEnvia
    <3>2. cola_exec \in Seq(Punteros) /\ un_pcb \in Punteros
      BY <1>1 DEF TypeOK
    <3>3. Append(cola_exec, un_pcb) # <<>>
      <4>1. Len(Append(cola_exec, un_pcb)) = Len(cola_exec) + 1
            /\ Len(cola_exec) \in Nat
        BY <3>2
      <4> QED BY <4>1
    <3> QED BY <1>4, <3>1, <3>3 DEF InvAntes
  <2>2. CASE Quantum
    BY <1>1, <2>2 DEF Quantum, RrFinQuantum, RrVuelve, RrAvisaCpu, RrAvisaReady,
                      InvColas
  <2>3. CASE LargoPlazo
    BY <1>4, <2>3 DEF LargoPlazo, LtsEspera, LtsRetira, LtsAgrega, LtsAvisa,
                      InvAntes
  <2>4. ASSUME NEW c \in Clientes, Admision(c) \/ Atencion(c) PROVE InvAntes'
    BY <1>4, <2>4, AtencionColas DEF InvAntes
  <2>5. CASE Entorno \/ UNCHANGED vars
    BY <1>4, <2>5, EntornoAjeno DEF InvAntes
  <2> QED BY <2>1, <2>2, <2>3, <2>4, <2>5 DEF Next
<1>5. CASE SinDispositivos' /\ cola_exec = <<>>
  <2>1. pc_sts # "envia"
    BY <1>5 DEF InvDespacho
  <2>2. CASE LargoPlazo
    <3>1. UNCHANGED <<entrada, hilo>>
      BY <2>2 DEF LargoPlazo, LtsEspera, LtsRetira, LtsAgrega, LtsAvisa
    <3>2. vivo' = vivo
      <4>1. CASE LtsAvisa
        <5>1. vivo' = (lts_pcb # NULO) /\ lts_pcb = PID
          BY <1>1, <4>1 DEF LtsAvisa, InvColas
        <5>2. vivo = TRUE /\ PID # NULO
          BY <1>1, <1>2, <1>5 DEF InvAntes, TypeOK, PID, NULO
        <5> QED BY <5>1, <5>2, Zenon
      <4>2. CASE LtsEspera \/ LtsRetira \/ LtsAgrega
        BY <4>2 DEF LtsEspera, LtsRetira, LtsAgrega
      <4> QED BY <2>2, <4>1, <4>2 DEF LargoPlazo
    <3> QED BY <1>2, <1>5, <3>1, <3>2, AntesResto
  <2>3. CASE CortoPlazo
    <3>1. CASE StsExec
      <4>1. cola_exec' = Append(<<>>, un_pcb)
        BY <1>5, <3>1 DEF StsExec
      <4>2. cola_exec' # <<>>
        BY <4>1
      <4> QED BY <4>2 DEF InvAntes
    <3>2. CASE ~StsExec
      <4>1. UNCHANGED <<entrada, hilo, vivo>>
        BY <2>1, <2>3, <3>2
           DEF CortoPlazo, StsEsperaReady, StsEsperaCpu, StsRetira, StsBuscaCpu,
               StsSinCpu, StsEnvia
      <4> QED BY <1>2, <1>5, <4>1, AntesResto
    <3> QED BY <3>1, <3>2
  <2>4. CASE Quantum
    BY <1>1, <2>4 DEF Quantum, RrFinQuantum, RrVuelve, RrAvisaCpu, RrAvisaReady,
                      InvColas
  <2>5. ASSUME NEW c \in Clientes, Admision(c) \/ Atencion(c) PROVE InvAntes'
    BY <1>1, <1>2, <1>5, <2>5, AntesAtencion
  <2>6. CASE Entorno
    BY <1>1, <1>2, <1>5, <2>6, AntesEntorno
  <2>7. CASE UNCHANGED vars
    BY <1>2, <1>5, <2>7, AntesResto DEF vars
  <2> QED BY <2>2, <2>3, <2>4, <2>5, <2>6, <2>7 DEF Next
<1> QED BY <1>3, <1>4, <1>5

LEMMA AntesInit == Init => InvAntes
BY SupuestosScheduler DEF Init, InitServidor, InvAntes

\* Until a device connects, nothing that the CPUs do kills the scheduler before it
\* has dispatched the process (gestion.c:128-150, 208-214, 225-276).
THEOREM NoSeCaeAntesDeDespacharFifo ==
    ASSUME Algoritmo = "FIFO"
    PROVE  Spec => []NoSeCaeAntesDeDespachar
<1>1. InvAntes => NoSeCaeAntesDeDespachar
  BY DEF InvAntes, NoSeCaeAntesDeDespachar
<1>2. Spec => []InvAntes
  BY InvInit, InvPaso, DespachoInit, DespachoPaso, AntesInit, AntesPaso, PTL
     DEF Spec
<1> QED BY <1>1, <1>2, PTL
=============================================================================
