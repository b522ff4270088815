--------------------------- MODULE KernelScheduler ---------------------------
(***************************************************************************)
(* kernel_scheduler/src: the queues of processes, the long and short term  *)
(* schedulers, and the threads that attend the CPUs and the IO devices.    *)
(*                                                                         *)
(* Every thread has its control point; an action is what a thread does     *)
(* between two points where another thread can see or change what it       *)
(* shares: a wait or a signal of a semaphore, a section under a mutex, a   *)
(* send, a recv.  main() creates one process, PID 0, before any thread     *)
(* runs: that is the initial state, and a PCB is its pid.                  *)
(***************************************************************************)
EXTENDS Servidor, Integers, SequencesExt

CONSTANTS Cpus, Ios,        \* the clients of each kind
          Algoritmo         \* PLANIFICATION_ALGORITHM of the configuration

ASSUME SupuestosScheduler ==
    /\ Clientes = Cpus \cup Ios
    /\ Cpus \cap Ios = {}
    /\ Algoritmo \in {"FIFO", "RR"}   \* "CMN" is an empty function

PID      == 0      \* the process of main()
PID_MOCK == 49     \* the string "1", the pid that NEW_IO puts in cola_block
NULO     == -1     \* a NULL t_pcb *

VARIABLES
    cola_new, cola_ready, cola_exec,    \* sequences of PCBs
    cola_block,                         \* a sequence of pids
    estado,                             \* the field of the only PCB
    sem_new, sem_new_ready, sem_ready,  \* the values of the semaphores
    pc_lts, lts_pcb,                    \* long_term_scheduler and its un_pcb
    pc_sts, un_pcb, cpu_libre,          \* the short term one and its locals
    recursos_cpu,       \* t_recurso: id, socket, disponible
    recursos_io,        \* sockets; their disponible is written and never read
    vivo,               \* the process has not crashed
    salida,             \* packets on their way to each client
    ejecutando          \* CPUs inside ejecutar_ciclo_de_instruccion

colas     == <<cola_new, cola_ready, cola_exec, cola_block>>
semaforos == <<sem_new, sem_new_ready, sem_ready>>
locLts    == <<pc_lts, lts_pcb>>
locSts    == <<pc_sts, un_pcb, cpu_libre>>
recursos  == <<recursos_cpu, recursos_io>>
externos  == <<salida, ejecutando>>

vars == <<varsServidor, colas, estado, semaforos, locLts, locSts,
          recursos, vivo, externos>>

Init ==
    /\ InitServidor
    /\ cola_new = <<PID>>
    /\ cola_ready = <<>>
    /\ cola_exec = <<>>
    /\ cola_block = <<>>
    /\ estado = "NEW"
    /\ sem_new = 1
    /\ sem_new_ready = 0
    /\ sem_ready = 0
    /\ pc_lts = "espera"
    /\ lts_pcb = NULO
    /\ pc_sts = "espera_ready"
    /\ un_pcb = NULO
    /\ cpu_libre = 0
    /\ recursos_cpu = <<>>
    /\ recursos_io = <<>>
    /\ vivo = TRUE
    /\ salida = [c \in Clientes |-> <<>>]
    /\ ejecutando = {}

\* list_remove(cola, 0): the first element, or NULL on an empty list.  (Mutant:
\* list_get, which leaves it there.)
Primero(cola) == IF cola = <<>> THEN NULO ELSE Head(cola)
RestoSinSacar(cola) == cola
Resto(cola)   == IF cola = <<>> THEN <<>> ELSE Tail(cola)

\* wait and signal are macros for sem_wait and sem_post.  (Mutants: a wait that
\* does not block, a signal that is forgotten and one given twice.)
WaitSinEspera(sem) == sem' = sem - 1
SignalPerdida(sem) == sem' = sem
SignalDoble(sem)   == sem' = sem + 2
Wait(sem)   == sem > 0 /\ sem' = sem - 1
Signal(sem) == sem' = sem + 1

\* A client that exits without reading a packet, or is sent one after it has
\* gone, makes its system reset the connection.
Rota(fd) ==
    \E c \in Clientes :
        conexion[fd] = c /\ cliente[c] = "ido" /\ salida[c] # <<>>

\* enviar_paquete on a descriptor: the packet goes to whoever has it now, and
\* nowhere when it is closed: the result of send() is not looked at.  Once the
\* reset has come, send() raises SIGPIPE, which nobody handles.
Enviar(fd, paquete) ==
    /\ salida' = [c \in Clientes |->
                     IF conexion[fd] = c THEN Append(salida[c], paquete)
                                         ELSE salida[c]]
    /\ vivo' \in {TRUE, ~Rota(fd)}

-----------------------------------------------------------------------------
(* long_term_scheduler *)

LtsEspera ==
    /\ pc_lts = "espera"
    /\ Wait(sem_new)
    /\ pc_lts' = "retira"
    /\ UNCHANGED <<varsServidor, colas, estado, sem_new_ready, sem_ready,
                   lts_pcb, locSts, recursos, vivo, externos>>

LtsRetira ==
    /\ pc_lts = "retira"
    /\ lts_pcb' = Primero(cola_new)
    /\ cola_new' = Resto(cola_new)
    /\ pc_lts' = "agrega"
    /\ UNCHANGED <<varsServidor, cola_ready, cola_exec, cola_block, estado,
                   semaforos, locSts, recursos, vivo, externos>>

LtsAgrega ==
    /\ pc_lts = "agrega"
    /\ cola_ready' = Append(cola_ready, lts_pcb)
    /\ pc_lts' = "avisa"
    /\ UNCHANGED <<varsServidor, cola_new, cola_exec, cola_block, estado,
                   semaforos, lts_pcb, locSts, recursos, vivo, externos>>

\* The log reads the pid through the pointer; the state stays what it was.
LtsAvisa ==
    /\ pc_lts = "avisa"
    /\ vivo' = (lts_pcb # NULO)
    /\ Signal(sem_new_ready)
    /\ pc_lts' = "espera"
    /\ UNCHANGED <<varsServidor, colas, estado, sem_new, sem_ready, lts_pcb,
                   locSts, recursos, externos>>

LargoPlazo == LtsEspera \/ LtsRetira \/ LtsAgrega \/ LtsAvisa

-----------------------------------------------------------------------------
(* fifo and round_robin: the same steps up to the send *)

StsEsperaReady ==
    /\ pc_sts = "espera_ready"
    /\ Wait(sem_new_ready)
    /\ pc_sts' = "espera_cpu"
    /\ UNCHANGED <<varsServidor, colas, estado, sem_new, sem_ready, locLts,
                   un_pcb, cpu_libre, recursos, vivo, externos>>

StsEsperaCpu ==
    /\ pc_sts = "espera_cpu"
    /\ Wait(sem_ready)
    /\ pc_sts' = "retira"
    /\ UNCHANGED <<varsServidor, colas, estado, sem_new, sem_new_ready, locLts,
                   un_pcb, cpu_libre, recursos, vivo, externos>>

\* Only round_robin looks whether the queue is empty.
StsRetira ==
    /\ pc_sts = "retira"
    /\ un_pcb' = Primero(cola_ready)
    /\ cola_ready' = Resto(cola_ready)
    /\ pc_sts' = IF Algoritmo = "RR" /\ cola_ready = <<>>
                 THEN "espera_ready" ELSE "busca"
    /\ UNCHANGED <<varsServidor, cola_new, cola_exec, cola_block, estado,
                   semaforos, locLts, cpu_libre, recursos, vivo, externos>>

\* buscar_cpu_libre: list_find gives the first one with esta_disponible.
\* (Mutant: it takes any.)
Todas       == DOMAIN recursos_cpu
Disponibles == {i \in DOMAIN recursos_cpu : recursos_cpu[i].disponible}

StsBuscaCpu ==
    /\ pc_sts = "busca"
    /\ \E i \in Disponibles :
          /\ \A j \in Disponibles : i <= j
          /\ cpu_libre' = i
          /\ recursos_cpu' = [recursos_cpu EXCEPT ![i].disponible = FALSE]
    /\ pc_sts' = "exec"
    /\ UNCHANGED <<varsServidor, colas, estado, semaforos, locLts, un_pcb,
                   recursos_io, vivo, externos>>

\* list_find gives NULL: the loop goes on, and nobody has the PCB any more.
StsSinCpu ==
    /\ pc_sts = "busca"
    /\ Disponibles = {}
    /\ pc_sts' = "espera_ready"
    /\ un_pcb' = NULO
    /\ UNCHANGED <<varsServidor, colas, estado, semaforos, locLts, cpu_libre,
                   recursos, vivo, externos>>

StsExec ==
    /\ pc_sts = "exec"
    /\ vivo' = (un_pcb # NULO)
    /\ estado' = "EXEC"
    /\ cola_exec' = Append(cola_exec, un_pcb)
    /\ pc_sts' = "envia"
    /\ UNCHANGED <<varsServidor, cola_new, cola_ready, cola_block, semaforos,
                   locLts, un_pcb, cpu_libre, recursos, externos>>

\* fifo goes back to its loop; round_robin sleeps the quantum.
StsEnvia ==
    /\ pc_sts = "envia"
    /\ Enviar(recursos_cpu[cpu_libre].socket, EXECUTE_PROCESS)
    /\ pc_sts' = IF Algoritmo = "RR" THEN "quantum" ELSE "espera_ready"
    /\ UNCHANGED <<varsServidor, colas, estado, semaforos, locLts, un_pcb,
                   cpu_libre, recursos, ejecutando>>

CortoPlazo ==
    \/ StsEsperaReady \/ StsEsperaCpu \/ StsRetira
    \/ StsBuscaCpu \/ StsSinCpu \/ StsExec \/ StsEnvia

(* round_robin after the quantum *)

\* It takes the first PCB of cola_exec with the pid of un_pcb, if there is one.
RrFinQuantum ==
    /\ pc_sts = "quantum"
    /\ IF \E i \in DOMAIN cola_exec : cola_exec[i] = un_pcb
       THEN /\ \E i \in DOMAIN cola_exec :
                  /\ cola_exec[i] = un_pcb
                  /\ \A j \in 1..(i - 1) : cola_exec[j] # un_pcb
                  /\ cola_exec' = RemoveAt(cola_exec, i)
            /\ pc_sts' = "vuelve"
       ELSE cola_exec' = cola_exec /\ pc_sts' = "espera_ready"
    /\ UNCHANGED <<varsServidor, cola_new, cola_ready, cola_block, estado,
                   semaforos, locLts, un_pcb, cpu_libre, recursos, vivo,
                   externos>>

RrVuelve ==
    /\ pc_sts = "vuelve"
    /\ estado' = "READY"
    /\ cola_ready' = Append(cola_ready, un_pcb)
    /\ pc_sts' = "avisa_cpu"
    /\ UNCHANGED <<varsServidor, cola_new, cola_exec, cola_block, semaforos,
                   locLts, un_pcb, cpu_libre, recursos, vivo, externos>>

RrAvisaCpu ==
    /\ pc_sts = "avisa_cpu"
    /\ Signal(sem_ready)
    /\ pc_sts' = "avisa_ready"
    /\ UNCHANGED <<varsServidor, colas, estado, sem_new, sem_new_ready, locLts,
                   un_pcb, cpu_libre, recursos, vivo, externos>>

RrAvisaReady ==
    /\ pc_sts = "avisa_ready"
    /\ Signal(sem_new_ready)
    /\ pc_sts' = "espera_ready"
    /\ UNCHANGED <<varsServidor, colas, estado, sem_new, sem_ready, locLts,
                   un_pcb, cpu_libre, recursos, vivo, externos>>

Quantum == RrFinQuantum \/ RrVuelve \/ RrAvisaCpu \/ RrAvisaReady

-----------------------------------------------------------------------------
(* admitir: the thread of client c.  It reads from the connection that its   *)
(* descriptor had when it called recv().                                     *)

Consumir(c, resto) ==
    /\ entrada' = [entrada EXCEPT ![leyendo[c]] = resto]
    /\ UNCHANGED <<cliente, conexion, socket, leyendo>>

Seguir(c, punto) == hilo' = [hilo EXCEPT ![c] = punto]

\* The resource of a CPU: the id that the packet carries is its sender's.
\* (Mutant: the descriptor is not that of the thread but the first in use.)
RecursoPrimero(c) ==
    [id |-> leyendo[c],
     socket |-> CHOOSE f \in Fds :
                    /\ conexion[f] # Libre \/ f = MaxFd
                    /\ \A g \in 1..(f - 1) : conexion[g] = Libre,
     disponible |-> TRUE]
RecursoDe(c) == [id |-> leyendo[c], socket |-> socket[c], disponible |-> TRUE]

\* case NEW_CPU: list_add, and the semaphore in a step of its own.
AtenderNewCpu(c) ==
    LET flujo == entrada[leyendo[c]] IN
    /\ Llega(c, NEW_CPU)
    /\ Consumir(c, TrasCarga(flujo))
    /\ IF Carga(flujo) = <<>>
       THEN recursos_cpu' = recursos_cpu /\ Seguir(c, "fin")
       ELSE /\ recursos_cpu' = Append(recursos_cpu, RecursoDe(c))
            /\ Seguir(c, "avisa")
    /\ UNCHANGED <<colas, estado, semaforos, locLts, locSts, recursos_io, vivo,
                   externos>>

AvisarCpu(c) ==
    /\ hilo[c] = "avisa"
    /\ Signal(sem_ready)
    /\ Seguir(c, "llama")
    /\ UNCHANGED <<cliente, entrada, conexion, socket, leyendo, colas, estado,
                   sem_new, sem_new_ready, locLts, locSts, recursos, vivo,
                   externos>>

\* case NEW_IO: the type is copied with strdup, fatal on the NULL that
\* list_get gives for an empty list; the device is added, ...
AtenderNewIo(c) ==
    LET flujo == entrada[leyendo[c]] IN
    /\ Llega(c, NEW_IO)
    /\ Consumir(c, TrasCarga(flujo))
    /\ vivo' = (Carga(flujo) # <<>>)
    /\ recursos_io' = Append(recursos_io, socket[c])
    /\ Seguir(c, "bloquea")
    /\ UNCHANGED <<colas, estado, semaforos, locLts, locSts, recursos_cpu,
                   externos>>

\* ... a pid that no process has goes to cola_block, ...
BloquearPid(c) ==
    /\ hilo[c] = "bloquea"
    /\ cola_block' = Append(cola_block, PID_MOCK)
    /\ Seguir(c, "duerme")
    /\ UNCHANGED <<cliente, entrada, conexion, socket, leyendo, cola_new,
                   cola_ready, cola_exec, estado, semaforos, locLts, locSts,
                   recursos, vivo, externos>>

\* ... and the device is told to sleep.
EnviarSleep(c) ==
    /\ hilo[c] = "duerme"
    /\ Enviar(socket[c], IO_SLEEP)
    /\ Seguir(c, "llama")
    /\ UNCHANGED <<cliente, entrada, conexion, socket, leyendo, colas, estado,
                   semaforos, locLts, locSts, recursos, ejecutando>>

\* case IO_FINISHED: _es_el_pid compares each element of cola_block with
\* pid_fin_global, which nobody ever assigns: strcmp with NULL on the first
\* element kills the process.  On an empty cola_block the search finds nothing
\* and the thread goes on: the branch that moves the pid to cola_ready
\* cannot run.
AtenderIoFinished(c) ==
    /\ Llega(c, IO_FINISHED)
    /\ Consumir(c, TrasCarga(entrada[leyendo[c]]))
    /\ vivo' = (cola_block = <<>>)
    /\ Seguir(c, "llama")
    /\ UNCHANGED <<colas, estado, semaforos, locLts, locSts, recursos,
                   externos>>

\* default: the operation is dropped and its payload is not read, so the next
\* word of the payload is taken for an operation.
IgnorarOperacion(c) ==
    /\ \E op \in {EXECUTE_PROCESS, SEG_FAULT, IO_SLEEP, 48, 44} : Llega(c, op)
    /\ Consumir(c, Tail(entrada[leyendo[c]]))
    /\ Seguir(c, "llama")
    /\ UNCHANGED <<colas, estado, semaforos, locLts, locSts, recursos, vivo,
                   externos>>

\* case OPERACION_DESCONOCIDA: the descriptor is closed once more.
CerrarEnAdmitir(c) ==
    /\ hilo[c] = "desconocida"
    /\ Close(c)
    /\ Seguir(c, "fin")
    /\ UNCHANGED <<cliente, entrada, socket, leyendo, colas, estado, semaforos,
                   locLts, locSts, recursos, vivo, externos>>

restoScheduler == <<colas, estado, semaforos, locLts, locSts, recursos, vivo,
                    externos>>

Atencion(c) ==
    \/ (LlamarRecv(c) \/ LlegaFin(c) \/ CerrarEnRecibir(c))
          /\ UNCHANGED restoScheduler
    \/ AtenderNewCpu(c) \/ AvisarCpu(c)
    \/ AtenderNewIo(c) \/ BloquearPid(c) \/ EnviarSleep(c)
    \/ AtenderIoFinished(c) \/ IgnorarOperacion(c) \/ CerrarEnAdmitir(c)

Admision(c) == Aceptar(c) /\ UNCHANGED restoScheduler

-----------------------------------------------------------------------------
(* The clients, as cpu/src and io/src drive the connection. *)

\* A CPU says NEW_CPU with its identifier, an IO says NEW_IO with its type.
Saludo(c) ==
    PaqueteCadena(IF c \in Cpus THEN NEW_CPU ELSE NEW_IO, c)

Entra(c) == Conectar(c, Saludo(c)) /\ UNCHANGED restoScheduler

\* The process exits; what it was executing stops with it.
SeVa(c) ==
    /\ Desconectar(c)
    /\ ejecutando' = ejecutando \ {c}
    /\ UNCHANGED <<colas, estado, semaforos, locLts, locSts, recursos, vivo,
                   salida>>

\* thread_ejecucion waits for a packet: a PCB is executed, anything else ends
\* the CPU with the rest of the packet unread.
CpuRecibe(c) ==
    /\ cliente[c] = "dentro"
    /\ c \notin ejecutando
    /\ salida[c] # <<>>
    /\ IF Head(salida[c]) = EXECUTE_PROCESS
       THEN /\ salida' = [salida EXCEPT ![c] = Tail(salida[c])]
            /\ ejecutando' = ejecutando \cup {c}
            /\ UNCHANGED cliente
       ELSE /\ cliente' = [cliente EXCEPT ![c] = "ido"]
            /\ UNCHANGED <<salida, ejecutando>>
    /\ UNCHANGED <<entrada, conexion, hilo, socket, leyendo, colas, estado,
                   semaforos, locLts, locSts, recursos, vivo>>

\* CMD_EXIT returns the PCB, an invalid command just ends the execution.
CpuTermina(c) ==
    /\ cliente[c] = "dentro"
    /\ c \in ejecutando
    /\ ejecutando' = ejecutando \ {c}
    /\ \E vuelta \in {PaquetePcb(EXECUTE_PROCESS, PID, 0), <<>>} :
          entrada' = [entrada EXCEPT ![c] = entrada[c] \o vuelta]
    /\ UNCHANGED <<cliente, conexion, hilo, socket, leyendo, colas, estado,
                   semaforos, locLts, locSts, recursos, vivo, salida>>

\* A segmentation fault is reported and the same instruction is tried again.
\* (Bound: a report waits for the previous one to be read.)
CpuSegFault(c) ==
    /\ cliente[c] = "dentro"
    /\ c \in ejecutando
    /\ entrada[c] = <<>>
    /\ entrada' = [entrada EXCEPT ![c] = PaquetePcb(SEG_FAULT, PID, 0)]
    /\ UNCHANGED <<cliente, conexion, hilo, socket, leyendo, restoScheduler>>

\* CHECK INTERRUPT: with anything to read, the CPU takes only its operation,
\* sends it back with the PCB and leaves the cycle; thread_ejecucion then reads
\* the length of that packet as an operation, which ends the CPU with the rest
\* unread.
CpuInterrumpida(c) ==
    /\ cliente[c] = "dentro"
    /\ c \in ejecutando
    /\ salida[c] # <<>>
    /\ ejecutando' = ejecutando \ {c}
    /\ entrada' = [entrada EXCEPT ![c] =
                      entrada[c] \o PaquetePcb(Head(salida[c]), PID, 0)]
    /\ cliente' = [cliente EXCEPT ![c] = "ido"]
    /\ UNCHANGED <<conexion, hilo, socket, leyendo, colas, estado, semaforos,
                   locLts, locSts, recursos, vivo, salida>>

\* An IO that is told to sleep answers IO_FINISHED; it drops the rest.
IoRecibe(c) ==
    /\ cliente[c] = "dentro"
    /\ salida[c] # <<>>
    /\ salida' = [salida EXCEPT ![c] = Tail(salida[c])]
    /\ entrada' = [entrada EXCEPT ![c] =
                      IF Head(salida[c]) = IO_SLEEP
                      THEN entrada[c] \o PaqueteCadena(IO_FINISHED, PID_MOCK)
                      ELSE entrada[c]]
    /\ UNCHANGED <<cliente, conexion, hilo, socket, leyendo, colas, estado,
                   semaforos, locLts, locSts, recursos, vivo, ejecutando>>

Entorno ==
    \/ \E c \in Clientes : Entra(c) \/ SeVa(c)
    \/ \E c \in Cpus : \/ CpuRecibe(c) \/ CpuTermina(c)
                       \/ CpuSegFault(c) \/ CpuInterrumpida(c)
    \/ \E c \in Ios : IoRecibe(c)

-----------------------------------------------------------------------------
\* A crash ends every thread of the process, and nothing restarts it.
Next ==
    /\ vivo
    /\ \/ LargoPlazo
       \/ CortoPlazo
       \/ Quantum
       \/ \E c \in Clientes : Admision(c) \/ Atencion(c)
       \/ Entorno

Spec == Init /\ [][Next]_vars

\* The operating system runs every thread that can go on.  Each semaphore has
\* one thread waiting, so weak fairness is enough.  Nothing is assumed of the
\* clients.
Equidad ==
    /\ WF_vars(vivo /\ LargoPlazo)
    /\ WF_vars(vivo /\ (CortoPlazo \/ Quantum))
    /\ \A c \in Clientes : WF_vars(vivo /\ Admision(c))
    /\ \A c \in Clientes : WF_vars(vivo /\ Atencion(c))

EspecJusta == Spec /\ Equidad
=============================================================================
