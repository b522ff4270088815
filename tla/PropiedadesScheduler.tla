------------------------- MODULE PropiedadesScheduler -------------------------
(***************************************************************************)
(* What makes kernel_scheduler correct, stated on its state.  Some of the  *)
(* properties hold of one algorithm only, or while no client leaves: each  *)
(* says so, and the runs check them where they are meant to hold and where *)
(* the comments and the log of the code claim them.                        *)
(***************************************************************************)
EXTENDS KernelScheduler

PuntosHilo == {"sin", "llama", "recv", "cierra", "desconocida", "fin",
               "avisa", "bloquea", "duerme"}
PuntosLts  == {"espera", "retira", "agrega", "avisa"}
PuntosSts  == {"espera_ready", "espera_cpu", "retira", "busca", "exec",
               "envia", "quantum", "vuelve", "avisa_cpu", "avisa_ready"}
Punteros   == {PID, NULO}
Recurso    == [id : Clientes, socket : Fds, disponible : BOOLEAN]
Paquetes   == {EXECUTE_PROCESS, IO_SLEEP}

\* The state of every part has its type.  A semaphore never goes below zero, a
\* thread that exists has a descriptor of the table and one that is blocked in
\* recv() reads a connection, and the resource chosen for a dispatch exists
\* (gestion.c:30-57, 225-276, 428-452).
TypeOK ==
    /\ cliente \in [Clientes -> {"fuera", "dentro", "ido"}]
    /\ entrada \in [Clientes -> Seq(Palabras)]
    /\ conexion \in [Fds -> Clientes \cup {Libre}]
    /\ hilo \in [Clientes -> PuntosHilo]
    /\ socket \in [Clientes -> 0..MaxFd]
    /\ leyendo \in [Clientes -> Clientes \cup {Libre}]
    /\ \A c \in Clientes : /\ hilo[c] # "sin" => socket[c] \in Fds
                           /\ hilo[c] = "recv" => leyendo[c] \in Clientes
    /\ cola_new \in Seq(Punteros)
    /\ cola_ready \in Seq(Punteros)
    /\ cola_exec \in Seq(Punteros)
    /\ cola_block \in Seq({PID_MOCK})
    /\ estado \in {"NEW", "READY", "EXEC"}
    /\ sem_new \in Nat /\ sem_new_ready \in Nat /\ sem_ready \in Nat
    /\ pc_lts \in PuntosLts /\ lts_pcb \in Punteros
    /\ pc_sts \in PuntosSts /\ un_pcb \in Punteros
    /\ recursos_cpu \in Seq(Recurso)
    /\ recursos_io \in Seq(Fds)
    /\ pc_sts \in {"exec", "envia"} => cpu_libre \in DOMAIN recursos_cpu
    /\ vivo \in BOOLEAN
    /\ salida \in [Clientes -> Seq(Paquetes)]
    /\ ejecutando \subseteq Cpus

-----------------------------------------------------------------------------
(* Where the process is, and the credit each semaphore carries. *)

Uno(b) == IF b THEN 1 ELSE 0

\* How many of the places a process can be in hold it: the queues and the local
\* variables of the two schedulers between a list_remove and a list_add.
Lugares ==
    Len(cola_new) + Len(cola_ready) + Len(cola_exec)
    + Uno(pc_lts = "agrega")
    + Uno(pc_sts \in {"busca", "exec", "vuelve"})

\* Under FIFO the process is always in exactly one place: it is never lost
\* between two queues nor linked from both, although the threads take and put
\* it under different mutexes and long_term_scheduler takes it from cola_new
\* under the mutex of cola_ready (gestion.c:402-412, 232-247).
UnSoloLugar == Lugares = 1

\* Under round robin it may be lost, but it is never in two queues, and no
\* null pointer is ever put in one.
NuncaDosLugares ==
    /\ Lugares <= 1
    /\ NULO \notin Range(cola_new \o cola_ready \o cola_exec)

PorAvisar == {c \in Clientes : hilo[c] = "avisa"}

\* The CPUs that sem_ready stands for: its value, the signals that NEW_CPU
\* still owes and the one that the short term scheduler has taken and not spent.
CreditoCpu ==
    sem_ready + Cardinality(PorAvisar)
    + Uno(pc_sts \in {"retira", "busca"})

\* Under FIFO sem_ready is exact: every unit of it is a CPU of recursos_cpu
\* that is disponible, and the other way round (gestion.c:144-148, 230, 236).
SemReadyExacto == Cardinality(Disponibles) = CreditoCpu

\* Under round robin the quantum adds units without CPUs, never the other way:
\* a CPU that is disponible always has a unit that wakes the scheduler up.
SemReadySuficiente == Cardinality(Disponibles) <= CreditoCpu

\* sem_new_ready is exact too: its units, and the one the scheduler has taken,
\* are the processes in cola_ready, less the one whose signal is still owed
\* (gestion.c:229, 232-234, 410-416; 347-358).  list_remove never finds the
\* queue empty.
SemNewReadyExacto ==
    Len(cola_ready) = sem_new_ready + Uno(pc_lts = "avisa")
                      + Uno(pc_sts \in {"espera_cpu", "retira"})
                      + Uno(pc_sts \in {"avisa_cpu", "avisa_ready"})

\* "Bloqueado hasta que se conecte un nuevo cpu o un proceso libere un cpu"
\* (gestion.c:230, 283): the scheduler that got past that wait finds a CPU.
\* FIFO keeps it; round robin does not, because the quantum signals "que hay un
\* CPU disponible" (gestion.c:355) and frees none.
HayCpuLibre == pc_sts = "busca" => Disponibles # {}

\* No lost wake-up: with a process in cola_ready, a CPU disponible and nobody
\* about to signal, the short term scheduler is not asleep on a semaphore.
SinDespertarPerdido ==
    ( /\ cola_ready # <<>>
      /\ Disponibles # {}
      /\ PorAvisar = {} /\ pc_lts # "avisa" )
    => /\ pc_sts = "espera_ready" => sem_new_ready > 0
       /\ pc_sts = "espera_cpu" => sem_ready > 0

\* The inductive invariant of FIFO.  The three semaphores have to be accounted
\* for together: that nobody finds a queue empty depends on sem_new and
\* sem_new_ready being exact, and a thread that found one empty would lose the
\* exactness of the next (gestion.c:225-276, 399-420).
InvColas ==
    /\ pc_sts \in {"espera_ready", "espera_cpu", "retira", "busca", "exec",
                   "envia"}
    /\ Len(cola_new) = sem_new + Uno(pc_lts = "retira")
    /\ SemNewReadyExacto
    /\ UnSoloLugar
    /\ cola_new \in Seq({PID}) /\ cola_ready \in Seq({PID})
    /\ pc_lts \in {"agrega", "avisa"} => lts_pcb = PID
    /\ pc_sts \in {"busca", "exec"} => un_pcb = PID

InvFifo == TypeOK /\ InvColas /\ SemReadyExacto

\* What is left of it with the quantum, and inductive for either algorithm: the
\* process may be lost when no CPU is found, and sem_ready has units to spare.
InvTurnos ==
    /\ Len(cola_new) = sem_new + Uno(pc_lts = "retira")
    /\ SemNewReadyExacto
    /\ Lugares <= 1
    /\ {cola_new, cola_ready, cola_exec} \subseteq Seq({PID})
    /\ pc_lts \in {"agrega", "avisa"} => lts_pcb = PID
    /\ pc_sts \in {"busca", "exec", "envia", "quantum", "vuelve"} => un_pcb = PID

InvRr == TypeOK /\ InvTurnos /\ SemReadySuficiente

-----------------------------------------------------------------------------
(* Connections. *)

NadieSeFue == \A c \in Clientes : cliente[c] # "ido"

\* While no client has left, the descriptor of the thread of a client is the
\* connection of that client and its recv() reads that client: the acceptor
\* never hands one thread the socket of another (gestion.c:41-52, 66-72).
ConexionPropia ==
    NadieSeFue =>
        \A c \in Clientes :
            hilo[c] \notin {"sin", "cierra", "desconocida", "fin"} =>
                /\ conexion[socket[c]] = c
                /\ hilo[c] = "recv" => leyendo[c] = c

\* "PCB enviado a CPU %s" (gestion.c:252-271): while no client has left, what
\* is about to be sent goes to the CPU that registered the resource, although
\* the list grows between the choice of the CPU and the send.
EnviaACpuConectada ==
    (NadieSeFue /\ pc_sts = "envia") =>
        LET r == recursos_cpu[cpu_libre] IN conexion[r.socket] = r.id

\* What makes the two inductive, with either algorithm: nobody closes a
\* descriptor, so each thread and each resource keeps its own.
InvConexiones ==
    NadieSeFue =>
        /\ \A c \in Clientes :
              /\ hilo[c] \notin {"cierra", "desconocida"}
              /\ hilo[c] # "sin" => conexion[socket[c]] = c
              /\ hilo[c] = "recv" => leyendo[c] = c
        /\ \A i \in DOMAIN recursos_cpu :
              conexion[recursos_cpu[i].socket] = recursos_cpu[i].id

-----------------------------------------------------------------------------
(* What the log and the comments say of the process. *)

\* The CPUs that execute the process or have it in their stream.
Portadores ==
    {c \in Clientes : \/ c \in ejecutando
                      \/ EXECUTE_PROCESS \in Range(salida[c])}

\* While no client has left, the process is never sent to a CPU that executes it
\* or has it unread, though the quantum puts it back in READY without a word to
\* that CPU: it would take the packet for an interrupt and end
\* (gestion.c:346-353, 435-452; thread_ejecucion.c:398-413).
DespachaAOciosa ==
    (NadieSeFue /\ pc_sts = "envia") => recursos_cpu[cpu_libre].id \notin Portadores

\* What makes it inductive: a CPU registers once, because its greeting is read
\* whole by its thread and nothing else it sends has the word NEW_CPU; none is
\* given the process before it has registered, nor again once it has been taken.
Registradas == {recursos_cpu[i].id : i \in DOMAIN recursos_cpu}

InvOciosas ==
    NadieSeFue =>
        /\ \A i, j \in DOMAIN recursos_cpu :
              recursos_cpu[i].id = recursos_cpu[j].id => i = j
        /\ Portadores \subseteq Registradas
        /\ \A i \in Disponibles : recursos_cpu[i].id \notin Portadores
        /\ pc_sts \in {"exec", "envia"} =>
              /\ cpu_libre \notin Disponibles
              /\ recursos_cpu[cpu_libre].id \notin Portadores
        /\ \A c \in Clientes :
              /\ NEW_CPU \in Range(entrada[c]) =>
                    entrada[c] = Saludo(c) /\ c \notin Registradas
              /\ cliente[c] = "fuera" => hilo[c] = "sin"
              /\ hilo[c] = "sin" => c \notin Registradas

\* Before the dispatch nobody has the process.
InvDespacho ==
    /\ pc_sts = "envia" => cola_exec # <<>>
    /\ cola_exec = <<>> => Portadores = {}

\* The process kernel_scheduler does not crash: what a device or a CPU sends
\* after its work is served (gestion.c:182-201, 360).
NoSeCae == vivo

\* Without a device, the process cannot crash before it has been dispatched: the
\* CPUs that come and leave do nothing to it (gestion.c:128-150, 208-214).
SinDispositivos == \A i \in Ios : cliente[i] = "fuera"

NoSeCaeAntesDeDespachar == SinDispositivos => vivo \/ cola_exec # <<>>

\* Its inductive form: until then the streams have nothing but the greetings of
\* the CPUs.
InvAntes ==
    SinDispositivos /\ cola_exec = <<>> =>
        /\ vivo
        /\ \A c \in Cpus : entrada[c] \in {<<>>, Saludo(c)}
        /\ \A i \in Ios : entrada[i] = <<>>
        /\ \A c \in Clientes : hilo[c] \notin {"bloquea", "duerme"}

\* A CPU that has connected gets the process dispatched, to it or to another
\* one, unless a device ends the scheduler: the long term scheduler, the
\* acceptor, the threads of the clients and the short term scheduler never wait
\* for each other for ever, with CPUs that leave and whose descriptors are
\* closed twice (gestion.c:208-214, 225-276, 399-420).
SeDespacha ==
    (\E c \in Cpus : cliente[c] # "fuera") ~> (cola_exec # <<>> \/ ~vivo)

-----------------------------------------------------------------------------
(* FIFO implements CicloDeVida.  The process passes from one place to the   *)
(* next when it is added to the queue; a CPU stops being free when the      *)
(* process is in cola_exec.                                                 *)

Lugar == IF cola_exec # <<>> THEN "EXEC"
         ELSE IF cola_new # <<>> \/ pc_lts = "agrega" THEN "NEW"
         ELSE "READY"

Libres == Cardinality(Disponibles) + Uno(pc_sts = "exec")

Ciclo == INSTANCE CicloDeVida WITH lugar <- Lugar, libres <- Libres

\* Under FIFO every step of the scheduler and its clients is a step of the life
\* cycle of CicloDeVida or none at all.
ImplementaCiclo == Ciclo!EspecSegura

\* And with fair threads it is live as well, unless it crashes: what can be
\* admitted or dispatched is.
ImplementaCicloVivo == []vivo => Ciclo!Justicia
=============================================================================
