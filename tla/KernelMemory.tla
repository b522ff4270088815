----------------------------- MODULE KernelMemory -----------------------------
(***************************************************************************)
(* kernel_memory/src/gestion.c: the thread of each connection attends one  *)
(* operation, which says what kind of client it is; that of a CPU goes on  *)
(* in atender_cpu for as long as the CPU asks.                             *)
(*                                                                         *)
(* The lists of resources and recurso_swap are shared by the threads and   *)
(* no mutex protects them, so each read and each write is a step.          *)
(***************************************************************************)
EXTENDS Servidor, Integers

CONSTANTS Cpus, Sticks, Swaps, Planificadores,   \* the clients of each kind
          Codigo                                 \* the lines of the script

ASSUME SupuestosMemoria ==
    /\ Clientes = Cpus \cup Sticks \cup Swaps \cup Planificadores
    /\ Cpus \cap (Sticks \cup Swaps \cup Planificadores) = {}
    /\ Sticks \cap (Swaps \cup Planificadores) = {}
    /\ Swaps \cap Planificadores = {}

\* Nobody reads a part of a payload here: it is one word, no operation.
CARGA == 60
NADA  == -1

VARIABLES
    en_atender,              \* threads that are in atender_cpu
    recurso_swap,            \* the client whose thread set it, Libre if NULL
    socket_ks,               \* the same for *socket_kernel_scheduler
    recursos_cpu, recursos_memory_stick,    \* the ids of the resources
    ultimo,                  \* the last element a thread saw inside list_add
    codigos,                 \* the scripts read, one per scheduler
    instrucciones_proceso,   \* what MOV_IN answers from
    pide,                    \* the pc each CPU waits for, or NADA
    salida                   \* answers on their way to each client

varsMemoria == <<en_atender, recurso_swap, socket_ks, recursos_cpu,
                 recursos_memory_stick, ultimo, codigos,
                 instrucciones_proceso, pide, salida>>
vars == <<varsServidor, varsMemoria>>

Init ==
    /\ InitServidor
    /\ en_atender = {}
    /\ recurso_swap = Libre
    /\ socket_ks = Libre
    /\ recursos_cpu = <<>>
    /\ recursos_memory_stick = <<>>
    /\ ultimo = [c \in Clientes |-> Libre]
    /\ codigos = <<>>
    /\ instrucciones_proceso = <<>>
    /\ pide = [c \in Cpus |-> NADA]
    /\ salida = [c \in Clientes |-> <<>>]

Seguir(c, p) == hilo' = [hilo EXCEPT ![c] = p]

\* The thread takes the operation and, when it knows it, the payload.  (Mutant:
\* only the operation.)
TomarOperacion(c, palabras) ==
    /\ entrada' = [entrada EXCEPT ![leyendo[c]] = Tail(@)]
    /\ UNCHANGED <<cliente, conexion, socket, leyendo>>

Tomar(c, palabras) ==
    /\ entrada' = [entrada EXCEPT ![leyendo[c]] =
                      SubSeq(@, palabras + 1, Len(@))]
    /\ UNCHANGED <<cliente, conexion, socket, leyendo>>

\* An answer goes to whoever has the descriptor.  (Mutant: the first one.)
ResponderAlPrimero(c, respuesta) ==
    salida' = [d \in Clientes |->
                  IF conexion[1] = d THEN Append(salida[d], respuesta)
                                     ELSE salida[d]]
Responder(c, respuesta) ==
    salida' = [d \in Clientes |->
                  IF conexion[socket[c]] = d THEN Append(salida[d], respuesta)
                                             ELSE salida[d]]

EnAdmitir(c, op) == c \notin en_atender /\ Llega(c, op)

-----------------------------------------------------------------------------
(* admitir *)

\* (Mutant of the next one: the check the wrong way round.)
VerSwapAlReves(c) ==
    /\ EnAdmitir(c, NEW_SWAP)
    /\ Tomar(c, 1)
    /\ Seguir(c, IF recurso_swap # Libre THEN "pone_swap" ELSE "rechaza_swap")
    /\ UNCHANGED varsMemoria

\* case NEW_SWAP: the pointer is looked at, ...
VerSwap(c) ==
    /\ EnAdmitir(c, NEW_SWAP)
    /\ Tomar(c, 1)
    /\ Seguir(c, IF recurso_swap = Libre THEN "pone_swap" ELSE "rechaza_swap")
    /\ UNCHANGED varsMemoria

\* ... and set in a step of its own, ...
PonerSwap(c) ==
    /\ hilo[c] = "pone_swap"
    /\ recurso_swap' = c
    /\ Seguir(c, "fin")
    /\ UNCHANGED <<cliente, entrada, conexion, socket, leyendo, en_atender,
                   socket_ks, recursos_cpu, recursos_memory_stick, ultimo,
                   codigos, instrucciones_proceso, pide, salida>>

\* ... or the connection is refused.
RechazarSwap(c) ==
    /\ hilo[c] = "rechaza_swap"
    /\ Close(c)
    /\ Seguir(c, "fin")
    /\ UNCHANGED <<cliente, entrada, socket, leyendo, varsMemoria>>

\* case NEW_KERNEL_SCHEDULER: the script is read into codigos.
AtenderPlanificador(c) ==
    /\ EnAdmitir(c, NEW_KERNEL_SCHEDULER)
    /\ Tomar(c, 2)
    /\ socket_ks' = c
    /\ codigos' = Append(codigos, Codigo)
    /\ Responder(c, <<RESPUESTA_IMAGEN_PROCESO, "OK">>)
    /\ Seguir(c, "fin")
    /\ UNCHANGED <<en_atender, recurso_swap, recursos_cpu,
                   recursos_memory_stick, ultimo, instrucciones_proceso, pide>>

\* list_add walks to the last element, ...
Ultimo(lista) == IF lista = <<>> THEN Libre ELSE lista[Len(lista)]

\* ... and links the new one after it, or as the head.  What another thread has
\* linked in between is lost, and so is the new one when that was its element.
Enlazar(lista, u, id) ==
    IF u = Libre THEN <<id>>
    ELSE IF \A n \in DOMAIN lista : lista[n] # u THEN lista
    ELSE Append(SubSeq(lista, 1, CHOOSE n \in DOMAIN lista : lista[n] = u), id)

\* case NEW_MEMORY_STICK
AtenderStick(c) ==
    /\ EnAdmitir(c, NEW_MEMORY_STICK)
    /\ Tomar(c, 2)
    /\ ultimo' = [ultimo EXCEPT ![c] = Ultimo(recursos_memory_stick)]
    /\ Seguir(c, "agrega_stick")
    /\ UNCHANGED <<en_atender, recurso_swap, socket_ks, recursos_cpu,
                   recursos_memory_stick, codigos, instrucciones_proceso, pide,
                   salida>>

AgregarStick(c) ==
    /\ hilo[c] = "agrega_stick"
    /\ recursos_memory_stick' =
           Enlazar(recursos_memory_stick, ultimo[c], leyendo[c])
    /\ Seguir(c, "fin")
    /\ UNCHANGED <<cliente, entrada, conexion, socket, leyendo, en_atender,
                   recurso_swap, socket_ks, recursos_cpu, ultimo, codigos,
                   instrucciones_proceso, pide, salida>>

\* case NEW_CPU: the same, and then atender_cpu.
AtenderNewCpu(c) ==
    /\ EnAdmitir(c, NEW_CPU)
    /\ Tomar(c, 2)
    /\ ultimo' = [ultimo EXCEPT ![c] = Ultimo(recursos_cpu)]
    /\ Seguir(c, "agrega_cpu")
    /\ UNCHANGED <<en_atender, recurso_swap, socket_ks, recursos_cpu,
                   recursos_memory_stick, codigos, instrucciones_proceso, pide,
                   salida>>

AgregarCpu(c) ==
    /\ hilo[c] = "agrega_cpu"
    /\ recursos_cpu' = Enlazar(recursos_cpu, ultimo[c], leyendo[c])
    /\ en_atender' = en_atender \cup {c}
    /\ Seguir(c, "llama")
    /\ UNCHANGED <<cliente, entrada, conexion, socket, leyendo, recurso_swap,
                   socket_ks, recursos_memory_stick, ultimo, codigos,
                   instrucciones_proceso, pide, salida>>

\* The operation of another kind of client, or none: the thread ends, and the
\* descriptor stays as it is.
Desconocida(c) ==
    /\ c \notin en_atender
    /\ \/ \E op \in {MOV_IN, MOV_OUT, CARGA} : Llega(c, op) /\ Tomar(c, 1)
       \/ /\ hilo[c] = "desconocida"
          /\ UNCHANGED <<cliente, entrada, conexion, socket, leyendo>>
    /\ Seguir(c, "fin")
    /\ UNCHANGED varsMemoria

-----------------------------------------------------------------------------
(* atender_cpu *)

\* MOV_IN with a pid and a pc: the instruction of that pc, or "EMPTY".
AtenderMovIn(c) ==
    /\ c \in en_atender
    /\ Llega(c, MOV_IN)
    /\ Tomar(c, 2)
    /\ LET pc == pide[leyendo[c]] IN
       Responder(c, <<RES_OK, IF pc \in 0..(Len(instrucciones_proceso) - 1)
                              THEN instrucciones_proceso[pc + 1] ELSE "EMPTY">>)
    /\ Seguir(c, "llama")
    /\ UNCHANGED <<en_atender, recurso_swap, socket_ks, recursos_cpu,
                   recursos_memory_stick, ultimo, codigos,
                   instrucciones_proceso, pide>>

\* MOV_OUT stores nothing.
AtenderMovOut(c) ==
    /\ c \in en_atender
    /\ Llega(c, MOV_OUT)
    /\ Tomar(c, 2)
    /\ Responder(c, <<RES_OK, "OK">>)
    /\ Seguir(c, "llama")
    /\ UNCHANGED <<en_atender, recurso_swap, socket_ks, recursos_cpu,
                   recursos_memory_stick, ultimo, codigos,
                   instrucciones_proceso, pide>>

\* default: the descriptor is closed, for the second time when recibir_operacion
\* has already found that the CPU has gone.
DejarCpu(c) ==
    /\ c \in en_atender
    /\ \/ \E op \in {NEW_CPU, NEW_SWAP, NEW_MEMORY_STICK, NEW_KERNEL_SCHEDULER,
                     CARGA} :
             Llega(c, op) /\ entrada' = [entrada EXCEPT ![leyendo[c]] = Tail(@)]
       \/ hilo[c] = "desconocida" /\ entrada' = entrada
    /\ Close(c)
    /\ Seguir(c, "fin")
    /\ UNCHANGED <<cliente, socket, leyendo, varsMemoria>>

Atencion(c) ==
    \/ (LlamarRecv(c) \/ LlegaFin(c) \/ CerrarEnRecibir(c))
          /\ UNCHANGED varsMemoria
    \/ VerSwap(c) \/ PonerSwap(c) \/ RechazarSwap(c)
    \/ AtenderPlanificador(c)
    \/ AtenderStick(c) \/ AgregarStick(c)
    \/ AtenderNewCpu(c) \/ AgregarCpu(c)
    \/ Desconocida(c)
    \/ AtenderMovIn(c) \/ AtenderMovOut(c) \/ DejarCpu(c)

Admision(c) == Aceptar(c) /\ UNCHANGED varsMemoria

-----------------------------------------------------------------------------
(* The clients, as the other programs drive the connection. *)

Saludo(c) ==
    << CASE c \in Cpus -> NEW_CPU
         [] c \in Sticks -> NEW_MEMORY_STICK
         [] c \in Swaps -> NEW_SWAP
         [] c \in Planificadores -> NEW_KERNEL_SCHEDULER, CARGA >>

Entra(c) == Conectar(c, Saludo(c)) /\ UNCHANGED varsMemoria
SeVa(c)  == Desconectar(c) /\ UNCHANGED varsMemoria

\* A CPU asks for the instruction of a pc, or writes, and waits for the answer.
Pide(c) ==
    /\ cliente[c] = "dentro"
    /\ pide[c] = NADA
    /\ \E pc \in 0..Len(Codigo), op \in {MOV_IN, MOV_OUT} :
          /\ pide' = [pide EXCEPT ![c] = pc]
          /\ entrada' = [entrada EXCEPT ![c] = @ \o <<op, CARGA>>]
    /\ UNCHANGED <<cliente, conexion, hilo, socket, leyendo, en_atender,
                   recurso_swap, socket_ks, recursos_cpu,
                   recursos_memory_stick, ultimo, codigos,
                   instrucciones_proceso, salida>>

Recibe(c) ==
    /\ cliente[c] = "dentro"
    /\ salida[c] # <<>>
    /\ salida' = [salida EXCEPT ![c] = Tail(@)]
    /\ pide' = [pide EXCEPT ![c] = NADA]
    /\ UNCHANGED <<varsServidor, en_atender, recurso_swap, socket_ks,
                   recursos_cpu, recursos_memory_stick, ultimo, codigos,
                   instrucciones_proceso>>

Entorno ==
    \/ \E c \in Clientes : Entra(c) \/ SeVa(c)
    \/ \E c \in Cpus : Pide(c) \/ Recibe(c)

Next ==
    \/ \E c \in Clientes : Admision(c) \/ Atencion(c)
    \/ Entorno

Spec == Init /\ [][Next]_vars

\* The threads run; a CPU reads the answer it is waiting for.
Equidad ==
    /\ \A c \in Clientes : WF_vars(Admision(c)) /\ WF_vars(Atencion(c))
    /\ \A c \in Cpus : WF_vars(Recibe(c))

EspecJusta == Spec /\ Equidad
=============================================================================
