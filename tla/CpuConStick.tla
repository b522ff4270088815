----------------------------- MODULE CpuConStick -----------------------------
(***************************************************************************)
(* A CPU and the memory stick it is connected to, as its only one          *)
(* (cpu/src/main.c:66-77), with other CPUs connected to the same stick.    *)
(* The answers of the stick come from MemoryStick; those of Kernel Memory, *)
(* for the addresses out of the stick, are the ones of Cpu.                *)
(***************************************************************************)
EXTENDS MemoryStick

CONSTANTS cpu,          \* the client of the stick that is the CPU
          Otros,        \* what the other CPUs ask for
          TAM_MAX_SEGMENTO, Programas, Sticks, Texto

VARIABLES programa, punto, pcb, instruccion, acceso, al_cpu, devuelto

varsCpu == <<programa, punto, pcb, instruccion, acceso, al_cpu, devuelto>>
todo    == <<vars, varsCpu>>

\* What the CPU sees of the stick: bytes at the offsets it believes in, and the
\* end of the connection once nobody has it and no answer is left.
Memoria == [m \in {1} \X (0..(Sticks[1].tamano - 1)) |->
                IF m[2] \in DOMAIN celdas THEN celdas[m[2]] ELSE 0]

Cortada ==
    /\ hilo[cpu] # "sin"
    /\ salida[cpu] = 0
    /\ ~vivo \/ \A f \in Fds : conexion[f] # cpu
    /\ ~vivo \/ \A c \in Clientes : hilo[c] = "recv" => leyendo[c] # cpu

Caidos == IF Cortada THEN {1} ELSE {}

C == INSTANCE Cpu WITH memoria <- Memoria, caidos <- Caidos, Inseguros <- {}

\* A register has one byte or four.
Pedidos == [op : {MOV_IN, MOV_OUT}, desde : Nat, cuantos : 1..4]

ASSUME SupuestosCpuConStick ==
    /\ cpu \in Clientes
    /\ Otros \subseteq Pedidos
    /\ TAM_MAX_SEGMENTO \in Nat \ {0}
    /\ Programas \subseteq Seq(C!Lineas)
    /\ Sticks \in Seq([base : {0}, tamano : 0..(C!MOD32 - 1)])
    /\ Len(Sticks) = 1
    /\ Texto \in [0..3 -> C!Bytes]

InitTodo == Init /\ C!Init
EnStick == acceso.a = 1

\* The thread of the CPU starts when it has connected to the stick.
PasoCpu == cliente[cpu] = "dentro" /\ UNCHANGED vars /\ C!Interno
LlegaDeKm ==
    /\ cliente[cpu] = "dentro"
    /\ UNCHANGED vars
    /\ C!DeKm

\* A fragment is asked for, to the stick or to Kernel Memory.  On a connection
\* that has been cut the request goes nowhere, and AccesoFalla of Cpu says what
\* may come of it.
PedirAlStick ==
    /\ punto = "acceso"
    /\ cliente[cpu] = "dentro"
    /\ acceso.hecho < acceso.tam
    /\ C!StickDe(C!dir_actual) = 1
    /\ Enviar(cpu, [op |-> IF instruccion.cmd = "MOV_IN" THEN MOV_IN ELSE MOV_OUT,
                    desde |-> C!dir_actual,
                    cuantos |-> C!Cabe(1, C!dir_actual)])
    /\ C!Pedir

PedirAKm ==
    /\ punto = "acceso"
    /\ cliente[cpu] = "dentro"
    /\ acceso.hecho < acceso.tam
    /\ C!StickDe(C!dir_actual) = C!KM
    /\ UNCHANGED vars
    /\ C!Pedir

\* The answer of the stick to a write.  A read would take its bytes from the
\* answer; none comes with any.
LlegaDelStick ==
    /\ punto = "espera_stick"
    /\ EnStick
    /\ Recibir(cpu)
    /\ C!SeguirAcceso

\* The scheduler sends one process.  (Bound: one packet, and no interrupt.)
Despachar ==
    /\ cliente[cpu] = "dentro"
    /\ pcb = C!PcbInicial /\ punto = "recibe"
    /\ UNCHANGED vars
    /\ C!Enviar
    /\ al_cpu' = <<EXECUTE_PROCESS>>

HiloCpu == PasoCpu \/ LlegaDeKm \/ PedirAlStick \/ PedirAKm \/ LlegaDelStick

StickServidor ==
    /\ \E c \in Clientes : Admision(c) \/ Atencion(c)
    /\ UNCHANGED varsCpu

Ambiente ==
    /\ \/ \E c \in Clientes : Entra(c) \/ SeVa(c)
       \/ \E c \in Clientes \ {cpu} :
             Recibir(c) \/ (pide[c] = SinPedido /\ \E p \in Otros : Enviar(c, p))
    /\ UNCHANGED varsCpu

Next == HiloCpu \/ Despachar \/ StickServidor \/ Ambiente

Spec == InitTodo /\ [][Next]_todo

\* The threads of the two programs run.  Nothing is assumed of the scheduler or
\* of the other CPUs.
EspecJusta ==
    /\ Spec
    /\ WF_todo(HiloCpu)
    /\ \A c \in Clientes : WF_todo((Admision(c) \/ Atencion(c)) /\ UNCHANGED varsCpu)
=============================================================================
