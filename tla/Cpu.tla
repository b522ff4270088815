--------------------------------- MODULE Cpu ---------------------------------
(***************************************************************************)
(* cpu/src/thread_ejecucion.c: the only thread of the CPU after main.  It  *)
(* waits for a process, then fetches, executes and looks for an interrupt  *)
(* until it leaves the cycle.  A register is read or written in memory one *)
(* fragment at a time, each one a request to the memory stick that has the *)
(* next address, or to Kernel Memory when none has it.                     *)
(*                                                                         *)
(* The answers here are Kernel Memory's.  Those of a stick are in          *)
(* CpuConMemoria, as the code of the CPU expects them, and in CpuConStick, *)
(* as the stick gives them.  The servers of Inseguros may also close.      *)
(***************************************************************************)
EXTENDS Instrucciones, Protocolo

CONSTANTS Programas,    \* what Kernel Memory may have for the process
          Sticks,       \* lista_sticks_cpu: base_fisica and tamano of each one
          Texto,        \* the bytes of Kernel Memory's answer to a MOV_IN
          Inseguros     \* servers that may close: indices of Sticks, 0 for memory

ASSUME SupuestosCpu ==
    /\ Programas \subseteq Seq(Lineas)
    /\ Sticks \in Seq([base : 0..(MOD32 - 1), tamano : 0..(MOD32 - 1)])
    /\ Texto \in [0..3 -> Bytes]
    /\ Inseguros \subseteq 0..Len(Sticks)

FIN == 50     \* recv() returns 0: the scheduler has gone

VARIABLES
    programa,     \* the instructions of the process, in Kernel Memory
    memoria,      \* what each byte of each stick holds
    punto,        \* where the thread is
    pcb,          \* the process being executed
    instruccion,  \* the one that has been fetched
    acceso,       \* the locals of leer_de_ and escribir_en_memory_sticks
    al_cpu,       \* operations of the packets the scheduler has sent
    devuelto,     \* the last packet sent to the scheduler
    caidos        \* servers that have closed

vars == <<programa, memoria, punto, pcb, instruccion, acceso, al_cpu, devuelto,
          caidos>>

KM       == 0
Celdas   == UNION {{i} \X (0..(Sticks[i].tamano - 1)) : i \in DOMAIN Sticks}
EMPTY    == [cmd |-> "OTRA", reg |-> Ninguno, valor |-> 0]
SinAcceso == [dir |-> 0, tam |-> 0, hecho |-> 0,
              a |-> KM, desde |-> 0, cuantos |-> 0]

Init ==
    /\ programa \in Programas
    /\ memoria = [m \in Celdas |-> 0]
    /\ punto = "recibe"
    /\ pcb = PcbInicial
    /\ instruccion = EMPTY
    /\ acceso = SinAcceso
    /\ al_cpu = <<>>
    /\ devuelto = [op |-> FIN, pcb |-> PcbInicial]
    /\ caidos = {}

Ir(p) == punto' = p
ParaKernel(op) == devuelto' = [op |-> op, pcb |-> pcb]

-----------------------------------------------------------------------------
(* thread_ejecucion *)

Recibir ==
    /\ punto = "recibe"
    /\ al_cpu # <<>>
    /\ al_cpu' = Tail(al_cpu)
    /\ IF Head(al_cpu) = EXECUTE_PROCESS
       THEN pcb' = PcbInicial /\ Ir("fetch")
       ELSE pcb' = pcb /\ Ir("fin")
    /\ UNCHANGED <<programa, memoria, instruccion, acceso, devuelto, caidos>>

-----------------------------------------------------------------------------
(* FETCH: the CPU sends its pid and program counter to Kernel Memory, which *)
(* answers with the instruction or with "EMPTY".                            *)

Fetch ==
    /\ punto = "fetch"
    /\ Ir("espera_instruccion")
    /\ UNCHANGED <<programa, memoria, pcb, instruccion, acceso, al_cpu,
                   devuelto, caidos>>

LlegaInstruccion ==
    /\ punto = "espera_instruccion"
    /\ KM \notin caidos
    /\ instruccion' = IF EnPrograma(pcb, Len(programa))
                      THEN programa[pcb.pc + 1] ELSE EMPTY
    /\ Ir("ejecuta")
    /\ UNCHANGED <<programa, memoria, pcb, acceso, al_cpu, devuelto, caidos>>

\* Anything but RES_OK leaves the cycle, and the scheduler hears nothing.
FetchFalla ==
    /\ punto = "espera_instruccion"
    /\ KM \in caidos
    /\ Ir("recibe")
    /\ UNCHANGED <<programa, memoria, pcb, instruccion, acceso, al_cpu,
                   devuelto, caidos>>

-----------------------------------------------------------------------------
(* EXECUTE *)

Decodifica(cmds) == punto = "ejecuta" /\ instruccion.cmd \in cmds

Calcular ==
    /\ Decodifica({"SET", "SUM", "SUB", "JNZ"})
    /\ pcb' = LET i == instruccion IN
              CASE i.cmd = "SET" -> ejecutar_set(pcb, i.reg, i.valor)
                [] i.cmd = "SUM" -> sumar(pcb)
                [] i.cmd = "SUB" -> restar(pcb)
                [] i.cmd = "JNZ" -> ejecutar_jnz(pcb, i.reg, i.valor)
    /\ Ir("chequea")
    /\ UNCHANGED <<programa, memoria, instruccion, acceso, al_cpu, devuelto,
                   caidos>>

DirLogica == pcb.reg[IF instruccion.cmd = "MOV_IN" THEN "SI" ELSE "DI"]

\* ejecutar_mov_in_real and ejecutar_mov_out_real: no such register, ...
MovSinRegistro ==
    /\ Decodifica({"MOV_IN", "MOV_OUT"})
    /\ instruccion.reg \notin Registros
    /\ pcb' = Siguiente(pcb)
    /\ Ir("chequea")
    /\ UNCHANGED <<programa, memoria, instruccion, acceso, al_cpu, devuelto,
                   caidos>>

\* ... a segmentation fault, which is reported without moving on, ...
MovSegFault ==
    /\ Decodifica({"MOV_IN", "MOV_OUT"})
    /\ instruccion.reg \in Registros
    /\ SegFault(DirLogica, Tamano(instruccion.reg))
    /\ ParaKernel(SEG_FAULT)
    /\ Ir("chequea")
    /\ UNCHANGED <<programa, memoria, pcb, instruccion, acceso, al_cpu, caidos>>

\* ... or the access, which starts the loop over the fragments.
Mov ==
    /\ Decodifica({"MOV_IN", "MOV_OUT"})
    /\ instruccion.reg \in Registros
    /\ ~SegFault(DirLogica, Tamano(instruccion.reg))
    /\ acceso' = [SinAcceso EXCEPT !.dir = DireccionFisica(DirLogica),
                                   !.tam = Tamano(instruccion.reg)]
    /\ Ir("acceso")
    /\ UNCHANGED <<programa, memoria, pcb, instruccion, al_cpu, devuelto,
                   caidos>>

\* EXIT hands the PCB back as the operation it came with.
Exit ==
    /\ Decodifica({"EXIT"})
    /\ ParaKernel(EXECUTE_PROCESS)
    /\ Ir("recibe")
    /\ UNCHANGED <<programa, memoria, pcb, instruccion, acceso, al_cpu, caidos>>

\* default: the cycle ends, and the scheduler hears nothing.
Invalida ==
    /\ Decodifica({"OTRA"})
    /\ Ir("recibe")
    /\ UNCHANGED <<programa, memoria, pcb, instruccion, acceso, al_cpu,
                   devuelto, caidos>>

-----------------------------------------------------------------------------
(* leer_de_memory_sticks and escribir_en_memory_sticks. *)

\* (Mutant of the next one: every fragment is asked for at the first address.)
dir_sin_avanzar == acceso.dir % MOD32
dir_actual      == (acceso.dir + acceso.hecho) % MOD32
bytes_restantes == acceso.tam - acceso.hecho

\* obtener_stick_por_direccion: the first one in the list that has the address.
LoTiene(i, dir) ==
    /\ dir >= Sticks[i].base
    /\ dir < (Sticks[i].base + Sticks[i].tamano) % MOD32

StickDe(dir) ==
    IF \E i \in DOMAIN Sticks : LoTiene(i, dir)
    THEN CHOOSE i \in DOMAIN Sticks :
             LoTiene(i, dir) /\ \A j \in 1..(i - 1) : ~LoTiene(j, dir)
    ELSE KM

Minimo(a, b) == IF a < b THEN a ELSE b

\* What fits in stick i from an offset of it.  (Mutant: all that is left.)
CabeTodo(i, desde) == bytes_restantes
Cabe(i, desde) == Minimo(bytes_restantes, Sticks[i].tamano - desde)

Pedir ==
    /\ punto = "acceso"
    /\ acceso.hecho < acceso.tam
    /\ LET i     == StickDe(dir_actual)
           desde == IF i = KM THEN dir_actual ELSE dir_actual - Sticks[i].base
       IN  acceso' = [acceso EXCEPT !.a = i, !.desde = desde,
                          !.cuantos = IF i = KM THEN bytes_restantes
                                                ELSE Cabe(i, desde)]
    /\ Ir("espera_stick")
    /\ UNCHANGED <<programa, memoria, pcb, instruccion, al_cpu, devuelto,
                   caidos>>

\* memcpy: the bytes b of the answer go into the register after those it has.
Copiar(v, tam, b) ==
    Valor([k \in 0..(tam - 1) |->
              IF k \in acceso.hecho..(acceso.hecho + acceso.cuantos - 1)
              THEN b[k - acceso.hecho] ELSE Byte(v, k)], tam)

\* A request to Kernel Memory is the last one of the loop.  (Mutant: the bytes
\* are not counted.)
SinAvanzar == acceso' = acceso
Avanzar == acceso' = [acceso EXCEPT !.hecho = @ + acceso.cuantos]

\* A write has been answered: whatever the answer is, the loop goes on.
SeguirAcceso ==
    /\ Avanzar
    /\ Ir("acceso")
    /\ UNCHANGED <<programa, pcb, instruccion, al_cpu, devuelto>>

\* A read has been answered with the bytes b.
SeguirLectura(b) ==
    /\ pcb' = [pcb EXCEPT !.reg[instruccion.reg] = Copiar(@, acceso.tam, b)]
    /\ Avanzar
    /\ Ir("acceso")
    /\ UNCHANGED <<programa, memoria, instruccion, al_cpu, devuelto>>

Espera(cmd) ==
    /\ punto = "espera_stick"
    /\ acceso.a \notin caidos
    /\ instruccion.cmd = cmd

\* Kernel Memory answers a MOV_IN with a text of its own, and writes nothing
\* for a MOV_OUT.
LecturaDeKm ==
    /\ Espera("MOV_IN")
    /\ acceso.a = KM
    /\ SeguirLectura(Texto)
    /\ UNCHANGED caidos

EscrituraDeKm ==
    /\ Espera("MOV_OUT")
    /\ acceso.a = KM
    /\ SeguirAcceso
    /\ UNCHANGED <<memoria, caidos>>

\* With the connection closed, recibir_carga_util takes its length from an
\* uninitialized variable: the CPU dies, or the loop goes on as if the fragment
\* had been served.
AccesoFalla ==
    /\ punto = "espera_stick"
    /\ acceso.a \in caidos
    /\ \/ Avanzar /\ Ir("acceso")
       \/ acceso' = acceso /\ Ir("muerto")
    /\ UNCHANGED <<programa, memoria, pcb, instruccion, al_cpu, devuelto,
                   caidos>>

FinAcceso ==
    /\ punto = "acceso"
    /\ acceso.hecho >= acceso.tam
    /\ acceso' = SinAcceso
    /\ pcb' = Siguiente(pcb)
    /\ Ir("chequea")
    /\ UNCHANGED <<programa, memoria, instruccion, al_cpu, devuelto,
                   caidos>>

-----------------------------------------------------------------------------
(* CHECK INTERRUPT: MSG_PEEK | MSG_DONTWAIT.  Its operation is read and goes *)
(* back with the PCB; thread_ejecucion then takes the length of the packet,  *)
(* still unread, as the next operation, which is no EXECUTE_PROCESS and ends *)
(* the thread.                                                               *)

HayDatos == al_cpu # <<>> /\ Head(al_cpu) # FIN

Interrumpir ==
    /\ punto = "chequea"
    /\ HayDatos
    /\ ParaKernel(Head(al_cpu))
    /\ al_cpu' = Tail(al_cpu)
    /\ Ir("fin")
    /\ UNCHANGED <<programa, memoria, pcb, instruccion, acceso, caidos>>

Continuar ==
    /\ punto = "chequea"
    /\ ~HayDatos
    /\ Ir("fetch")
    /\ UNCHANGED <<programa, memoria, pcb, instruccion, acceso, al_cpu,
                   devuelto, caidos>>

\* The steps of the thread that need nothing from a server.
Interno ==
    \/ Recibir \/ Fetch \/ FetchFalla \/ Calcular
    \/ MovSinRegistro \/ MovSegFault \/ Mov \/ Exit \/ Invalida
    \/ AccesoFalla \/ FinAcceso \/ Interrumpir \/ Continuar

Hilo == Interno \/ Pedir

DeKm == LlegaInstruccion \/ LecturaDeKm \/ EscrituraDeKm

-----------------------------------------------------------------------------
\* The scheduler sends a process, or something else, or goes away.  (Bound: one
\* packet at a time.)
Enviar ==
    /\ al_cpu = <<>>
    /\ \E op \in {EXECUTE_PROCESS, IO_SLEEP, FIN} : al_cpu' = <<op>>
    /\ UNCHANGED <<programa, memoria, punto, pcb, instruccion, acceso, devuelto,
                   caidos>>

\* A server closes its connection.
Caer ==
    /\ \E s \in Inseguros \ caidos : caidos' = caidos \cup {s}
    /\ UNCHANGED <<programa, memoria, punto, pcb, instruccion, acceso, al_cpu,
                   devuelto>>
=============================================================================
