---------------------------- MODULE PropiedadesCpu ----------------------------
(***************************************************************************)
(* What makes the CPU correct: an access to memory asks for exactly the    *)
(* bytes of the register, whatever sticks they are in, and the cycle as a  *)
(* whole executes whole instructions.                                      *)
(***************************************************************************)
EXTENDS CpuConMemoria

Puntos == {"recibe", "fetch", "espera_instruccion", "ejecuta", "acceso",
           "espera_stick", "chequea", "fin", "muerto"}
Pcbs   == [pc : 0..(MOD32 - 1), reg : [Registros -> 0..(MOD32 - 1)]]
EnAcceso == punto \in {"acceso", "espera_stick"}

\* The state of the CPU has its type: a register of one byte never holds more,
\* and the program counter wraps like the registers (thread_ejecucion.c:175-279).
TypeOK ==
    /\ memoria \in [Celdas -> Bytes]
    /\ punto \in Puntos
    /\ pcb \in Pcbs
    /\ \A r \in Registros8 : pcb.reg[r] < MOD8
    /\ acceso.hecho \in 0..4 /\ acceso.tam \in {0, 1, 4}
    /\ devuelto.pcb \in Pcbs
    /\ caidos \subseteq DOMAIN Sticks \cup {KM}

\* A request to a stick stays inside it and is of the next bytes of the access,
\* which never asks for more than the register has (thread_ejecucion.c:64-170).
PedidoDentro ==
    punto = "espera_stick" =>
        /\ acceso.cuantos > 0
        /\ acceso.hecho + acceso.cuantos <= acceso.tam
        /\ acceso.a # KM =>
              /\ acceso.desde + acceso.cuantos <= Sticks[acceso.a].tamano
              /\ Sticks[acceso.a].base + acceso.desde = dir_actual

\* An access from an address that is not negative as an int begins and ends in
\* one segment, whatever its fragments (thread_ejecucion.c:195-216, 226-247).
Segmento(dir) == dir \div TAM_MAX_SEGMENTO
EnSuSegmento ==
    EnAcceso /\ Entero(acceso.dir) >= 0 =>
        Segmento(acceso.dir) = Segmento(acceso.dir + acceso.tam - 1)

\* The loop over the fragments ends, even when the servers close: the only thing
\* an access may wait for without end is the answer of a stick to a read
\* (thread_ejecucion.c:67, 109, 125).
EsperaLectura == Espera("MOV_IN") /\ acceso.a # KM
AccesoTermina == EnAcceso ~> ~EnAcceso \/ EsperaLectura

-----------------------------------------------------------------------------
(* What these rest on. *)

Locales == [dir : Nat, tam : {0, 1, 4}, hecho : 0..4,
            a : 0..Len(Sticks), desde : Nat, cuantos : Nat]

InvTipos ==
    /\ TypeOK
    /\ programa \in Seq(Lineas)
    /\ instruccion \in Lineas
    /\ acceso \in Locales

\* What is executed is the line of the program counter.
InvInstruccion ==
    punto = "ejecuta" \/ EnAcceso =>
        instruccion = IF EnPrograma(pcb, Len(programa))
                      THEN programa[pcb.pc + 1] ELSE EMPTY

\* An access is of the register of its instruction, at the address of SI or DI,
\* and goes on as long as some stick has had what it asked for.
InvAcceso ==
    EnAcceso =>
        /\ instruccion.cmd \in {"MOV_IN", "MOV_OUT"}
        /\ instruccion.reg \in Registros
        /\ acceso.tam = Tamano(instruccion.reg)
        /\ acceso.dir < MOD32
        /\ acceso.hecho <= acceso.tam
        /\ \A k \in 0..(acceso.hecho - 1) :
              acceso.hecho < acceso.tam => StickDe((acceso.dir + k) % MOD32) # KM

\* A request is to the stick that has the next address.
InvPedido ==
    punto = "espera_stick" =>
        /\ acceso.hecho < acceso.tam
        /\ acceso.a = StickDe(dir_actual)
        /\ acceso.a = KM => acceso.cuantos = bytes_restantes

InvCpu == InvTipos /\ InvInstruccion /\ InvAcceso /\ PedidoDentro /\ InvPedido

-----------------------------------------------------------------------------
(* The CPU implements Maquina.  While a register is on its way the abstract *)
(* machine has already executed the instruction: it reads or writes it all  *)
(* at once when the access starts.                                          *)

Direcciones == {d \in 0..(MOD32 - 1) : StickDe(d) # KM}
Celda(d)    == <<StickDe(d), d - Sticks[StickDe(d)].base>>
MemoriaFisica == [d \in Direcciones |-> memoria[Celda(d)]]

\* Byte k of the register once the rest of the access is served.
Antes(k) == {j \in 0..k : StickDe((acceso.dir + j) % MOD32) = KM}
ByteFinal(k) ==
    IF k < acceso.hecho THEN Byte(pcb.reg[instruccion.reg], k)
    ELSE IF Antes(k) = {} THEN memoria[Celda((acceso.dir + k) % MOD32)]
    ELSE Texto[k - (CHOOSE j \in Antes(k) : \A i \in Antes(k) : j <= i)]

PcbFinal ==
    IF ~EnAcceso THEN pcb
    ELSE IF instruccion.cmd = "MOV_OUT" THEN Siguiente(pcb)
    ELSE Siguiente([pcb EXCEPT !.reg[instruccion.reg] =
             Valor([k \in 0..(acceso.tam - 1) |-> ByteFinal(k)], acceso.tam)])

\* The memory once the rest of the access is served.
PorEscribir == {k \in acceso.hecho..(acceso.tam - 1) : Antes(k) = {}}
MemoriaFinal ==
    IF ~(EnAcceso /\ instruccion.cmd = "MOV_OUT") THEN MemoriaFisica
    ELSE [d \in Direcciones |->
             IF \E k \in PorEscribir : (acceso.dir + k) % MOD32 = d
             THEN Byte(pcb.reg[instruccion.reg],
                       CHOOSE k \in PorEscribir : (acceso.dir + k) % MOD32 = d)
             ELSE MemoriaFisica[d]]

Abstracta == INSTANCE Maquina WITH
    fase <- IF punto \in {"recibe", "fin"} THEN "libre" ELSE "corre",
    pcb <- PcbFinal, memoria <- MemoriaFinal, devuelto <- devuelto.pcb

\* From an address that a stick has to its end, all are of that stick: no other
\* one that is before it in the list begins in the middle.  The list of the code
\* has one stick (cpu/src/main.c:71-77).
TramosEnteros ==
    \A d \in Direcciones :
        \A e \in d..(Sticks[StickDe(d)].base + Sticks[StickDe(d)].tamano - 1) :
            StickDe(e) = StickDe(d)

\* As long as no server has closed, every step of the CPU is one whole
\* instruction of Maquina, the hand-over of the process between two of them, or
\* nothing (thread_ejecucion.c:64-170, 194-414).
ImplementaMaquina ==
    /\ Abstracta!Init
    /\ [][caidos' = {} => UNCHANGED Abstracta!vars \/ Abstracta!Next]_vars
=============================================================================
