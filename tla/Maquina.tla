------------------------------- MODULE Maquina -------------------------------
(***************************************************************************)
(* What a CPU promises to the scheduler: it executes the program of the    *)
(* process one whole instruction at a time, as if a register were read or  *)
(* written in memory at once, whichever memory sticks it is spread over,   *)
(* and it hands back the process only between two instructions.            *)
(***************************************************************************)
EXTENDS Instrucciones, Sequences

CONSTANTS Direcciones,  \* the physical addresses that some stick has
          Texto         \* the bytes that Kernel Memory answers for another one

VARIABLES programa, fase, pcb, memoria, devuelto

vars == <<programa, fase, pcb, memoria, devuelto>>

\* Byte k of what is read at a physical address: from the first address that no
\* stick has, all that is left comes from Kernel Memory.
Faltan(dir, k) == {j \in 0..k : (dir + j) % MOD32 \notin Direcciones}

Leido(dir, k) ==
    LET faltan == Faltan(dir, k) IN
    IF faltan = {} THEN memoria[(dir + k) % MOD32]
    ELSE Texto[k - (CHOOSE j \in faltan : \A i \in faltan : j <= i)]

\* A register read at once, and the memory once a register is written.
Cargado(dir, tam) == Valor([k \in 0..(tam - 1) |-> Leido(dir, k)], tam)

Guardado(dir, tam, v) ==
    [d \in Direcciones |->
        IF \E k \in 0..(tam - 1) : (dir + k) % MOD32 = d /\ Faltan(dir, k) = {}
        THEN Byte(v, CHOOSE k \in 0..(tam - 1) : (dir + k) % MOD32 = d)
        ELSE memoria[d]]

-----------------------------------------------------------------------------
Recibe ==
    /\ fase = "libre"
    /\ fase' = "corre"
    /\ pcb' = PcbInicial
    /\ UNCHANGED <<programa, memoria, devuelto>>

Actual == programa[pcb.pc + 1]
Es(cmd) == fase = "corre" /\ EnPrograma(pcb, Len(programa)) /\ Actual.cmd = cmd

\* What an instruction leaves in the PCB.
Calcula ==
    /\ \/ Es("SET") /\ pcb' = ejecutar_set(pcb, Actual.reg, Actual.valor)
       \/ Es("SUM") /\ pcb' = sumar(pcb)
       \/ Es("SUB") /\ pcb' = restar(pcb)
       \/ Es("JNZ") /\ pcb' = ejecutar_jnz(pcb, Actual.reg, Actual.valor)
    /\ UNCHANGED <<programa, fase, memoria, devuelto>>

Accede(dir) ==
    /\ Actual.reg \in Registros
    /\ ~SegFault(dir, Tamano(Actual.reg))

MovIn ==
    /\ Es("MOV_IN")
    /\ Accede(pcb.reg["SI"])
    /\ LET r == Actual.reg IN
       pcb' = Siguiente([pcb EXCEPT !.reg[r] =
                  Cargado(DireccionFisica(pcb.reg["SI"]), Tamano(r))])
    /\ UNCHANGED <<programa, fase, memoria, devuelto>>

MovOut ==
    /\ Es("MOV_OUT")
    /\ Accede(pcb.reg["DI"])
    /\ LET r   == Actual.reg
           dir == DireccionFisica(pcb.reg["DI"])
       IN  memoria' = Guardado(dir, Tamano(r), pcb.reg[r])
    /\ pcb' = Siguiente(pcb)
    /\ UNCHANGED <<programa, fase, devuelto>>

\* An access with a name that is no register does nothing; one across the end
\* of its segment is reported and leaves the process where it is.
Mov == Es("MOV_IN") \/ Es("MOV_OUT")

MovNada ==
    /\ Mov /\ Actual.reg \notin Registros
    /\ pcb' = Siguiente(pcb)
    /\ UNCHANGED <<programa, fase, memoria, devuelto>>

Falla ==
    /\ Mov /\ Actual.reg \in Registros
    /\ SegFault(pcb.reg[IF Es("MOV_IN") THEN "SI" ELSE "DI"],
                Tamano(Actual.reg))
    /\ devuelto' = pcb
    /\ UNCHANGED <<programa, fase, pcb, memoria>>

\* EXIT and an interrupt hand the process back; an unknown instruction drops it.
Devuelve ==
    /\ fase = "corre"
    /\ fase' = "libre"
    /\ devuelto' = pcb
    /\ UNCHANGED <<programa, pcb, memoria>>

Descarta ==
    /\ fase = "corre"
    /\ EnPrograma(pcb, Len(programa)) => Actual.cmd = "OTRA"
    /\ fase' = "libre"
    /\ UNCHANGED <<programa, pcb, memoria, devuelto>>

Init ==
    /\ fase = "libre"
    /\ pcb = PcbInicial
    /\ devuelto = PcbInicial

Next == Recibe \/ Calcula \/ MovIn \/ MovOut \/ MovNada \/ Falla \/ Devuelve
        \/ Descarta

Spec == Init /\ [][Next]_vars
=============================================================================
