---------------------------- MODULE CpuConMemoria ----------------------------
(***************************************************************************)
(* The CPU with Kernel Memory and with the sticks that thread_ejecucion.c  *)
(* is written for: one answers a read with the bytes of the fragment, and  *)
(* a write after storing those of the register.  This is what the CPU      *)
(* asks of a stick, not what memory_stick does: the run VLectura shows the *)
(* stick of this repository, which answers no read of the CPU, and         *)
(* MemoryStick the text that it stores.                                    *)
(***************************************************************************)
EXTENDS Cpu

LecturaDeStick ==
    /\ Espera("MOV_IN")
    /\ acceso.a # KM
    /\ SeguirLectura([k \in 0..(acceso.cuantos - 1) |->
                          memoria[<<acceso.a, acceso.desde + k>>]])
    /\ UNCHANGED caidos

EscrituraDeStick ==
    /\ Espera("MOV_OUT")
    /\ acceso.a # KM
    /\ memoria' = [m \in Celdas |->
           LET k == m[2] - acceso.desde IN
           IF m[1] = acceso.a /\ k \in 0..(acceso.cuantos - 1)
           THEN Byte(pcb.reg[instruccion.reg], acceso.hecho + k)
           ELSE memoria[m]]
    /\ SeguirAcceso
    /\ UNCHANGED caidos

Next == Hilo \/ DeKm \/ LecturaDeStick \/ EscrituraDeStick \/ Enviar \/ Caer

Spec == Init /\ [][Next]_vars

\* The thread runs, Kernel Memory answers while it is up, and a stick answers
\* the writes (EscrituraTermina, in PropiedadesStick).  Nothing is assumed of
\* the scheduler, nor of the answer of a stick to a read.
EspecJusta ==
    Spec /\ WF_vars(Hilo) /\ WF_vars(DeKm) /\ WF_vars(EscrituraDeStick)
=============================================================================
