-------------------------------- MODULE MCCpu --------------------------------
(* Cpu for TLC: bytes of one bit, registers of four, segments of 8 bytes,   *)
(* and all the programs of two instructions over these, after the SETs that *)
(* choose the addresses and the data.                                       *)
EXTENDS PropiedadesCpu

I(cmd, reg, valor) == [cmd |-> cmd, reg |-> reg, valor |-> valor]

Accesos == {I(cmd, r, 0) : cmd \in {"MOV_IN", "MOV_OUT"},
                           r \in {"BX", "EAX", Ninguno}}
Otras   == {I("SET", "AX", 3), I("SET", Ninguno, 1), I("SUM", Ninguno, 0),
            I("SUB", Ninguno, 0), I("JNZ", "EAX", 5), I("EXIT", Ninguno, 0),
            I("OTRA", Ninguno, 0)}

\* Every address for SI and DI: inside the first stick, across two, in a hole,
\* across the end of a segment, and negative as an int.
MisProgramas ==
    { <<I("SET", "SI", d), I("SET", "DI", d), I("SET", "EAX", 11),
        I("SET", "BX", 1), x, y>> :
      d \in {0, 1, 2, 4, 5, 9, 11, 13, 15}, x \in Accesos,
      y \in Otras \cup {I("MOV_IN", "EAX", 0), I("MOV_OUT", "BX", 0)} }

Stick(base, tamano) == [base |-> base, tamano |-> tamano]

\* Two sticks that meet inside a segment, one that nobody can reach because the
\* first hides it, one after a hole, and one that nobody can reach because its
\* limit wraps.
VariosSticks ==
    <<Stick(0, 2), Stick(2, 3), Stick(1, 1), Stick(9, 3), Stick(14, 4)>>

ASSUME TramosDeVariosSticks == TramosEnteros

\* The first bytes of "EMPTY", or of "OK", cut to the width of a byte.
MiTexto == [k \in 0..3 |-> IF k = 1 THEN 0 ELSE 1]
=============================================================================
