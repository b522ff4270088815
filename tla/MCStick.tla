------------------------------- MODULE MCStick -------------------------------
(* CpuConStick for TLC: the CPU believes in a stick of four bytes, one of   *)
(* which the stick does not have, and the rest is Kernel Memory's.          *)
EXTENDS PropiedadesStick

I(cmd, reg, valor) == [cmd |-> cmd, reg |-> reg, valor |-> valor]

\* Writes of one byte and of four, inside the stick and across its end, and reads.
MisProgramas ==
    { <<I("SET", "SI", d), I("SET", "DI", d), x, I("MOV_OUT", "BX", 0)>> :
      d \in {0, 2, 3}, x \in {I("MOV_OUT", "EAX", 0), I("MOV_IN", "BX", 0)} }

MiStick == <<[base |-> 0, tamano |-> 4]>>
MiTexto == [k \in 0..3 |-> IF k = 1 THEN 0 ELSE 1]

\* The second CPU writes one byte and reads one.
MisPedidos == {[op |-> o, desde |-> 1, cuantos |-> 1] : o \in {MOV_IN, MOV_OUT}}
=============================================================================
