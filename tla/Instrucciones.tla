---------------------------- MODULE Instrucciones ----------------------------
(***************************************************************************)
(* The instructions of the CPU that need no memory, on a PCB, and the      *)
(* arithmetic of the MMU (cpu/src/thread_ejecucion.c).  A PCB is its       *)
(* program counter and its registers: a byte wide, or four bytes wide in   *)
(* little endian order.  The width of a byte is a parameter.               *)
(***************************************************************************)
EXTENDS Integers

CONSTANTS MOD8,              \* 2^8 in the code: how many values a byte has
          TAM_MAX_SEGMENTO   \* 256 in the code, at both calls

ASSUME SupuestosInstrucciones ==
    /\ MOD8 \in Nat /\ MOD8 >= 2 /\ MOD8 % 2 = 0
    /\ TAM_MAX_SEGMENTO \in Nat \ {0}

MOD32 == MOD8 * MOD8 * MOD8 * MOD8

Registros8  == {"AX", "BX", "CX", "DX"}
Registros32 == {"EAX", "EBX", "ECX", "EDX", "SI", "DI"}
Registros   == Registros8 \cup Registros32

\* What string_split and atoi make of a line: a command or any other word, a
\* register or any other word, and an int.
Ninguno  == "ninguno"
Comandos == {"SET", "SUM", "SUB", "JNZ", "MOV_IN", "MOV_OUT", "EXIT", "OTRA"}
Lineas   == [cmd : Comandos, reg : Registros \cup {Ninguno}, valor : Int]

\* obtener_puntero_registro: the size of a register; for any other name there
\* is none.
Tamano(r) == IF r \in Registros8 THEN 1 ELSE 4
ModuloUnico(r) == MOD32     \* (mutant: every register is a uint32_t)
Modulo(r) == IF r \in Registros8 THEN MOD8 ELSE MOD32

Bytes == 0..(MOD8 - 1)

\* Byte k of a value, and the value that tam bytes make.
Peso(k) == CASE k = 0 -> 1
             [] k = 1 -> MOD8
             [] k = 2 -> MOD8 * MOD8
             [] k = 3 -> MOD8 * MOD8 * MOD8
Byte(v, k) == (v \div Peso(k)) % MOD8
Valor(b, tam) ==
    LET V(k) == IF k < tam THEN b[k] * Peso(k) ELSE 0
    IN  V(0) + V(1) + V(2) + V(3)

\* The program counter is a uint32_t.
PcbInicial == [pc |-> 0, reg |-> [r \in Registros |-> 0]]
Siguiente(p) == [p EXCEPT !.pc = (@ + 1) % MOD32]

\* ejecutar_set: the int is converted to the width of the register.
ejecutar_set(p, r, valor) ==
    IF r \in Registros
    THEN Siguiente([p EXCEPT !.reg[r] = valor % Modulo(r)])
    ELSE Siguiente(p)

\* SUM and SUB work on AX and BX, modulo 2^8.
sumar(p)  == Siguiente([p EXCEPT !.reg["AX"] = (@ + p.reg["BX"]) % MOD8])
restar(p) == Siguiente([p EXCEPT !.reg["AX"] = (@ - p.reg["BX"]) % MOD8])

ejecutar_jnz(p, r, proximo_pc) ==
    IF r \in Registros /\ p.reg[r] # 0
    THEN [p EXCEPT !.pc = proximo_pc % MOD32]
    ELSE Siguiente(p)

-----------------------------------------------------------------------------
\* A uint32_t taken as an int: the logical address, which is SI or DI, and the
\* program counter, which Kernel Memory looks for in a list of instructions.
Entero(v) == IF v >= MOD32 \div 2 THEN v - MOD32 ELSE v
EnPrograma(p, cuantas) == Entero(p.pc) \in 0..(cuantas - 1)

\* / and % of C truncate towards zero.
Cociente(a, b) == IF a >= 0 THEN a \div b ELSE -((-a) \div b)
Sobrante(a, b) == a - b * Cociente(a, b)

\* "desplazamiento + tam_registro > tam_max_segmento".  (Mutant: the last byte
\* may be the first of the next segment.)
SegFaultCorrido(dir, tam) ==
    Sobrante(Entero(dir), TAM_MAX_SEGMENTO) + tam > TAM_MAX_SEGMENTO + 1
SegFault(dir, tam) ==
    Sobrante(Entero(dir), TAM_MAX_SEGMENTO) + tam > TAM_MAX_SEGMENTO

\* numero_segmento * tam_max_segmento + desplazamiento, as a uint32_t.
DireccionFisica(dir) ==
    ( Cociente(Entero(dir), TAM_MAX_SEGMENTO) * TAM_MAX_SEGMENTO
      + Sobrante(Entero(dir), TAM_MAX_SEGMENTO) ) % MOD32
=============================================================================
