-------------------------- MODULE MemoryStick_proofs --------------------------
(***************************************************************************)
(* A CPU and its memory stick for every number of other CPUs, of           *)
(* descriptors and of bytes: which requests are answered, to whom, and     *)
(* what a write changes.                                                   *)
(***************************************************************************)
EXTENDS PropiedadesStick, SequenceTheorems, TLAPS

-----------------------------------------------------------------------------
(* The types of the CPU *)

LEMMA Producto ==
    ASSUME NEW a \in Int, NEW b \in Int
    PROVE  /\ a * b \in Int
           /\ a > 0 /\ b > 0 => a * b > 0
           /\ a >= 0 /\ b >= 0 => a * b >= 0
OBVIOUS

LEMMA Resto ==
    ASSUME NEW M \in Int, M > 0, NEW v \in Int
    PROVE  v % M \in 0..(M - 1) /\ v \div M \in Int
OBVIOUS

LEMMA Anchos ==
    /\ MOD8 \in Int /\ MOD8 > 0
    /\ C!MOD32 \in Int /\ C!MOD32 > 0
    /\ \A k \in 0..3 : C!Peso(k) \in Int /\ C!Peso(k) > 0
<1>1. MOD8 \in Int /\ MOD8 > 0
  BY SupuestosStick
<1> DEFINE dos == MOD8 * MOD8
           tres == dos * MOD8
<1>2. dos \in Int /\ dos > 0
  BY <1>1, Producto
<1>3. tres \in Int /\ tres > 0
  <2> HIDE DEF dos
  <2> QED BY <1>1, <1>2, Producto
<1>4. C!MOD32 \in Int /\ C!MOD32 > 0
  <2>1. C!MOD32 = tres * MOD8
    BY DEF C!MOD32
  <2> HIDE DEF tres
  <2> QED BY <2>1, <1>1, <1>3, Producto
<1>5. ASSUME NEW k \in 0..3 PROVE C!Peso(k) \in Int /\ C!Peso(k) > 0
  <2>1. k = 0 \/ k = 1 \/ k = 2 \/ k = 3
    OBVIOUS
  <2>2. C!Peso(0) = 1 /\ C!Peso(1) = MOD8 /\ C!Peso(2) = dos /\ C!Peso(3) = tres
    BY DEF C!Peso
  <2> HIDE DEF dos, tres
  <2> QED BY <2>1, <2>2, <1>1, <1>2, <1>3
<1> QED BY <1>1, <1>4, <1>5

LEMMA Poner ==
    ASSUME NEW p \in Pcbs, NEW r, NEW v \in Int, NEW n \in 0..(C!MOD32 - 1)
    PROVE  /\ [p EXCEPT !.reg[r] = v] \in Pcbs
           /\ [p EXCEPT !.pc = n] \in Pcbs
BY DEF Pcbs

LEMMA Sigue ==
    ASSUME NEW p \in Pcbs
    PROVE  C!Siguiente(p) \in Pcbs
<1>1. (p.pc + 1) % C!MOD32 \in 0..(C!MOD32 - 1)
  BY Anchos, Resto DEF Pcbs
<1> QED BY <1>1 DEF C!Siguiente, Pcbs

LEMMA Calcula ==
    ASSUME NEW p \in Pcbs, NEW r, NEW v \in Int
    PROVE  /\ C!ejecutar_set(p, r, v) \in Pcbs /\ C!ejecutar_jnz(p, r, v) \in Pcbs
           /\ C!sumar(p) \in Pcbs /\ C!restar(p) \in Pcbs
<1>1. v % C!Modulo(r) \in Int /\ v % C!MOD32 \in 0..(C!MOD32 - 1)
  BY Anchos, Resto DEF C!Modulo
<1>2. /\ (p.reg["AX"] + p.reg["BX"]) % MOD8 \in Int
      /\ (p.reg["AX"] - p.reg["BX"]) % MOD8 \in Int
  <2>1. p.reg["AX"] \in Int /\ p.reg["BX"] \in Int
    BY DEF Pcbs, C!Registros, C!Registros8
  <2> QED BY <2>1, Anchos, Resto
<1>3. C!ejecutar_set(p, r, v) \in Pcbs
  <2>1. [p EXCEPT !.reg[r] = v % C!Modulo(r)] \in Pcbs
    BY <1>1 DEF Pcbs
  <2> QED BY <2>1, Sigue DEF C!ejecutar_set
<1>4. C!ejecutar_jnz(p, r, v) \in Pcbs
  <2>1. [p EXCEPT !.pc = v % C!MOD32] \in Pcbs
    BY <1>1 DEF Pcbs
  <2> QED BY <2>1, Sigue DEF C!ejecutar_jnz
<1>5. C!sumar(p) \in Pcbs
  <2>1. [p EXCEPT !.reg["AX"] = (@ + p.reg["BX"]) % MOD8] \in Pcbs
    BY <1>2 DEF Pcbs
  <2> QED BY <2>1, Sigue DEF C!sumar
<1>6. C!restar(p) \in Pcbs
  <2>1. [p EXCEPT !.reg["AX"] = (@ - p.reg["BX"]) % MOD8] \in Pcbs
    BY <1>2 DEF Pcbs
  <2> QED BY <2>1, Sigue DEF C!restar
<1> QED BY <1>3, <1>4, <1>5, <1>6

LEMMA DireccionTipo ==
    ASSUME NEW v \in Int
    PROVE  C!DireccionFisica(v) \in 0..(C!MOD32 - 1)
<1> DEFINE T == TAM_MAX_SEGMENTO
           e == C!Entero(v)
           q == C!Cociente(e, T)
<1>1. T \in Int /\ T > 0
  BY SupuestosCpuConStick
<1>2. e \in Int
  BY Anchos DEF C!Entero
<1>3. q \in Int
  <2> HIDE DEF e
  <2>1. e \div T \in Int /\ (-e) \div T \in Int
    BY <1>1, <1>2, Resto
  <2> QED BY <2>1 DEF C!Cociente
<1> HIDE DEF e, q
<1>4. q * T \in Int /\ e - T * q \in Int
  BY <1>1, <1>2, <1>3, Producto
<1> DEFINE x == q * T + (e - T * q)
<1>5. x \in Int
  BY <1>4
<1>6. C!DireccionFisica(v) = x % C!MOD32
  BY DEF C!DireccionFisica, C!Sobrante, e, q
<1> HIDE DEF x
<1> QED BY <1>5, <1>6, Anchos, Resto

LEMMA RestoDeMenor ==
    ASSUME NEW M \in Int, NEW v \in 0..(M - 1)
    PROVE  v % M = v
<1> DEFINE q == v \div M
           r == v % M
<1>1. q \in Int /\ r \in 0..(M - 1) /\ v = M * q + r
  OBVIOUS
<1> HIDE DEF q, r
<1>2. q * M \in Int /\ v = q * M + r
  BY <1>1
<1>3. ~(q > 0)
  <2> SUFFICES ASSUME q - 1 >= 0 PROVE FALSE
    BY <1>1
  <2>1. (q - 1) * M >= 0
    BY <1>1, Producto
  <2>2. (q - 1) * M = q * M - M
    BY <1>1
  <2> QED BY <1>1, <1>2, <2>1, <2>2
<1>4. ~(q < 0)
  <2> SUFFICES ASSUME q + 1 <= 0 PROVE FALSE
    BY <1>1
  <2>1. (0 - (q + 1)) * M >= 0
    BY <1>1, Producto
  <2>2. (0 - (q + 1)) * M = 0 - (q * M) - M
    BY <1>1
  <2> QED BY <1>1, <1>2, <2>1, <2>2
<1>5. q = 0
  BY <1>1, <1>3, <1>4
<1> QED BY <1>1, <1>5 DEF r

\* The only stick of the list, and what of an access fits in it.
LEMMA ElStick ==
    /\ DOMAIN Sticks = {1} /\ Sticks[1].base = 0
    /\ Sticks[1].tamano \in 0..(C!MOD32 - 1)
<1>1. /\ DOMAIN Sticks = 1..1 /\ Sticks[1] \in [base : {0}, tamano : 0..(C!MOD32 - 1)]
  BY SupuestosCpuConStick, ElementOfSeq, 1 \in 1..1
<1> QED BY <1>1

LEMMA StickDeEs ==
    ASSUME NEW d
    PROVE  C!StickDe(d) \in {0, 1} /\ (C!StickDe(d) = 1 => C!LoTiene(1, d))
<1>1. CASE C!LoTiene(1, d)
  <2>1. 1 \in DOMAIN Sticks /\ \A j \in 1..(1 - 1) : ~C!LoTiene(j, d)
    BY ElStick
  <2>2. C!StickDe(d) \in DOMAIN Sticks
    BY <1>1, <2>1 DEF C!StickDe
  <2> QED BY <1>1, <2>2, ElStick
<1>2. CASE ~C!LoTiene(1, d)
  BY <1>2, ElStick DEF C!StickDe, C!KM
<1> QED BY <1>1, <1>2

LEMMA Fragmento ==
    ASSUME acceso \in Locales, acceso.hecho < acceso.tam
    PROVE  /\ C!dir_actual \in Nat
           /\ C!bytes_restantes \in 1..4
           /\ C!StickDe(C!dir_actual) = 1 =>
                 /\ C!Cabe(1, C!dir_actual) \in 1..4
                 /\ C!Cabe(1, C!dir_actual) <= C!bytes_restantes
<1> DEFINE d == C!dir_actual
           n == Sticks[1].tamano
<1>1. d \in 0..(C!MOD32 - 1)
  BY Anchos, Resto DEF C!dir_actual, Locales
<1>2. C!bytes_restantes \in 1..4
  BY DEF C!bytes_restantes, Locales
<1>3. ASSUME C!StickDe(d) = 1 PROVE d < n
  <2>1. C!LoTiene(1, d)
    BY <1>3, StickDeEs
  <2>2. 0 + n = n /\ n % C!MOD32 = n
    BY ElStick, Anchos, RestoDeMenor
  <2>3. d < (Sticks[1].base + n) % C!MOD32
    BY <2>1 DEF C!LoTiene
  <2> QED BY <2>2, <2>3, ElStick
<1>4. n \in Int
  BY ElStick, Anchos
<1> HIDE DEF d, n
<1>5. ASSUME C!StickDe(d) = 1
      PROVE  C!Cabe(1, d) \in 1..4 /\ C!Cabe(1, d) <= C!bytes_restantes
  BY <1>1, <1>2, <1>3, <1>4, <1>5 DEF C!Cabe, C!Minimo, n
<1> QED BY <1>1, <1>2, <1>5 DEF d

LEMMA Iniciales ==
    C!PcbInicial \in Pcbs /\ C!SinAcceso \in Locales /\ C!EMPTY \in C!Lineas
<1>1. C!PcbInicial \in Pcbs
  BY Anchos DEF C!PcbInicial, Pcbs
<1>2. C!SinAcceso \in Locales
  BY DEF C!SinAcceso, Locales, C!KM
<1>3. C!EMPTY \in C!Lineas
  BY DEF C!EMPTY, C!Lineas, C!Comandos
<1> QED BY <1>1, <1>2, <1>3

LEMMA Avanza ==
    ASSUME InvCpu, punto = "espera_stick", C!Avanzar
    PROVE  acceso' \in Locales
BY DEF InvCpu, Locales, C!Avanzar

\* The line that is fetched is one of the program.
LEMMA LineaTipo ==
    ASSUME InvCpu, C!LlegaInstruccion
    PROVE  instruccion' \in C!Lineas
<1>1. CASE C!EnPrograma(pcb, Len(programa))
  <2>1. pcb.pc \in 0..(C!MOD32 - 1) /\ Len(programa) \in Nat
    BY DEF InvCpu, Pcbs
  <2>2. C!Entero(pcb.pc) = pcb.pc
    BY <1>1, <2>1, Anchos DEF C!EnPrograma, C!Entero
  <2>3. pcb.pc + 1 \in 1..Len(programa)
    BY <1>1, <2>1, <2>2 DEF C!EnPrograma
  <2>4. programa[pcb.pc + 1] \in C!Lineas
    BY <2>3, ElementOfSeq DEF InvCpu
  <2> QED BY <1>1, <2>4 DEF C!LlegaInstruccion
<1>2. CASE ~C!EnPrograma(pcb, Len(programa))
  BY <1>2, Iniciales DEF C!LlegaInstruccion
<1> QED BY <1>1, <1>2

\* What is copied into a register is a number.
LEMMA CopiaTipo ==
    ASSUME InvCpu, punto = "espera_stick", acceso.a = 0, NEW v \in Int
    PROVE  C!Copiar(v, acceso.tam, Texto) \in Int
<1> DEFINE f == [k \in 0..(acceso.tam - 1) |->
                   IF k \in acceso.hecho..(acceso.hecho + acceso.cuantos - 1)
                   THEN Texto[k - acceso.hecho] ELSE C!Byte(v, k)]
<1>1. /\ acceso.tam \in 0..4 /\ acceso.hecho \in 0..4 /\ acceso.cuantos \in 1..4
      /\ acceso.hecho + acceso.cuantos <= acceso.tam
  BY DEF InvCpu, Locales
<1>2. ASSUME NEW k \in 0..(acceso.tam - 1) PROVE f[k] \in Int
  <2>1. C!Byte(v, k) \in Int
    <3>1. k \in 0..3
      BY <1>1
    <3>2. C!Peso(k) \in Int /\ C!Peso(k) > 0
      BY <3>1, Anchos
    <3>3. v \div C!Peso(k) \in Int
      BY <3>2, Resto
    <3> QED BY <3>3, Anchos, Resto DEF C!Byte
  <2>2. ASSUME k \in acceso.hecho..(acceso.hecho + acceso.cuantos - 1)
        PROVE  Texto[k - acceso.hecho] \in Int
    <3>1. k - acceso.hecho \in 0..3
      BY <1>1, <2>2
    <3> QED BY <3>1, SupuestosCpuConStick, Anchos DEF C!Bytes
  <2> QED BY <2>1, <2>2
<1> HIDE DEF f
<1>3. \A k \in 0..3 : (IF k < acceso.tam THEN f[k] * C!Peso(k) ELSE 0) \in Int
  <2> TAKE k \in 0..3
  <2>1. CASE k < acceso.tam
    <3>1. f[k] \in Int /\ C!Peso(k) \in Int
      BY <2>1, <1>1, <1>2, Anchos
    <3>2. f[k] * C!Peso(k) \in Int
      BY <3>1, Producto
    <3> QED BY <2>1, <3>2
  <2>2. CASE ~(k < acceso.tam)
    BY <2>2
  <2> QED BY <2>1, <2>2
<1>4. C!Valor(f, acceso.tam) \in Int
  <2> DEFINE V(k) == IF k < acceso.tam THEN f[k] * C!Peso(k) ELSE 0
  <2>1. V(0) \in Int /\ V(1) \in Int /\ V(2) \in Int /\ V(3) \in Int
    BY <1>3
  <2>2. C!Valor(f, acceso.tam) = V(0) + V(1) + V(2) + V(3)
    BY DEF C!Valor
  <2> HIDE DEF V
  <2> QED BY <2>1, <2>2
<1> QED BY <1>4 DEF C!Copiar, f

LEMMA InternoTipo ==
    ASSUME InvCpu, C!Interno
    PROVE  InvCpu'
<1> USE DEF InvCpu, C!Ir, C!ParaKernel
<1>1. CASE C!Recibir \/ C!Fetch \/ C!FetchFalla
  BY <1>1, Iniciales DEF C!Recibir, C!Fetch, C!FetchFalla
<1>2. CASE C!Calcular
  <2>1. instruccion.valor \in Int /\ instruccion.cmd \in {"SET", "SUM", "SUB", "JNZ"}
    BY <1>2 DEF C!Calcular, C!Decodifica, C!Lineas
  <2>2. pcb' \in Pcbs
    BY <1>2, <2>1, Calcula DEF C!Calcular
  <2> QED BY <1>2, <2>2 DEF C!Calcular
<1>3. CASE C!MovSinRegistro \/ C!FinAcceso
  BY <1>3, Sigue, Iniciales DEF C!MovSinRegistro, C!FinAcceso
<1>4. CASE C!MovSegFault \/ C!Exit \/ C!Invalida \/ C!Interrumpir \/ C!Continuar
  BY <1>4 DEF C!MovSegFault, C!Exit, C!Invalida, C!Interrumpir, C!Continuar
<1>5. CASE C!Mov
  <2>1. C!DirLogica \in Int
    BY DEF C!DirLogica, Pcbs, C!Registros, C!Registros32
  <2>2. C!DireccionFisica(C!DirLogica) \in Int
    BY <2>1, DireccionTipo, Anchos
  <2>3. acceso' \in Locales
    BY <1>5, <2>2, Iniciales DEF C!Mov, Locales, C!Tamano
  <2> QED BY <1>5, <2>3 DEF C!Mov
<1>6. CASE C!AccesoFalla
  BY <1>6, Avanza DEF C!AccesoFalla
<1> QED BY <1>1, <1>2, <1>3, <1>4, <1>5, <1>6 DEF C!Interno

LEMMA PedirTipo ==
    ASSUME InvCpu, C!Pedir
    PROVE  InvCpu'
<1> DEFINE i == C!StickDe(C!dir_actual)
           desde == IF i = C!KM THEN C!dir_actual ELSE C!dir_actual - Sticks[i].base
           cuantos == IF i = C!KM THEN C!bytes_restantes ELSE C!Cabe(i, desde)
<1>1. acceso \in Locales /\ acceso.hecho < acceso.tam
  BY DEF InvCpu, C!Pedir
<1>2. i \in {0, 1} /\ C!KM = 0 /\ Sticks[1].base = 0
  <2> QED BY StickDeEs, ElStick DEF C!KM
<1>3. desde \in Int /\ (i = 1 => desde = C!dir_actual)
  BY <1>1, <1>2, Fragmento
<1>4. cuantos \in 1..4 /\ cuantos <= C!bytes_restantes
  <2>1. CASE i = 0
    BY <2>1, <1>1, <1>2, Fragmento
  <2>2. CASE i = 1
    <3> HIDE DEF desde
    <3> QED BY <2>2, <1>1, <1>2, <1>3, Fragmento
  <2> QED BY <2>1, <2>2, <1>2
<1>5. acceso' = [acceso EXCEPT !.a = i, !.desde = desde, !.cuantos = cuantos]
  BY DEF C!Pedir
<1> HIDE DEF i, desde, cuantos
<1>6. acceso' \in Locales /\ acceso'.cuantos > 0 /\ acceso'.hecho + acceso'.cuantos <= acceso'.tam
  <2>1. acceso.hecho \in Int /\ acceso.tam \in Int /\ cuantos + acceso.hecho <= acceso.tam
    BY <1>1, <1>4 DEF Locales, C!bytes_restantes
  <2>2. /\ acceso'.cuantos = cuantos /\ acceso'.hecho = acceso.hecho
        /\ acceso'.tam = acceso.tam
    BY <1>1, <1>5 DEF Locales
  <2>3. acceso' = [dir |-> acceso.dir, tam |-> acceso.tam, hecho |-> acceso.hecho,
                   a |-> i, desde |-> desde, cuantos |-> cuantos]
    BY <1>1, <1>5 DEF Locales
  <2>4. acceso' \in Locales
    BY <1>1, <1>2, <1>3, <1>4, <2>3 DEF Locales
  <2> QED BY <1>4, <2>1, <2>2, <2>4
<1> QED BY <1>6 DEF InvCpu, C!Pedir

LEMMA CpuTipo ==
    ASSUME InvCpu, HiloCpu \/ Despachar \/ UNCHANGED varsCpu
    PROVE  InvCpu'
<1>1. CASE PasoCpu
  BY <1>1, InternoTipo DEF PasoCpu
<1>2. CASE LlegaDeKm
  <2>1. CASE C!LlegaInstruccion
    BY <2>1, LineaTipo DEF InvCpu, C!LlegaInstruccion, C!Ir
  <2>2. CASE C!LecturaDeKm
    <3> DEFINE r == instruccion.reg
               x == C!Copiar(pcb.reg[r], acceso.tam, Texto)
    <3>1. punto = "espera_stick" /\ acceso.a = 0
      BY <2>2 DEF C!LecturaDeKm, C!Espera, C!KM
    <3>2. CASE r \in C!Registros
      <4>1. pcb.reg[r] \in Int
        BY <3>2 DEF InvCpu, Pcbs
      <4>2. x \in Int
        BY <3>1, <4>1, CopiaTipo
      <4>3. pcb' = [pcb EXCEPT !.reg[r] = x]
        BY <2>2 DEF C!LecturaDeKm, C!SeguirLectura, InvCpu, Pcbs
      <4> HIDE DEF x
      <4>4. pcb' \in Pcbs
        BY <4>2, <4>3 DEF InvCpu, Pcbs
      <4> QED BY <2>2, <3>1, <4>4, Avanza DEF InvCpu, C!LecturaDeKm, C!SeguirLectura, C!Ir
    <3>3. CASE r \notin C!Registros
      <4>1. pcb' = pcb
        BY <2>2, <3>3 DEF InvCpu, Pcbs, C!LecturaDeKm, C!SeguirLectura
      <4> QED BY <2>2, <3>1, <4>1, Avanza DEF InvCpu, C!LecturaDeKm, C!SeguirLectura, C!Ir
    <3> QED BY <3>2, <3>3
  <2>3. CASE C!EscrituraDeKm
    BY <2>3, Avanza DEF InvCpu, C!EscrituraDeKm, C!Espera, C!SeguirAcceso, C!Ir
  <2> QED BY <1>2, <2>1, <2>2, <2>3 DEF LlegaDeKm, C!DeKm
<1>3. CASE PedirAlStick \/ PedirAKm
  BY <1>3, PedirTipo DEF PedirAlStick, PedirAKm
<1>4. CASE LlegaDelStick
  BY <1>4, Avanza DEF InvCpu, LlegaDelStick, C!SeguirAcceso, C!Ir
<1>5. CASE Despachar
  BY <1>5 DEF InvCpu, Despachar, C!Enviar
<1>6. CASE UNCHANGED varsCpu
  BY <1>6 DEF InvCpu, varsCpu
<1> QED BY <1>1, <1>2, <1>3, <1>4, <1>5, <1>6 DEF HiloCpu

-----------------------------------------------------------------------------
(* The streams *)

LEMMA Tras ==
    ASSUME NEW s \in Seq(Int), s # <<>>
    PROVE  LET t == TrasOperacion(s) IN
           /\ t \in Seq(Int) /\ Len(t) = Len(s) - 1
           /\ Head(s) # RESTO => t = Tail(s)
           /\ \A i \in DOMAIN t : t[i] = RESTO \/ (i + 1 \in DOMAIN s /\ t[i] = s[i + 1])
           /\ Roto(s) => Roto(t) \/ Len(s) = 1
<1> DEFINE t == TrasOperacion(s)
<1>1. Len(s) \in Nat /\ Len(s) > 0 /\ DOMAIN s = 1..Len(s) /\ Head(s) = s[1]
  BY EmptySeq
<1>2. CASE Head(s) = RESTO /\ Len(s) > 1
  <2> DEFINE u == SubSeq(s, 3, Len(s))
  <2>1. /\ u \in Seq(Int) /\ Len(u) = Len(s) - 2
        /\ \A i \in 1..Len(u) : u[i] = s[i + 2]
    BY <1>1, <1>2
  <2>2. t = <<RESTO>> \o u
    BY <1>2 DEF TrasOperacion, Desalineado
  <2>3. RESTO \in Int /\ RESTO # CARGA
    BY DEF RESTO, CARGA
  <2> HIDE DEF t, u
  <2>a. /\ <<RESTO>> \in Seq(Int) /\ Len(<<RESTO>>) = 1 /\ <<RESTO>>[1] = RESTO
        /\ Len(u) \in Nat
    BY <1>1, <1>2, <2>1, <2>3
  <2>b. /\ t \in Seq(Int) /\ Len(t) = 1 + Len(u)
        /\ \A i \in 1..(1 + Len(u)) : t[i] = IF i <= 1 THEN <<RESTO>>[i] ELSE u[i - 1]
    BY <2>1, <2>2, <2>a, ConcatProperties
  <2>4. /\ t \in Seq(Int) /\ Len(t) = Len(s) - 1 /\ t[1] = RESTO
        /\ \A i \in 2..Len(t) : t[i] = u[i - 1]
    BY <1>1, <1>2, <2>1, <2>a, <2>b
  <2>5. \A i \in DOMAIN t : t[i] = RESTO \/ (i + 1 \in DOMAIN s /\ t[i] = s[i + 1])
    <3> TAKE i \in DOMAIN t
    <3>1. /\ i \in 1..Len(t) /\ Len(t) \in Nat /\ Len(s) \in Nat /\ Len(u) \in Nat
          /\ Len(t) = Len(s) - 1 /\ Len(u) = Len(s) - 2 /\ DOMAIN s = 1..Len(s)
      BY <1>1, <2>1, <2>4, <2>a
    <3>2. CASE i = 1
      BY <2>4, <3>2
    <3>3. CASE i # 1
      <4>1. i - 1 \in 1..Len(u) /\ i \in 2..Len(t) /\ i + 1 \in 1..Len(s)
        BY <3>1, <3>3
      <4>2. PICK k \in 1..Len(u) : k = i - 1
        BY <4>1
      <4>3. k + 2 = i + 1
        BY <3>1, <4>2
      <4>4. u[k] = s[k + 2]
        BY <2>1
      <4>5. t[i] = u[k]
        BY <2>4, <4>1, <4>2
      <4> QED BY <3>1, <4>1, <4>3, <4>4, <4>5
    <3> QED BY <3>2, <3>3
  <2>6. Roto(t)
    <3>1. 1 \in DOMAIN t /\ \A j \in 1..1 : t[j] # CARGA
      BY <1>1, <1>2, <2>3, <2>4
    <3> QED BY <3>1, <2>4 DEF Roto
  <2> QED BY <1>2, <2>4, <2>5, <2>6 DEF t
<1>3. CASE ~(Head(s) = RESTO /\ Len(s) > 1)
  <2>1. t = Tail(s)
    BY <1>3 DEF TrasOperacion, Desalineado
  <2> HIDE DEF t
  <2>2. /\ t \in Seq(Int) /\ Len(t) = Len(s) - 1
        /\ \A i \in 1..Len(t) : t[i] = s[i + 1]
    BY <1>1, <2>1
  <2>3. \A i \in DOMAIN t : i + 1 \in DOMAIN s /\ t[i] = s[i + 1]
    <3>1. DOMAIN t = 1..Len(t) /\ Len(t) \in Nat
      BY <2>2
    <3> QED BY <1>1, <2>2, <3>1
  <2>4. ASSUME Roto(s) PROVE Roto(t) \/ Len(s) = 1
    <3>1. PICK i \in DOMAIN s : s[i] = RESTO /\ \A j \in 1..i : s[j] # CARGA
      BY <2>4 DEF Roto
    <3>2. CASE i = 1
      BY <1>1, <1>3, <3>1, <3>2
    <3>3. CASE i # 1
      <4>1. i - 1 \in DOMAIN t /\ t[i - 1] = RESTO
        BY <1>1, <2>2, <3>1, <3>3
      <4>2. \A j \in 1..(i - 1) : t[j] # CARGA
        <5> TAKE j \in 1..(i - 1)
        <5>1. j \in 1..Len(t) /\ j + 1 \in 1..i
          BY <1>1, <2>2, <3>1
        <5> QED BY <2>2, <3>1, <5>1
      <4> QED BY <4>1, <4>2 DEF Roto
    <3> QED BY <3>2, <3>3
  <2> QED BY <2>1, <2>2, <2>3, <2>4 DEF t
<1> QED BY <1>2, <1>3

\* A packet at the end of a stream.
LEMMA Agrega ==
    ASSUME NEW s \in Seq(Int), NEW op \in Int
    PROVE  LET t == s \o <<op, CARGA>> IN
           /\ t \in Seq(Int) /\ Len(t) = Len(s) + 2
           /\ \A i \in DOMAIN s : i \in DOMAIN t /\ t[i] = s[i]
           /\ t[Len(s) + 1] = op /\ t[Len(s) + 2] = CARGA
           /\ DOMAIN t = 1..(Len(s) + 2) /\ DOMAIN s = 1..Len(s)
           /\ Roto(s) => Roto(t)
           /\ s # <<>> => t # <<>> /\ Head(t) = Head(s)
<1> DEFINE t == s \o <<op, CARGA>>
<1>1. <<op, CARGA>> \in Seq(Int) /\ Len(<<op, CARGA>>) = 2
  BY DEF CARGA
<1>2. /\ t \in Seq(Int) /\ Len(t) = Len(s) + 2 /\ Len(s) \in Nat
      /\ DOMAIN t = 1..(Len(s) + 2) /\ DOMAIN s = 1..Len(s)
  BY <1>1
<1>3. \A i \in DOMAIN s : i \in DOMAIN t /\ t[i] = s[i]
  BY <1>1, <1>2
<1>4. t[Len(s) + 1] = op /\ t[Len(s) + 2] = CARGA
  BY <1>1, <1>2
<1>5. ASSUME Roto(s) PROVE Roto(t)
  <2>1. PICK i \in DOMAIN s : s[i] = RESTO /\ \A j \in 1..i : s[j] # CARGA
    BY <1>5 DEF Roto
  <2>2. \A j \in 1..i : j \in DOMAIN s
    BY <1>2, <2>1
  <2> HIDE DEF t
  <2> QED BY <1>3, <2>1, <2>2 DEF Roto
<1>6. ASSUME s # <<>> PROVE t # <<>> /\ Head(t) = Head(s)
  <2>1. 1 \in DOMAIN s /\ Head(s) = s[1]
    BY <1>2, <1>6, EmptySeq
  <2> HIDE DEF t
  <2>2. t # <<>> /\ Head(t) = t[1]
    BY <1>2, EmptySeq
  <2> QED BY <1>3, <2>1, <2>2
<1> HIDE DEF t
<1> QED BY <1>2, <1>3, <1>4, <1>5, <1>6 DEF t

\* The greeting has no request; it ends in RESTO, or has no operation either.
LEMMA SaludoEs ==
    ASSUME largo \in Largos
    PROVE  /\ Saludo \in Seq(Int) /\ Saludo # <<>>
           /\ \A i \in DOMAIN Saludo : Saludo[i] # CARGA
           /\ Roto(Saludo) \/ \A i \in DOMAIN Saludo : Saludo[i] # RESTO /\ Saludo[i] \notin Ops
           /\ largo = 4 => \A i \in DOMAIN Saludo : Saludo[i] # RESTO
<1> DEFINE g == <<NEW_CPU, 4 + largo, largo>>
           n == largo \div 4
           u == [i \in 1..n |-> TEXTO]
           v == IF largo % 4 = 0 THEN <<>> ELSE <<RESTO>>
<1>1. largo \in Nat /\ largo >= 2
  BY SupuestosStick
<1>2. n \in Nat
  BY <1>1
<1>3. Saludo = (g \o u) \o v
  BY DEF Saludo
<1>4. /\ g \in Seq(Int) /\ Len(g) = 3 /\ g[1] = 1 /\ g[2] = 4 + largo /\ g[3] = largo
  BY <1>1 DEF NEW_CPU
<1>5. u \in Seq(Int) /\ Len(u) = n /\ \A i \in 1..n : u[i] = TEXTO
  <2> HIDE DEF n
  <2> QED BY <1>2 DEF TEXTO
<1>6. /\ v \in Seq(Int) /\ Len(v) \in {0, 1} /\ (largo % 4 = 0 <=> Len(v) = 0)
      /\ Len(v) = 1 => v[1] = RESTO
  BY DEF RESTO
<1> DEFINE w == g \o u
<1> HIDE DEF g, n, u, v
<1>7. /\ w \in Seq(Int) /\ Len(w) = 3 + n
      /\ \A i \in 1..(3 + n) : w[i] = IF i <= 3 THEN g[i] ELSE u[i - 3]
  <2>1. /\ w \in Seq(Int) /\ Len(w) = Len(g) + Len(u)
        /\ \A i \in 1..(Len(g) + Len(u)) : w[i] = IF i <= Len(g) THEN g[i] ELSE u[i - Len(g)]
    BY <1>4, <1>5, ConcatProperties
  <2> QED BY <2>1, <1>4, <1>5
<1> HIDE DEF w
<1>8. /\ Saludo \in Seq(Int) /\ Len(Saludo) = 3 + n + Len(v)
      /\ \A i \in 1..(3 + n + Len(v)) : Saludo[i] = IF i <= 3 + n THEN w[i] ELSE v[i - (3 + n)]
  <2> DEFINE t == w \o v
  <2>1. /\ t \in Seq(Int) /\ Len(t) = Len(w) + Len(v)
        /\ \A i \in 1..(Len(w) + Len(v)) : t[i] = IF i <= Len(w) THEN w[i] ELSE v[i - Len(w)]
    BY <1>6, <1>7, ConcatProperties
  <2>2. t = Saludo
    BY <1>3 DEF w
  <2> HIDE DEF t
  <2> QED BY <2>1, <2>2, <1>7
<1>9. DOMAIN Saludo = 1..(3 + n + Len(v)) /\ Saludo # <<>>
  <2>1. Len(v) \in Nat /\ n \in Nat
    BY <1>2, <1>6
  <2> QED BY <2>1, <1>8, EmptySeq
<1>10. ASSUME NEW i \in DOMAIN Saludo
       PROVE  Saludo[i] \in {1, 4 + largo, largo, TEXTO} \/ (Len(v) = 1 /\ i = 4 + n /\ Saludo[i] = RESTO)
  <2>0. /\ n \in Nat /\ Len(v) \in {0, 1} /\ i \in 1..(3 + n + Len(v))
    BY <1>2, <1>6, <1>9
  <2>a. Saludo[i] = IF i <= 3 + n THEN w[i] ELSE v[i - (3 + n)]
    BY <1>8, <2>0
  <2> DEFINE k == i - 3
             j == i - (3 + n)
  <2>1. CASE i <= 3
    <3>1. i \in {1, 2, 3} /\ i \in 1..(3 + n) /\ i <= 3 + n
      BY <2>0, <2>1
    <3>2. w[i] = g[i]
      BY <1>7, <2>1, <3>1
    <3>3. Saludo[i] = g[i]
      BY <2>a, <3>1, <3>2
    <3> QED BY <3>1, <3>3, <1>4
  <2>2. CASE i > 3 /\ i <= 3 + n
    <3>1. k \in 1..n /\ i \in 1..(3 + n) /\ ~(i <= 3) /\ i <= 3 + n
      BY <2>0, <2>2
    <3>2. w[i] = u[k]
      BY <1>7, <3>1
    <3> HIDE DEF k
    <3>3. u[k] = TEXTO
      BY <1>5, <3>1
    <3> QED BY <2>a, <3>1, <3>2, <3>3
  <2>3. CASE i > 3 + n
    <3>0. PICK l \in Nat : l = Len(v)
      BY <2>0
    <3>1. l = 1 /\ i = 4 + n /\ j = 1 /\ ~(i <= 3 + n)
      <4>1. l \in {0, 1} /\ i \in 1..(3 + n + l)
        BY <2>0, <3>0
      <4> QED BY <4>1, <2>0, <2>3
    <3>2. Saludo[i] = v[j]
      BY <2>a, <3>1
    <3> HIDE DEF j
    <3> QED BY <1>6, <3>0, <3>1, <3>2
  <2> QED
    <3>1. i <= 3 \/ (i > 3 /\ i <= 3 + n) \/ i > 3 + n
      BY <2>0
    <3> QED BY <3>1, <2>1, <2>2, <2>3
<1>11. \A i \in DOMAIN Saludo : Saludo[i] # CARGA
  BY <1>1, <1>10 DEF CARGA, TEXTO, RESTO
<1>12. CASE largo % 4 = 0
  <2>1. largo # 10 /\ largo # 11 /\ largo # 6 /\ largo # 7
    BY <1>12
  <2>2. \A i \in DOMAIN Saludo : Saludo[i] \in {1, 4 + largo, largo, TEXTO}
    BY <1>6, <1>10, <1>12
  <2>3. \A i \in DOMAIN Saludo : Saludo[i] # RESTO /\ Saludo[i] \notin Ops
    BY <1>1, <2>1, <2>2 DEF RESTO, TEXTO, Ops, MOV_IN, MOV_OUT
  <2> QED BY <1>8, <1>9, <1>11, <2>3
<1>13. CASE largo % 4 # 0
  <2>1. Len(v) = 1 /\ 4 + n \in DOMAIN Saludo
    BY <1>2, <1>6, <1>9, <1>13
  <2>2. Saludo[4 + n] = v[(4 + n) - (3 + n)] /\ (4 + n) - (3 + n) = 1
    BY <1>2, <1>8, <1>9, <2>1
  <2>3. Saludo[4 + n] = RESTO
    BY <1>6, <2>1, <2>2
  <2>4. \A j \in 1..(4 + n) : j \in DOMAIN Saludo
    BY <1>2, <1>9, <2>1
  <2>5. Roto(Saludo)
    BY <1>11, <2>1, <2>3, <2>4 DEF Roto
  <2>6. largo # 4
    BY <1>13
  <2> QED BY <1>8, <1>9, <1>11, <2>5, <2>6
<1> QED BY <1>12, <1>13

-----------------------------------------------------------------------------
(* The steps *)

\* What a step does to the state of the stick, and what of the CPU goes with it.
LEMMA Casos ==
    ASSUME InvTipos, Next
    PROVE  \/ UNCHANGED vars
           \/ \E c \in Clientes, p \in Pedidos :
                 /\ Enviar(c, p)
                 /\ IF c = cpu THEN punto = "acceso" /\ EnEspera'
                    ELSE pide[c] = SinPedido /\ UNCHANGED varsCpu
           \/ \E c \in Clientes : Recibir(c) /\ (c # cpu => UNCHANGED varsCpu)
           \/ /\ UNCHANGED varsCpu
              /\ \E c \in Clientes : Admision(c) \/ Atencion(c) \/ Entra(c) \/ SeVa(c)
<1>0. cpu \in Clientes
  BY SupuestosCpuConStick
<1>1. CASE PasoCpu \/ LlegaDeKm \/ PedirAKm \/ Despachar
  BY <1>1 DEF PasoCpu, LlegaDeKm, PedirAKm, Despachar
<1>2. CASE PedirAlStick
  <2> DEFINE p == [op |-> IF instruccion.cmd = "MOV_IN" THEN MOV_IN ELSE MOV_OUT,
                   desde |-> C!dir_actual, cuantos |-> C!Cabe(1, C!dir_actual)]
  <2>1. acceso \in Locales /\ acceso.hecho < acceso.tam /\ C!StickDe(C!dir_actual) = 1
    BY <1>2 DEF PedirAlStick, InvTipos, InvCpu
  <2>2. C!dir_actual \in Nat /\ C!Cabe(1, C!dir_actual) \in 1..4
    BY <2>1, Fragmento
  <2>3. p \in Pedidos
    BY <2>2 DEF Pedidos
  <2>4. Enviar(cpu, p) /\ punto = "acceso"
    BY <1>2 DEF PedirAlStick
  <2>5. punto' = "espera_stick" /\ acceso'.a = 1
    BY <1>2, <2>1 DEF PedirAlStick, C!Pedir, C!Ir, Locales
  <2> HIDE DEF p
  <2> QED BY <1>0, <2>3, <2>4, <2>5 DEF EnEspera, EnStick
<1>3. CASE LlegaDelStick
  BY <1>0, <1>3 DEF LlegaDelStick
<1>4. CASE StickServidor
  BY <1>4 DEF StickServidor
<1>5. CASE Ambiente
  <2>1. CASE \E c \in Clientes : Entra(c) \/ SeVa(c)
    BY <1>5, <2>1 DEF Ambiente
  <2>2. CASE \E c \in Clientes \ {cpu} : Recibir(c)
    BY <1>5, <2>2 DEF Ambiente
  <2>3. CASE \E c \in Clientes \ {cpu} : pide[c] = SinPedido /\ \E p \in Otros : Enviar(c, p)
    BY <1>5, <2>3, SupuestosCpuConStick DEF Ambiente
  <2> QED BY <1>5, <2>1, <2>2, <2>3 DEF Ambiente
<1> QED BY <1>1, <1>2, <1>3, <1>4, <1>5 DEF Next, HiloCpu

\* What the threads have in their hands, under the types.
LEMMA Manos ==
    ASSUME TiposStick, NEW t \in Clientes
    PROVE  /\ hilo[t] # "sin" => De(t) \in Clientes \cup {Libre}
           /\ HayOperacion(t) => /\ leyendo[t] \in Clientes
                                 /\ entrada[leyendo[t]] \in Seq(Int)
                                 /\ entrada[leyendo[t]] # <<>>
           /\ HayCarga(t) => hilo[t] = "sin" \/
                             /\ De(t) \in Clientes
                             /\ entrada[De(t)] \in Seq(Int) /\ entrada[De(t)] # <<>>
BY DEF TiposStick, TypeOK, De, HayOperacion, HayCarga

LEMMA AtencionTipo ==
    ASSUME TiposStick, NEW c \in Clientes, Atencion(c)
    PROVE  TiposStick'
<1> USE DEF TiposStick, TypeOK
<1>a. hilo[c] # "sin" => socket[c] \in Fds /\ conexion[socket[c]] \in Clientes \cup {Libre}
  OBVIOUS
<1>1. CASE LlamarRecv(c) /\ UNCHANGED varsStick
  <2>1. /\ hilo' = [hilo EXCEPT ![c] = IF De(c) = Libre THEN "cierra" ELSE "recv"]
        /\ leyendo' = [leyendo EXCEPT ![c] = De(c)]
    BY <1>1 DEF LlamarRecv, De
  <2>2. De(c) \in Clientes \cup {Libre} /\ hilo[c] = "llama"
    BY <1>1, <1>a DEF LlamarRecv, De
  <2>3. hilo' \in [Clientes -> {"sin", "llama", "recv", "cierra", "desconocida",
                              "lee", "escribe", "responde", "colgado"}]
    BY <2>1
  <2>4. \A d \in Clientes : /\ hilo'[d] # "sin" => socket[d] \in Fds
                            /\ hilo'[d] = "recv" => leyendo'[d] \in Clientes
    <3> TAKE d \in Clientes
    <3>1. CASE d # c
      <4>1. hilo'[d] = hilo[d]
        BY <2>1, <3>1
      <4>2. hilo[d] = "recv" => leyendo'[d] = leyendo[d]
        BY <1>1, <3>1 DEF LlamarRecv
      <4> QED BY <4>1, <4>2
    <3>2. CASE d = c
      <4>1. hilo'[d] = "recv" => De(c) \in Clientes
        BY <2>1, <2>2, <3>2
      <4>2. leyendo'[c] = De(c)
        BY <2>1
      <4> QED BY <1>a, <2>2, <3>2, <4>1, <4>2
    <3> QED BY <3>1, <3>2
  <2> QED BY <1>1, <2>3, <2>4 DEF LlamarRecv, varsStick
<1>2. CASE LlegaFin(c) /\ UNCHANGED varsStick
  BY <1>2 DEF LlegaFin, varsStick
<1>3. CASE CerrarEnRecibir(c) /\ UNCHANGED varsStick
  BY <1>3, <1>a DEF CerrarEnRecibir, Close, varsStick
<1>4. ASSUME HayOperacion(c), TomarOperacion(c), UNCHANGED varsStick,
             NEW x \in {"lee", "escribe", "llama"}, Seguir(c, x)
      PROVE  TiposStick'
  <2>1. TrasOperacion(entrada[leyendo[c]]) \in Seq(Int)
    BY <1>4, Manos, Tras
  <2>2. entrada' \in [Clientes -> Seq(Int)]
    BY <1>4, <2>1 DEF TomarOperacion
  <2>3. hilo[c] = "recv"
    BY <1>4 DEF HayOperacion
  <2> QED BY <1>4, <2>2, <2>3 DEF TomarOperacion, Seguir, varsStick
<1>5. CASE Operacion_conocida(c)
  BY <1>4, <1>5 DEF Operacion_conocida
<1>6. CASE Operacion_desconocida(c)
  <2>1. CASE HayOperacion(c) /\ TomarOperacion(c)
    BY <1>4, <1>6, <2>1 DEF Operacion_desconocida
  <2>2. CASE hilo[c] = "desconocida" /\ UNCHANGED <<cliente, entrada, conexion, socket, leyendo>>
    BY <1>6, <2>2 DEF Operacion_desconocida, Seguir, varsStick
  <2> QED BY <1>6, <2>1, <2>2 DEF Operacion_desconocida
<1>7. ASSUME hilo[c] \in {"lee", "escribe"}, HayCarga(c), TomarCarga(c)
      PROVE  entrada' \in [Clientes -> Seq(Int)]
  <2>1. Tail(entrada[De(c)]) \in Seq(Int)
    BY <1>7, Manos
  <2> QED BY <1>7, <2>1 DEF TomarCarga
<1>8. CASE Leer(c)
  BY <1>7, <1>8 DEF Leer, TomarCarga, Seguir, varsStick
<1>9. CASE Escribir(c)
  <2>1. De(c) \in Clientes /\ entrada' \in [Clientes -> Seq(Int)]
    BY <1>7, <1>9, Manos DEF Escribir
  <2>2. PICK p \in Pedidos \cup {SinPedido} : p = pide[De(c)]
    BY <2>1
  <2>3. p.cuantos \in Int
    BY DEF Pedidos, SinPedido
  <2>4. Texto_del_tamano(p) \in Int
    BY <2>3 DEF Texto_del_tamano
  <2>5. Texto_del_tamano(p) % MOD8 \in 0..(MOD8 - 1)
    BY <2>4, Anchos, Resto
  <2>6. celdas' = Escrito(p)
    BY <1>9, <2>2 DEF Escribir
  <2>7. celdas' \in [0..(tamano_stick - 1) -> 0..(MOD8 - 1)]
    BY <2>5, <2>6 DEF Escrito, Destino
  <2> DEFINE b == Destino(pide[De(c)]) \in DOMAIN celdas
  <2>8. vivo' \in BOOLEAN
    <3>1. b \in BOOLEAN
      OBVIOUS
    <3>2. vivo' \in {TRUE, b}
      BY <1>9 DEF Escribir
    <3> HIDE DEF b
    <3> QED BY <3>1, <3>2
  <2> QED BY <1>9, <2>1, <2>7, <2>8 DEF Escribir, TomarCarga, Seguir
<1>10. CASE SinCarga(c)
  <2>1. entrada' \in [Clientes -> Seq(Int)]
    <3>1. <<RESTO>> \in Seq(Int)
      BY DEF RESTO
    <3>2. CASE entrada' = entrada
      BY <3>2
    <3>3. CASE entrada' = [d \in Clientes |->
                 IF d = De(c) /\ entrada[d] # <<>> THEN <<RESTO>> ELSE entrada[d]]
      <4> HIDE DEF TypeOK
      <4> QED BY <3>1, <3>3
    <3> QED BY <1>10, <3>2, <3>3 DEF SinCarga
  <2>2. /\ hilo' \in [Clientes -> {"sin", "llama", "recv", "cierra", "desconocida",
                              "lee", "escribe", "responde", "colgado"}]
        /\ \A d \in Clientes : /\ hilo'[d] # "sin" => hilo[d] # "sin"
                               /\ hilo'[d] = "recv" => hilo[d] = "recv"
    BY <1>10 DEF SinCarga, Seguir
  <2> QED BY <1>10, <2>1, <2>2 DEF SinCarga
<1>11. CASE Responder(c)
  <2> DEFINE b == ~Rota(De(c))
  <2>1. vivo' \in BOOLEAN
    <3>1. b \in BOOLEAN /\ vivo' \in {TRUE, b}
      BY <1>11 DEF Responder
    <3> HIDE DEF b
    <3> QED BY <3>1
  <2>2. salida' \in [Clientes -> Nat]
    BY <1>11 DEF Responder
  <2> QED BY <1>11, <2>1, <2>2 DEF Responder, Seguir
<1> QED BY <1>1, <1>2, <1>3, <1>5, <1>6, <1>8, <1>9, <1>10, <1>11 DEF Atencion

LEMMA TiposSiguen ==
    ASSUME InvTipos, Next
    PROVE  InvTipos'
<1>1. InvCpu'
  BY CpuTipo DEF InvTipos, Next, StickServidor, Ambiente
<1> SUFFICES TiposStick'
  BY <1>1 DEF InvTipos
<1> USE DEF InvTipos, TiposStick, TypeOK
<1>2. CASE UNCHANGED vars
  BY <1>2 DEF vars, varsServidor, varsStick
<1>3. ASSUME NEW c \in Clientes, NEW p \in Pedidos, Enviar(c, p) PROVE TiposStick'
  <2>1. p.op \in Int
    BY DEF Pedidos, MOV_IN, MOV_OUT
  <2>2. entrada[c] \o <<p.op, CARGA>> \in Seq(Int)
    BY <2>1, Agrega
  <2>3. entrada' \in [Clientes -> Seq(Int)]
    BY <1>3, <2>2 DEF Enviar
  <2> QED BY <1>3, <2>3 DEF Enviar
<1>4. ASSUME NEW c \in Clientes, Recibir(c) PROVE TiposStick'
  BY <1>4 DEF Recibir, varsServidor
<1>5. ASSUME NEW c \in Clientes, Admision(c) PROVE TiposStick'
  <2>1. PICK f \in Fds : /\ conexion' = [conexion EXCEPT ![f] = c]
                         /\ socket' = [socket EXCEPT ![c] = f]
    BY <1>5 DEF Admision, Aceptar
  <2>2. conexion' \in [Fds -> Clientes \cup {Libre}]
    BY <2>1
  <2>3. \A d \in Clientes : /\ hilo'[d] # "sin" => socket'[d] \in Fds
                            /\ hilo'[d] = "recv" => hilo[d] = "recv"
    BY <1>5, <2>1 DEF Admision, Aceptar
  <2>4. socket' \in [Clientes -> {0} \cup Fds]
    BY <2>1
  <2> QED BY <1>5, <2>2, <2>3, <2>4 DEF Admision, Aceptar, varsStick
<1>6. ASSUME NEW c \in Clientes, Atencion(c) PROVE TiposStick'
  BY <1>6, AtencionTipo
<1>7. ASSUME NEW c \in Clientes, Entra(c) PROVE TiposStick'
  <2>1. entrada' \in [Clientes -> Seq(Int)]
    BY <1>7, SaludoEs DEF Entra, Conectar
  <2> QED BY <1>7, <2>1 DEF Entra, Conectar, varsStick
<1>8. ASSUME NEW c \in Clientes, SeVa(c) PROVE TiposStick'
  BY <1>8 DEF SeVa, Desconectar, varsStick
<1> QED BY <1>2, <1>3, <1>4, <1>5, <1>6, <1>7, <1>8, Casos

-----------------------------------------------------------------------------
(* The descriptors *)

\* What no step does to a client, its thread and the descriptors.
Firme(c) ==
    /\ cliente[c] = "ido" => cliente'[c] = "ido"
    /\ cliente'[c] = "fuera" => /\ cliente[c] = "fuera" /\ pide'[c] = pide[c]
                                /\ entrada[c] = <<>> => entrada'[c] = <<>>
    /\ hilo[c] # "sin" => /\ hilo'[c] # "sin" /\ socket'[c] = socket[c]
                          /\ \A f \in Fds : conexion'[f] = c => conexion[f] = c
    /\ hilo[c] = "sin" =>
          \/ hilo'[c] = "sin" /\ \A f \in Fds : conexion'[f] = c => conexion[f] = c
          \/ /\ cliente[c] # "fuera" /\ hilo'[c] = "llama"
             /\ conexion'[socket'[c]] = c
             /\ \A f \in Fds : conexion'[f] = c => conexion[f] = c \/ f = socket'[c]
    /\ \A f \in Fds : conexion[f] # Libre =>
          \/ conexion'[f] = conexion[f]
          \/ \E u \in Clientes :
                hilo[u] = "cierra" /\ socket[u] = f /\ hilo'[u] = "desconocida"

LEMMA Firmeza ==
    ASSUME InvTipos, Next, NEW c \in Clientes
    PROVE  Firme(c)
<1>1. ASSUME UNCHANGED <<cliente, conexion, socket>>,
             cliente[c] = "fuera" => pide'[c] = pide[c] /\ (entrada[c] = <<>> => entrada'[c] = <<>>),
             hilo[c] = "sin" <=> hilo'[c] = "sin"
      PROVE  Firme(c)
  BY <1>1 DEF Firme
<1> USE DEF InvTipos, TiposStick, TypeOK
<1>2. CASE UNCHANGED vars
  BY <1>1, <1>2 DEF vars, varsServidor, varsStick
<1>3. ASSUME NEW d \in Clientes, NEW p \in Pedidos, Enviar(d, p) PROVE Firme(c)
  BY <1>1, <1>3 DEF Enviar
<1>4. ASSUME NEW d \in Clientes, Recibir(d) PROVE Firme(c)
  BY <1>1, <1>4 DEF Recibir, varsServidor
<1>5. ASSUME NEW d \in Clientes, Admision(d) PROVE Firme(c)
  <2>1. PICK f \in Fds : /\ conexion' = [conexion EXCEPT ![f] = d] /\ conexion[f] = Libre
                         /\ socket' = [socket EXCEPT ![d] = f]
    BY <1>5 DEF Admision, Aceptar, FdMinimo
  <2>2. /\ hilo[d] = "sin" /\ cliente[d] # "fuera" /\ hilo' = [hilo EXCEPT ![d] = "llama"]
        /\ UNCHANGED <<cliente, entrada, pide>>
    BY <1>5 DEF Admision, Aceptar, varsStick
  <2>3. conexion' [f] = d /\ \A g \in Fds : g # f => conexion'[g] = conexion[g]
    BY <2>1
  <2>4. CASE d = c
    BY <2>1, <2>2, <2>3, <2>4 DEF Firme
  <2>5. CASE d # c
    BY <2>1, <2>2, <2>3, <2>5 DEF Firme
  <2> QED BY <2>4, <2>5
<1>6. ASSUME NEW d \in Clientes, Entra(d) PROVE Firme(c)
  BY <1>6 DEF Entra, Conectar, varsStick, Firme
<1>7. ASSUME NEW d \in Clientes, SeVa(d) PROVE Firme(c)
  BY <1>7 DEF SeVa, Desconectar, varsStick, Firme
<1>8. ASSUME NEW d \in Clientes, Atencion(d) PROVE Firme(c)
  <2>1. CASE (LlamarRecv(d) \/ LlegaFin(d)) /\ UNCHANGED varsStick
    BY <1>1, <2>1 DEF LlamarRecv, LlegaFin, varsStick
  <2>2. CASE CerrarEnRecibir(d) /\ UNCHANGED varsStick
    <3>1. /\ hilo[d] = "cierra" /\ hilo' = [hilo EXCEPT ![d] = "desconocida"]
          /\ conexion' = [conexion EXCEPT ![socket[d]] = Libre]
          /\ UNCHANGED <<cliente, entrada, socket, pide>>
      BY <2>2 DEF CerrarEnRecibir, Close, varsStick
    <3>2. \A f \in Fds : conexion'[f] = IF f = socket[d] THEN Libre ELSE conexion[f]
      BY <3>1
    <3>3. hilo'[d] = "desconocida" /\ c # Libre
      BY <3>1, SupuestosServidor
    <3> QED BY <3>1, <3>2, <3>3 DEF Firme
  <2>3. ASSUME HayOperacion(d), TomarOperacion(d), UNCHANGED varsStick,
               NEW x \in {"lee", "escribe", "llama"}, Seguir(d, x)
        PROVE  Firme(c)
    <3>1. entrada[c] = <<>> => entrada'[c] = <<>>
      BY <2>3 DEF HayOperacion, TomarOperacion
    <3> QED BY <1>1, <2>3, <3>1 DEF HayOperacion, TomarOperacion, Seguir, varsStick
  <2>4. CASE Operacion_conocida(d)
    BY <2>3, <2>4 DEF Operacion_conocida
  <2>5. CASE Operacion_desconocida(d)
    <3>1. CASE HayOperacion(d) /\ TomarOperacion(d)
      BY <2>3, <2>5, <3>1 DEF Operacion_desconocida
    <3>2. CASE hilo[d] = "desconocida" /\ UNCHANGED <<cliente, entrada, conexion, socket, leyendo>>
      BY <1>1, <2>5, <3>2 DEF Operacion_desconocida, Seguir, varsStick
    <3> QED BY <2>5, <3>1, <3>2 DEF Operacion_desconocida
  <2>6. CASE Leer(d) \/ Escribir(d)
    <3>1. entrada[c] = <<>> => entrada'[c] = <<>>
      BY <2>6 DEF Leer, Escribir, HayCarga, TomarCarga
    <3> QED BY <1>1, <2>6, <3>1 DEF Leer, Escribir, TomarCarga, Seguir, varsStick
  <2>7. CASE SinCarga(d)
    <3>1. entrada[c] = <<>> => entrada'[c] = <<>>
      BY <2>7 DEF SinCarga
    <3>2. hilo[c] = "sin" <=> hilo'[c] = "sin"
      BY <2>7 DEF SinCarga, Seguir
    <3> QED BY <1>1, <2>7, <3>1, <3>2 DEF SinCarga
  <2>8. CASE Responder(d)
    BY <1>1, <2>8 DEF Responder, Seguir
  <2> QED BY <1>8, <2>1, <2>2, <2>4, <2>5, <2>6, <2>7, <2>8 DEF Atencion
<1> HIDE DEF InvTipos, TiposStick, TypeOK
<1>9. \/ UNCHANGED vars
      \/ \E d \in Clientes, p \in Pedidos : Enviar(d, p)
      \/ \E d \in Clientes :
            Recibir(d) \/ Admision(d) \/ Atencion(d) \/ Entra(d) \/ SeVa(d)
  BY Casos
<1> QED BY <1>2, <1>3, <1>4, <1>5, <1>6, <1>7, <1>8, <1>9

\* Once a thread may close the connection of somebody else it always may.
LEMMA PrevistoAntes ==
    ASSUME InvTipos, InvDescriptores, Next, Previsto'
    PROVE  Previsto
<1> SUFFICES ASSUME ~Previsto PROVE FALSE
  OBVIOUS
<1>1. PICK d \in Clientes : cliente[d] = "ido"
  BY DEF InvDescriptores, Idos
<1>2. \A e \in Clientes : cliente[e] = "ido" => cliente'[e] = "ido"
  BY Firmeza DEF Firme
<1>3. \A e \in Clientes : cliente[e] = "ido" => e = d
  BY <1>1, <1>2 DEF Previsto, Idos
<1>4. PICK c \in Clientes :
          cliente[c] = "dentro" /\ hilo[c] # "sin" /\ conexion[socket[c]] # c
  BY <1>3 DEF Previsto, Idos
<1>5. cliente'[c] # "fuera"
  BY <1>4, Firmeza DEF Firme
<1>6. cliente'[c] # "ido"
  BY <1>1, <1>2, <1>4 DEF Previsto, Idos
<1>7. cliente'[c] = "dentro"
  BY <1>5, <1>6, TiposSiguen DEF InvTipos, TiposStick
<1>8. /\ hilo'[c] # "sin" /\ socket'[c] = socket[c] /\ socket[c] \in Fds
      /\ \A f \in Fds : conexion'[f] = c => conexion[f] = c
  BY <1>4, Firmeza DEF Firme, InvTipos, TiposStick, TypeOK
<1> QED BY <1>4, <1>7, <1>8 DEF Previsto

\* The connection of a thread that reads or answers stays where it is.
LEMMA DeQueda ==
    ASSUME InvTipos, InvDescriptores, InvHilos, Next, Previsto',
           NEW t \in Clientes, hilo[t] \notin {"sin", "cierra"}, De(t) # Libre
    PROVE  De(t)' = De(t)
<1>1. socket[t] \in Fds /\ socket'[t] = socket[t]
  BY Firmeza DEF Firme, InvTipos, TiposStick, TypeOK
<1>2. CASE conexion'[socket[t]] = conexion[socket[t]]
  BY <1>1, <1>2 DEF De
<1>3. CASE \E u \in Clientes : hilo[u] = "cierra" /\ socket[u] = socket[t]
  <2>1. PICK u \in Clientes : hilo[u] = "cierra" /\ socket[u] = socket[t]
    BY <1>3
  <2>2. Previsto
    BY PrevistoAntes
  <2>3. cliente[u] = "ido" /\ u # t
    BY <2>1, <2>2 DEF InvHilos, InvDescriptores, InvTipos, TiposStick
  <2>4. cliente[t] = "dentro"
    BY <2>2, <2>3 DEF Previsto, Idos, InvDescriptores, InvTipos, TiposStick
  <2>5. De(t) = t
    BY <2>2, <2>4 DEF Previsto, De
  <2>6. cliente'[u] = "ido" /\ cliente'[t] # "fuera" /\ hilo'[t] # "sin"
    BY <2>3, <2>4, Firmeza DEF Firme
  <2>7. cliente'[t] # "ido"
    BY <2>3, <2>6 DEF Previsto, Idos
  <2>8. cliente'[t] = "dentro"
    BY <2>6, <2>7, TiposSiguen DEF InvTipos, TiposStick
  <2>9. De(t)' = t
    BY <2>6, <2>8 DEF Previsto, De
  <2> QED BY <2>5, <2>9
<1>4. conexion[socket[t]] # Libre
  BY DEF De
<1> QED BY <1>1, <1>2, <1>3, <1>4, Firmeza DEF Firme

LEMMA DescriptoresSiguen ==
    ASSUME InvTipos, InvDescriptores, InvHilos, Next
    PROVE  InvDescriptores'
<1>1. ASSUME NEW f \in Fds, NEW c \in Clientes, conexion'[f] = c
      PROVE  hilo'[c] # "sin" /\ socket'[c] = f
  BY <1>1, Firmeza DEF Firme, InvDescriptores
<1>2. ASSUME NEW c \in Clientes
      PROVE  /\ hilo'[c] # "sin" => cliente'[c] # "fuera"
             /\ cliente'[c] = "fuera" => entrada'[c] = <<>> /\ pide'[c] = SinPedido
  BY Firmeza DEF Firme, InvDescriptores
<1>3. ASSUME Idos' = {} PROVE Previsto'
  <2>1. \A c \in Clientes : cliente'[c] # "ido" /\ cliente[c] # "ido"
    BY <1>3, Firmeza DEF Firme, Idos
  <2>2. Previsto
    BY <2>1 DEF InvDescriptores, Idos
  <2>3. \A u \in Clientes : hilo[u] # "cierra"
    BY <2>1, <2>2 DEF InvHilos, InvDescriptores, InvTipos, TiposStick
  <2>4. ASSUME NEW c \in Clientes, hilo'[c] # "sin" PROVE conexion'[socket'[c]] = c
    <3>1. CASE hilo[c] = "sin"
      BY <2>4, <3>1, Firmeza DEF Firme
    <3>2. CASE hilo[c] # "sin"
      <4>1. cliente[c] = "dentro"
        BY <2>1, <3>2 DEF InvDescriptores, InvTipos, TiposStick
      <4>2. conexion[socket[c]] = c /\ socket[c] \in Fds /\ c # Libre
        BY <2>2, <3>2, <4>1, SupuestosServidor DEF Previsto, InvTipos, TiposStick, TypeOK
      <4> QED BY <2>3, <3>2, <4>2, Firmeza DEF Firme
    <3> QED BY <3>1, <3>2
  <2> QED BY <1>3, <2>4 DEF Previsto
<1> QED BY <1>1, <1>2, <1>3 DEF InvDescriptores

\* Where a thread comes from.
Turno(t) ==
    /\ hilo'[t] = "cierra" =>
          \/ hilo[t] = "cierra" \/ (hilo[t] = "llama" /\ De(t) = Libre)
          \/ hilo[t] = "recv" /\ cliente[leyendo[t]] = "ido"
    /\ hilo'[t] = "desconocida" => hilo[t] \in {"cierra", "desconocida"}
    /\ hilo'[t] = "recv" =>
          \/ hilo[t] = "recv" /\ leyendo'[t] = leyendo[t]
          \/ hilo[t] = "llama" /\ leyendo'[t] = De(t) /\ De(t) # Libre
    /\ hilo'[t] \in {"lee", "escribe", "responde"} =>
          hilo[t] \in {"recv", "lee", "escribe", "responde"}

LEMMA Turnos ==
    ASSUME InvTipos, Next, NEW t \in Clientes
    PROVE  Turno(t)
<1>1. ASSUME UNCHANGED leyendo,
             \/ hilo' = hilo
             \/ \E d \in Clientes, x \in {"llama", "colgado"} : Seguir(d, x)
             \/ \E d \in Clientes, x \in {"lee", "escribe", "responde"} :
                   Seguir(d, x) /\ hilo[d] \in {"recv", "lee", "escribe", "responde"}
      PROVE  Turno(t)
  BY <1>1 DEF Turno, Seguir, InvTipos, TiposStick, TypeOK
<1>2. CASE UNCHANGED vars
  BY <1>1, <1>2 DEF vars, varsServidor, varsStick
<1>3. ASSUME NEW d \in Clientes, NEW p \in Pedidos, Enviar(d, p) PROVE Turno(t)
  BY <1>1, <1>3 DEF Enviar
<1>4. ASSUME NEW d \in Clientes, Recibir(d) \/ Entra(d) \/ SeVa(d) PROVE Turno(t)
  BY <1>1, <1>4 DEF Recibir, Entra, SeVa, Conectar, Desconectar, varsServidor
<1>5. ASSUME NEW d \in Clientes, Admision(d) PROVE Turno(t)
  BY <1>1, <1>5 DEF Admision, Aceptar, Seguir
<1>6. ASSUME NEW d \in Clientes, Atencion(d) PROVE Turno(t)
  <2>1. CASE LlamarRecv(d)
    BY <2>1 DEF LlamarRecv, Turno, De, InvTipos, TiposStick, TypeOK
  <2>2. CASE LlegaFin(d) \/ CerrarEnRecibir(d)
    BY <2>2 DEF LlegaFin, CerrarEnRecibir, Turno, InvTipos, TiposStick, TypeOK
  <2>3. CASE Operacion_conocida(d)
    BY <1>1, <2>3 DEF Operacion_conocida, HayOperacion, TomarOperacion
  <2>4. CASE Operacion_desconocida(d)
    BY <1>1, <2>4 DEF Operacion_desconocida, TomarOperacion
  <2>5. CASE Leer(d)
    BY <1>1, <2>5 DEF Leer, TomarCarga
  <2>6. CASE Escribir(d)
    BY <1>1, <2>6 DEF Escribir, TomarCarga
  <2>7. CASE SinCarga(d)
    BY <1>1, <2>7 DEF SinCarga
  <2>8. CASE Responder(d)
    BY <1>1, <2>8 DEF Responder
  <2> QED BY <1>6, <2>1, <2>2, <2>3, <2>4, <2>5, <2>6, <2>7, <2>8 DEF Atencion
<1>7. \/ UNCHANGED vars
      \/ \E d \in Clientes, p \in Pedidos : Enviar(d, p)
      \/ \E d \in Clientes :
            Recibir(d) \/ Admision(d) \/ Atencion(d) \/ Entra(d) \/ SeVa(d)
  BY Casos
<1> QED BY <1>2, <1>3, <1>4, <1>5, <1>6, <1>7

LEMMA HilosSiguen ==
    ASSUME InvTipos, InvDescriptores, InvHilos, Next
    PROVE  InvHilos'
<1> SUFFICES ASSUME Previsto', NEW t \in Clientes
             PROVE  /\ cliente'[t] = "dentro" => hilo'[t] \notin {"cierra", "desconocida"}
                    /\ hilo'[t] = "recv" => leyendo'[t] = De(t)'
                    /\ hilo'[t] \in {"lee", "escribe", "responde"} => De(t)' # Libre
  BY DEF InvHilos
<1>1. Previsto
  BY PrevistoAntes
<1>2. hilo[t] = "recv" => leyendo[t] = De(t) /\ De(t) # Libre
  BY <1>1, SupuestosServidor DEF InvHilos, InvTipos, TiposStick, TypeOK
<1>3. hilo[t] \in {"lee", "escribe", "responde"} => De(t) # Libre
  BY <1>1 DEF InvHilos
<1>4. hilo[t] \in {"recv", "llama", "lee", "escribe", "responde"} /\ De(t) # Libre
          => De(t)' = De(t)
  BY DeQueda
<1>5. ASSUME cliente'[t] = "dentro" PROVE hilo'[t] \notin {"cierra", "desconocida"}
  <2>1. CASE cliente[t] = "fuera"
    <3>1. hilo[t] = "sin"
      BY <2>1 DEF InvDescriptores
    <3> QED BY <3>1, Turnos DEF Turno
  <2>2. CASE cliente[t] = "dentro"
    <3>1. hilo[t] # "sin" => De(t) = t /\ t # Libre
      BY <1>1, <2>2, SupuestosServidor DEF Previsto, De
    <3>2. hilo[t] \notin {"cierra", "desconocida"}
      BY <1>1, <2>2 DEF InvHilos
    <3> QED BY <1>2, <2>2, <3>1, <3>2, Turnos DEF Turno
  <2>3. cliente[t] # "ido"
    BY <1>5, Firmeza DEF Firme
  <2> QED BY <2>1, <2>2, <2>3 DEF InvTipos, TiposStick
<1>6. ASSUME hilo'[t] = "recv" PROVE leyendo'[t] = De(t)'
  BY <1>2, <1>4, <1>6, Turnos DEF Turno
<1>7. ASSUME hilo'[t] \in {"lee", "escribe", "responde"} PROVE De(t)' # Libre
  BY <1>2, <1>3, <1>4, <1>7, Turnos DEF Turno
<1> QED BY <1>5, <1>6, <1>7

-----------------------------------------------------------------------------
(* The requests *)

\* Nobody begins to serve or to answer the client, and its request is the same.
NoToma(c) ==
    \A t \in Clientes : \A x \in {"lee", "escribe", "responde"} :
        hilo'[t] = x /\ De(t)' = c => hilo[t] = x /\ De(t) = c

Igual(c) == salida'[c] = salida[c] /\ pide'[c] = pide[c]

LEMMA Atendidos ==
    ASSUME NEW c \in Clientes, NoToma(c)
    PROVE  \A t \in Clientes :
              /\ Atiende(t, c, {"responde"})' => Atiende(t, c, {"responde"})
              /\ Atiende(t, c, {"lee", "escribe"})' =>
                    Atiende(t, c, {"lee", "escribe"}) /\ hilo'[t] = hilo[t]
              /\ Atiende(t, c, {"lee", "escribe", "responde"})' =>
                    Atiende(t, c, {"lee", "escribe", "responde"})
BY DEF NoToma, Atiende

LEMMA ContestacionQueda ==
    ASSUME NEW c \in Clientes, NoToma(c), Igual(c), UnaContestacion(c)
    PROVE  UnaContestacion(c)'
BY Atendidos DEF UnaContestacion, Igual, Escribe

LEMMA SanoQuieto ==
    ASSUME NEW c \in Clientes, NoToma(c), Igual(c), entrada'[c] = entrada[c],
           cliente[c] = "ido" => cliente'[c] = "ido", Sano(c)
    PROVE  Sano(c)'
<1>1. UnaContestacion(c)'
  BY ContestacionQueda DEF Sano
<1>2. UnaCarga(c)'
  BY Atendidos DEF Sano, UnaCarga, Igual
<1>3. Perdido(c) => Perdido(c)'
  BY DEF Perdido
<1>4. UnaOperacion(c) => UnaOperacion(c)'
  BY DEF UnaOperacion, Igual
<1>5. UnHilo(c) => UnHilo(c)'
  BY Atendidos DEF UnHilo, Igual
<1> QED BY <1>1, <1>2, <1>3, <1>4, <1>5 DEF Sano

\* A stream that a thread has read something of.
LEMMA Consume ==
    ASSUME NEW c \in Clientes, entrada[c] \in Seq(Int), entrada[c] # <<>>,
           entrada'[c] = TrasOperacion(entrada[c]), pide'[c] = pide[c]
    PROVE  /\ \A i \in DOMAIN entrada'[c] : entrada'[c][i] = CARGA =>
                 /\ i + 1 \in DOMAIN entrada[c] /\ entrada[c][i + 1] = CARGA
                 /\ i + 1 = Len(entrada[c]) => i = Len(entrada'[c])
           /\ CARGA \notin Range(entrada[c]) => CARGA \notin Range(entrada'[c])
           /\ Roto(entrada[c]) => Roto(entrada'[c]) \/ Len(entrada[c]) = 1
           /\ UnaOperacion(c) => UnaOperacion(c)'
           /\ UnaOperacion(c) => /\ entrada'[c] = Tail(entrada[c])
                                 /\ \A i \in DOMAIN entrada'[c] :
                                       i + 1 \in DOMAIN entrada[c] /\ entrada'[c][i] = entrada[c][i + 1]
<1> DEFINE s == entrada[c]
           u == entrada'[c]
<1>0. s \in Seq(Int) /\ s # <<>> /\ u = TrasOperacion(s)
  OBVIOUS
<1>1. /\ u \in Seq(Int) /\ Len(u) = Len(s) - 1 /\ Len(s) \in Nat
      /\ Head(s) # RESTO => u = Tail(s)
      /\ \A i \in DOMAIN u : u[i] = RESTO \/ (i + 1 \in DOMAIN s /\ u[i] = s[i + 1])
      /\ Roto(s) => Roto(u) \/ Len(s) = 1
  <2> HIDE DEF s, u
  <2>1. Len(s) \in Nat
    BY <1>0
  <2> QED BY <1>0, <2>1, Tras
<1>2. DOMAIN u = 1..Len(u) /\ DOMAIN s = 1..Len(s) /\ Head(s) = s[1] /\ Len(s) > 0 /\ Len(u) \in Nat
  BY <1>1, EmptySeq
<1>a. UnaOperacion(c) => \A i \in DOMAIN s :
        /\ s[i] # RESTO
        /\ s[i] \in Ops => i + 1 = Len(s) /\ s[i + 1] = CARGA /\ s[i] = pide[c].op
  BY DEF UnaOperacion
<1>b. UnaOperacion(c)' <=> \A i \in DOMAIN u :
        /\ u[i] # RESTO
        /\ u[i] \in Ops => i + 1 = Len(u) /\ u[i + 1] = CARGA /\ u[i] = pide[c].op
  BY DEF UnaOperacion
<1> HIDE DEF s, u
<1>3. \A i \in DOMAIN u : u[i] = CARGA =>
          /\ i + 1 \in DOMAIN s /\ s[i + 1] = CARGA
          /\ i + 1 = Len(s) => i = Len(u)
  <2> TAKE i \in DOMAIN u
  <2>1. i \in Int /\ (i + 1 = Len(s) => i = Len(u))
    BY <1>1, <1>2
  <2> QED BY <1>1, <2>1 DEF CARGA, RESTO
<1>4. CARGA \notin Range(s) => CARGA \notin Range(u)
  BY <1>3 DEF Range
<1>5. ASSUME UnaOperacion(c)
      PROVE  u = Tail(s) /\ \A i \in DOMAIN u : i + 1 \in DOMAIN s /\ u[i] = s[i + 1]
  <2>1. 1 \in DOMAIN s /\ s[1] # RESTO
    BY <1>a, <1>2, <1>5
  <2>2. u = Tail(s)
    BY <1>1, <1>2, <2>1
  <2>3. ASSUME NEW i \in DOMAIN u PROVE i + 1 \in DOMAIN s /\ u[i] = s[i + 1]
    <3>1. i + 1 \in DOMAIN s
      BY <1>1, <1>2
    <3>2. u[i] = s[i + 1]
      BY <1>1, <1>2, <2>2, s \in Seq(Int) DEF s
    <3> QED BY <3>1, <3>2
  <2> QED BY <2>2, <2>3
<1>6. ASSUME UnaOperacion(c), NEW i \in DOMAIN u
      PROVE  /\ u[i] # RESTO
             /\ u[i] \in Ops => i + 1 = Len(u) /\ u[i + 1] = CARGA /\ u[i] = pide[c].op
  <2>1. i + 1 \in DOMAIN s /\ u[i] = s[i + 1] /\ s[i + 1] # RESTO
    BY <1>a, <1>5, <1>6
  <2>2. ASSUME u[i] \in Ops PROVE i + 1 = Len(u) /\ u[i + 1] = CARGA /\ u[i] = pide[c].op
    <3>1. /\ (i + 1) + 1 = Len(s) /\ s[(i + 1) + 1] = CARGA
          /\ s[i + 1] = pide[c].op
      BY <1>a, <1>6, <2>1, <2>2
    <3>2. i \in Int /\ i + 1 = Len(u) /\ i + 1 \in DOMAIN u
      BY <1>1, <1>2, <3>1
    <3> QED BY <1>5, <1>6, <2>1, <3>1, <3>2
  <2> QED BY <2>1, <2>2
<1> QED BY <1>1, <1>3, <1>4, <1>5, <1>6, <1>b DEF s, u

\* A step after which nobody may close the connection of somebody else.
Paso == /\ InvTipos /\ InvDescriptores /\ InvHilos /\ InvPedidos /\ InvEspera
        /\ Next /\ Previsto'

LEMMA Antes ==
    ASSUME Paso
    PROVE  /\ Previsto
           /\ \A c \in Clientes : salida[c] <= Uno(Escribe(c))
           /\ vivo => \A c \in Clientes : Sano(c)
           /\ \A c \in Clientes : cliente[c] = "ido" => cliente'[c] = "ido"
           /\ \A t \in Clientes :
                 /\ hilo[t] = "recv" => leyendo[t] = De(t) /\ De(t) \in Clientes
                 /\ hilo[t] \in {"lee", "escribe", "responde"} => De(t) \in Clientes
                 /\ hilo'[t] \in {"lee", "escribe", "responde"} => De(t)' = De(t)
<1>1. Previsto
  BY PrevistoAntes DEF Paso
<1>2. \A c \in Clientes : cliente[c] = "ido" => cliente'[c] = "ido"
  BY Firmeza DEF Firme, Paso
<1>3. ASSUME NEW t \in Clientes
      PROVE  /\ hilo[t] = "recv" => leyendo[t] = De(t) /\ De(t) \in Clientes
             /\ hilo[t] \in {"lee", "escribe", "responde"} => De(t) \in Clientes
             /\ hilo'[t] \in {"lee", "escribe", "responde"} => De(t)' = De(t)
  <2>1. hilo[t] = "recv" => leyendo[t] = De(t) /\ De(t) \in Clientes
    BY <1>1 DEF Paso, InvHilos, InvTipos, TiposStick, TypeOK
  <2>2. hilo[t] \in {"lee", "escribe", "responde"} => De(t) \in Clientes
    BY <1>1, Manos DEF Paso, InvHilos, InvTipos
  <2>3. ASSUME hilo'[t] \in {"lee", "escribe", "responde"} PROVE De(t)' = De(t)
    <3>1. hilo[t] \in {"recv", "lee", "escribe", "responde"}
      BY <2>3, Turnos DEF Turno, Paso
    <3> QED BY <2>1, <2>2, <3>1, DeQueda, SupuestosServidor DEF Paso
  <2> QED BY <2>1, <2>2, <2>3
<1> QED BY <1>1, <1>2, <1>3 DEF Paso, InvPedidos

LEMMA NadieToma ==
    ASSUME Paso, NEW c \in Clientes,
           \A t \in Clientes : hilo'[t] \in {"lee", "escribe", "responde"} =>
               hilo'[t] = hilo[t] \/ De(t) # c
    PROVE  NoToma(c)
BY Antes DEF NoToma

\* What is read is not a request: nothing, an unknown operation or a payload.
LEMMA SanoConsume ==
    ASSUME Paso, vivo, NEW c \in Clientes, Igual(c), NoToma(c),
           entrada[c] # <<>>, entrada'[c] = TrasOperacion(entrada[c]),
           entrada[c] = <<RESTO>> => cliente[c] = "ido"
    PROVE  Sano(c)'
<1>0. Sano(c) /\ (cliente[c] = "ido" => cliente'[c] = "ido")
  BY Antes
<1>1. entrada[c] \in Seq(Int) /\ entrada'[c] \in Seq(Int) /\ pide'[c] = pide[c]
  BY TiposSiguen DEF Paso, InvTipos, TiposStick, Igual
<1>2. UnaContestacion(c)'
  BY <1>0, ContestacionQueda DEF Sano
<1>3. UnaCarga(c)'
  <2> SUFFICES ASSUME NEW i \in DOMAIN entrada'[c], entrada'[c][i] = CARGA
               PROVE  /\ i = Len(entrada'[c])
                      /\ pide'[c] # SinPedido /\ salida'[c] = 0
                      /\ \A t \in Clientes : ~Atiende(t, c, {"responde"})'
    BY DEF UnaCarga
  <2>1. /\ i + 1 \in DOMAIN entrada[c] /\ entrada[c][i + 1] = CARGA
        /\ i + 1 = Len(entrada[c]) => i = Len(entrada'[c])
    BY <1>1, Consume
  <2>2. /\ i + 1 = Len(entrada[c])
        /\ pide[c] # SinPedido /\ salida[c] = 0
        /\ \A t \in Clientes : ~Atiende(t, c, {"responde"})
    BY <1>0, <2>1 DEF Sano, UnaCarga
  <2> QED BY <2>1, <2>2, Atendidos DEF Igual
<1>4. ASSUME Perdido(c) PROVE Perdido(c)'
  <2>1. CASE Roto(entrada[c]) /\ Len(entrada[c]) = 1
    <3>1. entrada[c] = <<RESTO>>
      <4>1. entrada[c][1] = RESTO
        BY <1>1, <2>1 DEF Roto
      <4> QED BY <1>1, <2>1, <4>1
    <3>2. \A i \in DOMAIN entrada[c] : entrada[c][i] # CARGA
      BY <3>1 DEF RESTO, CARGA
    <3>3. CARGA \notin Range(entrada'[c])
      BY <1>1, <3>2, Consume DEF Range
    <3> QED BY <1>0, <3>1, <3>3 DEF Perdido
  <2>2. CASE Roto(entrada[c]) /\ Len(entrada[c]) # 1
    BY <1>1, <2>2, Consume DEF Perdido
  <2>3. CASE cliente[c] = "ido" /\ CARGA \notin Range(entrada[c])
    BY <1>0, <1>1, <2>3, Consume DEF Perdido
  <2> QED BY <1>4, <2>1, <2>2, <2>3 DEF Perdido
<1>5. ASSUME UnaOperacion(c), UnHilo(c) PROVE UnaOperacion(c)' /\ UnHilo(c)'
  <2>1. UnaOperacion(c)'
    BY <1>1, <1>5, Consume
  <2> SUFFICES ASSUME NEW t \in Clientes, Atiende(t, c, {"lee", "escribe"})'
               PROVE  /\ \A i \in DOMAIN entrada'[c] : entrada'[c][i] \notin Ops
                      /\ pide'[c].op = IF hilo'[t] = "escribe" THEN MOV_OUT ELSE MOV_IN
                      /\ salida'[c] = 0
                      /\ \A v \in Clientes :
                            Atiende(v, c, {"lee", "escribe", "responde"})' => v = t
    BY <2>1 DEF UnHilo
  <2>2. Atiende(t, c, {"lee", "escribe"}) /\ hilo'[t] = hilo[t]
    BY Atendidos
  <2>3. \A i \in DOMAIN entrada'[c] : entrada'[c][i] \notin Ops
    BY <1>1, <1>5, <2>2, Consume DEF UnHilo
  <2> QED BY <1>5, <2>2, <2>3, Atendidos DEF UnHilo, Igual
<1> QED BY <1>0, <1>2, <1>3, <1>4, <1>5 DEF Sano

\* A request is read: it is the last of its stream, and nobody else has it.
LEMMA SanoToma ==
    ASSUME Paso, vivo, NEW t \in Clientes, NEW c \in Clientes, De(t) = c, HayOperacion(t), Entiende(entrada[leyendo[t]]),
           TomarOperacion(t), UNCHANGED varsStick,
           Seguir(t, IF Head(entrada[leyendo[t]]) = MOV_IN THEN "lee" ELSE "escribe")
    PROVE  Sano(c)'
<1> DEFINE s == entrada[c]
           x == IF Head(s) = MOV_IN THEN "lee" ELSE "escribe"
<1>1. /\ leyendo[t] = c /\ hilo[t] = "recv"
      /\ Sano(c) /\ (cliente[c] = "ido" => cliente'[c] = "ido")
  BY Antes DEF HayOperacion
<1>2. /\ s \in Seq(Int) /\ s # <<>> /\ Head(s) \in Ops
      /\ entrada'[c] = TrasOperacion(s) /\ Igual(c) /\ pide'[c] = pide[c]
      /\ hilo' = [hilo EXCEPT ![t] = x]
  BY <1>1 DEF Paso, InvTipos, TiposStick, HayOperacion, TomarOperacion, Entiende, Ops,
     Seguir, Igual, varsStick
<1>3. De(t)' = c /\ \A u \in Clientes : hilo'[u] = IF u = t THEN x ELSE hilo[u]
  BY <1>1, <1>2, Antes DEF Paso, InvTipos, TiposStick, TypeOK
<1>4. \A u \in Clientes : Atiende(u, c, {"responde"})' => Atiende(u, c, {"responde"})
  BY <1>1, <1>3, Antes DEF Atiende
<1>5. UnaContestacion(c)'
  BY <1>1, <1>2, <1>4 DEF Sano, UnaContestacion, Igual, Escribe
<1>6. UnaCarga(c)'
  <2> SUFFICES ASSUME NEW i \in DOMAIN entrada'[c], entrada'[c][i] = CARGA
               PROVE  /\ i = Len(entrada'[c])
                      /\ pide'[c] # SinPedido /\ salida'[c] = 0
                      /\ \A u \in Clientes : ~Atiende(u, c, {"responde"})'
    BY DEF UnaCarga
  <2>1. /\ i + 1 \in DOMAIN s /\ s[i + 1] = CARGA
        /\ i + 1 = Len(s) => i = Len(entrada'[c])
    BY <1>1, <1>2, Consume
  <2>2. /\ i + 1 = Len(s) /\ pide[c] # SinPedido /\ salida[c] = 0
        /\ \A u \in Clientes : ~Atiende(u, c, {"responde"})
    BY <1>1, <2>1 DEF Sano, UnaCarga
  <2> QED BY <1>2, <1>4, <2>1, <2>2 DEF Igual
<1>7. 1 \in DOMAIN s /\ Head(s) = s[1] /\ Len(s) \in Nat
  BY <1>2, EmptySeq
<1>8. ASSUME Perdido(c) PROVE Perdido(c)'
  <2>1. CASE Roto(s)
    <3>1. Len(s) # 1
      <4> SUFFICES ASSUME Len(s) = 1 PROVE FALSE
        OBVIOUS
      <4>1. s[1] = RESTO
        BY <1>2, <2>1 DEF Roto
      <4> QED BY <1>2, <1>7, <4>1 DEF Ops, RESTO, MOV_IN, MOV_OUT
    <3> QED BY <1>1, <1>2, <2>1, <3>1, Consume DEF Perdido
  <2>2. CASE cliente[c] = "ido" /\ CARGA \notin Range(s)
    BY <1>1, <1>2, <2>2, Consume DEF Perdido
  <2> QED BY <1>8, <2>1, <2>2 DEF Perdido
<1>9. ASSUME UnaOperacion(c), UnHilo(c) PROVE UnaOperacion(c)' /\ UnHilo(c)'
  <2>1. /\ 1 + 1 = Len(s) /\ s[1 + 1] = CARGA /\ s[1] = pide[c].op
    BY <1>2, <1>7, <1>9 DEF UnaOperacion
  <2>2. /\ salida[c] = 0 /\ \A u \in Clientes : ~Atiende(u, c, {"responde"})
    BY <1>1, <2>1, <1>2, 2 \in 1..Len(s) DEF Sano, UnaCarga
  <2>3. \A u \in Clientes : ~Atiende(u, c, {"lee", "escribe"})
    BY <1>2, <1>7, <1>9 DEF UnHilo
  <2>4. \A u \in Clientes : Atiende(u, c, {"lee", "escribe", "responde"})' => u = t
    BY <1>3, <2>2, <2>3, Antes DEF Atiende
  <2>5. \A i \in DOMAIN entrada'[c] : entrada'[c][i] = CARGA
    <3>1. /\ \A i \in DOMAIN entrada'[c] : i + 1 \in DOMAIN s /\ entrada'[c][i] = s[i + 1]
          /\ entrada'[c] \in Seq(Int)
      BY <1>1, <1>2, <1>9, Consume, Tras
    <3>2. ASSUME NEW i \in DOMAIN entrada'[c] PROVE i = 1
      <4>1. i \in Nat \ {0}
        BY <3>1
      <4>2. i + 1 \in 1..Len(s) /\ Len(s) = 2
        BY <1>2, <2>1, <3>1
      <4> HIDE DEF s
      <4> QED BY <4>1, <4>2
    <3> QED BY <2>1, <3>1, <3>2
  <2>6. UnHilo(c)'
    <3>1. x = "escribe" => s[1] = MOV_OUT
      BY <1>2, <1>7 DEF Ops
    <3>2. x = "lee" => s[1] = MOV_IN
      BY <1>2, <1>7 DEF Ops
    <3>3. hilo'[t] = x /\ x \in {"lee", "escribe"}
      BY <1>3
    <3> HIDE DEF x, s
    <3>4. \A i \in DOMAIN entrada'[c] : entrada'[c][i] \notin Ops
      BY <2>5 DEF Ops, CARGA, MOV_IN, MOV_OUT
    <3>5. \A u \in Clientes : Atiende(u, c, {"lee", "escribe"})' => u = t
      BY <2>4 DEF Atiende
    <3> QED BY <1>2, <2>1, <2>2, <2>4, <3>1, <3>2, <3>3, <3>4, <3>5 DEF UnHilo, Igual
  <2> QED BY <1>1, <1>2, <1>9, <2>6, Consume
<1> QED BY <1>1, <1>5, <1>6, <1>8, <1>9 DEF Sano

\* The payload of a request is read, and its thread answers it.
LEMMA SanoEscribe ==
    ASSUME Paso, vivo, NEW t \in Clientes, NEW c \in Clientes, De(t) = c, Escribir(t)
    PROVE  /\ Sano(c)' /\ Escribe(c)
           /\ pide[c] \in Pedidos
<1> DEFINE s == entrada[c]
<1>1. /\ hilo[t] = "escribe" /\ Sano(c) /\ s # <<>> /\ Head(s) = CARGA
      /\ s \in Seq(Int) /\ entrada'[c] = Tail(s) /\ Igual(c)
      /\ hilo' = [hilo EXCEPT ![t] = "responde"]
  BY Antes DEF Escribir, HayCarga, TomarCarga, Seguir, Igual, Paso, InvTipos, TiposStick
<1>2. De(t)' = c /\ \A u \in Clientes : hilo'[u] = IF u = t THEN "responde" ELSE hilo[u]
  BY <1>1, Antes DEF Paso, InvTipos, TiposStick, TypeOK
<1>3. 1 \in DOMAIN s /\ Head(s) = s[1] /\ Len(s) \in Nat
  BY <1>1, EmptySeq
<1>4. /\ 1 = Len(s) /\ pide[c] # SinPedido /\ salida[c] = 0
      /\ \A u \in Clientes : ~Atiende(u, c, {"responde"})
  BY <1>1, <1>3 DEF Sano, UnaCarga
<1>5. entrada'[c] = <<>>
  <2>1. Tail(s) \in Seq(Int) /\ Len(Tail(s)) = 0
    BY <1>1, <1>4
  <2> QED BY <1>1, <2>1, EmptySeq
<1>6. ~Perdido(c)
  <2>1. ~Roto(s)
    BY <1>1, <1>3 DEF Roto
  <2>2. CARGA \in Range(s)
    BY <1>1, <1>3 DEF Range
  <2> QED BY <2>1, <2>2 DEF Perdido
<1>7. UnHilo(c)
  BY <1>1, <1>6 DEF Sano
<1>8. Atiende(t, c, {"lee", "escribe"})
  BY <1>1 DEF Atiende
<1>9. /\ pide[c].op = MOV_OUT
      /\ \A u \in Clientes : Atiende(u, c, {"lee", "escribe", "responde"}) => u = t
  BY <1>1, <1>7, <1>8 DEF UnHilo
<1>10. \A u \in Clientes : Atiende(u, c, {"lee", "escribe", "responde"})' => u = t
  BY <1>2, <1>9, Antes DEF Atiende
<1>11. UnaContestacion(c)'
  <2>1. \A u \in Clientes : Atiende(u, c, {"responde"})' => u = t
    BY <1>10 DEF Atiende
  <2> QED BY <1>1, <1>4, <1>9, <2>1 DEF UnaContestacion, Igual, Escribe
<1>12. UnaCarga(c)' /\ UnaOperacion(c)'
  BY <1>5 DEF UnaCarga, UnaOperacion
<1>13. UnHilo(c)'
  <2>1. \A u \in Clientes : ~Atiende(u, c, {"lee", "escribe"})'
    <3>1. hilo'[t] = "responde"
      BY <1>2
    <3>2. \A u \in Clientes : Atiende(u, c, {"lee", "escribe"})' =>
              Atiende(u, c, {"lee", "escribe", "responde"})'
      BY DEF Atiende
    <3> QED BY <3>1, <3>2, <1>10 DEF Atiende
  <2> QED BY <2>1 DEF UnHilo
<1>14. pide[c] \in Pedidos /\ Escribe(c)
  BY <1>4, <1>9 DEF Escribe, Paso, InvTipos, TiposStick
<1> QED BY <1>11, <1>12, <1>13, <1>14 DEF Sano

\* The answer goes to the client that waits for it, which has no other.
LEMMA SanoResponde ==
    ASSUME Paso, vivo, NEW t \in Clientes, NEW c \in Clientes, De(t) = c, Responder(t)
    PROVE  /\ Sano(c)' /\ salida'[c] = 1 /\ Escribe(c)
           /\ entrada' = entrada /\ pide' = pide
<1>1. /\ hilo[t] = "responde" /\ Sano(c)
      /\ entrada' = entrada /\ pide' = pide /\ cliente' = cliente
      /\ hilo' = [hilo EXCEPT ![t] = "llama"]
  BY Antes DEF Responder, Seguir
<1>2. \A u \in Clientes : hilo'[u] = IF u = t THEN "llama" ELSE hilo[u]
  BY <1>1 DEF Paso, InvTipos, TiposStick, TypeOK
<1>3. Atiende(t, c, {"responde"})
  BY <1>1 DEF Atiende
<1>4. /\ salida[c] = 0 /\ Escribe(c)
      /\ \A u \in Clientes : Atiende(u, c, {"responde"}) => u = t
      /\ \A i \in DOMAIN entrada[c] : entrada[c][i] # CARGA
  BY <1>1, <1>3 DEF Sano, UnaContestacion, UnaCarga, Paso, InvTipos, TiposStick, TypeOK
<1>5. salida'[c] = 1
  BY <1>4 DEF Responder, Rota
<1>6. \A u \in Clientes : ~Atiende(u, c, {"responde"})'
  <2>1. \A u \in Clientes : Atiende(u, c, {"responde"})' => Atiende(u, c, {"responde"}) /\ u # t
    BY <1>2, Antes DEF Atiende
  <2> QED BY <1>4, <2>1
<1>7. UnaContestacion(c)' /\ UnaCarga(c)'
  BY <1>1, <1>4, <1>6 DEF UnaContestacion, UnaCarga
<1>8. Perdido(c) => Perdido(c)'
  BY <1>1 DEF Perdido
<1>9. ASSUME UnaOperacion(c), UnHilo(c) PROVE UnaOperacion(c)' /\ UnHilo(c)'
  <2>1. UnaOperacion(c)'
    BY <1>1, <1>9 DEF UnaOperacion
  <2>2. \A u \in Clientes : ~Atiende(u, c, {"lee", "escribe"})
    <3>1. \A u \in Clientes : Atiende(u, c, {"lee", "escribe"}) => u # t
      BY <1>1 DEF Atiende
    <3>2. Atiende(t, c, {"lee", "escribe", "responde"})
      BY <1>3 DEF Atiende
    <3> QED BY <1>9, <3>1, <3>2 DEF UnHilo
  <2>3. \A u \in Clientes : ~Atiende(u, c, {"lee", "escribe"})'
    BY <1>2, <2>2, Antes DEF Atiende
  <2> QED BY <2>1, <2>3 DEF UnHilo
<1> QED BY <1>1, <1>4, <1>5, <1>7, <1>8, <1>9 DEF Sano

\* A client that waits for nothing has nothing under way.
LEMMA Nada ==
    ASSUME Paso, vivo, NEW c \in Clientes, pide[c] = SinPedido
    PROVE  /\ salida[c] = 0 /\ ~Escribe(c) /\ Sano(c)
           /\ \A i \in DOMAIN entrada[c] : entrada[c][i] # CARGA
           /\ UnaOperacion(c) => \A i \in DOMAIN entrada[c] : entrada[c][i] \notin Ops
           /\ \A u \in Clientes : ~Atiende(u, c, {"responde"})
           /\ UnHilo(c) => \A u \in Clientes : ~Atiende(u, c, {"lee", "escribe"})
<1>1. Sano(c) /\ ~Escribe(c) /\ pide[c].op = 0
  BY Antes DEF Escribe, SinPedido, MOV_OUT
<1>2. salida[c] = 0
  <2>1. salida[c] <= 0 /\ salida[c] \in Nat
    BY <1>1, Antes DEF Uno, Paso, InvTipos, TiposStick, TypeOK
  <2> QED BY <2>1
<1>3. \A i \in DOMAIN entrada[c] : entrada[c][i] # CARGA
  BY <1>1 DEF Sano, UnaCarga
<1>4. ASSUME UnaOperacion(c) PROVE \A i \in DOMAIN entrada[c] : entrada[c][i] \notin Ops
  BY <1>1, <1>4 DEF UnaOperacion, Ops, MOV_IN, MOV_OUT
<1>5. \A u \in Clientes : ~Atiende(u, c, {"responde"})
  BY <1>1 DEF Sano, UnaContestacion
<1>6. ASSUME UnHilo(c) PROVE \A u \in Clientes : ~Atiende(u, c, {"lee", "escribe"})
  BY <1>1, <1>6 DEF UnHilo, MOV_IN, MOV_OUT
<1> QED BY <1>1, <1>2, <1>3, <1>4, <1>5, <1>6

LEMMA SanoPide ==
    ASSUME Paso, vivo, NEW c \in Clientes, NEW p \in Pedidos, Enviar(c, p),
           pide[c] = SinPedido
    PROVE  Sano(c)'
<1> DEFINE s == entrada[c]
           u == entrada'[c]
<1>1. /\ s \in Seq(Int) /\ p.op \in Ops /\ p.op \in Int /\ u = s \o <<p.op, CARGA>>
      /\ cliente' = cliente /\ cliente[c] = "dentro" /\ hilo' = hilo
      /\ salida' = salida /\ pide'[c] = p
  BY DEF Enviar, Pedidos, Ops, MOV_IN, MOV_OUT, Paso, InvTipos, TiposStick
<1>2. /\ Len(u) = Len(s) + 2 /\ DOMAIN u = 1..(Len(s) + 2) /\ DOMAIN s = 1..Len(s)
      /\ Len(s) \in Nat
      /\ \A i \in DOMAIN s : u[i] = s[i]
      /\ u[Len(s) + 1] = p.op /\ u[Len(s) + 2] = CARGA
      /\ Roto(s) => Roto(u)
  <2>1. Len(s) \in Nat
    BY <1>1
  <2> HIDE DEF s, u
  <2> QED BY <1>1, <2>1, Agrega
<1>3. /\ salida[c] = 0 /\ Sano(c)
      /\ \A i \in DOMAIN s : s[i] # CARGA
      /\ UnaOperacion(c) => \A i \in DOMAIN s : s[i] \notin Ops
      /\ \A t \in Clientes : ~Atiende(t, c, {"responde"})
      /\ UnHilo(c) => \A t \in Clientes : ~Atiende(t, c, {"lee", "escribe"})
  BY Nada
<1>4. NoToma(c)
  BY <1>1, NadieToma
<1>5. UnaContestacion(c)'
  BY <1>3, <1>4, <1>1, Atendidos DEF UnaContestacion
<1>a. Len(s) + 1 \in DOMAIN u /\ Len(s) + 2 \in DOMAIN u
  <2> HIDE DEF s, u
  <2> QED BY <1>2
<1>6. UnaCarga(c)'
  <2> SUFFICES ASSUME NEW i \in DOMAIN u, u[i] = CARGA PROVE i = Len(u)
    <3>1. pide'[c] # SinPedido /\ salida'[c] = 0
      BY <1>1, <1>3 DEF SinPedido, Ops, MOV_IN, MOV_OUT
    <3> QED BY <1>3, <1>4, <3>1, Atendidos DEF UnaCarga
  <2>1. i \notin DOMAIN s
    BY <1>2, <1>3
  <2>2. i # Len(s) + 1
    <3>1. p.op # CARGA
      BY <1>1 DEF Ops, CARGA, MOV_IN, MOV_OUT
    <3> HIDE DEF s, u
    <3> QED BY <1>2, <3>1
  <2> HIDE DEF s, u
  <2> QED BY <1>2, <2>1, <2>2
<1>7. ASSUME Perdido(c) PROVE Perdido(c)'
  BY <1>1, <1>2, <1>7 DEF Perdido
<1>8. ASSUME UnaOperacion(c), UnHilo(c) PROVE UnaOperacion(c)' /\ UnHilo(c)'
  <2>1. ASSUME NEW i \in DOMAIN u
        PROVE  /\ u[i] # RESTO
               /\ u[i] \in Ops => i + 1 = Len(u) /\ u[i + 1] = CARGA /\ u[i] = p.op
    <3>1. CASE i \in DOMAIN s
      BY <1>2, <1>3, <1>8, <3>1 DEF UnaOperacion
    <3>2. CASE i = Len(s) + 1
      <4>1. u[i] = p.op /\ u[i] # RESTO
        BY <1>1, <1>2, <3>2 DEF Ops, RESTO, MOV_IN, MOV_OUT
      <4>2. i + 1 = Len(u) /\ i + 1 = Len(s) + 2
        <5> HIDE DEF s, u
        <5> QED BY <1>2, <3>2
      <4> QED BY <1>2, <4>1, <4>2
    <3>3. CASE i = Len(s) + 2
      BY <1>2, <3>3 DEF Ops, RESTO, CARGA, MOV_IN, MOV_OUT
    <3> QED
      <4> HIDE DEF s, u
      <4> QED BY <1>2, <3>1, <3>2, <3>3
  <2>2. UnaOperacion(c)'
    BY <1>1, <2>1 DEF UnaOperacion
  <2>3. \A t \in Clientes : ~Atiende(t, c, {"lee", "escribe"})'
    BY <1>3, <1>4, <1>8, Atendidos
  <2> QED BY <2>2, <2>3 DEF UnHilo
<1> QED BY <1>3, <1>5, <1>6, <1>7, <1>8 DEF Sano

LEMMA SanoRecibe ==
    ASSUME Paso, vivo, NEW c \in Clientes, Recibir(c)
    PROVE  Sano(c)' /\ salida'[c] = 0 /\ pide'[c] = SinPedido
<1>1. /\ hilo' = hilo /\ cliente' = cliente /\ entrada' = entrada
      /\ salida[c] > 0 /\ salida'[c] = salida[c] - 1 /\ pide'[c] = SinPedido /\ Sano(c)
  BY Antes DEF Recibir, varsServidor, Paso, InvTipos, TiposStick, TypeOK
<1>2. salida'[c] = 0
  <2>1. salida[c] <= 1 /\ salida[c] \in Nat
    BY Antes DEF Uno, Paso, InvTipos, TiposStick, TypeOK
  <2> QED BY <1>1, <2>1
<1>3. NoToma(c)
  BY <1>1, NadieToma
<1>4. \A t \in Clientes : ~Atiende(t, c, {"responde"})'
  BY <1>1, <1>3, Atendidos DEF Sano, UnaContestacion
<1>5. \A i \in DOMAIN entrada[c] : entrada[c][i] # CARGA
  BY <1>1 DEF Sano, UnaCarga
<1>6. UnaContestacion(c)' /\ UnaCarga(c)'
  BY <1>1, <1>4, <1>5 DEF UnaContestacion, UnaCarga
<1>7. Perdido(c) => Perdido(c)'
  BY <1>1 DEF Perdido
<1>8. ASSUME UnaOperacion(c), UnHilo(c) PROVE UnaOperacion(c)' /\ UnHilo(c)'
  <2>1. \A i \in DOMAIN entrada[c] : entrada[c][i] # RESTO /\ entrada[c][i] \notin Ops
    <3>1. ASSUME NEW i \in DOMAIN entrada[c], entrada[c][i] \in Ops PROVE FALSE
      <4>1. i + 1 = Len(entrada[c]) /\ entrada[c][i + 1] = CARGA
        BY <1>8, <3>1 DEF UnaOperacion
      <4>2. entrada[c] \in Seq(Int)
        BY DEF Paso, InvTipos, TiposStick
      <4>3. i + 1 \in DOMAIN entrada[c]
        BY <4>1, <4>2
      <4> QED BY <1>5, <4>1, <4>3
    <3> QED BY <1>8, <3>1 DEF UnaOperacion
  <2>2. \A t \in Clientes : ~Atiende(t, c, {"lee", "escribe"})
    BY <1>1, <1>8 DEF UnHilo
  <2>3. \A t \in Clientes : ~Atiende(t, c, {"lee", "escribe"})'
    BY <1>3, <2>2, Atendidos
  <2> QED BY <1>1, <2>1, <2>3 DEF UnaOperacion, UnHilo
<1> QED BY <1>1, <1>2, <1>6, <1>7, <1>8 DEF Sano

\* What the payload should be has been something else: the stream is shifted.
LEMMA SanoRoto ==
    ASSUME Paso, vivo, NEW c \in Clientes, NoToma(c), Igual(c), entrada'[c] = <<RESTO>>
    PROVE  Sano(c)'
<1>1. Sano(c)
  BY Antes
<1>2. UnaContestacion(c)'
  BY <1>1, ContestacionQueda DEF Sano
<1>3. \A i \in DOMAIN <<RESTO>> : <<RESTO>>[i] # CARGA
  BY DEF RESTO, CARGA
<1>4. UnaCarga(c)'
  BY <1>3 DEF UnaCarga
<1>5. Roto(<<RESTO>>)
  BY DEF Roto, RESTO, CARGA
<1> QED BY <1>2, <1>4, <1>5 DEF Sano, Perdido

LEMMA SanoEntra ==
    ASSUME Paso, vivo, NEW c \in Clientes, Entra(c)
    PROVE  Sano(c)'
<1>1. /\ cliente[c] = "fuera" /\ hilo' = hilo /\ conexion' = conexion /\ socket' = socket
      /\ salida' = salida /\ pide' = pide /\ pide[c] = SinPedido
      /\ entrada'[c] = Saludo
  BY DEF Entra, Conectar, varsStick, Paso, InvTipos, TiposStick, InvDescriptores
<1>2. salida[c] = 0 /\ \A t \in Clientes : ~Atiende(t, c, {"responde"})
  BY <1>1, Nada
<1>3. \A t \in Clientes : hilo[t] # "sin" => De(t) # c
  BY <1>1 DEF De, Paso, InvDescriptores, InvTipos, TiposStick, TypeOK
<1>4. \A t \in Clientes, P \in SUBSET {"lee", "escribe", "responde"} : ~Atiende(t, c, P)'
  BY <1>1, <1>3 DEF Atiende, De
<1>5. /\ \A i \in DOMAIN Saludo : Saludo[i] # CARGA
      /\ Roto(Saludo) \/ \A i \in DOMAIN Saludo : Saludo[i] # RESTO /\ Saludo[i] \notin Ops
  BY SaludoEs DEF Paso, InvTipos, TiposStick
<1>6. UnaContestacion(c)'
  BY <1>1, <1>2, <1>4 DEF UnaContestacion
<1>7. UnaCarga(c)' /\ UnHilo(c)'
  BY <1>1, <1>4, <1>5 DEF UnaCarga, UnHilo
<1>8. Roto(Saludo) => Perdido(c)'
  BY <1>1 DEF Perdido
<1>9. (\A i \in DOMAIN Saludo : Saludo[i] # RESTO /\ Saludo[i] \notin Ops) => UnaOperacion(c)'
  BY <1>1 DEF UnaOperacion
<1> QED BY <1>5, <1>6, <1>7, <1>8, <1>9 DEF Sano

\* What InvPedidos says of one client after a step.
Cumple(c) == salida'[c] <= Uno(Escribe(c))' /\ (vivo' => Sano(c)')

LEMMA CumpleQuieto ==
    ASSUME Paso, vivo' => vivo, NEW c \in Clientes, NoToma(c), Igual(c),
           entrada'[c] = entrada[c]
    PROVE  Cumple(c)
<1>1. salida'[c] <= Uno(Escribe(c))'
  BY Antes DEF Igual, Escribe, Uno
<1> QED BY <1>1, Antes, SanoQuieto DEF Cumple

\* An operation is read from the stream of the client of the descriptor.
LEMMA CumpleOperacion ==
    ASSUME Paso, vivo, NEW t \in Clientes, NEW c \in Clientes,
           Operacion_conocida(t) \/ Operacion_desconocida(t)
    PROVE  Cumple(c)
<1>1. UNCHANGED varsStick /\ Igual(c)
  BY DEF Operacion_conocida, Operacion_desconocida, Igual, varsStick
<1>a. salida'[c] <= Uno(Escribe(c))'
  BY <1>1, Antes DEF Igual, Escribe, Uno
<1> DEFINE d == leyendo[t]
<1>2. CASE HayOperacion(t) /\ TomarOperacion(t)
  <2>1. /\ d = De(t) /\ hilo[t] = "recv" /\ d \in Clientes
        /\ entrada' = [entrada EXCEPT ![d] = TrasOperacion(@)]
        /\ entrada[d] # <<>>
    BY <1>2, Antes DEF HayOperacion, TomarOperacion
  <2>2. \A u \in Clientes : u # t => hilo'[u] = hilo[u]
    <3>1. \E x : Seguir(t, x)
      BY DEF Operacion_conocida, Operacion_desconocida
    <3> QED BY <3>1 DEF Seguir, Paso, InvTipos, TiposStick, TypeOK
  <2>3. CASE c # d
    <3>1. NoToma(c)
      BY <2>1, <2>2, <2>3, NadieToma
    <3>2. entrada'[c] = entrada[c]
      BY <2>1, <2>3
    <3> QED BY <1>1, <3>1, <3>2, CumpleQuieto
  <2>4. CASE c = d /\ Operacion_conocida(t)
    BY <1>a, <2>1, <2>4, SanoToma DEF Operacion_conocida, Cumple
  <2>5. CASE c = d /\ ~Operacion_conocida(t)
    <3>1. hilo'[t] # "lee" /\ hilo'[t] # "escribe" /\ hilo'[t] # "responde"
      <4>1. hilo' = [hilo EXCEPT ![t] = "llama"]
        BY <2>5 DEF Operacion_desconocida, Seguir
      <4> QED BY <4>1 DEF Paso, InvTipos, TiposStick, TypeOK
    <3>2. NoToma(c)
      BY <2>2, <3>1, NadieToma
    <3>3. entrada'[c] = TrasOperacion(entrada[c]) /\ entrada[c] # <<>>
      BY <2>1, <2>5 DEF Paso, InvTipos, TiposStick
    <3>4. entrada[c] = <<RESTO>> => cliente[c] = "ido"
      BY <1>2, <2>5 DEF HayOperacion, Desalineado
    <3> QED BY <1>1, <1>a, <3>2, <3>3, <3>4, SanoConsume DEF Cumple
  <2> QED BY <2>3, <2>4, <2>5
<1>3. CASE hilo[t] = "desconocida" /\ entrada' = entrada /\ Operacion_desconocida(t)
  <2>1. hilo' = [hilo EXCEPT ![t] = "llama"]
    BY <1>3 DEF Operacion_desconocida, Seguir
  <2>2. NoToma(c)
    BY <2>1, NadieToma DEF Paso, InvTipos, TiposStick, TypeOK
  <2> QED BY <1>1, <1>3, <2>2, CumpleQuieto
<1> QED BY <1>2, <1>3 DEF Operacion_conocida, Operacion_desconocida

LEMMA CumpleCarga ==
    ASSUME Paso, vivo, NEW t \in Clientes, NEW c \in Clientes, Leer(t) \/ Escribir(t)
    PROVE  Cumple(c)
<1>1. Igual(c)
  BY DEF Leer, Escribir, Igual, varsStick
<1>a. salida'[c] <= Uno(Escribe(c))'
  BY <1>1, Antes DEF Igual, Escribe, Uno
<1> DEFINE d == De(t)
<1>2. /\ d \in Clientes /\ hilo[t] \in {"lee", "escribe"}
      /\ entrada' = [entrada EXCEPT ![d] = Tail(@)]
      /\ entrada[d] # <<>> /\ Head(entrada[d]) = CARGA
  BY Antes DEF Leer, Escribir, HayCarga, TomarCarga
<1>3. \A u \in Clientes : u # t => hilo'[u] = hilo[u]
  BY DEF Leer, Escribir, Seguir, Paso, InvTipos, TiposStick, TypeOK
<1>4. CASE c # d
  <2>1. NoToma(c)
    BY <1>2, <1>3, <1>4, NadieToma
  <2>2. entrada'[c] = entrada[c]
    BY <1>2, <1>4
  <2> QED BY <1>1, <2>1, <2>2, CumpleQuieto
<1>5. CASE c = d /\ Escribir(t)
  BY <1>a, <1>5, SanoEscribe DEF Cumple
<1>6. CASE c = d /\ Leer(t)
  <2>1. hilo' = [hilo EXCEPT ![t] = "llama"]
    BY <1>6 DEF Leer, Seguir
  <2>2. NoToma(c)
    BY <1>3, <2>1, NadieToma DEF Paso, InvTipos, TiposStick, TypeOK
  <2>3. entrada'[c] = Tail(entrada[c])
    BY <1>2, <1>6 DEF Paso, InvTipos, TiposStick
  <2>4. TrasOperacion(entrada[c]) = Tail(entrada[c])
    BY <1>2, <1>6 DEF TrasOperacion, Desalineado, CARGA, RESTO
  <2>5. entrada[c] # <<RESTO>>
    BY <1>2, <1>6 DEF CARGA, RESTO
  <2> QED BY <1>1, <1>2, <1>6, <1>a, <2>2, <2>3, <2>4, <2>5, SanoConsume DEF Cumple
<1> QED BY <1>4, <1>5, <1>6

LEMMA CumpleSinCarga ==
    ASSUME Paso, vivo, NEW t \in Clientes, NEW c \in Clientes, SinCarga(t)
    PROVE  Cumple(c)
<1>1. Igual(c)
  BY DEF SinCarga, Igual
<1>a. salida'[c] <= Uno(Escribe(c))'
  BY <1>1, Antes DEF Igual, Escribe, Uno
<1>2. NoToma(c)
  <2>1. CASE hilo' = hilo
    BY <2>1, NadieToma
  <2>2. ASSUME NEW x \in {"colgado", "llama"}, Seguir(t, x) PROVE NoToma(c)
    BY <2>2, NadieToma DEF Seguir, Paso, InvTipos, TiposStick, TypeOK
  <2> QED BY <2>1, <2>2 DEF SinCarga
<1>3. entrada'[c] = entrada[c] \/ entrada'[c] = <<RESTO>>
  BY DEF SinCarga
<1>4. CASE entrada'[c] = entrada[c]
  BY <1>1, <1>2, <1>4, CumpleQuieto
<1>5. CASE entrada'[c] = <<RESTO>>
  BY <1>1, <1>a, <1>2, <1>5, SanoRoto DEF Cumple
<1> QED BY <1>3, <1>4, <1>5

LEMMA CumpleResponde ==
    ASSUME Paso, vivo, NEW t \in Clientes, NEW c \in Clientes, Responder(t)
    PROVE  Cumple(c)
<1>1. CASE De(t) = c
  <2>1. Sano(c)' /\ salida'[c] = 1 /\ Escribe(c) /\ pide' = pide
    BY <1>1, SanoResponde
  <2> QED BY <2>1 DEF Cumple, Uno, Escribe
<1>2. CASE De(t) # c
  <2>1. NoToma(c)
    <3>1. \A u \in Clientes : u # t => hilo'[u] = hilo[u]
      BY DEF Responder, Seguir
    <3> QED BY <1>2, <3>1, NadieToma
  <2>2. Igual(c) /\ entrada' = entrada
    BY <1>2 DEF Responder, Igual, Paso, InvTipos, TiposStick, TypeOK
  <2> QED BY <2>1, <2>2, CumpleQuieto
<1> QED BY <1>1, <1>2

LEMMA PedidosSiguen ==
    ASSUME InvTipos, InvDescriptores, InvHilos, InvPedidos, InvEspera, Next
    PROVE  InvPedidos'
<1> SUFFICES ASSUME Previsto', NEW c \in Clientes PROVE Cumple(c)
  BY DEF InvPedidos, Cumple
<1>0. Paso
  BY DEF Paso
<1>1. vivo \in BOOLEAN /\ salida[c] \in Nat
  BY DEF InvTipos, TiposStick, TypeOK
<1>2. CASE UNCHANGED vars
  <2>1. NoToma(c) /\ Igual(c) /\ entrada' = entrada /\ vivo' = vivo
    BY <1>0, <1>2, NadieToma DEF vars, varsServidor, varsStick, Igual
  <2> QED BY <1>0, <2>1, CumpleQuieto
<1>3. ASSUME NEW d \in Clientes, NEW p \in Pedidos, Enviar(d, p),
             IF d = cpu THEN punto = "acceso" ELSE pide[d] = SinPedido
      PROVE  Cumple(c)
  <2>0. vivo' = vivo /\ hilo' = hilo
    BY <1>3 DEF Enviar
  <2>1. CASE c # d
    <3>1. NoToma(c) /\ Igual(c) /\ entrada'[c] = entrada[c]
      BY <1>0, <1>3, <2>0, <2>1, NadieToma DEF Enviar, Igual
    <3> QED BY <1>0, <2>0, <3>1, CumpleQuieto
  <2>2. CASE c = d
    <3>1. pide[c] = SinPedido \/ (~vivo /\ salida[c] = 0)
      BY <1>0, <1>3, <2>2, Antes DEF InvEspera, EnEspera
    <3>2. pide[c] = SinPedido => ~Escribe(c)
      BY DEF Escribe, SinPedido, MOV_OUT
    <3>3. salida[c] <= Uno(Escribe(c))
      BY <1>0, Antes
    <3>4. salida[c] = 0
      BY <1>1, <3>1, <3>2, <3>3 DEF Uno
    <3>5. salida' = salida /\ salida'[c] <= Uno(Escribe(c))'
      BY <1>3, <3>4 DEF Enviar, Uno
    <3>6. vivo' => Sano(c)'
      BY <1>0, <1>3, <2>0, <2>2, <3>1, SanoPide
    <3> QED BY <3>5, <3>6 DEF Cumple
  <2> QED BY <2>1, <2>2
<1>4. ASSUME NEW d \in Clientes, Recibir(d) PROVE Cumple(c)
  <2>0. vivo' = vivo /\ hilo' = hilo
    BY <1>4 DEF Recibir, varsServidor
  <2>1. CASE c # d
    <3>1. NoToma(c) /\ Igual(c) /\ entrada' = entrada
      BY <1>0, <1>4, <2>0, <2>1, NadieToma DEF Recibir, varsServidor, Igual
    <3> QED BY <1>0, <2>0, <3>1, CumpleQuieto
  <2>2. CASE c = d
    <3>1. salida[c] <= 1
      BY <1>0, <1>1, Antes DEF Uno
    <3>2. salida[c] > 0 /\ salida'[c] = salida[c] - 1
      BY <1>4, <2>2 DEF Recibir, InvTipos, TiposStick, TypeOK
    <3>3. salida'[c] = 0
      BY <1>1, <3>1, <3>2
    <3>4. salida'[c] <= Uno(Escribe(c))'
      BY <3>3 DEF Uno
    <3> QED BY <1>0, <1>4, <2>0, <2>2, <3>4, SanoRecibe DEF Cumple
  <2> QED BY <2>1, <2>2
<1>5. ASSUME NEW d \in Clientes, Admision(d) \/ SeVa(d) PROVE Cumple(c)
  <2>1. Igual(c) /\ entrada' = entrada /\ vivo' = vivo
    BY <1>5 DEF Admision, Aceptar, SeVa, Desconectar, varsStick, Igual
  <2>2. NoToma(c)
    BY <1>0, <1>5, NadieToma DEF Admision, Aceptar, SeVa, Desconectar, InvTipos,
       TiposStick, TypeOK
  <2> QED BY <1>0, <2>1, <2>2, CumpleQuieto
<1>6. ASSUME NEW d \in Clientes, Entra(d) PROVE Cumple(c)
  <2>1. Igual(c) /\ hilo' = hilo /\ vivo' = vivo /\ vivo
    BY <1>6 DEF Entra, Conectar, varsStick, Igual
  <2>2. NoToma(c)
    BY <1>0, <2>1, NadieToma
  <2>3. CASE c # d
    <3>1. entrada'[c] = entrada[c]
      BY <1>6, <2>3 DEF Entra, Conectar
    <3> QED BY <1>0, <2>1, <2>2, <3>1, CumpleQuieto
  <2>4. CASE c = d
    <3>1. salida'[c] <= Uno(Escribe(c))'
      BY <1>0, <2>1, Antes DEF Igual, Escribe, Uno
    <3> QED BY <1>0, <1>6, <2>1, <2>4, <3>1, SanoEntra DEF Cumple
  <2> QED BY <2>3, <2>4
<1>7. ASSUME NEW d \in Clientes, Atencion(d) PROVE Cumple(c)
  <2>0. vivo
    BY <1>7 DEF Atencion
  <2>1. CASE (LlamarRecv(d) \/ LlegaFin(d) \/ CerrarEnRecibir(d)) /\ UNCHANGED varsStick
    <3>1. Igual(c) /\ entrada' = entrada
      BY <2>1 DEF LlamarRecv, LlegaFin, CerrarEnRecibir, varsStick, Igual
    <3>2. NoToma(c)
      BY <1>0, <2>1, NadieToma DEF LlamarRecv, LlegaFin, CerrarEnRecibir, InvTipos,
         TiposStick, TypeOK
    <3> QED BY <1>0, <2>0, <3>1, <3>2, CumpleQuieto
  <2> QED BY <1>0, <1>7, <2>0, <2>1, CumpleOperacion, CumpleCarga, CumpleSinCarga,
             CumpleResponde DEF Atencion
<1>8. CASE \E d \in Clientes, p \in Pedidos :
              Enviar(d, p) /\ IF d = cpu THEN punto = "acceso" ELSE pide[d] = SinPedido
  BY <1>3, <1>8
<1>9. \/ UNCHANGED vars
      \/ \E d \in Clientes, p \in Pedidos :
              Enviar(d, p) /\ IF d = cpu THEN punto = "acceso" ELSE pide[d] = SinPedido
      \/ \E d \in Clientes :
            Recibir(d) \/ Admision(d) \/ Atencion(d) \/ Entra(d) \/ SeVa(d)
  BY Casos
<1> QED BY <1>2, <1>4, <1>5, <1>6, <1>7, <1>8, <1>9

LEMMA EsperaSigue ==
    ASSUME InvTipos, InvDescriptores, InvHilos, InvPedidos, InvEspera, Next
    PROVE  InvEspera'
<1> SUFFICES ASSUME Previsto'
             PROVE  EnEspera' \/ pide'[cpu] = SinPedido \/ (~vivo' /\ salida'[cpu] = 0)
  BY DEF InvEspera
<1>0. /\ cpu \in Clientes /\ Previsto
      /\ EnEspera \/ pide[cpu] = SinPedido \/ (~vivo /\ salida[cpu] = 0)
  BY PrevistoAntes, SupuestosCpuConStick DEF InvEspera
<1>1. CASE UNCHANGED vars /\ (EnEspera => EnEspera' \/ (~vivo /\ salida[cpu] = 0))
  BY <1>0, <1>1 DEF vars, varsStick
<1>2. CASE PasoCpu
  <2>1. ASSUME EnEspera PROVE ~vivo /\ salida[cpu] = 0
    <3>1. C!AccesoFalla
      BY <1>2, <2>1 DEF EnEspera, PasoCpu, C!Interno, C!Recibir, C!Fetch, C!FetchFalla,
         C!Calcular, C!MovSinRegistro, C!MovSegFault, C!Mov, C!Exit, C!Invalida,
         C!FinAcceso, C!Interrumpir, C!Continuar, C!Decodifica
    <3>2. Cortada
      BY <2>1, <3>1 DEF C!AccesoFalla, EnEspera, EnStick, Caidos
    <3>3. conexion[socket[cpu]] = cpu /\ socket[cpu] \in Fds
      BY <1>0, <1>2, <3>2 DEF Cortada, PasoCpu, Previsto, InvTipos, TiposStick, TypeOK
    <3> QED BY <3>2, <3>3 DEF Cortada
  <2> QED BY <1>1, <1>2, <2>1 DEF PasoCpu
<1>3. CASE LlegaDeKm \/ PedirAKm \/ Despachar
  <2>1. ~EnEspera
    BY <1>3 DEF EnEspera, EnStick, LlegaDeKm, PedirAKm, Despachar, C!DeKm,
       C!LlegaInstruccion, C!LecturaDeKm, C!EscrituraDeKm, C!KM
  <2> QED BY <1>1, <1>3, <2>1 DEF LlegaDeKm, PedirAKm, Despachar
<1>4. CASE LlegaDelStick
  BY <1>0, <1>4 DEF LlegaDelStick, Recibir, InvTipos, TiposStick
<1>5. CASE PedirAlStick
  <2>1. acceso \in Locales
    BY DEF InvTipos, InvCpu
  <2>2. punto' = "espera_stick" /\ acceso'.a = 1
    BY <1>5, <2>1 DEF PedirAlStick, C!Pedir, C!Ir, Locales
  <2> QED BY <2>2 DEF EnEspera, EnStick
<1>6. ASSUME UNCHANGED varsCpu, pide'[cpu] = pide[cpu],
             ~vivo => ~vivo' /\ salida'[cpu] = salida[cpu]
      PROVE  EnEspera' \/ pide'[cpu] = SinPedido \/ (~vivo' /\ salida'[cpu] = 0)
  BY <1>0, <1>6 DEF EnEspera, EnStick, varsCpu
<1>7. CASE StickServidor
  <2>1. PICK c \in Clientes : Admision(c) \/ Atencion(c)
    BY <1>7 DEF StickServidor
  <2>2. vivo /\ pide' = pide
    BY <2>1 DEF Admision, Aceptar, Atencion, Operacion_conocida, Operacion_desconocida,
       Leer, Escribir, SinCarga, Responder, varsStick
  <2> QED BY <1>6, <1>7, <2>2 DEF StickServidor
<1>8. CASE Ambiente
  <2>1. CASE \E c \in Clientes : Entra(c) \/ SeVa(c)
    BY <1>6, <1>8, <2>1 DEF Ambiente, Entra, SeVa, varsStick
  <2>2. ASSUME NEW c \in Clientes \ {cpu}, Recibir(c) \/ \E p \in Otros : Enviar(c, p)
        PROVE  vivo' = vivo /\ salida'[cpu] = salida[cpu] /\ pide'[cpu] = pide[cpu]
    BY <2>2, <1>0 DEF Recibir, Enviar, InvTipos, TiposStick, TypeOK
  <2>3. CASE \E c \in Clientes \ {cpu} : Recibir(c) \/ \E p \in Otros : Enviar(c, p)
    BY <1>6, <1>8, <2>2, <2>3 DEF Ambiente
  <2> QED BY <1>8, <2>1, <2>3 DEF Ambiente
<1> QED BY <1>2, <1>3, <1>4, <1>5, <1>7, <1>8 DEF Next, HiloCpu

-----------------------------------------------------------------------------
(* While nobody leaves *)

\* What is known when nobody has left, nor leaves in the step.
Todos == Paso /\ NadieSeFue /\ vivo /\ InvPresentes

LEMMA Propios ==
    ASSUME Todos
    PROVE  /\ \A t \in Clientes : hilo[t] # "sin" => De(t) = t /\ cliente[t] = "dentro"
           /\ \A t \in Clientes : hilo[t] = "recv" => leyendo[t] = t
           /\ \A c \in Clientes : /\ Presente(c) /\ entrada[c] \in Seq(Int)
                                  /\ UnaContestacion(c) /\ UnaCarga(c)
                                  /\ UnaOperacion(c) /\ UnHilo(c)
<1>1. Paso /\ \A c \in Clientes : cliente[c] # "ido" /\ entrada[c] \in Seq(Int)
  BY DEF Todos, NadieSeFue, Idos, Paso, InvTipos, TiposStick
<1>2. ASSUME NEW t \in Clientes, hilo[t] # "sin"
      PROVE  De(t) = t /\ cliente[t] = "dentro"
  <2>1. cliente[t] = "dentro"
    BY <1>1, <1>2 DEF Paso, InvDescriptores, InvTipos, TiposStick
  <2> QED BY <1>1, <1>2, <2>1, Antes DEF Previsto, De
<1>3. \A t \in Clientes : hilo[t] = "recv" => leyendo[t] = t
  BY <1>1, <1>2, Antes
<1>4. ASSUME NEW c \in Clientes
      PROVE  /\ Presente(c) /\ UnaContestacion(c) /\ UnaCarga(c)
             /\ UnaOperacion(c) /\ UnHilo(c)
  <2>1. Presente(c) /\ Sano(c)
    BY <1>1, Antes DEF Todos, InvPresentes
  <2>2. ~Perdido(c)
    BY <1>1, <2>1 DEF Presente, Perdido, Roto, Range
  <2> QED BY <2>1, <2>2 DEF Sano
<1> QED BY <1>1, <1>2, <1>3, <1>4

LEMMA PresenteQuieto ==
    ASSUME Todos, NEW c \in Clientes, Igual(c), entrada'[c] = entrada[c],
           \/ hilo'[c] = hilo[c]
           \/ hilo'[c] \notin {"lee", "escribe"} /\ hilo[c] \notin {"escribe", "responde"}
    PROVE  Presente(c)'
<1>1. Presente(c)
  BY Propios
<1> QED BY <1>1 DEF Presente, Igual, Escribe

LEMMA PresenteOperacion ==
    ASSUME Todos, NEW t \in Clientes, Operacion_conocida(t) \/ Operacion_desconocida(t),
           HayOperacion(t), TomarOperacion(t)
    PROVE  Presente(t)'
<1> DEFINE s == entrada[t]
           u == entrada'[t]
<1>0. Igual(t) /\ pide'[t] = pide[t]
  BY DEF Operacion_conocida, Operacion_desconocida, Igual, varsStick
<1>1. /\ hilo[t] = "recv" /\ leyendo[t] = t /\ s # <<>> /\ s \in Seq(Int)
      /\ u = TrasOperacion(s)
      /\ Presente(t) /\ UnaOperacion(t) /\ UnaCarga(t)
  BY Propios DEF HayOperacion, TomarOperacion, Todos, Paso, InvTipos, TiposStick
<1>2. /\ u = Tail(s) /\ UnaOperacion(t)'
      /\ \A i \in DOMAIN u : i + 1 \in DOMAIN s /\ u[i] = s[i + 1]
  BY <1>0, <1>1, Consume
<1>3. /\ 1 \in DOMAIN s /\ Head(s) = s[1] /\ Len(s) \in Nat /\ DOMAIN s = 1..Len(s)
      /\ Len(u) = Len(s) - 1 /\ DOMAIN u = 1..Len(u) /\ u \in Seq(Int)
  BY <1>1, <1>2, EmptySeq
<1>4. RESTO \notin Range(u)
  BY <1>1, <1>2 DEF Presente, Range
<1>5. CASE Operacion_conocida(t)
  <2>1. s[1] \in Ops
    BY <1>1, <1>3, <1>5 DEF Operacion_conocida, Entiende, Ops
  <2>2. 1 + 1 = Len(s) /\ s[1 + 1] = CARGA /\ s[1] = pide[t].op
    BY <1>1, <1>3, <2>1 DEF UnaOperacion
  <2>3. u # <<>> /\ Head(u) = CARGA
    <3>0. Len(s) = 2 /\ Len(u) = Len(s) - 1
      BY <1>3, <2>2
    <3>1. Len(u) = 1
      BY <3>0
    <3>a. DOMAIN u = 1..Len(u)
      BY <1>3
    <3>2. 1 \in DOMAIN u
      <4> HIDE DEF s, u
      <4> QED BY <3>1, <3>a
    <3>3. u[1] = s[1 + 1]
      BY <1>2, <3>2
    <3> QED BY <1>3, <2>2, <3>1, <3>3, EmptySeq
  <2>4. hilo' = [hilo EXCEPT ![t] = IF s[1] = MOV_IN THEN "lee" ELSE "escribe"]
    BY <1>1, <1>3, <1>5 DEF Operacion_conocida, Seguir
  <2>5. Escribe(t)' => hilo'[t] = "escribe"
    BY <1>0, <2>2, <2>4 DEF Escribe, MOV_IN, MOV_OUT, Todos, Paso, InvTipos, TiposStick, TypeOK
  <2> QED BY <1>4, <2>3, <2>5 DEF Presente
<1>6. CASE ~Operacion_conocida(t)
  <2>1. s[1] # MOV_OUT
    BY <1>1, <1>3, <1>6 DEF Operacion_desconocida, Entiende
  <2>2. hilo'[t] = "llama"
    BY <1>6 DEF Operacion_desconocida, Seguir, Todos, Paso, InvTipos, TiposStick, TypeOK
  <2>3. ASSUME MOV_OUT \in Range(s) PROVE MOV_OUT \in Range(u)
    <3>1. PICK i \in DOMAIN s : s[i] = MOV_OUT
      BY <2>3 DEF Range
    <3> DEFINE k == i - 1
    <3>2. k \in DOMAIN u /\ k + 1 = i
      <4>1. i # 1
        BY <2>1, <3>1
      <4> HIDE DEF s, u
      <4> QED BY <1>3, <4>1
    <3> HIDE DEF k
    <3>3. u[k] = MOV_OUT
      BY <1>2, <3>1, <3>2
    <3> QED BY <3>2, <3>3 DEF Range
  <2> QED BY <1>0, <1>1, <1>4, <2>2, <2>3 DEF Presente, Igual, Escribe
<1> QED BY <1>5, <1>6

LEMMA PresenteAtencion ==
    ASSUME Todos, NEW t \in Clientes, NEW c \in Clientes, Atencion(t)
    PROVE  Presente(c)'
<1> USE DEF Paso, InvTipos, TiposStick, TypeOK
<1>1. CASE (LlamarRecv(t) \/ LlegaFin(t) \/ CerrarEnRecibir(t)) /\ UNCHANGED varsStick
  <2>1. Igual(c) /\ entrada' = entrada
    BY <1>1 DEF LlamarRecv, LlegaFin, CerrarEnRecibir, Igual, varsStick
  <2>2. \/ hilo'[c] = hilo[c]
        \/ hilo'[c] \notin {"lee", "escribe"} /\ hilo[c] \notin {"escribe", "responde"}
    BY <1>1 DEF LlamarRecv, LlegaFin, CerrarEnRecibir, Todos
  <2> QED BY <2>1, <2>2, PresenteQuieto
<1>2. CASE Operacion_conocida(t) \/ Operacion_desconocida(t)
  <2>0. Igual(c)
    BY <1>2 DEF Operacion_conocida, Operacion_desconocida, Igual, varsStick
  <2>1. CASE HayOperacion(t) /\ TomarOperacion(t)
    <3>1. CASE c = t
      BY <1>2, <2>1, <3>1, PresenteOperacion
    <3>2. CASE c # t
      <4>1. hilo'[c] = hilo[c]
        <5>1. \E x : Seguir(t, x)
          BY <1>2 DEF Operacion_conocida, Operacion_desconocida
        <5> QED BY <3>2, <5>1 DEF Seguir, Todos
      <4>2. entrada'[c] = entrada[c]
        BY <2>1, <3>2, Propios DEF HayOperacion, TomarOperacion, Todos
      <4> QED BY <2>0, <4>1, <4>2, PresenteQuieto
    <3> QED BY <3>1, <3>2
  <2>2. CASE hilo[t] = "desconocida" /\ entrada' = entrada /\ Operacion_desconocida(t)
    <3>1. hilo' = [hilo EXCEPT ![t] = "llama"]
      BY <2>2 DEF Operacion_desconocida, Seguir
    <3>2. hilo'[c] = hilo[c] \/ (hilo'[c] = "llama" /\ hilo[c] = "desconocida")
      BY <2>2, <3>1 DEF Todos
    <3> QED BY <2>0, <2>2, <3>2, PresenteQuieto
  <2> QED BY <1>2, <2>1, <2>2 DEF Operacion_conocida, Operacion_desconocida
<1>3. CASE Leer(t) \/ Escribir(t)
  <2>0. Igual(c) /\ De(t) = t /\ hilo[t] \in {"lee", "escribe"}
    BY <1>3, Propios DEF Leer, Escribir, Igual, varsStick
  <2>1. CASE c # t
    <3>1. hilo'[c] = hilo[c]
      BY <1>3, <2>1 DEF Leer, Escribir, Seguir, Todos
    <3>2. entrada'[c] = entrada[c]
      BY <1>3, <2>0, <2>1 DEF Leer, Escribir, TomarCarga, Todos
    <3> QED BY <2>0, <3>1, <3>2, PresenteQuieto
  <2>2. CASE c = t
    <3>1. Presente(c) /\ UnHilo(c) /\ entrada[c] \in Seq(Int) /\ entrada[c] # <<>>
      BY <1>3, <2>0, <2>2, Propios DEF Leer, Escribir, HayCarga
    <3>2. entrada'[c] = Tail(entrada[c])
      BY <1>3, <2>0, <2>2 DEF Leer, Escribir, TomarCarga, Todos
    <3>3. RESTO \notin Range(entrada'[c])
      <4>1. \A i \in DOMAIN Tail(entrada[c]) : \E j \in DOMAIN entrada[c] :
                Tail(entrada[c])[i] = entrada[c][j]
        <5> TAKE i \in DOMAIN Tail(entrada[c])
        <5>1. i + 1 \in DOMAIN entrada[c] /\ Tail(entrada[c])[i] = entrada[c][i + 1]
          BY <3>1
        <5> QED BY <5>1
      <4> QED BY <3>1, <3>2, <4>1 DEF Presente, Range
    <3>4. CASE Escribir(t)
      <4>1. hilo'[c] = "responde"
        BY <2>2, <3>4 DEF Escribir, Seguir, Todos
      <4> QED BY <3>3, <4>1 DEF Presente
    <3>5. CASE Leer(t)
      <4>1. hilo'[c] = "llama" /\ hilo[c] = "lee"
        BY <2>2, <3>5 DEF Leer, Seguir, Todos
      <4>2. Atiende(c, c, {"lee", "escribe"})
        BY <2>0, <2>2 DEF Atiende
      <4>3. ~Escribe(c)
        BY <3>1, <4>1, <4>2 DEF UnHilo, Escribe, MOV_IN, MOV_OUT
      <4> QED BY <2>0, <3>3, <4>1, <4>3 DEF Presente, Igual, Escribe
    <3> QED BY <1>3, <3>4, <3>5
  <2> QED BY <2>1, <2>2
<1>4. CASE SinCarga(t)
  <2>1. hilo[t] \in {"lee", "escribe"} /\ De(t) = t /\ t # Libre /\ Presente(t)
    BY <1>4, Propios, SupuestosServidor DEF SinCarga
  <2> QED BY <1>4, <2>1 DEF SinCarga, Presente
<1>5. CASE Responder(t)
  <2>0. De(t) = t
    BY <1>5, Propios DEF Responder
  <2>1. CASE c = t
    <3>1. salida'[c] = 1 /\ entrada' = entrada
      BY <1>5, <2>0, <2>1, SanoResponde DEF Todos
    <3>2. hilo'[c] = "llama" /\ Presente(c)
      BY <1>5, <2>1, Propios DEF Responder, Seguir, Todos
    <3> QED BY <3>1, <3>2 DEF Presente
  <2>2. CASE c # t
    <3>1. Igual(c) /\ entrada' = entrada
      BY <1>5, <2>0, <2>2 DEF Responder, Igual, Todos
    <3>2. hilo'[c] = hilo[c]
      BY <1>5, <2>2 DEF Responder, Seguir, Todos
    <3> QED BY <3>1, <3>2, PresenteQuieto
  <2> QED BY <2>1, <2>2
<1> QED BY <1>1, <1>2, <1>3, <1>4, <1>5 DEF Atencion

LEMMA PresentesSiguen ==
    ASSUME InvTipos, InvDescriptores, InvHilos, InvPedidos, InvEspera, InvPresentes, Next
    PROVE  InvPresentes'
<1> SUFFICES ASSUME NadieSeFue', vivo', NEW c \in Clientes PROVE Presente(c)'
  BY DEF InvPresentes
<1>1. vivo' => vivo
  BY Casos DEF vars, varsStick, Enviar, Recibir, Admision, Atencion, Entra, SeVa
<1>2. largo' = largo
  <2>1. \A d \in Clientes : Atencion(d) => largo' = largo
    BY DEF Atencion, Operacion_conocida, Operacion_desconocida, Leer, Escribir, SinCarga,
       Responder, varsStick
  <2> QED BY <2>1, Casos DEF vars, varsStick, Enviar, Recibir, Admision, Entra, SeVa
<1>3. NadieSeFue
  BY <1>2, Firmeza DEF Firme, NadieSeFue, Alineado, Idos
<1>4. Previsto'
  BY DescriptoresSiguen DEF InvDescriptores, NadieSeFue
<1>5. Todos
  BY <1>1, <1>3, <1>4 DEF Todos, Paso
<1>6. Presente(c) /\ entrada[c] \in Seq(Int)
  BY <1>5, Propios
<1>7. CASE UNCHANGED vars
  BY <1>5, <1>7, PresenteQuieto DEF vars, varsServidor, varsStick, Igual
<1>8. ASSUME NEW d \in Clientes, NEW p \in Pedidos, Enviar(d, p) PROVE Presente(c)'
  <2>1. CASE c # d
    BY <1>5, <1>8, <2>1, PresenteQuieto DEF Enviar, Igual
  <2>2. CASE c = d
    <3> DEFINE s == entrada[c]
               u == entrada'[c]
    <3>1. /\ s \in Seq(Int) /\ p.op \in {MOV_IN, MOV_OUT} /\ p.op \in Int
          /\ u = s \o <<p.op, CARGA>> /\ hilo' = hilo /\ pide'[c] = p
      BY <1>6, <1>8, <2>2 DEF Enviar, Pedidos, MOV_IN, MOV_OUT, InvTipos, TiposStick
    <3>2. /\ DOMAIN u = 1..(Len(s) + 2) /\ DOMAIN s = 1..Len(s) /\ Len(s) \in Nat
          /\ \A i \in DOMAIN s : u[i] = s[i]
          /\ u[Len(s) + 1] = p.op /\ u[Len(s) + 2] = CARGA
          /\ s # <<>> => u # <<>> /\ Head(u) = Head(s)
      <4>1. Len(s) \in Nat
        BY <3>1
      <4> HIDE DEF s, u
      <4> QED BY <3>1, <4>1, Agrega
    <3>3. RESTO \notin Range(u)
      <4> SUFFICES ASSUME NEW i \in DOMAIN u PROVE u[i] # RESTO
        BY DEF Range
      <4>1. CASE i \in DOMAIN s
        BY <1>6, <3>2, <4>1 DEF Presente, Range
      <4>2. CASE i \notin DOMAIN s
        <5>1. i = Len(s) + 1 \/ i = Len(s) + 2
          <6> HIDE DEF s, u
          <6> QED BY <3>2, <4>2
        <5>2. p.op # RESTO /\ CARGA # RESTO
          BY <3>1 DEF RESTO, CARGA, MOV_IN, MOV_OUT
        <5>3. u[i] = p.op \/ u[i] = CARGA
          <6> HIDE DEF s, u
          <6> QED BY <3>2, <5>1
        <5> QED BY <5>2, <5>3
      <4> QED BY <4>1, <4>2
    <3>4. p.op \in Range(u)
      <4>1. Len(s) + 1 \in DOMAIN u
        <5> HIDE DEF s, u
        <5> QED BY <3>2
      <4> QED BY <3>2, <4>1 DEF Range
    <3> QED BY <1>6, <3>1, <3>2, <3>3, <3>4 DEF Presente, Escribe
  <2> QED BY <2>1, <2>2
<1>9. ASSUME NEW d \in Clientes, Recibir(d) PROVE Presente(c)'
  <2>1. CASE c # d
    BY <1>5, <1>9, <2>1, PresenteQuieto DEF Recibir, varsServidor, Igual
  <2>2. CASE c = d
    <3>1. hilo' = hilo /\ entrada' = entrada /\ pide'[c] = SinPedido
      BY <1>9, <2>2 DEF Recibir, varsServidor, InvTipos, TiposStick
    <3> QED BY <1>6, <3>1 DEF Presente, Escribe, SinPedido, MOV_OUT
  <2> QED BY <2>1, <2>2
<1>10. ASSUME NEW d \in Clientes, Admision(d) \/ SeVa(d) PROVE Presente(c)'
  <2>1. Igual(c) /\ entrada' = entrada
    BY <1>10 DEF Admision, Aceptar, SeVa, Desconectar, varsStick, Igual
  <2>2. hilo'[c] = hilo[c] \/ (hilo'[c] = "llama" /\ hilo[c] = "sin")
    BY <1>10 DEF Admision, Aceptar, SeVa, Desconectar, InvTipos, TiposStick, TypeOK
  <2> QED BY <1>5, <2>1, <2>2, PresenteQuieto
<1>11. ASSUME NEW d \in Clientes, Entra(d) PROVE Presente(c)'
  <2>1. Igual(c) /\ hilo' = hilo
    BY <1>11 DEF Entra, Conectar, varsStick, Igual
  <2>2. CASE c # d
    BY <1>5, <1>11, <2>1, <2>2, PresenteQuieto DEF Entra, Conectar
  <2>3. CASE c = d
    <3>1. /\ cliente[c] = "fuera" /\ hilo[c] = "sin" /\ pide[c] = SinPedido
          /\ entrada'[c] = Saludo
      BY <1>11, <2>3 DEF Entra, Conectar, InvDescriptores, InvTipos, TiposStick
    <3>2. \A i \in DOMAIN Saludo : Saludo[i] # RESTO
      BY <1>3, SaludoEs DEF NadieSeFue, Alineado, InvTipos, TiposStick
    <3> QED BY <2>1, <3>1, <3>2 DEF Presente, Range, Igual, Escribe, SinPedido, MOV_OUT
  <2> QED BY <2>2, <2>3
<1>12. ASSUME NEW d \in Clientes, Atencion(d) PROVE Presente(c)'
  BY <1>5, <1>12, PresenteAtencion
<1>13. CASE \E d \in Clientes, p \in Pedidos : Enviar(d, p)
  BY <1>8, <1>13
<1>14. \/ UNCHANGED vars
       \/ \E d \in Clientes, p \in Pedidos : Enviar(d, p)
       \/ \E d \in Clientes :
             Recibir(d) \/ Admision(d) \/ Atencion(d) \/ Entra(d) \/ SeVa(d)
  BY Casos
<1> QED BY <1>7, <1>9, <1>10, <1>11, <1>12, <1>13, <1>14

-----------------------------------------------------------------------------
(* The theorems *)

LEMMA Empieza == InitTodo => InvStick
<1> SUFFICES ASSUME InitTodo PROVE InvStick
  OBVIOUS
<1>1. /\ cliente = [c \in Clientes |-> "fuera"] /\ entrada = [c \in Clientes |-> <<>>]
      /\ conexion = [f \in Fds |-> Libre] /\ hilo = [c \in Clientes |-> "sin"]
      /\ socket = [c \in Clientes |-> 0] /\ leyendo = [c \in Clientes |-> Libre]
      /\ celdas = [i \in 0..(tamano_stick - 1) |-> 0] /\ vivo = TRUE /\ largo \in Largos
      /\ pide = [c \in Clientes |-> SinPedido] /\ salida = [c \in Clientes |-> 0]
  BY DEF InitTodo, Init, InitServidor
<1>2. InvCpu
  BY Iniciales, SupuestosCpuConStick DEF InitTodo, C!Init, InvCpu
<1>3. InvTipos
  BY <1>1, <1>2, Anchos DEF InvTipos, TiposStick, TypeOK
<1>4. Idos = {} /\ Previsto
  BY <1>1 DEF Idos, Previsto
<1>5. InvDescriptores
  BY <1>1, <1>4, SupuestosServidor DEF InvDescriptores
<1>6. InvHilos
  BY <1>1 DEF InvHilos
<1>7. \A c, t \in Clientes, P \in SUBSET {"lee", "escribe", "responde"} : ~Atiende(t, c, P)
  BY <1>1 DEF Atiende
<1>8. InvPedidos
  <2>1. ASSUME NEW c \in Clientes PROVE salida[c] <= Uno(Escribe(c)) /\ Sano(c)
    BY <1>1, <1>7 DEF Sano, UnaContestacion, UnaCarga, UnaOperacion, UnHilo, Uno
  <2> QED BY <2>1 DEF InvPedidos
<1>9. InvEspera
  BY <1>1, SupuestosCpuConStick DEF InvEspera
<1>10. InvPresentes
  BY <1>1 DEF InvPresentes, Presente, Range, Escribe, SinPedido, MOV_OUT
<1> QED BY <1>3, <1>5, <1>6, <1>8, <1>9, <1>10 DEF InvStick

LEMMA Continua == InvStick /\ [Next]_todo => InvStick'
<1>1. ASSUME InvStick, Next PROVE InvStick'
  BY <1>1, TiposSiguen, DescriptoresSiguen, HilosSiguen, PedidosSiguen, EsperaSigue,
     PresentesSiguen DEF InvStick
<1>2. ASSUME InvStick, UNCHANGED todo PROVE InvStick'
  <2> USE <1>2 DEF InvStick, todo, vars, varsServidor, varsStick, varsCpu
  <2>1. InvTipos'
    BY DEF InvTipos, TiposStick, TypeOK, InvCpu
  <2>2. InvDescriptores' /\ Previsto' = Previsto
    BY DEF InvDescriptores, Previsto, Idos
  <2>3. InvHilos'
    BY <2>2 DEF InvHilos, De
  <2>4. InvEspera'
    BY <2>2 DEF InvEspera, EnEspera, EnStick
  <2>5. InvPresentes'
    BY DEF InvPresentes, Presente, NadieSeFue, Alineado, Idos, Escribe
  <2>6. ASSUME NEW c \in Clientes, Sano(c) PROVE Sano(c)'
    <3>1. UnaContestacion(c)' = UnaContestacion(c) /\ UnaCarga(c)' = UnaCarga(c)
      BY DEF UnaContestacion, UnaCarga, Atiende, De, Escribe
    <3>2. Perdido(c)' = Perdido(c) /\ UnaOperacion(c)' = UnaOperacion(c)
      BY DEF Perdido, UnaOperacion
    <3>3. UnHilo(c)' = UnHilo(c)
      BY DEF UnHilo, Atiende, De
    <3> QED BY <2>6, <3>1, <3>2, <3>3 DEF Sano
  <2>7. InvPedidos'
    BY <2>2, <2>6 DEF InvPedidos, Escribe
  <2> QED BY <2>1, <2>2, <2>3, <2>4, <2>5, <2>7
<1> QED BY <1>1, <1>2

\* All that the others rest on: where each request is, on which descriptor each
\* thread works, and what the CPU waits for (memory_stick/src/gestion.c:30-104,
\* thread_ejecucion.c:147-169).
THEOREM InvarianteStick == Spec => []InvStick
<1>1. InitTodo => InvStick
  BY Empieza
<1>2. InvStick /\ [Next]_todo => InvStick'
  BY Continua
<1> QED BY <1>1, <1>2, PTL DEF Spec

\* The bytes stay bytes, and a thread in recv() has a connection to read
\* (gestion.c:30-104).
THEOREM TipoCorrecto == Spec => []TypeOK
<1>1. InvStick => TypeOK
  BY DEF InvStick, InvTipos, TiposStick
<1> QED BY <1>1, InvarianteStick, PTL

\* While nobody leaves, the request that a CPU waits for is in one place at most,
\* and a write in exactly one (gestion.c:41-97).
THEOREM UnaRespuestaSiempre == Spec => []UnaRespuesta
<1>1. InvStick => UnaRespuesta
  <2> DEFINE Puntos == {"lee", "escribe", "responde"}
             EnFlujo(c) == \E op \in {MOV_IN, MOV_OUT} : op \in Range(entrada[c])
  <2> SUFFICES ASSUME InvStick, NadieSeFue, vivo, NEW c \in Clientes
               PROVE  /\ Lugares(c) <= Uno(pide[c] # SinPedido)
                      /\ Escribe(c) => Lugares(c) = 1
    BY DEF UnaRespuesta
  <2>1. Previsto /\ cliente[c] # "ido"
    BY DEF InvStick, InvDescriptores, NadieSeFue, Idos
  <2>2. Sano(c) /\ Presente(c) /\ salida[c] <= Uno(Escribe(c)) /\ salida[c] \in Nat
    BY <2>1 DEF InvStick, InvPedidos, InvPresentes, InvTipos, TiposStick, TypeOK
  <2>3. UnaContestacion(c) /\ UnaCarga(c) /\ UnaOperacion(c) /\ UnHilo(c)
    <3>1. ~Perdido(c)
      BY <2>1, <2>2 DEF Presente, Perdido, Roto, Range
    <3> QED BY <2>2, <3>1 DEF Sano
  <2>4. hilo[c] # "sin" => De(c) = c
    BY <2>1 DEF Previsto, De, InvStick, InvDescriptores, InvTipos, TiposStick
  <2>5. Escribe(c) => pide[c] # SinPedido
    BY DEF Escribe, SinPedido, MOV_OUT
  <2>6. ASSUME EnFlujo(c)
        PROVE  pide[c] # SinPedido /\ salida[c] = 0 /\ hilo[c] \notin Puntos
    <3>1. PICK i \in DOMAIN entrada[c] : entrada[c][i] \in Ops
      BY <2>6 DEF Range, Ops
    <3>2. /\ i + 1 = Len(entrada[c]) /\ entrada[c][i + 1] = CARGA
      BY <2>3, <3>1 DEF UnaOperacion
    <3>3. i + 1 \in DOMAIN entrada[c]
      <4>1. entrada[c] \in Seq(Int)
        BY DEF InvStick, InvTipos, TiposStick
      <4> QED BY <3>2, <4>1
    <3>4. /\ pide[c] # SinPedido /\ salida[c] = 0
          /\ \A t \in Clientes : ~Atiende(t, c, {"responde"})
      BY <2>3, <3>2, <3>3 DEF UnaCarga
    <3>5. hilo[c] \notin {"lee", "escribe"}
      BY <2>3, <2>4, <3>1 DEF UnHilo, Atiende
    <3> QED BY <2>4, <3>4, <3>5 DEF Atiende
  <2>7. hilo[c] \in Puntos => pide[c] # SinPedido /\ salida[c] = 0
    <3>1. hilo[c] \in {"lee", "escribe"}
             => salida[c] = 0 /\ pide[c].op \in {MOV_IN, MOV_OUT}
      BY <2>3, <2>4 DEF UnHilo, Atiende
    <3>2. hilo[c] = "responde" => salida[c] = 0 /\ Escribe(c)
      BY <2>2, <2>3, <2>4 DEF UnaContestacion, Atiende
    <3> QED BY <2>5, <3>1, <3>2 DEF SinPedido, MOV_IN, MOV_OUT
  <2>8. Escribe(c) => salida[c] > 0 \/ EnFlujo(c) \/ hilo[c] \in Puntos
    BY <2>2 DEF Presente
  <2>9. Lugares(c) = salida[c] + Uno(EnFlujo(c)) + Uno(hilo[c] \in Puntos)
    BY DEF Lugares
  <2> HIDE DEF EnFlujo, Puntos
  <2> QED BY <2>2, <2>5, <2>6, <2>7, <2>8, <2>9 DEF Uno
<1> QED BY <1>1, InvarianteStick, PTL

\* Nobody is sent an answer it does not wait for (gestion.c:38-39, 97).
THEOREM RespuestaPedidaSiempre == Spec => []RespuestaPedida
<1>1. InvStick => RespuestaPedida
  <2> SUFFICES ASSUME InvStick, Previsto, NEW c \in Clientes
               PROVE  salida[c] <= Uno(pide[c] # SinPedido)
    BY DEF RespuestaPedida
  <2>1. salida[c] <= Uno(Escribe(c)) /\ salida[c] \in Nat
    BY DEF InvStick, InvPedidos, InvTipos, TiposStick, TypeOK
  <2>2. Escribe(c) => pide[c] # SinPedido
    BY DEF Escribe, SinPedido, MOV_OUT
  <2> QED BY <2>1, <2>2 DEF Uno
<1> QED BY <1>1, InvarianteStick, PTL

\* A byte changes only while a CPU waits for a write of a fragment that has it
\* (gestion.c:72-87).
THEOREM EscribeEnSuFragmentoSiempre == Spec => EscribeEnSuFragmento
<1> DEFINE Bien == Previsto => \A i \in DOMAIN celdas : celdas'[i] # celdas[i] =>
          \E c \in Clientes :
              /\ Escribe(c)
              /\ i \in pide[c].desde..(pide[c].desde + pide[c].cuantos - 1)
<1>1. ASSUME InvStick, Next PROVE Bien
  <2> SUFFICES ASSUME Previsto, NEW i \in DOMAIN celdas, celdas'[i] # celdas[i]
               PROVE  \E c \in Clientes :
                          /\ Escribe(c)
                          /\ i \in pide[c].desde..(pide[c].desde + pide[c].cuantos - 1)
    OBVIOUS
  <2>0. InvTipos /\ Next
    BY <1>1 DEF InvStick
  <2>1. \A d \in Clientes : Atencion(d) => Escribir(d) /\ vivo
    BY DEF Atencion, Operacion_conocida, Operacion_desconocida, Leer, SinCarga,
       Responder, varsStick
  <2>2. PICK t \in Clientes : Escribir(t) /\ vivo
    BY <2>0, <2>1, Casos DEF vars, varsStick, Enviar, Recibir, Admision, Entra, SeVa
  <2>3. /\ hilo[t] = "escribe" /\ hilo' = [hilo EXCEPT ![t] = "responde"]
        /\ UNCHANGED <<cliente, conexion, socket>>
    BY <2>2 DEF Escribir, TomarCarga, Seguir
  <2>4. \A d \in Clientes : hilo'[d] # "sin" => hilo[d] # "sin"
    BY <2>0, <2>3 DEF InvTipos, TiposStick, TypeOK
  <2>5. Previsto'
    BY <2>3, <2>4 DEF Previsto, Idos
  <2>6. Paso
    BY <1>1, <2>5 DEF Paso, InvStick
  <2>7. PICK c \in Clientes : De(t) = c
    BY <2>3, <2>6, Antes
  <2>8. Escribe(c) /\ pide[c] \in Pedidos
    BY <2>2, <2>6, <2>7, SanoEscribe
  <2>9. i = pide[c].desde
    BY <2>2, <2>7 DEF Escribir, Escrito, Destino
  <2>10. /\ pide[c].desde \in Nat /\ pide[c].cuantos \in 1..4
    BY <2>8 DEF Pedidos
  <2>11. i \in pide[c].desde..(pide[c].desde + pide[c].cuantos - 1)
    BY <2>9, <2>10
  <2> QED BY <2>8, <2>11
<1>2. ASSUME UNCHANGED todo PROVE Bien
  BY <1>2 DEF todo, vars, varsStick
<1>3. InvStick /\ [Next]_todo => [Bien]_todo
  BY <1>1, <1>2
<1> HIDE DEF Bien
<1>4. Spec => [][Bien]_todo
  BY <1>3, InvarianteStick, PTL DEF Spec
<1> QED BY <1>4 DEF EscribeEnSuFragmento, Bien

\* While nobody leaves, only a write beyond the vector ends the stick
\* (gestion.c:72-87).
THEOREM SoloDesbordaSiempre == Spec => SoloDesborda
<1> DEFINE Bien == NadieSeFue /\ vivo /\ ~vivo' =>
          \E c \in Clientes : /\ Escribe(c)
                              /\ pide[c].desde + pide[c].cuantos > tamano_stick
<1>1. ASSUME InvStick, Next PROVE Bien
  <2> SUFFICES ASSUME NadieSeFue, vivo, ~vivo'
               PROVE  \E c \in Clientes :
                          /\ Escribe(c)
                          /\ pide[c].desde + pide[c].cuantos > tamano_stick
    OBVIOUS
  <2>0. InvTipos /\ Next /\ Previsto /\ \A c \in Clientes : cliente[c] # "ido"
    BY <1>1 DEF InvStick, InvDescriptores, NadieSeFue, Idos
  <2>1. PICK t \in Clientes : Escribir(t) \/ SinCarga(t) \/ Responder(t)
    <3>1. \A d \in Clientes : Atencion(d) => Escribir(d) \/ SinCarga(d) \/ Responder(d)
      BY DEF Atencion, Operacion_conocida, Operacion_desconocida, Leer, varsStick
    <3> QED BY <2>0, <3>1, Casos DEF vars, varsStick, Enviar, Recibir, Admision, Entra, SeVa
  <2>2. hilo[t] # "sin" => De(t) = t
    BY <1>1, <2>0 DEF Previsto, De, InvStick, InvDescriptores, InvTipos, TiposStick
  <2>3. ~Responder(t)
    BY <2>0, <2>2 DEF Responder, Rota
  <2>4. ~SinCarga(t)
    <3>1. Presente(t)
      BY <1>1 DEF InvStick, InvPresentes
    <3>2. t # Libre
      BY SupuestosServidor
    <3> QED BY <2>0, <2>2, <3>1, <3>2 DEF SinCarga, Presente
  <2>5. Escribir(t)
    BY <2>1, <2>3, <2>4
  <2>6. /\ hilo[t] = "escribe" /\ hilo' = [hilo EXCEPT ![t] = "responde"]
        /\ UNCHANGED <<cliente, conexion, socket>>
    BY <2>5 DEF Escribir, TomarCarga, Seguir
  <2>7. Previsto'
    <3>1. \A d \in Clientes : hilo'[d] # "sin" => hilo[d] # "sin"
      BY <2>0, <2>6 DEF InvTipos, TiposStick, TypeOK
    <3> QED BY <2>0, <2>6, <3>1 DEF Previsto, Idos
  <2>8. Paso
    BY <1>1, <2>7 DEF Paso, InvStick
  <2>9. De(t) = t /\ Escribe(t) /\ pide[t] \in Pedidos
    BY <2>2, <2>5, <2>6, <2>8, SanoEscribe
  <2>10. pide[t].desde \notin 0..(tamano_stick - 1)
    BY <2>0, <2>5, <2>9 DEF Escribir, Destino, InvTipos, TiposStick, TypeOK
  <2>11. /\ pide[t].desde \in Nat /\ pide[t].cuantos \in 1..4 /\ tamano_stick \in Nat
    BY <2>9, SupuestosStick DEF Pedidos
  <2> QED BY <2>9, <2>10, <2>11
<1>2. ASSUME UNCHANGED todo PROVE Bien
  BY <1>2 DEF todo, vars, varsStick
<1>3. InvStick /\ [Next]_todo => [Bien]_todo
  BY <1>1, <1>2
<1> HIDE DEF Bien
<1>4. Spec => [][Bien]_todo
  BY <1>3, InvarianteStick, PTL DEF Spec
<1> QED BY <1>4 DEF SoloDesborda, Bien
=============================================================================
