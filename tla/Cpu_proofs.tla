------------------------------ MODULE Cpu_proofs ------------------------------
(***************************************************************************)
(* The CPU for every width of a byte and every program.                    *)
(***************************************************************************)
EXTENDS PropiedadesCpu, SequenceTheorems, WellFoundedInduction, TLAPS

-----------------------------------------------------------------------------
(* Division *)

LEMMA Producto ==
    ASSUME NEW a \in Int, NEW b \in Int
    PROVE  a * b \in Int /\ (a >= 0 /\ b >= 0 => a * b >= 0)
OBVIOUS

\* Quotient and remainder are the only ones.
LEMMA CocienteUnico ==
    ASSUME NEW M \in Nat, M > 0, NEW x \in Int, NEW y \in Int,
           NEW a \in 0..(M - 1), NEW b \in 0..(M - 1), x * M + a = y * M + b
    PROVE  x = y /\ a = b
<1>1. ~(x < y)
  <2> SUFFICES ASSUME x + 1 <= y PROVE FALSE
    OBVIOUS
  <2>1. (y - (x + 1)) * M >= 0
    BY Producto
  <2>2. (y - (x + 1)) * M = y * M - x * M - M
    OBVIOUS
  <2> QED BY <2>1, <2>2
<1>2. ~(y < x)
  <2> SUFFICES ASSUME y + 1 <= x PROVE FALSE
    OBVIOUS
  <2>1. (x - (y + 1)) * M >= 0
    BY Producto
  <2>2. (x - (y + 1)) * M = x * M - y * M - M
    OBVIOUS
  <2> QED BY <2>1, <2>2
<1>3. x = y
  BY <1>1, <1>2
<1> QED BY <1>3

LEMMA Dividir ==
    ASSUME NEW M \in Nat, M > 0, NEW v \in Int
    PROVE  /\ v \div M \in Int /\ v % M \in 0..(M - 1)
           /\ v = (v \div M) * M + (v % M)
<1>1. v \div M \in Int /\ v % M \in 0..(M - 1)
  OBVIOUS
<1>2. v = M * (v \div M) + (v % M)
  OBVIOUS
<1> QED BY <1>1, <1>2

LEMMA CocienteEs ==
    ASSUME NEW M \in Nat, M > 0, NEW q \in Int, NEW r \in 0..(M - 1)
    PROVE  (q * M + r) \div M = q /\ (q * M + r) % M = r
<1> DEFINE v == q * M + r
<1>1. v \in Int
  BY Producto
<1> HIDE DEF v
<1>2. /\ v \div M \in Int /\ v % M \in 0..(M - 1)
      /\ v = (v \div M) * M + (v % M)
  BY <1>1, Dividir
<1> DEFINE x == v \div M
           b == v % M
<1>3. x \in Int /\ b \in 0..(M - 1) /\ q * M + r = x * M + b
  BY <1>2 DEF v
<1> HIDE DEF x, b
<1>4. x = q /\ b = r
  BY <1>3, CocienteUnico
<1> QED BY <1>4 DEF v, x, b

LEMMA RestoDeMenor ==
    ASSUME NEW M \in Nat, NEW v \in 0..(M - 1)
    PROVE  v % M = v /\ v \div 1 = v
<1>1. (0 * M + v) % M = v
  <2>1. M > 0 /\ 0 \in Int
    OBVIOUS
  <2> QED BY <2>1, CocienteEs
<1>2. 0 * M + v = v
  OBVIOUS
<1>3. v \div 1 = v
  OBVIOUS
<1> QED BY <1>1, <1>2, <1>3

\* A remainder may be taken before adding.
LEMMA RestoDeSuma ==
    ASSUME NEW M \in Nat, M > 0, NEW x \in Int, NEW y \in Int
    PROVE  ((x % M) + y) % M = (x + y) % M
<1> DEFINE c == x \div M
           d == x % M
           q == (d + y) \div M
           r == (d + y) % M
<1>1. c \in Int /\ d \in 0..(M - 1) /\ x = c * M + d
  BY Dividir
<1>2. q \in Int /\ r \in 0..(M - 1) /\ d + y = q * M + r
  <2> HIDE DEF d
  <2> QED BY <1>1, Dividir
<1> HIDE DEF c, d, q, r
<1> DEFINE p == q + c
<1>3. p \in Int /\ x + y = p * M + r
  <2>1. (q + c) * M = q * M + c * M
    BY <1>1, <1>2
  <2> QED BY <1>1, <1>2, <2>1
<1> HIDE DEF p
<1>4. (p * M + r) % M = r
  BY <1>2, <1>3, CocienteEs
<1> QED BY <1>3, <1>4 DEF r, d

LEMMA CocienteAcotado ==
    ASSUME NEW M \in Nat, M > 0, NEW X \in Nat, NEW v \in Nat, v < X * M
    PROVE  v \div M \in Nat /\ v \div M < X
<1> DEFINE q == v \div M
           r == v % M
<1>1. q \in Int /\ r \in 0..(M - 1) /\ v = q * M + r
  BY Dividir
<1> HIDE DEF q, r
<1>2. ~(q < 0)
  <2> SUFFICES ASSUME -1 - q >= 0 PROVE FALSE
    BY <1>1
  <2>1. (-1 - q) * M >= 0
    BY <1>1, Producto
  <2>2. (-1 - q) * M = -M - q * M
    BY <1>1
  <2>3. q * M \in Int
    BY <1>1, Producto
  <2> QED BY <1>1, <2>1, <2>2, <2>3
<1>3. ~(q >= X)
  <2> SUFFICES ASSUME q - X >= 0 PROVE FALSE
    BY <1>1
  <2>1. (q - X) * M >= 0
    BY <1>1, Producto
  <2>2. (q - X) * M = q * M - X * M
    BY <1>1
  <2>3. q * M \in Int /\ X * M \in Int
    BY <1>1, Producto
  <2> QED BY <1>1, <2>1, <2>2, <2>3
<1> QED BY <1>1, <1>2, <1>3 DEF q

\* A number written with a quotient and a remainder.
LEMMA Compone ==
    ASSUME NEW M \in Nat, M > 0, NEW X \in Nat, NEW a \in 0..(X - 1), NEW b \in 0..(M - 1)
    PROVE  a * M + b \in Nat /\ a * M + b < X * M
<1>1. a * M >= 0 /\ (X - 1 - a) * M >= 0
  BY Producto
<1>2. (X - 1 - a) * M = X * M - M - a * M
  OBVIOUS
<1>3. a * M \in Int /\ X * M \in Int
  BY Producto
<1> QED BY <1>1, <1>2, <1>3

-----------------------------------------------------------------------------
(* The bytes of a register *)

LEMMA Pesos ==
    /\ MOD8 \in Nat /\ MOD8 >= 2
    /\ Peso(0) = 1 /\ Peso(1) = MOD8 /\ Peso(2) = MOD8 * MOD8
    /\ Peso(3) = MOD8 * MOD8 * MOD8 /\ MOD32 = Peso(3) * MOD8
    /\ \A k \in 0..3 : Peso(k) \in Nat /\ Peso(k) > 0
    /\ MOD32 \in Nat /\ MOD32 >= MOD8
<1>1. MOD8 \in Nat /\ MOD8 >= 2
  BY SupuestosInstrucciones
<1>2. ASSUME NEW x \in Nat, x > 0
      PROVE  x * MOD8 \in Nat /\ x * MOD8 > 0 /\ x * MOD8 >= MOD8
  <2>1. (x - 1) * MOD8 >= 0
    BY <1>1, <1>2, Producto
  <2>2. (x - 1) * MOD8 = x * MOD8 - MOD8
    BY <1>1
  <2>3. x * MOD8 \in Int
    BY <1>1, Producto
  <2> QED BY <1>1, <2>1, <2>2, <2>3
<1>3. /\ Peso(0) = 1 /\ Peso(1) = MOD8 /\ Peso(2) = MOD8 * MOD8
      /\ Peso(3) = MOD8 * MOD8 * MOD8
  BY DEF Peso
<1>4. MOD8 * MOD8 \in Nat /\ MOD8 * MOD8 > 0
  BY <1>1, <1>2
<1>5. MOD8 * MOD8 * MOD8 \in Nat /\ MOD8 * MOD8 * MOD8 > 0
  BY <1>2, <1>4
<1>6. MOD32 = Peso(3) * MOD8
  BY <1>3 DEF MOD32
<1>7. MOD32 \in Nat /\ MOD32 >= MOD8
  BY <1>2, <1>3, <1>5, <1>6
<1>8. ASSUME NEW k \in 0..3 PROVE Peso(k) \in Nat /\ Peso(k) > 0
  <2>1. k = 0 \/ k = 1 \/ k = 2 \/ k = 3
    OBVIOUS
  <2> QED BY <1>1, <1>3, <1>4, <1>5, <2>1
<1> QED BY <1>1, <1>3, <1>6, <1>7, <1>8

LEMMA ByteTipo ==
    ASSUME NEW v \in Int, NEW k \in 0..3
    PROVE  Byte(v, k) \in Bytes
<1>1. v \div Peso(k) \in Int
  BY Pesos, Dividir
<1> QED BY <1>1, Pesos, Dividir DEF Byte, Bytes

\* The value that four bytes make, and its bytes.
Cuatro(d, c, b, a) == ((d * MOD8 + c) * MOD8 + b) * MOD8 + a

LEMMA Digitos ==
    ASSUME NEW d \in Bytes, NEW c \in Bytes, NEW b \in Bytes, NEW a \in Bytes
    PROVE  /\ Cuatro(d, c, b, a) \in Nat /\ Cuatro(d, c, b, a) < MOD32
           /\ Byte(Cuatro(d, c, b, a), 0) = a /\ Byte(Cuatro(d, c, b, a), 1) = b
           /\ Byte(Cuatro(d, c, b, a), 2) = c /\ Byte(Cuatro(d, c, b, a), 3) = d
<1> DEFINE M == MOD8
           P == Peso(2)
           Q == Peso(3)
           h2 == d * M + c
           h1 == h2 * M + b
           v == h1 * M + a
           s == b * M + a
           t == c * P + s
<1>1. /\ M \in Nat /\ M > 0 /\ P \in Nat /\ P > 0 /\ Q \in Nat /\ Q > 0
      /\ P = M * M /\ Q = P * M /\ MOD32 = Q * M /\ Q = M * P
      /\ d \in 0..(M - 1) /\ c \in 0..(M - 1) /\ b \in 0..(M - 1) /\ a \in 0..(M - 1)
  BY Pesos DEF Bytes
<1> HIDE DEF M, P, Q
<1>2. /\ h2 \in Nat /\ h2 < P
  BY <1>1, Compone
<1> HIDE DEF h2
<1>3. h1 \in Nat /\ h1 < Q
  <2>1. h2 \in 0..(P - 1)
    BY <1>1, <1>2
  <2> QED BY <1>1, <2>1, Compone
<1> HIDE DEF h1
<1>4. v \in Nat /\ v < MOD32
  <2>1. h1 \in 0..(Q - 1)
    BY <1>1, <1>3
  <2> QED BY <1>1, <2>1, Compone
<1>5. s \in Nat /\ s < P
  BY <1>1, Compone
<1>6. t \in Nat /\ t < Q
  <2>1. s \in 0..(P - 1)
    BY <1>1, <1>5
  <2> HIDE DEF s
  <2> QED BY <1>1, <2>1, Compone
<1>7. v = h2 * P + s
  <2>1. h1 * M = h2 * (M * M) + b * M
    BY <1>1, <1>2 DEF h1
  <2> QED BY <1>1, <1>2, <2>1
<1>8. v = d * Q + t
  <2>1. h2 * P = d * (M * P) + c * P
    BY <1>1 DEF h2
  <2> QED BY <1>1, <1>7, <2>1
<1>9. v \div 1 = v
  BY <1>4
<1>10. v % M = a /\ v \div M = h1
  BY <1>1, <1>3, CocienteEs
<1>11. h1 % M = b
  BY <1>1, <1>2, CocienteEs DEF h1
<1>12. v \div P = h2
  <2>1. s \in 0..(P - 1)
    BY <1>1, <1>5
  <2> HIDE DEF s
  <2>2. (h2 * P + s) \div P = h2
    BY <1>1, <1>2, <2>1, CocienteEs
  <2> QED BY <1>7, <2>2 DEF s
<1>13. h2 % M = c
  BY <1>1, CocienteEs DEF h2
<1>14. v \div Q = d
  <2>1. t \in 0..(Q - 1)
    BY <1>1, <1>6
  <2> HIDE DEF t
  <2>2. (d * Q + t) \div Q = d
    BY <1>1, <2>1, CocienteEs
  <2> QED BY <1>8, <2>2 DEF t
<1>15. d % M = d
  BY <1>1, RestoDeMenor
<1>16. v = Cuatro(d, c, b, a)
  BY DEF Cuatro, h1, h2, M
<1> HIDE DEF v
<1>17. Byte(v, 0) = a /\ Byte(v, 1) = b
  BY <1>9, <1>10, <1>11, Pesos DEF Byte, M
<1>18. Byte(v, 2) = c /\ Byte(v, 3) = d
  BY <1>12, <1>13, <1>14, <1>15 DEF Byte, P, Q, M
<1> QED BY <1>4, <1>16, <1>17, <1>18

LEMMA Horner ==
    ASSUME NEW d \in Bytes, NEW c \in Bytes, NEW b \in Bytes, NEW a \in Bytes
    PROVE  a * Peso(0) + b * Peso(1) + c * Peso(2) + d * Peso(3) = Cuatro(d, c, b, a)
<1>1. a * 1 + b * MOD8 + c * (MOD8 * MOD8) + d * (MOD8 * MOD8 * MOD8) = Cuatro(d, c, b, a)
  BY Pesos DEF Cuatro, Bytes
<1> QED BY <1>1, Pesos

\* A register is made of its bytes, ...
LEMMA ValorDeBytes ==
    ASSUME NEW tam \in {1, 4}, NEW v \in Nat, v < (IF tam = 1 THEN MOD8 ELSE MOD32)
    PROVE  Valor([k \in 0..(tam - 1) |-> Byte(v, k)], tam) = v
<1>1. CASE tam = 1
  <2>1. Valor([k \in 0..(tam - 1) |-> Byte(v, k)], tam) = Byte(v, 0) * 1
    BY <1>1, Pesos, ByteTipo DEF Valor, Bytes
  <2>2. v \div 1 = v /\ v % MOD8 = v
    <3>1. v \in 0..(MOD8 - 1) /\ MOD8 \in Nat
      BY <1>1, Pesos
    <3> QED BY <3>1, RestoDeMenor
  <2>3. Byte(v, 0) = v
    BY <2>2, Pesos DEF Byte
  <2> QED BY <2>1, <2>3
<1>2. CASE tam = 4
  <2> DEFINE h1 == v \div MOD8
             h2 == h1 \div MOD8
             h3 == h2 \div MOD8
             a == v % MOD8
             b == h1 % MOD8
             c == h2 % MOD8
  <2>1. /\ h1 \in Nat /\ h1 < Peso(3) /\ a \in Bytes /\ v = h1 * MOD8 + a
    BY <1>2, Pesos, CocienteAcotado, Dividir DEF Bytes
  <2> HIDE DEF h1, a
  <2>2. /\ h2 \in Nat /\ h2 < Peso(2) /\ b \in Bytes /\ h1 = h2 * MOD8 + b
    <3>1. Peso(3) = Peso(2) * MOD8
      BY Pesos
    <3> QED BY <2>1, <3>1, Pesos, CocienteAcotado, Dividir DEF Bytes
  <2> HIDE DEF h2, b
  <2>3. /\ h3 \in Bytes /\ c \in Bytes /\ h2 = h3 * MOD8 + c
    <3>1. Peso(2) = MOD8 * MOD8
      BY Pesos
    <3>2. h3 \in Nat /\ h3 < MOD8
      BY <2>2, <3>1, Pesos, CocienteAcotado
    <3> QED BY <2>2, <3>2, Pesos, Dividir DEF Bytes
  <2> HIDE DEF h3, c
  <2>4. v = Cuatro(h3, c, b, a)
    BY <2>1, <2>2, <2>3 DEF Cuatro
  <2>5. /\ Byte(v, 0) = a /\ Byte(v, 1) = b /\ Byte(v, 2) = c /\ Byte(v, 3) = h3
    BY <2>1, <2>2, <2>3, <2>4, Digitos
  <2>6. Valor([k \in 0..(tam - 1) |-> Byte(v, k)], tam)
           = Byte(v, 0) * Peso(0) + Byte(v, 1) * Peso(1) + Byte(v, 2) * Peso(2)
             + Byte(v, 3) * Peso(3)
    BY <1>2 DEF Valor
  <2> QED BY <2>1, <2>2, <2>3, <2>4, <2>5, <2>6, Horner
<1> QED BY <1>1, <1>2

\* ... each of which is what was written there.
LEMMA BytesDeValor ==
    ASSUME NEW tam \in {1, 4}, NEW f \in [0..(tam - 1) -> Bytes]
    PROVE  /\ Valor(f, tam) \in Nat
           /\ Valor(f, tam) < (IF tam = 1 THEN MOD8 ELSE MOD32)
           /\ \A k \in 0..(tam - 1) : Byte(Valor(f, tam), k) = f[k]
<1>1. CASE tam = 1
  <2>1. f[0] \in Bytes
    BY <1>1
  <2>2. Valor(f, tam) = f[0] * Peso(0) + 0 + 0 + 0
    BY <1>1 DEF Valor
  <2>7. ASSUME NEW x \in Bytes PROVE x * Peso(0) + 0 + 0 + 0 = x
    BY Pesos DEF Bytes
  <2>8. Valor(f, tam) = f[0]
    BY <2>1, <2>2, <2>7
  <2>3. f[0] \in 0..(MOD8 - 1)
    BY <2>1 DEF Bytes
  <2>4. f[0] \div 1 = f[0] /\ f[0] % MOD8 = f[0]
    <3> DEFINE x == f[0]
    <3>1. x \in 0..(MOD8 - 1) /\ MOD8 \in Nat
      BY <2>3, Pesos
    <3> HIDE DEF x
    <3>2. x \div 1 = x /\ x % MOD8 = x
      BY <3>1, RestoDeMenor
    <3> QED BY <3>2 DEF x
  <2>5. Byte(f[0], 0) = f[0]
    BY <2>4, Pesos DEF Byte
  <2>6. \A k \in 0..(tam - 1) : k = 0
    BY <1>1
  <2> QED BY <1>1, <2>3, <2>5, <2>6, <2>8, Pesos
<1>2. CASE tam = 4
  <2>1. f[0] \in Bytes /\ f[1] \in Bytes /\ f[2] \in Bytes /\ f[3] \in Bytes
    BY <1>2
  <2>2. Valor(f, tam) = f[0] * Peso(0) + f[1] * Peso(1) + f[2] * Peso(2) + f[3] * Peso(3)
    BY <1>2 DEF Valor
  <2>4. Valor(f, tam) = Cuatro(f[3], f[2], f[1], f[0])
    BY <2>1, <2>2, Horner
  <2>5. \A k \in 0..(tam - 1) : k = 0 \/ k = 1 \/ k = 2 \/ k = 3
    BY <1>2
  <2> QED BY <1>2, <2>1, <2>4, <2>5, Digitos
<1> QED BY <1>1, <1>2

-----------------------------------------------------------------------------
(* The PCB *)

PcbBien(p) == p \in Pcbs /\ \A r \in Registros8 : p.reg[r] < MOD8

LEMMA SiguienteBien ==
    ASSUME NEW p, PcbBien(p)
    PROVE  PcbBien(Siguiente(p)) /\ Siguiente(p).reg = p.reg
<1>1. (p.pc + 1) % MOD32 \in 0..(MOD32 - 1)
  BY Pesos, Dividir DEF PcbBien, Pcbs
<1> QED BY <1>1 DEF PcbBien, Pcbs, Siguiente

LEMMA PonerBien ==
    ASSUME NEW p, PcbBien(p), NEW r \in Registros, NEW v \in Nat, v < Modulo(r)
    PROVE  PcbBien([p EXCEPT !.reg[r] = v])
<1>1. v \in 0..(MOD32 - 1) /\ (r \in Registros8 => v < MOD8)
  BY Pesos DEF Modulo
<1> DEFINE q == [p EXCEPT !.reg[r] = v]
<1>2. q.pc = p.pc /\ q.reg = [p.reg EXCEPT ![r] = v] /\ q = [pc |-> q.pc, reg |-> q.reg]
  BY DEF PcbBien, Pcbs
<1>3. q.reg \in [Registros -> 0..(MOD32 - 1)]
  BY <1>1, <1>2 DEF PcbBien, Pcbs
<1>4. \A x \in Registros8 : q.reg[x] < MOD8
  BY <1>1, <1>2 DEF PcbBien, Pcbs, Registros
<1>5. q \in Pcbs
  BY <1>2, <1>3 DEF PcbBien, Pcbs
<1> QED BY <1>4, <1>5 DEF PcbBien

LEMMA CalculosBien ==
    ASSUME NEW p, PcbBien(p), NEW r, NEW v \in Int
    PROVE  /\ PcbBien(ejecutar_set(p, r, v)) /\ PcbBien(sumar(p)) /\ PcbBien(restar(p))
           /\ PcbBien(ejecutar_jnz(p, r, v))
<1>1. ASSUME NEW x \in Registros, NEW y \in Int
      PROVE  y % Modulo(x) \in Nat /\ y % Modulo(x) < Modulo(x)
  BY Pesos, Dividir DEF Modulo
<1>2. PcbBien(ejecutar_set(p, r, v))
  BY <1>1, PonerBien, SiguienteBien DEF ejecutar_set
<1>3. "AX" \in Registros /\ Modulo("AX") = MOD8 /\ p.reg["AX"] \in Int /\ p.reg["BX"] \in Int
  BY DEF Registros, Registros8, Modulo, PcbBien, Pcbs
<1>4. PcbBien(sumar(p)) /\ PcbBien(restar(p))
  <2> DEFINE suma == (p.reg["AX"] + p.reg["BX"]) % MOD8
             resta == (p.reg["AX"] - p.reg["BX"]) % MOD8
  <2>1. suma \in Nat /\ suma < Modulo("AX") /\ resta \in Nat /\ resta < Modulo("AX")
    BY <1>3, Pesos, Dividir
  <2>2. /\ sumar(p) = Siguiente([p EXCEPT !.reg["AX"] = suma])
        /\ restar(p) = Siguiente([p EXCEPT !.reg["AX"] = resta])
    BY DEF sumar, restar
  <2> HIDE DEF suma, resta
  <2> QED BY <1>3, <2>1, <2>2, PonerBien, SiguienteBien
<1>5. PcbBien(ejecutar_jnz(p, r, v))
  <2>1. v % MOD32 \in 0..(MOD32 - 1)
    BY Pesos, Dividir
  <2>2. PcbBien([p EXCEPT !.pc = v % MOD32])
    BY <2>1 DEF PcbBien, Pcbs
  <2> QED BY <2>2, SiguienteBien DEF ejecutar_jnz
<1> QED BY <1>2, <1>4, <1>5

-----------------------------------------------------------------------------
(* Addresses and sticks *)

LEMMA DireccionTipo ==
    ASSUME NEW v \in Int
    PROVE  DireccionFisica(v) \in 0..(MOD32 - 1)
<1>1. Entero(v) \in Int
  BY Pesos DEF Entero
<1>2. TAM_MAX_SEGMENTO \in Nat /\ TAM_MAX_SEGMENTO > 0
  BY SupuestosInstrucciones
<1> DEFINE a == Entero(v)
           c == Cociente(a, TAM_MAX_SEGMENTO)
<1>3. c \in Int
  <2> HIDE DEF a
  <2>1. a \div TAM_MAX_SEGMENTO \in Int /\ (-a) \div TAM_MAX_SEGMENTO \in Int
    BY <1>1, <1>2, Dividir DEF a
  <2> QED BY <2>1 DEF Cociente
<1> HIDE DEF a, c
<1>4. c * TAM_MAX_SEGMENTO + (a - TAM_MAX_SEGMENTO * c) \in Int
  <2>1. c * TAM_MAX_SEGMENTO \in Int /\ TAM_MAX_SEGMENTO * c \in Int
    BY <1>2, <1>3, Producto
  <2> QED BY <1>1, <2>1 DEF a
<1>5. DireccionFisica(v)
         = (c * TAM_MAX_SEGMENTO + (a - TAM_MAX_SEGMENTO * c)) % MOD32
  BY DEF DireccionFisica, Sobrante, a, c
<1> QED BY <1>4, <1>5, Pesos, Dividir

\* The first stick that has an address.
LEMMA PrimeroEsta ==
    ASSUME NEW I, I \subseteq Nat, I # {}
    PROVE  \E i \in I : \A j \in I : i <= j
<1>1. PICK x \in I : \A y \in I : ~(<<y, x>> \in OpToRel(<, Nat))
  BY NatLessThanWellFounded, WFMin
<1>2. \A x1, y \in Nat : y < x1 => <<y, x1>> \in OpToRel(<, Nat)
  BY Zenon DEF OpToRel
<1>3. \A y \in I : ~(y < x)
  BY <1>1, <1>2, Zenon
<1> QED BY <1>3

LEMMA StickDeEs ==
    ASSUME NEW d
    PROVE  /\ StickDe(d) \in 0..Len(Sticks)
           /\ StickDe(d) # KM => StickDe(d) \in DOMAIN Sticks /\ LoTiene(StickDe(d), d)
<1>1. Len(Sticks) \in Nat /\ DOMAIN Sticks = 1..Len(Sticks)
  BY SupuestosCpu
<1>2. CASE \E i \in DOMAIN Sticks : LoTiene(i, d)
  <2> DEFINE I == {i \in DOMAIN Sticks : LoTiene(i, d)}
  <2>1. I \subseteq Nat /\ I # {}
    BY <1>1, <1>2
  <2>2. PICK i \in I : \A j \in I : i <= j
    <3> HIDE DEF I
    <3> QED BY <2>1, PrimeroEsta
  <2>3. \A j \in 1..(i - 1) : ~LoTiene(j, d)
    BY <1>1, <2>2
  <2>4. StickDe(d) \in DOMAIN Sticks /\ LoTiene(StickDe(d), d)
    BY <1>2, <2>2, <2>3 DEF StickDe
  <2> QED BY <1>1, <2>4
<1>3. CASE ~\E i \in DOMAIN Sticks : LoTiene(i, d)
  BY <1>1, <1>3 DEF StickDe, KM
<1> QED BY <1>2, <1>3

LEMMA StickDeNo ==
    ASSUME NEW d, \E i \in DOMAIN Sticks : LoTiene(i, d)
    PROVE  StickDe(d) # KM
<1> DEFINE I == {i \in DOMAIN Sticks : LoTiene(i, d)}
<1>1. Len(Sticks) \in Nat /\ DOMAIN Sticks = 1..Len(Sticks)
  BY SupuestosCpu
<1>2. I \subseteq Nat /\ I # {}
  BY <1>1
<1>3. PICK i \in I : \A j \in I : i <= j
  <2> HIDE DEF I
  <2> QED BY <1>2, PrimeroEsta
<1>4. \A j \in 1..(i - 1) : ~LoTiene(j, d)
  BY <1>1, <1>3
<1>5. StickDe(d) \in DOMAIN Sticks
  BY <1>3, <1>4 DEF StickDe
<1> QED BY <1>1, <1>5 DEF KM

\* The limit of a stick that has an address has not wrapped.
LEMMA LoTieneEs ==
    ASSUME NEW i \in DOMAIN Sticks, NEW d \in Nat, LoTiene(i, d)
    PROVE  /\ Sticks[i].base \in Nat /\ Sticks[i].tamano \in Nat
           /\ Sticks[i].base <= d /\ d < Sticks[i].base + Sticks[i].tamano
           /\ Sticks[i].base + Sticks[i].tamano < MOD32
<1> DEFINE b == Sticks[i].base
           n == Sticks[i].tamano
<1>1. b \in 0..(MOD32 - 1) /\ n \in 0..(MOD32 - 1)
  <2> DEFINE S == [base : 0..(MOD32 - 1), tamano : 0..(MOD32 - 1)]
  <2>1. Sticks \in Seq(S) /\ i \in 1..Len(Sticks)
    BY SupuestosCpu
  <2> HIDE DEF S
  <2>2. Sticks[i] \in S
    BY <2>1, ElementOfSeq
  <2> QED BY <2>2 DEF S
<1>2. b <= d /\ d < (b + n) % MOD32
  BY DEF LoTiene
<1> HIDE DEF b, n
<1>3. CASE b + n < MOD32
  <2>1. (b + n) % MOD32 = b + n
    <3>1. b + n \in 0..(MOD32 - 1) /\ MOD32 \in Nat
      BY <1>1, <1>3, Pesos
    <3> DEFINE x == b + n
    <3> HIDE DEF x
    <3>2. x % MOD32 = x
      BY <3>1, RestoDeMenor DEF x
    <3> QED BY <3>2 DEF x
  <2> QED BY <1>1, <1>2, <1>3, <2>1 DEF b, n
<1>4. CASE b + n >= MOD32
  <2>1. b + n - MOD32 \in 0..(MOD32 - 1) /\ b + n = 1 * MOD32 + (b + n - MOD32)
    BY <1>1, <1>4, Pesos
  <2>2. (b + n) % MOD32 = b + n - MOD32
    <3> DEFINE r == b + n - MOD32
    <3>1. r \in 0..(MOD32 - 1) /\ b + n = 1 * MOD32 + r
      BY <2>1
    <3> HIDE DEF r
    <3>2. (1 * MOD32 + r) % MOD32 = r
      BY <3>1, CocienteEs, Pesos
    <3> QED BY <3>1, <3>2 DEF r
  <2> QED BY <1>1, <1>2, <2>2, Pesos
<1> QED BY <1>1, <1>3, <1>4, Pesos

-----------------------------------------------------------------------------
(* The invariant *)

LEMMA DirActualTipo ==
    ASSUME acceso \in Locales
    PROVE  dir_actual \in 0..(MOD32 - 1)
<1>1. acceso.dir + acceso.hecho \in Int
  BY DEF Locales
<1> QED BY <1>1, Pesos, Dividir DEF dir_actual

LEMMA PcbActual ==
    ASSUME InvCpu
    PROVE  PcbBien(pcb)
BY DEF InvCpu, InvTipos, TypeOK, PcbBien

LEMMA TamanoEs ==
    ASSUME NEW r \in Registros
    PROVE  /\ Tamano(r) \in {1, 4}
           /\ Modulo(r) = IF Tamano(r) = 1 THEN MOD8 ELSE MOD32
BY DEF Tamano, Modulo

\* A step that ends outside an access.
LEMMA FueraBien ==
    ASSUME InvCpu, UNCHANGED <<programa, memoria, instruccion>>,
           punto' \in Puntos \ {"ejecuta", "acceso", "espera_stick"},
           PcbBien(pcb'), acceso' \in Locales, devuelto'.pcb \in Pcbs,
           caidos' \subseteq DOMAIN Sticks \cup {KM}
    PROVE  InvCpu'
<1>1. InvTipos'
  BY DEF InvCpu, InvTipos, TypeOK, PcbBien, Locales
<1>2. InvInstruccion' /\ InvAcceso' /\ PedidoDentro' /\ InvPedido'
  BY DEF InvInstruccion, InvAcceso, PedidoDentro, InvPedido, EnAcceso
<1> QED BY <1>1, <1>2 DEF InvCpu

LEMMA InternoFueraBien ==
    ASSUME InvCpu,
           Recibir \/ Fetch \/ FetchFalla \/ Calcular \/ MovSinRegistro \/ MovSegFault
           \/ Exit \/ Invalida \/ FinAcceso \/ Interrumpir \/ Continuar
    PROVE  InvCpu'
<1> USE DEF InvCpu, InvTipos, TypeOK
<1>1. /\ UNCHANGED <<programa, memoria, instruccion, caidos>>
      /\ punto' \in Puntos \ {"ejecuta", "acceso", "espera_stick"}
  BY DEF Recibir, Fetch, FetchFalla, Calcular, MovSinRegistro, MovSegFault,
         Exit, Invalida, FinAcceso, Interrumpir, Continuar, Ir, Puntos
<1>2. acceso' \in Locales
  <2>1. SinAcceso \in Locales
    BY SupuestosCpu DEF SinAcceso, Locales, KM
  <2> QED BY <2>1 DEF Recibir, Fetch, FetchFalla, Calcular, MovSinRegistro, MovSegFault,
         Exit, Invalida, FinAcceso, Interrumpir, Continuar
<1>3. devuelto'.pcb \in Pcbs
  BY DEF Recibir, Fetch, FetchFalla, Calcular, MovSinRegistro, MovSegFault,
         Exit, Invalida, FinAcceso, Interrumpir, Continuar, ParaKernel
<1> HIDE DEF InvCpu, InvTipos, TypeOK
<1>4. PcbBien(PcbInicial)
  BY Pesos DEF PcbInicial, PcbBien, Pcbs, Registros
<1>5. PcbBien(pcb')
  <2>1. CASE Recibir
    BY <1>4, <2>1, PcbActual DEF Recibir
  <2>2. CASE Calcular
    <3>1. instruccion.valor \in Int /\ instruccion.cmd \in {"SET", "SUM", "SUB", "JNZ"}
      BY <2>2 DEF Calcular, Decodifica, InvCpu, InvTipos, Lineas
    <3> QED BY <2>2, <3>1, PcbActual, CalculosBien DEF Calcular
  <2>3. CASE MovSinRegistro \/ FinAcceso
    BY <2>3, PcbActual, SiguienteBien DEF MovSinRegistro, FinAcceso
  <2>4. CASE Fetch \/ FetchFalla \/ MovSegFault \/ Exit \/ Invalida \/ Interrumpir
             \/ Continuar
    BY <2>4, PcbActual DEF Fetch, FetchFalla, MovSegFault, Exit, Invalida, Interrumpir,
                           Continuar
  <2> QED BY <2>1, <2>2, <2>3, <2>4
<1>6. caidos' \subseteq DOMAIN Sticks \cup {KM}
  BY <1>1 DEF InvCpu, InvTipos, TypeOK
<1> QED BY <1>1, <1>2, <1>3, <1>5, <1>6, FueraBien

LEMMA LlegaInstruccionBien ==
    ASSUME InvCpu, LlegaInstruccion
    PROVE  InvCpu'
<1>1. instruccion' \in Lineas
  <2>1. CASE EnPrograma(pcb, Len(programa))
    <3>1. pcb.pc \in 0..(MOD32 - 1) /\ programa \in Seq(Lineas)
      BY DEF InvCpu, InvTipos, TypeOK, Pcbs
    <3>2. pcb.pc + 1 \in 1..Len(programa)
      <4>1. Len(programa) \in Nat
        BY <3>1, LenProperties
      <4>2. pcb.pc = Entero(pcb.pc)
        <5>1. Entero(pcb.pc) >= 0
          BY <2>1, <4>1 DEF EnPrograma
        <5>2. ASSUME NEW x \in 0..(MOD32 - 1) PROVE ~(x - MOD32 >= 0)
          BY Pesos
        <5>3. ~(pcb.pc - MOD32 >= 0)
          BY <3>1, <5>2
        <5> QED BY <5>1, <5>3 DEF Entero
      <4> QED BY <2>1, <3>1, <4>1, <4>2 DEF EnPrograma
    <3>3. programa[pcb.pc + 1] \in Lineas
      BY <3>1, <3>2, ElementOfSeq
    <3> QED BY <2>1, <3>3 DEF LlegaInstruccion
  <2>2. CASE ~EnPrograma(pcb, Len(programa))
    <3>1. EMPTY \in Lineas
      BY DEF EMPTY, Lineas, Comandos
    <3> QED BY <2>2, <3>1 DEF LlegaInstruccion
  <2> QED BY <2>1, <2>2
<1>2. punto' = "ejecuta" /\ UNCHANGED <<programa, memoria, pcb, acceso, devuelto, caidos>>
  BY DEF LlegaInstruccion, Ir
<1>3. InvTipos'
  BY <1>1, <1>2 DEF InvCpu, InvTipos, TypeOK, Puntos, Locales
<1>4. InvInstruccion'
  BY <1>2 DEF InvInstruccion, LlegaInstruccion, EnPrograma
<1>5. InvAcceso' /\ PedidoDentro' /\ InvPedido'
  BY <1>2 DEF InvAcceso, PedidoDentro, InvPedido, EnAcceso
<1> QED BY <1>3, <1>4, <1>5 DEF InvCpu

LEMMA MovBien ==
    ASSUME InvCpu, Mov
    PROVE  InvCpu'
<1>1. /\ punto = "ejecuta" /\ punto' = "acceso"
      /\ UNCHANGED <<programa, memoria, pcb, instruccion, devuelto, caidos>>
      /\ instruccion.cmd \in {"MOV_IN", "MOV_OUT"} /\ instruccion.reg \in Registros
      /\ acceso' = [SinAcceso EXCEPT !.dir = DireccionFisica(DirLogica),
                                     !.tam = Tamano(instruccion.reg)]
  BY DEF Mov, Decodifica, Ir
<1>2. DireccionFisica(DirLogica) \in 0..(MOD32 - 1)
  <2>1. DirLogica \in Int
    BY DEF DirLogica, InvCpu, InvTipos, TypeOK, Pcbs, Registros, Registros32
  <2> QED BY <2>1, DireccionTipo
<1>3. PICK d \in 0..(MOD32 - 1), tam \in {1, 4} :
         /\ tam = Tamano(instruccion.reg)
         /\ acceso' = [dir |-> d, tam |-> tam, hecho |-> 0, a |-> KM, desde |-> 0,
                       cuantos |-> 0]
  BY <1>1, <1>2, TamanoEs DEF SinAcceso
<1>8. acceso' \in Locales
  <2>1. KM \in 0..Len(Sticks) /\ d \in Nat
    BY SupuestosCpu, Pesos DEF KM
  <2> QED BY <1>3, <2>1 DEF Locales
<1>9. acceso'.hecho = 0 /\ acceso'.tam = tam /\ acceso'.dir = d
  BY <1>3
<1>4. InvTipos'
  BY <1>1, <1>8, <1>9 DEF InvCpu, InvTipos, TypeOK, Puntos
<1>5. InvInstruccion'
  BY <1>1 DEF InvCpu, InvInstruccion, EnPrograma
<1>6. InvAcceso'
  BY <1>1, <1>3, <1>9, Pesos DEF InvAcceso
<1>7. PedidoDentro' /\ InvPedido'
  BY <1>1 DEF PedidoDentro, InvPedido
<1> QED BY <1>4, <1>5, <1>6, <1>7 DEF InvCpu

\* What a request asks for.
LEMMA PedirEs ==
    ASSUME InvCpu, Pedir
    PROVE  \E i \in 0..Len(Sticks), desde \in Nat, cuantos \in 1..4 :
              /\ acceso' = [acceso EXCEPT !.a = i, !.desde = desde, !.cuantos = cuantos]
              /\ i = StickDe(dir_actual)
              /\ cuantos <= acceso.tam - acceso.hecho
              /\ i = KM => cuantos = acceso.tam - acceso.hecho
              /\ i # KM => /\ i \in DOMAIN Sticks
                           /\ desde + cuantos <= Sticks[i].tamano
                           /\ Sticks[i].base + desde = dir_actual
<1> DEFINE i == StickDe(dir_actual)
           resta == acceso.tam - acceso.hecho
<1>1. /\ acceso \in Locales /\ acceso.hecho < acceso.tam /\ EnAcceso
      /\ dir_actual \in 0..(MOD32 - 1)
  BY DirActualTipo DEF Pedir, InvCpu, InvTipos, EnAcceso
<1>2. resta \in 1..4 /\ bytes_restantes = resta
  BY <1>1 DEF Locales, bytes_restantes
<1>3. i \in 0..Len(Sticks)
  BY StickDeEs
<1>4. CASE i = KM
  <2>1. acceso' = [acceso EXCEPT !.a = i, !.desde = dir_actual, !.cuantos = resta]
    BY <1>2, <1>4 DEF Pedir
  <2>2. resta <= acceso.tam - acceso.hecho /\ dir_actual \in Nat
    BY <1>1, <1>2, Pesos
  <2> HIDE DEF i
  <2> QED BY <1>2, <1>3, <1>4, <2>1, <2>2 DEF i
<1>5. CASE i # KM
  <2> DEFINE desde == dir_actual - Sticks[i].base
             cuantos == Minimo(resta, Sticks[i].tamano - desde)
  <2>1. i \in DOMAIN Sticks /\ LoTiene(i, dir_actual)
    BY <1>5, StickDeEs
  <2>2. acceso' = [acceso EXCEPT !.a = i, !.desde = desde, !.cuantos = cuantos]
    BY <1>2, <1>5 DEF Pedir, Cabe
  <2>3. /\ Sticks[i].base \in Nat /\ Sticks[i].tamano \in Nat
        /\ Sticks[i].base <= dir_actual
        /\ dir_actual < Sticks[i].base + Sticks[i].tamano
    <3> HIDE DEF i
    <3> QED BY <1>1, <2>1, LoTieneEs
  <2>4. /\ desde \in Nat /\ cuantos \in 1..4 /\ cuantos <= resta
        /\ desde + cuantos <= Sticks[i].tamano /\ Sticks[i].base + desde = dir_actual
    <3> HIDE DEF i, resta
    <3> QED BY <1>1, <1>2, <2>3 DEF Minimo
  <2> HIDE DEF i, resta, desde, cuantos
  <2> QED BY <1>3, <1>5, <2>1, <2>2, <2>4 DEF i, resta
<1> QED BY <1>4, <1>5

LEMMA PedirBien ==
    ASSUME InvCpu, Pedir
    PROVE  InvCpu'
<1>1. PICK i \in 0..Len(Sticks), desde \in Nat, cuantos \in 1..4 :
              /\ acceso' = [acceso EXCEPT !.a = i, !.desde = desde, !.cuantos = cuantos]
              /\ i = StickDe(dir_actual)
              /\ cuantos <= acceso.tam - acceso.hecho
              /\ i = KM => cuantos = acceso.tam - acceso.hecho
              /\ i # KM => /\ i \in DOMAIN Sticks
                           /\ desde + cuantos <= Sticks[i].tamano
                           /\ Sticks[i].base + desde = dir_actual
  BY PedirEs
<1>2. /\ punto = "acceso" /\ punto' = "espera_stick" /\ acceso.hecho < acceso.tam
      /\ UNCHANGED <<programa, memoria, pcb, instruccion, devuelto, caidos>>
  BY DEF Pedir, Ir
<1>3. /\ acceso \in Locales /\ acceso' \in Locales
      /\ acceso'.dir = acceso.dir /\ acceso'.hecho = acceso.hecho /\ acceso'.tam = acceso.tam
      /\ acceso'.a = i /\ acceso'.desde = desde /\ acceso'.cuantos = cuantos
  <2>1. acceso \in Locales
    BY DEF InvCpu, InvTipos
  <2>2. acceso' = [acceso EXCEPT !.a = i, !.desde = desde, !.cuantos = cuantos]
    BY <1>1
  <2>3. cuantos \in Nat
    OBVIOUS
  <2>4. acceso' \in Locales
    BY <2>1, <2>2, <2>3 DEF Locales
  <2> QED BY <2>1, <2>2, <2>4 DEF Locales
<1>4. InvTipos'
  BY <1>2, <1>3 DEF InvCpu, InvTipos, TypeOK, Puntos, Locales
<1>5. InvInstruccion'
  BY <1>2 DEF InvCpu, InvInstruccion, EnPrograma, EnAcceso
<1>6. InvAcceso'
  BY <1>2, <1>3 DEF InvCpu, InvAcceso, EnAcceso
<1>7. dir_actual' = dir_actual
  BY <1>3 DEF dir_actual
<1>8. PedidoDentro'
  <2>1. acceso.hecho + cuantos <= acceso.tam
    <3>1. cuantos <= acceso.tam - acceso.hecho
      BY <1>1
    <3>2. acceso.tam \in Int /\ acceso.hecho \in Int
      BY <1>3 DEF Locales
    <3> QED BY <3>1, <3>2
  <2> QED BY <1>1, <1>3, <1>7, <2>1 DEF PedidoDentro
<1>9. InvPedido'
  BY <1>1, <1>2, <1>3, <1>7 DEF InvPedido, bytes_restantes
<1> QED BY <1>4, <1>5, <1>6, <1>8, <1>9 DEF InvCpu

\* The bytes of a fragment are one after another in its stick.
LEMMA Tramo ==
    ASSUME InvCpu, punto = "espera_stick", acceso.a # KM,
           NEW j \in 0..(acceso.cuantos - 1)
    PROVE  /\ acceso.a \in DOMAIN Sticks /\ LoTiene(acceso.a, dir_actual + j)
           /\ dir_actual + j \in 0..(MOD32 - 1)
           /\ (acceso.dir + (acceso.hecho + j)) % MOD32 = dir_actual + j
           /\ acceso.desde + j \in 0..(Sticks[acceso.a].tamano - 1)
           /\ dir_actual + j - Sticks[acceso.a].base = acceso.desde + j
<1> DEFINE a == acceso.a
           b == Sticks[acceso.a].base
           n == Sticks[acceso.a].tamano
           d == dir_actual
           desde == acceso.desde
           cuantos == acceso.cuantos
<1>1. /\ acceso.dir \in Nat /\ acceso.hecho \in Nat /\ desde \in Nat /\ cuantos \in Nat
      /\ d \in 0..(MOD32 - 1)
  BY DirActualTipo DEF InvCpu, InvTipos, Locales
<1>2. a \in DOMAIN Sticks /\ LoTiene(a, d)
  BY StickDeEs DEF InvCpu, InvPedido
<1>3. desde + cuantos <= n /\ b + desde = d
  BY DEF InvCpu, PedidoDentro
<1>4. b \in Nat /\ n \in Nat /\ b <= d /\ d < b + n /\ b + n < MOD32
  <2> HIDE DEF d
  <2> QED BY <1>1, <1>2, LoTieneEs
<1>5. d + j \in 0..(MOD32 - 1) /\ desde + j \in 0..(n - 1) /\ d + j - b = desde + j
      /\ b <= d + j /\ d + j < b + n
  <2> HIDE DEF a, b, n, d, desde
  <2> QED BY <1>1, <1>3, <1>4, Pesos
<1>6. LoTiene(a, d + j)
  <2>1. (b + n) % MOD32 = b + n
    <3> HIDE DEF b, n
    <3>1. b + n \in 0..(MOD32 - 1) /\ MOD32 \in Nat
      BY <1>4, Pesos
    <3> DEFINE x == b + n
    <3> HIDE DEF x
    <3>2. x % MOD32 = x
      BY <3>1, RestoDeMenor DEF x
    <3> QED BY <3>2 DEF x
  <2> QED BY <1>5, <2>1 DEF LoTiene
<1>7. (acceso.dir + (acceso.hecho + j)) % MOD32 = d + j
  <2> DEFINE x == acceso.dir + acceso.hecho
  <2>1. x \in Int /\ d = x % MOD32 /\ acceso.dir + (acceso.hecho + j) = x + j
    BY <1>1 DEF dir_actual
  <2> HIDE DEF x, d
  <2>2. ((x % MOD32) + j) % MOD32 = (x + j) % MOD32
    <3>1. j \in Int /\ MOD32 \in Nat /\ MOD32 > 0
      BY <1>1, Pesos
    <3> QED BY <2>1, <3>1, RestoDeSuma
  <2>3. (d + j) % MOD32 = d + j
    BY <1>5, Pesos, RestoDeMenor
  <2> QED BY <2>1, <2>2, <2>3
<1> QED BY <1>2, <1>5, <1>6, <1>7

\* An answer counts the bytes that were asked for.
LEMMA AvanzarBien ==
    ASSUME InvCpu, punto = "espera_stick", Avanzar
    PROVE  /\ acceso' \in Locales
           /\ acceso' = [acceso EXCEPT !.hecho = acceso.hecho + acceso.cuantos]
           /\ acceso'.dir = acceso.dir /\ acceso'.tam = acceso.tam
           /\ acceso'.hecho = acceso.hecho + acceso.cuantos
           /\ acceso'.hecho \in 1..acceso.tam
           /\ \A k \in 0..(acceso'.hecho - 1) :
                 acceso'.hecho < acceso.tam => StickDe((acceso.dir + k) % MOD32) # KM
<1>1. /\ acceso \in Locales /\ acceso.cuantos > 0 /\ acceso.hecho < acceso.tam
      /\ acceso.hecho + acceso.cuantos <= acceso.tam
      /\ acceso.tam \in {0, 1, 4} /\ acceso.hecho \in 0..4 /\ acceso.cuantos \in Nat
  BY DEF InvCpu, InvTipos, PedidoDentro, InvPedido, Locales
<1>2. acceso' = [acceso EXCEPT !.hecho = acceso.hecho + acceso.cuantos]
  BY DEF Avanzar
<1>3. /\ acceso'.dir = acceso.dir /\ acceso'.tam = acceso.tam
      /\ acceso'.hecho = acceso.hecho + acceso.cuantos
  BY <1>1, <1>2 DEF Locales
<1>4. acceso.hecho + acceso.cuantos \in 1..acceso.tam
      /\ acceso.hecho + acceso.cuantos \in 0..4
  BY <1>1
<1>5. acceso' \in Locales
  BY <1>1, <1>2, <1>4 DEF Locales
<1>6. ASSUME NEW k \in 0..(acceso'.hecho - 1), acceso'.hecho < acceso.tam
      PROVE  StickDe((acceso.dir + k) % MOD32) # KM
  <2>1. CASE k < acceso.hecho
    <3>1. k \in 0..(acceso.hecho - 1)
      BY <1>1, <1>6, <2>1
    <3> QED BY <1>1, <3>1 DEF InvCpu, InvAcceso, EnAcceso
  <2>2. CASE k >= acceso.hecho
    <3> DEFINE j == k - acceso.hecho
    <3>1. j \in 0..(acceso.cuantos - 1) /\ acceso.hecho + j = k
      BY <1>1, <1>3, <1>6, <2>2
    <3>2. acceso.a # KM
      <4>1. acceso.a = KM => acceso.cuantos = acceso.tam - acceso.hecho
        BY DEF InvCpu, InvPedido, bytes_restantes
      <4> QED BY <1>1, <1>3, <1>6, <4>1
    <3> HIDE DEF j
    <3>3. /\ acceso.a \in DOMAIN Sticks /\ LoTiene(acceso.a, dir_actual + j)
          /\ (acceso.dir + k) % MOD32 = dir_actual + j
      BY <3>1, <3>2, Tramo
    <3>4. \E i \in DOMAIN Sticks : LoTiene(i, (acceso.dir + k) % MOD32)
      BY <3>3
    <3> DEFINE d == (acceso.dir + k) % MOD32
    <3>5. StickDe(d) # KM
      <4> HIDE DEF d
      <4>1. \E i \in DOMAIN Sticks : LoTiene(i, d)
        BY <3>4 DEF d
      <4> QED BY <4>1, StickDeNo
    <3> QED BY <3>5
  <2> QED BY <1>1, <1>6, <2>1, <2>2
<1> QED BY <1>2, <1>3, <1>4, <1>5, <1>6

\* The answer to a request, from Kernel Memory or from a stick.
LlegaLectura   == LecturaDeKm \/ LecturaDeStick
LlegaEscritura == EscrituraDeKm \/ EscrituraDeStick

Recibido(k) ==
    IF acceso.a = KM THEN Texto[k] ELSE memoria[<<acceso.a, acceso.desde + k>>]
Copiado(v) == [k \in 0..(acceso.tam - 1) |->
                  IF k \in acceso.hecho..(acceso.hecho + acceso.cuantos - 1)
                  THEN Recibido(k - acceso.hecho) ELSE Byte(v, k)]

LEMMA LecturaEs ==
    ASSUME InvCpu, LlegaLectura
    PROVE  /\ punto = "espera_stick" /\ instruccion.cmd = "MOV_IN"
           /\ Avanzar /\ Ir("acceso")
           /\ UNCHANGED <<programa, memoria, instruccion, caidos, devuelto>>
           /\ pcb' = [pcb EXCEPT !.reg[instruccion.reg] =
                         Valor(Copiado(pcb.reg[instruccion.reg]), acceso.tam)]
<1> DEFINE r == instruccion.reg
           b == [k \in 0..(acceso.cuantos - 1) |->
                    memoria[<<acceso.a, acceso.desde + k>>]]
           B == IF acceso.a = KM THEN Texto ELSE b
           H == acceso.hecho
           C == acceso.cuantos
<1>1. /\ punto = "espera_stick" /\ instruccion.cmd = "MOV_IN" /\ SeguirLectura(B)
      /\ caidos' = caidos
  BY DEF LlegaLectura, LecturaDeKm, LecturaDeStick, Espera
<1>2. pcb \in Pcbs /\ H \in Nat /\ C \in Nat
  BY DEF InvCpu, InvTipos, TypeOK, Locales
<1>3. pcb' = [pcb EXCEPT !.reg[r] = Copiar(pcb.reg[r], acceso.tam, B)]
  BY <1>1, <1>2 DEF SeguirLectura, Pcbs
<1>4. ASSUME NEW k \in 0..(acceso.tam - 1), k \in H..(H + C - 1)
      PROVE  B[k - H] = Recibido(k - H)
  <2>1. k - H \in 0..(C - 1)
    BY <1>2, <1>4
  <2> HIDE DEF H, C
  <2> QED BY <2>1 DEF Recibido, C
<1>5. Copiar(pcb.reg[r], acceso.tam, B) = Valor(Copiado(pcb.reg[r]), acceso.tam)
  <2> HIDE DEF B
  <2> QED BY <1>4 DEF Copiar, Copiado
<1> QED BY <1>1, <1>3, <1>5 DEF SeguirLectura

LEMMA EscrituraEs ==
    ASSUME InvCpu, LlegaEscritura
    PROVE  /\ punto = "espera_stick" /\ instruccion.cmd = "MOV_OUT"
           /\ Avanzar /\ Ir("acceso")
           /\ UNCHANGED <<programa, pcb, instruccion, caidos, devuelto>>
           /\ memoria' = [m \in Celdas |->
                  IF m[1] = acceso.a /\ m[2] - acceso.desde \in 0..(acceso.cuantos - 1)
                  THEN Byte(pcb.reg[instruccion.reg],
                            acceso.hecho + (m[2] - acceso.desde))
                  ELSE memoria[m]]
<1>1. memoria \in [Celdas -> Bytes]
  BY DEF InvCpu, InvTipos, TypeOK
<1>2. \A m \in Celdas : m[1] # KM
  BY SupuestosCpu DEF Celdas, KM
<1> QED BY <1>1, <1>2 DEF LlegaEscritura, EscrituraDeKm, EscrituraDeStick, Espera,
           SeguirAcceso

LEMMA RecibidoTipo ==
    ASSUME InvCpu, punto = "espera_stick", NEW j \in 0..(acceso.cuantos - 1)
    PROVE  /\ Recibido(j) \in Bytes
           /\ acceso.a # KM => <<acceso.a, acceso.desde + j>> \in Celdas
<1>1. CASE acceso.a = KM
  <2>1. j \in 0..3
    BY DEF InvCpu, InvTipos, Locales, PedidoDentro
  <2> QED BY <1>1, <2>1, SupuestosCpu DEF Recibido
<1>2. CASE acceso.a # KM
  <2>1. acceso.a \in DOMAIN Sticks /\ acceso.desde + j \in 0..(Sticks[acceso.a].tamano - 1)
    BY <1>2, Tramo
  <2>2. <<acceso.a, acceso.desde + j>> \in Celdas
    BY <2>1 DEF Celdas
  <2> QED BY <1>2, <2>2 DEF Recibido, InvCpu, InvTipos, TypeOK
<1> QED BY <1>1, <1>2

LEMMA CopiarTipo ==
    ASSUME InvCpu, punto = "espera_stick", NEW v \in Nat
    PROVE  Copiado(v) \in [0..(acceso.tam - 1) -> Bytes]
<1> SUFFICES ASSUME NEW k \in 0..(acceso.tam - 1)
             PROVE  (IF k \in acceso.hecho..(acceso.hecho + acceso.cuantos - 1)
                     THEN Recibido(k - acceso.hecho) ELSE Byte(v, k)) \in Bytes
  BY DEF Copiado
<1>1. acceso.tam \in {0, 1, 4} /\ acceso.hecho \in Nat /\ acceso.cuantos \in Nat
  BY DEF InvCpu, InvTipos, Locales
<1>2. CASE k \in acceso.hecho..(acceso.hecho + acceso.cuantos - 1)
  <2> DEFINE j == k - acceso.hecho
  <2>1. j \in 0..(acceso.cuantos - 1)
    BY <1>1, <1>2
  <2> HIDE DEF j
  <2>2. Recibido(j) \in Bytes
    BY <2>1, RecibidoTipo
  <2> QED BY <1>2, <2>2 DEF j
<1>3. CASE k \notin acceso.hecho..(acceso.hecho + acceso.cuantos - 1)
  <2>1. k \in 0..3
    BY <1>1
  <2> QED BY <1>3, <2>1, ByteTipo
<1> QED BY <1>2, <1>3

\* An answer, or a server that has closed, leaves the CPU in the loop.
LEMMA SigueBien ==
    ASSUME InvCpu, punto = "espera_stick", Avanzar, Ir("acceso"),
           UNCHANGED <<programa, instruccion, caidos, devuelto>>, pcb'.pc = pcb.pc,
           PcbBien(pcb'), memoria' \in [Celdas -> Bytes]
    PROVE  InvCpu'
<1>1. /\ punto' = "acceso" /\ acceso' \in Locales
      /\ acceso'.dir = acceso.dir /\ acceso'.tam = acceso.tam
      /\ acceso'.hecho \in 1..acceso.tam
      /\ \A k \in 0..(acceso'.hecho - 1) :
            acceso'.hecho < acceso.tam => StickDe((acceso.dir + k) % MOD32) # KM
  BY AvanzarBien DEF Ir
<1>2. InvTipos'
  BY <1>1 DEF InvCpu, InvTipos, TypeOK, Puntos, PcbBien, Locales
<1>3. InvInstruccion'
  BY DEF InvCpu, InvInstruccion, EnAcceso, EnPrograma
<1>4. InvAcceso'
  BY <1>1 DEF InvCpu, InvAcceso, EnAcceso
<1>5. PedidoDentro' /\ InvPedido'
  BY <1>1 DEF PedidoDentro, InvPedido
<1> QED BY <1>2, <1>3, <1>4, <1>5 DEF InvCpu

LEMMA RespuestaBien ==
    ASSUME InvCpu, LlegaLectura \/ LlegaEscritura \/ AccesoFalla
    PROVE  InvCpu'
<1>1. CASE LlegaLectura
  <2> DEFINE v == pcb.reg[instruccion.reg]
             f == Copiado(v)
             x == Valor(f, acceso.tam)
  <2>1. /\ punto = "espera_stick" /\ Avanzar /\ Ir("acceso")
        /\ UNCHANGED <<programa, memoria, instruccion, caidos, devuelto>>
        /\ pcb' = [pcb EXCEPT !.reg[instruccion.reg] = x]
    BY <1>1, LecturaEs
  <2>2. /\ instruccion.reg \in Registros /\ acceso.tam = Tamano(instruccion.reg)
        /\ acceso.tam \in {1, 4}
    BY <2>1, TamanoEs DEF InvCpu, InvAcceso, EnAcceso
  <2>3. v \in Nat
    BY <2>2 DEF InvCpu, InvTipos, TypeOK, Pcbs
  <2>4. f \in [0..(acceso.tam - 1) -> Bytes]
    <3> HIDE DEF v
    <3> QED BY <2>1, <2>3, CopiarTipo
  <2>5. x \in Nat /\ x < Modulo(instruccion.reg)
    <3> HIDE DEF f
    <3> QED BY <2>2, <2>4, BytesDeValor, TamanoEs
  <2> HIDE DEF x
  <2>6. PcbBien(pcb')
    BY <2>1, <2>2, <2>5, PcbActual, PonerBien
  <2>7. pcb'.pc = pcb.pc
    BY <2>1, PcbActual DEF PcbBien, Pcbs
  <2>8. memoria' \in [Celdas -> Bytes]
    BY <2>1 DEF InvCpu, InvTipos, TypeOK
  <2> QED BY <2>1, <2>6, <2>7, <2>8, SigueBien
<1>2. CASE LlegaEscritura
  <2>1. /\ punto = "espera_stick" /\ Avanzar /\ Ir("acceso")
        /\ UNCHANGED <<programa, pcb, instruccion, caidos, devuelto>>
    BY <1>2, EscrituraEs
  <2>2. /\ instruccion.reg \in Registros /\ acceso \in Locales
        /\ acceso.hecho + acceso.cuantos <= acceso.tam
    BY <2>1 DEF InvCpu, InvAcceso, EnAcceso, InvTipos, PedidoDentro
  <2>3. pcb.reg[instruccion.reg] \in Int
    BY <2>2 DEF InvCpu, InvTipos, TypeOK, Pcbs
  <2>4. \A k \in 0..(acceso.cuantos - 1) :
           Byte(pcb.reg[instruccion.reg], acceso.hecho + k) \in Bytes
    <3> TAKE k \in 0..(acceso.cuantos - 1)
    <3>1. acceso.hecho + k \in 0..3
      BY <2>2 DEF Locales
    <3> QED BY <2>3, <3>1, ByteTipo
  <2>5. memoria' \in [Celdas -> Bytes]
    BY <1>2, <2>4, EscrituraEs DEF InvCpu, InvTipos, TypeOK
  <2> QED BY <2>1, <2>5, PcbActual, SigueBien
<1>3. CASE AccesoFalla
  <2>1. CASE Avanzar /\ Ir("acceso")
    BY <1>3, <2>1, PcbActual, SigueBien DEF AccesoFalla, InvCpu, InvTipos, TypeOK
  <2>2. CASE acceso' = acceso /\ Ir("muerto")
    <3>1. /\ UNCHANGED <<programa, memoria, instruccion, pcb, devuelto, caidos>>
          /\ punto' = "muerto"
      BY <1>3, <2>2 DEF AccesoFalla, Ir
    <3>2. /\ acceso' \in Locales /\ devuelto'.pcb \in Pcbs
          /\ caidos' \subseteq DOMAIN Sticks \cup {KM}
      BY <2>2, <3>1 DEF InvCpu, InvTipos, TypeOK
    <3> QED BY <3>1, <3>2, PcbActual, FueraBien DEF Puntos
  <2> QED BY <1>3, <2>1, <2>2 DEF AccesoFalla
<1> QED BY <1>1, <1>2, <1>3

LEMMA AmbienteBien ==
    ASSUME InvCpu, Enviar \/ Caer
    PROVE  InvCpu'
<1>1. UNCHANGED <<programa, memoria, punto, pcb, instruccion, acceso, devuelto>>
  BY DEF Enviar, Caer
<1>2. caidos' \subseteq DOMAIN Sticks \cup {KM}
  BY SupuestosCpu DEF Enviar, Caer, InvCpu, InvTipos, TypeOK, KM
<1>3. InvTipos'
  BY <1>1, <1>2 DEF InvCpu, InvTipos, TypeOK, Locales
<1>4. InvInstruccion' /\ InvAcceso' /\ PedidoDentro' /\ InvPedido'
  BY <1>1 DEF InvCpu, InvInstruccion, InvAcceso, PedidoDentro, InvPedido, EnAcceso,
              EnPrograma, dir_actual, bytes_restantes
<1> QED BY <1>3, <1>4 DEF InvCpu

-----------------------------------------------------------------------------
\* Registers keep their width, an access is of the register and the line it
\* started with, and a request is of the next bytes, inside the stick that has
\* them: for every width of a byte, every list of sticks and every program.
THEOREM InvarianteCpu == Spec => []InvCpu
<1>1. Init => InvCpu
  <2> SUFFICES ASSUME Init PROVE InvCpu
    OBVIOUS
  <2>1. PcbInicial \in Pcbs /\ \A r \in Registros8 : PcbInicial.reg[r] < MOD8
    BY Pesos DEF PcbInicial, Pcbs, Registros
  <2>2. EMPTY \in Lineas
    BY DEF EMPTY, Lineas, Comandos
  <2>3. SinAcceso \in Locales
    BY SupuestosCpu DEF SinAcceso, Locales, KM
  <2>4. TypeOK
    <3>1. memoria \in [Celdas -> Bytes]
      BY Pesos DEF Init, Bytes
    <3> QED BY <2>1, <3>1 DEF Init, TypeOK, Puntos, SinAcceso
  <2>5. InvTipos
    BY <2>2, <2>3, <2>4, SupuestosCpu DEF Init, InvTipos
  <2> QED BY <2>5 DEF Init, InvCpu, InvInstruccion, InvAcceso, PedidoDentro, InvPedido,
                      EnAcceso
<1>2. InvCpu /\ [Next]_vars => InvCpu'
  <2> SUFFICES ASSUME InvCpu, [Next]_vars PROVE InvCpu'
    OBVIOUS
  <2>1. CASE UNCHANGED vars
    <3>1. InvTipos'
      BY <2>1 DEF vars, InvCpu, InvTipos, TypeOK, Locales
    <3>2. InvInstruccion' /\ InvAcceso' /\ PedidoDentro' /\ InvPedido'
      BY <2>1 DEF vars, InvCpu, InvInstruccion, InvAcceso, PedidoDentro, InvPedido,
                  EnAcceso, EnPrograma, dir_actual, bytes_restantes
    <3> QED BY <3>1, <3>2 DEF InvCpu
  <2>2. CASE Next
    BY <2>2, InternoFueraBien, LlegaInstruccionBien, MovBien, PedirBien, RespuestaBien,
       AmbienteBien DEF Next, Hilo, Interno, DeKm, LlegaLectura, LlegaEscritura
  <2> QED BY <2>1, <2>2
<1> QED BY <1>1, <1>2, PTL DEF Spec

\* Every value has its type; a register of one byte never holds more
\* (thread_ejecucion.c:175-279).
THEOREM TipoCorrecto == Spec => []TypeOK
<1>1. InvCpu => TypeOK
  BY DEF InvCpu, InvTipos
<1> QED BY <1>1, InvarianteCpu, PTL

\* No request goes out of its stick or of the register
\* (thread_ejecucion.c:64-170).
THEOREM PedidoDentroSiempre == Spec => []PedidoDentro
<1>1. InvCpu => PedidoDentro
  BY DEF InvCpu
<1> QED BY <1>1, InvarianteCpu, PTL

\* What the check of the segment leaves, in whole numbers.
LEMMA SegmentoUnico ==
    ASSUME NEW d \in Nat, NEW n \in {1, 4}, Entero(d) = d, ~SegFault(d, n)
    PROVE  Segmento(d) = Segmento(d + n - 1)
<1> DEFINE M == TAM_MAX_SEGMENTO
           q == d \div M
           r == d % M
           e == r + n - 1
<1>1. M \in Nat /\ M > 0
  BY SupuestosInstrucciones
<1>2. q \in Int /\ r \in 0..(M - 1) /\ d = q * M + r
  BY <1>1, Dividir
<1>3. ~(d - M * q + n > M)
  BY DEF SegFault, Sobrante, Cociente
<1> HIDE DEF M, q, r
<1>4. d - M * q = r
  <2>1. M * q = q * M /\ q * M \in Int
    BY <1>1, <1>2, Producto
  <2> QED BY <1>2, <2>1
<1>5. e \in 0..(M - 1)
  BY <1>1, <1>2, <1>3, <1>4
<1>6. d + n - 1 = q * M + e
  <2>1. q * M \in Int
    BY <1>1, <1>2, Producto
  <2> QED BY <1>2, <2>1
<1> HIDE DEF e
<1>7. (q * M + e) \div M = q
  BY <1>1, <1>2, <1>5, CocienteEs
<1> QED BY <1>6, <1>7 DEF Segmento, q, M

\* The address of an access whose sign as an int is not negative is the logical
\* one.
LEMMA DireccionPositiva ==
    ASSUME NEW v \in 0..(MOD32 - 1), Entero(DireccionFisica(v)) >= 0
    PROVE  Entero(v) = v /\ DireccionFisica(v) = v
<1> DEFINE M == TAM_MAX_SEGMENTO
           a == Entero(v)
           c == Cociente(a, M)
           p == DireccionFisica(v)
<1>1. M \in Nat /\ M > 0 /\ MOD32 \in Nat /\ MOD32 > 0
  BY Pesos, SupuestosInstrucciones
<1>2. a = v \/ a = v - MOD32
  BY DEF Entero
<1>3. a \in Int /\ c \in Int
  <2>1. a \in Int
    BY <1>1, <1>2
  <2> HIDE DEF a
  <2>2. a \div M \in Int /\ (-a) \div M \in Int
    BY <1>1, <2>1, Dividir
  <2> QED BY <2>1, <2>2 DEF Cociente
<1>4. p = (c * M + (a - M * c)) % MOD32
  BY DEF DireccionFisica, Sobrante
<1> HIDE DEF a, c, p, M
<1>5. p = a % MOD32
  <2>1. c * M = M * c /\ c * M \in Int
    BY <1>1, <1>3, Producto
  <2>2. c * M + (a - M * c) = a
    BY <1>3, <2>1
  <2> QED BY <1>4, <2>2
<1>6. p = v
  <2>1. CASE a = v
    BY <1>1, <1>5, <2>1, RestoDeMenor
  <2>2. CASE a = v - MOD32
    <3>1. a = (-1) * MOD32 + v
      BY <1>1, <2>2
    <3>2. ((-1) * MOD32 + v) % MOD32 = v
      BY <1>1, CocienteEs
    <3> QED BY <1>5, <3>1, <3>2
  <2> QED BY <1>2, <2>1, <2>2
<1>7. Entero(v) >= 0
  BY <1>6 DEF p
<1>8. ~(v - MOD32 >= 0)
  BY <1>1
<1> QED BY <1>2, <1>6, <1>7, <1>8 DEF p, a

\* An access that does not start at a negative int stays in one segment: for
\* every size of a segment, every register and every program
\* (thread_ejecucion.c:195-216, 226-247).
THEOREM EnSuSegmentoSiempre == Spec => []EnSuSegmento
<1>1. Init => EnSuSegmento
  BY DEF Init, EnSuSegmento, EnAcceso
<1>2. InvCpu /\ EnSuSegmento /\ [Next]_vars => EnSuSegmento'
  <2> SUFFICES ASSUME InvCpu, EnSuSegmento, [Next]_vars PROVE EnSuSegmento'
    OBVIOUS
  <2>1. CASE Mov
    <3> DEFINE d == DirLogica
               n == Tamano(instruccion.reg)
    <3>1. d \in 0..(MOD32 - 1) /\ n \in {1, 4} /\ ~SegFault(d, n)
      <4>1. instruccion.reg \in Registros /\ ~SegFault(d, n)
        BY <2>1 DEF Mov
      <4>2. d \in 0..(MOD32 - 1)
        BY DEF DirLogica, InvCpu, InvTipos, TypeOK, Pcbs, Registros, Registros32
      <4> QED BY <4>1, <4>2, TamanoEs
    <3>2. acceso'.dir = DireccionFisica(d) /\ acceso'.tam = n
      BY <2>1 DEF Mov, SinAcceso
    <3> HIDE DEF d, n
    <3> SUFFICES ASSUME Entero(DireccionFisica(d)) >= 0
                 PROVE  Segmento(DireccionFisica(d)) = Segmento(DireccionFisica(d) + n - 1)
      BY <3>2 DEF EnSuSegmento
    <3>3. Entero(d) = d /\ DireccionFisica(d) = d /\ d \in Nat
      BY <3>1, DireccionPositiva, Pesos
    <3> QED BY <3>1, <3>3, SegmentoUnico
  <2>2. CASE ~EnAcceso'
    BY <2>2 DEF EnSuSegmento
  <2>3. CASE EnAcceso /\ acceso'.dir = acceso.dir /\ acceso'.tam = acceso.tam
    BY <2>3 DEF EnSuSegmento
  <2>4. CASE Recibir \/ Fetch \/ FetchFalla \/ Calcular \/ MovSinRegistro \/ MovSegFault
             \/ Exit \/ Invalida \/ FinAcceso \/ Interrumpir \/ Continuar
             \/ LlegaInstruccion
    BY <2>2, <2>4 DEF Recibir, Fetch, FetchFalla, Calcular, MovSinRegistro, MovSegFault,
       Exit, Invalida, FinAcceso, Interrumpir, Continuar, LlegaInstruccion, Ir, EnAcceso
  <2>5. CASE Pedir \/ LlegaLectura \/ LlegaEscritura \/ AccesoFalla
    <3>1. EnAcceso /\ acceso \in Locales
      BY <2>5, LecturaEs, EscrituraEs DEF Pedir, AccesoFalla, EnAcceso, InvCpu, InvTipos
    <3>2. acceso'.dir = acceso.dir /\ acceso'.tam = acceso.tam
      BY <2>5, <3>1, LecturaEs, EscrituraEs DEF Pedir, AccesoFalla, Avanzar, Locales
    <3> QED BY <2>3, <3>1, <3>2
  <2>6. CASE Enviar \/ Caer \/ UNCHANGED vars
    BY <2>2, <2>3, <2>6 DEF Enviar, Caer, vars, EnAcceso
  <2> QED BY <2>1, <2>4, <2>5, <2>6 DEF Next, Hilo, Interno, DeKm, LlegaLectura,
             LlegaEscritura
<1> QED BY <1>1, <1>2, InvarianteCpu, PTL DEF Spec

-----------------------------------------------------------------------------
(* The CPU implements Maquina *)

\* Maquina has the same instructions.
LEMMA MismoJuego ==
    /\ Abstracta!MOD32 = MOD32 /\ Abstracta!Registros = Registros
    /\ Abstracta!PcbInicial = PcbInicial
    /\ \A p : Abstracta!Siguiente(p) = Siguiente(p)
    /\ \A p : Abstracta!sumar(p) = sumar(p) /\ Abstracta!restar(p) = restar(p)
    /\ \A p, r, v : Abstracta!ejecutar_set(p, r, v) = ejecutar_set(p, r, v)
    /\ \A p, r, v : Abstracta!ejecutar_jnz(p, r, v) = ejecutar_jnz(p, r, v)
    /\ \A p, n : Abstracta!EnPrograma(p, n) <=> EnPrograma(p, n)
    /\ \A r : Abstracta!Tamano(r) = Tamano(r)
    /\ \A d, n : Abstracta!SegFault(d, n) <=> SegFault(d, n)
    /\ \A d : Abstracta!DireccionFisica(d) = DireccionFisica(d)
<1>1. /\ Abstracta!MOD32 = MOD32
      /\ Abstracta!Registros8 = Registros8 /\ Abstracta!Registros32 = Registros32
  BY DEF Abstracta!MOD32, MOD32, Abstracta!Registros8, Registros8, Abstracta!Registros32,
         Registros32
<1>2. Abstracta!Registros = Registros
  BY <1>1 DEF Abstracta!Registros, Registros
<1>3. Abstracta!PcbInicial = PcbInicial
  BY <1>2 DEF Abstracta!PcbInicial, PcbInicial
<1>4. \A p : Abstracta!Siguiente(p) = Siguiente(p)
  BY <1>1 DEF Abstracta!Siguiente, Siguiente
<1>5. \A p : Abstracta!sumar(p) = sumar(p) /\ Abstracta!restar(p) = restar(p)
  BY <1>4 DEF Abstracta!sumar, sumar, Abstracta!restar, restar
<1>6. \A r : Abstracta!Modulo(r) = Modulo(r) /\ Abstracta!Tamano(r) = Tamano(r)
  BY <1>1 DEF Abstracta!Modulo, Modulo, Abstracta!Tamano, Tamano
<1>7. \A p, r, v : /\ Abstracta!ejecutar_set(p, r, v) = ejecutar_set(p, r, v)
                   /\ Abstracta!ejecutar_jnz(p, r, v) = ejecutar_jnz(p, r, v)
  BY <1>1, <1>2, <1>4, <1>6 DEF Abstracta!ejecutar_set, ejecutar_set,
     Abstracta!ejecutar_jnz, ejecutar_jnz
<1>8. \A d : Abstracta!Entero(d) = Entero(d)
  BY <1>1 DEF Abstracta!Entero, Entero
<1>9. \A p, n : Abstracta!EnPrograma(p, n) <=> EnPrograma(p, n)
  BY <1>8 DEF Abstracta!EnPrograma, EnPrograma
<1>10. \A a, b : /\ Abstracta!Cociente(a, b) = Cociente(a, b)
                 /\ Abstracta!Sobrante(a, b) = Sobrante(a, b)
  BY DEF Abstracta!Cociente, Cociente, Abstracta!Sobrante, Sobrante
<1>11. /\ \A d, n : Abstracta!SegFault(d, n) <=> SegFault(d, n)
       /\ \A d : Abstracta!DireccionFisica(d) = DireccionFisica(d)
  BY <1>1, <1>8, <1>10 DEF Abstracta!SegFault, SegFault, Abstracta!DireccionFisica,
     DireccionFisica
<1> QED BY <1>1, <1>2, <1>3, <1>4, <1>5, <1>6, <1>7, <1>9, <1>11

LEMMA MismosBytes ==
    /\ \A v : \A k \in 0..3 : Abstracta!Byte(v, k) = Byte(v, k)
    /\ \A f, n : Abstracta!Valor(f, n) = Valor(f, n)
<1>1. /\ Abstracta!Peso(0) = Peso(0) /\ Abstracta!Peso(1) = Peso(1)
      /\ Abstracta!Peso(2) = Peso(2) /\ Abstracta!Peso(3) = Peso(3)
  BY DEF Abstracta!Peso, Peso
<1>2. \A k \in 0..3 : k = 0 \/ k = 1 \/ k = 2 \/ k = 3
  OBVIOUS
<1>3. \A k \in 0..3 : Abstracta!Peso(k) = Peso(k)
  BY <1>1, <1>2
<1>4. \A v : \A k \in 0..3 : Abstracta!Byte(v, k) = Byte(v, k)
  BY <1>3 DEF Abstracta!Byte, Byte
<1>5. \A f, n : Abstracta!Valor(f, n) = Valor(f, n)
  BY <1>1 DEF Abstracta!Valor, Valor
<1> QED BY <1>4, <1>5

\* Outside an access the abstract state is the concrete one.
LEMMA FueraEs ==
    /\ ~EnAcceso => PcbFinal = pcb /\ MemoriaFinal = MemoriaFisica
    /\ ~EnAcceso' => PcbFinal' = pcb' /\ MemoriaFinal' = MemoriaFisica'
BY DEF PcbFinal, MemoriaFinal

LEMMA FisicaIgual ==
    ASSUME memoria' = memoria
    PROVE  MemoriaFisica' = MemoriaFisica
BY DEF MemoriaFisica, Celda

Fase == IF punto \in {"recibe", "fin"} THEN "libre" ELSE "corre"

LEMMA Quieto ==
    ASSUME PcbFinal' = PcbFinal, MemoriaFinal' = MemoriaFinal, devuelto' = devuelto,
           programa' = programa, Fase' = Fase
    PROVE  UNCHANGED Abstracta!vars
BY DEF Abstracta!vars, Fase

\* The steps that touch no memory.
LEMMA PasoFuera ==
    ASSUME InvCpu,
           Recibir \/ Fetch \/ LlegaInstruccion \/ Calcular \/ MovSinRegistro
           \/ MovSegFault \/ Exit \/ Invalida \/ Interrumpir \/ Continuar
    PROVE  UNCHANGED Abstracta!vars \/ Abstracta!Next
<1>1. ~EnAcceso /\ ~EnAcceso' /\ UNCHANGED <<programa, memoria>>
  BY DEF Recibir, Fetch, LlegaInstruccion, Calcular, MovSinRegistro, MovSegFault,
         Exit, Invalida, Interrumpir, Continuar, Decodifica, Ir, EnAcceso
<1>2. /\ PcbFinal = pcb /\ PcbFinal' = pcb' /\ MemoriaFinal' = MemoriaFinal
  BY <1>1, FueraEs, FisicaIgual
<1>3. CASE Fetch \/ LlegaInstruccion \/ Continuar
  BY <1>1, <1>2, <1>3, Quieto DEF Fetch, LlegaInstruccion, Continuar, Ir, Fase
<1>4. CASE Recibir
  <2>1. CASE Head(al_cpu) = EXECUTE_PROCESS
    <3>1. Abstracta!Recibe
      BY <1>1, <1>2, <1>4, <2>1, MismoJuego DEF Recibir, Ir, Abstracta!Recibe
    <3> QED BY <3>1 DEF Abstracta!Next
  <2>2. CASE Head(al_cpu) # EXECUTE_PROCESS
    BY <1>1, <1>2, <1>4, <2>2, Quieto DEF Recibir, Ir, Fase
  <2> QED BY <2>1, <2>2
<1>5. CASE Exit \/ Interrumpir
  <2>1. Abstracta!Devuelve
    BY <1>1, <1>2, <1>5 DEF Exit, Interrumpir, Decodifica, ParaKernel, Ir, Abstracta!Devuelve
  <2> QED BY <2>1 DEF Abstracta!Next
<1>6. ASSUME punto = "ejecuta", instruccion.cmd # "OTRA"
      PROVE  /\ Abstracta!Es(instruccion.cmd) /\ Abstracta!Actual = instruccion
  <2>1. EnPrograma(pcb, Len(programa)) /\ instruccion = programa[pcb.pc + 1]
    BY <1>6 DEF InvCpu, InvInstruccion, EMPTY
  <2> QED BY <1>2, <1>6, <2>1, MismoJuego DEF Abstracta!Es, Abstracta!Actual
<1>7. CASE Calcular
  <2>1. punto = "ejecuta" /\ instruccion.cmd \in {"SET", "SUM", "SUB", "JNZ"}
    BY <1>7 DEF Calcular, Decodifica
  <2>2. Abstracta!Es(instruccion.cmd) /\ Abstracta!Actual = instruccion
    BY <1>6, <2>1
  <2>3. /\ punto' = "chequea" /\ devuelto' = devuelto
        /\ instruccion.cmd = "SET"
              => pcb' = ejecutar_set(pcb, instruccion.reg, instruccion.valor)
        /\ instruccion.cmd = "SUM" => pcb' = sumar(pcb)
        /\ instruccion.cmd = "SUB" => pcb' = restar(pcb)
        /\ instruccion.cmd = "JNZ"
              => pcb' = ejecutar_jnz(pcb, instruccion.reg, instruccion.valor)
    BY <1>7 DEF Calcular, Ir
  <2>4. Abstracta!Calcula
    BY <1>1, <1>2, <2>1, <2>2, <2>3, MismoJuego DEF Abstracta!Calcula
  <2> QED BY <2>4 DEF Abstracta!Next
<1>8. CASE MovSinRegistro
  <2>1. punto = "ejecuta" /\ instruccion.cmd \in {"MOV_IN", "MOV_OUT"}
    BY <1>8 DEF MovSinRegistro, Decodifica
  <2>2. Abstracta!Es(instruccion.cmd) /\ Abstracta!Actual = instruccion
    BY <1>6, <2>1
  <2>3. Abstracta!MovNada
    BY <1>1, <1>2, <1>8, <2>1, <2>2, MismoJuego
       DEF MovSinRegistro, Ir, Abstracta!MovNada, Abstracta!Mov
  <2> QED BY <2>3 DEF Abstracta!Next
<1>9. CASE MovSegFault
  <2>1. punto = "ejecuta" /\ instruccion.cmd \in {"MOV_IN", "MOV_OUT"}
    BY <1>9 DEF MovSegFault, Decodifica
  <2>2. Abstracta!Es(instruccion.cmd) /\ Abstracta!Actual = instruccion
    BY <1>6, <2>1
  <2>3. Abstracta!Es("MOV_IN") <=> instruccion.cmd = "MOV_IN"
    BY <2>2 DEF Abstracta!Es
  <2>4. Abstracta!Falla
    BY <1>1, <1>2, <1>9, <2>1, <2>2, <2>3, MismoJuego
       DEF MovSegFault, ParaKernel, DirLogica, Ir, Abstracta!Falla, Abstracta!Mov
  <2> QED BY <2>4 DEF Abstracta!Next
<1>10. CASE Invalida
  <2>1. punto = "ejecuta" /\ instruccion.cmd = "OTRA" /\ punto' = "recibe"
        /\ UNCHANGED <<pcb, devuelto>>
    BY <1>10 DEF Invalida, Decodifica, Ir
  <2>2. Abstracta!EnPrograma(pcb, Len(programa)) => Abstracta!Actual.cmd = "OTRA"
    BY <1>2, <2>1, MismoJuego DEF InvCpu, InvInstruccion, Abstracta!Actual
  <2>3. Abstracta!Descarta
    BY <1>1, <1>2, <2>1, <2>2 DEF Abstracta!Descarta
  <2> QED BY <2>3 DEF Abstracta!Next
<1> QED BY <1>3, <1>4, <1>5, <1>7, <1>8, <1>9, <1>10

\* What is still to come of an access, at an address dir.
Perdidos(dir, k) == {j \in 0..k : StickDe((dir + j) % MOD32) = KM}
Llegara(dir, k) ==
    IF Perdidos(dir, k) = {} THEN memoria[Celda((dir + k) % MOD32)]
    ELSE Texto[k - (CHOOSE j \in Perdidos(dir, k) :
                        \A i \in Perdidos(dir, k) : j <= i)]

LEMMA DireccionesEs ==
    ASSUME NEW dir \in Nat, NEW k \in Nat
    PROVE  /\ (dir + k) % MOD32 \in 0..(MOD32 - 1)
           /\ (dir + k) % MOD32 \in Direcciones <=> StickDe((dir + k) % MOD32) # KM
<1> DEFINE d == (dir + k) % MOD32
<1>1. d \in 0..(MOD32 - 1)
  <2>1. dir + k \in Int
    OBVIOUS
  <2> QED BY <2>1, Pesos, Dividir
<1> HIDE DEF d
<1>2. d \in Direcciones <=> StickDe(d) # KM
  BY <1>1 DEF Direcciones
<1> QED BY <1>1, <1>2 DEF d

LEMMA FaltanEs ==
    ASSUME NEW dir \in Nat, NEW k \in Nat
    PROVE  Abstracta!Faltan(dir, k) = Perdidos(dir, k)
<1>1. \A j \in 0..k : (dir + j) % MOD32 \notin Direcciones <=> StickDe((dir + j) % MOD32) = KM
  BY DireccionesEs
<1>2. Abstracta!MOD32 = MOD32
  BY MismoJuego
<1> QED BY <1>1, <1>2 DEF Abstracta!Faltan, Perdidos

\* An access never comes back to an address.
LEMMA DireccionUnica ==
    ASSUME NEW dir \in Nat, NEW k \in 0..3, NEW l \in 0..3,
           (dir + k) % MOD32 = (dir + l) % MOD32
    PROVE  k = l
<1>1. MOD32 \in Nat /\ MOD32 > 3
  <2>1. Peso(3) \in Nat /\ MOD32 = Peso(3) * MOD8 /\ MOD8 \in Nat /\ MOD8 >= 2
        /\ Peso(2) \in Nat /\ Peso(3) = Peso(2) * MOD8 /\ Peso(2) = MOD8 * MOD8
    BY Pesos
  <2>2. ASSUME NEW x \in Nat, NEW y \in Nat, y > 0 PROVE y * x >= x
    <3>1. (y - 1) * x >= 0
      BY <2>2, Producto
    <3>2. (y - 1) * x = y * x - x
      OBVIOUS
    <3>3. y * x \in Int
      BY Producto
    <3> QED BY <3>1, <3>2, <3>3
  <2>3. MOD8 * MOD8 >= 4
    <3>1. (MOD8 - 2) * (MOD8 - 2) >= 0
      BY <2>1, Producto
    <3>2. (MOD8 - 2) * (MOD8 - 2) = MOD8 * MOD8 - 4 * MOD8 + 4
      BY <2>1
    <3>3. MOD8 * MOD8 \in Int
      BY <2>1, Producto
    <3> QED BY <2>1, <3>1, <3>2, <3>3
  <2>4. Peso(2) * MOD8 >= Peso(2)
    <3>1. MOD8 * Peso(2) >= Peso(2) /\ MOD8 * Peso(2) = Peso(2) * MOD8
      BY <2>1, <2>2
    <3> QED BY <3>1
  <2>5. Peso(3) * MOD8 >= Peso(3)
    <3>1. MOD8 * Peso(3) >= Peso(3) /\ MOD8 * Peso(3) = Peso(3) * MOD8
      BY <2>1, <2>2
    <3> QED BY <3>1
  <2>6. Peso(3) >= 4
    BY <2>1, <2>3, <2>4
  <2>7. MOD32 >= 4
    BY <2>1, <2>5, <2>6
  <2> QED BY <2>7, Pesos
<1> DEFINE x == (dir + k) \div MOD32
           y == (dir + l) \div MOD32
           r == (dir + k) % MOD32
<1>2. x \in Int /\ r \in 0..(MOD32 - 1) /\ dir + k = x * MOD32 + r
  BY <1>1, Dividir
<1>3. y \in Int /\ dir + l = y * MOD32 + r
  BY <1>1, Dividir
<1> HIDE DEF x, y, r
<1>4. ASSUME NEW z \in Int, z >= 1 PROVE z * MOD32 > 3
  <2>1. (z - 1) * MOD32 >= 0
    BY <1>1, <1>4, Producto
  <2>2. (z - 1) * MOD32 = z * MOD32 - MOD32
    BY <1>1
  <2>3. z * MOD32 \in Int
    BY <1>1, Producto
  <2> QED BY <1>1, <2>1, <2>2, <2>3
<1>5. (x - y) * MOD32 = k - l /\ (y - x) * MOD32 = l - k
  <2>1. (x - y) * MOD32 = x * MOD32 - y * MOD32 /\ (y - x) * MOD32 = y * MOD32 - x * MOD32
    BY <1>1, <1>2, <1>3
  <2>2. x * MOD32 \in Int /\ y * MOD32 \in Int
    BY <1>1, <1>2, <1>3, Producto
  <2> QED BY <1>2, <1>3, <2>1, <2>2
<1>6. ~(x - y >= 1)
  <2> SUFFICES ASSUME x - y >= 1 PROVE FALSE
    OBVIOUS
  <2>1. (x - y) * MOD32 > 3
    BY <1>2, <1>3, <1>4
  <2> QED BY <1>5, <2>1
<1>7. ~(y - x >= 1)
  <2> SUFFICES ASSUME y - x >= 1 PROVE FALSE
    OBVIOUS
  <2>1. (y - x) * MOD32 > 3
    BY <1>2, <1>3, <1>4
  <2> QED BY <1>5, <2>1
<1>8. x = y
  BY <1>2, <1>3, <1>6, <1>7
<1> QED BY <1>2, <1>3, <1>8

LEMMA FinalEs ==
    /\ \A k : ByteFinal(k) = IF k < acceso.hecho THEN Byte(pcb.reg[instruccion.reg], k)
                             ELSE Llegara(acceso.dir, k)
    /\ PorEscribir = {k \in acceso.hecho..(acceso.tam - 1) : Perdidos(acceso.dir, k) = {}}
BY DEF ByteFinal, Llegara, PorEscribir, Antes, Perdidos

\* What Maquina reads at once is what is still to come when an access starts.
LEMMA LeidoEs ==
    ASSUME ~EnAcceso, NEW dir \in Nat, NEW k \in 0..3
    PROVE  Abstracta!Leido(dir, k) = Llegara(dir, k)
<1>1. Abstracta!Faltan(dir, k) = Perdidos(dir, k)
  BY FaltanEs
<1>2. MemoriaFinal = MemoriaFisica
  BY FueraEs
<1>3. CASE Perdidos(dir, k) = {}
  <2>1. StickDe((dir + k) % MOD32) # KM
    BY <1>3 DEF Perdidos
  <2>2. (dir + k) % MOD32 \in Direcciones
    BY <2>1, DireccionesEs
  <2>3. MemoriaFisica[(dir + k) % MOD32] = memoria[Celda((dir + k) % MOD32)]
    BY <2>2 DEF MemoriaFisica
  <2>4. Abstracta!Leido(dir, k) = MemoriaFisica[(dir + k) % MOD32]
    BY <1>1, <1>2, <1>3, MismoJuego DEF Abstracta!Leido
  <2> QED BY <1>3, <2>3, <2>4 DEF Llegara
<1>4. CASE Perdidos(dir, k) # {}
  BY <1>1, <1>4 DEF Abstracta!Leido, Llegara
<1> QED BY <1>3, <1>4

LEMMA MovImplementa ==
    ASSUME InvCpu, Mov
    PROVE  Abstracta!MovIn \/ Abstracta!MovOut
<1>0. DireccionFisica(DirLogica) \in Nat /\ Tamano(instruccion.reg) \in {1, 4}
  <2>1. DirLogica \in Int
    BY DEF DirLogica, InvCpu, InvTipos, TypeOK, Pcbs, Registros, Registros32
  <2>2. DireccionFisica(DirLogica) \in 0..(MOD32 - 1)
    BY <2>1, DireccionTipo
  <2> QED BY <2>2, Pesos, TamanoEs DEF Mov
<1>2. PICK D \in Nat, T \in {1, 4} :
         D = DireccionFisica(DirLogica) /\ T = Tamano(instruccion.reg)
  BY <1>0
<1>1. /\ punto = "ejecuta" /\ punto' = "acceso" /\ ~EnAcceso /\ EnAcceso'
      /\ UNCHANGED <<programa, memoria, pcb, instruccion, devuelto>>
      /\ instruccion.cmd \in {"MOV_IN", "MOV_OUT"} /\ instruccion.reg \in Registros
      /\ ~SegFault(DirLogica, T)
      /\ acceso' = [SinAcceso EXCEPT !.dir = D, !.tam = T]
  BY <1>2 DEF Mov, Decodifica, Ir, EnAcceso
<1>3. acceso'.dir = D /\ acceso'.tam = T /\ acceso'.hecho = 0
  BY <1>1 DEF SinAcceso
<1>4. PcbFinal = pcb /\ MemoriaFinal = MemoriaFisica /\ MemoriaFisica' = MemoriaFisica
  BY <1>1, FueraEs, FisicaIgual
<1>5. EnPrograma(pcb, Len(programa)) /\ instruccion = programa[pcb.pc + 1]
  BY <1>1 DEF InvCpu, InvInstruccion, EMPTY
<1>6. /\ Abstracta!Es(instruccion.cmd) /\ Abstracta!Actual = instruccion
  BY <1>1, <1>4, <1>5, MismoJuego DEF Abstracta!Es, Abstracta!Actual
<1>7. DirLogica = pcb.reg[IF instruccion.cmd = "MOV_IN" THEN "SI" ELSE "DI"]
  BY DEF DirLogica
<1>8. Abstracta!Accede(DirLogica)
  BY <1>1, <1>2, <1>6, MismoJuego DEF Abstracta!Accede
<1>9. CASE instruccion.cmd = "MOV_IN"
  <2> DEFINE V == Valor([k \in 0..(T - 1) |-> Llegara(D, k)], T)
  <2>1. PcbFinal' = Siguiente([pcb EXCEPT !.reg[instruccion.reg] = V])
    <3>1. ASSUME NEW k \in 0..(T - 1) PROVE ByteFinal(k)' = Llegara(D, k)
      <4>1. ~(k < acceso'.hecho)
        BY <1>3
      <4> QED BY <1>1, <1>3, <4>1 DEF ByteFinal, Llegara, Celda, Antes, Perdidos
    <3> QED BY <1>1, <1>3, <1>9, <3>1 DEF PcbFinal
  <2>2. Abstracta!Cargado(D, T) = V
    <3>1. \A k \in 0..(T - 1) : Abstracta!Leido(D, k) = Llegara(D, k)
      <4>1. \A k \in 0..(T - 1) : k \in 0..3
        BY <1>2
      <4> QED BY <1>1, <1>2, <4>1, LeidoEs
    <3> QED BY <3>1, MismosBytes DEF Abstracta!Cargado
  <2> HIDE DEF V
  <2>3. MemoriaFinal' = MemoriaFinal
    BY <1>1, <1>4, <1>9 DEF MemoriaFinal
  <2>4. Abstracta!MovIn
    BY <1>1, <1>2, <1>4, <1>6, <1>7, <1>8, <1>9, <2>1, <2>2, <2>3, MismoJuego
       DEF Abstracta!MovIn
  <2> QED BY <2>4
<1>10. CASE instruccion.cmd = "MOV_OUT"
  <2> DEFINE v == pcb.reg[instruccion.reg]
             PE == {k \in 0..(T - 1) : Perdidos(D, k) = {}}
  <2>1. PcbFinal' = Siguiente(pcb)
    BY <1>1, <1>10 DEF PcbFinal
  <2>2. PorEscribir' = PE
    BY <1>3 DEF PorEscribir, Antes, Perdidos
  <2>3. MemoriaFinal' = [d \in Direcciones |->
           IF \E k \in PE : (D + k) % MOD32 = d
           THEN Byte(v, CHOOSE k \in PE : (D + k) % MOD32 = d)
           ELSE MemoriaFisica[d]]
    BY <1>1, <1>3, <1>4, <1>10, <2>2 DEF MemoriaFinal
  <2>4. ASSUME NEW d \in Direcciones
        PROVE  (IF \E k \in PE : (D + k) % MOD32 = d
                THEN Byte(v, CHOOSE k \in PE : (D + k) % MOD32 = d)
                ELSE MemoriaFisica[d])
                = (IF \E k \in 0..(T - 1) : (D + k) % MOD32 = d /\ Abstracta!Faltan(D, k) = {}
                   THEN Abstracta!Byte(v, CHOOSE k \in 0..(T - 1) : (D + k) % MOD32 = d)
                   ELSE MemoriaFinal[d])
    <3>1. \A k \in 0..(T - 1) : Abstracta!Faltan(D, k) = Perdidos(D, k) /\ k \in 0..3
      BY <1>2, FaltanEs
    <3>2. (\E k \in PE : (D + k) % MOD32 = d)
             <=> \E k \in 0..(T - 1) : (D + k) % MOD32 = d /\ Abstracta!Faltan(D, k) = {}
      BY <3>1
    <3>3. ASSUME NEW k \in PE, (D + k) % MOD32 = d
          PROVE  /\ (CHOOSE l \in PE : (D + l) % MOD32 = d) = k
                 /\ (CHOOSE l \in 0..(T - 1) : (D + l) % MOD32 = d) = k
      <4>1. \A l \in 0..(T - 1) : (D + l) % MOD32 = d => l = k
        BY <1>2, <3>1, <3>3, DireccionUnica
      <4> QED BY <3>3, <4>1
    <3>4. ASSUME NEW k \in PE PROVE Abstracta!Byte(v, k) = Byte(v, k)
      BY <3>1, MismosBytes
    <3>5. CASE \E k \in PE : (D + k) % MOD32 = d
      <4> HIDE DEF v
      <4>1. PICK k \in PE : (D + k) % MOD32 = d
        BY <3>5
      <4> HIDE DEF PE
      <4> QED BY <3>2, <3>3, <3>4, <4>1
    <3>6. CASE ~\E k \in PE : (D + k) % MOD32 = d
      <4> HIDE DEF PE, v
      <4> QED BY <1>4, <3>2, <3>6
    <3> QED BY <3>5, <3>6
  <2>5. MemoriaFinal' = Abstracta!Guardado(D, T, v)
    <3>1. Abstracta!Guardado(D, T, v) = [d \in Direcciones |->
             IF \E k \in 0..(T - 1) : (D + k) % MOD32 = d /\ Abstracta!Faltan(D, k) = {}
             THEN Abstracta!Byte(v, CHOOSE k \in 0..(T - 1) : (D + k) % MOD32 = d)
             ELSE MemoriaFinal[d]]
      BY MismoJuego DEF Abstracta!Guardado
    <3> HIDE DEF PE, v
    <3> QED BY <2>3, <2>4, <3>1
  <2>6. Abstracta!MovOut
    BY <1>1, <1>2, <1>4, <1>6, <1>7, <1>8, <1>10, <2>1, <2>5, MismoJuego
       DEF Abstracta!MovOut
  <2> QED BY <2>6
<1> QED BY <1>1, <1>9, <1>10

\* A request, and what the scheduler sends, leave what is to come as it is.
LEMMA MismoFinal ==
    ASSUME UNCHANGED <<memoria, pcb, instruccion>>, EnAcceso' = EnAcceso,
           EnAcceso => /\ acceso'.dir = acceso.dir /\ acceso'.hecho = acceso.hecho
                       /\ acceso'.tam = acceso.tam
    PROVE  PcbFinal' = PcbFinal /\ MemoriaFinal' = MemoriaFinal
<1>1. CASE ~EnAcceso
  BY <1>1, FueraEs, FisicaIgual
<1>2. CASE EnAcceso
  <2>1. ASSUME NEW k PROVE ByteFinal(k)' = ByteFinal(k)
    <3>1. Antes(k)' = Antes(k)
      BY <1>2 DEF Antes
    <3> QED BY <1>2, <3>1 DEF ByteFinal, Celda
  <2>2. PcbFinal' = PcbFinal
    BY <1>2, <2>1 DEF PcbFinal
  <2>3. PorEscribir' = PorEscribir
    BY <1>2 DEF PorEscribir, Antes
  <2>4. MemoriaFinal' = MemoriaFinal
    BY <1>2, <2>3, FisicaIgual DEF MemoriaFinal
  <2> QED BY <2>2, <2>4
<1> QED BY <1>1, <1>2

\* A fragment is where the bytes of the access are; from Kernel Memory come all
\* that are left.
LEMMA Fragmento ==
    ASSUME InvCpu, TramosEnteros, punto = "espera_stick",
           NEW k \in acceso.hecho..(acceso.hecho + acceso.cuantos - 1)
    PROVE  /\ acceso.a # KM =>
                 /\ Perdidos(acceso.dir, k) = {}
                 /\ Celda((acceso.dir + k) % MOD32)
                       = <<acceso.a, acceso.desde + (k - acceso.hecho)>>
           /\ acceso.a = KM =>
                 /\ Perdidos(acceso.dir, k) # {}
                 /\ (CHOOSE j \in Perdidos(acceso.dir, k) :
                        \A i \in Perdidos(acceso.dir, k) : j <= i) = acceso.hecho
<1> DEFINE H == acceso.hecho
           C == acceso.cuantos
           P == Perdidos(acceso.dir, k)
<1>1. /\ acceso.dir \in Nat /\ H \in Nat /\ C \in Nat /\ H < acceso.tam
      /\ dir_actual \in 0..(MOD32 - 1) /\ acceso.a = StickDe(dir_actual)
      /\ dir_actual = (acceso.dir + H) % MOD32
  BY DirActualTipo DEF InvCpu, InvTipos, Locales, InvPedido, dir_actual
<1>2. \A j \in 0..(H - 1) : StickDe((acceso.dir + j) % MOD32) # KM
  BY <1>1 DEF InvCpu, InvAcceso, EnAcceso
<1>3. CASE acceso.a # KM
  <2>1. ASSUME NEW j \in H..k
        PROVE  /\ StickDe((acceso.dir + j) % MOD32) = acceso.a
               /\ ((acceso.dir + j) % MOD32) - Sticks[acceso.a].base = acceso.desde + (j - H)
    <3> DEFINE x == j - H
    <3>1. x \in 0..(C - 1) /\ H + x = j
      BY <1>1
    <3> HIDE DEF x
    <3>2. /\ acceso.a \in DOMAIN Sticks
          /\ dir_actual + x \in 0..(MOD32 - 1)
          /\ (acceso.dir + j) % MOD32 = dir_actual + x
          /\ acceso.desde + x \in 0..(Sticks[acceso.a].tamano - 1)
          /\ dir_actual + x - Sticks[acceso.a].base = acceso.desde + x
      BY <1>3, <3>1, Tramo
    <3>3. dir_actual \in Direcciones
      BY <1>1, <1>3 DEF Direcciones
    <3>4. LoTiene(acceso.a, dir_actual)
      BY <1>1, <1>3, StickDeEs
    <3>5. Sticks[acceso.a].base \in Nat /\ Sticks[acceso.a].tamano \in Nat
      BY <1>1, <3>2, <3>4, LoTieneEs
    <3>6. dir_actual + x
             \in dir_actual..(Sticks[acceso.a].base + Sticks[acceso.a].tamano - 1)
      <4>1. acceso.desde \in Nat
        BY DEF InvCpu, InvTipos, Locales
      <4> HIDE DEF C, H
      <4> QED BY <1>1, <3>1, <3>2, <3>5, <4>1
    <3>7. StickDe(dir_actual + x) = acceso.a
      BY <1>1, <3>3, <3>6 DEF TramosEnteros
    <3>8. ((acceso.dir + j) % MOD32) - Sticks[acceso.a].base = acceso.desde + x
      <4> DEFINE e == (acceso.dir + j) % MOD32
                 d == dir_actual
      <4>1. /\ e = d + x /\ d + x - Sticks[acceso.a].base = acceso.desde + x
            /\ d \in Int /\ x \in Int
        BY <1>1, <3>1, <3>2
      <4> HIDE DEF e, d
      <4>2. e - Sticks[acceso.a].base = acceso.desde + x
        BY <3>5, <4>1
      <4> QED BY <4>2 DEF e
    <3>9. StickDe((acceso.dir + j) % MOD32) = acceso.a
      BY <3>2, <3>7
    <3> QED BY <3>8, <3>9 DEF x
  <2>2. P = {}
    <3> SUFFICES ASSUME NEW j \in 0..k PROVE StickDe((acceso.dir + j) % MOD32) # KM
      BY DEF Perdidos
    <3>1. j \in 0..(H - 1) \/ j \in H..k
      BY <1>1
    <3> QED BY <1>2, <1>3, <2>1, <3>1
  <2>3. k \in H..k
    BY <1>1
  <2>4. Celda((acceso.dir + k) % MOD32) = <<acceso.a, acceso.desde + (k - H)>>
    BY <2>1, <2>3 DEF Celda
  <2> QED BY <1>3, <2>2, <2>4
<1>4. CASE acceso.a = KM
  <2>1. H \in P
    BY <1>1, <1>4 DEF Perdidos
  <2>2. \A j \in P : H <= j /\ j \in Nat
    BY <1>1, <1>2 DEF Perdidos
  <2> HIDE DEF P, H
  <2>3. \A j \in P : (\A i \in P : j <= i) => j = H
    BY <1>1, <2>1, <2>2
  <2>4. (CHOOSE j \in P : \A i \in P : j <= i) = H
    BY <2>1, <2>2, <2>3
  <2> QED BY <1>4, <2>1, <2>4 DEF P, H
<1> QED BY <1>3, <1>4

\* What a read has brought is what was still to come.
LEMMA LecturaNada ==
    ASSUME InvCpu, TramosEnteros, LlegaLectura
    PROVE  PcbFinal' = PcbFinal /\ MemoriaFinal' = MemoriaFinal
<1> DEFINE r == instruccion.reg
           T == acceso.tam
           H == acceso.hecho
           C == acceso.cuantos
           v == pcb.reg[r]
           f == Copiado(v)
           x == Valor(f, T)
<1>1. /\ punto = "espera_stick" /\ EnAcceso /\ EnAcceso' /\ Avanzar
      /\ instruccion.cmd = "MOV_IN"
      /\ UNCHANGED <<programa, memoria, instruccion, devuelto>>
      /\ pcb' = [pcb EXCEPT !.reg[r] = x]
  BY LecturaEs DEF Ir, EnAcceso
<1>2. /\ r \in Registros /\ T \in {1, 4} /\ H \in Nat /\ C \in Nat /\ acceso.dir \in Nat
      /\ H + C <= T
  BY <1>1, TamanoEs DEF InvCpu, InvAcceso, InvTipos, Locales, PedidoDentro
<1>3. acceso'.dir = acceso.dir /\ acceso'.tam = T /\ acceso'.hecho = H + C
  BY <1>1, AvanzarBien
<1>4. PcbBien(pcb) /\ v \in Nat
  BY <1>2, PcbActual DEF PcbBien, Pcbs
<1>5. f \in [0..(T - 1) -> Bytes]
  <2> HIDE DEF v
  <2> QED BY <1>1, <1>4, CopiarTipo
<1>6. \A k \in 0..(T - 1) : Byte(x, k) = f[k]
  <2> HIDE DEF f, T
  <2> QED BY <1>2, <1>5, BytesDeValor
<1> HIDE DEF x
<1>7. pcb'.reg[r] = x
  BY <1>1, <1>2, <1>4 DEF PcbBien, Pcbs
<1>8. ASSUME NEW k \in 0..(T - 1)
      PROVE  ByteFinal(k)' = ByteFinal(k)
  <2>1. k \in Nat /\ f[k] = IF k \in H..(H + C - 1) THEN Recibido(k - H) ELSE Byte(v, k)
    BY DEF Copiado
  <2>2. ByteFinal(k) = IF k < H THEN Byte(v, k) ELSE Llegara(acceso.dir, k)
    BY FinalEs
  <2>3. ByteFinal(k)' = IF k < H + C THEN Byte(x, k) ELSE Llegara(acceso.dir, k)
    <3>1. Antes(k)' = Perdidos(acceso.dir, k)
      BY <1>3 DEF Antes, Perdidos
    <3> HIDE DEF H, C
    <3> QED BY <1>1, <1>3, <1>7, <3>1 DEF ByteFinal, Llegara, Celda
  <2>4. Byte(x, k) = f[k]
    BY <1>6
  <2>5. ASSUME k \in H..(H + C - 1) PROVE Recibido(k - H) = Llegara(acceso.dir, k)
    <3>1. CASE acceso.a = KM
      <4>1. /\ Perdidos(acceso.dir, k) # {}
            /\ (CHOOSE j \in Perdidos(acceso.dir, k) :
                   \A i \in Perdidos(acceso.dir, k) : j <= i) = H
        BY <1>1, <2>5, <3>1, Fragmento
      <4> DEFINE m == CHOOSE j \in Perdidos(acceso.dir, k) :
                          \A i \in Perdidos(acceso.dir, k) : j <= i
      <4>2. Llegara(acceso.dir, k) = Texto[k - m]
        BY <4>1 DEF Llegara
      <4>3. Recibido(k - H) = Texto[k - H]
        BY <3>1 DEF Recibido
      <4>4. m = H
        BY <4>1
      <4> HIDE DEF m, H
      <4> QED BY <4>2, <4>3, <4>4
    <3>2. CASE acceso.a # KM
      <4>1. /\ Perdidos(acceso.dir, k) = {}
            /\ Celda((acceso.dir + k) % MOD32) = <<acceso.a, acceso.desde + (k - H)>>
        BY <1>1, <2>5, <3>2, Fragmento
      <4> QED BY <3>2, <4>1 DEF Recibido, Llegara
    <3> QED BY <3>1, <3>2
  <2>6. k < H \/ k \in H..(H + C - 1) \/ ~(k < H + C)
    BY <1>2, <2>1
  <2>7. k < H => k < H + C /\ k \notin H..(H + C - 1)
    BY <1>2, <2>1
  <2>8. k \in H..(H + C - 1) => k < H + C /\ ~(k < H)
    BY <1>2, <2>1
  <2>9. ~(k < H + C) => ~(k < H)
    BY <1>2, <2>1
  <2> HIDE DEF f, v, H, C
  <2> QED BY <2>1, <2>2, <2>3, <2>4, <2>5, <2>6, <2>7, <2>8, <2>9
<1>9. PcbFinal' = PcbFinal
  <2> DEFINE W == Valor([k \in 0..(T - 1) |-> ByteFinal(k)], T)
  <2>1. PcbFinal = Siguiente([pcb EXCEPT !.reg[r] = W])
    BY <1>1 DEF PcbFinal
  <2>2. PcbFinal' = Siguiente([pcb' EXCEPT !.reg[r] = W])
    <3>1. PcbFinal' = Siguiente([pcb' EXCEPT !.reg[r] =
             Valor([k \in 0..(T - 1) |-> ByteFinal(k)'], T)])
      BY <1>1, <1>3 DEF PcbFinal
    <3>2. [k \in 0..(T - 1) |-> ByteFinal(k)'] = [k \in 0..(T - 1) |-> ByteFinal(k)]
      BY <1>8
    <3> QED BY <3>1, <3>2
  <2> HIDE DEF W
  <2>3. [pcb' EXCEPT !.reg[r] = W] = [pcb EXCEPT !.reg[r] = W]
    BY <1>1, <1>2, <1>4 DEF PcbBien, Pcbs
  <2> QED BY <2>1, <2>2, <2>3
<1>10. MemoriaFinal' = MemoriaFinal
  BY <1>1, FisicaIgual DEF MemoriaFinal
<1> QED BY <1>9, <1>10

\* An access that has been served leaves nothing to come.
LEMMA FinNada ==
    ASSUME InvCpu, FinAcceso
    PROVE  PcbFinal' = PcbFinal /\ MemoriaFinal' = MemoriaFinal
<1> DEFINE r == instruccion.reg
           T == acceso.tam
           v == pcb.reg[r]
<1>1. /\ punto = "acceso" /\ EnAcceso /\ ~EnAcceso' /\ acceso.hecho >= T
      /\ UNCHANGED <<programa, memoria, instruccion, devuelto>>
      /\ pcb' = Siguiente(pcb)
  BY DEF FinAcceso, Ir, EnAcceso
<1>2. /\ instruccion.cmd \in {"MOV_IN", "MOV_OUT"} /\ r \in Registros
      /\ T \in {1, 4} /\ T = Tamano(r) /\ acceso.hecho = T
  BY <1>1, TamanoEs DEF InvCpu, InvAcceso, InvTipos, Locales
<1>3. PcbFinal' = Siguiente(pcb) /\ MemoriaFinal' = MemoriaFisica
  BY <1>1, FueraEs, FisicaIgual
<1>4. PcbBien(pcb)
  BY PcbActual
<1>5. v \in Nat /\ v < (IF T = 1 THEN MOD8 ELSE MOD32)
  <2>1. v \in 0..(MOD32 - 1) /\ (r \in Registros8 => v < MOD8)
    BY <1>2, <1>4 DEF PcbBien, Pcbs
  <2>2. T = 1 => r \in Registros8
    BY <1>2 DEF Tamano
  <2> HIDE DEF v, T
  <2> QED BY <2>1, <2>2, Pesos
<1>6. PcbFinal = Siguiente(pcb)
  <2>1. CASE instruccion.cmd = "MOV_OUT"
    BY <1>1, <2>1 DEF PcbFinal
  <2>2. CASE instruccion.cmd = "MOV_IN"
    <3>1. \A k \in 0..(T - 1) : ByteFinal(k) = Byte(v, k)
      <4>1. \A k \in 0..(T - 1) : k < acceso.hecho
        BY <1>2
      <4> QED BY <4>1, FinalEs
    <3>2. PcbFinal = Siguiente([pcb EXCEPT !.reg[r] =
             Valor([k \in 0..(T - 1) |-> Byte(v, k)], T)])
      BY <1>1, <2>2, <3>1 DEF PcbFinal
    <3>3. Valor([k \in 0..(T - 1) |-> Byte(v, k)], T) = v
      <4> HIDE DEF v, T
      <4> QED BY <1>2, <1>5, ValorDeBytes
    <3>4. [pcb EXCEPT !.reg[r] = v] = pcb
      BY <1>2, <1>4 DEF PcbBien, Pcbs
    <3> HIDE DEF v
    <3> QED BY <3>2, <3>3, <3>4
  <2> QED BY <1>2, <2>1, <2>2
<1>7. MemoriaFinal = MemoriaFisica
  <2>1. PorEscribir = {}
    BY <1>2 DEF PorEscribir
  <2>2. MemoriaFisica = [d \in Direcciones |-> MemoriaFisica[d]]
    BY DEF MemoriaFisica
  <2> QED BY <2>1, <2>2 DEF MemoriaFinal
<1> QED BY <1>3, <1>6, <1>7

\* Nor does a write: what a fragment has stored is what was still to be stored.
LEMMA EscrituraNada ==
    ASSUME InvCpu, TramosEnteros, LlegaEscritura
    PROVE  PcbFinal' = PcbFinal /\ MemoriaFinal' = MemoriaFinal
<1> DEFINE T == acceso.tam
           H == acceso.hecho
           C == acceso.cuantos
           v == pcb.reg[instruccion.reg]
           Va(k) == (acceso.dir + k) % MOD32
           PE == {k \in H..(T - 1) : Perdidos(acceso.dir, k) = {}}
           PE2 == {k \in (H + C)..(T - 1) : Perdidos(acceso.dir, k) = {}}
           Escrita(d) == IF StickDe(d) = acceso.a
                            /\ d - Sticks[StickDe(d)].base - acceso.desde \in 0..(C - 1)
                         THEN Byte(v, H + (d - Sticks[StickDe(d)].base - acceso.desde))
                         ELSE memoria[Celda(d)]
<1>1. /\ punto = "espera_stick" /\ EnAcceso /\ EnAcceso' /\ Avanzar
      /\ instruccion.cmd = "MOV_OUT"
      /\ UNCHANGED <<programa, pcb, instruccion, devuelto>>
  BY EscrituraEs DEF Ir, EnAcceso
<1>2. /\ T \in {1, 4} /\ H \in Nat /\ C \in Nat /\ acceso.dir \in Nat
      /\ acceso.desde \in Nat /\ H < T /\ H + C <= T
  BY <1>1, TamanoEs DEF InvCpu, InvAcceso, InvTipos, Locales, PedidoDentro, InvPedido
<1>3. acceso'.dir = acceso.dir /\ acceso'.tam = T /\ acceso'.hecho = H + C
  BY <1>1, AvanzarBien
<1>4. PcbFinal' = PcbFinal
  BY <1>1 DEF PcbFinal
<1>5. PorEscribir = PE
  BY FinalEs
<1>6. PorEscribir' = PE2
  BY <1>3 DEF PorEscribir, Antes, Perdidos
<1>7. MemoriaFinal = [d \in Direcciones |->
         IF \E k \in PE : Va(k) = d THEN Byte(v, CHOOSE k \in PE : Va(k) = d)
         ELSE memoria[Celda(d)]]
  BY <1>1, <1>5 DEF MemoriaFinal, MemoriaFisica
<1>8. ASSUME NEW d \in Direcciones
      PROVE  memoria'[Celda(d)] = Escrita(d)
  <2>1. d \in 0..(MOD32 - 1) /\ StickDe(d) # KM
    BY DEF Direcciones
  <2>2. StickDe(d) \in DOMAIN Sticks /\ LoTiene(StickDe(d), d)
    BY <2>1, StickDeEs
  <2>3. /\ Sticks[StickDe(d)].base \in Nat /\ Sticks[StickDe(d)].tamano \in Nat
        /\ Sticks[StickDe(d)].base <= d
        /\ d < Sticks[StickDe(d)].base + Sticks[StickDe(d)].tamano
    BY <2>1, <2>2, LoTieneEs
  <2>4. d - Sticks[StickDe(d)].base \in 0..(Sticks[StickDe(d)].tamano - 1)
    <3> DEFINE b == Sticks[StickDe(d)].base
               n == Sticks[StickDe(d)].tamano
    <3>1. b \in Nat /\ n \in Nat /\ b <= d /\ d < b + n /\ d \in Int
      BY <2>1, <2>3
    <3> HIDE DEF b, n
    <3>2. d - b \in 0..(n - 1)
      BY <3>1
    <3> QED BY <3>2 DEF b, n
  <2>5. Celda(d) \in Celdas
    BY <2>2, <2>4 DEF Celda, Celdas
  <2>6. Celda(d)[1] = StickDe(d) /\ Celda(d)[2] = d - Sticks[StickDe(d)].base
    BY DEF Celda
  <2>7. memoria'[Celda(d)] =
           IF Celda(d)[1] = acceso.a /\ Celda(d)[2] - acceso.desde \in 0..(C - 1)
           THEN Byte(v, H + (Celda(d)[2] - acceso.desde)) ELSE memoria[Celda(d)]
    <3> DEFINE c == Celda(d)
    <3>1. c \in Celdas
      BY <2>5
    <3> HIDE DEF c
    <3>2. memoria'[c] = IF c[1] = acceso.a /\ c[2] - acceso.desde \in 0..(C - 1)
                        THEN Byte(v, H + (c[2] - acceso.desde)) ELSE memoria[c]
      BY <3>1, EscrituraEs
    <3> QED BY <3>2 DEF c
  <2> QED BY <2>6, <2>7
<1> HIDE DEF Escrita
<1>9. MemoriaFinal' = [d \in Direcciones |->
         IF \E k \in PE2 : Va(k) = d THEN Byte(v, CHOOSE k \in PE2 : Va(k) = d)
         ELSE Escrita(d)]
  <2>1. MemoriaFinal' = [d \in Direcciones |->
           IF \E k \in PE2 : Va(k) = d THEN Byte(v, CHOOSE k \in PE2 : Va(k) = d)
           ELSE memoria'[Celda(d)]]
    BY <1>1, <1>3, <1>6 DEF MemoriaFinal, MemoriaFisica, Celda
  <2> QED BY <1>8, <2>1
<1>10. ASSUME NEW d \in Direcciones
       PROVE  (IF \E k \in PE2 : Va(k) = d THEN Byte(v, CHOOSE k \in PE2 : Va(k) = d)
               ELSE Escrita(d))
              = (IF \E k \in PE : Va(k) = d THEN Byte(v, CHOOSE k \in PE : Va(k) = d)
                 ELSE memoria[Celda(d)])
  <2>1. PE2 \subseteq PE /\ PE \subseteq 0..3
    BY <1>2
  <2>2. ASSUME NEW k \in PE, NEW l \in PE, Va(k) = d, Va(l) = d PROVE k = l
    BY <1>2, <2>1, <2>2, DireccionUnica
  <2>3. \A k \in PE : k \in PE2 \/ k \in H..(H + C - 1)
    BY <1>2
  <2>4. ASSUME NEW k \in PE, k \in H..(H + C - 1), Va(k) = d
        PROVE  Escrita(d) = Byte(v, k)
    <3>1. StickDe((acceso.dir + H) % MOD32) # KM
      BY <1>2, <2>4 DEF Perdidos
    <3>2. acceso.a # KM
      BY <1>1, <3>1 DEF InvCpu, InvPedido, dir_actual
    <3>3. Celda(d) = <<acceso.a, acceso.desde + (k - H)>>
      BY <1>1, <2>4, <3>2, Fragmento
    <3>4. StickDe(d) = acceso.a /\ d - Sticks[StickDe(d)].base = acceso.desde + (k - H)
      BY <3>3 DEF Celda
    <3>5. /\ (acceso.desde + (k - H)) - acceso.desde = k - H
          /\ k - H \in 0..(C - 1) /\ H + (k - H) = k
      BY <1>2, <2>4
    <3> DEFINE j == d - Sticks[StickDe(d)].base - acceso.desde
    <3>6. j = k - H
      BY <3>4, <3>5
    <3>7. Escrita(d) = IF StickDe(d) = acceso.a /\ j \in 0..(C - 1)
                       THEN Byte(v, H + j) ELSE memoria[Celda(d)]
      BY DEF Escrita
    <3> HIDE DEF v, j
    <3> QED BY <3>4, <3>5, <3>6, <3>7
  <2>5. ASSUME ~\E k \in PE : Va(k) = d
        PROVE  Escrita(d) = memoria[Celda(d)]
    <3> DEFINE b == Sticks[StickDe(d)].base
               j == d - b - acceso.desde
    <3> SUFFICES ASSUME StickDe(d) = acceso.a, j \in 0..(C - 1) PROVE FALSE
      BY DEF Escrita
    <3>1. d \in Nat /\ acceso.a # KM
      BY Pesos DEF Direcciones
    <3>2. acceso.a \in DOMAIN Sticks /\ LoTiene(acceso.a, d)
      BY <3>1, StickDeEs
    <3>3. b \in Nat
      BY <3>1, <3>2, LoTieneEs
    <3> DEFINE k == H + j
    <3>4. k \in H..(H + C - 1) /\ k \in Nat /\ j = k - H
      <4> HIDE DEF j
      <4> QED BY <1>2
    <3> HIDE DEF k
    <3>5. Perdidos(acceso.dir, k) = {}
      BY <1>1, <3>1, <3>4, Fragmento
    <3>6. Va(k) = d
      <4>1. Va(H + j) = dir_actual + j /\ dir_actual + j - Sticks[acceso.a].base
               = acceso.desde + j /\ dir_actual \in Int
        <5> HIDE DEF j
        <5>1. dir_actual \in 0..(MOD32 - 1)
          BY DirActualTipo DEF InvCpu, InvTipos
        <5> QED BY <1>1, <3>1, <5>1, Tramo
      <4>2. dir_actual + j = d
        <5> DEFINE e == dir_actual
        <5>1. e + j - b = acceso.desde + j /\ e \in Int /\ j = d - b - acceso.desde
              /\ j \in Int
          BY <4>1
        <5> HIDE DEF e, j, b
        <5> QED BY <1>2, <3>1, <3>3, <5>1 DEF e
      <4> QED BY <4>1, <4>2 DEF k
    <3>7. k \in PE
      BY <1>2, <3>4, <3>5
    <3> QED BY <2>5, <3>6, <3>7
  <2> HIDE DEF PE, PE2, Va, v, H, C
  <2>6. CASE \E k \in PE2 : Va(k) = d
    <3>1. PICK k \in PE2 : Va(k) = d
      BY <2>6
    <3>2. (CHOOSE l \in PE2 : Va(l) = d) = k /\ (CHOOSE l \in PE : Va(l) = d) = k
      BY <2>1, <2>2, <3>1
    <3> QED BY <2>1, <3>1, <3>2
  <2>7. CASE (~\E k \in PE2 : Va(k) = d) /\ \E k \in PE : Va(k) = d
    <3>1. PICK k \in PE : Va(k) = d
      BY <2>7
    <3>2. (CHOOSE l \in PE : Va(l) = d) = k
      BY <2>2, <3>1
    <3>3. Escrita(d) = Byte(v, k)
      BY <2>3, <2>4, <2>7, <3>1
    <3> QED BY <2>7, <3>1, <3>2, <3>3
  <2>8. CASE ~\E k \in PE : Va(k) = d
    BY <2>1, <2>5, <2>8
  <2> QED BY <2>6, <2>7, <2>8
<1>11. MemoriaFinal' = MemoriaFinal
  <2> HIDE DEF PE, PE2, Va, v
  <2> QED BY <1>7, <1>9, <1>10
<1> QED BY <1>4, <1>11

\* While no server has closed, every step of the CPU is a whole instruction of
\* Maquina, the hand-over of the process between two of them, or nothing: a
\* register is read or written as if at once, whichever sticks it is spread over
\* and however many requests it takes (thread_ejecucion.c:64-170, 194-414).
THEOREM CpuImplementaMaquina ==
    ASSUME TramosEnteros
    PROVE  Spec => ImplementaMaquina
<1>1. Init => Abstracta!Init
  <2> SUFFICES ASSUME Init PROVE Abstracta!Init
    OBVIOUS
  <2>1. PcbFinal = pcb
    BY FueraEs DEF Init, EnAcceso
  <2> QED BY <2>1, MismoJuego DEF Init, Abstracta!Init
<1>2. InvCpu /\ [Next]_vars
         => [caidos' = {} => UNCHANGED Abstracta!vars \/ Abstracta!Next]_vars
  <2> SUFFICES ASSUME InvCpu, Next, caidos' = {}
               PROVE  UNCHANGED Abstracta!vars \/ Abstracta!Next
    BY DEF vars
  <2>1. CASE Recibir \/ Fetch \/ LlegaInstruccion \/ Calcular \/ MovSinRegistro
             \/ MovSegFault \/ Exit \/ Invalida \/ Interrumpir \/ Continuar
    BY <2>1, PasoFuera
  <2>2. CASE FetchFalla \/ AccesoFalla \/ Caer
    BY <2>2 DEF FetchFalla, AccesoFalla, Caer
  <2>3. CASE Mov
    BY <2>3, MovImplementa DEF Abstracta!Next
  <2>4. CASE LlegaLectura \/ LlegaEscritura \/ FinAcceso
    <3>1. PcbFinal' = PcbFinal /\ MemoriaFinal' = MemoriaFinal
      BY <2>4, LecturaNada, EscrituraNada, FinNada
    <3>2. UNCHANGED <<programa, devuelto>> /\ Fase' = Fase
      BY <2>4, LecturaEs, EscrituraEs DEF FinAcceso, Ir, Fase
    <3> QED BY <3>1, <3>2, Quieto
  <2>5. CASE Pedir \/ Enviar
    <3>1. /\ UNCHANGED <<programa, memoria, pcb, instruccion, devuelto>>
          /\ EnAcceso' = EnAcceso /\ Fase' = Fase
      BY <2>5 DEF Pedir, Enviar, Ir, EnAcceso, Fase
    <3>2. acceso'.dir = acceso.dir /\ acceso'.hecho = acceso.hecho /\ acceso'.tam = acceso.tam
      BY <2>5 DEF Pedir, Enviar, InvCpu, InvTipos, Locales
    <3>3. PcbFinal' = PcbFinal /\ MemoriaFinal' = MemoriaFinal
      BY <3>1, <3>2, MismoFinal
    <3> QED BY <3>1, <3>3, Quieto
  <2> QED BY <2>1, <2>2, <2>3, <2>4, <2>5 DEF Next, Hilo, Interno, DeKm,
         LlegaLectura, LlegaEscritura
<1> QED BY <1>1, <1>2, InvarianteCpu, PTL DEF Spec, ImplementaMaquina

\* The list of the code, which has one stick, is such a list
\* (cpu/src/main.c:71-77).
LEMMA UnStickEntero ==
    ASSUME Len(Sticks) <= 1
    PROVE  TramosEnteros
<1> SUFFICES ASSUME NEW d \in Direcciones,
                    NEW e \in d..(Sticks[StickDe(d)].base + Sticks[StickDe(d)].tamano - 1)
             PROVE  StickDe(e) = StickDe(d)
  BY DEF TramosEnteros
<1>1. d \in Nat /\ StickDe(d) # KM
  BY Pesos DEF Direcciones
<1>2. StickDe(d) \in DOMAIN Sticks /\ LoTiene(StickDe(d), d)
  BY <1>1, StickDeEs
<1>3. /\ Len(Sticks) \in Nat /\ DOMAIN Sticks = 1..Len(Sticks)
  BY SupuestosCpu
<1>4. StickDe(d) = 1 /\ DOMAIN Sticks = {1}
  <2> DEFINE i == StickDe(d)
  <2>1. i \in 1..Len(Sticks)
    BY <1>2, <1>3
  <2> HIDE DEF i
  <2>2. i = 1 /\ Len(Sticks) = 1
    BY <1>3, <2>1
  <2> QED BY <1>3, <2>2 DEF i
<1> DEFINE b == Sticks[1].base
           n == Sticks[1].tamano
<1>5. b \in Nat /\ n \in Nat /\ b <= d /\ d < b + n /\ b + n < MOD32
  BY <1>1, <1>2, <1>4, LoTieneEs
<1>6. e \in d..(b + n - 1)
  BY <1>4
<1>7. LoTiene(1, e)
  <2>1. (b + n) % MOD32 = b + n
    <3> HIDE DEF b, n
    <3> DEFINE x == b + n
    <3>0. MOD32 \in Nat
      BY Pesos
    <3>1. x \in 0..(MOD32 - 1)
      BY <1>5, <3>0
    <3> HIDE DEF x
    <3>2. x % MOD32 = x
      BY <3>0, <3>1, RestoDeMenor
    <3> QED BY <3>2 DEF x
  <2>2. b <= e /\ e < b + n
    <3> HIDE DEF b, n
    <3> QED BY <1>1, <1>5, <1>6
  <2> QED BY <2>1, <2>2 DEF LoTiene
<1>8. StickDe(e) # KM
  <2>1. \E i \in DOMAIN Sticks : LoTiene(i, e)
    BY <1>4, <1>7
  <2> QED BY <2>1, StickDeNo
<1>9. StickDe(e) \in DOMAIN Sticks
  BY <1>8, StickDeEs
<1> QED BY <1>4, <1>9

COROLLARY UnStickImplementaMaquina ==
    ASSUME Len(Sticks) <= 1
    PROVE  Spec => ImplementaMaquina
BY UnStickEntero, CpuImplementaMaquina
=============================================================================
