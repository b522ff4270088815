------------------------- MODULE KernelMemory_proofs -------------------------
(***************************************************************************)
(* Kernel Memory for every number of clients and descriptors: its types,   *)
(* whoever leaves, and, while nobody does, whose answer goes to whom and   *)
(* which swap is kept.                                                     *)
(***************************************************************************)
EXTENDS PropiedadesMemoria, SequenceTheorems, FiniteSetTheorems, TLAPS

-----------------------------------------------------------------------------
(* The operators *)

\* The greeting of each kind of client.
LEMMA SaludoDe ==
    ASSUME NEW c \in Clientes
    PROVE  /\ c \in Cpus => Saludo(c) = <<NEW_CPU, CARGA>>
           /\ c \in Sticks => Saludo(c) = <<NEW_MEMORY_STICK, CARGA>>
           /\ c \in Swaps => Saludo(c) = <<NEW_SWAP, CARGA>>
           /\ c \in Planificadores => Saludo(c) = <<NEW_KERNEL_SCHEDULER, CARGA>>
<1>1. CASE c \in Cpus
  BY <1>1, SupuestosMemoria DEF Saludo
<1>2. CASE c \in Sticks
  BY <1>2, SupuestosMemoria DEF Saludo
<1>3. CASE c \in Swaps
  BY <1>3, SupuestosMemoria DEF Saludo
<1>4. CASE c \in Planificadores
  BY <1>4, SupuestosMemoria DEF Saludo
<1> QED BY <1>1, <1>2, <1>3, <1>4, SupuestosMemoria

\* Every word is a number, and only a CPU says NEW_CPU, only a stick
\* NEW_MEMORY_STICK.
LEMMA PalabraDe ==
    ASSUME NEW c \in Clientes
    PROVE  /\ Palabra(c) \subseteq Nat
           /\ Saludo(c) \in Seq(Palabra(c))
           /\ NEW_CPU \in Palabra(c) => c \in Cpus
           /\ NEW_MEMORY_STICK \in Palabra(c) => c \in Sticks
<1> USE DEF NEW_CPU, NEW_SWAP, NEW_MEMORY_STICK, NEW_KERNEL_SCHEDULER, MOV_IN,
            MOV_OUT, CARGA
<1>1. /\ Saludo(c)[1] \in Nat
      /\ Saludo(c) = <<Saludo(c)[1], CARGA>>
      /\ Saludo(c)[1] = NEW_CPU => c \in Cpus
      /\ Saludo(c)[1] = NEW_MEMORY_STICK => c \in Sticks
  BY SaludoDe, SupuestosMemoria
<1>2. Saludo(c) \in Seq(Palabra(c))
  <2> DEFINE P == Palabra(c)
             h == Saludo(c)[1]
  <2>1. h \in P /\ 60 \in P
    BY DEF Palabra
  <2> HIDE DEF P, h
  <2>2. <<h, 60>> \in Seq(P)
    BY <2>1
  <2> QED BY <1>1, <2>2 DEF P, h
<1> QED BY <1>1, <1>2 DEF Palabra

\* What is left of a stream is a stream of the same words.
LEMMA RestoDelFlujo ==
    ASSUME NEW S, NEW s \in Seq(S), s # <<>>, NEW k \in {1, 2}
    PROVE  /\ Head(s) \in S
           /\ Tail(s) \in Seq(S)
           /\ SubSeq(s, k + 1, Len(s)) \in Seq(S)
BY SubSeqProperties

\* What is left of a stream after its first two words.
LEMMA TrasDosPalabras ==
    ASSUME NEW a \in Nat, NEW b \in Nat, NEW r \in Peticiones \cup {<<>>}
    PROVE  /\ SubSeq(<<a, b>> \o r, 3, Len(<<a, b>> \o r)) = r
           /\ SubSeq(<<a, b>>, 3, Len(<<a, b>>)) = <<>>
           /\ <<>> \o r = r /\ r \in Seq(Nat)
           /\ <<a, b>> \o <<>> = <<a, b>>
<1>1. r \in Seq(Nat) /\ <<a, b>> \in Seq(Nat) /\ Len(<<a, b>>) = 2
  <2>1. <<10, 60>> \in Seq(Nat) /\ <<11, 60>> \in Seq(Nat) /\ <<>> \in Seq(Nat)
    OBVIOUS
  <2>2. <<a, b>> \in Seq(Nat) /\ Len(<<a, b>>) = 2
    OBVIOUS
  <2> QED BY <2>1, <2>2 DEF Peticiones, MOV_IN, MOV_OUT, CARGA
<1>2. SubSeq(<<a, b>>, 3, Len(<<a, b>>)) = <<>>
  BY <1>1, SubSeqEmpty
<1>3. <<>> \o r = r /\ <<a, b>> \o <<>> = <<a, b>>
  BY <1>1, ConcatEmptySeq
<1>4. SubSeq(<<a, b>> \o r, 3, Len(<<a, b>> \o r)) = r
  <2> DEFINE s == <<a, b>>
  <2>1. Len(s \o r) = 2 + Len(r) /\ Len(r) \in Nat
    BY <1>1, ConcatProperties
  <2>2. SubSeq(s \o r, 3, 2 + Len(r)) = SubSeq(r, 1, Len(r))
    <3> HIDE DEF s
    <3>1. s \in Seq(Nat) /\ Len(s) = 2
      BY <1>1 DEF s
    <3>2. CASE r = <<>>
      BY <3>1, <3>2, <2>1, SubSeqEmpty
    <3>3. CASE r # <<>>
      BY <1>1, <2>1, <3>1, <3>3, SubSeqOfConcat2
    <3> QED BY <3>2, <3>3
  <2>3. SubSeq(r, 1, Len(r)) = r
    BY <1>1, SubSeqFull
  <2> QED BY <2>1, <2>2, <2>3
<1> QED BY <1>1, <1>2, <1>3, <1>4

\* list_add keeps the type of the list, whatever it finds.
LEMMA EnlazarTipo ==
    ASSUME NEW S, NEW lista \in Seq(S), NEW u, NEW id \in S
    PROVE  Enlazar(lista, u, id) \in Seq(S)
<1>1. CASE u = Libre \/ \A n \in DOMAIN lista : lista[n] # u
  BY <1>1 DEF Enlazar
<1>2. CASE ~(u = Libre \/ \A n \in DOMAIN lista : lista[n] # u)
  <2> DEFINE n == CHOOSE n \in DOMAIN lista : lista[n] = u
  <2>1. n \in 1..Len(lista)
    <3>1. \E m \in DOMAIN lista : lista[m] = u
      BY <1>2
    <3> QED BY <3>1
  <2> HIDE DEF n
  <2>2. SubSeq(lista, 1, n) \in Seq(S)
    <3>1. \A i \in 1..n : lista[i] \in S
      BY <2>1
    <3> QED BY <2>1, <3>1, SubSeqProperties
  <2>3. Enlazar(lista, u, id) = Append(SubSeq(lista, 1, n), id)
    BY <1>2 DEF Enlazar, n
  <2> QED BY <2>2, <2>3
<1> QED BY <1>1, <1>2

\* Its last element is of the list, when it has one.
LEMMA UltimoTipo ==
    ASSUME NEW S, NEW lista \in Seq(S)
    PROVE  Ultimo(lista) \in S \cup {Libre}
BY DEF Ultimo

-----------------------------------------------------------------------------
(* Types *)

\* The operation that a thread has received is of the client it reads from.
LEMMA LlegaTipo ==
    ASSUME InvTipos, NEW c \in Clientes, NEW op, Llega(c, op)
    PROVE  /\ hilo[c] = "recv" /\ leyendo[c] \in Clientes
           /\ entrada[leyendo[c]] # <<>>
           /\ op \in Palabra(leyendo[c])
BY RestoDelFlujo DEF InvTipos, EntradaOK, TypeOK, Llega, Operacion

\* A stream that takes words of its client.
LEMMA EntradaCambia ==
    ASSUME InvTipos, NEW d \in Clientes, NEW r \in Seq(Nat), r \in Seq(Palabra(d)),
           entrada' = [entrada EXCEPT ![d] = r]
    PROVE  EntradaOK'
<1>1. \A e \in Clientes : Palabra(e)' = Palabra(e)
  BY DEF Palabra, Saludo
<1> QED BY <1>1 DEF InvTipos, EntradaOK

LEMMA TomaTipo ==
    ASSUME InvTipos, NEW d \in Clientes, entrada[d] # <<>>, NEW k \in {1, 2},
           \/ entrada' = [entrada EXCEPT ![d] = Tail(@)]
           \/ entrada' = [entrada EXCEPT ![d] = SubSeq(@, k + 1, Len(@))]
    PROVE  EntradaOK'
<1>1. /\ Tail(entrada[d]) \in Seq(Nat)
      /\ SubSeq(entrada[d], k + 1, Len(entrada[d])) \in Seq(Nat)
  BY RestoDelFlujo DEF InvTipos, EntradaOK
<1>2. /\ Tail(entrada[d]) \in Seq(Palabra(d))
      /\ SubSeq(entrada[d], k + 1, Len(entrada[d])) \in Seq(Palabra(d))
  BY RestoDelFlujo DEF InvTipos, EntradaOK
<1>3. CASE entrada' = [entrada EXCEPT ![d] = Tail(@)]
  BY <1>1, <1>2, <1>3, EntradaCambia
<1>4. CASE entrada' = [entrada EXCEPT ![d] = SubSeq(@, k + 1, Len(@))]
  BY <1>1, <1>2, <1>4, EntradaCambia
<1> QED BY <1>3, <1>4

\* A step of a thread that touches nothing but where it is.
LEMMA SigueTipo ==
    ASSUME InvTipos, NEW c \in Clientes, hilo[c] # "sin",
           NEW p \in PuntosHilo \ {"sin", "recv", "agrega_cpu", "agrega_stick"},
           Seguir(c, p), EntradaOK',
           conexion' \in [Fds -> Clientes \cup {Libre}],
           UNCHANGED <<cliente, socket, leyendo, en_atender, recurso_swap,
                       recursos_cpu, recursos_memory_stick, ultimo, pide>>
    PROVE  InvTipos'
BY DEF InvTipos, TypeOK, Seguir

\* accept().
LEMMA TiposAceptar ==
    ASSUME InvTipos, NEW c \in Clientes, Admision(c)
    PROVE  InvTipos'
<1> USE DEF varsMemoria
<1>1. EntradaOK'
  BY DEF Admision, Aceptar, InvTipos, EntradaOK, Palabra, Saludo
<1> QED BY <1>1 DEF Admision, Aceptar, InvTipos, TypeOK, Fds, PuntosHilo

\* recv(), with a connection or without one.
LEMMA TiposLlamar ==
    ASSUME InvTipos, NEW c \in Clientes, LlamarRecv(c), UNCHANGED varsMemoria
    PROVE  InvTipos'
<1> USE DEF varsMemoria
<1>1. EntradaOK'
  BY DEF LlamarRecv, InvTipos, EntradaOK, Palabra, Saludo
<1> QED BY <1>1 DEF LlamarRecv, InvTipos, TypeOK, Fds, PuntosHilo

\* The steps of a thread that leave the lists alone.
LEMMA TiposHilo ==
    ASSUME InvTipos, NEW c \in Clientes,
           \/ (LlegaFin(c) \/ CerrarEnRecibir(c)) /\ UNCHANGED varsMemoria
           \/ VerSwap(c) \/ RechazarSwap(c) \/ AtenderPlanificador(c)
           \/ Desconocida(c) \/ AtenderMovIn(c) \/ AtenderMovOut(c) \/ DejarCpu(c)
    PROVE  InvTipos'
<1> USE DEF varsMemoria, PuntosHilo
<1>1. conexion' = conexion \/ Close(c)
  BY DEF LlegaFin, CerrarEnRecibir, VerSwap, RechazarSwap, AtenderPlanificador,
         Desconocida, AtenderMovIn, AtenderMovOut, DejarCpu, Tomar
<1>2. conexion' \in [Fds -> Clientes \cup {Libre}]
  BY <1>1 DEF InvTipos, TypeOK, Close
<1>3. /\ hilo[c] # "sin"
      /\ \E p \in {"cierra", "desconocida", "pone_swap", "rechaza_swap", "fin", "llama"} :
            Seguir(c, p)
      /\ UNCHANGED <<cliente, socket, leyendo, en_atender, recurso_swap,
                     recursos_cpu, recursos_memory_stick, ultimo, pide>>
  BY Zenon DEF LlegaFin, CerrarEnRecibir, VerSwap, RechazarSwap, AtenderPlanificador,
         Desconocida, AtenderMovIn, AtenderMovOut, DejarCpu, Tomar, Seguir,
         EnAdmitir, Llega
<1>4. EntradaOK'
  <2>1. CASE entrada' = entrada
    BY <2>1 DEF InvTipos, EntradaOK, Palabra, Saludo
  <2>2. ASSUME NEW op, Llega(c, op),
               \/ entrada' = [entrada EXCEPT ![leyendo[c]] = Tail(@)]
               \/ \E k \in {1, 2} : entrada' = [entrada EXCEPT ![leyendo[c]] =
                                                   SubSeq(@, k + 1, Len(@))]
        PROVE  EntradaOK'
    BY <2>2, LlegaTipo, TomaTipo
  <2>3. \/ entrada' = entrada
        \/ \E op : /\ Llega(c, op)
                   /\ \/ entrada' = [entrada EXCEPT ![leyendo[c]] = Tail(@)]
                      \/ \E k \in {1, 2} : entrada' = [entrada EXCEPT ![leyendo[c]] =
                                                   SubSeq(@, k + 1, Len(@))]
    BY Zenon DEF LlegaFin, CerrarEnRecibir, VerSwap, RechazarSwap, AtenderPlanificador,
         Desconocida, AtenderMovIn, AtenderMovOut, DejarCpu, Tomar, EnAdmitir
  <2> QED BY <2>1, <2>2, <2>3
<1> QED BY <1>2, <1>3, <1>4, SigueTipo

\* The pointer is set.
LEMMA TiposPonerSwap ==
    ASSUME InvTipos, NEW c \in Clientes, PonerSwap(c)
    PROVE  InvTipos'
<1>1. EntradaOK'
  BY DEF PonerSwap, InvTipos, EntradaOK, Palabra, Saludo
<1> QED BY <1>1 DEF PonerSwap, Seguir, InvTipos, TypeOK, PuntosHilo

\* A resource is registered: the walk, and then the link.
LEMMA TiposVer ==
    ASSUME InvTipos, NEW c \in Clientes, AtenderStick(c) \/ AtenderNewCpu(c)
    PROVE  InvTipos'
<1>1. leyendo[c] \in Clientes /\ EntradaOK'
  BY LlegaTipo, TomaTipo DEF AtenderStick, AtenderNewCpu, EnAdmitir, Tomar
<1>2. /\ AtenderStick(c) => leyendo[c] \in Sticks
      /\ AtenderNewCpu(c) => leyendo[c] \in Cpus
  BY LlegaTipo, PalabraDe DEF AtenderStick, AtenderNewCpu, EnAdmitir
<1>3. /\ Ultimo(recursos_memory_stick) \in Clientes \cup {Libre}
      /\ Ultimo(recursos_cpu) \in Clientes \cup {Libre}
  BY UltimoTipo, SupuestosMemoria DEF InvTipos, TypeOK
<1>4. CASE AtenderStick(c)
  BY <1>1, <1>2, <1>3, <1>4
     DEF AtenderStick, EnAdmitir, Llega, Tomar, Seguir, InvTipos, TypeOK, PuntosHilo
<1>5. CASE AtenderNewCpu(c)
  BY <1>1, <1>2, <1>3, <1>5
     DEF AtenderNewCpu, EnAdmitir, Llega, Tomar, Seguir, InvTipos, TypeOK, PuntosHilo
<1> QED BY <1>4, <1>5

LEMMA TiposAgregar ==
    ASSUME InvTipos, NEW c \in Clientes, AgregarStick(c) \/ AgregarCpu(c)
    PROVE  InvTipos'
<1>1. EntradaOK'
  BY DEF AgregarStick, AgregarCpu, InvTipos, EntradaOK, Palabra, Saludo
<1>2. /\ AgregarStick(c) => recursos_memory_stick' \in Seq(Sticks)
      /\ AgregarCpu(c) => recursos_cpu' \in Seq(Cpus)
  BY EnlazarTipo DEF AgregarStick, AgregarCpu, InvTipos, TypeOK
<1>3. CASE AgregarStick(c)
  BY <1>1, <1>2, <1>3 DEF AgregarStick, Seguir, InvTipos, TypeOK, PuntosHilo
<1>4. CASE AgregarCpu(c)
  BY <1>1, <1>2, <1>4 DEF AgregarCpu, Seguir, InvTipos, TypeOK, PuntosHilo
<1> QED BY <1>3, <1>4

\* The clients.
LEMMA TiposEntorno ==
    ASSUME InvTipos, Entorno
    PROVE  InvTipos'
<1> USE DEF varsMemoria
<1>1. ASSUME NEW c \in Clientes, Entra(c) PROVE InvTipos'
  <2>1. Saludo(c) \in Seq(Nat) /\ Saludo(c) \in Seq(Palabra(c))
    BY PalabraDe
  <2>2. EntradaOK'
    BY <1>1, <2>1, EntradaCambia DEF Entra, Conectar
  <2> QED BY <1>1, <2>2 DEF Entra, Conectar, InvTipos, TypeOK
<1>2. ASSUME NEW c \in Clientes, SeVa(c) PROVE InvTipos'
  <2>1. EntradaOK'
    BY <1>2 DEF SeVa, Desconectar, InvTipos, EntradaOK, Palabra, Saludo
  <2> QED BY <1>2, <2>1 DEF SeVa, Desconectar, InvTipos, TypeOK
<1>3. ASSUME NEW c \in Cpus, Pide(c) PROVE InvTipos'
  <2>1. PICK pc \in 0..Len(Codigo), op \in {MOV_IN, MOV_OUT} :
           /\ pide' = [pide EXCEPT ![c] = pc]
           /\ entrada' = [entrada EXCEPT ![c] = @ \o <<op, CARGA>>]
    BY <1>3 DEF Pide
  <2>2. <<op, CARGA>> \in Seq(Nat) /\ <<op, CARGA>> \in Seq(Palabra(c))
    BY DEF Palabra, MOV_IN, MOV_OUT, CARGA
  <2>3. /\ entrada[c] \o <<op, CARGA>> \in Seq(Nat)
        /\ entrada[c] \o <<op, CARGA>> \in Seq(Palabra(c))
    BY <2>2, SupuestosMemoria DEF InvTipos, EntradaOK
  <2>4. EntradaOK'
    BY <2>1, <2>3, EntradaCambia, SupuestosMemoria
  <2> QED BY <1>3, <2>1, <2>4 DEF Pide, InvTipos, TypeOK
<1>4. ASSUME NEW c \in Cpus, Recibe(c) PROVE InvTipos'
  <2>1. EntradaOK'
    BY <1>4 DEF Recibe, varsServidor, InvTipos, EntradaOK, Palabra, Saludo
  <2> QED BY <1>4, <2>1 DEF Recibe, varsServidor, InvTipos, TypeOK
<1> QED BY <1>1, <1>2, <1>3, <1>4 DEF Entorno

\* The types of PropiedadesMemoria.TypeOK, and who may register as what,
\* whichever clients leave and whoever's descriptor a thread reads from.
THEOREM InvarianteTipos == Spec => []InvTipos
<1>1. Init => InvTipos
  <2> SUFFICES ASSUME Init PROVE InvTipos
    OBVIOUS
  <2>1. EntradaOK
    BY DEF Init, InitServidor, EntradaOK
  <2> QED BY <2>1, SupuestosServidor
          DEF Init, InitServidor, InvTipos, TypeOK, PuntosHilo
<1>2. InvTipos /\ [Next]_vars => InvTipos'
  <2> SUFFICES ASSUME InvTipos, [Next]_vars PROVE InvTipos'
    OBVIOUS
  <2>1. CASE UNCHANGED vars
    <3>1. EntradaOK'
      BY <2>1 DEF vars, varsServidor, InvTipos, EntradaOK, Palabra, Saludo
    <3> QED BY <2>1, <3>1 DEF vars, varsServidor, varsMemoria, InvTipos, TypeOK
  <2>2. ASSUME NEW c \in Clientes, Admision(c) \/ Atencion(c) PROVE InvTipos'
    BY <2>2, TiposAceptar, TiposLlamar, TiposHilo, TiposPonerSwap, TiposVer,
       TiposAgregar DEF Atencion
  <2>3. CASE Entorno
    BY <2>3, TiposEntorno
  <2> QED BY <2>1, <2>2, <2>3 DEF Next
<1> QED BY <1>1, <1>2, PTL DEF Spec

THEOREM TipoCorrecto == Spec => []TypeOK
<1>1. InvTipos => TypeOK
  BY DEF InvTipos
<1> QED BY <1>1, InvarianteTipos, PTL
-----------------------------------------------------------------------------
(* While nobody leaves: what a thread reads *)

\* In admitir, the greeting of the client that the thread serves.
LEMMA LeeSaludo ==
    ASSUME InvTipos, InvMemoria, NEW c \in Clientes, NEW op, EnAdmitir(c, op)
    PROVE  /\ hilo[c] = "recv" /\ PorSaludar(c)
           /\ leyendo[c] = c /\ conexion[socket[c]] = c
           /\ op = Saludo(c)[1]
<1>1. /\ hilo[c] = "recv" /\ PorSaludar(c)
      /\ leyendo[c] = c /\ conexion[socket[c]] = c
  BY DEF EnAdmitir, Llega, InvMemoria, InvHilos, PorSaludar
<1>2. op = Head(entrada[c])
  BY <1>1 DEF EnAdmitir, Llega, Operacion
<1>3. Head(entrada[c]) = Saludo(c)[1]
  <2>1. CASE c \in Cpus
    <3>1. PICK peticion \in Peticiones \cup {<<>>} : entrada[c] = Saludo(c) \o peticion
      BY <1>1, <2>1 DEF InvMemoria, InvFlujos, Flujo
    <3> QED BY <2>1, <3>1, SaludoDe DEF Peticiones
  <2>2. CASE c \notin Cpus
    BY <1>1, <2>2, SaludoDe, SupuestosMemoria DEF InvMemoria, InvFlujos
  <2> QED BY <2>1, <2>2
<1> QED BY <1>1, <1>2, <1>3

\* So each kind of client is attended as what it is.
LEMMA AtiendeAQuienEs ==
    ASSUME InvTipos, InvMemoria, NEW c \in Clientes, NEW op, EnAdmitir(c, op)
    PROVE  /\ op \notin {MOV_IN, MOV_OUT, CARGA}
           /\ op = NEW_CPU <=> c \in Cpus
           /\ op = NEW_SWAP <=> c \in Swaps
           /\ op = NEW_MEMORY_STICK <=> c \in Sticks
           /\ op = NEW_KERNEL_SCHEDULER <=> c \in Planificadores
BY LeeSaludo, SaludoDe, SupuestosMemoria
   DEF NEW_CPU, NEW_SWAP, NEW_MEMORY_STICK, NEW_KERNEL_SCHEDULER, MOV_IN, MOV_OUT, CARGA

\* In atender_cpu, the request of its CPU, which has no answer yet.
LEMMA LeePeticion ==
    ASSUME InvTipos, InvMemoria, NEW c \in en_atender, NEW op, Llega(c, op)
    PROVE  /\ c \in Cpus /\ c \in Clientes /\ hilo[c] = "recv"
           /\ leyendo[c] = c /\ conexion[socket[c]] = c
           /\ op \in {MOV_IN, MOV_OUT} /\ entrada[c] = <<op, CARGA>>
           /\ pide[c] # NADA /\ Len(salida[c]) = 0
<1>1. /\ c \in Cpus /\ c \in Clientes /\ hilo[c] = "recv"
      /\ leyendo[c] = c /\ conexion[socket[c]] = c
  BY SupuestosMemoria DEF Llega, InvMemoria, InvClases, InvHilos
<1>2. PICK peticion \in Peticiones \cup {<<>>} :
         /\ entrada[c] = <<>> \o peticion
         /\ IF pide[c] = NADA THEN peticion = <<>> /\ salida[c] = <<>>
            ELSE Len(salida[c]) = IF peticion = <<>> THEN 1 ELSE 0
  BY <1>1 DEF InvMemoria, InvFlujos, Flujo, PorSaludar
<1>3. entrada[c] # <<>> /\ op = Head(entrada[c])
  BY <1>1 DEF Llega, Operacion
<1>4. peticion \in Peticiones
  BY <1>2, <1>3
<1> QED BY <1>1, <1>2, <1>3, <1>4 DEF Peticiones

-----------------------------------------------------------------------------
(* While nobody leaves: who has each descriptor *)

LEMMA HilosAceptar ==
    ASSUME InvTipos, InvHilos, NEW c \in Clientes, Aceptar(c)
    PROVE  InvHilos'
<1>1. PICK f \in Fds : /\ conexion[f] = Libre
                       /\ conexion' = [conexion EXCEPT ![f] = c]
                       /\ socket' = [socket EXCEPT ![c] = f]
  BY DEF Aceptar, FdMinimo
<1>2. /\ hilo[c] = "sin" /\ hilo' = [hilo EXCEPT ![c] = "llama"]
      /\ cliente[c] # "fuera" /\ UNCHANGED <<cliente, leyendo>>
  BY DEF Aceptar
<1> QED BY <1>1, <1>2, SupuestosServidor DEF InvHilos, InvTipos, TypeOK

LEMMA HilosLlamar ==
    ASSUME InvTipos, InvHilos, NEW c \in Clientes, LlamarRecv(c)
    PROVE  InvHilos' /\ hilo' = [hilo EXCEPT ![c] = "recv"]
<1>1. conexion[socket[c]] = c
  BY DEF LlamarRecv, InvHilos
<1>2. /\ hilo[c] = "llama" /\ hilo' = [hilo EXCEPT ![c] = "recv"]
      /\ leyendo' = [leyendo EXCEPT ![c] = c]
      /\ UNCHANGED <<cliente, conexion, socket>>
  BY <1>1, SupuestosServidor DEF LlamarRecv
<1> QED BY <1>2 DEF InvHilos, InvTipos, TypeOK

\* A thread that goes on, with its descriptor.
LEMMA HilosSigue ==
    ASSUME InvTipos, InvHilos, NEW c \in Clientes, hilo[c] \notin {"sin", "fin"},
           NEW p \in {"llama", "pone_swap", "rechaza_swap", "agrega_stick",
                      "agrega_cpu", "fin"},
           p \in {"agrega_stick", "agrega_cpu"} => leyendo[c] = c,
           Seguir(c, p), UNCHANGED <<cliente, conexion, socket, leyendo>>
    PROVE  InvHilos'
BY DEF InvHilos, InvTipos, TypeOK, Seguir

\* A swap that is refused closes its own descriptor.
LEMMA HilosRechaza ==
    ASSUME InvTipos, InvHilos, NEW c \in Clientes, RechazarSwap(c)
    PROVE  /\ InvHilos'
           /\ \A d \in Clientes : d # c /\ conexion[socket[d]] = d /\ hilo[d] # "sin"
                                   => conexion'[socket[d]] = d
<1>1. conexion[socket[c]] = c /\ socket[c] \in Fds
  BY DEF RechazarSwap, InvHilos, InvTipos, TypeOK
<1>2. \A d \in Clientes : d # c /\ conexion[socket[d]] = d /\ hilo[d] # "sin"
                          => socket[d] \in Fds /\ conexion'[socket[d]] = d
  BY <1>1 DEF RechazarSwap, Close, InvTipos, TypeOK
<1> QED BY <1>1, <1>2, SupuestosServidor
        DEF RechazarSwap, Close, Seguir, InvHilos, InvTipos, TypeOK
-----------------------------------------------------------------------------
(* While nobody leaves: what is on each connection *)

\* A step that puts nothing on a connection, takes nothing from it and attends
\* nobody.
LEMMA FlujosQuedan ==
    ASSUME InvFlujos, UNCHANGED <<entrada, pide, salida>>,
           \A d \in Clientes : PorSaludar(d)' <=> PorSaludar(d)
    PROVE  InvFlujos'
<1>1. /\ Peticiones' = Peticiones /\ \A d \in Clientes : Saludo(d)' = Saludo(d)
      /\ \A d \in Cpus : d \in Clientes
  BY SupuestosMemoria DEF Saludo, Peticiones
<1>2. \A d \in Cpus, r \in Peticiones \cup {<<>>} : Flujo(d, r) => Flujo(d, r)'
  BY <1>1 DEF Flujo
<1> QED BY <1>1, <1>2 DEF InvFlujos

\* A step on one connection.
LEMMA FlujosDeUno ==
    ASSUME InvFlujos, NEW c \in Clientes,
           \A d \in Clientes \ {c} :
               /\ PorSaludar(d)' <=> PorSaludar(d)
               /\ entrada'[d] = entrada[d]
               /\ d \in Cpus => pide'[d] = pide[d] /\ salida'[d] = salida[d],
           c \notin Cpus /\ PorSaludar(c)' => entrada'[c] = Saludo(c),
           c \in Cpus => \E r \in Peticiones \cup {<<>>} : Flujo(c, r)'
    PROVE  InvFlujos'
<1>1. /\ Peticiones' = Peticiones /\ \A d \in Clientes : Saludo(d)' = Saludo(d)
      /\ \A d \in Cpus : d \in Clientes
  BY SupuestosMemoria DEF Saludo, Peticiones
<1>2. \A d \in Cpus \ {c}, q \in Peticiones \cup {<<>>} : Flujo(d, q) => Flujo(d, q)'
  BY <1>1 DEF Flujo
<1>3. \A d \in Clientes \ Cpus : PorSaludar(d)' => entrada'[d] = Saludo(d)'
  BY <1>1 DEF InvFlujos
<1>4. \A d \in Cpus : \E q \in Peticiones \cup {<<>>} : Flujo(d, q)'
  BY <1>2 DEF InvFlujos
<1> QED BY <1>1, <1>3, <1>4 DEF InvFlujos

\* A client that is attended as what it is does not greet any more.
LEMMA FlujosAtender ==
    ASSUME InvTipos, InvMemoria, NEW c \in Clientes \ Cpus,
           hilo[c] \in {"recv", "pone_swap", "rechaza_swap", "agrega_stick"},
           NEW p \in {"pone_swap", "rechaza_swap", "agrega_stick", "fin"},
           Seguir(c, p), UNCHANGED <<cliente, en_atender, pide>>,
           \A d \in Clientes \ {c} : entrada'[d] = entrada[d] /\ salida'[d] = salida[d]
    PROVE  InvFlujos'
<1>1. ~PorSaludar(c)' /\ \A d \in Clientes \ {c} : PorSaludar(d)' <=> PorSaludar(d)
  BY DEF PorSaludar, Seguir, InvTipos, TypeOK
<1> QED BY <1>1, FlujosDeUno DEF InvMemoria

\* NEW_CPU: the greeting is consumed, and the request stays if there is one.
LEMMA FlujosNewCpu ==
    ASSUME InvTipos, InvMemoria, NEW c \in Clientes, AtenderNewCpu(c)
    PROVE  InvFlujos'
<1>1. /\ c \in Cpus /\ leyendo[c] = c /\ PorSaludar(c)
  BY LeeSaludo, AtiendeAQuienEs DEF AtenderNewCpu
<1>2. PICK r \in Peticiones \cup {<<>>} :
         /\ entrada[c] = Saludo(c) \o r
         /\ IF pide[c] = NADA THEN r = <<>> /\ salida[c] = <<>>
            ELSE Len(salida[c]) = IF r = <<>> THEN 1 ELSE 0
  BY <1>1, SupuestosMemoria DEF InvMemoria, InvFlujos, Flujo
<1>3. SubSeq(entrada[c], 3, Len(entrada[c])) = <<>> \o r
  <2>1. NEW_CPU \in Nat /\ CARGA \in Nat
    BY DEF NEW_CPU, CARGA
  <2>2. Saludo(c) = <<NEW_CPU, CARGA>>
    BY <1>1, SaludoDe
  <2> QED BY <1>2, <2>1, <2>2, TrasDosPalabras
<1>4. /\ ~PorSaludar(c)' /\ entrada'[c] = <<>> \o r
      /\ \A d \in Clientes \ {c} : /\ PorSaludar(d)' <=> PorSaludar(d)
                                  /\ entrada'[d] = entrada[d]
      /\ UNCHANGED <<pide, salida>>
  BY <1>1, <1>3 DEF AtenderNewCpu, Tomar, Seguir, PorSaludar, InvTipos, TypeOK, EntradaOK
<1>5. Flujo(c, r)'
  BY <1>2, <1>4 DEF Flujo
<1> QED BY <1>1, <1>4, <1>5, FlujosDeUno DEF InvMemoria

\* MOV_IN and MOV_OUT: the request is consumed and the answer goes to its CPU.
LEMMA FlujosResponde ==
    ASSUME InvTipos, InvMemoria, NEW c \in Clientes, AtenderMovIn(c) \/ AtenderMovOut(c)
    PROVE  InvFlujos'
<1>1. PICK op \in {MOV_IN, MOV_OUT} : c \in en_atender /\ Llega(c, op)
  BY DEF AtenderMovIn, AtenderMovOut
<1>2. /\ c \in Cpus /\ hilo[c] = "recv" /\ leyendo[c] = c
      /\ conexion[socket[c]] = c /\ entrada[c] = <<op, CARGA>>
      /\ pide[c] # NADA /\ Len(salida[c]) = 0
  BY <1>1, LeePeticion
<1>3. /\ Tomar(c, 2) /\ Seguir(c, "llama") /\ UNCHANGED <<en_atender, pide>>
      /\ \E respuesta : Responder(c, respuesta)
  BY DEF AtenderMovIn, AtenderMovOut
<1>4. entrada'[c] = <<>> /\ \A d \in Clientes \ {c} : entrada'[d] = entrada[d]
  <2>1. SubSeq(entrada[c], 3, Len(entrada[c])) = <<>>
    BY <1>2, TrasDosPalabras DEF MOV_IN, MOV_OUT, CARGA
  <2>2. entrada' = [entrada EXCEPT ![c] = <<>>]
    <3>1. SubSeq(entrada[c], 2 + 1, Len(entrada[c])) = <<>>
      BY <2>1
    <3>2. entrada' = [entrada EXCEPT ![c] = SubSeq(entrada[c], 2 + 1, Len(entrada[c]))]
      BY <1>2, <1>3, Zenon DEF Tomar
    <3> QED BY <3>1, <3>2
  <2> QED BY <1>2, <2>2 DEF InvTipos, EntradaOK
<1>5. \A d \in Clientes : PorSaludar(d)' <=> PorSaludar(d)
  BY <1>2, <1>3 DEF Tomar, Seguir, PorSaludar, InvTipos, TypeOK
<1>6. \A d \in Clientes \ {c} : salida'[d] = salida[d]
  BY <1>2, <1>3 DEF Responder
<1>7. Len(salida'[c]) = 1
  <2>1. PICK respuesta : salida'[c] = Append(salida[c], respuesta)
    BY <1>2, <1>3 DEF Responder
  <2> QED BY <1>2, <2>1
<1>8. ~PorSaludar(c) /\ <<>> \o <<>> = <<>>
  BY <1>1 DEF PorSaludar
<1>9. Flujo(c, <<>>)'
  BY <1>2, <1>3, <1>4, <1>5, <1>7, <1>8, SupuestosMemoria DEF Flujo
<1> QED BY <1>2, <1>3, <1>4, <1>5, <1>6, <1>9, SupuestosMemoria, FlujosDeUno DEF InvMemoria

\* A CPU asks, and reads its answer.
LEMMA FlujosPide ==
    ASSUME InvTipos, InvMemoria, NEW c \in Cpus, Pide(c) \/ Recibe(c)
    PROVE  InvFlujos'
<1>1. \A d \in Clientes : PorSaludar(d)' <=> PorSaludar(d)
  BY DEF Pide, Recibe, PorSaludar, varsServidor
<1>2. c \in Clientes
  BY SupuestosMemoria
<1>3. PICK r \in Peticiones \cup {<<>>} :
         /\ entrada[c] = (IF PorSaludar(c) THEN Saludo(c) ELSE <<>>) \o r
         /\ IF pide[c] = NADA THEN r = <<>> /\ salida[c] = <<>>
            ELSE Len(salida[c]) = IF r = <<>> THEN 1 ELSE 0
  BY DEF InvMemoria, InvFlujos, Flujo
<1>4. CASE Pide(c)
  <2>1. PICK pc \in 0..Len(Codigo), op \in {MOV_IN, MOV_OUT} :
           /\ pide' = [pide EXCEPT ![c] = pc]
           /\ entrada' = [entrada EXCEPT ![c] = @ \o <<op, CARGA>>]
    BY <1>4 DEF Pide
  <2>2. pide[c] = NADA /\ r = <<>> /\ salida[c] = <<>> /\ UNCHANGED salida
    BY <1>3, <1>4 DEF Pide
  <2>3. pide'[c] # NADA /\ entrada'[c] = entrada[c] \o <<op, CARGA>>
    BY <1>2, <2>1 DEF InvTipos, EntradaOK, TypeOK, NADA
  <2>4. <<op, CARGA>> \in Peticiones
    BY DEF Peticiones
  <2>5. entrada'[c] = (IF PorSaludar(c)' THEN Saludo(c) ELSE <<>>) \o <<op, CARGA>>
    <3>1. /\ entrada[c] = IF PorSaludar(c) THEN Saludo(c) ELSE <<>>
          /\ Saludo(c) = <<NEW_CPU, CARGA>>
      BY <1>2, <1>3, <2>2, SaludoDe, TrasDosPalabras DEF NEW_CPU, CARGA
    <3> QED BY <1>1, <1>2, <2>3, <3>1
  <2>6. \A d \in Clientes \ {c} :
           entrada'[d] = entrada[d] /\ (d \in Cpus => pide'[d] = pide[d])
    BY <1>2, <2>1 DEF InvTipos, EntradaOK, TypeOK
  <2>7. Len(salida'[c]) = 0 /\ <<op, CARGA>> # <<>>
    BY <2>2
  <2>8. Flujo(c, <<op, CARGA>>)'
    BY <2>3, <2>5, <2>7 DEF Flujo
  <2>9. \E q \in Peticiones \cup {<<>>} : Flujo(c, q)'
    BY <2>4, <2>8, Zenon
  <2>10. \A d \in Clientes \ {c} :
            /\ PorSaludar(d)' <=> PorSaludar(d)
            /\ entrada'[d] = entrada[d]
            /\ d \in Cpus => pide'[d] = pide[d] /\ salida'[d] = salida[d]
    BY <1>1, <2>2, <2>6
  <2>11. InvFlujos
    BY DEF InvMemoria
  <2> QED BY <1>2, <2>9, <2>10, <2>11, FlujosDeUno
<1>5. CASE Recibe(c)
  <2>1. /\ salida[c] # <<>> /\ salida' = [salida EXCEPT ![c] = Tail(@)]
        /\ pide' = [pide EXCEPT ![c] = NADA] /\ UNCHANGED entrada
    BY <1>5 DEF Recibe, varsServidor
  <2>2. pide[c] # NADA /\ (r = <<>> \/ Len(salida[c]) = 0)
    BY <1>3, <2>1
  <2>3. Tail(salida[c]) = <<>> /\ r = <<>>
    BY <1>2, <1>3, <2>1, <2>2 DEF InvMemoria, InvSalida
  <2>4. pide'[c] = NADA /\ salida'[c] = <<>>
    BY <1>2, <2>1, <2>3 DEF InvTipos, TypeOK, InvMemoria, InvSalida
  <2>5. \A d \in Clientes \ {c} :
           salida'[d] = salida[d] /\ (d \in Cpus => pide'[d] = pide[d])
    BY <1>2, <2>1 DEF InvTipos, TypeOK, InvMemoria, InvSalida
  <2>6. entrada'[c] = (IF PorSaludar(c)' THEN Saludo(c) ELSE <<>>) \o r
    BY <1>1, <1>2, <1>3, <2>1
  <2>7. Flujo(c, r)'
    BY <2>3, <2>4, <2>6 DEF Flujo
  <2> QED BY <1>1, <1>2, <2>1, <2>5, <2>7, FlujosDeUno DEF InvMemoria
<1> QED BY <1>4, <1>5

\* A client connects and greets.
LEMMA FlujosEntra ==
    ASSUME InvTipos, InvMemoria, NEW c \in Clientes, Entra(c)
    PROVE  InvFlujos'
<1>1. /\ cliente[c] = "fuera" /\ cliente' = [cliente EXCEPT ![c] = "dentro"]
      /\ entrada' = [entrada EXCEPT ![c] = Saludo(c)]
      /\ UNCHANGED <<hilo, en_atender, pide, salida>>
  BY DEF Entra, Conectar, varsMemoria
<1>2. \A d \in Clientes \ {c} : PorSaludar(d)' <=> PorSaludar(d)
  BY <1>1 DEF PorSaludar, InvTipos, TypeOK
<1>3. \A d \in Clientes \ {c} : entrada'[d] = entrada[d]
  BY <1>1 DEF InvTipos, EntradaOK
<1>4. entrada'[c] = Saludo(c)
  BY <1>1 DEF InvTipos, EntradaOK
<1>5. CASE c \notin Cpus
  BY <1>1, <1>2, <1>3, <1>4, <1>5, FlujosDeUno DEF InvMemoria
<1>6. CASE c \in Cpus
  <2>1. hilo[c] = "sin" /\ pide[c] = NADA
    BY <1>1, <1>6 DEF InvMemoria, InvHilos, InvClases
  <2>2. PICK r \in Peticiones \cup {<<>>} :
           /\ entrada[c] = (IF PorSaludar(c) THEN Saludo(c) ELSE <<>>) \o r
           /\ IF pide[c] = NADA THEN r = <<>> /\ salida[c] = <<>>
              ELSE Len(salida[c]) = IF r = <<>> THEN 1 ELSE 0
    BY <1>6, SupuestosMemoria DEF InvMemoria, InvFlujos, Flujo
  <2>3. r = <<>> /\ Saludo(c) \o <<>> = Saludo(c) /\ <<>> \o <<>> = <<>>
    BY <1>6, <2>1, <2>2, SaludoDe
  <2>4. Flujo(c, <<>>)'
    <3>1. PorSaludar(c)' <=> c \notin en_atender
      BY <1>1, <2>1 DEF PorSaludar, InvTipos, TypeOK
    <3>2. c \notin en_atender
      BY <2>1 DEF InvMemoria, InvClases
    <3> QED BY <1>1, <1>4, <2>1, <2>2, <2>3, <3>1, <3>2 DEF Flujo
  <2> QED BY <1>1, <1>2, <1>3, <1>6, <2>4, FlujosDeUno DEF InvMemoria
<1> QED BY <1>5, <1>6
-----------------------------------------------------------------------------
(* While nobody leaves: the pointer to the swap *)

\* A step that leaves the pointer, the points of the swaps and their descriptors.
LEMMA PunteroQueda ==
    ASSUME InvTipos, InvMemoria,
           recurso_swap' = recurso_swap,
           \A s \in Swaps :
               /\ hilo'[s] \in {"fin", "rechaza_swap"} \/ hilo[s] = "fin"
                  => hilo'[s] = hilo[s]
               /\ hilo[s] = "fin" => socket'[s] = socket[s]
               /\ hilo[s] = "fin" /\ conexion[socket[s]] = s => conexion'[socket[s]] = s
    PROVE  InvPuntero'
<1>1. recurso_swap # Libre =>
         /\ hilo'[recurso_swap] = "fin" /\ socket'[recurso_swap] = socket[recurso_swap]
         /\ conexion'[socket[recurso_swap]] = recurso_swap
  BY DEF InvMemoria, InvPuntero
<1>2. \A s \in Swaps : /\ hilo'[s] = "fin" => hilo[s] = "fin"
                      /\ hilo'[s] = "rechaza_swap" => hilo[s] = "rechaza_swap"
  OBVIOUS
<1> QED BY <1>1, <1>2 DEF InvMemoria, InvPuntero

\* NEW_SWAP: it goes on to set the pointer, or there is another one.
LEMMA PunteroVer ==
    ASSUME InvTipos, InvMemoria, NEW c \in Swaps, VerSwap(c)
    PROVE  InvPuntero'
<1>1. /\ c \in Clientes /\ hilo[c] = "recv" /\ UNCHANGED <<recurso_swap, socket, conexion>>
      /\ hilo' = [hilo EXCEPT ![c] = IF recurso_swap = Libre THEN "pone_swap"
                                                           ELSE "rechaza_swap"]
  BY SupuestosMemoria DEF VerSwap, EnAdmitir, Llega, Tomar, Seguir, varsMemoria
<1>2. recurso_swap # c
  BY <1>1, SupuestosServidor DEF InvMemoria, InvPuntero
<1> QED BY <1>1, <1>2, SupuestosMemoria DEF InvMemoria, InvPuntero, InvTipos, TypeOK

\* The pointer is set: whoever was there is dropped, and this one is connected.
LEMMA PunteroPoner ==
    ASSUME InvTipos, InvMemoria, NEW c \in Clientes, PonerSwap(c)
    PROVE  InvPuntero'
<1>1. /\ hilo[c] = "pone_swap" /\ recurso_swap' = c
      /\ hilo' = [hilo EXCEPT ![c] = "fin"] /\ UNCHANGED <<socket, conexion>>
  BY DEF PonerSwap, Seguir
<1>2. c \in Swaps /\ conexion[socket[c]] = c /\ c # Libre
  BY <1>1, SupuestosServidor DEF InvMemoria, InvClases, InvHilos
<1> QED BY <1>1, <1>2, SupuestosMemoria DEF InvMemoria, InvPuntero, InvTipos, TypeOK

LEMMA PunteroRechazar ==
    ASSUME InvTipos, InvMemoria, NEW c \in Clientes, RechazarSwap(c)
    PROVE  InvPuntero'
<1>1. /\ hilo[c] = "rechaza_swap" /\ UNCHANGED <<recurso_swap, socket>>
      /\ hilo' = [hilo EXCEPT ![c] = "fin"]
  BY DEF RechazarSwap, Seguir, varsMemoria
<1>2. c \in Swaps /\ recurso_swap \notin {c, Libre}
  BY <1>1 DEF InvMemoria, InvClases, InvPuntero
<1>3. conexion'[socket[recurso_swap]] = recurso_swap
  BY <1>2, HilosRechaza, SupuestosMemoria DEF InvMemoria, InvPuntero
<1> QED BY <1>1, <1>2, <1>3, SupuestosMemoria
        DEF InvMemoria, InvPuntero, InvTipos, TypeOK

-----------------------------------------------------------------------------
(* While nobody leaves: every step *)

LEMMA MemoriaAceptar ==
    ASSUME InvTipos, InvMemoria, NEW c \in Clientes, Admision(c)
    PROVE  InvMemoria'
<1> USE DEF varsMemoria
<1>1. InvHilos'
  BY HilosAceptar DEF InvMemoria, Admision
<1>2. /\ hilo[c] = "sin" /\ hilo' = [hilo EXCEPT ![c] = "llama"]
      /\ UNCHANGED <<cliente, entrada, varsMemoria>>
  BY DEF Admision, Aceptar
<1>3. InvClases'
  BY <1>2 DEF InvMemoria, InvClases, InvTipos, TypeOK
<1>4. InvFlujos'
  <2>1. \A d \in Clientes : PorSaludar(d)' <=> PorSaludar(d)
    BY <1>2 DEF PorSaludar, InvTipos, TypeOK
  <2> QED BY <1>2, <2>1, FlujosQuedan DEF InvMemoria
<1>5. InvSalida'
  BY <1>2 DEF InvMemoria, InvSalida
<1>6. InvPuntero'
  <2>1. PICK f \in Fds : /\ conexion[f] = Libre
                         /\ conexion' = [conexion EXCEPT ![f] = c]
                         /\ socket' = [socket EXCEPT ![c] = f]
    BY DEF Admision, Aceptar, FdMinimo
  <2>2. \A s \in Swaps : s \in Clientes /\ s # Libre
    BY SupuestosMemoria, SupuestosServidor
  <2> QED BY <1>2, <2>1, <2>2, PunteroQueda DEF InvTipos, TypeOK
<1> QED BY <1>1, <1>3, <1>4, <1>5, <1>6 DEF InvMemoria

LEMMA MemoriaLlamar ==
    ASSUME InvTipos, InvMemoria, NEW c \in Clientes, LlamarRecv(c), UNCHANGED varsMemoria
    PROVE  InvMemoria'
<1> USE DEF varsMemoria
<1>1. InvHilos' /\ hilo' = [hilo EXCEPT ![c] = "recv"]
  BY HilosLlamar DEF InvMemoria
<1>2. hilo[c] = "llama" /\ UNCHANGED <<cliente, entrada, conexion, socket>>
  BY DEF LlamarRecv
<1>3. InvClases'
  BY <1>1, <1>2 DEF InvMemoria, InvClases, InvTipos, TypeOK
<1>4. InvFlujos'
  <2>1. \A d \in Clientes : PorSaludar(d)' <=> PorSaludar(d)
    BY <1>1, <1>2 DEF PorSaludar, InvTipos, TypeOK
  <2> QED BY <1>2, <2>1, FlujosQuedan DEF InvMemoria
<1>5. InvSalida'
  BY DEF InvMemoria, InvSalida
<1>6. InvPuntero'
  BY <1>1, <1>2, PunteroQueda, SupuestosMemoria DEF InvTipos, TypeOK
<1> QED BY <1>1, <1>3, <1>4, <1>5, <1>6 DEF InvMemoria

\* The three that cannot happen: nobody's recv() returns 0 or fails, and no CPU
\* says what atender_cpu does not know.
LEMMA MemoriaNadieCierra ==
    ASSUME InvTipos, InvMemoria, NEW c \in Clientes
    PROVE  ~(LlegaFin(c) \/ CerrarEnRecibir(c) \/ Desconocida(c) \/ DejarCpu(c))
<1>1. hilo[c] \notin {"cierra", "desconocida"} /\ \A d \in Clientes : cliente[d] # "ido"
  BY DEF InvMemoria, InvHilos
<1>2. ~LlegaFin(c) /\ ~CerrarEnRecibir(c)
  BY <1>1 DEF LlegaFin, CerrarEnRecibir, InvTipos, TypeOK
<1>3. ~Desconocida(c)
  <2>1. \A op \in {MOV_IN, MOV_OUT, CARGA} : ~EnAdmitir(c, op)
    BY AtiendeAQuienEs
  <2> QED BY <1>1, <2>1, Zenon DEF Desconocida, EnAdmitir
<1>4. ~DejarCpu(c)
  <2>1. c \in en_atender =>
        \A op \in {NEW_CPU, NEW_SWAP, NEW_MEMORY_STICK, NEW_KERNEL_SCHEDULER, CARGA} :
            ~Llega(c, op)
    BY LeePeticion DEF NEW_CPU, NEW_SWAP, NEW_MEMORY_STICK, NEW_KERNEL_SCHEDULER,
                       CARGA, MOV_IN, MOV_OUT
  <2> QED BY <1>1, <2>1, Zenon DEF DejarCpu
<1> QED BY <1>2, <1>3, <1>4
\* A swap.
LEMMA MemoriaSwap ==
    ASSUME InvTipos, InvMemoria, NEW c \in Clientes,
           VerSwap(c) \/ PonerSwap(c) \/ RechazarSwap(c)
    PROVE  InvMemoria'
<1> USE DEF varsMemoria
<1>1. c \in Swaps /\ c \notin Cpus
  BY AtiendeAQuienEs, SupuestosMemoria
     DEF VerSwap, PonerSwap, RechazarSwap, InvMemoria, InvClases
<1>2. PICK p \in {"pone_swap", "rechaza_swap", "fin"} : Seguir(c, p)
  BY Zenon DEF VerSwap, PonerSwap, RechazarSwap, Seguir
<1>3. /\ hilo[c] \in {"recv", "pone_swap", "rechaza_swap"} /\ c \notin en_atender
      /\ UNCHANGED <<cliente, en_atender, pide, salida, instrucciones_proceso>>
      /\ \A d \in Clientes \ {c} : entrada'[d] = entrada[d]
  <2>1. /\ hilo[c] \in {"recv", "pone_swap", "rechaza_swap"} /\ c \notin en_atender
        /\ UNCHANGED <<cliente, en_atender, pide, salida, instrucciones_proceso>>
    BY <1>1 DEF VerSwap, PonerSwap, RechazarSwap, EnAdmitir, Llega, Tomar, InvMemoria,
                InvClases
  <2>2. VerSwap(c) => leyendo[c] = c
    BY LeeSaludo DEF VerSwap
  <2>3. \A d \in Clientes \ {c} : entrada'[d] = entrada[d]
    BY <2>2 DEF VerSwap, PonerSwap, RechazarSwap, Tomar, InvTipos, EntradaOK
  <2> QED BY <2>1, <2>3
<1>4. InvHilos'
  <2>1. CASE RechazarSwap(c)
    BY <2>1, HilosRechaza DEF InvMemoria
  <2>2. CASE VerSwap(c) \/ PonerSwap(c)
    BY <1>2, <1>3, <2>2, HilosSigue DEF InvMemoria, VerSwap, PonerSwap, Tomar
  <2> QED BY <2>1, <2>2
<1>5. InvClases'
  BY <1>1, <1>2, <1>3 DEF Seguir, InvMemoria, InvClases, InvTipos, TypeOK
<1>6. InvFlujos'
  BY <1>1, <1>2, <1>3, FlujosAtender
<1>7. InvSalida'
  BY <1>3 DEF InvMemoria, InvSalida
<1>8. InvPuntero'
  BY <1>1, PunteroVer, PunteroPoner, PunteroRechazar
<1> QED BY <1>4, <1>5, <1>6, <1>7, <1>8 DEF InvMemoria

\* A scheduler.
LEMMA MemoriaPlanificador ==
    ASSUME InvTipos, InvMemoria, NEW c \in Clientes, AtenderPlanificador(c)
    PROVE  InvMemoria'
<1>1. /\ c \in Planificadores /\ hilo[c] = "recv" /\ c \notin en_atender
      /\ leyendo[c] = c /\ conexion[socket[c]] = c
  BY AtiendeAQuienEs, LeeSaludo DEF AtenderPlanificador, EnAdmitir
<1>2. /\ Tomar(c, 2) /\ Seguir(c, "fin")
      /\ Responder(c, <<RESPUESTA_IMAGEN_PROCESO, "OK">>)
      /\ UNCHANGED <<cliente, conexion, socket, leyendo, en_atender, recurso_swap,
                     pide, instrucciones_proceso>>
  BY DEF AtenderPlanificador, Tomar
<1>3. /\ \A d \in Clientes \ {c} : entrada'[d] = entrada[d] /\ salida'[d] = salida[d]
      /\ InvSalida'
  <2>1. \A d \in Clientes \ {c} : entrada'[d] = entrada[d] /\ salida'[d] = salida[d]
    BY <1>1, <1>2 DEF Tomar, Responder, InvTipos, EntradaOK
  <2>2. InvSalida'
    BY <1>2 DEF Responder, InvMemoria, InvSalida
  <2> QED BY <2>1, <2>2
<1>4. c \notin Cpus /\ c \notin Swaps
  BY <1>1, SupuestosMemoria
<1>5. InvHilos'
  BY <1>1, <1>2, HilosSigue DEF InvMemoria
<1>6. InvClases'
  BY <1>1, <1>2, <1>4 DEF Seguir, InvMemoria, InvClases, InvTipos, TypeOK
<1>7. InvFlujos'
  BY <1>1, <1>2, <1>3, <1>4, FlujosAtender
<1>8. InvPuntero'
  BY <1>2, <1>4, PunteroQueda DEF Seguir, InvTipos, TypeOK
<1> QED BY <1>3, <1>5, <1>6, <1>7, <1>8 DEF InvMemoria

\* A stick.
LEMMA MemoriaStick ==
    ASSUME InvTipos, InvMemoria, NEW c \in Clientes, AtenderStick(c) \/ AgregarStick(c)
    PROVE  InvMemoria'
<1>1. /\ c \in Sticks /\ c \notin Cpus /\ c \notin Swaps
      /\ hilo[c] \in {"recv", "agrega_stick"} /\ c \notin en_atender /\ leyendo[c] = c
  <2>1. CASE AtenderStick(c)
    BY <2>1, AtiendeAQuienEs, LeeSaludo, SupuestosMemoria DEF AtenderStick, EnAdmitir
  <2>2. CASE AgregarStick(c)
    BY <2>2, SupuestosMemoria DEF AgregarStick, InvMemoria, InvHilos, InvClases, InvTipos
  <2> QED BY <2>1, <2>2
<1>2. PICK p \in {"agrega_stick", "fin"} : Seguir(c, p)
  BY DEF AtenderStick, AgregarStick
<1>3. UNCHANGED <<cliente, conexion, socket, leyendo, en_atender, recurso_swap,
                  pide, salida, instrucciones_proceso>>
  BY DEF AtenderStick, AgregarStick, Tomar
<1>4. \A d \in Clientes \ {c} : entrada'[d] = entrada[d] /\ salida'[d] = salida[d]
  BY <1>1, <1>3 DEF AtenderStick, AgregarStick, Tomar, InvTipos, EntradaOK
<1>5. InvHilos'
  BY <1>1, <1>2, <1>3, HilosSigue DEF InvMemoria
<1>6. InvClases'
  BY <1>1, <1>2, <1>3 DEF Seguir, InvMemoria, InvClases, InvTipos, TypeOK
<1>7. InvFlujos'
  BY <1>1, <1>2, <1>3, <1>4, FlujosAtender
<1>8. InvPuntero'
  BY <1>1, <1>2, <1>3, PunteroQueda DEF Seguir, InvTipos, TypeOK
<1>9. InvSalida'
  BY <1>3 DEF InvMemoria, InvSalida
<1> QED BY <1>5, <1>6, <1>7, <1>8, <1>9 DEF InvMemoria

\* A CPU: it is registered, and goes into atender_cpu.
LEMMA MemoriaCpu ==
    ASSUME InvTipos, InvMemoria, NEW c \in Clientes, AtenderNewCpu(c) \/ AgregarCpu(c)
    PROVE  InvMemoria'
<1>1. /\ c \in Cpus /\ c \notin Swaps
      /\ hilo[c] \in {"recv", "agrega_cpu"} /\ leyendo[c] = c
  <2>1. CASE AtenderNewCpu(c)
    BY <2>1, AtiendeAQuienEs, LeeSaludo, SupuestosMemoria DEF AtenderNewCpu
  <2>2. CASE AgregarCpu(c)
    BY <2>2, SupuestosMemoria DEF AgregarCpu, InvMemoria, InvHilos, InvClases
  <2> QED BY <2>1, <2>2
<1>2. PICK p \in {"agrega_cpu", "llama"} : Seguir(c, p)
  BY DEF AtenderNewCpu, AgregarCpu
<1>3. UNCHANGED <<cliente, conexion, socket, leyendo, recurso_swap,
                  pide, salida, instrucciones_proceso>>
  BY DEF AtenderNewCpu, AgregarCpu, Tomar
<1>4. InvHilos'
  BY <1>1, <1>2, <1>3, HilosSigue DEF InvMemoria
<1>5. InvClases'
  <2>1. CASE AtenderNewCpu(c)
    BY <1>1, <1>3, <2>1 DEF AtenderNewCpu, EnAdmitir, Seguir, InvMemoria, InvClases,
                            InvTipos, TypeOK
  <2>2. CASE AgregarCpu(c)
    BY <1>1, <1>3, <2>2 DEF AgregarCpu, Seguir, InvMemoria, InvClases, InvTipos, TypeOK
  <2> QED BY <2>1, <2>2
<1>6. InvFlujos'
  <2>1. CASE AtenderNewCpu(c)
    BY <2>1, FlujosNewCpu
  <2>2. CASE AgregarCpu(c)
    <3>1. \A d \in Clientes : PorSaludar(d)' <=> PorSaludar(d)
      BY <1>3, <2>2 DEF AgregarCpu, Seguir, PorSaludar, InvTipos, TypeOK
    <3> QED BY <1>3, <2>2, <3>1, FlujosQuedan DEF AgregarCpu, InvMemoria
  <2> QED BY <2>1, <2>2
<1>7. InvPuntero'
  BY <1>1, <1>2, <1>3, PunteroQueda DEF Seguir, InvTipos, TypeOK
<1>8. InvSalida'
  BY <1>3 DEF InvMemoria, InvSalida
<1> QED BY <1>4, <1>5, <1>6, <1>7, <1>8 DEF InvMemoria

\* An answer to a CPU.
LEMMA MemoriaResponde ==
    ASSUME InvTipos, InvMemoria, NEW c \in Clientes, AtenderMovIn(c) \/ AtenderMovOut(c)
    PROVE  InvMemoria'
<1>1. /\ c \in Cpus /\ c \notin Swaps /\ hilo[c] = "recv" /\ leyendo[c] = c
      /\ conexion[socket[c]] = c
  BY LeePeticion, SupuestosMemoria DEF AtenderMovIn, AtenderMovOut
<1>2. /\ Seguir(c, "llama")
      /\ UNCHANGED <<cliente, conexion, socket, leyendo, en_atender, recurso_swap,
                     pide, instrucciones_proceso>>
  BY DEF AtenderMovIn, AtenderMovOut, Tomar
<1>3. \E r \in {"OK", "EMPTY"} : Responder(c, <<RES_OK, r>>)
  <2>1. CASE AtenderMovOut(c)
    BY <2>1 DEF AtenderMovOut
  <2>2. CASE AtenderMovIn(c)
    <3>1. Len(instrucciones_proceso) = 0
      BY DEF InvMemoria, InvSalida
    <3>2. pide[leyendo[c]] \notin 0..(Len(instrucciones_proceso) - 1)
      BY <3>1
    <3> QED BY <2>2, <3>2, Zenon DEF AtenderMovIn
  <2> QED BY <2>1, <2>2
<1>4. InvSalida'
  BY <1>2, <1>3 DEF Responder, InvMemoria, InvSalida
<1>5. InvHilos'
  BY <1>1, <1>2, HilosSigue DEF InvMemoria
<1>6. InvClases'
  BY <1>1, <1>2 DEF Seguir, InvMemoria, InvClases, InvTipos, TypeOK
<1>7. InvPuntero'
  BY <1>1, <1>2, PunteroQueda DEF Seguir, InvTipos, TypeOK
<1> QED BY <1>4, <1>5, <1>6, <1>7, FlujosResponde DEF InvMemoria

\* The clients, none of which leaves.
LEMMA MemoriaEntorno ==
    ASSUME InvTipos, InvMemoria, Inestables = {}, Entorno
    PROVE  InvMemoria'
<1> USE DEF varsMemoria, varsServidor
<1>1. ASSUME NEW c \in Clientes, Entra(c) PROVE InvMemoria'
  <2>1. /\ cliente[c] = "fuera" /\ cliente' = [cliente EXCEPT ![c] = "dentro"]
        /\ UNCHANGED <<conexion, hilo, socket, leyendo, varsMemoria>>
    BY <1>1 DEF Entra, Conectar
  <2>2. InvHilos'
    BY <2>1 DEF InvMemoria, InvHilos, InvTipos, TypeOK
  <2>3. InvClases'
    BY <2>1, SupuestosMemoria DEF InvMemoria, InvClases, InvTipos, TypeOK
  <2>4. InvSalida' /\ InvPuntero'
    BY <2>1 DEF InvMemoria, InvSalida, InvPuntero
  <2> QED BY <1>1, <2>2, <2>3, <2>4, FlujosEntra DEF InvMemoria
<1>2. ASSUME NEW c \in Clientes, SeVa(c) PROVE FALSE
  BY <1>2 DEF SeVa, Desconectar
<1>3. ASSUME NEW c \in Cpus, Pide(c) \/ Recibe(c) PROVE InvMemoria'
  <2>1. /\ c \in Clientes /\ cliente[c] = "dentro"
        /\ \E x : pide' = [pide EXCEPT ![c] = x]
        /\ UNCHANGED <<cliente, conexion, hilo, socket, leyendo, en_atender,
                       recurso_swap, instrucciones_proceso>>
    BY <1>3, SupuestosMemoria DEF Pide, Recibe
  <2>2. InvHilos' /\ InvPuntero'
    BY <2>1 DEF InvMemoria, InvHilos, InvPuntero
  <2>3. InvClases'
    BY <2>1 DEF InvMemoria, InvClases, InvTipos, TypeOK
  <2>4. InvSalida'
    <3>1. CASE Pide(c)
      BY <2>1, <3>1 DEF Pide, InvMemoria, InvSalida
    <3>2. CASE Recibe(c)
      BY <2>1, <3>2 DEF Recibe, InvMemoria, InvSalida
    <3> QED BY <1>3, <3>1, <3>2
  <2> QED BY <1>3, <2>2, <2>3, <2>4, FlujosPide DEF InvMemoria
<1> QED BY <1>1, <1>2, <1>3 DEF Entorno

\* While nobody leaves, each thread reads from its own client and writes to it,
\* and the pointer to the swap is of one that is connected.
THEOREM InvarianteMemoria ==
    ASSUME Inestables = {}
    PROVE  Spec => [](InvTipos /\ InvMemoria)
<1>1. Init => InvMemoria
  <2> SUFFICES ASSUME Init PROVE InvMemoria
    OBVIOUS
  <2> USE SupuestosServidor DEF Init, InitServidor
  <2>1. InvHilos /\ InvClases /\ InvSalida /\ InvPuntero
    BY SupuestosMemoria DEF InvHilos, InvClases, InvSalida, InvPuntero
  <2>2. InvFlujos
    <3>1. \A c \in Clientes : ~PorSaludar(c)
      BY DEF PorSaludar
    <3>2. \A c \in Cpus : Flujo(c, <<>>)
      BY <3>1, SupuestosMemoria DEF Flujo
    <3> QED BY <3>1, <3>2 DEF InvFlujos
  <2> QED BY <2>1, <2>2 DEF InvMemoria
<1>2. InvTipos /\ InvMemoria /\ [Next]_vars => InvMemoria'
  <2> SUFFICES ASSUME InvTipos, InvMemoria, [Next]_vars PROVE InvMemoria'
    OBVIOUS
  <2>1. CASE UNCHANGED vars
    <3> USE <2>1 DEF vars, varsServidor, varsMemoria
    <3>1. \A d \in Clientes : PorSaludar(d)' <=> PorSaludar(d)
      BY DEF PorSaludar
    <3>2. InvFlujos'
      BY <3>1, FlujosQuedan DEF InvMemoria
    <3> QED BY <3>2 DEF InvMemoria, InvHilos, InvClases, InvSalida, InvPuntero
  <2>2. ASSUME NEW c \in Clientes, Admision(c) \/ Atencion(c) PROVE InvMemoria'
    BY <2>2, MemoriaAceptar, MemoriaLlamar, MemoriaNadieCierra, MemoriaSwap,
       MemoriaPlanificador, MemoriaStick, MemoriaCpu, MemoriaResponde DEF Atencion
  <2>3. CASE Entorno
    BY <2>3, MemoriaEntorno
  <2> QED BY <2>1, <2>2, <2>3 DEF Next
<1> QED BY <1>1, <1>2, InvarianteTipos, PTL DEF Spec

\* The thread of a CPU never ends.
THEOREM EscuchaCpuSiempre ==
    ASSUME Inestables = {}
    PROVE  Spec => []EscuchaCpu
<1>1. InvTipos /\ InvMemoria => EscuchaCpu
  BY SupuestosMemoria DEF InvMemoria, InvClases, EscuchaCpu
<1> QED BY <1>1, InvarianteMemoria, PTL

\* However the tests and the writes of recurso_swap interleave, the one that is
\* kept is connected.
THEOREM SwapConservadoSiempre ==
    ASSUME Inestables = {}
    PROVE  Spec => []SwapConservado
<1>1. InvTipos /\ InvMemoria => SwapConservado
  <2> SUFFICES ASSUME InvTipos, InvMemoria, NEW s \in Swaps, hilo[s] = "fin"
               PROVE  \E t \in Swaps : recurso_swap = t /\ \E f \in Fds : conexion[f] = t
    BY DEF SwapConservado
  <2>1. recurso_swap \in Swaps /\ conexion[socket[recurso_swap]] = recurso_swap
    BY DEF InvMemoria, InvPuntero
  <2>2. socket[recurso_swap] \in Fds
    BY <2>1, SupuestosMemoria DEF InvMemoria, InvPuntero, InvTipos, TypeOK
  <2> QED BY <2>1, <2>2
<1> QED BY <1>1, InvarianteMemoria, PTL

\* What a CPU waits for is its request, unread, or its answer.
THEOREM RespuestaPropiaSiempre ==
    ASSUME Inestables = {}
    PROVE  Spec => []RespuestaPropia
<1>1. InvTipos /\ InvMemoria => RespuestaPropia
  <2> SUFFICES ASSUME InvTipos, InvMemoria, NEW c \in Cpus
               PROVE  Cardinality(Pedidos(c)) + Len(salida[c]) =
                          IF pide[c] = NADA THEN 0 ELSE 1
    BY DEF RespuestaPropia
  <2>1. PICK r \in Peticiones \cup {<<>>} : Flujo(c, r)
    BY DEF InvMemoria, InvFlujos
  <2>2. /\ Saludo(c) = <<1, 60>>
        /\ entrada[c] \in {<<>> \o r, <<1, 60>> \o r}
        /\ r \in {<<10, 60>>, <<11, 60>>, <<>>}
    <3>1. Saludo(c) = <<1, 60>>
      <4>1. c \in Clientes
        BY SupuestosMemoria
      <4>2. Saludo(c) = <<NEW_CPU, CARGA>>
        BY <4>1, SaludoDe
      <4> QED BY <4>2 DEF NEW_CPU, CARGA
    <3>2. r \in {<<10, 60>>, <<11, 60>>, <<>>}
      BY DEF Peticiones, CARGA, MOV_IN, MOV_OUT
    <3> QED BY <2>1, <3>1, <3>2 DEF Flujo
  <2>3. CASE r = <<>>
    <3>1. entrada[c] = <<>> \/ entrada[c] = <<1, 60>>
      BY <2>2, <2>3
    <3>2. Pedidos(c) = {}
      BY <3>1 DEF Pedidos, MOV_IN, MOV_OUT
    <3>3. Cardinality(Pedidos(c)) = 0
      BY <3>2, FS_EmptySet
    <3>4. Len(salida[c]) = IF pide[c] = NADA THEN 0 ELSE 1
      BY <2>1, <2>3 DEF Flujo
    <3> QED BY <3>3, <3>4
  <2>4. CASE r # <<>>
    <3>1. PICK x \in {10, 11} : r = <<x, 60>>
      BY <2>2, <2>4
    <3>2. entrada[c] = <<x, 60>> \/ entrada[c] = <<1, 60, x, 60>>
      <4>1. <<>> \o <<x, 60>> = <<x, 60>>
        OBVIOUS
      <4>2. <<1, 60>> \o <<x, 60>> = <<1, 60, x, 60>>
        <5> DEFINE a == <<1, 60>>
                   b == <<x, 60>>
                   t == <<1, 60, x, 60>>
        <5>1. /\ a \in Seq(Nat) /\ Len(a) = 2 /\ a[1] = 1 /\ a[2] = 60
              /\ b \in Seq(Nat) /\ Len(b) = 2 /\ b[1] = x /\ b[2] = 60
              /\ t \in Seq(Nat) /\ Len(t) = 4 /\ t[1] = 1 /\ t[2] = 60 /\ t[3] = x /\ t[4] = 60
          OBVIOUS
        <5> HIDE DEF a, b, t
        <5>2. /\ a \o b \in Seq(Nat) /\ Len(a \o b) = 4
              /\ \A i \in 1..4 : (a \o b)[i] = IF i <= 2 THEN a[i] ELSE b[i - 2]
          <6>1. /\ a \o b \in Seq(Nat) /\ Len(a \o b) = Len(a) + Len(b)
                /\ \A i \in 1..(Len(a) + Len(b)) :
                      (a \o b)[i] = IF i <= Len(a) THEN a[i] ELSE b[i - Len(a)]
            <7>1. a \in Seq(Nat) /\ b \in Seq(Nat)
              BY <5>1
            <7> QED BY <7>1, ConcatProperties
          <6>2. Len(a) = 2 /\ Len(b) = 2
            BY <5>1
          <6> QED BY <6>1, <6>2
        <5>3. \A i \in 1..4 : (a \o b)[i] = t[i]
          BY <5>1, <5>2
        <5>4. a \o b = t
          BY <5>1, <5>2, <5>3, SeqEqual
        <5> QED BY <5>4 DEF a, b, t
      <4> QED BY <2>2, <3>1, <4>1, <4>2
    <3>3. Pedidos(c) = {1} \/ Pedidos(c) = {3}
      BY <3>2 DEF Pedidos, MOV_IN, MOV_OUT
    <3>4. Cardinality(Pedidos(c)) = 1
      BY <3>3, FS_Singleton
    <3> QED BY <2>1, <2>4, <3>4 DEF Flujo
  <2> QED BY <2>3, <2>4
<1> QED BY <1>1, InvarianteMemoria, PTL
=============================================================================
