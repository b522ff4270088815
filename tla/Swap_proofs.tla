------------------------------ MODULE Swap_proofs ------------------------------
(***************************************************************************)
(* Proofs about Swap: the types and the file for any number of swaps, and  *)
(* the implementation of Bloques by one swap, for any number of blocks,    *)
(* any contents and any number of deaths.                                  *)
(***************************************************************************)
EXTENDS PropiedadesSwap, TLAPS

-----------------------------------------------------------------------------
(* Any number of swaps: what each process is doing *)

\* What a request has, according to its operation.
LEMMA FormaPedido ==
    ASSUME NEW x \in Pedidos
    PROVE  /\ x.numero \in Numeros
           /\ x.op \in {"leer", "escribir"}
           /\ x.op = "escribir" => x.contenido \in Contenidos
BY DEF Pedidos

\* A step that replaces the record of one process.
LEMMA Cambia ==
    ASSUME InvProcesos, NEW p \in Procesos, NEW r \in Registros, Coherente(r),
           swap' = [swap EXCEPT ![p] = r]
    PROVE  /\ InvProcesos'
           /\ swap'[p] = r
           /\ \A q \in Procesos \ {p} : swap'[q] = swap[q]
<1>1. /\ swap' \in [Procesos -> Registros]
      /\ swap'[p] = r
      /\ \A q \in Procesos \ {p} : swap'[q] = swap[q]
  BY DEF InvProcesos
<1>2. \A q \in Procesos : Coherente(swap'[q])
  BY <1>1, Zenon DEF InvProcesos
<1> QED BY <1>1, <1>2 DEF InvProcesos

\* The record that a death leaves: only an answer that had been sent.
LEMMA MorirProcesos ==
    ASSUME InvProcesos, NEW p \in Procesos, Morir(p)
    PROVE  /\ InvProcesos'
           /\ swap'[p] = [Apagado EXCEPT !.salida = swap[p].salida]
           /\ \A q \in Procesos \ {p} : swap'[q] = swap[q]
<1> DEFINE r == [Apagado EXCEPT !.salida = swap[p].salida]
<1>1. swap[p].salida \in Respuestas \cup {Ninguno}
  BY DEF InvProcesos, Registros
<1>2. r = [punto |-> "apagado", actual |-> Ninguno, leido |-> CERO,
           conexion |-> "sin", flujo |-> Ninguno, salida |-> swap[p].salida]
  BY DEF Apagado
<1>3. r \in Registros /\ Coherente(r)
  BY <1>1, <1>2 DEF Registros, Basura, Puntos, Coherente, Sirviendo
<1>4. swap' = [swap EXCEPT ![p] = r]
  BY DEF Morir
<1> HIDE DEF r
<1>5. /\ InvProcesos' /\ swap'[p] = r
      /\ \A q \in Procesos \ {p} : swap'[q] = swap[q]
  BY <1>3, <1>4, Cambia
<1> QED BY <1>5 DEF r

\* Every step of the process keeps its record coherent.
LEMMA ProcesoProcesos ==
    ASSUME InvProcesos, InvArchivo, NEW p \in Procesos, Proceso(p) \/ Arrancar(p)
    PROVE  InvProcesos'
<1> DEFINE s == swap[p]
<1>1. s \in Registros /\ Coherente(s)
  BY DEF InvProcesos
<1> HIDE DEF s
<1>2. ASSUME NEW punto \in Puntos,
             s.punto \notin {"escribir", "vuelca", "leer", "responde"},
             punto \notin {"escribir", "vuelca", "leer", "responde"},
             swap' = [swap EXCEPT ![p].punto = punto]
      PROVE  InvProcesos'
  <2> DEFINE r == [s EXCEPT !.punto = punto]
  <2>1. r \in Registros /\ Coherente(r)
    BY <1>1, <1>2 DEF Registros, Coherente, Sirviendo
  <2>2. swap' = [swap EXCEPT ![p] = r]
    BY <1>2, Zenon DEF s
  <2> HIDE DEF r
  <2> QED BY <2>1, <2>2, Cambia
<1>3. CASE Abrir(p) \/ Girar(p)
  BY <1>2, <1>3 DEF Abrir, Girar, Ir, En, Puntos, s
<1>4. CASE Crear(p) \/ Truncar(p)
  <2>1. CASE Morir(p)
    BY <2>1, MorirProcesos
  <2>2. CASE ~Morir(p)
    BY <1>2, <1>4, <2>2 DEF Crear, Truncar, Ir, En, Puntos, s
  <2> QED BY <2>1, <2>2
<1>5. CASE Arrancar(p)
  <2> DEFINE r == [s EXCEPT !.punto = "abre", !.conexion = "saluda"]
  <2>1. s.punto = "apagado"
    BY <1>5 DEF Arrancar, En, s
  <2>2. r \in Registros /\ Coherente(r)
    <3>1. r \in Registros
      BY <1>1 DEF Registros, Puntos
    <3>2. /\ r.punto = "abre" /\ r.actual = s.actual /\ r.leido = s.leido
          /\ r.flujo = s.flujo /\ r.salida = s.salida
      BY <1>1 DEF Registros
    <3> HIDE DEF r
    <3> QED BY <1>1, <2>1, <3>1, <3>2 DEF Coherente, Sirviendo
  <2>3. swap' = [swap EXCEPT ![p] = r]
    BY <1>5 DEF Arrancar, s, InvProcesos
  <2> HIDE DEF r
  <2> QED BY <2>2, <2>3, Cambia
<1>6. CASE Recibir(p)
  <2> DEFINE r == [s EXCEPT !.actual = s.flujo, !.flujo = Ninguno,
                            !.punto = s.flujo.op]
  <2>1. s.punto = "lazo" /\ s.flujo # Ninguno /\ s.flujo \in Pedidos
    BY <1>1, <1>6 DEF Recibir, En, s, Registros
  <2>2. s.flujo.op \in {"leer", "escribir"}
    BY <2>1, FormaPedido
  <2>3. r \in Registros /\ Coherente(r)
    BY <1>1, <2>1, <2>2 DEF Registros, Coherente, Sirviendo, Puntos
  <2>4. swap' = [swap EXCEPT ![p] = r]
    BY <1>6 DEF Recibir, s, InvProcesos
  <2> HIDE DEF r
  <2> QED BY <2>3, <2>4, Cambia
<1>7. CASE Fwrite(p) \/ Fflush(p)
  <2>1. PICK punto \in {"vuelca", "responde"} :
           swap' = [swap EXCEPT ![p].punto = punto]
    BY <1>7, Zenon DEF Fwrite, Fflush, Ir
  <2> DEFINE r == [s EXCEPT !.punto = punto]
  <2>2. s.punto \in {"escribir", "vuelca"}
    BY <1>7 DEF Fwrite, Fflush, En, s
  <2>3. r \in Registros /\ Coherente(r)
    BY <1>1, <2>1, <2>2 DEF Registros, Coherente, Sirviendo, Puntos
  <2>4. swap' = [swap EXCEPT ![p] = r]
    BY <2>1, Zenon DEF s
  <2> HIDE DEF r
  <2> QED BY <2>3, <2>4, Cambia
<1>8. CASE Fread(p)
  <2>1. PICK v \in IF s.actual.numero < tam THEN {archivo[s.actual.numero]}
                   ELSE Basura :
           swap' = [swap EXCEPT ![p].leido = v, ![p].punto = "responde"]
    BY <1>8, Zenon DEF Fread, s
  <2>2. s.punto = "leer" /\ s.actual \in Pedidos
    BY <1>1, <1>8 DEF Fread, En, s, Registros, Coherente, Sirviendo
  <2>3. v \in Basura
    BY <2>1, <2>2, FormaPedido DEF InvArchivo
  <2> DEFINE r == [s EXCEPT !.leido = v, !.punto = "responde"]
  <2>4. r \in Registros /\ Coherente(r)
    BY <1>1, <2>2, <2>3 DEF Registros, Coherente, Sirviendo, Puntos
  <2>5. swap' = [swap EXCEPT ![p] = r]
    BY <2>1 DEF s, InvProcesos
  <2> HIDE DEF r
  <2> QED BY <2>4, <2>5, Cambia
<1>9. CASE Responder(p)
  <2>1. CASE Morir(p)
    BY <2>1, MorirProcesos
  <2>2. CASE ~Morir(p)
    <3> DEFINE sal == IF s.conexion # "aceptada" THEN s.salida
                      ELSE [op |-> s.actual.op, dato |-> s.leido]
               r == [s EXCEPT !.actual = Ninguno, !.leido = CERO,
                              !.punto = "lazo", !.salida = sal]
    <3>1. s.punto = "responde" /\ s.actual # Ninguno /\ s.actual \in Pedidos
      BY <1>1, <1>9 DEF Responder, En, s, Registros, Coherente, Sirviendo
    <3>2. sal \in Respuestas \cup {Ninguno}
      BY <1>1, <3>1, FormaPedido DEF Registros, Respuestas
    <3>3. s.flujo = Ninguno
      BY <1>1, <3>1 DEF Coherente
    <3>4. swap' = [swap EXCEPT ![p] = r]
      <4>1. swap' = [swap EXCEPT ![p].actual = Ninguno, ![p].leido = CERO,
                                 ![p].punto = "lazo", ![p].salida = sal]
        BY <1>9, <2>2, Zenon DEF Responder, s
      <4> HIDE DEF sal
      <4> QED BY <4>1 DEF s, InvProcesos
    <3> HIDE DEF sal
    <3>5. r \in Registros /\ Coherente(r)
      <4>1. r \in Registros
        BY <1>1, <3>2 DEF Registros, Puntos, Basura
      <4>2. /\ r.punto = "lazo" /\ r.actual = Ninguno /\ r.leido = CERO
            /\ r.flujo = Ninguno
        BY <1>1, <3>3 DEF Registros
      <4> HIDE DEF r
      <4> QED BY <4>1, <4>2 DEF Coherente, Sirviendo
    <3> HIDE DEF r
    <3> QED BY <3>4, <3>5, Cambia
  <2> QED BY <2>1, <2>2
<1> QED BY <1>3, <1>4, <1>5, <1>6, <1>7, <1>8, <1>9 DEF Proceso

\* What the death of Kernel Memory does to each process.
LEMMA CaidaKm ==
    ASSUME InvProcesos, CaerKm, NEW p \in Procesos
    PROVE  \E x \in {swap[p].flujo, Ninguno} :
              swap'[p] = [punto |-> swap[p].punto, actual |-> swap[p].actual,
                          leido |-> swap[p].leido,
                          conexion |-> IF swap[p].conexion = "sin" THEN "sin"
                                       ELSE "cerrada",
                          flujo |-> x, salida |-> Ninguno]
<1> DEFINE Queda(s, llega) ==
        [s EXCEPT !.conexion = IF @ = "sin" THEN "sin" ELSE "cerrada",
                  !.flujo = IF llega THEN @ ELSE Ninguno,
                  !.salida = Ninguno]
<1>1. PICK llegan \in SUBSET Procesos :
         swap' = [q \in Procesos |-> Queda(swap[q], q \in llegan)]
  BY Zenon DEF CaerKm
<1>2. swap[p] \in Registros
  BY DEF InvProcesos
<1>3. swap'[p] = Queda(swap[p], p \in llegan)
  BY <1>1
<1> QED BY <1>2, <1>3 DEF Registros

\* So does every step of Kernel Memory, its death included.
LEMMA MemoriaProcesos ==
    ASSUME InvProcesos, Memoria
    PROVE  InvProcesos'
<1>1. ASSUME NEW p \in Procesos, Admitir(p) \/ Pedir(p) \/ Llega(p)
      PROVE  InvProcesos'
  <2> DEFINE s == swap[p]
  <2>1. s \in Registros /\ Coherente(s)
    BY DEF InvProcesos
  <2> HIDE DEF s
  <2>2. CASE Admitir(p)
    <3>1. PICK c \in {"cerrada", "aceptada"} :
             swap' = [swap EXCEPT ![p].conexion = c]
      BY <2>2, Zenon DEF Admitir
    <3> DEFINE r == [s EXCEPT !.conexion = c]
    <3>2. r \in Registros /\ Coherente(r)
      BY <2>1 DEF Registros, Coherente
    <3>3. swap' = [swap EXCEPT ![p] = r]
      BY <3>1, Zenon DEF s
    <3> HIDE DEF r
    <3> QED BY <3>2, <3>3, Cambia
  <2>3. CASE Pedir(p)
    <3>1. PICK pedido \in Pedidos : swap' = [swap EXCEPT ![p].flujo = pedido]
      BY <2>3, Zenon DEF Pedir
    <3>2. s.actual = Ninguno /\ s.salida = Ninguno
      BY <2>3 DEF Pedir, s
    <3> DEFINE r == [s EXCEPT !.flujo = pedido]
    <3>3. r \in Registros
      BY <2>1, <3>1 DEF Registros
    <3>4. /\ r.actual = Ninguno /\ r.salida = Ninguno
          /\ r.punto = s.punto /\ r.leido = s.leido
      BY <2>1, <3>2 DEF Registros
    <3>5. swap' = [swap EXCEPT ![p] = r]
      BY <3>1, Zenon DEF s
    <3> HIDE DEF r
    <3>6. Coherente(r)
      BY <2>1, <3>2, <3>4 DEF Coherente
    <3> QED BY <3>3, <3>5, <3>6, Cambia
  <2>4. CASE Llega(p)
    <3> DEFINE r == [s EXCEPT !.salida = Ninguno]
    <3>1. r \in Registros /\ Coherente(r)
      BY <2>1 DEF Registros, Coherente
    <3>2. swap' = [swap EXCEPT ![p] = r]
      BY <2>4, Zenon DEF Llega, s
    <3> HIDE DEF r
    <3> QED BY <3>1, <3>2, Cambia
  <2> QED BY <1>1, <2>2, <2>3, <2>4
<1>2. CASE AdmitirHuerfano \/ ArrancarKm
  BY <1>2 DEF AdmitirHuerfano, ArrancarKm, InvProcesos
<1>3. CASE CaerKm
  <2>2. ASSUME NEW p \in Procesos
        PROVE  swap'[p] \in Registros /\ Coherente(swap'[p])
    <3>1. swap[p] \in Registros /\ Coherente(swap[p])
      BY DEF InvProcesos
    <3>2. PICK x \in {swap[p].flujo, Ninguno} :
             swap'[p] = [punto |-> swap[p].punto, actual |-> swap[p].actual,
                         leido |-> swap[p].leido,
                         conexion |-> IF swap[p].conexion = "sin" THEN "sin"
                                      ELSE "cerrada",
                         flujo |-> x, salida |-> Ninguno]
      BY <1>3, CaidaKm
    <3>3. swap'[p] \in Registros
      BY <3>1, <3>2 DEF Registros
    <3>4. Coherente(swap'[p])
      BY <3>1, <3>2 DEF Coherente
    <3> QED BY <3>3, <3>4
  <2>3. swap' \in [Procesos -> Registros]
    BY <1>3, <2>2 DEF CaerKm
  <2> QED BY <2>2, <2>3 DEF InvProcesos
<1> QED BY <1>1, <1>2, <1>3 DEF Memoria

-----------------------------------------------------------------------------
(* Any number of swaps: the file *)

\* A step that does not write the file, and after which nobody is past opening
\* it that was not, or the file exists.
LEMMA ArchivoResto ==
    ASSUME InvArchivo, UNCHANGED varsArchivo,
           \A q \in Procesos : \/ swap'[q].punto \in Abriendo
                               \/ swap[q].punto \notin Abriendo
                               \/ existe
    PROVE  InvArchivo'
BY DEF InvArchivo, varsArchivo, Abriendo

\* A death leaves the process where it was before opening.
LEMMA ArchivoMorir ==
    ASSUME InvProcesos, NEW p \in Procesos, Morir(p)
    PROVE  \A q \in Procesos : \/ swap'[q].punto \in Abriendo
                               \/ swap'[q] = swap[q]
<1>1. swap'[p].punto = "apagado"
  BY MorirProcesos DEF Apagado
<1> QED BY <1>1, MorirProcesos DEF Abriendo

LEMMA ProcesoArchivo ==
    ASSUME InvProcesos, InvArchivo, NEW p \in Procesos, Proceso(p) \/ Arrancar(p)
    PROVE  InvArchivo'
<1> DEFINE s == swap[p]
<1>1. /\ swap \in [Procesos -> Registros]
      /\ s \in Registros /\ Coherente(s)
  BY DEF InvProcesos
<1>2. ASSUME NEW q \in Procesos, q # p, ~Morir(p)
      PROVE  swap'[q] = swap[q]
  BY <1>1, <1>2
     DEF Proceso, Abrir, Crear, Truncar, Recibir, Girar, Fwrite, Fflush, Fread,
         Responder, Arrancar, Ir
<1>3. CASE Abrir(p) \/ Arrancar(p)
  <2>1. UNCHANGED varsArchivo
    BY <1>3 DEF Abrir, Arrancar
  <2>2. swap'[p].punto \in Abriendo \/ existe
    BY <1>1, <1>3 DEF Abrir, Arrancar, Ir, Registros, Abriendo
  <2>3. CASE Morir(p)
    BY <2>1, <2>3, ArchivoMorir, ArchivoResto
  <2> QED BY <1>2, <2>1, <2>2, <2>3, ArchivoResto
<1>4. CASE Morir(p) /\ UNCHANGED varsArchivo
  BY <1>4, ArchivoMorir, ArchivoResto
<1>5. CASE Crear(p)
  <2>1. CASE existe' = TRUE /\ tam' = 0 /\ archivo' = [n \in Numeros |-> CERO]
    BY <2>1, SupuestosSwap DEF InvArchivo, Basura
  <2>2. CASE UNCHANGED varsArchivo /\ Morir(p)
    BY <1>4, <2>2
  <2> QED BY <1>5, <2>1, <2>2 DEF Crear
<1>6. CASE Truncar(p)
  <2>1. existe
    BY <1>6 DEF Truncar, En, InvArchivo, Abriendo
  <2>2. CASE tam' = BLOQUES
    <3>1. /\ \A n \in Numeros : ~(n >= BLOQUES)
          /\ BLOQUES \in 0..BLOQUES
      BY SupuestosSwap DEF Numeros
    <3> QED BY <1>6, <2>1, <2>2, <3>1 DEF Truncar, InvArchivo
  <2>3. CASE tam' = tam /\ Morir(p)
    BY <1>4, <1>6, <2>3 DEF Truncar, varsArchivo
  <2> QED BY <1>6, <2>2, <2>3 DEF Truncar
<1>7. CASE Fflush(p)
  <2> DEFINE n == swap[p].actual.numero
             v == swap[p].actual.contenido
  <2>1. n \in Numeros /\ v \in Contenidos
    <3>1. swap[p].actual \in Pedidos /\ swap[p].actual.op = "escribir"
      BY <1>1, <1>7 DEF Fflush, En, Registros, Coherente, Sirviendo
    <3> QED BY <3>1, FormaPedido
  <2>2. /\ archivo' = [archivo EXCEPT ![n] = v]
        /\ tam' = IF n < tam THEN tam ELSE n + 1
        /\ existe' = existe
    BY <1>7, Zenon DEF Fflush
  <2> HIDE DEF n, v
  <2>3. existe
    BY <1>7 DEF Fflush, En, InvArchivo, Abriendo
  <2>4. archivo' \in [Numeros -> Basura]
    BY <2>1, <2>2 DEF InvArchivo, Basura
  <2>5. tam' \in 0..BLOQUES /\ tam' >= tam /\ n < tam'
    BY <2>1, <2>2, SupuestosSwap DEF InvArchivo, Numeros
  <2>6. \A m \in Numeros : m >= tam' => archivo'[m] = CERO
    <3>1. \A m \in Numeros : m >= tam' => m # n /\ m >= tam
      BY <2>1, <2>5 DEF InvArchivo, Numeros
    <3> QED BY <2>2, <3>1 DEF InvArchivo
  <2> QED BY <2>2, <2>3, <2>4, <2>5, <2>6 DEF InvArchivo
<1>8. CASE Recibir(p) \/ Girar(p) \/ Fwrite(p) \/ Fread(p) \/ Responder(p)
  <2>1. UNCHANGED varsArchivo /\ swap[p].punto \notin Abriendo
    BY <1>8 DEF Recibir, Girar, Fwrite, Fread, Responder, En, Abriendo
  <2>2. CASE Morir(p)
    BY <1>4, <2>1, <2>2
  <2> QED BY <1>2, <2>1, <2>2, ArchivoResto
<1> QED BY <1>3, <1>5, <1>6, <1>7, <1>8 DEF Proceso

\* Kernel Memory has nothing to do with the file.
LEMMA MemoriaArchivo ==
    ASSUME InvProcesos, InvArchivo, Memoria
    PROVE  InvArchivo'
<1>1. UNCHANGED varsArchivo
  BY DEF Memoria, Admitir, Pedir, Llega, AdmitirHuerfano, CaerKm, ArrancarKm
<1>2. ASSUME NEW q \in Procesos PROVE swap'[q].punto = swap[q].punto
  <2>1. swap \in [Procesos -> Registros] /\ swap[q] \in Registros
    BY DEF InvProcesos
  <2>2. CASE CaerKm
    <3>1. PICK x : swap'[q] = [punto |-> swap[q].punto, actual |-> swap[q].actual,
                               leido |-> swap[q].leido,
                               conexion |-> IF swap[q].conexion = "sin" THEN "sin"
                                            ELSE "cerrada",
                               flujo |-> x, salida |-> Ninguno]
      BY <2>2, CaidaKm
    <3> QED BY <3>1
  <2>3. CASE AdmitirHuerfano \/ ArrancarKm
    BY <2>3 DEF AdmitirHuerfano, ArrancarKm
  <2>4. ASSUME NEW p \in Procesos, Admitir(p) \/ Pedir(p) \/ Llega(p)
        PROVE  swap'[q].punto = swap[q].punto
    <3>1. CASE Admitir(p)
      BY <2>1, <3>1 DEF Admitir, Registros
    <3>2. CASE Pedir(p)
      BY <2>1, <3>2 DEF Pedir, Registros
    <3>3. CASE Llega(p)
      BY <2>1, <3>3 DEF Llega, Registros
    <3> QED BY <2>4, <3>1, <3>2, <3>3
  <2> QED BY <2>2, <2>3, <2>4 DEF Memoria
<1> QED BY <1>1, <1>2, ArchivoResto

-----------------------------------------------------------------------------
(* The invariant *)

LEMMA InvInit == Init => InvSwap
<1> SUFFICES ASSUME Init PROVE InvSwap
  OBVIOUS
<1>1. Apagado \in Registros /\ Coherente(Apagado)
  BY DEF Apagado, Registros, Coherente, Sirviendo, Puntos, Basura
<1>2. InvProcesos
  BY <1>1 DEF Init, InvProcesos
<1>3. \A p \in Procesos : swap[p].punto = "apagado"
  BY DEF Init, Apagado
<1>4. InvArchivo
  <2>1. /\ existe = FALSE /\ tam = 0 /\ 0 \in 0..BLOQUES
        /\ archivo = [n \in Numeros |-> CERO]
    BY SupuestosSwap DEF Init
  <2> QED BY <1>3, <2>1 DEF InvArchivo, Basura, Abriendo
<1> QED BY <1>2, <1>4 DEF InvSwap

LEMMA InvPaso ==
    ASSUME InvSwap, [Next]_vars
    PROVE  InvSwap'
<1>1. InvProcesos /\ InvArchivo
  BY DEF InvSwap
<1>2. ASSUME NEW p \in Procesos, Proceso(p) \/ Arrancar(p) PROVE InvSwap'
  BY <1>1, <1>2, ProcesoProcesos, ProcesoArchivo DEF InvSwap
<1>3. ASSUME NEW p \in Procesos, Caer(p) PROVE InvSwap'
  <2>1. Morir(p) /\ UNCHANGED varsArchivo
    BY <1>3 DEF Caer
  <2> QED BY <1>1, <2>1, MorirProcesos, ArchivoMorir, ArchivoResto DEF InvSwap
<1>4. CASE Memoria
  BY <1>1, <1>4, MemoriaProcesos, MemoriaArchivo DEF InvSwap
<1>5. CASE UNCHANGED vars
  BY <1>1, <1>5 DEF vars, varsArchivo, InvSwap, InvProcesos, InvArchivo
<1> QED BY <1>2, <1>3, <1>4, <1>5 DEF Next

\* However many swaps share the file, a process serves a request of the kind its
\* point is for, and the file is never longer than it should be nor holds
\* anything beyond its end (main.c:28-115).
THEOREM InvarianteSwap == Spec => []InvSwap
BY InvInit, InvPaso, PTL DEF Spec

\* The state has its type, and the places of a request exclude each other.
THEOREM TipoCorrecto == Spec => []TypeOK
<1>1. ASSUME InvSwap PROVE TypeOK
  <2>1. /\ existe \in BOOLEAN /\ tam \in 0..BLOQUES
        /\ archivo \in [Numeros -> Basura]
    BY <1>1 DEF InvSwap, InvArchivo
  <2>2. ASSUME NEW p \in Procesos
        PROVE  swap[p] \in Registros /\ Coherente(swap[p])
    BY <1>1 DEF InvSwap, InvProcesos
  <2> QED BY <2>1, <2>2 DEF TypeOK, Registros, Coherente, Puntos, Sirviendo
<1> QED BY <1>1, InvarianteSwap, PTL

-----------------------------------------------------------------------------
(* One swap implements Bloques: a block takes the value when fflush returns, *)
(* a request is done between that, or fread, and the answer.                 *)

\* With one swap the mapping is about it, and the file is the store.
LEMMA Vista ==
    ASSUME NEW p, Procesos = {p}, InvSwap
    PROVE  /\ Unico = swap[p] /\ Guardado = archivo
           /\ swap[p] \in Registros /\ Coherente(swap[p])
<1>1. (CHOOSE q \in Procesos : TRUE) = p
  OBVIOUS
<1>2. Guardado = archivo
  BY DEF Guardado, InvSwap, InvArchivo, Numeros
<1> QED BY <1>1, <1>2 DEF Unico, InvSwap, InvProcesos

\* The same of the state after a step.
LEMMA VistaDespues ==
    ASSUME NEW p, Procesos = {p}, InvSwap'
    PROVE  Unico' = swap'[p] /\ Guardado' = archivo'
<1>1. (CHOOSE q \in Procesos : TRUE) = p
  OBVIOUS
<1>2. Guardado' = archivo'
  BY DEF Guardado, InvSwap, InvArchivo, Numeros
<1> QED BY <1>1, <1>2 DEF Unico

\* Nobody else creates the file that a swap has not found.
LEMMA CreaSoloPaso ==
    ASSUME NEW p, Procesos = {p}, InvSwap, CreaSolo, [Next]_vars
    PROVE  CreaSolo'
<1> DEFINE s == swap[p]
<1>1. /\ swap \in [Procesos -> Registros] /\ s \in Registros /\ p \in Procesos
      /\ s.punto = "crea" => ~existe
  BY DEF InvSwap, InvProcesos, CreaSolo
<1>2. SUFFICES swap'[p].punto = "crea" => ~existe'
  BY DEF CreaSolo
<1>3. CASE Morir(p)
  BY <1>3, MorirProcesos DEF InvSwap, Apagado
<1>4. CASE Abrir(p)
  BY <1>1, <1>4 DEF Abrir, Ir, Registros, varsArchivo
<1>5. CASE (Crear(p) \/ Truncar(p) \/ Responder(p)) /\ ~Morir(p)
  BY <1>1, <1>5 DEF Crear, Truncar, Responder, Ir, Registros
<1>6. CASE Recibir(p)
  <2>1. s.flujo \in Pedidos /\ swap'[p].punto = s.flujo.op
    BY <1>1, <1>6 DEF Recibir, Registros
  <2> QED BY <2>1, FormaPedido
<1>7. CASE Girar(p) \/ Fwrite(p) \/ Fflush(p) \/ Fread(p) \/ Arrancar(p)
  BY <1>1, <1>7 DEF Girar, Fwrite, Fflush, Fread, Arrancar, Ir, Registros
<1>8. CASE Caer(p)
  BY <1>3, <1>8 DEF Caer
<1>9. CASE Memoria
  <2>1. existe' = existe
    BY <1>9 DEF Memoria, Admitir, Pedir, Llega, AdmitirHuerfano, CaerKm,
                ArrancarKm, varsArchivo
  <2>2. swap'[p].punto = s.punto
    <3>1. CASE CaerKm
      <4>1. PICK x : swap'[p] = [punto |-> s.punto, actual |-> s.actual,
                                 leido |-> s.leido,
                                 conexion |-> IF s.conexion = "sin" THEN "sin"
                                              ELSE "cerrada",
                                 flujo |-> x, salida |-> Ninguno]
        BY <1>1, <3>1, CaidaKm DEF InvSwap
      <4> QED BY <4>1
    <3>2. CASE AdmitirHuerfano \/ ArrancarKm
      BY <3>2 DEF AdmitirHuerfano, ArrancarKm
    <3>3. CASE Admitir(p) \/ Pedir(p) \/ Llega(p)
      BY <1>1, <3>3 DEF Admitir, Pedir, Llega, Registros
    <3> QED BY <1>9, <3>1, <3>2, <3>3 DEF Memoria
  <2> QED BY <1>1, <2>1, <2>2
<1>10. CASE UNCHANGED vars
  BY <1>1, <1>10 DEF vars, varsArchivo
<1> QED BY <1>3, <1>4, <1>5, <1>6, <1>7, <1>8, <1>9, <1>10 DEF Next, Proceso

\* What does not touch the request, its effect or its answer.
LEMMA AlmacenResto ==
    ASSUME NEW p, Procesos = {p}, InvSwap, InvSwap', archivo' = archivo,
           swap'[p].flujo = swap[p].flujo, swap'[p].actual = swap[p].actual,
           swap'[p].leido = swap[p].leido, swap'[p].salida = swap[p].salida,
           swap[p].punto # "responde", swap'[p].punto # "responde"
    PROVE  UNCHANGED Almacen!vars
<1>1. /\ Unico = swap[p] /\ Guardado = archivo
      /\ Unico' = swap'[p] /\ Guardado' = archivo'
  BY Vista, VistaDespues
<1> QED BY <1>1 DEF Almacen!vars, Pendiente

\* A death: the request is lost, unless it had been answered.
LEMMA AlmacenMorir ==
    ASSUME NEW p, Procesos = {p}, InvSwap, InvSwap', Morir(p), archivo' = archivo
    PROVE  Almacen!SePierde \/ UNCHANGED Almacen!vars
<1> DEFINE s == swap[p]
<1>1. /\ Unico = s /\ Guardado = archivo /\ s \in Registros /\ Coherente(s)
      /\ Unico' = swap'[p] /\ Guardado' = archivo'
  BY Vista, VistaDespues
<1>2. /\ swap'[p].punto = "apagado" /\ swap'[p].actual = Ninguno
      /\ swap'[p].leido = CERO /\ swap'[p].flujo = Ninguno
      /\ swap'[p].salida = s.salida
  <2>1. swap'[p] = [Apagado EXCEPT !.salida = s.salida]
    BY MorirProcesos DEF InvSwap
  <2> QED BY <2>1 DEF Apagado
<1>3. CASE s.salida = Ninguno
  BY <1>1, <1>2, <1>3 DEF Almacen!SePierde, Pendiente
<1>4. CASE s.salida # Ninguno
  <2>1. s.flujo = Ninguno /\ s.actual = Ninguno
    BY <1>1, <1>4 DEF Coherente
  <2>2. s.punto # "responde" /\ s.leido = CERO
    BY <1>1, <2>1 DEF Coherente, Sirviendo
  <2> QED BY <1>1, <1>2, <2>1, <2>2 DEF Almacen!vars, Pendiente
<1> QED BY <1>3, <1>4

\* The three steps of the loop that do something to the store.
LEMMA AlmacenSirve ==
    ASSUME NEW p, Procesos = {p}, InvSwap, InvSwap',
           Fflush(p) \/ Fread(p) \/ (Responder(p) /\ ~Morir(p))
    PROVE  Almacen!Escribe \/ Almacen!Lee \/ Almacen!Responde \/ Almacen!SePierde
<1> DEFINE s == swap[p]
<1>1. /\ Unico = s /\ Guardado = archivo /\ s \in Registros /\ Coherente(s)
      /\ Unico' = swap'[p] /\ Guardado' = archivo'
      /\ swap \in [Procesos -> Registros]
  BY Vista, VistaDespues DEF InvSwap, InvProcesos
<1>2. /\ s.punto \in {"vuelca", "leer", "responde"}
      /\ s.actual # Ninguno /\ s.flujo = Ninguno /\ s.salida = Ninguno
      /\ s.actual \in Pedidos
  BY <1>1 DEF Fflush, Fread, Responder, En, Coherente, Sirviendo, Registros
<1>3. Pendiente = s.actual
  BY <1>1, <1>2 DEF Pendiente
<1>4. CASE Fflush(p)
  <2>1. /\ s.punto = "vuelca" /\ swap'[p] = [s EXCEPT !.punto = "responde"]
        /\ archivo' = [archivo EXCEPT ![s.actual.numero] = s.actual.contenido]
    BY <1>1, <1>4 DEF Fflush, En, Ir
  <2>2. s.actual.op = "escribir"
    BY <1>1, <2>1 DEF Coherente
  <2>3. /\ swap'[p].punto = "responde" /\ swap'[p].actual = s.actual
        /\ swap'[p].flujo = s.flujo /\ swap'[p].leido = s.leido
        /\ swap'[p].salida = s.salida
    BY <1>1, <2>1 DEF Registros
  <2>4. Pendiente' = Pendiente
    BY <1>1, <1>2, <1>3, <2>3 DEF Pendiente
  <2> QED BY <1>1, <1>2, <1>3, <2>1, <2>2, <2>3, <2>4 DEF Almacen!Escribe
<1>5. CASE Fread(p)
  <2> DEFINE n == s.actual.numero
  <2>1. PICK v \in IF n < tam THEN {archivo[n]} ELSE Basura :
           swap' = [swap EXCEPT ![p].leido = v, ![p].punto = "responde"]
    BY <1>5, Zenon DEF Fread
  <2>2. s.punto = "leer" /\ archivo' = archivo
    BY <1>5 DEF Fread, En, varsArchivo
  <2>3. s.actual.op = "leer"
    BY <1>1, <2>2 DEF Coherente
  <2>4. v \in IF archivo[n] = CERO THEN Basura ELSE {archivo[n]}
    <3>1. n \in Numeros
      BY <1>2, FormaPedido
    <3>2. tam \in Nat /\ n \in Nat /\ (n >= tam => archivo[n] = CERO)
      BY <3>1, SupuestosSwap DEF InvSwap, InvArchivo, Numeros
    <3> HIDE DEF n
    <3> QED BY <2>1, <3>2 DEF Basura
  <2>5. /\ swap'[p].punto = "responde" /\ swap'[p].actual = s.actual
        /\ swap'[p].flujo = s.flujo /\ swap'[p].leido = v
        /\ swap'[p].salida = s.salida
    BY <1>1, <2>1 DEF Registros
  <2>6. Pendiente' = Pendiente
    BY <1>1, <1>2, <1>3, <2>5 DEF Pendiente
  <2>7. Almacen!Lee
    BY <1>1, <1>2, <1>3, <2>2, <2>3, <2>4, <2>5, <2>6
       DEF Almacen!Lee, Almacen!Basura, Basura
  <2> QED BY <2>7
<1>6. CASE Responder(p) /\ ~Morir(p)
  <2> DEFINE sal == IF s.conexion # "aceptada" THEN s.salida
                    ELSE [op |-> s.actual.op, dato |-> s.leido]
  <2>1. swap' = [swap EXCEPT ![p].actual = Ninguno, ![p].leido = CERO,
                             ![p].punto = "lazo", ![p].salida = sal]
    BY <1>6, Zenon DEF Responder
  <2>2. s.punto = "responde" /\ archivo' = archivo
    BY <1>6 DEF Responder, En, varsArchivo
  <2> HIDE DEF sal
  <2>3. /\ swap'[p].punto = "lazo" /\ swap'[p].actual = Ninguno
        /\ swap'[p].flujo = s.flujo /\ swap'[p].leido = CERO
        /\ swap'[p].salida = sal
    BY <1>1, <2>1 DEF Registros
  <2>4. Pendiente' = Ninguno
    BY <1>1, <1>2, <2>3 DEF Pendiente
  <2>5. CASE s.conexion = "aceptada"
    <3>1. sal = [op |-> Pendiente.op, dato |-> s.leido]
      BY <1>3, <2>5 DEF sal
    <3> QED BY <1>1, <2>2, <2>3, <2>4, <3>1 DEF Almacen!Responde
  <2>6. CASE s.conexion # "aceptada"
    <3>1. sal = Ninguno
      BY <1>2, <2>6 DEF sal
    <3> QED BY <1>1, <2>2, <2>3, <2>4, <3>1 DEF Almacen!SePierde
  <2> QED BY <2>5, <2>6
<1> QED BY <1>4, <1>5, <1>6

\* A request is made, an answer heard, and what the death of Kernel Memory cuts.
LEMMA AlmacenMemoria ==
    ASSUME NEW p, Procesos = {p}, InvSwap, InvSwap', Memoria
    PROVE  [Almacen!Next]_(Almacen!vars)
<1> DEFINE s == swap[p]
<1>1. /\ Unico = s /\ Guardado = archivo /\ s \in Registros /\ Coherente(s)
      /\ Unico' = swap'[p] /\ Guardado' = archivo'
      /\ swap \in [Procesos -> Registros]
  BY Vista, VistaDespues DEF InvSwap, InvProcesos
<1>2. archivo' = archivo
  BY DEF Memoria, Admitir, Pedir, Llega, AdmitirHuerfano, CaerKm, ArrancarKm,
         varsArchivo
<1>3. CASE Admitir(p)
  <2>1. /\ swap'[p].punto = s.punto /\ swap'[p].actual = s.actual
        /\ swap'[p].flujo = s.flujo /\ swap'[p].leido = s.leido
        /\ swap'[p].salida = s.salida
    BY <1>1, <1>3 DEF Admitir, Registros
  <2> QED BY <1>1, <1>2, <2>1 DEF Almacen!vars, Pendiente
<1>4. CASE Pedir(p)
  <2>1. PICK x \in Pedidos : swap' = [swap EXCEPT ![p].flujo = x]
    BY <1>4, Zenon DEF Pedir
  <2>2. s.flujo = Ninguno /\ s.actual = Ninguno /\ s.salida = Ninguno
    BY <1>4 DEF Pedir
  <2>3. /\ swap'[p].punto = s.punto /\ swap'[p].actual = s.actual
        /\ swap'[p].flujo = x /\ swap'[p].leido = s.leido
        /\ swap'[p].salida = s.salida
    BY <1>1, <2>1 DEF Registros
  <2>4. Pendiente = Ninguno /\ Pendiente' = x
    BY <1>1, <2>2, <2>3 DEF Pendiente
  <2>5. x \in Almacen!Pedidos
    BY DEF Almacen!Pedidos, Pedidos
  <2>6. Almacen!Pide
    BY <1>1, <1>2, <2>2, <2>3, <2>4, <2>5 DEF Almacen!Pide
  <2> QED BY <2>6 DEF Almacen!Next
<1>5. CASE Llega(p)
  <2>1. /\ s.salida # Ninguno /\ swap'[p].salida = Ninguno
        /\ swap'[p].punto = s.punto /\ swap'[p].actual = s.actual
        /\ swap'[p].flujo = s.flujo /\ swap'[p].leido = s.leido
    BY <1>1, <1>5 DEF Llega, Registros
  <2>2. Almacen!Llega
    BY <1>1, <1>2, <2>1 DEF Almacen!Llega, Pendiente
  <2> QED BY <2>2 DEF Almacen!Next
<1>6. CASE AdmitirHuerfano \/ ArrancarKm
  <2>1. swap' = swap
    BY <1>6 DEF AdmitirHuerfano, ArrancarKm
  <2> QED BY <1>1, <1>2, <2>1 DEF Almacen!vars, Pendiente
<1>7. CASE CaerKm
  <2>1. PICK x \in {s.flujo, Ninguno} :
           swap'[p] = [punto |-> s.punto, actual |-> s.actual,
                       leido |-> s.leido,
                       conexion |-> IF s.conexion = "sin" THEN "sin"
                                    ELSE "cerrada",
                       flujo |-> x, salida |-> Ninguno]
    BY <1>7, CaidaKm DEF InvSwap
  <2>2. /\ swap'[p].salida = Ninguno /\ swap'[p].flujo = x
        /\ swap'[p].punto = s.punto /\ swap'[p].actual = s.actual
        /\ swap'[p].leido = s.leido
    BY <2>1
  <2>3. CASE s.salida # Ninguno
    <3>1. s.flujo = Ninguno /\ s.actual = Ninguno
      BY <1>1, <2>3 DEF Coherente
    <3>2. Almacen!Llega
      BY <1>1, <1>2, <2>1, <2>2, <2>3, <3>1 DEF Almacen!Llega, Pendiente
    <3> QED BY <3>2 DEF Almacen!Next
  <2>4. CASE s.salida = Ninguno /\ x = s.flujo
    BY <1>1, <1>2, <2>2, <2>4 DEF Almacen!vars, Pendiente
  <2>5. CASE s.salida = Ninguno /\ x # s.flujo
    <3>1. x = Ninguno /\ s.actual = Ninguno
      BY <1>1, <2>1, <2>5 DEF Coherente
    <3>2. s.punto # "responde" /\ s.leido = CERO
      BY <1>1, <3>1 DEF Coherente, Sirviendo
    <3>3. Pendiente' = Ninguno
      BY <1>1, <2>2, <3>1 DEF Pendiente
    <3>4. Almacen!SePierde
      BY <1>1, <1>2, <2>2, <3>2, <3>3 DEF Almacen!SePierde
    <3> QED BY <3>4 DEF Almacen!Next
  <2> QED BY <2>3, <2>4, <2>5
<1> QED BY <1>3, <1>4, <1>5, <1>6, <1>7 DEF Memoria

\* Every step is a step of Bloques or none.
LEMMA AlmacenPaso ==
    ASSUME NEW p, Procesos = {p}, InvSwap, InvSwap', CreaSolo, [Next]_vars
    PROVE  [Almacen!Next]_(Almacen!vars)
<1> DEFINE s == swap[p]
<1>1. /\ s \in Registros /\ Coherente(s) /\ swap \in [Procesos -> Registros]
  BY Vista DEF InvSwap, InvProcesos
<1>2. CASE Morir(p) /\ archivo' = archivo
  BY <1>2, AlmacenMorir DEF Almacen!Next
<1>3. CASE (Abrir(p) \/ Arrancar(p) \/ Girar(p) \/ Fwrite(p)) /\ ~Morir(p)
  <2>1. /\ archivo' = archivo
        /\ swap'[p].flujo = s.flujo /\ swap'[p].actual = s.actual
        /\ swap'[p].leido = s.leido /\ swap'[p].salida = s.salida
        /\ s.punto # "responde" /\ swap'[p].punto # "responde"
    BY <1>1, <1>3 DEF Abrir, Arrancar, Girar, Fwrite, Ir, En, varsArchivo, Registros
  <2> QED BY <2>1, AlmacenResto
<1>4. CASE Crear(p)
  <2>1. CASE UNCHANGED varsArchivo /\ Morir(p)
    BY <1>2, <2>1 DEF varsArchivo
  <2>2. CASE archivo' = [n \in Numeros |-> CERO] /\ Ir(p, "trunca")
    <3>1. /\ s.punto = "crea"
          /\ swap'[p].flujo = s.flujo /\ swap'[p].actual = s.actual
          /\ swap'[p].leido = s.leido /\ swap'[p].salida = s.salida
          /\ swap'[p].punto = "trunca"
      BY <1>1, <1>4, <2>2 DEF Crear, Ir, En, Registros
    <3>2. tam = 0
      BY <3>1 DEF CreaSolo, InvSwap, InvArchivo
    <3>3. archivo' = archivo
      BY <2>2, <3>2 DEF InvSwap, InvArchivo, Numeros
    <3> QED BY <3>1, <3>3, AlmacenResto
  <2> QED BY <1>4, <2>1, <2>2 DEF Crear
<1>5. CASE Truncar(p)
  <2>1. archivo' = archivo
    BY <1>5 DEF Truncar
  <2>2. CASE Ir(p, "lazo")
    <3>1. /\ s.punto = "trunca"
          /\ swap'[p].flujo = s.flujo /\ swap'[p].actual = s.actual
          /\ swap'[p].leido = s.leido /\ swap'[p].salida = s.salida
          /\ swap'[p].punto = "lazo"
      BY <1>1, <1>5, <2>2 DEF Truncar, Ir, En, Registros
    <3> QED BY <2>1, <3>1, AlmacenResto
  <2> QED BY <1>2, <1>5, <2>1, <2>2 DEF Truncar
<1>6. CASE Recibir(p)
  <2>1. /\ s.punto = "lazo" /\ s.flujo # Ninguno /\ s.flujo \in Pedidos
        /\ archivo' = archivo
        /\ swap'[p].flujo = Ninguno /\ swap'[p].actual = s.flujo
        /\ swap'[p].leido = s.leido /\ swap'[p].salida = s.salida
        /\ swap'[p].punto = s.flujo.op
    BY <1>1, <1>6 DEF Recibir, En, varsArchivo, Registros
  <2>2. swap'[p].punto # "responde"
    BY <2>1, FormaPedido
  <2>3. /\ Unico = s /\ Guardado = archivo
        /\ Unico' = swap'[p] /\ Guardado' = archivo'
    BY Vista, VistaDespues
  <2> QED BY <2>1, <2>2, <2>3 DEF Almacen!vars, Pendiente
<1>7. CASE Fflush(p) \/ Fread(p) \/ (Responder(p) /\ ~Morir(p))
  BY <1>7, AlmacenSirve DEF Almacen!Next
<1>8. CASE Responder(p) /\ Morir(p)
  BY <1>2, <1>8 DEF Responder, varsArchivo
<1>9. CASE Caer(p)
  BY <1>2, <1>9 DEF Caer, varsArchivo
<1>10. CASE Memoria
  BY <1>10, AlmacenMemoria
<1>11. CASE UNCHANGED vars
  <2>1. /\ Unico = s /\ Guardado = archivo
        /\ Unico' = swap'[p] /\ Guardado' = archivo'
    BY Vista, VistaDespues
  <2> QED BY <1>11, <2>1 DEF vars, varsArchivo, Almacen!vars, Pendiente
<1>12. CASE (Abrir(p) \/ Arrancar(p) \/ Girar(p) \/ Fwrite(p)) /\ Morir(p)
  BY <1>2, <1>12 DEF Abrir, Arrancar, Girar, Fwrite, varsArchivo
<1> QED BY <1>3, <1>4, <1>5, <1>6, <1>7, <1>8, <1>9, <1>10, <1>11, <1>12
        DEF Next, Proceso

LEMMA AlmacenInit ==
    ASSUME NEW p, Procesos = {p}, Init
    PROVE  Almacen!Init
<1>1. InvSwap
  BY InvInit
<1>2. Unico = Apagado /\ Guardado = archivo
  BY <1>1, Vista DEF Init
<1> QED BY <1>2 DEF Init, Apagado, Pendiente, Almacen!Init

LEMMA CreaSoloInit == Init => CreaSolo
BY DEF Init, CreaSolo, Apagado

\* One swap, whatever the moments at which it and Kernel Memory die and are
\* started again, is a store of blocks: an answer follows its effect, what took
\* effect stays, a read finds what was last written (main.c:28-115).
THEOREM UnSwapImplementaBloques ==
    ASSUME NEW p, Procesos = {p}
    PROVE  Spec => ImplementaBloques
<1>1. Init => Almacen!Init
  BY AlmacenInit
<1>2. InvSwap /\ InvSwap' /\ CreaSolo /\ [Next]_vars
         => [Almacen!Next]_(Almacen!vars)
  BY AlmacenPaso
<1>3. InvSwap /\ CreaSolo /\ [Next]_vars => CreaSolo'
  BY CreaSoloPaso
<1> QED BY <1>1, <1>2, <1>3, CreaSoloInit, InvarianteSwap, PTL
        DEF Spec, ImplementaBloques, Almacen!Spec

\* What a step does to a block that somebody has written.
LEMMA BloqueQueda ==
    ASSUME NEW p, Procesos = {p}, InvSwap, CreaSolo, [Next]_vars,
           NEW n \in Numeros, archivo[n] # CERO
    PROVE  archivo'[n] # CERO
<1> DEFINE s == swap[p]
<1>1. /\ s \in Registros /\ Coherente(s) /\ archivo \in [Numeros -> Basura]
  BY Vista DEF InvSwap, InvArchivo
<1>2. CASE archivo' = archivo
  BY <1>2
<1>3. CASE Crear(p)
  <2>1. CASE ~existe
    BY <2>1 DEF InvSwap, InvArchivo, Numeros
  <2>2. CASE existe
    BY <1>3, <2>2 DEF Crear, En, CreaSolo
  <2> QED BY <2>1, <2>2
<1>4. CASE Fflush(p)
  <2>1. s.actual \in Pedidos /\ s.actual.op = "escribir"
    BY <1>1, <1>4 DEF Fflush, En, Registros, Coherente, Sirviendo
  <2>2. s.actual.contenido # CERO
    BY <2>1, FormaPedido, SupuestosSwap
  <2>3. archivo' = [archivo EXCEPT ![s.actual.numero] = s.actual.contenido]
    BY <1>4 DEF Fflush
  <2> QED BY <1>1, <2>2, <2>3
<1>5. CASE \/ Abrir(p) \/ Truncar(p) \/ Recibir(p) \/ Girar(p) \/ Fwrite(p)
           \/ Fread(p) \/ Responder(p) \/ Arrancar(p) \/ Caer(p)
  BY <1>2, <1>5 DEF Abrir, Truncar, Recibir, Girar, Fwrite, Fread, Responder,
                    Arrancar, Caer, varsArchivo
<1>6. CASE Memoria \/ UNCHANGED vars
  BY <1>2, <1>6 DEF Memoria, Admitir, Pedir, Llega, AdmitirHuerfano, CaerKm,
                    ArrancarKm, vars, varsArchivo
<1> QED BY <1>3, <1>4, <1>5, <1>6 DEF Next, Proceso

\* A block that has been written is not emptied while there is one swap only: it
\* takes a second one, between its two fopen(), to do it (main.c:42-52, 74).
THEOREM UnSwapNoVacia ==
    ASSUME NEW p, Procesos = {p}
    PROVE  Spec => EscrituraQueda
<1>1. ASSUME InvSwap, CreaSolo, [Next]_vars
      PROVE  [\A n \in Numeros : archivo[n] # CERO => archivo'[n] # CERO]_vars
  BY <1>1, BloqueQueda
<1>2. InvSwap /\ CreaSolo /\ [Next]_vars => CreaSolo'
  BY CreaSoloPaso
<1> QED BY <1>1, <1>2, CreaSoloInit, InvarianteSwap, PTL
        DEF Spec, EscrituraQueda
=============================================================================
