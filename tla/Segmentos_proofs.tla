--------------------------- MODULE Segmentos_proofs ---------------------------
(***************************************************************************)
(* The segment tables for every number of threads and calls: each segment  *)
(* is in one place, and who eliminates one takes the one it was asked for. *)
(***************************************************************************)
EXTENDS PropiedadesSegmentos, SequenceTheorems, FiniteSetTheorems,
        WellFoundedInduction, TLAPS

-----------------------------------------------------------------------------
(* The first one of a list *)

\* The least of a set of numbers.
LEMMA MinimoEsta ==
    ASSUME NEW I, I \subseteq Nat, I # {}
    PROVE  Min(I) \in I /\ \A y \in I : Min(I) <= y
<1>1. \E x \in I : \A y \in I : ~(<<y, x>> \in OpToRel(<, Nat))
  BY NatLessThanWellFounded, WFMin
<1>2. \E x \in I : \A y \in I : x =< y
  <2>1. \A x, y \in Nat : y < x => <<y, x>> \in OpToRel(<, Nat)
    BY Zenon DEF OpToRel
  <2>2. PICK x \in I : \A y \in I : ~(<<y, x>> \in OpToRel(<, Nat))
    BY <1>1
  <2>3. \A y \in I : ~(y < x)
    BY <2>1, <2>2, Zenon
  <2> QED BY <2>3
<1>3. \A x, y \in I : (\A z \in I : x =< z) /\ (\A z \in I : y =< z) => x = y
  OBVIOUS
<1> QED BY <1>2, <1>3 DEF Min

\* A search for one element of a list, ...
LEMMA DondeEsta ==
    ASSUME NEW L \in Seq(Nat), NEW s, NEW k \in DOMAIN L, L[k] = s,
           \A j \in DOMAIN L : L[j] = s => j = k
    PROVE  SelectInSeq(L, LAMBDA x : x = s) = k
<1> DEFINE I == {i \in 1..Len(L) : L[i] = s}
<1>1. I = {k}
  OBVIOUS
<1>2. I # {} /\ Min(I) = k
  <2>1. I \subseteq Nat /\ I # {}
    BY <1>1
  <2>2. Min(I) \in I
    BY <2>1, MinimoEsta
  <2> QED BY <1>1, <2>1, <2>2
<1> QED BY <1>2 DEF SelectInSeq

\* ... for the first with an id, ...
LEMMA PrimeroConId ==
    ASSUME NEW L \in Seq(Nat), NEW n, NEW k \in DOMAIN L, id_de[L[k]] = n,
           \A j \in 1..(k - 1) : id_de[L[j]] # n
    PROVE  SelectInSeq(L, LAMBDA s : id_de[s] = n) = k
<1> DEFINE I == {i \in 1..Len(L) : id_de[L[i]] = n}
<1>1. I \subseteq Nat /\ k \in I /\ \A i \in I : k <= i
  OBVIOUS
<1>2. Min(I) = k
  <2>1. Min(I) \in I /\ Min(I) <= k
    BY <1>1, MinimoEsta
  <2> QED BY <1>1, <2>1
<1> QED BY <1>1, <1>2 DEF SelectInSeq

\* ... and for the table of a pid.
LEMMA TablaDeEs ==
    ASSUME InvTipos, NEW p, TablaDe(p) # NULO
    PROVE  TablaDe(p) \in DOMAIN tablas /\ tablas[TablaDe(p)].pid = p
<1> DEFINE I == {i \in 1..Len(tablas) : tablas[i].pid = p}
<1>1. I \subseteq Nat
  OBVIOUS
<1>2. TablaDe(p) = IF I # {} THEN Min(I) ELSE 0
  BY DEF TablaDe, SelectInSeq
<1>3. I # {} /\ TablaDe(p) \in I
  BY <1>1, <1>2, MinimoEsta DEF NULO
<1> QED BY <1>3 DEF InvTipos

LEMMA TablaDeTipo ==
    ASSUME InvTipos, NEW p
    PROVE  TablaDe(p) \in Nat
<1>1. CASE TablaDe(p) = NULO
  BY <1>1 DEF NULO
<1>2. CASE TablaDe(p) # NULO
  BY <1>2, TablaDeEs DEF InvTipos
<1> QED BY <1>1, <1>2
-----------------------------------------------------------------------------
(* Steps that leave the lists alone *)

\* Nobody else has the mutex, so nobody else is in a critical section.
LEMMA UnoEnCritica ==
    ASSUME InvSegmentos, NEW t \in Hilos, mutex = Nadie \/ EnCritica(t)
    PROVE  \A u \in Hilos \ {t} : ~EnCritica(u)
BY SupuestosSegmentos DEF InvSegmentos, InvMutex

\* The lists and the segments, when a step does not touch them.
LEMMA LugaresQuedan ==
    ASSUME InvSegmentos, UNCHANGED <<tablas, id_de, liberados>>
    PROVE  InvLugares'
BY DEF InvSegmentos, InvLugares, Lugares

\* A search that a step of another thread leaves alone.
LEMMA BusquedaQueda ==
    ASSUME NEW u, BusquedaBien(u), id_de' = id_de, Segs(u)' = Segs(u),
           hilo'[u] = hilo[u], llamada'[u] = llamada[u], cursor'[u] = cursor[u],
           u \in cruzados => u \in cruzados',
           EnCritica(u) /\ hilo[u] = "compara" /\ u \notin cruzados'
               => seg_id_buscado' = seg_id_buscado
    PROVE  BusquedaBien(u)'
<1>1. /\ EnCritica(u)' <=> EnCritica(u)
      /\ id(u)' = id(u) /\ \A i : Ajenos(u, i)' <=> Ajenos(u, i)
  BY DEF EnCritica, op, id, Ajenos
<1>2. ASSUME EnCritica(u)', hilo'[u] = "compara"
      PROVE  /\ u \notin cruzados' => seg_id_buscado' = id(u)'
             /\ cursor'[u] # NULO => \E i \in DOMAIN Segs(u)' :
                  Segs(u)'[i] = cursor'[u] /\ (u \notin cruzados' => Ajenos(u, i)')
  BY <1>1, <1>2 DEF BusquedaBien
<1>3. ASSUME hilo'[u] = "quita"
      PROVE  \E i \in DOMAIN Segs(u)' :
                /\ Segs(u)'[i] = cursor'[u]
                /\ u \notin cruzados' => id_de'[cursor'[u]] = id(u)' /\ Ajenos(u, i)'
  BY <1>1, <1>3 DEF BusquedaBien
<1> QED BY <1>2, <1>3 DEF BusquedaBien

\* A thread that takes no critical section goes on.
LEMMA LlamarBien ==
    ASSUME InvSegmentos, NEW t \in Hilos, Llamar(t)
    PROVE  InvSegmentos'
<1> USE DEF InvSegmentos
<1>1. PICK o \in Operaciones, p \in Pids, i \in Ids :
         /\ llamada' = [llamada EXCEPT ![t] = [op |-> o, pid |-> p, id |-> i]]
         /\ hilo' = [hilo EXCEPT ![t] = IF o = "crear" THEN "crea" ELSE "busca_tabla"]
  <2>1. PICK o \in Operaciones, p \in Pids, i \in Ids :
           llamada' = [llamada EXCEPT ![t] = [op |-> o, pid |-> p, id |-> i]]
    BY DEF Llamar
  <2>2. op(t)' = o
    BY <2>1 DEF op, InvTipos
  <2> QED BY <2>1, <2>2 DEF Llamar, Ir
<1>2. /\ hilo[t] = "libre"
      /\ UNCHANGED <<tablas, id_de, liberados, mutex, seg_id_buscado, tabla, ultimo,
                     cursor, cruzados>>
  BY DEF Llamar
<1>3. InvTipos'
  BY <1>1, <1>2 DEF InvTipos, Puntos, PidsYCero, IdsYCero, Tablas
<1>4. InvMutex'
  BY <1>1, <1>2 DEF InvMutex, EnCritica, op, InvTipos
<1>5. InvLlamada'
  BY <1>1, <1>2 DEF InvLlamada, op, pid, InvTipos
<1>6. InvUltimo'
  BY <1>1, <1>2 DEF InvUltimo, Segs, InvTipos
<1>7. InvBusqueda'
  <2>1. ASSUME NEW u \in Hilos \ {t} PROVE BusquedaBien(u)'
    BY <1>1, <1>2, BusquedaQueda DEF InvBusqueda, Segs, InvTipos
  <2>2. BusquedaBien(t)'
    BY <1>1, <1>2 DEF BusquedaBien, EnCritica, op, InvTipos
  <2> QED BY <2>1, <2>2 DEF InvBusqueda
<1> QED BY <1>2, <1>3, <1>4, <1>5, <1>6, <1>7, LugaresQuedan

LEMMA CrearBien ==
    ASSUME InvSegmentos, NEW t \in Hilos, Crear(t)
    PROVE  InvSegmentos'
<1> USE DEF InvSegmentos
<1>1. /\ hilo[t] = "crea" /\ mutex = Nadie /\ mutex' = t
      /\ ultimo' = [ultimo EXCEPT ![t] = Len(tablas)]
      /\ hilo' = [hilo EXCEPT ![t] = "enlaza_tabla"]
      /\ UNCHANGED <<tablas, id_de, liberados, seg_id_buscado, llamada, tabla,
                     cursor, cruzados>>
  BY DEF Crear, Lock, MutexLibre, Ir
<1>2. InvTipos'
  BY <1>1 DEF InvTipos, Puntos, Tablas
<1>3. InvMutex'
  BY <1>1, UnoEnCritica DEF InvMutex, EnCritica, op, InvTipos
<1>4. InvLlamada'
  BY <1>1 DEF InvLlamada, op, pid, InvTipos
<1>5. InvUltimo'
  BY <1>1 DEF InvUltimo, Segs, InvTipos
<1>6. InvBusqueda'
  <2>1. ASSUME NEW u \in Hilos \ {t} PROVE BusquedaBien(u)'
    BY <1>1, <1>2, BusquedaQueda DEF InvBusqueda, Segs, InvTipos
  <2>2. BusquedaBien(t)'
    BY <1>1, <1>2 DEF BusquedaBien, EnCritica, op, InvTipos
  <2> QED BY <2>1, <2>2 DEF InvBusqueda
<1> QED BY <1>1, <1>2, <1>3, <1>4, <1>5, <1>6, LugaresQuedan

LEMMA BuscarTablaBien ==
    ASSUME InvSegmentos, NEW t \in Hilos, BuscarTabla(t)
    PROVE  InvSegmentos'
<1> USE DEF InvSegmentos
<1>1. /\ hilo[t] = "busca_tabla" /\ op(t) # "crear"
      /\ tabla' = [tabla EXCEPT ![t] = TablaDe(pid(t))]
      /\ hilo' = [hilo EXCEPT ![t] = IF TablaDe(pid(t)) = NULO THEN "libre" ELSE op(t)]
      /\ UNCHANGED <<tablas, id_de, liberados, mutex, seg_id_buscado, llamada,
                     ultimo, cursor, cruzados>>
  BY DEF BuscarTabla, Ir, InvTipos, InvLlamada
<1>2. /\ op(t) \in {"registrar", "buscar", "eliminar"}
      /\ TablaDe(pid(t)) \in Nat
      /\ TablaDe(pid(t)) # NULO => /\ TablaDe(pid(t)) \in DOMAIN tablas
                                  /\ tablas[TablaDe(pid(t))].pid = pid(t)
  BY <1>1, TablaDeTipo, TablaDeEs DEF InvTipos, op, Operaciones
<1> HIDE DEF InvSegmentos
<1>3. InvTipos'
  BY <1>1, <1>2 DEF InvSegmentos, InvTipos, Puntos, Tablas
<1>4. InvMutex'
  BY <1>1, <1>2 DEF InvSegmentos, InvMutex, EnCritica, op, InvTipos
<1>5. InvLlamada'
  BY <1>1, <1>2 DEF InvSegmentos, InvLlamada, op, pid, InvTipos
<1>6. InvUltimo'
  BY <1>1, <1>2 DEF InvSegmentos, InvUltimo, Segs, InvTipos
<1>7. InvBusqueda'
  <2>1. ASSUME NEW u \in Hilos \ {t} PROVE BusquedaBien(u)'
    BY <1>1, <1>2, BusquedaQueda DEF InvBusqueda, Segs, InvTipos, InvSegmentos
  <2>2. BusquedaBien(t)'
    BY <1>1, <1>2 DEF BusquedaBien, EnCritica, op, InvTipos, InvSegmentos
  <2> QED BY <2>1, <2>2 DEF InvBusqueda
<1> QED BY <1>1, <1>3, <1>4, <1>5, <1>6, <1>7, LugaresQuedan DEF InvSegmentos

LEMMA RegistrarBien ==
    ASSUME InvSegmentos, NEW t \in Hilos, Registrar(t)
    PROVE  InvSegmentos'
<1> USE DEF InvSegmentos
<1>1. /\ hilo[t] = "registrar" /\ mutex = Nadie /\ mutex' = t
      /\ ultimo' = [ultimo EXCEPT ![t] = Len(Segs(t))]
      /\ hilo' = [hilo EXCEPT ![t] = "enlaza_segmento"]
      /\ UNCHANGED <<tablas, id_de, liberados, seg_id_buscado, llamada, tabla,
                     cursor, cruzados>>
  BY DEF Registrar, Lock, MutexLibre, Ir
<1>2. Len(Segs(t)) \in Nat
  BY <1>1 DEF Segs, InvLlamada, InvTipos, Tablas
<1>3. InvTipos'
  BY <1>1, <1>2 DEF InvTipos, Puntos, Tablas
<1>4. InvMutex'
  BY <1>1, UnoEnCritica DEF InvMutex, EnCritica, op, InvTipos
<1>5. InvLlamada'
  BY <1>1 DEF InvLlamada, op, pid, InvTipos
<1>6. InvUltimo'
  BY <1>1 DEF InvUltimo, Segs, InvTipos
<1>7. InvBusqueda'
  <2>1. ASSUME NEW u \in Hilos \ {t} PROVE BusquedaBien(u)'
    BY <1>1, <1>2, BusquedaQueda DEF InvBusqueda, Segs, InvTipos
  <2>2. BusquedaBien(t)'
    BY <1>1, <1>2 DEF BusquedaBien, EnCritica, op, InvTipos
  <2> QED BY <2>1, <2>2 DEF InvBusqueda
<1> QED BY <1>1, <1>3, <1>4, <1>5, <1>6, <1>7, LugaresQuedan
-----------------------------------------------------------------------------
(* The searches *)

\* A thread that is in one of the two has found its table, whose segments are
\* in no other place.
LEMMA SuTabla ==
    ASSUME InvSegmentos, NEW t \in Hilos,
           hilo[t] \in {"registrar", "enlaza_segmento", "buscar", "eliminar",
                       "compara", "quita"}
    PROVE  /\ tabla[t] \in DOMAIN tablas /\ Segs(t) \in Seq(Nat)
           /\ tablas[tabla[t]].pid = pid(t)
           /\ \A j \in DOMAIN Segs(t) :
                 /\ Segs(t)[j] \in DOMAIN id_de /\ Segs(t)[j] \notin liberados
                 /\ \A l \in DOMAIN Segs(t) : Segs(t)[l] = Segs(t)[j] => l = j
<1>1. tabla[t] \in DOMAIN tablas /\ tablas[tabla[t]].pid = pid(t)
  BY DEF InvSegmentos, InvLlamada
<1>2. Segs(t) \in Seq(Nat)
  <2>1. tablas[tabla[t]] \in Tablas
    BY <1>1 DEF InvSegmentos, InvTipos
  <2> QED BY <2>1 DEF Tablas, Segs
<1>3. \A j \in DOMAIN Segs(t) :
         /\ Segs(t)[j] \in DOMAIN id_de /\ Segs(t)[j] \notin liberados
         /\ \A l \in DOMAIN Segs(t) : Segs(t)[l] = Segs(t)[j] => l = j
  BY <1>1 DEF InvSegmentos, InvLugares, Lugares, Segs
<1> QED BY <1>1, <1>2, <1>3

\* The first element, and the one after another.
LEMMA PrimeroEs ==
    ASSUME NEW L \in Seq(Nat)
    PROVE  /\ Primero(L) \in Nat
           /\ Primero(L) # NULO => 1 \in DOMAIN L /\ L[1] = Primero(L)
BY DEF Primero, NULO

LEMMA SiguienteEs ==
    ASSUME NEW L \in Seq(Nat), NEW k \in DOMAIN L,
           \A j \in DOMAIN L : L[j] = L[k] => j = k
    PROVE  /\ Siguiente(L, L[k]) \in Nat
           /\ Siguiente(L, L[k]) # NULO => /\ k + 1 \in DOMAIN L
                                         /\ L[k + 1] = Siguiente(L, L[k])
<1>1. SelectInSeq(L, LAMBDA x : x = L[k]) = k
  BY DondeEsta
<1>2. Siguiente(L, L[k]) = IF k = Len(L) THEN NULO ELSE L[k + 1]
  BY <1>1 DEF Siguiente
<1> QED BY <1>2 DEF NULO

\* A search begins: those that it misleads are told so.
LEMMA EmpezarBien ==
    ASSUME InvSegmentos, NEW t \in Hilos, Buscar(t) \/ Eliminar(t)
    PROVE  InvSegmentos'
<1>1. /\ hilo[t] \in {"buscar", "eliminar"}
      /\ seg_id_buscado' = id(t)
      /\ cursor' = [cursor EXCEPT ![t] = Primero(Segs(t))]
      /\ hilo' = [hilo EXCEPT ![t] = "compara"]
      /\ UNCHANGED <<tablas, id_de, liberados, llamada, tabla, ultimo>>
  BY DEF Buscar, Eliminar, Empezar, Ir
<1>2. Segs(t) \in Seq(Nat) /\ tabla[t] \in DOMAIN tablas /\ op(t) \in {"buscar", "eliminar"}
  BY <1>1, SuTabla DEF InvSegmentos, InvLlamada
<1>3. PICK x \in Nat : /\ cursor' = [cursor EXCEPT ![t] = x]
                       /\ x # NULO => 1 \in DOMAIN Segs(t) /\ Segs(t)[1] = x
  BY <1>1, <1>2, PrimeroEs
<1>4. /\ cruzados' \subseteq Hilos
      /\ \A u \in Hilos \ {t} : EnCritica(u) /\ hilo[u] = "compara" => u \in cruzados'
      /\ \A u \in Hilos \ {t} : u \in cruzados => u \in cruzados'
  <2>1. CASE Buscar(t)
    BY <2>1 DEF Buscar, Empezar, InvSegmentos, InvTipos
  <2>2. CASE Eliminar(t)
    <3>1. \A u \in Hilos \ {t} : ~EnCritica(u)
      BY <2>2, UnoEnCritica DEF Eliminar, Lock, MutexLibre
    <3> QED BY <2>2, <3>1 DEF Eliminar, Empezar, InvSegmentos, InvTipos
  <2> QED BY <2>1, <2>2
<1>5. InvTipos'
  <2>1. mutex' \in Hilos \cup {Nadie}
    BY DEF Buscar, Eliminar, Lock, InvSegmentos, InvTipos
  <2> QED BY <1>1, <1>3, <1>4, <2>1 DEF InvSegmentos, InvTipos, Puntos, Tablas
<1>6. InvMutex'
  <2>1. CASE Buscar(t)
    BY <1>1, <2>1 DEF Buscar, InvSegmentos, InvMutex, InvLlamada, EnCritica, op, InvTipos
  <2>2. CASE Eliminar(t)
    <3>1. /\ mutex = Nadie /\ mutex' = t /\ op(t) = "eliminar"
          /\ \A u \in Hilos \ {t} : ~EnCritica(u)
      BY <2>2, UnoEnCritica DEF Eliminar, Lock, MutexLibre, InvSegmentos, InvLlamada
    <3> QED BY <1>1, <3>1 DEF InvMutex, EnCritica, op, InvSegmentos, InvTipos
  <2> QED BY <2>1, <2>2
<1>7. InvLlamada'
  BY <1>1, <1>2 DEF InvSegmentos, InvLlamada, op, pid, InvTipos
<1>8. InvUltimo'
  BY <1>1 DEF InvSegmentos, InvUltimo, Segs, InvTipos
<1>9. InvBusqueda'
  <2>1. ASSUME NEW u \in Hilos \ {t} PROVE BusquedaBien(u)'
    BY <1>1, <1>4, BusquedaQueda DEF InvSegmentos, InvBusqueda, Segs, InvTipos
  <2>2. /\ Segs(t)' = Segs(t) /\ id(t)' = id(t) /\ hilo'[t] = "compara"
        /\ cursor'[t] = x /\ Ajenos(t, 1)'
    BY <1>1, <1>3 DEF Segs, id, Ajenos, InvSegmentos, InvTipos
  <2>3. BusquedaBien(t)'
    BY <1>1, <1>2, <1>3, <2>2 DEF BusquedaBien
  <2> QED BY <2>1, <2>3 DEF InvBusqueda
<1> QED BY <1>1, <1>5, <1>6, <1>7, <1>8, <1>9, LugaresQuedan DEF InvSegmentos
\* The segment is the one, or the search goes on to the next.
LEMMA CompararBien ==
    ASSUME InvSegmentos, NEW t \in Hilos, Comparar(t)
    PROVE  InvSegmentos'
<1>1. /\ hilo[t] = "compara"
      /\ UNCHANGED <<tablas, id_de, liberados, mutex, seg_id_buscado, llamada,
                     tabla, ultimo, cruzados>>
  BY DEF Comparar
<1>2. /\ Segs(t) \in Seq(Nat) /\ op(t) \in {"buscar", "eliminar"}
      /\ \A j \in DOMAIN Segs(t) : \A l \in DOMAIN Segs(t) :
            Segs(t)[l] = Segs(t)[j] => l = j
  BY <1>1, SuTabla DEF InvSegmentos, InvLlamada
<1>3. PICK k \in DOMAIN Segs(t) : cursor[t] = Segs(t)[k]
  BY DEF Comparar, Range
<1> DEFINE sigue == Siguiente(Segs(t), cursor[t])
<1>4. /\ sigue \in Nat
      /\ sigue # NULO => k + 1 \in DOMAIN Segs(t) /\ Segs(t)[k + 1] = sigue
  BY <1>2, <1>3, SiguienteEs
<1>5. \/ /\ id_de[cursor[t]] = seg_id_buscado
         /\ hilo' = [hilo EXCEPT ![t] = IF op(t) = "buscar" THEN "libre" ELSE "quita"]
         /\ cursor' = cursor
      \/ /\ id_de[cursor[t]] # seg_id_buscado
         /\ cursor' = [cursor EXCEPT ![t] = sigue] /\ hilo' = hilo
  BY DEF Comparar, Ir
<1> HIDE DEF sigue
<1>6. InvTipos'
  BY <1>1, <1>4, <1>5 DEF InvSegmentos, InvTipos, Puntos, Tablas
<1>7. InvMutex'
  BY <1>1, <1>2, <1>5 DEF InvSegmentos, InvMutex, EnCritica, op, InvTipos
<1>8. InvLlamada'
  BY <1>1, <1>2, <1>5 DEF InvSegmentos, InvLlamada, op, pid, InvTipos
<1>9. InvUltimo'
  BY <1>1, <1>5 DEF InvSegmentos, InvUltimo, Segs, InvTipos
<1>10. InvBusqueda'
  <2>1. ASSUME NEW u \in Hilos \ {t} PROVE BusquedaBien(u)'
    BY <1>1, <1>5, BusquedaQueda DEF InvSegmentos, InvBusqueda, Segs, InvTipos
  <2>2. /\ Segs(t)' = Segs(t) /\ id(t)' = id(t) /\ op(t)' = op(t)
        /\ \A i \in Nat : Ajenos(t, i)' <=> Ajenos(t, i)
    BY <1>1 DEF Segs, id, op, Ajenos
  <2>3. BusquedaBien(t)
    BY DEF InvSegmentos, InvBusqueda
  <2>4. ASSUME op(t) = "eliminar"
        PROVE  t \notin cruzados => seg_id_buscado = id(t) /\ Ajenos(t, k)
    <3>1. cursor[t] # NULO
      BY <1>1, <1>3, SuTabla DEF NULO, InvSegmentos, InvTipos
    <3> QED BY <1>1, <1>2, <1>3, <2>3, <2>4, <3>1 DEF BusquedaBien, EnCritica
  <2>5. BusquedaBien(t)'
    <3>1. CASE op(t) = "buscar"
      BY <1>1, <1>5, <2>2, <3>1 DEF BusquedaBien, EnCritica, InvSegmentos, InvTipos
    <3>2. CASE op(t) = "eliminar" /\ cursor' = cursor
               /\ id_de[cursor[t]] = seg_id_buscado
      <4>1. hilo'[t] = "quita" /\ id_de[cursor[t]] = seg_id_buscado
        BY <1>1, <1>5, <3>2 DEF InvSegmentos, InvTipos
      <4> QED BY <1>1, <1>2, <1>3, <2>2, <2>4, <3>2, <4>1 DEF BusquedaBien
    <3>3. CASE op(t) = "eliminar" /\ cursor' = [cursor EXCEPT ![t] = sigue]
               /\ id_de[cursor[t]] # seg_id_buscado /\ hilo' = hilo
      <4>1. cursor'[t] = sigue /\ hilo'[t] = "compara"
        BY <1>1, <3>3 DEF InvSegmentos, InvTipos
      <4>2. t \notin cruzados => Ajenos(t, k + 1)
        BY <1>2, <1>3, <2>4, <3>3 DEF Ajenos
      <4> QED BY <1>1, <1>2, <1>4, <2>2, <2>4, <3>3, <4>1, <4>2 DEF BusquedaBien
    <3> QED BY <1>2, <1>5, <3>1, <3>2, <3>3
  <2> QED BY <2>1, <2>5 DEF InvBusqueda
<1> QED BY <1>1, <1>6, <1>7, <1>8, <1>9, <1>10, LugaresQuedan DEF InvSegmentos

\* A search ends, or goes astray without the mutex: with it, what it is at has
\* not been freed.
LEMMA TerminaBien ==
    ASSUME InvSegmentos, NEW t \in Hilos, NoEsta(t) \/ CompararLiberado(t)
    PROVE  InvSegmentos'
<1>1. /\ hilo[t] = "compara"
      /\ UNCHANGED <<tablas, id_de, liberados, seg_id_buscado, llamada, tabla,
                     ultimo, cruzados>>
  BY DEF NoEsta, CompararLiberado
<1>2. /\ Segs(t) \in Seq(Nat) /\ op(t) \in {"buscar", "eliminar"}
  BY <1>1, SuTabla DEF InvSegmentos, InvLlamada
<1>3. CompararLiberado(t) => op(t) = "buscar"
  <2> SUFFICES ASSUME CompararLiberado(t), op(t) = "eliminar" PROVE FALSE
    BY <1>2
  <2>1. cursor[t] \in liberados /\ cursor[t] # NULO
    BY DEF CompararLiberado, InvSegmentos, InvTipos, NULO
  <2>2. \E i \in DOMAIN Segs(t) : Segs(t)[i] = cursor[t]
    BY <1>1, <2>1 DEF InvSegmentos, InvBusqueda, BusquedaBien, EnCritica
  <2> QED BY <1>1, <2>1, <2>2, SuTabla
<1>4. PICK x \in Nat : cursor' = [cursor EXCEPT ![t] = x]
  <2>1. \A s \in Range(Segs(t)) : s \in Nat
    BY <1>2 DEF Range
  <2>2. cursor[t] \in Nat /\ cursor = [cursor EXCEPT ![t] = cursor[t]] /\ NULO \in Nat
    BY DEF InvSegmentos, InvTipos, NULO
  <2> QED BY <2>1, <2>2 DEF NoEsta, CompararLiberado
<1>5. \/ hilo' = hilo /\ op(t) = "buscar" /\ mutex' = mutex
      \/ /\ hilo' = [hilo EXCEPT ![t] = "libre"]
         /\ IF op(t) = "eliminar" THEN mutex' = Nadie ELSE mutex' = mutex
  BY <1>2, <1>3 DEF NoEsta, CompararLiberado, Ir, Unlock
<1>6. InvTipos'
  BY <1>1, <1>4, <1>5 DEF InvSegmentos, InvTipos, Puntos, Tablas
<1>7. InvMutex'
  <2>1. CASE op(t) = "buscar"
    BY <1>1, <1>5, <2>1 DEF InvSegmentos, InvMutex, EnCritica, op, InvTipos
  <2>2. CASE op(t) = "eliminar"
    <3>1. EnCritica(t) /\ \A u \in Hilos \ {t} : ~EnCritica(u)
      BY <1>1, <2>2, UnoEnCritica DEF EnCritica
    <3>2. mutex' = Nadie /\ hilo' = [hilo EXCEPT ![t] = "libre"]
      BY <1>5, <2>2
    <3> QED BY <1>1, <3>1, <3>2, SupuestosSegmentos
            DEF InvMutex, EnCritica, op, InvSegmentos, InvTipos
  <2> QED BY <1>2, <2>1, <2>2
<1>8. InvLlamada'
  BY <1>1, <1>2, <1>5 DEF InvSegmentos, InvLlamada, op, pid, InvTipos
<1>9. InvUltimo'
  BY <1>1, <1>5 DEF InvSegmentos, InvUltimo, Segs, InvTipos
<1>10. InvBusqueda'
  <2>1. ASSUME NEW u \in Hilos \ {t} PROVE BusquedaBien(u)'
    BY <1>1, <1>4, <1>5, BusquedaQueda DEF InvSegmentos, InvBusqueda, Segs, InvTipos
  <2>2. BusquedaBien(t)'
    BY <1>1, <1>2, <1>5 DEF BusquedaBien, EnCritica, op, InvSegmentos, InvTipos
  <2> QED BY <2>1, <2>2 DEF InvBusqueda
<1> QED BY <1>1, <1>6, <1>7, <1>8, <1>9, <1>10, LugaresQuedan DEF InvSegmentos
-----------------------------------------------------------------------------
(* Steps that change the lists *)

\* list_add, when its last element is still the last.
LEMMA EnlazarAlFinal ==
    ASSUME NEW S, NEW lista \in Seq(S), NEW x
    PROVE  Enlazar(lista, Len(lista), x) = Append(lista, x)
BY SubSeqFull DEF Enlazar

\* A table is one, ...
LEMMA TablaTipo ==
    ASSUME InvTipos, NEW i \in DOMAIN tablas
    PROVE  /\ tablas[i] \in Tablas /\ tablas[i].segmentos \in Seq(Nat)
           /\ Len(tablas[i].segmentos) \in Nat
           /\ DOMAIN tablas[i].segmentos = 1..Len(tablas[i].segmentos)
<1>1. tablas[i] \in Tablas
  BY DEF InvTipos
<1>2. tablas[i].segmentos \in Seq(Nat)
  BY <1>1 DEF Tablas
<1> QED BY <1>1, <1>2, LenProperties

\* ... and its list may be changed.
LEMMA CambiaLista ==
    ASSUME InvTipos, NEW T \in DOMAIN tablas, NEW X \in Seq(Nat),
           tablas' = [tablas EXCEPT ![T].segmentos = X]
    PROVE  /\ tablas' \in Seq(Tablas) /\ DOMAIN tablas' = DOMAIN tablas
           /\ \A i \in DOMAIN tablas : tablas'[i].pid = tablas[i].pid
           /\ tablas'[T].segmentos = X
           /\ \A i \in DOMAIN tablas \ {T} : tablas'[i].segmentos = tablas[i].segmentos
<1> DEFINE r == [tablas[T] EXCEPT !.segmentos = X]
<1>1. tablas[T] \in Tablas /\ tablas \in Seq(Tablas)
  BY TablaTipo DEF InvTipos
<1>2. r \in Tablas /\ r.pid = tablas[T].pid /\ r.segmentos = X
  BY <1>1 DEF Tablas
<1>3. tablas' = [tablas EXCEPT ![T] = r]
  OBVIOUS
<1> HIDE DEF r
<1>4. tablas' \in Seq(Tablas) /\ DOMAIN tablas' = DOMAIN tablas
  <2>1. T \in 1..Len(tablas)
    BY <1>1, LenProperties
  <2>2. [tablas EXCEPT ![T] = r] \in Seq(Tablas)
    BY <1>1, <1>2, <2>1, ExceptSeq
  <2>3. DOMAIN [tablas EXCEPT ![T] = r] = DOMAIN tablas
    OBVIOUS
  <2> QED BY <1>3, <2>2, <2>3
<1>5. tablas'[T] = r /\ \A i \in DOMAIN tablas \ {T} : tablas'[i] = tablas[i]
  BY <1>3
<1> QED BY <1>2, <1>4, <1>5

\* list_remove of an element that is in one place.
LEMMA QuitaUno ==
    ASSUME NEW L \in Seq(Nat), NEW k \in DOMAIN L,
           \A j \in DOMAIN L : L[j] = L[k] => j = k
    PROVE  /\ RemoveFirst(L, L[k]) \in Seq(Nat)
           /\ Len(RemoveFirst(L, L[k])) = Len(L) - 1
           /\ \A j \in 1..(Len(L) - 1) :
                 RemoveFirst(L, L[k])[j] = IF j < k THEN L[j] ELSE L[j + 1]
<1> DEFINE a == SubSeq(L, 1, k - 1)
           b == SubSeq(L, k + 1, Len(L))
<1>1. k \in 1..Len(L) /\ Len(L) \in Nat
  OBVIOUS
<1>2. RemoveFirst(L, L[k]) = a \o b
  <2>1. SelectInSeq(L, LAMBDA x : x = L[k]) = k
    BY DondeEsta
  <2>2. \E i \in 1..Len(L) : L[i] = L[k]
    BY <1>1
  <2> QED BY <2>1, <2>2 DEF RemoveFirst, RemoveAt
<1>3. /\ a \in Seq(Nat) /\ Len(a) = k - 1 /\ \A j \in 1..(k - 1) : a[j] = L[j]
  <2>1. k - 1 \in Int /\ \A i \in 1..(k - 1) : L[i] \in Nat
    BY <1>1
  <2> QED BY <1>1, <2>1, SubSeqProperties
<1>4. /\ b \in Seq(Nat) /\ Len(b) = Len(L) - k
      /\ \A j \in 1..(Len(L) - k) : b[j] = L[k + j]
  <2>1. k + 1 \in Int /\ \A i \in (k + 1)..Len(L) : L[i] \in Nat
    BY <1>1
  <2>2. /\ b \in Seq(Nat) /\ Len(b) = (IF k + 1 <= Len(L) THEN Len(L) - (k + 1) + 1 ELSE 0)
        /\ \A i \in 1..(Len(L) - (k + 1) + 1) : b[i] = L[(k + 1) + i - 1]
    BY <1>1, <2>1, SubSeqProperties
  <2> QED BY <1>1, <2>2
<1> HIDE DEF a, b
<1>5. /\ a \o b \in Seq(Nat) /\ Len(a \o b) = Len(a) + Len(b)
      /\ \A i \in 1..(Len(a) + Len(b)) :
            (a \o b)[i] = IF i <= Len(a) THEN a[i] ELSE b[i - Len(a)]
  BY <1>3, <1>4, ConcatProperties
<1>6. PICK n \in Nat : n = Len(L)
  BY <1>1
<1>7. /\ k \in Nat /\ 1 <= k /\ k <= n
      /\ Len(a) = k - 1 /\ Len(b) = n - k
      /\ \A i \in 1..(n - k) : b[i] = L[k + i]
  BY <1>1, <1>3, <1>4, <1>6
<1>8. ASSUME NEW j \in 1..(n - 1)
      PROVE  (a \o b)[j] = IF j < k THEN L[j] ELSE L[j + 1]
  <2> j \in Nat /\ 1 <= j /\ j <= n - 1
    BY <1>6
  <2>1. (k - 1) + (n - k) = n - 1
    BY <1>7
  <2>2. (a \o b)[j] = IF j <= k - 1 THEN a[j] ELSE b[j - (k - 1)]
    BY <1>5, <1>7, <2>1
  <2>3. CASE j < k
    <3>1. j <= k - 1 /\ j \in 1..(k - 1)
      BY <1>7, <2>3
    <3> QED BY <1>3, <2>2, <2>3, <3>1
  <2>4. CASE ~(j < k)
    <3>1. ~(j <= k - 1) /\ j - (k - 1) \in 1..(n - k) /\ k + (j - (k - 1)) = j + 1
      BY <1>7, <2>4
    <3> QED BY <1>7, <2>2, <2>4, <3>1, Zenon
  <2> QED BY <2>3, <2>4
<1>9. Len(a \o b) = n - 1
  BY <1>5, <1>7
<1> QED BY <1>2, <1>5, <1>6, <1>8, <1>9

\* The thread with the mutex goes out of its critical section: nobody is in one.
LEMMA SaleBien ==
    ASSUME InvSegmentos, NEW t \in Hilos, EnCritica(t),
           Unlock, Ir(t, "libre"), UNCHANGED <<llamada, tabla, ultimo>>,
           DOMAIN tablas \subseteq DOMAIN tablas',
           \A i \in DOMAIN tablas : tablas'[i].pid = tablas[i].pid
    PROVE  InvMutex' /\ InvLlamada' /\ InvUltimo' /\ InvBusqueda'
<1>1. \A u \in Hilos : ~EnCritica(u)'
  BY UnoEnCritica DEF Ir, EnCritica, op, InvSegmentos, InvTipos
<1>2. InvMutex'
  BY <1>1, SupuestosSegmentos DEF InvMutex, Unlock
<1>3. InvLlamada'
  BY DEF InvSegmentos, InvLlamada, Ir, op, pid, InvTipos
<1>4. InvUltimo' /\ InvBusqueda'
  BY <1>1 DEF InvUltimo, InvBusqueda, BusquedaBien, EnCritica
<1> QED BY <1>2, <1>3, <1>4

LEMMA EnlazarTablaBien ==
    ASSUME InvSegmentos, NEW t \in Hilos, EnlazarTabla(t)
    PROVE  InvSegmentos'
<1> DEFINE nueva == [pid |-> pid(t), segmentos |-> <<>>]
<1>1. /\ hilo[t] = "enlaza_tabla" /\ Unlock /\ Ir(t, "libre")
      /\ UNCHANGED <<id_de, liberados, llamada, tabla, ultimo, cursor, cruzados>>
  BY DEF EnlazarTabla
<1>2. nueva \in Tablas
  BY DEF pid, Tablas, InvSegmentos, InvTipos
<1>3. tablas' = Append(tablas, nueva)
  BY <1>1, EnlazarAlFinal DEF EnlazarTabla, InvSegmentos, InvTipos, InvUltimo
<1>4. /\ tablas' \in Seq(Tablas) /\ Len(tablas') = Len(tablas) + 1
      /\ \A i \in DOMAIN tablas : tablas'[i] = tablas[i]
      /\ tablas'[Len(tablas) + 1].segmentos = <<>>
      /\ DOMAIN tablas' = 1..(Len(tablas) + 1) /\ DOMAIN tablas = 1..Len(tablas)
      /\ Len(tablas) \in Nat
  BY <1>2, <1>3, AppendProperties DEF InvSegmentos, InvTipos
<1>5. InvTipos'
  BY <1>1, <1>4 DEF InvSegmentos, InvTipos, Puntos, Unlock, Ir
<1>6. InvLugares'
  <2>1. \A i \in DOMAIN tablas' : \A j \in Lugares(i)' : i \in DOMAIN tablas
    BY <1>4 DEF Lugares
  <2>2. \A i \in DOMAIN tablas : Lugares(i)' = Lugares(i) /\ i \in DOMAIN tablas'
    BY <1>4 DEF Lugares
  <2> QED BY <1>1, <1>4, <2>1, <2>2 DEF InvSegmentos, InvLugares
<1>7. EnCritica(t)
  BY <1>1 DEF EnCritica
<1> QED BY <1>1, <1>4, <1>5, <1>6, <1>7, SaleBien DEF InvSegmentos

\* The number of the new segment is greater than those of the list.
LEMMA EnlazarSegmentoBien ==
    ASSUME InvSegmentos, NEW t \in Hilos, EnlazarSegmento(t)
    PROVE  InvSegmentos'
<1> DEFINE L == Segs(t)
           n == Len(id_de) + 1
<1>1. /\ hilo[t] = "enlaza_segmento" /\ Unlock /\ Ir(t, "libre") /\ EnCritica(t)
      /\ id_de' = Append(id_de, id(t))
      /\ UNCHANGED <<liberados, llamada, tabla, ultimo, cursor, cruzados>>
  BY DEF EnlazarSegmento, EnCritica
<1>2. PICK T \in DOMAIN tablas : T = tabla[t] /\ L = tablas[T].segmentos
  BY <1>1, SuTabla DEF Segs
<1>12. L \in Seq(Nat)
  BY <1>2, TablaTipo DEF InvSegmentos
<1>3. /\ id(t) \in IdsYCero /\ id_de' \in Seq(IdsYCero) /\ Len(id_de') = n
      /\ n \in Nat /\ DOMAIN id_de = 1..(n - 1) /\ DOMAIN id_de' = 1..n
  <2>1. id(t) \in IdsYCero /\ id_de \in Seq(IdsYCero)
    BY DEF id, InvSegmentos, InvTipos
  <2> QED BY <1>1, <2>1, AppendProperties
<1>4. tablas' = [tablas EXCEPT ![T].segmentos = Append(L, n)]
  <2>1. Enlazar(tablas[T].segmentos, ultimo[t], n) = Append(L, n)
    BY <1>1, <1>2, <1>12, EnlazarAlFinal DEF InvSegmentos, InvUltimo
  <2> QED BY <1>1, <1>2, <1>3, <2>1 DEF EnlazarSegmento
<1>5. /\ Append(L, n) \in Seq(Nat) /\ Len(L) \in Nat
      /\ DOMAIN L = 1..Len(L) /\ DOMAIN Append(L, n) = 1..(Len(L) + 1)
      /\ \A j \in 1..Len(L) : Append(L, n)[j] = L[j]
      /\ Append(L, n)[Len(L) + 1] = n
  BY <1>3, <1>12, AppendProperties
<1> HIDE DEF n
<1>6. /\ tablas' \in Seq(Tablas) /\ DOMAIN tablas' = DOMAIN tablas
      /\ \A i \in DOMAIN tablas : tablas'[i].pid = tablas[i].pid
      /\ tablas'[T].segmentos = Append(L, n)
      /\ \A i \in DOMAIN tablas \ {T} : tablas'[i].segmentos = tablas[i].segmentos
  BY <1>2, <1>4, <1>5, CambiaLista DEF InvSegmentos
<1>7. InvTipos'
  BY <1>1, <1>3, <1>6 DEF InvSegmentos, InvTipos, Puntos, Unlock, Ir
<1>8. /\ \A i \in DOMAIN tablas : \A j \in Lugares(i) :
            /\ j \in Lugares(i)' /\ tablas'[i].segmentos[j] = tablas[i].segmentos[j]
            /\ tablas[i].segmentos[j] \in 1..(n - 1)
      /\ \A i \in DOMAIN tablas : \A j \in Lugares(i)' :
            j \in Lugares(i) \/ (i = T /\ j = Len(L) + 1)
      /\ Len(L) + 1 \in Lugares(T)' /\ tablas'[T].segmentos[Len(L) + 1] = n
  <2>1. \A i \in DOMAIN tablas : \A j \in Lugares(i) :
           tablas[i].segmentos[j] \in 1..(n - 1)
    BY <1>3 DEF InvSegmentos, InvLugares
  <2>2. ASSUME NEW i \in DOMAIN tablas \ {T} PROVE Lugares(i)' = Lugares(i)
    BY <1>6 DEF Lugares
  <2>3. Lugares(T)' = 1..(Len(L) + 1) /\ Lugares(T) = 1..Len(L)
    <3> HIDE DEF L
    <3>1. DOMAIN tablas'[T].segmentos = 1..(Len(L) + 1)
      BY <1>5, <1>6
    <3>2. DOMAIN tablas[T].segmentos = 1..Len(L)
      BY <1>2, <1>5
    <3> QED BY <3>1, <3>2 DEF Lugares
  <2>4. \A i \in DOMAIN tablas \ {T} : \A j \in Lugares(i) :
           j \in Lugares(i)' /\ tablas'[i].segmentos[j] = tablas[i].segmentos[j]
    BY <1>6, <2>2
  <2>5. tablas[T].segmentos = L
    BY <1>2
  <2> HIDE DEF L
  <2>6. \A j \in Lugares(T) :
           j \in Lugares(T)' /\ tablas'[T].segmentos[j] = tablas[T].segmentos[j]
    BY <1>5, <1>6, <2>3, <2>5
  <2>7. \A j \in Lugares(T)' : j \in Lugares(T) \/ j = Len(L) + 1
    BY <1>5, <2>3
  <2>8. Len(L) + 1 \in Lugares(T)' /\ tablas'[T].segmentos[Len(L) + 1] = n
    BY <1>5, <1>6, <2>3
  <2> QED BY <2>1, <2>2, <2>4, <2>6, <2>7, <2>8
<1>9. Len(L) + 1 <= n
  <2>1. CASE Len(L) = 0
    <3>1. n # 0
      BY <1>3 DEF n
    <3> QED BY <1>3, <2>1, <3>1
  <2>2. CASE Len(L) # 0
    <3>1. Len(L) \in Lugares(T)
      BY <1>2, <1>5, <2>2 DEF Lugares
    <3>2. Len(L) <= L[Len(L)] /\ L[Len(L)] <= n - 1
      BY <1>2, <1>3, <1>8, <3>1 DEF InvSegmentos, InvLugares
    <3> QED BY <1>2, <1>3, <1>5, <2>2, <3>2
  <2> QED BY <2>1, <2>2
<1> HIDE DEF L
<1>10. InvLugares'
  <2>1. ASSUME NEW i \in DOMAIN tablas, NEW j \in Lugares(i)'
        PROVE  LET s == tablas'[i].segmentos[j] IN
               /\ s \in 1..n /\ s \notin liberados /\ j <= s
               /\ \A k \in DOMAIN tablas : \A l \in Lugares(k)' :
                     tablas'[k].segmentos[l] = s => i = k /\ j = l
    <3>1. n \notin liberados
      BY <1>3 DEF InvSegmentos, InvTipos
    <3>2. CASE j \in Lugares(i)
      <4>1. n # tablas'[i].segmentos[j]
        BY <1>3, <1>8, <3>2
      <4> QED BY <1>3, <1>8, <3>2, <4>1 DEF InvSegmentos, InvLugares
    <3>3. CASE i = T /\ j = Len(L) + 1
      <4>1. \A k \in DOMAIN tablas : \A l \in Lugares(k) : tablas'[k].segmentos[l] # n
        BY <1>3, <1>8
      <4> QED BY <1>3, <1>8, <1>9, <3>1, <3>3, <4>1
    <3> QED BY <1>8, <3>2, <3>3
  <2>2. ASSUME NEW s \in (1..n) \ liberados
        PROVE  \E i \in DOMAIN tablas : \E j \in Lugares(i)' : tablas'[i].segmentos[j] = s
    <3>1. CASE s = n
      <4>1. Len(L) + 1 \in Lugares(T)' /\ tablas'[T].segmentos[Len(L) + 1] = s
        BY <1>8, <3>1
      <4> QED BY <4>1
    <3>2. CASE s # n
      <4>1. s \in DOMAIN id_de \ liberados
        BY <1>3, <3>2
      <4> QED BY <1>8, <4>1 DEF InvSegmentos, InvLugares
    <3> QED BY <3>1, <3>2
  <2> QED BY <1>1, <1>3, <1>6, <2>1, <2>2 DEF InvLugares
<1> QED BY <1>1, <1>6, <1>7, <1>10, SaleBien DEF InvSegmentos

\* The elements after the one that goes move one place.
LEMMA QuitarBien ==
    ASSUME InvSegmentos, NEW t \in Hilos, Quitar(t)
    PROVE  InvSegmentos'
<1> DEFINE T == tabla[t]
           L == Segs(t)
<1>1. /\ hilo[t] = "quita" /\ Unlock /\ Ir(t, "libre") /\ EnCritica(t)
      /\ UNCHANGED <<id_de, llamada, tabla, ultimo, cursor, cruzados>>
  BY DEF Quitar, EnCritica
<1>2. /\ T \in DOMAIN tablas /\ L \in Seq(Nat) /\ tablas[T] \in Tablas
      /\ \A j \in DOMAIN L : \A l \in DOMAIN L : L[l] = L[j] => l = j
  BY <1>1, SuTabla DEF InvSegmentos, InvTipos
<1>3. PICK k \in DOMAIN L : cursor[t] = L[k]
  BY <1>1 DEF InvSegmentos, InvBusqueda, BusquedaBien
<1> DEFINE M == RemoveFirst(L, L[k])
<1>4. PICK n \in Nat : /\ n = Len(L) /\ DOMAIN L = 1..n /\ k \in 1..n
                       /\ M \in Seq(Nat) /\ DOMAIN M = 1..(n - 1)
                       /\ \A j \in 1..(n - 1) : M[j] = IF j < k THEN L[j] ELSE L[j + 1]
  <2>1. /\ M \in Seq(Nat) /\ Len(M) = Len(L) - 1
        /\ \A j \in 1..(Len(L) - 1) : M[j] = IF j < k THEN L[j] ELSE L[j + 1]
    BY <1>2, <1>3, QuitaUno
  <2> HIDE DEF M
  <2>2. DOMAIN M = 1..Len(M) /\ DOMAIN L = 1..Len(L) /\ Len(L) \in Nat
    BY <1>2, <2>1, LenProperties
  <2> QED BY <1>3, <2>1, <2>2
<1>5. /\ tablas' = [tablas EXCEPT ![T].segmentos = M]
      /\ liberados' = liberados \cup {L[k]}
  BY <1>3 DEF Quitar, Segs
<1> HIDE DEF M
<1>6. /\ tablas' \in Seq(Tablas) /\ DOMAIN tablas' = DOMAIN tablas
      /\ \A i \in DOMAIN tablas : tablas'[i].pid = tablas[i].pid
      /\ tablas'[T].segmentos = M
      /\ \A i \in DOMAIN tablas \ {T} : tablas'[i].segmentos = tablas[i].segmentos
  BY <1>2, <1>4, <1>5, CambiaLista DEF InvSegmentos
<1>7. L[k] \in DOMAIN id_de
  BY <1>1, SuTabla
<1>8. InvTipos'
  BY <1>1, <1>5, <1>6, <1>7 DEF InvSegmentos, InvTipos, Puntos, Unlock, Ir
<1> DEFINE antes(i, j) == IF i = T /\ ~(j < k) THEN j + 1 ELSE j
<1>9. ASSUME NEW i \in DOMAIN tablas, NEW j \in Lugares(i)'
      PROVE  /\ antes(i, j) \in Lugares(i) /\ j \in Nat /\ j <= antes(i, j)
             /\ tablas'[i].segmentos[j] = tablas[i].segmentos[antes(i, j)]
             /\ i = T => antes(i, j) # k
  <2>1. CASE i # T
    <3>1. Lugares(i)' = Lugares(i) /\ tablas'[i].segmentos = tablas[i].segmentos
      BY <1>6, <2>1 DEF Lugares
    <3>2. Lugares(i) = 1..Len(tablas[i].segmentos) /\ Len(tablas[i].segmentos) \in Nat
      BY TablaTipo DEF InvSegmentos, Lugares
    <3> QED BY <2>1, <3>1, <3>2
  <2>2. CASE i = T
    <3>1. Lugares(i)' = 1..(n - 1) /\ Lugares(i) = 1..n
      BY <1>4, <1>6, <2>2 DEF Lugares, Segs
    <3>2. tablas'[i].segmentos[j] = IF j < k THEN L[j] ELSE L[j + 1]
      BY <1>4, <1>6, <2>2, <3>1
    <3> QED BY <1>4, <2>2, <3>1, <3>2 DEF Segs
  <2> QED BY <2>1, <2>2
<1>10. ASSUME NEW i \in DOMAIN tablas, NEW j \in Lugares(i), i = T => j # k
       PROVE  \E l \in Lugares(i)' : tablas'[i].segmentos[l] = tablas[i].segmentos[j]
  <2>1. CASE i # T
    BY <1>6, <2>1 DEF Lugares
  <2>2. CASE i = T
    <3>1. Lugares(i)' = 1..(n - 1) /\ Lugares(i) = 1..n
      BY <1>4, <1>6, <2>2 DEF Lugares, Segs
    <3>2. CASE j < k
      <4>1. j \in 1..(n - 1)
        BY <1>4, <3>1, <3>2
      <4> QED BY <1>4, <1>6, <2>2, <3>1, <3>2, <4>1 DEF Segs
    <3>3. CASE ~(j < k)
      <4>1. j - 1 \in 1..(n - 1) /\ ~(j - 1 < k) /\ (j - 1) + 1 = j
        BY <1>4, <1>10, <2>2, <3>1, <3>3
      <4> QED BY <1>4, <1>6, <2>2, <3>1, <4>1 DEF Segs
    <3> QED BY <3>2, <3>3
  <2> QED BY <2>1, <2>2
<1>11. InvLugares'
  <2>1. ASSUME NEW i \in DOMAIN tablas, NEW j \in Lugares(i)'
        PROVE  LET s == tablas'[i].segmentos[j] IN
               /\ s \in DOMAIN id_de /\ s \notin liberados' /\ j <= s
               /\ \A m \in DOMAIN tablas : \A l \in Lugares(m)' :
                     tablas'[m].segmentos[l] = s => i = m /\ j = l
    <3> DEFINE s == tablas'[i].segmentos[j]
               p == antes(i, j)
    <3>1. /\ p \in Lugares(i) /\ j \in Nat /\ j <= p /\ s = tablas[i].segmentos[p]
          /\ i = T => p # k
      BY <1>9
    <3>2. /\ s \in DOMAIN id_de /\ s \notin liberados /\ p <= s
          /\ \A m \in DOMAIN tablas : \A l \in Lugares(m) :
                tablas[m].segmentos[l] = s => i = m /\ p = l
      <4> HIDE DEF s, p
      <4> QED BY <3>1 DEF InvSegmentos, InvLugares
    <3>3. s # L[k]
      <4>1. k \in Lugares(T) /\ L[k] = tablas[T].segmentos[k]
        BY <1>3 DEF Lugares, Segs
      <4> HIDE DEF s, p, L, T
      <4> QED BY <1>2, <3>1, <3>2, <4>1 DEF T
    <3>4. ASSUME NEW m \in DOMAIN tablas, NEW l \in Lugares(m)',
                 tablas'[m].segmentos[l] = s
          PROVE  i = m /\ j = l
      <4>1. antes(m, l) \in Lugares(m) /\ l \in Nat
            /\ tablas[m].segmentos[antes(m, l)] = s
        BY <1>9, <3>4
      <4>2. i = m /\ p = antes(m, l)
        <5> HIDE DEF s, p, antes
        <5> QED BY <3>2, <4>1
      <4>3. k \in Nat
        BY <1>4
      <4>4. j = l
        <5> HIDE DEF T
        <5> QED BY <3>1, <4>1, <4>2, <4>3
      <4> QED BY <4>2, <4>4
    <3>5. j <= s
      <4>1. s \in Nat /\ p \in Nat
        <5>1. s \in Nat
          BY <3>2 DEF InvSegmentos, InvTipos
        <5>2. p \in Nat
          BY <3>1
        <5> QED BY <5>1, <5>2
      <4> HIDE DEF s, p
      <4> QED BY <3>1, <3>2, <4>1
    <3> QED BY <1>5, <3>2, <3>3, <3>4, <3>5
  <2>2. ASSUME NEW s \in DOMAIN id_de \ liberados'
        PROVE  \E i \in DOMAIN tablas : \E j \in Lugares(i)' : tablas'[i].segmentos[j] = s
    <3>1. s # L[k] /\ s \in DOMAIN id_de \ liberados
      BY <1>5
    <3>2. PICK i \in DOMAIN tablas : \E j \in Lugares(i) : tablas[i].segmentos[j] = s
      BY <3>1 DEF InvSegmentos, InvLugares
    <3>4. PICK j \in Lugares(i) : tablas[i].segmentos[j] = s
      BY <3>2
    <3>3. i = T => j # k
      BY <3>1, <3>4 DEF Segs
    <3> QED BY <1>10, <3>3, <3>4
  <2> QED BY <1>1, <1>6, <2>1, <2>2 DEF InvLugares
<1> QED BY <1>1, <1>6, <1>8, <1>11, SaleBien DEF InvSegmentos
-----------------------------------------------------------------------------
(* The theorems *)

\* A segment is in one place until it is freed, a critical section has the mutex,
\* and a search that has it has left nothing behind, however many threads call.
THEOREM InvarianteSegmentos == Spec => []InvSegmentos
<1>1. Init => InvSegmentos
  <2> SUFFICES ASSUME Init PROVE InvSegmentos
    OBVIOUS
  <2>1. InvTipos
    BY DEF Init, InvTipos, Puntos, PidsYCero, IdsYCero, Operaciones, NULO
  <2>2. InvMutex
    BY SupuestosSegmentos DEF Init, InvMutex, EnCritica
  <2>3. InvLlamada /\ InvUltimo /\ InvBusqueda
    BY DEF Init, InvLlamada, InvUltimo, InvBusqueda, BusquedaBien, EnCritica
  <2>4. InvLugares
    BY DEF Init, InvLugares
  <2> QED BY <2>1, <2>2, <2>3, <2>4 DEF InvSegmentos
<1>2. InvSegmentos /\ [Next]_vars => InvSegmentos'
  <2> SUFFICES ASSUME InvSegmentos, [Next]_vars PROVE InvSegmentos'
    OBVIOUS
  <2>1. CASE UNCHANGED vars
    BY <2>1 DEF vars, InvSegmentos, InvTipos, InvMutex, InvLlamada, InvLugares,
                InvUltimo, InvBusqueda, BusquedaBien, EnCritica, Ajenos, Lugares,
                Segs, op, pid, id
  <2>2. ASSUME NEW t \in Hilos, Paso(t) PROVE InvSegmentos'
    BY <2>2, CrearBien, EnlazarTablaBien, BuscarTablaBien, RegistrarBien,
       EnlazarSegmentoBien, EmpezarBien, CompararBien, TerminaBien, QuitarBien
       DEF Paso
  <2>3. ASSUME NEW t \in Hilos, Llamar(t) PROVE InvSegmentos'
    BY <2>3, LlamarBien
  <2> QED BY <2>1, <2>2, <2>3 DEF Next
<1> QED BY <1>1, <1>2, PTL DEF Spec

\* No list_add of two threads loses a segment and no list_remove takes one twice,
\* whatever the searches without a mutex do (gestion.c:324-361).
THEOREM NadaSePierdeSiempre == Spec => []NadaSePierde
<1>1. InvSegmentos => NadaSePierde
  <2> SUFFICES ASSUME InvSegmentos, NEW s \in DOMAIN id_de
               PROVE  Cardinality(EnTabla(s)) = IF s \in liberados THEN 0 ELSE 1
    BY DEF NadaSePierde
  <2>1. CASE s \in liberados
    <3>1. EnTabla(s) = {}
      BY <2>1 DEF EnTabla, InvSegmentos, InvLugares, Lugares
    <3> QED BY <2>1, <3>1, FS_EmptySet
  <2>2. CASE s \notin liberados
    <3>4. PICK i \in DOMAIN tablas : \E j \in Lugares(i) : tablas[i].segmentos[j] = s
      BY <2>2 DEF InvSegmentos, InvLugares
    <3>1. PICK j \in Lugares(i) : tablas[i].segmentos[j] = s
      BY <3>4
    <3>2. j \in DOMAIN id_de
      <4>2. j \in Nat /\ 1 <= j
        BY TablaTipo DEF InvSegmentos, Lugares
      <4>3. j <= s
        BY <3>1 DEF InvSegmentos, InvLugares
      <4>4. DOMAIN id_de = 1..Len(id_de) /\ Len(id_de) \in Nat
        BY LenProperties DEF InvSegmentos, InvTipos
      <4> QED BY <4>2, <4>3, <4>4
    <3>3. EnTabla(s) = {<<i, j>>}
      <4>1. <<i, j>> \in EnTabla(s)
        BY <3>1, <3>2 DEF EnTabla, Lugares
      <4>2. ASSUME NEW x \in EnTabla(s) PROVE x = <<i, j>>
        <5>1. /\ x \in (DOMAIN tablas) \X (DOMAIN id_de)
              /\ x[2] \in Lugares(x[1]) /\ tablas[x[1]].segmentos[x[2]] = s
          BY DEF EnTabla, Lugares
        <5>2. x[1] = i /\ x[2] = j
          BY <3>1, <5>1 DEF InvSegmentos, InvLugares
        <5> QED BY <5>1, <5>2
      <4> QED BY <4>1, <4>2
    <3> QED BY <2>2, <3>3, FS_Singleton
  <2> QED BY <2>1, <2>2
<1> QED BY <1>1, InvarianteSegmentos, PTL

\* What eliminar removes is in the table of the pid that was asked for, and is
\* the first with its id unless a search without the mutex changed the global.
THEOREM EliminaElPedidoSiempre == Spec => []EliminaElPedido
<1>1. InvSegmentos => EliminaElPedido
  <2> SUFFICES ASSUME InvSegmentos, NEW t \in Hilos, hilo[t] = "quita"
               PROVE  LET i == SelectInSeq(Segs(t), LAMBDA s : s = cursor[t]) IN
                      /\ i # 0
                      /\ tablas[tabla[t]].pid = pid(t)
                      /\ t \notin cruzados => i = SelectInSeq(Segs(t),
                                                      LAMBDA s : id_de[s] = id(t))
    BY DEF EliminaElPedido
  <2>1. /\ Segs(t) \in Seq(Nat) /\ tablas[tabla[t]].pid = pid(t)
        /\ \A j \in DOMAIN Segs(t) : \A l \in DOMAIN Segs(t) :
              Segs(t)[l] = Segs(t)[j] => l = j
    BY SuTabla
  <2>2. PICK k \in DOMAIN Segs(t) :
           /\ Segs(t)[k] = cursor[t]
           /\ t \notin cruzados => id_de[cursor[t]] = id(t) /\ Ajenos(t, k)
    BY DEF InvSegmentos, InvBusqueda, BusquedaBien
  <2>3. SelectInSeq(Segs(t), LAMBDA s : s = cursor[t]) = k
    <3> DEFINE L == Segs(t)
               c == cursor[t]
    <3>1. L \in Seq(Nat) /\ k \in DOMAIN L /\ L[k] = c
      BY <2>1, <2>2
    <3>2. \A j \in DOMAIN L : L[j] = c => j = k
      <4>1. \A j \in DOMAIN L : \A l \in DOMAIN L : L[l] = L[j] => l = j
        BY <2>1
      <4> HIDE DEF L, c
      <4> QED BY <3>1, <4>1
    <3> HIDE DEF L, c
    <3>3. SelectInSeq(L, LAMBDA x : x = c) = k
      <4>1. \A j \in DOMAIN L : L[j] = L[k] => j = k
        BY <3>1, <3>2
      <4>2. SelectInSeq(L, LAMBDA x : x = L[k]) = k
        BY <3>1, <4>1, DondeEsta
      <4> QED BY <3>1, <4>2
    <3> QED BY <3>3 DEF L, c
  <2>4. t \notin cruzados => SelectInSeq(Segs(t), LAMBDA s : id_de[s] = id(t)) = k
    BY <2>1, <2>2, PrimeroConId DEF Ajenos
  <2>5. k # 0
    BY <2>1
  <2> QED BY <2>1, <2>3, <2>4, <2>5
<1> QED BY <1>1, InvarianteSegmentos, PTL
=============================================================================
