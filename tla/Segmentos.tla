------------------------------ MODULE Segmentos ------------------------------
(***************************************************************************)
(* The segment tables of kernel_memory (gestion.c:281-361), called by any  *)
(* number of threads.  mutex_tablas_segmentos protects the lists, but      *)
(* buscar_segmento_en_proceso takes no mutex, and the id that a search     *)
(* compares with is a global: a search may change the id of another one.   *)
(*                                                                         *)
(* A critical section that shares nothing with a thread outside it is one  *)
(* step; list_add is two, the walk to the last element and the link.  A    *)
(* segment is the number of its registration, which gives its id.          *)
(***************************************************************************)
EXTENDS Naturals, Sequences, SequencesExt

CONSTANTS Hilos,         \* threads that call
          Pids, Ids,     \* their arguments
          Nadie,         \* the owner of a free mutex
          MaxLlamadas    \* bound: calls in all

ASSUME SupuestosSegmentos ==
    /\ Nadie \notin Hilos
    /\ MaxLlamadas \in Nat

NULO == 0
Operaciones == {"crear", "registrar", "buscar", "eliminar"}

VARIABLES
    tablas,           \* tablas_segmentos_procesos: a pid and a list of segments
    id_de,            \* the id_segmento of each segment ever registered
    liberados,        \* the segments that have been freed
    mutex,            \* the thread that has mutex_tablas_segmentos
    seg_id_buscado,   \* the global _seg_id_buscado
    hilo,             \* the control point of each thread
    llamada,          \* the call it is in: operation, pid and id
    tabla,            \* the table it has found: its place in tablas, or NULL
    ultimo,           \* the length that its list_add has seen
    cursor,           \* the segment its search is at, then its result, or NULL
    cruzados,         \* threads whose search somebody may have misled
    llamadas,         \* how many calls there have been
    vivo              \* the process has not crashed

vars == <<tablas, id_de, liberados, mutex, seg_id_buscado, hilo, llamada, tabla,
          ultimo, cursor, cruzados, llamadas, vivo>>

Ir(t, p) == hilo' = [hilo EXCEPT ![t] = p]
op(t)  == llamada[t].op
pid(t) == llamada[t].pid
id(t)  == llamada[t].id

\* The segments of the table that a thread has found.
Segs(t) == tablas[tabla[t]].segmentos
Siguiente(lista, s) ==
    LET i == SelectInSeq(lista, LAMBDA x : x = s) IN
    IF i = Len(lista) THEN NULO ELSE lista[i + 1]
Primero(lista) == IF lista = <<>> THEN NULO ELSE Head(lista)

\* The first table of a pid, as list_find gives it.
TablaDe(p) == SelectInSeq(tablas, LAMBDA x : x.pid = p)

\* pthread_mutex_lock and unlock.  (Mutant: lock does not wait.)
LibreSinMirar == TRUE
MutexLibre == mutex = Nadie
Lock(t) == MutexLibre /\ mutex' = t
Unlock == mutex' = Nadie

Init ==
    /\ tablas = <<>>
    /\ id_de = <<>>
    /\ liberados = {}
    /\ mutex = Nadie
    /\ seg_id_buscado = 0
    /\ hilo = [t \in Hilos |-> "libre"]
    /\ llamada = [t \in Hilos |-> [op |-> "crear", pid |-> 0, id |-> 0]]
    /\ tabla = [t \in Hilos |-> NULO]
    /\ ultimo = [t \in Hilos |-> 0]
    /\ cursor = [t \in Hilos |-> NULO]
    /\ cruzados = {}
    /\ llamadas = 0
    /\ vivo = TRUE

-----------------------------------------------------------------------------
\* A thread calls one of the four.
Llamar(t) ==
    /\ hilo[t] = "libre"
    /\ llamadas < MaxLlamadas
    /\ \E o \in Operaciones, p \in Pids, i \in Ids :
          llamada' = [llamada EXCEPT ![t] = [op |-> o, pid |-> p, id |-> i]]
    /\ Ir(t, IF op(t)' = "crear" THEN "crea" ELSE "busca_tabla")
    /\ llamadas' = llamadas + 1
    /\ UNCHANGED <<tablas, id_de, liberados, mutex, seg_id_buscado, tabla,
                   ultimo, cursor, cruzados, vivo>>

\* crear_tabla_segmentos_proceso: lock, and list_add walks to the end.
Crear(t) ==
    /\ hilo[t] = "crea"
    /\ Lock(t)
    /\ ultimo' = [ultimo EXCEPT ![t] = Len(tablas)]
    /\ Ir(t, "enlaza_tabla")
    /\ UNCHANGED <<tablas, id_de, liberados, seg_id_buscado, llamada, tabla,
                   cursor, cruzados, llamadas, vivo>>

\* list_add links after the element it has walked to.
Enlazar(lista, n, x) == Append(SubSeq(lista, 1, n), x)

EnlazarTabla(t) ==
    /\ hilo[t] = "enlaza_tabla"
    /\ tablas' = Enlazar(tablas, ultimo[t], [pid |-> pid(t), segmentos |-> <<>>])
    /\ Unlock
    /\ Ir(t, "libre")
    /\ UNCHANGED <<id_de, liberados, seg_id_buscado, llamada, tabla, ultimo,
                   cursor, cruzados, llamadas, vivo>>

\* buscar_tabla_segmentos, with which the other three begin.
BuscarTabla(t) ==
    /\ hilo[t] = "busca_tabla"
    /\ MutexLibre
    /\ tabla' = [tabla EXCEPT ![t] = TablaDe(pid(t))]
    /\ Ir(t, IF tabla'[t] = NULO THEN "libre" ELSE op(t))
    /\ UNCHANGED <<tablas, id_de, liberados, mutex, seg_id_buscado, llamada,
                   ultimo, cursor, cruzados, llamadas, vivo>>

\* registrar_nuevo_segmento
Registrar(t) ==
    /\ hilo[t] = "registrar"
    /\ Lock(t)
    /\ ultimo' = [ultimo EXCEPT ![t] = Len(Segs(t))]
    /\ Ir(t, "enlaza_segmento")
    /\ UNCHANGED <<tablas, id_de, liberados, seg_id_buscado, llamada, tabla,
                   cursor, cruzados, llamadas, vivo>>

EnlazarSegmento(t) ==
    /\ hilo[t] = "enlaza_segmento"
    /\ id_de' = Append(id_de, id(t))
    /\ tablas' = [tablas EXCEPT ![tabla[t]].segmentos =
                     Enlazar(@, ultimo[t], Len(id_de'))]
    /\ Unlock
    /\ Ir(t, "libre")
    /\ UNCHANGED <<liberados, seg_id_buscado, llamada, tabla, ultimo, cursor,
                   cruzados, llamadas, vivo>>

-----------------------------------------------------------------------------
(* The two searches. *)

\* (Mutant of the next one: the global takes the pid, the other uint32_t.)
EmpezarConPid(t, indefensos) ==
    /\ seg_id_buscado' = pid(t)
    /\ cruzados' = (cruzados \cup {u \in indefensos : hilo[u] = "compara"}) \ {t}
    /\ cursor' = [cursor EXCEPT ![t] = Primero(Segs(t))]
    /\ Ir(t, "compara")
    /\ UNCHANGED <<tablas, id_de, liberados, llamada, tabla, ultimo, llamadas,
                   vivo>>

\* The global takes the id of this search, and with it every search under way
\* that nothing protects from this one.
Empezar(t, indefensos) ==
    /\ seg_id_buscado' = id(t)
    /\ cruzados' = (cruzados \cup {u \in indefensos : hilo[u] = "compara"}) \ {t}
    /\ cursor' = [cursor EXCEPT ![t] = Primero(Segs(t))]
    /\ Ir(t, "compara")
    /\ UNCHANGED <<tablas, id_de, liberados, llamada, tabla, ultimo, llamadas,
                   vivo>>

\* buscar_segmento_en_proceso: no mutex.
Buscar(t) ==
    /\ hilo[t] = "buscar"
    /\ Empezar(t, Hilos)
    /\ UNCHANGED mutex

\* eliminar_segmento_de_proceso, which keeps the mutex while it compares.
Eliminar(t) ==
    /\ hilo[t] = "eliminar"
    /\ Lock(t)
    /\ Empezar(t, {u \in Hilos : op(u) = "buscar"})

\* _comparar_segmento_id on the segment the search is at.
Comparar(t) ==
    /\ hilo[t] = "compara"
    /\ cursor[t] \in Range(Segs(t))
    /\ IF id_de[cursor[t]] = seg_id_buscado
       THEN Ir(t, IF op(t) = "buscar" THEN "libre" ELSE "quita")
            /\ cursor' = cursor
       ELSE cursor' = [cursor EXCEPT ![t] = Siguiente(Segs(t), cursor[t])]
            /\ hilo' = hilo
    /\ UNCHANGED <<tablas, id_de, liberados, mutex, seg_id_buscado, llamada,
                   tabla, ultimo, cruzados, llamadas, vivo>>

\* (Mutant of the next one: the early return keeps the mutex.)
NoEstaSinUnlock(t) ==
    /\ hilo[t] = "compara"
    /\ cursor[t] = NULO
    /\ Ir(t, "libre")
    /\ UNCHANGED <<tablas, id_de, liberados, mutex, seg_id_buscado, llamada,
                   tabla, ultimo, cursor, cruzados, llamadas, vivo>>

\* The end of the list: nothing is found.
NoEsta(t) ==
    /\ hilo[t] = "compara"
    /\ cursor[t] = NULO
    /\ IF op(t) = "eliminar" THEN Unlock ELSE mutex' = mutex
    /\ Ir(t, "libre")
    /\ UNCHANGED <<tablas, id_de, liberados, seg_id_buscado, llamada, tabla,
                   ultimo, cursor, cruzados, llamadas, vivo>>

\* A search without the mutex reads a link that has been freed: it crashes, goes
\* on to what looks like the end, returns the segment that is no more, or, when
\* the link is in the list again, goes on from another segment.
CompararLiberado(t) ==
    /\ hilo[t] = "compara"
    /\ cursor[t] \in liberados
    /\ \/ vivo' = FALSE /\ UNCHANGED <<hilo, cursor>>
       \/ vivo' = vivo /\ Ir(t, "libre")
          /\ cursor' \in {cursor, [cursor EXCEPT ![t] = NULO]}
       \/ vivo' = vivo /\ hilo' = hilo
          /\ \E s \in Range(Segs(t)) : cursor' = [cursor EXCEPT ![t] = s]
    /\ UNCHANGED <<tablas, id_de, liberados, mutex, seg_id_buscado, llamada,
                   tabla, ultimo, cruzados, llamadas>>

\* list_remove of what was found, unlock and free.
Quitar(t) ==
    /\ hilo[t] = "quita"
    /\ tablas' = [tablas EXCEPT ![tabla[t]].segmentos = RemoveFirst(@, cursor[t])]
    /\ liberados' = liberados \cup {cursor[t]}
    /\ Unlock
    /\ Ir(t, "libre")
    /\ UNCHANGED <<id_de, seg_id_buscado, llamada, tabla, ultimo, cursor,
                   cruzados, llamadas, vivo>>

Paso(t) ==
    /\ vivo
    /\ \/ Crear(t) \/ EnlazarTabla(t) \/ BuscarTabla(t)
       \/ Registrar(t) \/ EnlazarSegmento(t)
       \/ Buscar(t) \/ Eliminar(t)
       \/ Comparar(t) \/ NoEsta(t) \/ CompararLiberado(t) \/ Quitar(t)

Next == \E t \in Hilos : Paso(t) \/ (vivo /\ Llamar(t))

Spec == Init /\ [][Next]_vars

\* A thread that can go on does.  With MaxLlamadas calls in all, the mutex is
\* free again for good whoever waits for it, so weak fairness is enough.
EspecJusta == Spec /\ \A t \in Hilos : WF_vars(Paso(t))
=============================================================================
