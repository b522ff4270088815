------------------------- MODULE PropiedadesSegmentos -------------------------
(* What makes the segment tables correct, stated on their state. *)
EXTENDS Segmentos

\* Every segment that has been registered is in one place of one table or has
\* been freed, once: no list_add is lost and none is removed twice, whatever
\* the threads do at the same time (gestion.c:324-361).
EnTabla(s) == {x \in (DOMAIN tablas) \X (DOMAIN id_de) :
                  /\ x[2] \in DOMAIN tablas[x[1]].segmentos
                  /\ tablas[x[1]].segmentos[x[2]] = s}

NadaSePierde ==
    \A s \in DOMAIN id_de :
        Cardinality(EnTabla(s)) = IF s \in liberados THEN 0 ELSE 1

\* "Eliminación de Segmento ID" (gestion.c:356): what eliminar removes is still
\* in the table of its pid, and it is the first segment with its id unless a
\* search without the mutex has begun in the middle.
EliminaElPedido ==
    \A t \in Hilos :
        hilo[t] = "quita" =>
            LET i == SelectInSeq(Segs(t), LAMBDA s : s = cursor[t]) IN
            /\ i # 0
            /\ tablas[tabla[t]].pid = pid(t)
            /\ t \notin cruzados => i = SelectInSeq(Segs(t),
                                            LAMBDA s : id_de[s] = id(t))

\* Every call returns, unless the process has crashed: whoever takes the mutex
\* gives it back, and no search walks for ever (gestion.c:281-361).
LlamadaTermina ==
    \A t \in Hilos : hilo[t] # "libre" ~> hilo[t] = "libre" \/ ~vivo
-----------------------------------------------------------------------------
(* What NadaSePierde and EliminaElPedido rest on. *)

Puntos == {"libre", "crea", "enlaza_tabla", "busca_tabla", "registrar",
           "enlaza_segmento", "buscar", "eliminar", "compara", "quita"}
PidsYCero == Pids \cup {0}
IdsYCero  == Ids \cup {0}
Tablas    == [pid : PidsYCero, segmentos : Seq(Nat)]

InvTipos ==
    /\ tablas \in Seq(Tablas)
    /\ id_de \in Seq(IdsYCero)
    /\ liberados \subseteq DOMAIN id_de
    /\ mutex \in Hilos \cup {Nadie}
    /\ hilo \in [Hilos -> Puntos]
    /\ llamada \in [Hilos -> [op : Operaciones, pid : PidsYCero, id : IdsYCero]]
    /\ tabla \in [Hilos -> Nat]
    /\ ultimo \in [Hilos -> Nat]
    /\ cursor \in [Hilos -> Nat]
    /\ cruzados \subseteq Hilos

\* The mutex is of the thread that is in a critical section of more than a step.
EnCritica(t) ==
    \/ hilo[t] \in {"enlaza_tabla", "enlaza_segmento", "quita"}
    \/ hilo[t] = "compara" /\ op(t) = "eliminar"

InvMutex == \A t \in Hilos : EnCritica(t) <=> mutex = t

\* A thread is at a point of its call, and the table it has found is that of its
\* pid: tables are never removed.
InvLlamada ==
    \A t \in Hilos :
        /\ hilo[t] \in {"registrar", "enlaza_segmento"} => op(t) = "registrar"
        /\ hilo[t] \in {"eliminar", "quita"} => op(t) = "eliminar"
        /\ hilo[t] = "buscar" => op(t) = "buscar"
        /\ hilo[t] = "compara" => op(t) \in {"buscar", "eliminar"}
        /\ hilo[t] = "busca_tabla" => op(t) # "crear"
        /\ hilo[t] \in {"registrar", "enlaza_segmento", "buscar", "eliminar",
                        "compara", "quita"}
              => tabla[t] \in DOMAIN tablas /\ tablas[tabla[t]].pid = pid(t)

\* The segments that are in some table are those that have not been freed, and
\* each one is in one place.
Lugares(i) == DOMAIN tablas[i].segmentos
InvLugares ==
    /\ \A i \in DOMAIN tablas : \A j \in Lugares(i) :
          LET s == tablas[i].segmentos[j] IN
          /\ s \in DOMAIN id_de /\ s \notin liberados /\ j <= s
          /\ \A k \in DOMAIN tablas : \A l \in Lugares(k) :
                tablas[k].segmentos[l] = s => i = k /\ j = l
    /\ \A s \in DOMAIN id_de \ liberados :
          \E i \in DOMAIN tablas : \E j \in Lugares(i) : tablas[i].segmentos[j] = s

\* What a list_add saw is still the last element when it links.
InvUltimo ==
    \A t \in Hilos :
        /\ hilo[t] = "enlaza_tabla" => ultimo[t] = Len(tablas)
        /\ hilo[t] = "enlaza_segmento" => ultimo[t] = Len(Segs(t))

\* A search that has the mutex is at a segment of its table, and, when nobody has
\* changed the global, no segment before it has the id.
Ajenos(t, i) == \A j \in 1..(i - 1) : id_de[Segs(t)[j]] # id(t)
BusquedaBien(t) ==
    /\ EnCritica(t) /\ hilo[t] = "compara" =>
          /\ t \notin cruzados => seg_id_buscado = id(t)
          /\ cursor[t] # NULO => \E i \in DOMAIN Segs(t) :
                Segs(t)[i] = cursor[t] /\ (t \notin cruzados => Ajenos(t, i))
    /\ hilo[t] = "quita" => \E i \in DOMAIN Segs(t) :
          /\ Segs(t)[i] = cursor[t]
          /\ t \notin cruzados => id_de[cursor[t]] = id(t) /\ Ajenos(t, i)
InvBusqueda == \A t \in Hilos : BusquedaBien(t)

InvSegmentos ==
    InvTipos /\ InvMutex /\ InvLlamada /\ InvLugares /\ InvUltimo /\ InvBusqueda
=============================================================================
