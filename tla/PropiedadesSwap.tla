---------------------------- MODULE PropiedadesSwap ----------------------------
(* What makes the swap correct, stated on its state. *)
EXTENDS Swap

\* The state has its type, and the three places of a request exclude each other
\* (main.c:54-115).
TypeOK ==
    /\ existe \in BOOLEAN
    /\ tam \in 0..BLOQUES
    /\ archivo \in [Numeros -> Basura]
    /\ \A p \in Procesos :
          LET s == swap[p] IN
          /\ s.punto \in {"apagado", "abre", "crea", "trunca", "lazo", "gira",
                          "escribir", "vuelca", "leer", "responde"}
          /\ s.leido \in Basura
          /\ s.conexion \in {"sin", "saluda", "aceptada", "cerrada"}
          /\ {s.flujo, s.actual} \subseteq Pedidos \cup {Ninguno}
          /\ (s.punto \in {"escribir", "vuelca", "leer", "responde"})
                = (s.actual # Ninguno)
          /\ Ninguno \in {s.flujo, s.actual}
          /\ s.salida # Ninguno => s.flujo = s.actual

\* What makes it inductive: a process that serves a request has it, of the kind
\* that its point is for, and only a read that has not been answered holds data.
Puntos     == {"apagado", "abre", "crea", "trunca", "lazo", "gira", "escribir",
               "vuelca", "leer", "responde"}
Abriendo   == {"apagado", "abre", "crea"}
Sirviendo  == {"escribir", "vuelca", "leer", "responde"}
Respuestas == [op : {"leer", "escribir"}, dato : Basura]
Registros  == [punto : Puntos, actual : Pedidos \cup {Ninguno}, leido : Basura,
               conexion : {"sin", "saluda", "aceptada", "cerrada"},
               flujo : Pedidos \cup {Ninguno}, salida : Respuestas \cup {Ninguno}]

Coherente(s) ==
    /\ (s.punto \in Sirviendo) = (s.actual # Ninguno)
    /\ Ninguno \in {s.flujo, s.actual}
    /\ s.salida # Ninguno => s.flujo = s.actual
    /\ s.punto \in {"escribir", "vuelca"} => s.actual.op = "escribir"
    /\ s.punto = "leer" => s.actual.op = "leer"
    /\ s.punto # "responde" => s.leido = CERO

InvProcesos ==
    /\ swap \in [Procesos -> Registros]
    /\ \A p \in Procesos : Coherente(swap[p])

\* And of the file: it exists once anybody is past opening it, and has nothing
\* beyond its end.
InvArchivo ==
    /\ existe \in BOOLEAN
    /\ tam \in 0..BLOQUES
    /\ archivo \in [Numeros -> Basura]
    /\ ~existe => tam = 0
    /\ \A n \in Numeros : n >= tam => archivo[n] = CERO
    /\ \A p \in Procesos : swap[p].punto \notin Abriendo => existe

InvSwap == InvProcesos /\ InvArchivo

\* With a single swap nobody else creates the file between its two fopen().
CreaSolo == \A p \in Procesos : swap[p].punto = "crea" => ~existe

-----------------------------------------------------------------------------
(* One swap at a time implements Bloques: a block has what was written in it *)
(* as soon as fflush returns.                                                *)

Unico == swap[CHOOSE p \in Procesos : TRUE]

Guardado  == [n \in Numeros |-> IF n < tam THEN archivo[n] ELSE CERO]
Pendiente == IF Unico.flujo # Ninguno THEN Unico.flujo ELSE Unico.actual

Almacen == INSTANCE Bloques WITH
    INDEF <- CERO,
    bloques <- Guardado,
    pedido <- Pendiente,
    hecho <- Unico.punto = "responde",
    leido <- Unico.leido,
    respuesta <- Unico.salida

\* Whatever the moment at which either process dies, in the creation of the file
\* too, the swap is a store of blocks: an answer follows the effect, what took
\* effect stays, and a read finds what was last written (main.c:42-115).
ImplementaBloques == Almacen!Spec

\* A request that a swap has been sent is answered, unless one of the two dies
\* (main.c:54-115): the greeting that goes out before the file is open loses
\* nothing.
PedidoAtendido ==
    \A p \in Procesos :
        swap[p].flujo # Ninguno
            ~> (swap[p].salida # Ninguno \/ swap[p].conexion # "aceptada")

-----------------------------------------------------------------------------
\* "## Escritura del bloque" (main.c:74), "UN SWAP INTENTO CONECTARSE A
\* KERNEL_MEMORY" (kernel_memory/src/gestion.c:56): a block that has been
\* written is not lost, and a swap that is refused does nothing.
EscrituraQueda ==
    [][\A n \in Numeros : archivo[n] # CERO => archivo'[n] # CERO]_vars
=============================================================================
