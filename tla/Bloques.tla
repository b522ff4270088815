------------------------------- MODULE Bloques -------------------------------
(***************************************************************************)
(* What the swap promises to Kernel Memory: a store of blocks where each   *)
(* request takes effect once, at a moment between the request and its      *)
(* answer.  A request may be left without an answer, and then it has taken *)
(* effect or not; what has taken effect stays.  A block that nobody has    *)
(* written holds anything, and not always the same thing.                  *)
(***************************************************************************)
CONSTANTS Numeros,        \* the numbers of the blocks
          Contenidos,     \* what may be written in one
          INDEF,          \* the content of a block that nobody has written
          Ninguno         \* no request, no answer

VARIABLES bloques,        \* the content of each block
          pedido,         \* the request under way
          hecho,          \* whether it has taken effect
          leido,          \* what the read has found
          respuesta       \* the answer on its way

vars == <<bloques, pedido, hecho, leido, respuesta>>

Basura == Contenidos \cup {INDEF}
Pedidos == {[op |-> "leer", numero |-> n] : n \in Numeros}
           \cup {[op |-> "escribir", numero |-> n, contenido |-> v] :
                 n \in Numeros, v \in Contenidos}

Init ==
    /\ bloques = [n \in Numeros |-> INDEF]
    /\ pedido = Ninguno
    /\ hecho = FALSE
    /\ leido = INDEF
    /\ respuesta = Ninguno

Pide ==
    /\ pedido = Ninguno
    /\ respuesta = Ninguno
    /\ pedido' \in Pedidos
    /\ UNCHANGED <<bloques, hecho, leido, respuesta>>

Escribe ==
    /\ pedido # Ninguno /\ ~hecho
    /\ pedido.op = "escribir"
    /\ bloques' = [bloques EXCEPT ![pedido.numero] = pedido.contenido]
    /\ hecho' = TRUE
    /\ UNCHANGED <<pedido, leido, respuesta>>

Lee ==
    /\ pedido # Ninguno /\ ~hecho
    /\ pedido.op = "leer"
    /\ leido' \in IF bloques[pedido.numero] = INDEF THEN Basura
                  ELSE {bloques[pedido.numero]}
    /\ hecho' = TRUE
    /\ UNCHANGED <<bloques, pedido, respuesta>>

Responde ==
    /\ hecho
    /\ respuesta' = [op |-> pedido.op, dato |-> leido]
    /\ pedido' = Ninguno
    /\ hecho' = FALSE
    /\ leido' = INDEF
    /\ UNCHANGED bloques

\* The request or its answer is lost: the swap or Kernel Memory has crashed.
SePierde ==
    /\ pedido' = Ninguno
    /\ hecho' = FALSE
    /\ leido' = INDEF
    /\ respuesta' = Ninguno
    /\ UNCHANGED bloques

Llega ==
    /\ respuesta # Ninguno
    /\ respuesta' = Ninguno
    /\ UNCHANGED <<bloques, pedido, hecho, leido>>

Next == Pide \/ Escribe \/ Lee \/ Responde \/ SePierde \/ Llega

Spec == Init /\ [][Next]_vars
=============================================================================
