--------------------------------- MODULE Swap ---------------------------------
(***************************************************************************)
(* swap/src/main.c: a process that serves the blocks of a file, which      *)
(* stays when the process dies.  It greets Kernel Memory before it opens   *)
(* the file, creates the file in two steps when there is none, and then    *)
(* serves block after block.  Kernel Memory accepts one swap in its life   *)
(* (kernel_memory/src/gestion.c:47-59), and a refused swap goes on.        *)
(*                                                                         *)
(* Swaps and Kernel Memory may die at any moment and be started again by   *)
(* hand.  What is in the stdio buffer dies with the process; what fflush   *)
(* wrote stays.  The disk does not fail.                                   *)
(***************************************************************************)
EXTENDS Naturals

CONSTANTS Procesos,     \* the swaps that may be running at once
          BLOQUES,      \* SWAP_FILE_SIZE / BLOCK_SIZE
          Contenidos,   \* what Kernel Memory may write in a block
          CERO,         \* a block of zeros
          Ninguno,      \* no request, no answer
          MaxCaidas     \* bound: deaths of the swaps, and of Kernel Memory

ASSUME SupuestosSwap ==
    /\ BLOQUES \in Nat \ {0}
    /\ CERO \notin Contenidos
    /\ MaxCaidas \in Nat

Numeros == 0..(BLOQUES - 1)
Basura  == Contenidos \cup {CERO}
Pedidos == {[op |-> "leer", numero |-> n] : n \in Numeros}
           \cup {[op |-> "escribir", numero |-> n, contenido |-> v] :
                 n \in Numeros, v \in Contenidos}

VARIABLES
    existe, tam,     \* the file: whether there is one and its length in blocks
    archivo,         \* its content, zeros where nobody has written
    swap,            \* each process and its connection, as follows
    recurso_swap,    \* whether the pointer of Kernel Memory is set
    huerfano,        \* NEW_SWAP of a dead swap that Kernel Memory has not read
    km,              \* whether Kernel Memory runs
    caidas           \* deaths of the swaps, and of Kernel Memory

varsArchivo == <<existe, tam, archivo>>
varsKm      == <<recurso_swap, huerfano, km>>
vars == <<varsArchivo, swap, varsKm, caidas>>

\* punto: where the process is; actual: the request it serves; leido:
\* bytes_leidos; conexion: "saluda" until Kernel Memory has read NEW_SWAP, then
\* "aceptada", or "cerrada" by the other end; flujo and salida: the request and
\* the answer on their way.
Apagado == [punto |-> "apagado", actual |-> Ninguno, leido |-> CERO,
            conexion |-> "sin", flujo |-> Ninguno, salida |-> Ninguno]

En(p, punto) == swap[p].punto = punto
Ir(p, punto) == swap' = [swap EXCEPT ![p].punto = punto]

Init ==
    /\ existe = FALSE
    /\ tam = 0
    /\ archivo = [n \in Numeros |-> CERO]
    /\ swap = [p \in Procesos |-> Apagado]
    /\ recurso_swap = FALSE
    /\ huerfano = FALSE
    /\ km = TRUE
    /\ caidas = [swap |-> 0, km |-> 0]

-----------------------------------------------------------------------------
\* The process ends, by itself or killed: its last answer is on its way and its
\* greeting may be left unread.
Morir(p) ==
    /\ swap' = [swap EXCEPT ![p] = [Apagado EXCEPT !.salida = swap[p].salida]]
    /\ huerfano' = (huerfano \/ swap[p].conexion = "saluda")
    /\ UNCHANGED <<recurso_swap, km>>

\* connect() and NEW_SWAP.  With Kernel Memory down the swap exits at once.
Arrancar(p) ==
    /\ En(p, "apagado")
    /\ km
    /\ swap' = [swap EXCEPT ![p].punto = "abre", ![p].conexion = "saluda"]
    /\ UNCHANGED <<varsArchivo, varsKm, caidas>>

\* (Mutant of the next one: the file is always created.)
AbrirNuevo(p) ==
    /\ En(p, "abre")
    /\ Ir(p, "crea")
    /\ UNCHANGED <<varsArchivo, varsKm, caidas>>

\* fopen "r+", which fails when there is no file.
Abrir(p) ==
    /\ En(p, "abre")
    /\ Ir(p, IF existe THEN "lazo" ELSE "crea")
    /\ UNCHANGED <<varsArchivo, varsKm, caidas>>

\* fopen "w+": an empty file, or the end of the program.
Crear(p) ==
    /\ En(p, "crea")
    /\ \/ existe' = TRUE /\ tam' = 0 /\ archivo' = [n \in Numeros |-> CERO]
          /\ Ir(p, "trunca")
          /\ UNCHANGED varsKm
       \/ UNCHANGED varsArchivo /\ Morir(p)
    /\ UNCHANGED caidas

\* ftruncate: the size it should have, or the end of the program, and the file
\* stays as it is.
Truncar(p) ==
    /\ En(p, "trunca")
    /\ \/ tam' = BLOQUES /\ Ir(p, "lazo") /\ UNCHANGED varsKm
       \/ tam' = tam /\ Morir(p)
    /\ UNCHANGED <<existe, archivo, caidas>>

-----------------------------------------------------------------------------
(* The loop. *)

Recibir(p) ==
    /\ En(p, "lazo")
    /\ swap[p].flujo # Ninguno
    /\ swap' = [swap EXCEPT ![p].actual = swap[p].flujo, ![p].flujo = Ninguno,
                            ![p].punto = swap[p].flujo.op]
    /\ UNCHANGED <<varsArchivo, varsKm, caidas>>

\* Kernel Memory has closed: recv() returns 0, recibir_operacion closes the
\* descriptor, and from then on the loop reads -1 for ever.
Girar(p) ==
    /\ En(p, "lazo")
    /\ swap[p].flujo = Ninguno
    /\ swap[p].conexion = "cerrada"
    /\ Ir(p, "gira")
    /\ UNCHANGED <<varsArchivo, varsKm, caidas>>

\* ESCRIBIR_BLOQUE_SWAP: fseek and fwrite fill the buffer, ...
Fwrite(p) ==
    /\ En(p, "escribir")
    /\ Ir(p, "vuelca")
    /\ UNCHANGED <<varsArchivo, varsKm, caidas>>

\* ... and fflush writes it, beyond the end too.
Fflush(p) ==
    /\ En(p, "vuelca")
    /\ LET n == swap[p].actual.numero IN
       /\ archivo' = [archivo EXCEPT ![n] = swap[p].actual.contenido]
       /\ tam' = IF n < tam THEN tam ELSE n + 1
    /\ Ir(p, "responde")
    /\ UNCHANGED <<existe, varsKm, caidas>>

\* LEER_BLOQUE_SWAP: beyond the end fread reads nothing, and what malloc gave is
\* sent.
Fread(p) ==
    /\ En(p, "leer")
    /\ LET n == swap[p].actual.numero IN
       \E v \in IF n < tam THEN {archivo[n]} ELSE Basura :
          swap' = [swap EXCEPT ![p].leido = v, ![p].punto = "responde"]
    /\ UNCHANGED <<varsArchivo, varsKm, caidas>>

\* (Mutant of Responder: the answer is not sent.)
SinResponder(p) ==
    /\ En(p, "responde")
    /\ swap' = [swap EXCEPT ![p].actual = Ninguno, ![p].leido = CERO,
                            ![p].punto = "lazo"]
    /\ UNCHANGED <<varsArchivo, varsKm, caidas>>

\* (Another mutant: the case of a write has no break and falls into the read's.)
ResponderSinBreak(p) ==
    /\ En(p, "responde")
    /\ LET s == swap[p] IN
       swap' = [swap EXCEPT
           ![p].punto = IF s.actual.op = "escribir" THEN "leer" ELSE "lazo",
           ![p].actual = IF s.actual.op = "escribir" THEN @ ELSE Ninguno,
           ![p].salida = IF s.conexion # "aceptada" THEN @
                         ELSE [op |-> s.actual.op, dato |-> s.leido]]
    /\ UNCHANGED <<varsArchivo, varsKm, caidas>>

\* RES_OK or R_LECTURA_SWAP.  Nobody hears it when Kernel Memory has gone, and
\* SIGPIPE may end the program.
Responder(p) ==
    /\ En(p, "responde")
    /\ LET s == swap[p] IN
       \/ /\ swap' = [swap EXCEPT
                ![p].actual = Ninguno, ![p].leido = CERO, ![p].punto = "lazo",
                ![p].salida = IF s.conexion # "aceptada" THEN s.salida
                              ELSE [op |-> s.actual.op, dato |-> s.leido]]
          /\ UNCHANGED varsKm
       \/ s.conexion = "cerrada" /\ Morir(p)
    /\ UNCHANGED <<varsArchivo, caidas>>

Caer(p) ==
    /\ ~En(p, "apagado")
    /\ caidas.swap < MaxCaidas
    /\ caidas' = [caidas EXCEPT !.swap = @ + 1]
    /\ Morir(p)
    /\ UNCHANGED varsArchivo

-----------------------------------------------------------------------------
(* Kernel Memory. *)

\* case NEW_SWAP of admitir.
Admitir(p) ==
    /\ km
    /\ swap[p].conexion = "saluda"
    /\ swap' = [swap EXCEPT ![p].conexion = IF recurso_swap THEN "cerrada"
                                                            ELSE "aceptada"]
    /\ recurso_swap' = TRUE
    /\ UNCHANGED <<varsArchivo, huerfano, km, caidas>>

\* The same for the greeting of a swap that has died.
AdmitirHuerfano ==
    /\ km
    /\ huerfano
    /\ huerfano' = FALSE
    /\ recurso_swap' = TRUE
    /\ UNCHANGED <<varsArchivo, swap, km, caidas>>

\* A request, one at a time; nothing in the repository sends it yet.
Pedir(p) ==
    /\ km
    /\ swap[p].conexion = "aceptada"
    /\ {swap[p].flujo, swap[p].actual, swap[p].salida} = {Ninguno}
    /\ \E pedido \in Pedidos : swap' = [swap EXCEPT ![p].flujo = pedido]
    /\ UNCHANGED <<varsArchivo, varsKm, caidas>>

Llega(p) ==
    /\ km
    /\ swap[p].salida # Ninguno
    /\ swap' = [swap EXCEPT ![p].salida = Ninguno]
    /\ UNCHANGED <<varsArchivo, varsKm, caidas>>

\* What it had sent may still arrive.
CaerKm ==
    /\ km
    /\ caidas.km < MaxCaidas
    /\ km' = FALSE
    /\ caidas' = [caidas EXCEPT !.km = @ + 1]
    /\ \E llegan \in SUBSET Procesos :
          swap' = [p \in Procesos |->
              [swap[p] EXCEPT
                  !.conexion = IF @ = "sin" THEN "sin" ELSE "cerrada",
                  !.flujo = IF p \in llegan THEN @ ELSE Ninguno,
                  !.salida = Ninguno]]
    /\ recurso_swap' = FALSE
    /\ huerfano' = FALSE
    /\ UNCHANGED varsArchivo

ArrancarKm ==
    /\ ~km
    /\ km' = TRUE
    /\ UNCHANGED <<varsArchivo, swap, recurso_swap, huerfano, caidas>>

-----------------------------------------------------------------------------
Proceso(p) ==
    \/ Abrir(p) \/ Crear(p) \/ Truncar(p)
    \/ Recibir(p) \/ Girar(p) \/ Fwrite(p) \/ Fflush(p) \/ Fread(p)
    \/ Responder(p)

Memoria ==
    \/ \E p \in Procesos : Admitir(p) \/ Pedir(p) \/ Llega(p)
    \/ AdmitirHuerfano \/ CaerKm \/ ArrancarKm

Next ==
    \/ \E p \in Procesos : Proceso(p) \/ Arrancar(p) \/ Caer(p)
    \/ Memoria

Spec == Init /\ [][Next]_vars

\* A process runs while nobody kills it.  Nothing is assumed of Kernel Memory.
EspecJusta == Spec /\ \A p \in Procesos : WF_vars(Proceso(p))
=============================================================================
