-------------------------- MODULE PropiedadesMemoria --------------------------
(***************************************************************************)
(* What makes kernel_memory correct, stated on its state.                  *)
(***************************************************************************)
EXTENDS KernelMemory

PuntosHilo == {"sin", "llama", "recv", "cierra", "desconocida", "fin",
               "pone_swap", "rechaza_swap", "agrega_stick", "agrega_cpu"}

\* The state of every part has its type; the thread of a connection has a
\* descriptor of the table, and one in recv() has a connection to read
\* (gestion.c:3-145, 221-278).
TypeOK ==
    /\ cliente \in [Clientes -> {"fuera", "dentro", "ido"}]
    /\ conexion \in [Fds -> Clientes \cup {Libre}]
    /\ hilo \in [Clientes -> PuntosHilo]
    /\ socket \in [Clientes -> 0..MaxFd]
    /\ leyendo \in [Clientes -> Clientes \cup {Libre}]
    /\ \A c \in Clientes : /\ hilo[c] # "sin" => socket[c] \in Fds
                           /\ hilo[c] = "recv" => leyendo[c] \in Clientes
    /\ en_atender \subseteq Clientes
    /\ recurso_swap \in Clientes \cup {Libre}
    /\ recursos_cpu \in Seq(Cpus)
    /\ recursos_memory_stick \in Seq(Sticks)
    /\ pide \in [Cpus -> {NADA} \cup 0..Len(Codigo)]

-----------------------------------------------------------------------------
(* Requests and answers. *)

Pedidos(c) == {i \in DOMAIN entrada[c] : entrada[c][i] \in {MOV_IN, MOV_OUT}}

\* While nobody leaves, what a CPU is waiting for is either its request, still
\* unread, or its answer, on its way to it: no request is answered twice, to
\* another CPU or not at all (gestion.c:221-278).
RespuestaPropia ==
    \A c \in Cpus :
        Cardinality(Pedidos(c)) + Len(salida[c]) =
            IF pide[c] = NADA THEN 0 ELSE 1

\* "loop infinito para que se quede escuchando mensajes del cpu"
\* (gestion.c:227): while nobody leaves, the thread of a CPU stays in its loop.
\* Once somebody has left, a second close may put another CPU out of it
\* (SigueConectada).
EscuchaCpu ==
    \A c \in Cpus : c \in en_atender /\ hilo[c] = "fin" => cliente[c] = "ido"

\* A CPU that asks is answered.
CpuAtendida == \A c \in Cpus : pide[c] # NADA ~> pide[c] = NADA

\* A CPU is cut off only by the second close of the descriptor of a CPU that has
\* left, so never while nobody that has left had its number
\* (gestion.c:273-276, hello.c:99-103).
SigueConectada ==
    \A c \in Cpus :
        /\ cliente[c] = "dentro" /\ hilo[c] # "sin"
        /\ \A d \in Cpus : socket[d] = socket[c] => cliente[d] # "ido"
        => conexion[socket[c]] = c

\* The descriptor of a CPU that has gone is closed, by its own thread or by that
\* of another one that has left, which may have taken its greeting from it
\* (gestion.c:273-276, hello.c:92-105).
LiberaDescriptor ==
    \A c \in Cpus : cliente[c] = "ido" /\ hilo[c] # "sin"
                     ~> \A f \in Fds : conexion[f] # c

\* Of the swaps that have been attended, Kernel Memory keeps one, and that one is
\* still connected, however the two looks at recurso_swap and the two writes to
\* it interleave (gestion.c:47-59).
SwapConservado ==
    (\E s \in Swaps : hilo[s] = "fin")
    => \E s \in Swaps : recurso_swap = s /\ \E f \in Fds : conexion[f] = s

-----------------------------------------------------------------------------
(* What the properties rest on. *)

\* A connection carries the greeting of its client and the requests of a CPU, so
\* who registers as a CPU or as a stick is one.
Palabra(c) == {Saludo(c)[1], CARGA, MOV_IN, MOV_OUT}

EntradaOK ==
    /\ entrada \in [Clientes -> Seq(Nat)]
    /\ \A c \in Clientes : entrada[c] \in Seq(Palabra(c))

InvTipos ==
    /\ TypeOK
    /\ EntradaOK
    /\ ultimo \in [Clientes -> Clientes \cup {Libre}]
    /\ \A c \in Clientes : /\ hilo[c] = "agrega_cpu" => leyendo[c] \in Cpus
                           /\ hilo[c] = "agrega_stick" => leyendo[c] \in Sticks

\* While nobody leaves, a thread serves the client it was accepted for, on a
\* descriptor that nobody else has, ...
InvHilos ==
    /\ \A c \in Clientes :
          /\ cliente[c] # "ido"
          /\ hilo[c] # "sin" => cliente[c] = "dentro"
          /\ hilo[c] \notin {"cierra", "desconocida"}
          /\ hilo[c] \notin {"sin", "fin"} => conexion[socket[c]] = c
          /\ hilo[c] \in {"recv", "agrega_cpu", "agrega_stick"} => leyendo[c] = c
    /\ \A f \in Fds, c \in Clientes :
          conexion[f] = c => hilo[c] # "sin" /\ socket[c] = f

\* ... goes through the points of its kind of client, ...
InvClases ==
    /\ \A c \in Clientes : /\ hilo[c] \in {"pone_swap", "rechaza_swap"} => c \in Swaps
                           /\ hilo[c] = "agrega_cpu" => c \in Cpus
                           /\ hilo[c] = "fin" => c \notin Cpus
    /\ en_atender \subseteq Cpus
    /\ \A c \in en_atender : hilo[c] \in {"llama", "recv"}
    /\ \A c \in Cpus : pide[c] # NADA => cliente[c] = "dentro"

\* ... and reads the greeting, and then the request of a CPU that waits.
PorSaludar(c) ==
    cliente[c] = "dentro" /\ hilo[c] \in {"sin", "llama", "recv"} /\ c \notin en_atender
Peticiones == {<<MOV_IN, CARGA>>, <<MOV_OUT, CARGA>>}

Flujo(c, peticion) ==
    /\ entrada[c] = (IF PorSaludar(c) THEN Saludo(c) ELSE <<>>) \o peticion
    /\ IF pide[c] = NADA THEN peticion = <<>> /\ salida[c] = <<>>
       ELSE Len(salida[c]) = IF peticion = <<>> THEN 1 ELSE 0

InvFlujos ==
    /\ \A c \in Clientes \ Cpus : PorSaludar(c) => entrada[c] = Saludo(c)
    /\ \A c \in Cpus : \E peticion \in Peticiones \cup {<<>>} : Flujo(c, peticion)

\* An answer says which, and of what; no thread reads instructions.
InvSalida ==
    /\ instrucciones_proceso = <<>>
    /\ salida \in [Clientes -> Seq({RES_OK, RESPUESTA_IMAGEN_PROCESO}
                                   \X {"OK", "EMPTY"})]

\* The pointer is of a swap that has been attended and is connected; a swap that
\* is refused is refused for another one.
InvPuntero ==
    /\ recurso_swap \in Swaps \cup {Libre}
    /\ recurso_swap # Libre => /\ hilo[recurso_swap] = "fin"
                               /\ conexion[socket[recurso_swap]] = recurso_swap
    /\ \A s \in Swaps : /\ hilo[s] = "fin" => recurso_swap # Libre
                        /\ hilo[s] = "rechaza_swap" => recurso_swap \notin {s, Libre}

InvMemoria == InvHilos /\ InvClases /\ InvSalida /\ InvFlujos /\ InvPuntero
=============================================================================
