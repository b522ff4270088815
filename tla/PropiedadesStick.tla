--------------------------- MODULE PropiedadesStick ---------------------------
(* What makes a CPU and its memory stick correct, stated on the state of both. *)
EXTENDS CpuConStick, Functions

Uno(b) == IF b THEN 1 ELSE 0
Escribe(c) == pide[c].op = MOV_OUT
Idos == {c \in Clientes : cliente[c] = "ido"}

\* The ids of the CPUs fill their last word, so that the stick understands what
\* comes after the greeting, and no client has left yet.
Alineado == largo = 4
NadieSeFue == Alineado /\ Idos = {}

\* At most one client has left, and nobody who is still there has lost its
\* connection to a thread that closes its descriptor again.  After that a thread
\* may end a request on the connection of somebody else.
Previsto ==
    /\ \A c, d \in Idos : c = d
    /\ \A c \in Clientes :
          cliente[c] = "dentro" /\ hilo[c] # "sin" => conexion[socket[c]] = c

\* The state of the stick has its type; a thread has a descriptor of the table
\* and one in recv() a connection to read (memory_stick/src/gestion.c:30-104).
TypeOK ==
    /\ celdas \in [0..(tamano_stick - 1) -> 0..(MOD8 - 1)]
    /\ conexion \in [Fds -> Clientes \cup {Libre}]
    /\ hilo \in [Clientes -> {"sin", "llama", "recv", "cierra", "desconocida",
                              "lee", "escribe", "responde", "colgado"}]
    /\ \A c \in Clientes : /\ hilo[c] # "sin" => socket[c] \in Fds
                           /\ hilo[c] = "recv" => leyendo[c] \in Clientes
    /\ salida \in [Clientes -> Nat]
    /\ vivo \in BOOLEAN

\* While nobody leaves, the request that a CPU waits for is in one place at most:
\* its stream, the hands of its thread, or the answer on its way; and a write is
\* in one of them until its answer is read (gestion.c:41-97).
Lugares(c) == salida[c] + Uno(\E op \in {MOV_IN, MOV_OUT} : op \in Range(entrada[c]))
                        + Uno(hilo[c] \in {"lee", "escribe", "responde"})
UnaRespuesta ==
    NadieSeFue /\ vivo =>
        \A c \in Clientes : /\ Lugares(c) <= Uno(pide[c] # SinPedido)
                            /\ Escribe(c) => Lugares(c) = 1

\* Nobody is sent an answer it does not wait for, even by the thread of the client
\* that has left, which still reads what comes on a descriptor that is now
\* somebody else's, whatever the length of the ids (gestion.c:38-39, 97).
RespuestaPedida ==
    Previsto => \A c \in Clientes : salida[c] <= Uno(pide[c] # SinPedido)

\* A byte of the stick changes only while a CPU waits for a write of a fragment
\* that has it: the text that is copied, whatever it says, is never longer than
\* the fragment it stands for, and the packet it comes in is the one of the
\* operation that was read (gestion.c:72-87).
EscribeEnSuFragmento ==
    [][Previsto => \A i \in DOMAIN celdas : celdas'[i] # celdas[i] =>
          \E c \in Clientes :
              /\ Escribe(c)
              /\ i \in pide[c].desde..(pide[c].desde + pide[c].cuantos - 1)]_todo

\* While nobody leaves, the only thing that ends the stick is a write that goes
\* beyond its vector: no stream makes it take something else for a payload
\* (gestion.c:72-87, hello.c:106-133).
SoloDesborda ==
    [][NadieSeFue /\ vivo /\ ~vivo' =>
          \E c \in Clientes : /\ Escribe(c)
                              /\ pide[c].desde + pide[c].cuantos > tamano_stick]_todo

\* A CPU that writes in the stick goes on, while nobody leaves and the stick does
\* not crash (thread_ejecucion.c:163-164, gestion.c:72-95).
EscrituraTermina ==
    punto = "espera_stick" /\ instruccion.cmd = "MOV_OUT"
        ~> (punto # "espera_stick" \/ ~NadieSeFue \/ ~vivo)

\* "Lectura desde memory_stick" (gestion.c:44), "Enviar confirmación" (:62): a
\* CPU that reads from the stick is answered.
LecturaTermina ==
    punto = "espera_stick" /\ instruccion.cmd = "MOV_IN"
        ~> (punto # "espera_stick" \/ ~NadieSeFue \/ ~vivo)
-----------------------------------------------------------------------------
(* What these rest on. *)

Ops == {MOV_IN, MOV_OUT}

\* The CPU asks for bytes of a register, at an address.
Pcbs    == [pc : 0..(C!MOD32 - 1), reg : [C!Registros -> Int]]
Locales == [dir : Int, tam : {0, 1, 4}, hecho : 0..4, a : {0, 1}, desde : Int,
            cuantos : 0..4]

InvCpu ==
    /\ programa \in Seq(C!Lineas)
    /\ instruccion \in C!Lineas
    /\ pcb \in Pcbs
    /\ acceso \in Locales
    /\ punto = "espera_stick" =>
          /\ acceso.cuantos > 0
          /\ acceso.hecho + acceso.cuantos <= acceso.tam

TiposStick ==
    /\ TypeOK
    /\ cliente \in [Clientes -> {"fuera", "dentro", "ido"}]
    /\ entrada \in [Clientes -> Seq(Int)]
    /\ socket \in [Clientes -> {0} \cup Fds]
    /\ leyendo \in [Clientes -> Clientes \cup {Libre}]
    /\ largo \in Largos
    /\ pide \in [Clientes -> Pedidos \cup {SinPedido}]

InvTipos == TiposStick /\ InvCpu

\* A connection is on the descriptor its thread was given, or on none.
InvDescriptores ==
    /\ \A f \in Fds, c \in Clientes :
          conexion[f] = c => hilo[c] # "sin" /\ socket[c] = f
    /\ \A c \in Clientes :
          /\ hilo[c] # "sin" => cliente[c] # "fuera"
          /\ cliente[c] = "fuera" => entrada[c] = <<>> /\ pide[c] = SinPedido
    /\ Idos = {} => Previsto

\* Only the thread of the client that left closes anything, and no thread reads
\* what is not on its descriptor.
InvHilos ==
    Previsto =>
        \A t \in Clientes :
            /\ cliente[t] = "dentro" => hilo[t] \notin {"cierra", "desconocida"}
            /\ hilo[t] = "recv" => leyendo[t] = De(t)
            /\ hilo[t] \in {"lee", "escribe", "responde"} => De(t) # Libre

\* No operation of a shifted stream is understood, nor any of a client that has
\* left nothing to read.
Roto(flujo) ==
    \E i \in DOMAIN flujo : flujo[i] = RESTO /\ \A j \in 1..i : flujo[j] # CARGA
Perdido(c) ==
    Roto(entrada[c]) \/ (cliente[c] = "ido" /\ CARGA \notin Range(entrada[c]))

Atiende(t, c, puntos) == hilo[t] \in puntos /\ De(t) = c

\* A request is answered once, and not before its payload has been read.
UnaContestacion(c) ==
    /\ salida[c] > 0 => \A t \in Clientes : ~Atiende(t, c, {"responde"})
    /\ \A t, u \in Clientes :
          Atiende(t, c, {"responde"}) /\ Atiende(u, c, {"responde"}) => t = u
    /\ \A t \in Clientes : Atiende(t, c, {"responde"}) => Escribe(c)

UnaCarga(c) ==
    \A i \in DOMAIN entrada[c] : entrada[c][i] = CARGA =>
        /\ i = Len(entrada[c])
        /\ pide[c] # SinPedido /\ salida[c] = 0
        /\ \A t \in Clientes : ~Atiende(t, c, {"responde"})

\* The streams that are not shifted: the only operation is the request, and a
\* thread that has taken it is the only one.
UnaOperacion(c) ==
    \A i \in DOMAIN entrada[c] :
        /\ entrada[c][i] # RESTO
        /\ entrada[c][i] \in Ops => /\ i + 1 = Len(entrada[c])
                                    /\ entrada[c][i + 1] = CARGA
                                    /\ entrada[c][i] = pide[c].op

UnHilo(c) ==
    \A t \in Clientes : Atiende(t, c, {"lee", "escribe"}) =>
        /\ \A i \in DOMAIN entrada[c] : entrada[c][i] \notin Ops
        /\ pide[c].op = IF hilo[t] = "escribe" THEN MOV_OUT ELSE MOV_IN
        /\ salida[c] = 0
        /\ \A u \in Clientes : Atiende(u, c, {"lee", "escribe", "responde"}) => u = t

Sano(c) ==
    /\ UnaContestacion(c) /\ UnaCarga(c)
    /\ Perdido(c) \/ (UnaOperacion(c) /\ UnHilo(c))

InvPedidos ==
    Previsto =>
        /\ \A c \in Clientes : salida[c] <= Uno(Escribe(c))
        /\ vivo => \A c \in Clientes : Sano(c)

\* The CPU waits for the stick as long as it has asked it for something, unless
\* the stick has crashed.
EnEspera == punto = "espera_stick" /\ EnStick
InvEspera ==
    Previsto => \/ EnEspera \/ pide[cpu] = SinPedido
                \/ ~vivo /\ salida[cpu] = 0

\* While nobody has left no request is lost.
Presente(c) ==
    /\ RESTO \notin Range(entrada[c])
    /\ hilo[c] \in {"lee", "escribe"} => entrada[c] # <<>> /\ Head(entrada[c]) = CARGA
    /\ Escribe(c) => \/ salida[c] > 0 \/ MOV_OUT \in Range(entrada[c])
                     \/ hilo[c] \in {"escribe", "responde"}

InvPresentes == NadieSeFue /\ vivo => \A c \in Clientes : Presente(c)

InvStick ==
    InvTipos /\ InvDescriptores /\ InvHilos /\ InvPedidos /\ InvEspera /\ InvPresentes
=============================================================================
