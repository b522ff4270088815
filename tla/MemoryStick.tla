----------------------------- MODULE MemoryStick -----------------------------
(***************************************************************************)
(* memory_stick/src/gestion.c: the bytes of the stick, and the thread of   *)
(* each client, which serves operations for ever: an operation that is     *)
(* unknown, and a client that has gone, are only logged, so the thread of  *)
(* a client that left goes on calling recv() and close() on a descriptor   *)
(* number that may be somebody else's.                                     *)
(*                                                                         *)
(* The greeting NEW_CPU is one of the unknown operations: its payload is   *)
(* read as operations, four bytes at a time.  When the id of the CPU does  *)
(* not fill its last word, the bytes left over shift the whole stream: it  *)
(* begins with RESTO, and no operation in it is understood any more.  A    *)
(* client waits for each answer, so no later packet realigns it.           *)
(***************************************************************************)
EXTENDS Servidor, Integers

CONSTANTS MOD8,         \* how many values a byte has
          tamano_stick, \* argv[2]
          Largos        \* strlen(id_cpu) + 1, of all the clients of a run

ASSUME SupuestosStick ==
    /\ MOD8 \in Nat \ {0}
    /\ tamano_stick \in Nat \ {0}
    /\ Largos \subseteq Nat \ {0, 1}

\* Words that are no operation of the stick, nor a length: a payload of two or
\* three strings after MOV_IN or MOV_OUT, four bytes of an id, and less than four.
CARGA == -1
TEXTO == -2
RESTO == -3

VARIABLES
    celdas,     \* memory_stick
    vivo,       \* the process has not crashed
    largo,      \* the length of the ids
    pide,       \* the request each client waits for
    salida      \* answers on their way to each client

varsStick == <<celdas, vivo, largo, pide, salida>>
vars == <<varsServidor, varsStick>>

SinPedido == [op |-> 0, desde |-> 0, cuantos |-> 0]

\* What malloc gave to the vector is never sent to anybody: zeros stand for it.
Init ==
    /\ InitServidor
    /\ celdas = [i \in 0..(tamano_stick - 1) |-> 0]
    /\ vivo = TRUE
    /\ largo \in Largos
    /\ pide = [c \in Clientes |-> SinPedido]
    /\ salida = [c \in Clientes |-> 0]

Seguir(c, p) == hilo' = [hilo EXCEPT ![c] = p]

-----------------------------------------------------------------------------
(* The streams. *)

\* crear_paquete (NEW_CPU) and its id (cpu/src/main.c:67-69).
Saludo == <<NEW_CPU, 4 + largo, largo>> \o [i \in 1..(largo \div 4) |-> TEXTO]
          \o (IF largo % 4 = 0 THEN <<>> ELSE <<RESTO>>)

\* What recibir_operacion takes: four bytes, or at the end of a shifted stream
\* the ones that are left.
Desalineado(flujo) == flujo # <<>> /\ Head(flujo) = RESTO

TrasOperacion(flujo) ==
    IF Desalineado(flujo) /\ Len(flujo) > 1
    THEN <<RESTO>> \o SubSeq(flujo, 3, Len(flujo))
    ELSE Tail(flujo)

\* A shifted stream with less than four bytes does not end recv(), unless the
\* client has gone.
HayOperacion(c) ==
    /\ hilo[c] = "recv"
    /\ entrada[leyendo[c]] # <<>>
    /\ Desalineado(entrada[leyendo[c]]) =>
          Len(entrada[leyendo[c]]) > 1 \/ cliente[leyendo[c]] = "ido"

\* (Mutant of the next one: the switch has no case MOV_OUT.)
EntiendeMovIn(flujo) == Head(flujo) = MOV_IN
Entiende(flujo) == Head(flujo) \in {MOV_IN, MOV_OUT}

TomarOperacion(c) ==
    /\ entrada' = [entrada EXCEPT ![leyendo[c]] = TrasOperacion(@)]
    /\ UNCHANGED <<cliente, conexion, socket, leyendo>>

-----------------------------------------------------------------------------
(* admitir *)

\* case MOV_IN and case MOV_OUT: the payload comes with another recv(), which is
\* called on the connection that the descriptor has then.
Operacion_conocida(c) ==
    /\ HayOperacion(c)
    /\ Entiende(entrada[leyendo[c]])
    /\ TomarOperacion(c)
    /\ Seguir(c, IF Head(entrada[leyendo[c]]) = MOV_IN THEN "lee" ELSE "escribe")
    /\ UNCHANGED varsStick

\* default: nothing but a line in the log, for OPERACION_DESCONOCIDA too.
Operacion_desconocida(c) ==
    /\ \/ /\ HayOperacion(c)
          /\ ~Entiende(entrada[leyendo[c]])
          /\ TomarOperacion(c)
       \/ /\ hilo[c] = "desconocida"
          /\ UNCHANGED <<cliente, entrada, conexion, socket, leyendo>>
    /\ Seguir(c, "llama")
    /\ UNCHANGED varsStick

\* The client whose payload recibir_carga_util finds, when it does.
De(c) == conexion[socket[c]]
HayCarga(c) == De(c) # Libre /\ entrada[De(c)] # <<>> /\ Head(entrada[De(c)]) = CARGA

TomarCarga(c) ==
    /\ entrada' = [entrada EXCEPT ![De(c)] = Tail(@)]
    /\ UNCHANGED <<cliente, conexion, socket, leyendo>>

\* MOV_IN with the two parameters that a CPU sends, of three: "Parámetros
\* inválidos", and no answer.
Leer(c) ==
    /\ hilo[c] = "lee"
    /\ HayCarga(c)
    /\ TomarCarga(c)
    /\ Seguir(c, "llama")
    /\ UNCHANGED varsStick

\* memory_stick + direccion.  (Mutant: addresses counted from one.)
DestinoSiguiente(p) == p.desde + 1
Destino(p) == p.desde

\* MOV_OUT copies the second parameter, up to its '\0': that is the size, in
\* decimal, whose one digit takes one byte.  Beyond the vector, memcpy writes
\* where it should not: nobody sees it, or the process crashes.  (Mutant: a byte
\* more, the '\0'.)
Texto_del_tamano(p) == 48 + p.cuantos

EscritoConCero(p) ==
    [i \in DOMAIN celdas |-> IF i = Destino(p) THEN Texto_del_tamano(p) % MOD8
                             ELSE IF i = Destino(p) + 1 THEN 0 ELSE celdas[i]]
Escrito(p) ==
    [i \in DOMAIN celdas |-> IF i = Destino(p) THEN Texto_del_tamano(p) % MOD8
                             ELSE celdas[i]]

Escribir(c) ==
    /\ hilo[c] = "escribe"
    /\ HayCarga(c)
    /\ TomarCarga(c)
    /\ celdas' = Escrito(pide[De(c)])
    /\ vivo' \in {TRUE, Destino(pide[De(c)]) \in DOMAIN celdas}
    /\ Seguir(c, "responde")
    /\ UNCHANGED <<largo, pide, salida>>

\* Anything else, or nothing, where the payload should be: its length is four
\* bytes of text or an uninitialized variable.  The process crashes, the thread
\* waits for bytes that do not come, or it finds no parameters and goes on.
SinCarga(c) ==
    /\ hilo[c] \in {"lee", "escribe"}
    /\ \/ De(c) = Libre
       \/ De(c) # Libre /\ entrada[De(c)] = <<>> /\ cliente[De(c)] = "ido"
       \/ De(c) # Libre /\ entrada[De(c)] # <<>> /\ Head(entrada[De(c)]) # CARGA
    /\ \/ vivo' = FALSE /\ UNCHANGED <<hilo, entrada>>
       \/ vivo' = vivo /\ Seguir(c, "colgado") /\ UNCHANGED entrada
       \/ /\ vivo' = vivo
          /\ Seguir(c, "llama")
          /\ entrada' = [d \in Clientes |->
                 IF d = De(c) /\ entrada[d] # <<>> THEN <<RESTO>> ELSE entrada[d]]
    /\ UNCHANGED <<cliente, conexion, socket, leyendo, celdas, largo, pide,
                   salida>>

\* A client that exits with an answer unread, or is sent one when it has gone,
\* makes its system reset the connection; after that send() raises SIGPIPE.
Rota(d) == d # Libre /\ cliente[d] = "ido" /\ salida[d] > 0

\* (Mutant of the next one: RES_OK is sent in the case, and again after it.)
ResponderDosVeces(c) ==
    /\ hilo[c] = "responde"
    /\ salida' = [d \in Clientes |->
           IF d = De(c) /\ ~Rota(d) THEN salida[d] + 2 ELSE salida[d]]
    /\ vivo' \in {TRUE, ~Rota(De(c))}
    /\ Seguir(c, "llama")
    /\ UNCHANGED <<cliente, entrada, conexion, socket, leyendo, celdas, largo,
                   pide>>

\* RES_OK, to whoever has the descriptor now.  (Bound: of the answers nobody
\* reads, one is kept.)
Responder(c) ==
    /\ hilo[c] = "responde"
    /\ salida' = [d \in Clientes |->
           IF d = De(c) /\ ~Rota(d) THEN salida[d] + 1 ELSE salida[d]]
    /\ vivo' \in {TRUE, ~Rota(De(c))}
    /\ Seguir(c, "llama")
    /\ UNCHANGED <<cliente, entrada, conexion, socket, leyendo, celdas, largo,
                   pide>>

Atencion(c) ==
    /\ vivo
    /\ \/ (LlamarRecv(c) \/ LlegaFin(c) \/ CerrarEnRecibir(c))
             /\ UNCHANGED varsStick
       \/ Operacion_conocida(c) \/ Operacion_desconocida(c)
       \/ Leer(c) \/ Escribir(c) \/ SinCarga(c) \/ Responder(c)

Admision(c) == vivo /\ Aceptar(c) /\ UNCHANGED varsStick

-----------------------------------------------------------------------------
(* The clients: all of them are CPUs. *)

Entra(c) == vivo /\ Conectar(c, Saludo) /\ UNCHANGED varsStick
SeVa(c)  == Desconectar(c) /\ UNCHANGED varsStick

\* A packet with a request, and its sender waits.
Enviar(c, p) ==
    /\ cliente[c] = "dentro"
    /\ pide' = [pide EXCEPT ![c] = p]
    /\ entrada' = [entrada EXCEPT ![c] = @ \o <<p.op, CARGA>>]
    /\ UNCHANGED <<cliente, conexion, hilo, socket, leyendo, celdas, vivo, largo,
                   salida>>

Recibir(c) ==
    /\ cliente[c] = "dentro"
    /\ salida[c] > 0
    /\ salida' = [salida EXCEPT ![c] = @ - 1]
    /\ pide' = [pide EXCEPT ![c] = SinPedido]
    /\ UNCHANGED <<varsServidor, celdas, vivo, largo>>
=============================================================================
