------------------------------- MODULE Servidor -------------------------------
(***************************************************************************)
(* The multi-threaded server that kernel_scheduler, kernel_memory and      *)
(* memory_stick all start: admitir_clientes accepts connections and gives  *)
(* each one a thread that runs admitir; admitir reads its operations with  *)
(* recibir_operacion.  The module has the clients, their streams, the      *)
(* descriptor table of the process and the reading half of each thread;    *)
(* the servers that EXTEND it add what their admitir does with an          *)
(* operation.                                                              *)
(*                                                                         *)
(* A descriptor is a number that the kernel gives again as soon as it is   *)
(* closed, the lowest free one first.  recv() holds the connection it was  *)
(* called on until it returns, whatever happens to the descriptor.         *)
(***************************************************************************)
EXTENDS Protocolo, FiniteSets

CONSTANTS Clientes,     \* processes that connect to the server
          Inestables,   \* those of them that may exit or be killed
          MaxFd,        \* descriptors the server may have open for clients
          Libre         \* the content of a closed descriptor

ASSUME SupuestosServidor ==
    /\ IsFiniteSet(Clientes)
    /\ Clientes \cap Nat = {}    \* the word of an identifier is no operation
    /\ Inestables \subseteq Clientes
    /\ MaxFd \in Nat
    /\ Libre \notin Clientes

VARIABLES
    cliente,    \* "fuera" before connect(), "dentro" until it exits, then "ido"
    entrada,    \* words that each client sent and the server has not read
    conexion,   \* the descriptor table: whose connection each one is
    hilo,       \* the control point of the thread that serves each client
    socket,     \* the descriptor that the thread was given, 0 before it exists
    leyendo     \* whose stream the recv() the thread is blocked in reads

varsServidor == <<cliente, entrada, conexion, hilo, socket, leyendo>>

Fds == 1..MaxFd

\* A string names the client that sends it, when it names anything.
Palabras == Nat \cup Clientes

InitServidor ==
    /\ cliente = [c \in Clientes |-> "fuera"]
    /\ entrada = [c \in Clientes |-> <<>>]
    /\ conexion = [f \in Fds |-> Libre]
    /\ hilo = [c \in Clientes |-> "sin"]
    /\ socket = [c \in Clientes |-> 0]
    /\ leyendo = [c \in Clientes |-> Libre]

-----------------------------------------------------------------------------
\* The environment: connect() succeeds as soon as the server listens, and the
\* client sends its first packet; later it may vanish.

Conectar(c, saludo) ==
    /\ cliente[c] = "fuera"
    /\ cliente' = [cliente EXCEPT ![c] = "dentro"]
    /\ entrada' = [entrada EXCEPT ![c] = saludo]
    /\ UNCHANGED <<conexion, hilo, socket, leyendo>>

Desconectar(c) ==
    /\ c \in Inestables
    /\ cliente[c] = "dentro"
    /\ cliente' = [cliente EXCEPT ![c] = "ido"]
    /\ UNCHANGED <<entrada, conexion, hilo, socket, leyendo>>

-----------------------------------------------------------------------------
\* admitir_clientes: accept() takes a connection of the backlog, on the lowest
\* free descriptor, and a new thread starts in admitir.  With no free one it
\* returns -1 and the loop tries again.

FdMinimo(f) ==
    /\ conexion[f] = Libre
    /\ \A g \in Fds : g < f => conexion[g] # Libre

\* (Mutant of the next one: the threads share the variable of the acceptor, and
\* those that have not read it yet get the new descriptor.)
AceptarCompartido(c) ==
    /\ cliente[c] # "fuera"
    /\ hilo[c] = "sin"
    /\ \E f \in Fds :
          /\ FdMinimo(f)
          /\ conexion' = [conexion EXCEPT ![f] = c]
          /\ socket' = [d \in Clientes |->
                            IF d = c \/ hilo[d] = "llama" THEN f ELSE socket[d]]
    /\ hilo' = [hilo EXCEPT ![c] = "llama"]
    /\ UNCHANGED <<cliente, entrada, leyendo>>

Aceptar(c) ==
    /\ cliente[c] # "fuera"
    /\ hilo[c] = "sin"
    /\ \E f \in Fds :
          /\ FdMinimo(f)
          /\ conexion' = [conexion EXCEPT ![f] = c]
          /\ socket' = [socket EXCEPT ![c] = f]
    /\ hilo' = [hilo EXCEPT ![c] = "llama"]
    /\ UNCHANGED <<cliente, entrada, leyendo>>

\* (Mutant of the next one: recv() is taken to have succeeded.)
LlamarSinMirar(c) ==
    /\ hilo[c] = "llama"
    /\ leyendo' = [leyendo EXCEPT ![c] = conexion[socket[c]]]
    /\ hilo' = [hilo EXCEPT ![c] = "recv"]
    /\ UNCHANGED <<cliente, entrada, conexion, socket>>

\* recibir_operacion calls recv(): on a closed descriptor it fails at once,
\* otherwise the thread waits for the connection that the descriptor has now.
LlamarRecv(c) ==
    /\ hilo[c] = "llama"
    /\ leyendo' = [leyendo EXCEPT ![c] = conexion[socket[c]]]
    /\ hilo' = [hilo EXCEPT ![c] =
                   IF conexion[socket[c]] = Libre THEN "cierra" ELSE "recv"]
    /\ UNCHANGED <<cliente, entrada, conexion, socket>>

\* recv() returns the first word of the stream.
Llega(c, op) ==
    /\ hilo[c] = "recv"
    /\ entrada[leyendo[c]] # <<>>
    /\ Operacion(entrada[leyendo[c]]) = op

\* recv() returns 0: the client is gone and all its data has been read.
LlegaFin(c) ==
    /\ hilo[c] = "recv"
    /\ cliente[leyendo[c]] = "ido"
    /\ entrada[leyendo[c]] = <<>>
    /\ hilo' = [hilo EXCEPT ![c] = "cierra"]
    /\ UNCHANGED <<cliente, entrada, conexion, socket, leyendo>>

\* close(socket): whatever connection has that descriptor now.  (Mutant: nobody
\* closes it.)
SinClose(c) == conexion' = conexion
Close(c) == conexion' = [conexion EXCEPT ![socket[c]] = Libre]

\* recibir_operacion closes the descriptor and returns OPERACION_DESCONOCIDA.
CerrarEnRecibir(c) ==
    /\ hilo[c] = "cierra"
    /\ Close(c)
    /\ hilo' = [hilo EXCEPT ![c] = "desconocida"]
    /\ UNCHANGED <<cliente, entrada, socket, leyendo>>
=============================================================================
