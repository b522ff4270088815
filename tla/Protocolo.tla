------------------------------ MODULE Protocolo ------------------------------
(***************************************************************************)
(* What travels on a connection (utils/src/utils/hello.[ch]).  A packet is *)
(* operation | length of the flow | { length | bytes }*; its reader takes  *)
(* the operation first (recibir_operacion) and the rest only when it knows *)
(* the operation (recibir_carga_util).  A stream is a sequence of words: a *)
(* word is one 4-byte integer, or one string together with its own length  *)
(* prefix.  What a reader does not consume stays in the stream and is read *)
(* as the next operation, so the words of a t_pcb are spelled out.         *)
(***************************************************************************)
EXTENDS Naturals, Sequences

\* The members of t_operacion that the modelled programs exchange.
NEW_IO                   == 0
NEW_CPU                  == 1
NEW_SWAP                 == 2
NEW_MEMORY_STICK         == 3
NEW_KERNEL_SCHEDULER     == 4
IO_SLEEP                 == 5
IO_FINISHED              == 8
EXECUTE_PROCESS          == 9
MOV_IN                   == 10
MOV_OUT                  == 11
RES_OK                   == 12
SEG_FAULT                == 99   \* a macro of the CPU, unknown to every server
RESPUESTA_IMAGEN_PROCESO == 100

\* The bytes that one short string takes in the flow: its length and itself.
LONGITUD_CADENA == 6

\* crear_paquete, agregar_a_paquete and enviar_paquete for one string.
PaqueteCadena(op, cadena) == <<op, LONGITUD_CADENA, cadena>>

\* The same for a t_pcb: 4 + 44 bytes of flow, of which the words that tell
\* one reader from another are the pid and the priority, the first two fields.
PaquetePcb(op, pid, prioridad) == <<op, 48, 44, pid, prioridad>>

\* recibir_operacion, when there is data: the first word of the stream.
Operacion(flujo) == Head(flujo)

\* recibir_carga_util after the operation: the list of strings (empty when the
\* flow has length 0) and what is left of the stream.
Carga(flujo) == IF flujo[2] = 0 THEN <<>> ELSE <<flujo[3]>>
TrasCarga(flujo) == SubSeq(flujo, 3 + Len(Carga(flujo)), Len(flujo))
=============================================================================
