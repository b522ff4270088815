------------------------------ MODULE MCMemoria ------------------------------
(* KernelMemory for TLC: the clients are model values, named in the cfg. *)
EXTENDS PropiedadesMemoria

\* A script without lines: no thread ever looks for an instruction in it, so its
\* lines make no difference (gestion.c:243).
SinLineas == <<>>
=============================================================================
