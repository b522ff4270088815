----------------------------- MODULE MCScheduler -----------------------------
(* KernelScheduler for TLC: the clients are model values, named in the cfg. *)
EXTENDS PropiedadesScheduler
=============================================================================
