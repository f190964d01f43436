----------------------------- MODULE MCStartup -----------------------------
(* Instance of Startup: processes are interchangeable.                     *)
EXTENDS Startup, TLC

Interchangeable == Permutations(Procs)
=============================================================================
