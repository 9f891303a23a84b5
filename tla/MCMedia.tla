------------------------------- MODULE MCMedia ------------------------------
(***************************************************************************)
(* Module Media on a small instance: a pool of two connections, which two  *)
(* completions can hold entirely, or of three, where both can run.  No     *)
(* symmetry: liveness is checked.                                          *)
(***************************************************************************)
EXTENDS Media
=============================================================================
