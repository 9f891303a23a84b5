----------------------------- MODULE ApiRequests ----------------------------
(***************************************************************************)
(* What the models of handlers that take several steps have in common: the *)
(* requests that may be under way at the same time, each of which is a     *)
(* task of its own in the API's process, and the value of a missing row or *)
(* column.                                                                 *)
(***************************************************************************)
CONSTANTS
    Requests,
    None
=============================================================================
