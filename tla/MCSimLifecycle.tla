--------------------------- MODULE MCSimLifecycle ---------------------------
(* Two or three loops, two or three requests that stop them. *)
EXTENDS SimLifecycle
=============================================================================
