----------------------------- MODULE MCAuditLog -----------------------------
(* Two connections over buffers of two: every buffer overflows, and a connection may
   still be cleaned up while its browser is back on the other. *)
EXTENDS AuditLog
=============================================================================
