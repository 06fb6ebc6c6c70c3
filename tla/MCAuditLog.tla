----------------------------- MODULE MCAuditLog -----------------------------
(* The audit log with a header of two words and a MAC of one.               *)
EXTENDS AuditLog
=============================================================================
