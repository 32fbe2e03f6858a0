----------------------------- MODULE MCAuditQueue -----------------------------
(* An instance of AuditQueue for TLC.                                      *)
EXTENDS AuditQueue

CONSTANTS request, other, lifecycle

=============================================================================
