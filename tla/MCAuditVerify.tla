--------------------------- MODULE MCAuditVerify ---------------------------
(* AuditVerify with two contents, three records and two damages. *)
EXTENDS AuditVerify
=============================================================================
