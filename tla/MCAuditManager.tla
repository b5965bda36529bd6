--------------------------- MODULE MCAuditManager ---------------------------
(* AuditManager on the small instances of the MCAuditManager*.cfg files. *)
EXTENDS AuditManager
=============================================================================
