---------------------------- MODULE MCAuditChain ----------------------------
(* The instance of AuditChain in which two writers share a seq, for TLC.  Its *)
(* other properties are checked by MCRecords.                                *)
EXTENDS AuditChain, TLC
=============================================================================
