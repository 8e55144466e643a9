------------------------------- MODULE MCAudit ------------------------------
(* Small instances of AuditQueue for TLC.                                  *)
EXTENDS AuditQueue

CONSTANTS MaxEvents  \* bound: events minted

MCEvents == 1..MaxEvents
=============================================================================
