---------------------------- MODULE MCAuditSink ----------------------------
(* Instances of AuditSink for TLC.  A line is two or three units long and  *)
(* a file holds five: one or two lines.                                    *)
EXTENDS AuditSink

MCSizes == {2, 3}
=============================================================================
