----------------------------- MODULE AuditSink ------------------------------
(***************************************************************************)
(* The write-once audit sink as its callers meet it (agents/integrity/     *)
(* audit_sink.py).  An object is put under a key of its own, so a record   *)
(* is never overwritten and one that is tried again is another record.     *)
(* Any failure becomes AuditSinkError; the answer of a put that was made   *)
(* can be lost, which is the same error.                                   *)
(***************************************************************************)
Emission == {"written", "unanswered", "failed"}

Stored(emission)  == emission \in {"written", "unanswered"}
Returns(emission) == emission = "written"
=============================================================================
