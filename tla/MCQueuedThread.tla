--------------------------- MODULE MCQueuedThread ---------------------------
(* Small instances of QueuedThread. *)
EXTENDS QueuedThread

\* Flags of new requests, and those set later.
NoFlags == {{}}
MaybeAuto == {{}, {"AUTO_COMPLETE"}}
JustAbort == {{"ABORT"}}
Aborts == {{"ABORT"}, {"ABORT", "AUTO_COMPLETE"}}
=============================================================================
