----------------------------- MODULE MCTransfer -----------------------------
(* Small instances of Transfer: an urgent file and one that can wait. *)
EXTENDS Transfer, TLC
CONSTANTS urgent, later

OneAndTwo == (urgent :> 1) @@ (later :> 2)
Urgency == (urgent :> 2) @@ (later :> 1)
=============================================================================
