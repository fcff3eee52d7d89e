-------------------------- MODULE TransferService --------------------------
(***************************************************************************)
(* What the transfer manager promises to those who ask it for a file       *)
(* (LLTransferTargetChannel::requestTransfer): one answer at the most to   *)
(* each request, and a file that is there as a whole or not at all.        *)
(***************************************************************************)
EXTENDS Naturals

CONSTANTS Transfer, Status

VARIABLES
    asked,      \* the transfers that were requested
    answer,     \* transfer -> how its callback was called, or "none"
    file        \* transfer -> its file is "none" or "whole"

vars == <<asked, answer, file>>

Init ==
    /\ asked = {}
    /\ answer = [t \in Transfer |-> "none"]
    /\ file = [t \in Transfer |-> "none"]

Request(t) == t \notin asked /\ asked' = asked \cup {t} /\ UNCHANGED <<answer, file>>

\* The file is there, if at all, from a callback that reports success.
Answer(t, status) ==
    /\ t \in asked /\ answer[t] = "none"
    /\ answer' = [answer EXCEPT ![t] = status]
    /\ \/ status = "DONE" /\ file' = [file EXCEPT ![t] = "whole"]
       \/ UNCHANGED file
    /\ UNCHANGED asked

\* A circuit that is cut answers every transfer at once.
AnswerAll ==
    /\ answer' = [t \in Transfer |-> IF t \in asked /\ answer[t] = "none" THEN "ABORT"
                                     ELSE answer[t]]
    /\ UNCHANGED <<asked, file>>

Next ==
    \/ \E t \in Transfer : Request(t) \/ \E status \in Status : Answer(t, status)
    \/ AnswerAll

Spec == Init /\ [][Next]_vars
=============================================================================
