--------------------------- MODULE Transfer_proofs ---------------------------
(***************************************************************************)
(* What module Transfer keeps for any files, priorities and faults.  The   *)
(* invariant says of each target: the file on the cache's disk, if it is   *)
(* there, holds the packets before the next one, from the first, or is     *)
(* missing since it was evicted or found no room; a packet that is         *)
(* delayed or on the wire is one of its file, and only the last one is     *)
(* DONE; and a target that went was answered, or the viewer exited.  So a  *)
(* file that is renamed is whole, and the manager implements               *)
(* TransferService.                                                        *)
(***************************************************************************)
EXTENDS Transfer, TLAPS, SequenceTheorems, WellFoundedInduction

\* A packet of transfer t that may be on the wire: only the last one is DONE,
\* and it is never OK.
PacketOK(t, n, status) ==
    /\ n \in 0 .. NumPackets[t] - 1
    /\ status = "OK" => n # NumPackets[t] - 1
    /\ status = "DONE" => n = NumPackets[t] - 1

MessagesOK ==
    /\ wire \subseteq Message
    /\ unacked \subseteq DataPacket
    /\ \A m \in wire \cup unacked :
            m.type = "TransferPacket" => PacketOK(m.id, m.packet, m.status)

\* The first n packets of a file.
Packets(n) == [i \in 1 .. n |-> i - 1]

\* What remains of a target that was answered, and of one that could not be.
Answered(t, temp, final, calls) ==
    /\ temp = Nothing /\ final \in {Nothing, Whole(t)}
    /\ \E result \in Results : calls = <<result>>

LeftBehind(t, temp, final, calls) ==
    /\ temp = Nothing \/ \E n \in 0 .. NumPackets[t] : temp = Packets(n)
    /\ calls = <<>> /\ final = Nothing

TargetOK(t, target, temp, final, calls) ==
    /\ target \in Target
    /\ target.next \in 0 .. NumPackets[t] - 1
    /\ \A n \in DOMAIN target.delayed : PacketOK(t, n, target.delayed[n])
    /\ target.needsCreate => target.next = 0
    /\ target.gotInfo => target.next \notin DOMAIN target.delayed
    /\ target.state = "none" => temp = Nothing
    /\ target.state = "waiting" => temp \in {Nothing, Packets(target.next)}
    /\ target.state # "gone" => calls = <<>> /\ final = Nothing
    /\ target.state = "gone" =>
            Answered(t, temp, final, calls) \/ LeftBehind(t, temp, final, calls)

TargetsOK ==
    /\ DOMAIN mTransferTargets = Transfer /\ DOMAIN file = Transfer
    /\ DOMAIN asset = Transfer /\ DOMAIN answers = Transfer
    /\ mTransferTargets = [t \in Transfer |-> mTransferTargets[t]]
    /\ file = [t \in Transfer |-> file[t]]
    /\ asset = [t \in Transfer |-> asset[t]]
    /\ answers = [t \in Transfer |-> answers[t]]
    /\ \A t \in Transfer : TargetOK(t, mTransferTargets[t], file[t], asset[t], answers[t])

\* Targets go unanswered only when the viewer exits, and then the circuit is gone.
ExitOK ==
    /\ ~gAssetStorage => ~connected
    /\ \A t \in Transfer :
            mTransferTargets[t].state = "gone" /\ answers[t] = <<>> => ~gAssetStorage

IInv ==
    /\ mTransferSources \in [Transfer -> Source]
    /\ MessagesOK
    /\ TargetsOK
    /\ duplicates \in 0 .. MaxDuplicates
    /\ forsaken \subseteq Transfer /\ connected \in BOOLEAN /\ gAssetStorage \in BOOLEAN
    /\ ExitOK
-----------------------------------------------------------------------------
(* Packets *)

LEMMA NumPacketsType ==
    ASSUME NEW t \in Transfer
    PROVE  /\ NumPackets[t] \in Nat \ {0}
           /\ 0 .. NumPackets[t] - 1 \subseteq PacketNumber
           /\ PacketNumber \subseteq Nat
<1>1. \A u \in Transfer : NumPackets[u] \in Nat \ {0}
    BY TransferAssumption DEF TransferAssumption
<1>2. \A u \in Transfer : 0 .. NumPackets[u] - 1 \subseteq Nat
    BY <1>1
<1>3. PacketNumber \subseteq Nat
    BY <1>2 DEF PacketNumber
<1>4. 0 .. NumPackets[t] - 1 \subseteq PacketNumber
    BY DEF PacketNumber
<1>5. QED BY <1>1, <1>3, <1>4

\* A set of numbers that is not empty has a least element.
LEMMA LeastElement ==
    ASSUME NEW S \in SUBSET Nat, S # {}
    PROVE  \E n \in S : \A k \in S : n <= k
<1> DEFINE R == OpToRel(<, Nat)
<1>1. \A j, k \in Nat : ~ (<<j, k>> \in R) => ~ (j < k)
    BY Zenon DEF OpToRel
<1>2. IsWellFoundedOn(R, Nat)
    BY NatLessThanWellFounded
<1> HIDE DEF R
<1>3. PICK n \in S : \A k \in S : ~ (<<k, n>> \in R)
    BY <1>2, WFMin
<1>4. ASSUME NEW k \in S
      PROVE  n <= k
    <2>1. n \in Nat /\ k \in Nat
        OBVIOUS
    <2>2. ~ (k < n)
        BY <1>1, <1>3, <2>1, Zenon
    <2>3. QED BY <2>1, <2>2
<1>5. QED BY <1>4

\* Playing back ends at a packet that is missing or ends the transfer, with all
\* before it there.
LEMMA EndOfPlayback ==
    ASSUME NEW t \in Transfer,
           mTransferTargets[t].next \in 0 .. NumPackets[t] - 1,
           NEW delayed,
           \A n \in DOMAIN delayed : PacketOK(t, n, delayed[n])
    PROVE  LET end == EndOf(t, delayed) IN
           /\ end \in mTransferTargets[t].next .. NumPackets[t] - 1
           /\ end \in DOMAIN delayed => delayed[end] # "OK"
<1> DEFINE next == mTransferTargets[t].next
           Stops(n) == n \in DOMAIN delayed => delayed[n] # "OK"
           Passed(n) == \A k \in next .. n - 1 : k \in DOMAIN delayed /\ delayed[k] = "OK"
           stops == {n \in next .. NumPackets[t] : Stops(n)}
<1>1. NumPackets[t] \in Nat \ {0} /\ next \in Nat /\ next <= NumPackets[t] - 1
    BY NumPacketsType
<1>2. NumPackets[t] \notin DOMAIN delayed
    BY <1>1 DEF PacketOK
<1>3. NumPackets[t] \in stops /\ stops \in SUBSET Nat
    BY <1>1, <1>2
<1>4. PICK n \in stops : \A k \in stops : n <= k
    BY <1>3, LeastElement
<1>5. ASSUME NEW k \in next .. n - 1
      PROVE  k \in DOMAIN delayed /\ delayed[k] = "OK"
    <2>1. k \notin stops
        BY <1>1, <1>3, <1>4
    <2>2. k \in next .. NumPackets[t]
        BY <1>1, <1>3
    <2>3. QED BY <2>1, <2>2
<1>6. n \in next .. NumPackets[t] /\ Stops(n) /\ Passed(n)
    BY <1>5
<1>7. EndOf(t, delayed) = CHOOSE m \in next .. NumPackets[t] : Stops(m) /\ Passed(m)
    BY DEF EndOf
<1> HIDE DEF Stops, Passed
<1>8. PICK end : end = EndOf(t, delayed)
    OBVIOUS
<1>9. end \in next .. NumPackets[t] /\ Stops(end) /\ Passed(end)
    BY <1>6, <1>7, <1>8
<1>10. end # NumPackets[t]
    <2>1. SUFFICES ASSUME end = NumPackets[t]
                   PROVE  FALSE
        OBVIOUS
    <2>2. NumPackets[t] - 1 \in next .. end - 1
        BY <1>1, <2>1
    <2>3. NumPackets[t] - 1 \in DOMAIN delayed /\ delayed[NumPackets[t] - 1] = "OK"
        BY <1>9, <2>2 DEF Passed
    <2>4. QED BY <2>3 DEF PacketOK
<1>11. end \in next .. NumPackets[t] - 1
    BY <1>1, <1>9, <1>10
<1>12. QED BY <1>8, <1>9, <1>11 DEF Stops

\* What is in the file is always the packets before the next, if it is there.
LEMMA ContentsInOrder ==
    ASSUME NEW t \in Transfer,
           mTransferTargets[t].next \in 0 .. NumPackets[t] - 1,
           mTransferTargets[t].needsCreate => mTransferTargets[t].next = 0,
           file[t] \in {Nothing, Packets(mTransferTargets[t].next)},
           NEW last \in mTransferTargets[t].next - 1 .. NumPackets[t] - 1,
           NEW content \in Contents(t, last)
    PROVE  content \in {Nothing, Packets(last + 1)}
<1>1. PICK next : next = mTransferTargets[t].next
    OBVIOUS
<1>2. NumPackets[t] \in Nat \ {0} /\ next \in Nat /\ last \in Int /\ last >= next - 1
    BY <1>1, NumPacketsType
<1> DEFINE packets == [i \in 1 .. last + 1 - next |-> next + i - 1]
<1>3. packets \in Seq(Int) /\ Len(packets) = last + 1 - next
    BY <1>2
<1>4. CASE packets = <<>>
    <2>1. content = file[t]
        BY <1>1, <1>4 DEF Contents
    <2>2. last + 1 = next
        BY <1>2, <1>3, <1>4
    <2>3. QED BY <1>1, <2>1, <2>2
<1>5. CASE packets # <<>>
    <2> DEFINE old == IF mTransferTargets[t].needsCreate THEN {<<>>, Nothing} ELSE {file[t]}
    <2>1. PICK c \in old : content = IF c = Nothing THEN Nothing ELSE c \o packets
        BY <1>1, <1>5 DEF Contents
    <2>2. c = Nothing \/ c = Packets(next)
        <3>1. Packets(0) = <<>>
            BY DEF Packets
        <3>2. QED BY <1>1, <2>1, <3>1
    <2>3. Packets(next) \o packets = Packets(last + 1)
        <3>1. Packets(next) \in Seq(Int) /\ Len(Packets(next)) = next
            BY <1>2 DEF Packets
        <3>2. Packets(last + 1) \in Seq(Int) /\ Len(Packets(last + 1)) = last + 1
            BY <1>2 DEF Packets
        <3> DEFINE s == Packets(next) \o packets
        <3>3. s \in Seq(Int) /\ Len(s) = last + 1
            <4>1. PICK a, b \in Seq(Int) : a = Packets(next) /\ b = packets
                BY <1>3, <3>1
            <4>2. a \o b \in Seq(Int) /\ Len(a \o b) = Len(a) + Len(b)
                BY ConcatProperties
            <4>3. Len(a) = next
                BY <3>1, <4>1
            <4>4. Len(b) = last + 1 - next
                BY <1>3, <4>1
            <4>5. Len(a) + Len(b) = last + 1
                BY <1>2, <4>3, <4>4
            <4>6. QED BY <4>1, <4>2, <4>5
        <3>4. \A i \in 1 .. last + 1 : s[i] = i - 1
            BY <1>2, <1>3, <3>1, ConcatProperties DEF Packets
        <3>5. \A i \in 1 .. last + 1 : s[i] = Packets(last + 1)[i]
            BY <3>4 DEF Packets
        <3> HIDE DEF s
        <3>6. s = Packets(last + 1)
            BY <3>2, <3>3, <3>5, SeqEqual
        <3>7. QED BY <3>6 DEF s
    <2>4. QED BY <2>1, <2>2, <2>3
<1>6. QED BY <1>4, <1>5
-----------------------------------------------------------------------------
(* What a step does to the targets *)

\* A target goes on, with other packets or another file.
Continued(t) ==
    \E target, temp :
        /\ TargetOK(t, target, temp, asset[t], answers[t])
        /\ target.state = mTransferTargets[t].state
        /\ mTransferTargets' = [mTransferTargets EXCEPT ![t] = target]
        /\ file' = [file EXCEPT ![t] = temp]
        /\ UNCHANGED <<asset, answers>>

\* A target is answered and goes.
Completed(t) ==
    /\ Waiting(t)
    /\ \E result \in Results, content \in {Nothing, Whole(t)} : Complete(t, result, content)

\* The parts of a target.
LEMMA TargetParts ==
    ASSUME TargetsOK, NEW t \in Transfer
    PROVE  TargetOK(t, mTransferTargets[t], file[t], asset[t], answers[t])
BY DEF TargetsOK

LEMMA ContinuedKeeps ==
    ASSUME TargetsOK, NEW t \in Transfer, Continued(t)
    PROVE  TargetsOK'
<1>1. PICK target, temp :
            /\ TargetOK(t, target, temp, asset[t], answers[t])
            /\ mTransferTargets' = [mTransferTargets EXCEPT ![t] = target]
            /\ file' = [file EXCEPT ![t] = temp]
            /\ asset' = asset /\ answers' = answers
    BY DEF Continued
<1>2. /\ DOMAIN mTransferTargets' = Transfer /\ DOMAIN file' = Transfer
      /\ mTransferTargets' = [u \in Transfer |-> mTransferTargets'[u]]
      /\ file' = [u \in Transfer |-> file'[u]]
    BY <1>1 DEF TargetsOK
<1>3. ASSUME NEW u \in Transfer
      PROVE  TargetOK(u, mTransferTargets'[u], file'[u], asset'[u], answers'[u])
    <2>1. CASE u = t
        <3>1. mTransferTargets'[u] = target /\ file'[u] = temp
            BY <1>1, <2>1 DEF TargetsOK
        <3>2. QED BY <1>1, <2>1, <3>1
    <2>2. CASE u # t
        <3>1. mTransferTargets'[u] = mTransferTargets[u] /\ file'[u] = file[u]
            BY <1>1, <2>2 DEF TargetsOK
        <3>2. QED BY <1>1, <3>1, TargetParts
    <2>3. QED BY <2>1, <2>2
<1>4. /\ DOMAIN asset' = Transfer /\ DOMAIN answers' = Transfer
      /\ asset' = [u \in Transfer |-> asset'[u]] /\ answers' = [u \in Transfer |-> answers'[u]]
    BY <1>1 DEF TargetsOK
<1>5. QED BY <1>2, <1>3, <1>4 DEF TargetsOK

\* The target of an answered transfer, and the answer.
LEMMA CompletedParts ==
    ASSUME TargetsOK, NEW t \in Transfer, Waiting(t),
           NEW result \in Results, NEW content \in {Nothing, Whole(t)},
           Complete(t, result, content)
    PROVE  /\ \A u \in Transfer \ {t} :
                    /\ mTransferTargets'[u] = mTransferTargets[u] /\ file'[u] = file[u]
                    /\ asset'[u] = asset[u] /\ answers'[u] = answers[u]
           /\ mTransferTargets'[t] = [NoTarget EXCEPT !.state = "gone"]
           /\ file'[t] = Nothing
           /\ asset'[t] = IF result = "DONE" THEN content ELSE Nothing
           /\ answers'[t] = <<result>>
<1>1. TargetOK(t, mTransferTargets[t], file[t], asset[t], answers[t])
    BY TargetParts
<1>2. answers[t] = <<>> /\ asset[t] = Nothing
    BY <1>1 DEF TargetOK, Waiting
<1>3. ASSUME NEW u \in Transfer \ {t}
      PROVE  /\ mTransferTargets'[u] = mTransferTargets[u] /\ file'[u] = file[u]
             /\ asset'[u] = asset[u] /\ answers'[u] = answers[u]
    <2>1. mTransferTargets'[u] = mTransferTargets[u]
        BY DEF Complete, TargetsOK
    <2>2. file'[u] = file[u]
        BY DEF Complete, TargetsOK
    <2>3. asset'[u] = asset[u]
        BY DEF Complete, TargetsOK
    <2>4. answers'[u] = answers[u]
        BY DEF Complete, TargetsOK
    <2>5. QED BY <2>1, <2>2, <2>3, <2>4
<1>4. mTransferTargets'[t] = [NoTarget EXCEPT !.state = "gone"]
    BY DEF Complete, TargetsOK
<1>5. file'[t] = Nothing
    BY DEF Complete, TargetsOK
<1>6. asset'[t] = IF result = "DONE" THEN content ELSE Nothing
    BY <1>2 DEF Complete, TargetsOK
<1>7. answers'[t] = Append(answers[t], result)
    BY DEF Complete, TargetsOK
<1>8. answers'[t] = <<result>>
    BY <1>2, <1>7
<1>9. QED BY <1>3, <1>4, <1>5, <1>6, <1>8

\* A target that is gone.
LEMMA GoneOK ==
    ASSUME NEW t \in Transfer, NEW result \in Results, NEW final \in {Nothing, Whole(t)}
    PROVE  TargetOK(t, [NoTarget EXCEPT !.state = "gone"], Nothing, final, <<result>>)
<1>1. 0 \in 0 .. NumPackets[t] - 1 /\ 0 \in PacketNumber
    BY NumPacketsType
<1>2. <<>> \in UNION {[S -> PacketStatus] : S \in SUBSET PacketNumber}
    <2>1. <<>> \in [{} -> PacketStatus]
        OBVIOUS
    <2>2. QED BY <2>1
<1>3. NoTarget \in Target
    BY <1>1, <1>2 DEF Target, NoTarget
<1> DEFINE target == [NoTarget EXCEPT !.state = "gone"]
<1>4. target \in Target
    BY <1>3 DEF Target
<1>5. target.state = "gone" /\ target.next = 0
    BY DEF NoTarget
<1>6. target.delayed = <<>>
    BY DEF NoTarget
<1>7. target.gotInfo = FALSE
    BY Zenon DEF NoTarget
<1>8. DOMAIN target.delayed = {}
    BY <1>6
<1> HIDE DEF target
<1>9. TargetOK(t, target, Nothing, final, <<result>>)
    BY <1>1, <1>4, <1>5, <1>7, <1>8 DEF TargetOK, Answered
<1>10. QED BY <1>9 DEF target

LEMMA CompletedKeeps ==
    ASSUME TargetsOK, NEW t \in Transfer, Completed(t)
    PROVE  TargetsOK'
<1>1. PICK result \in Results, content \in {Nothing, Whole(t)} : Complete(t, result, content)
    BY DEF Completed
<1>2. Waiting(t)
    BY DEF Completed
<1>3. ASSUME NEW u \in Transfer
      PROVE  TargetOK(u, mTransferTargets'[u], file'[u], asset'[u], answers'[u])
    <2>1. CASE u = t
        <3>1. PICK final \in {Nothing, Whole(t)} : asset'[t] = final
            BY <1>1, <1>2, CompletedParts
        <3>2. QED BY <1>1, <1>2, <2>1, <3>1, CompletedParts, GoneOK
    <2>2. CASE u # t
        <3>1. /\ mTransferTargets'[u] = mTransferTargets[u] /\ file'[u] = file[u]
              /\ asset'[u] = asset[u] /\ answers'[u] = answers[u]
            BY <1>1, <1>2, <2>2, CompletedParts
        <3>2. QED BY <3>1, TargetParts
    <2>3. QED BY <2>1, <2>2
<1>4. DOMAIN mTransferTargets' = Transfer /\ DOMAIN file' = Transfer
      /\ DOMAIN asset' = Transfer /\ DOMAIN answers' = Transfer
    BY <1>1 DEF Complete, TargetsOK
<1>5. /\ mTransferTargets' = [u \in Transfer |-> mTransferTargets'[u]]
      /\ file' = [u \in Transfer |-> file'[u]]
      /\ answers' = [u \in Transfer |-> answers'[u]]
    BY <1>1 DEF Complete, TargetsOK
<1>6. asset' = [u \in Transfer |-> asset'[u]]
    BY <1>1 DEF Complete, TargetsOK
<1>7. QED BY <1>3, <1>4, <1>5, <1>6 DEF TargetsOK

LEMMA PlayBackStep ==
    ASSUME TargetsOK, NEW t \in Transfer, Waiting(t),
           NEW delayed \in UNION {[S -> PacketStatus] : S \in SUBSET PacketNumber},
           \A n \in DOMAIN delayed : PacketOK(t, n, delayed[n]),
           PlayBack(t, delayed)
    PROVE  Continued(t) \/ Completed(t)
<1>1. PICK old : old = mTransferTargets[t]
    OBVIOUS
<1>2. TargetOK(t, old, file[t], asset[t], answers[t])
    BY <1>1, TargetParts
<1>3. PICK end : end = EndOf(t, delayed)
    OBVIOUS
<1>4. /\ end \in old.next .. NumPackets[t] - 1
      /\ end \in DOMAIN delayed => delayed[end] # "OK"
    BY <1>1, <1>2, <1>3, EndOfPlayback DEF TargetOK
<1>5. NumPackets[t] \in Nat \ {0} /\ old.next \in Nat /\ end \in 0 .. NumPackets[t] - 1
      /\ end \in PacketNumber
    BY <1>2, <1>4, NumPacketsType DEF TargetOK
<1>6. ASSUME NEW last \in old.next - 1 .. NumPackets[t] - 1, NEW content \in Contents(t, last)
      PROVE  content \in {Nothing, Packets(last + 1)}
    BY <1>1, <1>2, ContentsInOrder DEF TargetOK, Waiting
<1>7. CASE end \in DOMAIN delayed
    <2>1. PICK content \in Contents(t, end) : Complete(t, delayed[end], content)
        BY <1>3, <1>7 DEF PlayBack
    <2>2. delayed[end] \in PacketStatus /\ PacketOK(t, end, delayed[end])
        BY <1>7
    <2>3. content \in {Nothing, Packets(end + 1)}
        BY <1>4, <1>5, <1>6, <2>1
    <2>4. CASE delayed[end] = "DONE"
        <3>1. end + 1 = NumPackets[t]
            BY <1>5, <2>2, <2>4 DEF PacketOK
        <3>2. content \in {Nothing, Whole(t)}
            BY <2>3, <3>1 DEF Packets, Whole
        <3>3. QED BY <2>1, <2>4, <3>2 DEF Completed, Results
    <2>5. CASE delayed[end] = "ERROR"
        <3>1. Complete(t, "ERROR", Nothing)
            BY <2>1, <2>5 DEF Complete
        <3>2. QED BY <3>1 DEF Completed, Results
    <2>6. QED BY <1>4, <1>7, <2>2, <2>4, <2>5 DEF PacketStatus
<1>8. CASE end \notin DOMAIN delayed
    <2> DEFINE rest == [k \in {k \in DOMAIN delayed : k \notin old.next .. end} |-> delayed[k]]
    <2>1. PICK content \in Contents(t, end - 1) :
            /\ mTransferTargets' = [mTransferTargets EXCEPT
                    ![t].gotInfo = TRUE, ![t].next = end, ![t].delayed = rest,
                    ![t].needsCreate = @ /\ end = old.next]
            /\ file' = [file EXCEPT ![t] = content]
            /\ asset' = asset /\ answers' = answers
        BY <1>1, <1>3, <1>8 DEF PlayBack
    <2>2. content \in {Nothing, Packets(end)}
        <3>1. end - 1 \in old.next - 1 .. NumPackets[t] - 1 /\ end - 1 + 1 = end
            BY <1>4, <1>5
        <3>2. QED BY <1>6, <2>1, <3>1
    <2> DEFINE new == [old EXCEPT !.gotInfo = TRUE, !.next = end, !.delayed = rest,
                                  !.needsCreate = @ /\ end = old.next]
    <2>3. mTransferTargets' = [mTransferTargets EXCEPT ![t] = new]
        BY <1>1, <2>1 DEF TargetsOK
    <2>4. rest \in UNION {[S -> PacketStatus] : S \in SUBSET PacketNumber}
        <3>1. PICK S \in SUBSET PacketNumber : delayed \in [S -> PacketStatus]
            OBVIOUS
        <3>2. rest \in [{k \in S : k \notin old.next .. end} -> PacketStatus]
            BY <3>1
        <3>3. QED BY <3>2
    <2>5. /\ DOMAIN rest \subseteq DOMAIN delayed /\ end \notin DOMAIN rest
          /\ \A n \in DOMAIN rest : rest[n] = delayed[n]
        BY <1>8
    <2> HIDE DEF rest
    <2>6. old \in Target /\ old.state = "waiting" /\ (old.needsCreate => old.next = 0)
        BY <1>1, <1>2 DEF TargetOK, Waiting
    <2>7. PICK created \in BOOLEAN : created = (old.needsCreate /\ end = old.next)
        OBVIOUS
    <2> DEFINE n2 == [old EXCEPT !.gotInfo = TRUE, !.next = end, !.delayed = rest,
                                 !.needsCreate = created]
    <2>8. new = n2
        BY <2>6, <2>7 DEF Target
    <2>9. n2 \in Target
        BY <1>5, <2>4, <2>6 DEF Target
    <2>10. n2.state = "waiting" /\ n2.next = end /\ n2.delayed = rest
        BY <2>6 DEF Target
    <2>11. n2.needsCreate = created
        BY <2>6, Zenon DEF Target
    <2>12. n2.needsCreate => n2.next = 0
        BY <2>6, <2>7, <2>10, <2>11
    <2> HIDE DEF new, n2
    <2>13. asset[t] = Nothing /\ answers[t] = <<>>
        BY <1>1, <1>2, <2>6 DEF TargetOK
    <2>14. TargetOK(t, n2, content, asset[t], answers[t])
        BY <1>5, <2>2, <2>5, <2>9, <2>10, <2>12, <2>13 DEF TargetOK
    <2>15. QED BY <1>1, <2>1, <2>3, <2>6, <2>8, <2>10, <2>14 DEF Continued
<1>9. QED BY <1>7, <1>8
-----------------------------------------------------------------------------
(* The messages *)

LEMMA MessageParts ==
    ASSUME MessagesOK, NEW m \in wire
    PROVE  /\ m.id \in Transfer
           /\ m.type \in {"TransferRequest", "TransferInfo", "TransferPacket", "TransferAbort"}
           /\ m.type = "TransferInfo" => m.status \in InfoStatus
           /\ m.type = "TransferPacket" =>
                    m.packet \in PacketNumber /\ m.status \in PacketStatus
                    /\ PacketOK(m.id, m.packet, m.status)
<1>1. m \in Message
    BY DEF MessagesOK
<1>2. m.type = "TransferPacket" => PacketOK(m.id, m.packet, m.status)
    BY DEF MessagesOK
<1>3. QED BY <1>1, <1>2 DEF Message, DataPacket

LEMMA AbortType ==
    ASSUME NEW t \in Transfer, NEW to \in {"source", "target"}
    PROVE  Abort(t, to) \in Message /\ Abort(t, to).type # "TransferPacket"
BY DEF Abort, Message

\* The messages stay messages when others, none of them a packet, are added.
LEMMA WireKeeps ==
    ASSUME MessagesOK, NEW sent \in SUBSET Message,
           \A m \in sent : m.type # "TransferPacket",
           wire' \subseteq wire \cup sent, unacked' \subseteq unacked
    PROVE  MessagesOK'
<1>1. wire' \subseteq Message /\ unacked' \subseteq DataPacket
    BY DEF MessagesOK
<1>2. ASSUME NEW m \in wire' \cup unacked', m.type = "TransferPacket"
      PROVE  PacketOK(m.id, m.packet, m.status)
    <2>1. m \in wire \cup unacked
        BY <1>2
    <2>2. QED BY <1>2, <2>1 DEF MessagesOK
<1>3. QED BY <1>1, <1>2 DEF MessagesOK

LEMMA TakeKeeps ==
    ASSUME MessagesOK, NEW m, NEW sent \in SUBSET Message,
           \A n \in sent : n.type # "TransferPacket",
           Take(m, sent), unacked' = unacked, duplicates \in 0 .. MaxDuplicates
    PROVE  MessagesOK' /\ duplicates' \in 0 .. MaxDuplicates
<1>1. wire' \subseteq wire \cup sent
    BY DEF Take
<1>2. MessagesOK'
    BY <1>1, WireKeeps
<1>3. MaxDuplicates \in Nat
    BY TransferAssumption DEF TransferAssumption
<1>4. duplicates' \in 0 .. MaxDuplicates
    BY <1>3 DEF Take
<1>5. QED BY <1>2, <1>4
-----------------------------------------------------------------------------
(* The actions *)

\* What a step may do to the targets, their files and answers.
TargetStep ==
    \/ UNCHANGED targetVars
    \/ \E t \in Transfer : RequestTransfer(t) \/ Continued(t) \/ Completed(t)
    \/ Cut
    \/ Exit

LEMMA RequestKeeps ==
    ASSUME TargetsOK, NEW t \in Transfer, RequestTransfer(t)
    PROVE  TargetsOK'
<1>1. PICK old : old = mTransferTargets[t]
    OBVIOUS
<1>2. TargetOK(t, old, file[t], asset[t], answers[t]) /\ old.state = "none"
    BY <1>1, TargetParts DEF RequestTransfer
<1> DEFINE new == [old EXCEPT !.state = "waiting"]
<1>3. new \in Target /\ new.state = "waiting" /\ new.next = old.next /\ new.delayed = old.delayed
    BY <1>2 DEF TargetOK, Target
<1>4. new.gotInfo = old.gotInfo
    BY <1>2, Zenon DEF TargetOK, Target
<1>5. new.needsCreate = old.needsCreate
    BY <1>2, Zenon DEF TargetOK, Target
<1>6. mTransferTargets' = [mTransferTargets EXCEPT ![t] = new]
    BY <1>1 DEF RequestTransfer, TargetsOK
<1> HIDE DEF new
<1>7. TargetOK(t, new, file[t], asset[t], answers[t])
    BY <1>2, <1>3, <1>4, <1>5 DEF TargetOK
<1>8. DOMAIN mTransferTargets' = Transfer
      /\ mTransferTargets' = [u \in Transfer |-> mTransferTargets'[u]]
    BY <1>6 DEF TargetsOK
<1>9. file' = file /\ asset' = asset /\ answers' = answers
    BY DEF RequestTransfer
<1>10. ASSUME NEW u \in Transfer
       PROVE  TargetOK(u, mTransferTargets'[u], file'[u], asset'[u], answers'[u])
    <2>1. CASE u = t
        <3>1. mTransferTargets'[u] = new
            BY <1>6, <2>1 DEF TargetsOK
        <3>2. QED BY <1>7, <1>9, <2>1, <3>1
    <2>2. CASE u # t
        <3>1. mTransferTargets'[u] = mTransferTargets[u]
            BY <1>6, <2>2 DEF TargetsOK
        <3>2. QED BY <1>9, <3>1, TargetParts
    <2>3. QED BY <2>1, <2>2
<1>11. QED BY <1>8, <1>9, <1>10 DEF TargetsOK

LEMMA CutKeeps ==
    ASSUME TargetsOK, Cut
    PROVE  TargetsOK'
<1>1. ASSUME NEW u \in Transfer
      PROVE  TargetOK(u, mTransferTargets'[u], file'[u], asset'[u], answers'[u])
    <2>1. CASE Waiting(u)
        <3>1. TargetOK(u, mTransferTargets[u], file[u], asset[u], answers[u])
            BY TargetParts
        <3>2. asset[u] = Nothing /\ answers[u] = <<>>
            BY <2>1, <3>1 DEF TargetOK, Waiting
        <3>3. mTransferTargets'[u] = [NoTarget EXCEPT !.state = "gone"]
            BY <2>1 DEF Cut, Disconnect
        <3>4. file'[u] = Nothing /\ asset'[u] = Nothing
            BY <2>1, <3>2 DEF Cut
        <3>5. answers'[u] = <<"ABORT">>
            <4>1. answers'[u] = Append(answers[u], "ABORT")
                BY <2>1 DEF Cut
            <4>2. QED BY <3>2, <4>1
        <3>6. QED BY <3>3, <3>4, <3>5, GoneOK DEF Results
    <2>2. CASE ~Waiting(u)
        <3>1. /\ mTransferTargets'[u] = mTransferTargets[u] /\ file'[u] = file[u]
              /\ asset'[u] = asset[u] /\ answers'[u] = answers[u]
            BY <2>2 DEF Cut, Disconnect
        <3>2. QED BY <3>1, TargetParts
    <2>3. QED BY <2>1, <2>2
<1>2. /\ DOMAIN mTransferTargets' = Transfer /\ DOMAIN file' = Transfer
      /\ DOMAIN answers' = Transfer
      /\ mTransferTargets' = [u \in Transfer |-> mTransferTargets'[u]]
      /\ file' = [u \in Transfer |-> file'[u]]
      /\ answers' = [u \in Transfer |-> answers'[u]]
    BY DEF Cut, Disconnect
<1>3. DOMAIN asset' = Transfer /\ asset' = [u \in Transfer |-> asset'[u]]
    BY DEF Cut, TargetsOK
<1>4. QED BY <1>1, <1>2, <1>3 DEF TargetsOK

\* The viewer exits, and leaves the files of its targets.
LEMMA ExitKeeps ==
    ASSUME TargetsOK, Exit
    PROVE  TargetsOK'
<1>1. ASSUME NEW u \in Transfer
      PROVE  TargetOK(u, mTransferTargets'[u], file'[u], asset'[u], answers'[u])
    <2>1. TargetOK(u, mTransferTargets[u], file[u], asset[u], answers[u])
        BY TargetParts
    <2>2. file'[u] = file[u] /\ asset'[u] = asset[u] /\ answers'[u] = answers[u]
        BY DEF Exit
    <2>3. CASE Waiting(u)
        <3>1. mTransferTargets'[u] = [NoTarget EXCEPT !.state = "gone"]
            BY <2>3 DEF Exit, Disconnect
        <3>2. asset[u] = Nothing /\ answers[u] = <<>>
            BY <2>1, <2>3 DEF TargetOK, Waiting
        <3>3. file[u] = Nothing \/ \E n \in 0 .. NumPackets[u] : file[u] = Packets(n)
            BY <2>1, <2>3, NumPacketsType DEF TargetOK, Waiting
        <3>4. LeftBehind(u, file[u], asset[u], answers[u])
            BY <3>2, <3>3 DEF LeftBehind
        <3>5. "ABORT" \in Results /\ Nothing \in {Nothing, Whole(u)}
            BY DEF Results
        <3>6. TargetOK(u, [NoTarget EXCEPT !.state = "gone"], Nothing, Nothing, <<"ABORT">>)
            BY <3>5, GoneOK
        <3> DEFINE target == [NoTarget EXCEPT !.state = "gone"]
        <3>7. target.state = "gone"
            BY DEF NoTarget
        <3> HIDE DEF target
        <3>8. TargetOK(u, target, file[u], asset[u], answers[u])
            <4>1. TargetOK(u, target, Nothing, Nothing, <<"ABORT">>)
                BY <3>6 DEF target
            <4>2. QED BY <3>4, <3>7, <4>1 DEF TargetOK
        <3>9. mTransferTargets'[u] = target
            BY <3>1 DEF target
        <3>10. QED BY <2>2, <3>8, <3>9
    <2>4. CASE ~Waiting(u)
        <3>1. mTransferTargets'[u] = mTransferTargets[u]
            BY <2>4 DEF Exit, Disconnect
        <3>2. QED BY <2>1, <2>2, <3>1
    <2>5. QED BY <2>3, <2>4
<1>2. /\ DOMAIN mTransferTargets' = Transfer
      /\ mTransferTargets' = [u \in Transfer |-> mTransferTargets'[u]]
    BY DEF Exit, Disconnect
<1>3. file' = file /\ asset' = asset /\ answers' = answers
    BY DEF Exit
<1>4. QED BY <1>1, <1>2, <1>3 DEF TargetsOK

LEMMA TargetStepKeeps ==
    ASSUME TargetsOK, TargetStep
    PROVE  TargetsOK'
<1>1. CASE UNCHANGED targetVars
    BY <1>1 DEF targetVars, TargetsOK, TargetOK
<1>2. CASE \E t \in Transfer : RequestTransfer(t) \/ Continued(t) \/ Completed(t)
    BY <1>2, RequestKeeps, ContinuedKeeps, CompletedKeeps
<1>3. CASE Cut
    BY <1>3, CutKeeps
<1>4. CASE Exit
    BY <1>4, ExitKeeps
<1>5. QED BY <1>1, <1>2, <1>3, <1>4 DEF TargetStep

\* While the viewer runs, a target that goes is answered.
LEMMA GoneIsAnswered ==
    ASSUME TargetsOK, TargetStep, ~Exit, NEW t \in Transfer,
           mTransferTargets[t].state = "gone" => answers[t] # <<>>,
           mTransferTargets'[t].state = "gone"
    PROVE  answers'[t] # <<>>
<1>1. CASE UNCHANGED targetVars
    BY <1>1 DEF targetVars
<1>2. ASSUME NEW u \in Transfer, RequestTransfer(u)
      PROVE  answers'[t] # <<>>
    <2>1. mTransferTargets[t].state = "gone"
        <3>1. CASE u = t
            <4>1. mTransferTargets[t] \in Target
                BY TargetParts DEF TargetOK
            <4>2. mTransferTargets'[t].state = "waiting"
                BY <1>2, <3>1, <4>1 DEF RequestTransfer, TargetsOK, Target
            <4>3. QED BY <4>2
        <3>2. CASE u # t
            BY <1>2, <3>2 DEF RequestTransfer, TargetsOK
        <3>3. QED BY <3>1, <3>2
    <2>2. QED BY <1>2, <2>1 DEF RequestTransfer
<1>3. ASSUME NEW u \in Transfer, Continued(u)
      PROVE  answers'[t] # <<>>
    BY <1>3 DEF Continued, TargetsOK
<1>4. ASSUME NEW u \in Transfer, Completed(u)
      PROVE  answers'[t] # <<>>
    <2>1. PICK result \in Results, content \in {Nothing, Whole(u)} :
                Waiting(u) /\ Complete(u, result, content)
        BY <1>4 DEF Completed
    <2>2. /\ \A v \in Transfer \ {u} :
                /\ mTransferTargets'[v] = mTransferTargets[v] /\ answers'[v] = answers[v]
          /\ answers'[u] = <<result>>
        BY <2>1, CompletedParts
    <2>3. QED BY <2>2
<1>5. CASE Cut
    <2>1. CASE Waiting(t)
        <3>1. answers[t] = <<>>
            BY <2>1, TargetParts DEF TargetOK, Waiting
        <3>2. answers'[t] = Append(answers[t], "ABORT")
            BY <1>5, <2>1 DEF Cut
        <3>3. answers'[t] = <<"ABORT">>
            BY <3>1, <3>2
        <3>4. QED BY <3>3
    <2>2. CASE ~Waiting(t)
        BY <1>5, <2>2 DEF Cut, Disconnect
    <2>3. QED BY <2>1, <2>2
<1>6. QED BY <1>1, <1>2, <1>3, <1>4, <1>5 DEF TargetStep

\* What a step may do to the two hosts.
HostStep == UNCHANGED hostVars \/ Cut \/ Exit

\* What is left to show of an action.
LEMMA StepKeeps ==
    ASSUME IInv, TargetStep, MessagesOK', mTransferSources' \in [Transfer -> Source],
           duplicates' \in 0 .. MaxDuplicates, forsaken' \subseteq Transfer,
           HostStep
    PROVE  IInv'
<1>1. connected' \in BOOLEAN /\ gAssetStorage' \in BOOLEAN
    BY DEF HostStep, hostVars, Cut, Exit, Disconnect, IInv
<1>2. ExitOK'
    <2>1. CASE Exit
        BY <2>1 DEF Exit, Disconnect, ExitOK
    <2>2. CASE ~Exit
        <3>1. gAssetStorage' = gAssetStorage /\ (connected' = connected \/ connected' = FALSE)
            BY <2>2 DEF HostStep, hostVars, Cut, Disconnect
        <3>2. ASSUME NEW t \in Transfer, gAssetStorage,
                     mTransferTargets'[t].state = "gone", answers'[t] = <<>>
              PROVE  FALSE
            <4>1. mTransferTargets[t].state = "gone" => answers[t] # <<>>
                BY <3>2 DEF IInv, ExitOK
            <4>2. answers'[t] # <<>>
                BY <2>2, <3>2, <4>1, GoneIsAnswered DEF IInv
            <4>3. QED BY <3>2, <4>2
        <3>3. ~gAssetStorage' => ~connected'
            BY <3>1 DEF IInv, ExitOK
        <3>4. QED BY <3>1, <3>2, <3>3 DEF ExitOK
    <2>3. QED BY <2>1, <2>2
<1>3. TargetsOK'
    BY TargetStepKeeps DEF IInv
<1>4. QED BY <1>1, <1>2, <1>3 DEF IInv

LEMMA RequestStep ==
    ASSUME IInv, NEW t \in Transfer, RequestTransfer(t)
    PROVE  IInv' /\ TargetStep
<1>1. TargetStep
    BY DEF TargetStep
<1>2. Request(t) \in Message /\ Request(t).type # "TransferPacket"
    BY DEF Request, Message
<1>3. MessagesOK'
    <2> DEFINE sent == {Request(t)}
    <2>1. sent \in SUBSET Message /\ \A m \in sent : m.type # "TransferPacket"
        BY <1>2
    <2>2. wire' \subseteq wire \cup sent /\ unacked' \subseteq unacked
        BY DEF RequestTransfer
    <2> HIDE DEF sent
    <2>3. QED BY <2>1, <2>2, WireKeeps DEF IInv
<1>4. QED BY <1>1, <1>3, StepKeeps DEF HostStep, hostVars, RequestTransfer, sourceVars, IInv

LEMMA EvictStep ==
    ASSUME IInv, NEW t \in Transfer, Evict(t)
    PROVE  IInv' /\ TargetStep
<1>1. TargetOK(t, mTransferTargets[t], file[t], asset[t], answers[t])
    BY TargetParts DEF IInv
<1>2. PICK target : target = mTransferTargets[t]
    OBVIOUS
<1>3. TargetOK(t, target, Nothing, asset[t], answers[t])
    BY <1>1, <1>2 DEF TargetOK, Answered, LeftBehind
<1>4. mTransferTargets' = [mTransferTargets EXCEPT ![t] = target]
    BY <1>2 DEF Evict, IInv, TargetsOK
<1>5. Continued(t)
    BY <1>2, <1>3, <1>4 DEF Continued, Evict
<1>6. TargetStep
    BY <1>5 DEF TargetStep
<1>7. MessagesOK'
    BY DEF Evict, IInv, MessagesOK
<1>8. QED BY <1>6, <1>7, StepKeeps DEF HostStep, hostVars, Evict, sourceVars, IInv

LEMMA InfoStep ==
    ASSUME IInv, NEW m \in wire, ProcessTransferInfo(m)
    PROVE  IInv' /\ TargetStep
<1>1. PICK t \in Transfer : t = m.id
    BY MessageParts DEF IInv
<1>2. m.status \in InfoStatus
    BY MessageParts DEF IInv, ProcessTransferInfo
<1>3. PICK sent \in {{}, {Abort(t, "source")}} : Take(m, sent)
    BY <1>1 DEF ProcessTransferInfo
<1>4. sent \in SUBSET Message /\ \A n \in sent : n.type # "TransferPacket"
    BY <1>3, AbortType
<1>5. unacked' = unacked /\ duplicates \in 0 .. MaxDuplicates /\ MessagesOK
    BY DEF ProcessTransferInfo, IInv
<1>6. MessagesOK' /\ duplicates' \in 0 .. MaxDuplicates
    BY <1>3, <1>4, <1>5, TakeKeeps
<1>7. TargetStep
    <2>1. CASE ~Waiting(t) /\ UNCHANGED targetVars
        BY <2>1 DEF TargetStep
    <2>2. CASE Waiting(t) /\ m.status # "OK" /\ Complete(t, m.status, Nothing)
        <3>1. m.status \in Results
            BY <1>2, <2>2 DEF InfoStatus, Results
        <3>2. QED BY <2>2, <3>1 DEF Completed, TargetStep
    <2>3. CASE Waiting(t) /\ PlayBack(t, mTransferTargets[t].delayed)
        <3>1. TargetOK(t, mTransferTargets[t], file[t], asset[t], answers[t])
            BY TargetParts DEF IInv
        <3>2. PICK delayed : delayed = mTransferTargets[t].delayed
            OBVIOUS
        <3>3. /\ delayed \in UNION {[S -> PacketStatus] : S \in SUBSET PacketNumber}
              /\ \A n \in DOMAIN delayed : PacketOK(t, n, delayed[n])
            BY <3>1, <3>2 DEF TargetOK, Target
        <3>4. Continued(t) \/ Completed(t)
            BY <2>3, <3>2, <3>3, PlayBackStep DEF IInv
        <3>5. QED BY <3>4 DEF TargetStep
    <2>4. CASE Waiting(t) /\ Complete(t, "ABORT", Nothing)
        BY <2>4 DEF Completed, Results, TargetStep
    <2>5. QED BY <1>1, <2>1, <2>2, <2>3, <2>4 DEF ProcessTransferInfo
<1>8. QED BY <1>6, <1>7, StepKeeps DEF HostStep, hostVars, ProcessTransferInfo, sourceVars, IInv

LEMMA PacketStep ==
    ASSUME IInv, NEW m \in wire, ProcessTransferPacket(m)
    PROVE  IInv' /\ TargetStep
<1>1. PICK t \in Transfer : t = m.id
    BY MessageParts DEF IInv
<1>2. /\ m.packet \in PacketNumber /\ m.status \in PacketStatus
      /\ PacketOK(t, m.packet, m.status)
    BY <1>1, MessageParts DEF IInv, ProcessTransferPacket
<1>3. PICK target : target = mTransferTargets[t]
    OBVIOUS
<1>4. TargetOK(t, target, file[t], asset[t], answers[t])
    BY <1>3, TargetParts DEF IInv
<1>5. PICK delayed : delayed = [n \in DOMAIN target.delayed \cup {m.packet} |->
                                    IF n = m.packet THEN m.status ELSE target.delayed[n]]
    OBVIOUS
<1>6. delayed \in UNION {[S -> PacketStatus] : S \in SUBSET PacketNumber}
    <2>1. PICK S \in SUBSET PacketNumber : target.delayed \in [S -> PacketStatus]
        BY <1>4 DEF TargetOK, Target
    <2>2. delayed \in [S \cup {m.packet} -> PacketStatus]
        BY <1>2, <1>5, <2>1
    <2>3. S \cup {m.packet} \in SUBSET PacketNumber
        BY <1>2
    <2>4. QED BY <2>2, <2>3
<1>7. \A n \in DOMAIN delayed : PacketOK(t, n, delayed[n])
    BY <1>2, <1>4, <1>5 DEF TargetOK
<1> DEFINE inOrder == target.gotInfo /\ m.packet = target.next
<1>8. CASE ~Waiting(t)
    <2>1. Take(m, {}) /\ UNCHANGED targetVars
        BY <1>1, <1>8 DEF ProcessTransferPacket
    <2>2. {} \in SUBSET Message /\ \A n \in {} : n.type # "TransferPacket"
        OBVIOUS
    <2>3. MessagesOK' /\ duplicates' \in 0 .. MaxDuplicates
        BY <2>1, <2>2, TakeKeeps DEF IInv, ProcessTransferPacket
    <2>4. QED BY <2>1, <2>3, StepKeeps DEF HostStep, hostVars, ProcessTransferPacket, sourceVars, IInv, TargetStep
<1>9. CASE Waiting(t) /\ inOrder
    <2>1. Take(m, {}) /\ PlayBack(t, delayed)
        BY <1>1, <1>3, <1>5, <1>9 DEF ProcessTransferPacket
    <2>2. {} \in SUBSET Message /\ \A n \in {} : n.type # "TransferPacket"
        OBVIOUS
    <2>3. MessagesOK' /\ duplicates' \in 0 .. MaxDuplicates
        BY <2>1, <2>2, TakeKeeps DEF IInv, ProcessTransferPacket
    <2>4. Continued(t) \/ Completed(t)
        BY <1>6, <1>7, <1>9, <2>1, PlayBackStep DEF IInv
    <2>5. QED BY <2>3, <2>4, StepKeeps DEF HostStep, hostVars, ProcessTransferPacket, sourceVars, IInv, TargetStep
<1>10. CASE Waiting(t) /\ ~inOrder /\ ~TooMany(target.delayed)
    <2>1. /\ Take(m, {})
          /\ mTransferTargets' = [mTransferTargets EXCEPT ![t].delayed = delayed]
          /\ file' = file /\ asset' = asset /\ answers' = answers
        BY <1>1, <1>3, <1>5, <1>10 DEF ProcessTransferPacket
    <2>2. {} \in SUBSET Message /\ \A n \in {} : n.type # "TransferPacket"
        OBVIOUS
    <2>3. MessagesOK' /\ duplicates' \in 0 .. MaxDuplicates
        BY <2>1, <2>2, TakeKeeps DEF IInv, ProcessTransferPacket
    <2> DEFINE new == [target EXCEPT !.delayed = delayed]
    <2>4. mTransferTargets' = [mTransferTargets EXCEPT ![t] = new]
        BY <1>3, <2>1 DEF TargetsOK
    <2>5. new \in Target /\ new.state = target.state /\ new.next = target.next
          /\ new.delayed = delayed
        BY <1>4, <1>6 DEF TargetOK, Target
    <2>6. new.gotInfo = target.gotInfo
        BY <1>4, Zenon DEF TargetOK, Target
    <2>7. new.needsCreate = target.needsCreate
        BY <1>4, Zenon DEF TargetOK, Target
    <2>8. target.gotInfo => target.next \notin DOMAIN delayed
        BY <1>4, <1>5, <1>10 DEF TargetOK
    <2> HIDE DEF new
    <2>9. TargetOK(t, new, file[t], asset[t], answers[t])
        BY <1>4, <1>7, <2>5, <2>6, <2>7, <2>8 DEF TargetOK
    <2>10. file' = [file EXCEPT ![t] = file[t]]
        BY <2>1 DEF IInv, TargetsOK
    <2>11. Continued(t)
        BY <1>3, <2>1, <2>4, <2>5, <2>9, <2>10 DEF Continued
    <2>12. QED BY <2>3, <2>11, StepKeeps DEF HostStep, hostVars, ProcessTransferPacket, sourceVars, IInv, TargetStep
<1>11. CASE Waiting(t) /\ ~inOrder /\ TooMany(target.delayed)
    <2>1. Take(m, {Abort(t, "source")}) /\ Complete(t, "ABORT", Nothing)
        BY <1>1, <1>3, <1>5, <1>11 DEF ProcessTransferPacket
    <2> DEFINE sent == {Abort(t, "source")}
    <2>2. sent \in SUBSET Message /\ \A n \in sent : n.type # "TransferPacket"
        BY AbortType
    <2> HIDE DEF sent
    <2>3. Take(m, sent)
        BY <2>1 DEF sent
    <2>4. MessagesOK' /\ duplicates' \in 0 .. MaxDuplicates
        BY <2>2, <2>3, TakeKeeps DEF IInv, ProcessTransferPacket
    <2>5. Completed(t)
        BY <1>11, <2>1 DEF Completed, Results
    <2>6. QED BY <2>4, <2>5, StepKeeps DEF HostStep, hostVars, ProcessTransferPacket, sourceVars, IInv, TargetStep
<1>12. QED BY <1>8, <1>9, <1>10, <1>11

LEMMA AbortStep ==
    ASSUME IInv, NEW m \in wire, ProcessTransferAbort(m)
    PROVE  IInv' /\ TargetStep
<1>1. PICK t \in Transfer : t = m.id
    BY MessageParts DEF IInv
<1>2. PICK sent \in {{}, {Abort(t, "source")}, {Abort(t, "target")}} : Take(m, sent)
    BY <1>1 DEF ProcessTransferAbort
<1>3. sent \in SUBSET Message /\ \A n \in sent : n.type # "TransferPacket"
    BY <1>2, AbortType
<1>4. MessagesOK' /\ duplicates' \in 0 .. MaxDuplicates
    BY <1>2, <1>3, TakeKeeps DEF IInv, ProcessTransferAbort
<1>5. mTransferSources' \in [Transfer -> Source]
    BY <1>1 DEF ProcessTransferAbort, IInv, Source, State, sourceVars
<1>6. TargetStep
    <2>1. CASE Waiting(t) /\ Complete(t, "ABORT", Nothing)
        BY <2>1 DEF Completed, Results, TargetStep
    <2>2. CASE UNCHANGED targetVars
        BY <2>2 DEF TargetStep
    <2>3. QED BY <1>1, <2>1, <2>2 DEF ProcessTransferAbort
<1>7. QED BY <1>4, <1>5, <1>6, StepKeeps DEF HostStep, hostVars, ProcessTransferAbort, IInv

LEMMA RequestArrives ==
    ASSUME IInv, NEW m \in wire, ProcessTransferRequest(m)
    PROVE  IInv' /\ TargetStep
<1>1. {} \in SUBSET Message /\ \A n \in {} : n.type # "TransferPacket"
    OBVIOUS
<1>2. MessagesOK' /\ duplicates' \in 0 .. MaxDuplicates
    BY <1>1, TakeKeeps DEF IInv, ProcessTransferRequest
<1>3. mTransferSources' \in [Transfer -> Source]
    BY MessageParts DEF ProcessTransferRequest, IInv, Source, State
<1>4. QED BY <1>2, <1>3, StepKeeps DEF HostStep, hostVars, ProcessTransferRequest, IInv, TargetStep

LEMMA RespondStep ==
    ASSUME IInv, NEW t \in Transfer, NEW status \in InfoStatus, Respond(t, status)
    PROVE  IInv' /\ TargetStep
<1> DEFINE sent == {Info(t, status)}
<1>1. sent \in SUBSET Message /\ \A m \in sent : m.type # "TransferPacket"
    BY DEF Info, Message
<1>2. wire' \subseteq wire \cup sent /\ unacked' \subseteq unacked
    BY DEF Respond
<1> HIDE DEF sent
<1>3. MessagesOK'
    BY <1>1, <1>2, WireKeeps DEF IInv
<1>4. mTransferSources' \in [Transfer -> Source]
    BY DEF Respond, IInv, Source, State
<1>5. QED BY <1>3, <1>4, StepKeeps DEF HostStep, hostVars, Respond, IInv, TargetStep

LEMMA AcknowledgedStep ==
    ASSUME IInv, NEW m \in unacked, Acknowledged(m)
    PROVE  IInv' /\ TargetStep
<1>1. MessagesOK'
    BY DEF Acknowledged, IInv, MessagesOK
<1>2. QED BY <1>1, StepKeeps DEF HostStep, hostVars, Acknowledged, sourceVars, IInv, TargetStep

LEMMA GiveUpStep ==
    ASSUME IInv, NEW m \in unacked, GiveUp(m)
    PROVE  IInv' /\ TargetStep
<1>1. PICK t \in Transfer : t = m.id
    BY DEF IInv, MessagesOK, DataPacket
<1>2. PICK sent \in {{}, {Abort(t, "target")}} :
            wire' \subseteq wire \cup sent /\ unacked' \subseteq unacked
    BY <1>1 DEF GiveUp
<1>3. sent \in SUBSET Message /\ \A n \in sent : n.type # "TransferPacket"
    BY <1>2, AbortType
<1>4. MessagesOK'
    BY <1>2, <1>3, WireKeeps DEF IInv
<1>5. mTransferSources' \in [Transfer -> Source]
    BY <1>1 DEF GiveUp, IInv, Source, State
<1>6. forsaken' \subseteq Transfer
    BY <1>1 DEF GiveUp, IInv
<1>7. QED BY <1>4, <1>5, <1>6, StepKeeps DEF HostStep, hostVars, GiveUp, IInv, TargetStep

LEMMA LoseStep ==
    ASSUME IInv, NEW m \in wire, Lose(m)
    PROVE  IInv' /\ TargetStep
<1>1. m.id \in Transfer
    BY MessageParts DEF IInv
<1>2. MessagesOK'
    BY DEF Lose, IInv, MessagesOK
<1>3. QED BY <1>1, <1>2, StepKeeps DEF HostStep, hostVars, Lose, sourceVars, IInv, TargetStep

LEMMA DisconnectKeeps ==
    ASSUME IInv, Disconnect
    PROVE  MessagesOK' /\ mTransferSources' \in [Transfer -> Source]
<1>1. MessagesOK'
    BY DEF Disconnect, MessagesOK
<1>2. mTransferSources' \in [Transfer -> Source]
    <2>1. ASSUME NEW t \in Transfer
          PROVE  (IF mTransferSources[t].state \in {"asking", "sending"}
                  THEN [mTransferSources[t] EXCEPT !.state = "gone"]
                  ELSE mTransferSources[t]) \in Source
        BY DEF IInv, Source, State
    <2>2. QED BY <2>1 DEF Disconnect
<1>3. QED BY <1>1, <1>2

LEMMA CutStep ==
    ASSUME IInv, Cut
    PROVE  IInv' /\ TargetStep
BY DisconnectKeeps, StepKeeps DEF Cut, IInv, TargetStep, HostStep

LEMMA ExitStep ==
    ASSUME IInv, Exit
    PROVE  IInv' /\ TargetStep
BY DisconnectKeeps, StepKeeps DEF Exit, IInv, TargetStep, HostStep

LEMMA UpdateStep ==
    ASSUME IInv, UpdateTransfers
    PROVE  IInv' /\ TargetStep
<1> DEFINE Status(broken, last, t, n) == SendStatus(t, n, t \in broken /\ n = last[t])
           Sent(broken, last, t) == {Packet(t, n, Status(broken, last, t, n)) :
                                        n \in mTransferSources[t].next .. last[t]}
<1>1. PICK served, final, broken, last :
            served \subseteq Sending /\ Serve(served, final, broken, last)
    BY Zenon DEF UpdateTransfers
<1>2. served \subseteq Transfer
    BY <1>1 DEF Sending
<1>3. \A t \in served : last[t] \in mTransferSources[t].next .. NumPackets[t] - 1
    BY <1>1 DEF Serve
<1>4. mTransferSources' = [t \in Transfer |->
            IF t \notin served THEN mTransferSources[t]
            ELSE [state |-> IF Status(broken, last, t, last[t]) = "OK" THEN "sending"
                            ELSE "gone",
                  next |-> last[t] + 1]]
    BY <1>1 DEF Serve
<1>5. /\ wire' = wire \cup UNION {Sent(broken, last, t) : t \in served}
      /\ unacked' = unacked \cup UNION {Sent(broken, last, t) : t \in served}
    BY <1>1 DEF Serve
<1>6. UNCHANGED <<targetVars, duplicates, forsaken, hostVars>>
    BY <1>1 DEF Serve
<1>7. ASSUME NEW t \in served
      PROVE  mTransferSources[t].next \in Nat /\ last[t] \in Nat
    <2>1. mTransferSources[t].next \in Nat
        BY <1>2 DEF IInv, Source
    <2>2. last[t] \in Nat
        BY <1>2, <1>3, <2>1, NumPacketsType
    <2>3. QED BY <2>1, <2>2
<1>8. ASSUME NEW t \in served, NEW m \in Sent(broken, last, t)
      PROVE  m \in DataPacket /\ PacketOK(m.id, m.packet, m.status)
    <2>1. PICK n \in mTransferSources[t].next .. last[t] :
                m = Packet(t, n, Status(broken, last, t, n))
        OBVIOUS
    <2>2. NumPackets[t] \in Nat \ {0} /\ n \in 0 .. NumPackets[t] - 1 /\ n \in PacketNumber
          /\ t \in Transfer
        BY <1>2, <1>7, <1>3, <2>1, NumPacketsType
    <2>3. PICK status : status = Status(broken, last, t, n)
        OBVIOUS
    <2>4. /\ status \in PacketStatus
          /\ status = "OK" => n # NumPackets[t] - 1
          /\ status = "DONE" => n = NumPackets[t] - 1
        BY <2>3 DEF SendStatus, PacketStatus
    <2> HIDE DEF Status
    <2>5. m = Packet(t, n, status)
        BY <2>1, <2>3
    <2>6. QED BY <2>2, <2>4, <2>5 DEF Packet, DataPacket, PacketOK
<1> HIDE DEF Sent
<1>9. MessagesOK'
    <2>1. DataPacket \subseteq Message
        BY DEF Message
    <2>2. wire' \subseteq Message /\ unacked' \subseteq DataPacket
        BY <1>8, <1>5, <2>1 DEF IInv, MessagesOK
    <2>3. ASSUME NEW m \in wire' \cup unacked', m.type = "TransferPacket"
          PROVE  PacketOK(m.id, m.packet, m.status)
        <3>1. CASE m \in wire \cup unacked
            BY <2>3, <3>1 DEF IInv, MessagesOK
        <3>2. CASE \E t \in served : m \in Sent(broken, last, t)
            BY <1>8, <3>2
        <3>3. QED BY <1>5, <3>1, <3>2
    <2>4. QED BY <2>2, <2>3 DEF MessagesOK
<1> HIDE DEF Status
<1>10. mTransferSources' \in [Transfer -> Source]
    <2>1. ASSUME NEW t \in Transfer
          PROVE  mTransferSources'[t] \in Source
        <3>1. CASE t \notin served
            BY <1>4, <3>1 DEF IInv
        <3>2. CASE t \in served
            <4>1. PICK state \in State :
                        mTransferSources'[t] = [state |-> state, next |-> last[t] + 1]
                BY <1>4, <3>2 DEF State
            <4>2. last[t] + 1 \in Nat
                BY <1>7, <3>2
            <4>3. QED BY <4>1, <4>2 DEF Source
        <3>3. QED BY <3>1, <3>2
    <2>2. mTransferSources' = [t \in Transfer |-> mTransferSources'[t]]
        BY <1>4
    <2>3. QED BY <2>1, <2>2
<1>11. QED BY <1>9, <1>10, <1>6, StepKeeps DEF HostStep, hostVars, IInv, TargetStep

LEMMA NextStep ==
    ASSUME IInv, Next
    PROVE  IInv' /\ TargetStep
<1>1. ASSUME NEW t \in Transfer, RequestTransfer(t) \/ Evict(t)
      PROVE  IInv' /\ TargetStep
    BY <1>1, RequestStep, EvictStep
<1>2. ASSUME NEW m \in wire, Handle(m)
      PROVE  IInv' /\ TargetStep
    BY <1>2, InfoStep, PacketStep, AbortStep, RequestArrives DEF Handle
<1>3. CASE MainLoop
    BY <1>2, <1>3, UpdateStep, RespondStep DEF MainLoop
<1>4. ASSUME NEW m \in unacked, Acknowledged(m) \/ GiveUp(m)
      PROVE  IInv' /\ TargetStep
    BY <1>4, AcknowledgedStep, GiveUpStep
<1>5. QED BY <1>1, <1>3, <1>4, LoseStep, CutStep, ExitStep DEF Next

LEMMA InitIInv == Init => IInv
<1>1. SUFFICES ASSUME Init PROVE IInv
    OBVIOUS
<1>2. NoTarget.state = "none" /\ NoTarget.next = 0 /\ NoTarget.delayed = <<>>
    BY DEF NoTarget
<1>3. ASSUME NEW t \in Transfer
      PROVE  TargetOK(t, NoTarget, Nothing, Nothing, <<>>)
    <2>1. NoTarget.gotInfo = FALSE
        BY Zenon DEF NoTarget
    <2>2. 0 \in 0 .. NumPackets[t] - 1 /\ 0 \in PacketNumber
        BY NumPacketsType
    <2>3. DOMAIN NoTarget.delayed = {}
        BY <1>2
    <2>4. <<>> \in [{} -> PacketStatus]
        OBVIOUS
    <2>5. NoTarget \in Target
        BY <2>2, <2>4 DEF NoTarget, Target
    <2>6. QED BY <1>2, <2>1, <2>2, <2>3, <2>5 DEF TargetOK
<1>4. TargetsOK
    BY <1>1, <1>3 DEF Init, TargetsOK
<1>5. MessagesOK
    BY <1>1 DEF Init, MessagesOK
<1>6. mTransferSources \in [Transfer -> Source]
    BY <1>1 DEF Init, NoSource, Source, State
<1>7. duplicates \in 0 .. MaxDuplicates /\ forsaken \subseteq Transfer /\ connected \in BOOLEAN
      /\ gAssetStorage \in BOOLEAN
    BY <1>1, TransferAssumption DEF Init, TransferAssumption
<1>8. ExitOK
    BY <1>1, <1>2 DEF Init, ExitOK
<1>9. QED BY <1>4, <1>5, <1>6, <1>7, <1>8 DEF IInv

\* Steps and stutters.
LEMMA IInvKept ==
    ASSUME IInv, [Next]_vars
    PROVE  IInv' /\ TargetStep
<1>1. CASE Next
    BY <1>1, NextStep
<1>2. CASE UNCHANGED vars
    <2>1. UNCHANGED targetVars
        BY <1>2 DEF vars, targetVars
    <2>2. TargetStep
        BY <2>1 DEF TargetStep
    <2>3. MessagesOK'
        BY <1>2 DEF vars, IInv, MessagesOK
    <2>4. QED BY <1>2, <2>2, <2>3, StepKeeps DEF HostStep, hostVars, vars, IInv
<1>3. QED BY <1>1, <1>2

THEOREM InductiveInvariant == Spec => []IInv
<1>1. IInv /\ [Next]_vars => IInv'
    BY IInvKept
<1>2. QED BY <1>1, InitIInv, PTL DEF Spec
-----------------------------------------------------------------------------
(* The theorems *)

LEMMA PacketsType ==
    ASSUME NEW t \in Transfer, NEW n \in 0 .. NumPackets[t]
    PROVE  Packets(n) \in Seq(PacketNumber)
<1>1. \A i \in 1 .. n : i - 1 \in PacketNumber
    BY NumPacketsType
<1>2. n \in Nat
    BY NumPacketsType
<1>3. QED BY <1>1, <1>2 DEF Packets

\* The types of all variables.
THEOREM TypeCorrect == Spec => []TypeOK
<1>1. IInv => TypeOK
    <2>1. SUFFICES ASSUME IInv PROVE TypeOK
        OBVIOUS
    <2>2. ASSUME NEW t \in Transfer
          PROVE  /\ mTransferTargets[t] \in Target
                 /\ file[t] \in Seq(PacketNumber) \cup {Nothing}
                 /\ asset[t] \in Seq(PacketNumber) \cup {Nothing}
                 /\ answers[t] \in Seq(Results)
        <3>1. TargetOK(t, mTransferTargets[t], file[t], asset[t], answers[t])
            BY <2>1, TargetParts DEF IInv
        <3>2. file[t] \in Seq(PacketNumber) \cup {Nothing}
            BY <3>1, NumPacketsType, PacketsType DEF TargetOK, Target, Answered, LeftBehind
        <3>3. Whole(t) \in Seq(PacketNumber)
            BY NumPacketsType, PacketsType DEF Whole, Packets
        <3>4. mTransferTargets[t].state \in {"none", "waiting", "gone"}
            BY <3>1 DEF TargetOK, Target
        <3>5. asset[t] \in Seq(PacketNumber) \cup {Nothing}
            BY <3>1, <3>3, <3>4 DEF TargetOK, Answered, LeftBehind
        <3>6. answers[t] \in Seq(Results)
            <4>1. <<>> \in Seq(Results) /\ \A result \in Results : <<result>> \in Seq(Results)
                OBVIOUS
            <4>2. QED BY <3>1, <3>4, <4>1 DEF TargetOK, Answered, LeftBehind
        <3>7. QED BY <3>1, <3>2, <3>5, <3>6 DEF TargetOK
    <2>3. /\ mTransferTargets \in [Transfer -> Target]
          /\ file \in [Transfer -> Seq(PacketNumber) \cup {Nothing}]
          /\ asset \in [Transfer -> Seq(PacketNumber) \cup {Nothing}]
          /\ answers \in [Transfer -> Seq(Results)]
        BY <2>1, <2>2 DEF IInv, TargetsOK
    <2>4. QED BY <2>1, <2>3 DEF IInv, MessagesOK, TypeOK
<1>2. QED BY <1>1, InductiveInvariant, PTL

\* Every callback of a transfer runs once, when its target goes, and never if the
\* viewer has deleted its asset storage before.
THEOREM CallbackOnce == Spec => []AnsweredOnce
<1>1. IInv => AnsweredOnce
    <2>1. SUFFICES ASSUME IInv, NEW t \in Transfer \ Dropped
                   PROVE  Len(answers[t]) = IF mTransferTargets[t].state = "gone" THEN 1 ELSE 0
        BY DEF AnsweredOnce
    <2>2. TargetOK(t, mTransferTargets[t], file[t], asset[t], answers[t])
        BY <2>1, TargetParts DEF IInv
    <2>3. CASE mTransferTargets[t].state = "gone"
        <3>1. answers[t] # <<>>
            BY <2>1, <2>3 DEF Dropped, IInv, ExitOK
        <3>2. PICK result \in Results : answers[t] = <<result>>
            BY <2>2, <2>3, <3>1 DEF TargetOK, Answered, LeftBehind
        <3>3. QED BY <2>3, <3>2
    <2>4. CASE mTransferTargets[t].state # "gone"
        <3>1. answers[t] = <<>>
            BY <2>2, <2>4 DEF TargetOK
        <3>2. QED BY <2>4, <3>1
    <2>5. QED BY <2>3, <2>4
<1>2. QED BY <1>1, InductiveInvariant, PTL

\* No temporary file is left in the cache by a target that is gone, unless the
\* viewer has deleted its asset storage before.
THEOREM NoFileLeft == Spec => []TempFilesGone
<1>1. IInv => TempFilesGone
    <2>1. SUFFICES ASSUME IInv, NEW t \in Transfer \ Dropped, ~Waiting(t)
                   PROVE  file[t] = Nothing
        BY DEF TempFilesGone
    <2>2. TargetOK(t, mTransferTargets[t], file[t], asset[t], answers[t])
        BY <2>1, TargetParts DEF IInv
    <2>3. mTransferTargets[t].state \in {"none", "gone"}
        BY <2>1, <2>2 DEF TargetOK, Target, Waiting
    <2>4. mTransferTargets[t].state = "gone" => answers[t] # <<>>
        BY <2>1 DEF Dropped, IInv, ExitOK
    <2>5. QED BY <2>2, <2>3, <2>4 DEF TargetOK, Answered, LeftBehind
<1>2. QED BY <1>1, InductiveInvariant, PTL

\* No target waits for a packet that it has.
THEOREM PlayedBack == Spec => []NothingHeldBack
<1>1. IInv => NothingHeldBack
    BY TargetParts DEF IInv, NothingHeldBack, TargetOK, Waiting
<1>2. QED BY <1>1, InductiveInvariant, PTL

-----------------------------------------------------------------------------
(* The refinement *)

LEMMA Seen ==
    ASSUME TargetsOK, NEW t \in Transfer
    PROVE  /\ Waiting(t) => t \in Requested /\ AnswerSeen[t] = "none" /\ FileSeen[t] = "none"
           /\ t \in Requested /\ ~Waiting(t) /\ answers[t] # <<>> => AnswerSeen[t] # "none"
           /\ t \notin Requested => ~Waiting(t) /\ AnswerSeen[t] = "none"
<1>1. TargetOK(t, mTransferTargets[t], file[t], asset[t], answers[t])
    BY TargetParts
<1>2. mTransferTargets[t].state \in {"none", "waiting", "gone"}
    BY <1>1 DEF TargetOK, Target
<1>3. mTransferTargets[t].state \in {"none", "waiting"} => answers[t] = <<>> /\ asset[t] = Nothing
    BY <1>1 DEF TargetOK
<1>4. mTransferTargets[t].state = "gone" /\ answers[t] # <<>> => AnswerSeen[t] # "none"
    <2>1. SUFFICES ASSUME mTransferTargets[t].state = "gone", answers[t] # <<>>
                   PROVE  AnswerSeen[t] # "none"
        OBVIOUS
    <2>2. PICK result \in Results : answers[t] = <<result>>
        BY <1>1, <2>1 DEF TargetOK, Answered, LeftBehind
    <2>3. answers[t] # <<>> /\ Len(answers[t]) = 1 /\ answers[t][1] = result
        BY <2>2
    <2>4. AnswerSeen[t] = result
        BY <2>3 DEF AnswerSeen
    <2>5. QED BY <2>4 DEF Results
<1>5. QED BY <1>2, <1>3, <1>4 DEF Requested, AnswerSeen, FileSeen, Waiting

LEMMA RequestSeen ==
    ASSUME TargetsOK, NEW t \in Transfer, RequestTransfer(t)
    PROVE  Service!Request(t)
<1>1. t \notin Requested
    BY DEF RequestTransfer, Requested
<1>2. mTransferTargets'[t].state = "waiting"
    <2>1. mTransferTargets[t] \in Target
        BY TargetParts DEF TargetOK
    <2>2. QED BY <2>1 DEF RequestTransfer, TargetsOK, Target
<1>3. \A u \in Transfer \ {t} : mTransferTargets'[u] = mTransferTargets[u]
    BY DEF RequestTransfer, TargetsOK
<1>4. Requested' = Requested \cup {t}
    BY <1>2, <1>3 DEF Requested
<1>5. AnswerSeen' = AnswerSeen /\ FileSeen' = FileSeen
    BY DEF RequestTransfer, AnswerSeen, FileSeen
<1>6. QED BY <1>1, <1>4, <1>5 DEF Service!Request

LEMMA ContinuedSeen ==
    ASSUME TargetsOK, NEW t \in Transfer, Continued(t)
    PROVE  UNCHANGED <<Requested, AnswerSeen, FileSeen>>
<1>1. PICK target :
            /\ target.state = mTransferTargets[t].state
            /\ mTransferTargets' = [mTransferTargets EXCEPT ![t] = target]
            /\ asset' = asset /\ answers' = answers
    BY DEF Continued
<1>2. \A u \in Transfer : mTransferTargets'[u].state = mTransferTargets[u].state
    BY <1>1 DEF TargetsOK
<1>3. Requested' = Requested
    BY <1>2 DEF Requested
<1>4. AnswerSeen' = AnswerSeen /\ FileSeen' = FileSeen
    BY <1>1 DEF AnswerSeen, FileSeen
<1>5. QED BY <1>3, <1>4

LEMMA CompletedSeen ==
    ASSUME TargetsOK, NEW t \in Transfer, Completed(t)
    PROVE  \E status \in Results : Service!Answer(t, status)
<1>1. PICK result \in Results, content \in {Nothing, Whole(t)} : Complete(t, result, content)
    BY DEF Completed
<1>2. Waiting(t)
    BY DEF Completed
<1>3. /\ \A u \in Transfer \ {t} :
            /\ mTransferTargets'[u] = mTransferTargets[u]
            /\ asset'[u] = asset[u] /\ answers'[u] = answers[u]
      /\ mTransferTargets'[t] = [NoTarget EXCEPT !.state = "gone"]
      /\ asset'[t] = IF result = "DONE" THEN content ELSE Nothing
      /\ answers'[t] = <<result>>
    BY <1>1, <1>2, CompletedParts
<1>4. t \in Requested /\ AnswerSeen[t] = "none" /\ FileSeen[t] = "none"
    BY <1>2, Seen
<1>5. mTransferTargets'[t].state # "none"
    BY <1>3 DEF NoTarget
<1>6. Requested' = Requested
    BY <1>3, <1>4, <1>5 DEF Requested
<1>7. AnswerSeen' = [AnswerSeen EXCEPT ![t] = result]
    <2>1. AnswerSeen'[t] = result
        <3>1. answers'[t] # <<>> /\ Len(answers'[t]) = 1 /\ answers'[t][1] = result
            BY <1>3
        <3>2. QED BY <3>1 DEF AnswerSeen
    <2>2. \A u \in Transfer \ {t} : AnswerSeen'[u] = AnswerSeen[u]
        BY <1>3 DEF AnswerSeen
    <2>3. AnswerSeen' = [u \in Transfer |-> AnswerSeen'[u]]
          /\ AnswerSeen = [u \in Transfer |-> AnswerSeen[u]]
        BY DEF AnswerSeen
    <2>4. QED BY <2>1, <2>2, <2>3
<1>8. FileSeen' = FileSeen \/ (result = "DONE" /\ FileSeen' = [FileSeen EXCEPT ![t] = "whole"])
    <2>1. \A u \in Transfer \ {t} : FileSeen'[u] = FileSeen[u]
        BY <1>3 DEF FileSeen
    <2>2. FileSeen' = [u \in Transfer |-> FileSeen'[u]]
          /\ FileSeen = [u \in Transfer |-> FileSeen[u]]
        BY DEF FileSeen
    <2>3. CASE asset'[t] = Nothing
        <3>1. FileSeen'[t] = FileSeen[t]
            BY <1>4, <2>3 DEF FileSeen
        <3>2. QED BY <2>1, <2>2, <3>1
    <2>4. CASE asset'[t] # Nothing
        <3>1. result = "DONE" /\ asset'[t] = Whole(t)
            BY <1>3, <2>4
        <3>2. FileSeen'[t] = "whole"
            BY <2>4, <3>1 DEF FileSeen, Whole
        <3>3. QED BY <2>1, <2>2, <3>1, <3>2
    <2>5. QED BY <2>3, <2>4
<1>9. Service!Answer(t, result)
    BY <1>4, <1>6, <1>7, <1>8 DEF Service!Answer
<1>10. QED BY <1>9

LEMMA CutSeen ==
    ASSUME IInv, Cut
    PROVE  Service!AnswerAll
<1>1. ASSUME NEW t \in Transfer
      PROVE  /\ (mTransferTargets'[t].state # "none") <=> t \in Requested
             /\ AnswerSeen'[t] = IF t \in Requested /\ AnswerSeen[t] = "none" THEN "ABORT"
                                 ELSE AnswerSeen[t]
    <2>1. CASE Waiting(t)
        <3>1. mTransferTargets'[t].state = "gone"
            BY <2>1 DEF Cut, Disconnect, NoTarget
        <3>2. answers[t] = <<>>
            BY <2>1, TargetParts DEF IInv, TargetOK, Waiting
        <3>3. answers'[t] = Append(answers[t], "ABORT")
            BY <2>1 DEF Cut
        <3>4. answers'[t] = <<"ABORT">>
            BY <3>2, <3>3
        <3>5. answers'[t] # <<>> /\ Len(answers'[t]) = 1 /\ answers'[t][1] = "ABORT"
            BY <3>4
        <3>6. AnswerSeen'[t] = IF answers'[t] = <<>> THEN "none"
                               ELSE IF Len(answers'[t]) = 1 THEN answers'[t][1] ELSE "answered again"
            BY DEF AnswerSeen
        <3>7. AnswerSeen'[t] = "ABORT"
            BY <3>5, <3>6
        <3>8. QED BY <2>1, <3>1, <3>7, Seen DEF IInv
    <2>2. CASE ~Waiting(t)
        <3>1. mTransferTargets'[t] = mTransferTargets[t] /\ answers'[t] = answers[t]
            BY <2>2 DEF Cut, Disconnect
        <3>2. AnswerSeen'[t] = AnswerSeen[t]
            BY <3>1 DEF AnswerSeen
        <3>3. (mTransferTargets'[t].state # "none") <=> t \in Requested
            BY <3>1 DEF Requested
        <3>4. t \in Requested => answers[t] # <<>>
            <4>1. gAssetStorage
                BY DEF Cut, IInv, ExitOK
            <4>2. mTransferTargets[t].state \in {"none", "waiting", "gone"}
                BY TargetParts DEF IInv, TargetOK, Target
            <4>3. QED BY <2>2, <4>1, <4>2 DEF IInv, ExitOK, Requested, Waiting
        <3>5. QED BY <2>2, <3>2, <3>3, <3>4, Seen DEF IInv
    <2>3. QED BY <2>1, <2>2
<1>2. Requested' = Requested
    BY <1>1 DEF Requested
<1>3. FileSeen' = FileSeen
    BY DEF Cut, FileSeen
<1>4. AnswerSeen' = [t \in Transfer |-> AnswerSeen'[t]]
    BY DEF AnswerSeen
<1>5. AnswerSeen' = [t \in Transfer |-> IF t \in Requested /\ AnswerSeen[t] = "none"
                                        THEN "ABORT" ELSE AnswerSeen[t]]
    BY <1>1, <1>4
<1>6. QED BY <1>2, <1>3, <1>5 DEF Service!AnswerAll

\* Nobody sees the viewer's exit: their callbacks do not run.
LEMMA ExitSeen ==
    ASSUME TargetsOK, Exit
    PROVE  UNCHANGED <<Requested, AnswerSeen, FileSeen>>
<1>1. ASSUME NEW t \in Transfer
      PROVE  (mTransferTargets'[t].state # "none") <=> (mTransferTargets[t].state # "none")
    <2>1. CASE Waiting(t)
        BY <2>1 DEF Exit, Disconnect, NoTarget, Waiting
    <2>2. CASE ~Waiting(t)
        BY <2>2 DEF Exit, Disconnect
    <2>3. QED BY <2>1, <2>2
<1>2. Requested' = Requested
    BY <1>1 DEF Requested
<1>3. AnswerSeen' = AnswerSeen /\ FileSeen' = FileSeen
    BY DEF Exit, AnswerSeen, FileSeen
<1>4. QED BY <1>2, <1>3

\* Transfer implements TransferService: each request is answered at most once,
\* and its file is whole or not there.
THEOREM Refinement == Spec => ImplementsService
<1>1. Init => Service!Init
    <2>1. SUFFICES ASSUME Init PROVE Service!Init
        OBVIOUS
    <2>2. Requested = {}
        BY <2>1 DEF Init, NoTarget, Requested
    <2>3. AnswerSeen = [t \in Transfer |-> "none"]
        BY <2>1 DEF Init, AnswerSeen
    <2>4. FileSeen = [t \in Transfer |-> "none"]
        BY <2>1 DEF Init, FileSeen
    <2>5. QED BY <2>2, <2>3, <2>4 DEF Service!Init
<1>2. IInv /\ [Next]_vars => [Service!Next]_Service!vars
    <2>1. SUFFICES ASSUME IInv, [Next]_vars
                   PROVE  [Service!Next]_Service!vars
        OBVIOUS
    <2>2. TargetsOK /\ TargetStep
        BY <2>1, IInvKept DEF IInv
    <2>3. CASE UNCHANGED targetVars
        BY <2>3 DEF targetVars, Requested, AnswerSeen, FileSeen, Service!vars
    <2>4. ASSUME NEW t \in Transfer, RequestTransfer(t)
          PROVE  Service!Next
        BY <2>2, <2>4, RequestSeen DEF Service!Next
    <2>5. ASSUME NEW t \in Transfer, Continued(t)
          PROVE  UNCHANGED Service!vars
        BY <2>2, <2>5, ContinuedSeen DEF Service!vars
    <2>6. ASSUME NEW t \in Transfer, Completed(t)
          PROVE  Service!Next
        BY <2>2, <2>6, CompletedSeen DEF Service!Next
    <2>7. CASE Cut
        BY <2>1, <2>7, CutSeen DEF Service!Next
    <2>8. CASE Exit
        BY <2>2, <2>8, ExitSeen DEF Service!vars
    <2>9. QED BY <2>2, <2>3, <2>4, <2>5, <2>6, <2>7, <2>8 DEF TargetStep
<1>3. QED BY <1>1, <1>2, InductiveInvariant, PTL DEF Spec, ImplementsService, Service!Spec
=============================================================================
