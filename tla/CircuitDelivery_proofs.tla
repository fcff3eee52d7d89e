------------------------ MODULE CircuitDelivery_proofs ------------------------
(***************************************************************************)
(* The accounting of a circuit, that Circuit implements ReliableDelivery,  *)
(* and that a host that gets its packets in order handles each message     *)
(* once, for every value of the constants.  The accounting rests on        *)
(* BooksKept: the two lists of each host are disjoint, the count is theirs *)
(* and a callback was given its one answer exactly when its packet is on   *)
(* neither.  The last part rests on OnceInOrder: in a queue in order the   *)
(* first copy of a packet comes before its resends and before a ping sent  *)
(* after it, and the receiver remembers every message it handled of which  *)
(* another copy may come.                                                  *)
(***************************************************************************)
EXTENDS Circuit_proofs

\* The lists, the count and the callbacks of a host that sent ids up to `out'.
Books(unacked, final, count, calls, out) ==
    /\ DOMAIN unacked \cap DOMAIN final = {}
    /\ count = Cardinality(DOMAIN unacked \cup DOMAIN final)
    /\ \A i \in DOMAIN unacked : unacked[i].mRetries > 0
    /\ DOMAIN unacked \cup DOMAIN final \subseteq DOMAIN calls
    /\ \A i \in DOMAIN calls :
        /\ i <= out
        /\ i \in DOMAIN unacked \cup DOMAIN final => calls[i] = <<>>
        /\ i \notin DOMAIN unacked \cup DOMAIN final => \E r \in Result : calls[i] = <<r>>

BooksOf(h) == Books(mUnackedPackets[h], mFinalRetryPackets[h], mUnackedPacketCount[h],
                    callbacks[h], mPacketsOutID[h])
BooksKept == \A h \in Host : BooksOf(h)

\* What a step may do to the callbacks of a host.
Appended(before, after) ==
    /\ DOMAIN before \subseteq DOMAIN after
    /\ \A i \in DOMAIN before :
            after[i] = before[i] \/ \E r \in Result : after[i] = Append(before[i], r)
    /\ \A i \in DOMAIN after \ DOMAIN before : after[i] = <<>>

CallbacksAppended == \A g \in Host : Appended(callbacks[g], callbacks'[g])
IdsGrow == \A g \in Host : mPacketsOutID[g] <= mPacketsOutID'[g]
-----------------------------------------------------------------------------
(* The books *)

LEMMA PendingFacts ==
    ASSUME TypeOK, NEW h \in Host
    PROVE  /\ Pending(h) \subseteq PacketID /\ IsFiniteSet(Pending(h))
           /\ Pending(h) = DOMAIN mUnackedPackets[h] \cup DOMAIN mFinalRetryPackets[h]
           /\ DOMAIN callbacks[h] \subseteq PacketID /\ PacketID \subseteq Nat
           /\ mPacketsOutID[h] \in Nat
<1>1. PacketID \subseteq Nat
    BY ModulusAssumption DEF PacketID
<1>2. Pending(h) \subseteq PacketID
    BY DEF TypeOK, PendingType, PartialFunction, Pending
<1>3. DOMAIN callbacks[h] \subseteq PacketID /\ mPacketsOutID[h] \in PacketID
    BY DEF TypeOK, PendingType, PartialFunction
<1>4. QED BY <1>1, <1>2, <1>3, PacketIDFinite DEF Pending

\* The packets in `answered' leave the lists, and their callbacks run.
Answering(unacked, final, calls, answered, unacked1, final1, calls1) ==
    /\ answered \subseteq DOMAIN unacked \cup DOMAIN final
    /\ DOMAIN unacked1 \cap DOMAIN final1 = {}
    /\ DOMAIN unacked1 \cup DOMAIN final1 = (DOMAIN unacked \cup DOMAIN final) \ answered
    /\ \A i \in DOMAIN unacked1 : unacked1[i].mRetries > 0
    /\ DOMAIN calls1 = DOMAIN calls
    /\ \A i \in DOMAIN calls \ answered : calls1[i] = calls[i]
    /\ \A i \in answered : \E r \in Result : calls1[i] = Append(calls[i], r)

\* This keeps the books.
LEMMA BooksAnswered ==
    ASSUME NEW unacked, NEW final, NEW count, NEW calls, NEW out \in Nat,
           Books(unacked, final, count, calls, out),
           IsFiniteSet(DOMAIN unacked \cup DOMAIN final), DOMAIN calls \subseteq Nat,
           NEW answered, NEW unacked1, NEW final1, NEW calls1,
           Answering(unacked, final, calls, answered, unacked1, final1, calls1),
           NEW out1 \in Nat, out <= out1
    PROVE  /\ Books(unacked1, final1, count - Cardinality(answered), calls1, out1)
           /\ Appended(calls, calls1)
<1> USE DEF Answering
<1> DEFINE pending  == DOMAIN unacked \cup DOMAIN final
           pending1 == DOMAIN unacked1 \cup DOMAIN final1
<1>1. Cardinality(pending1) = count - Cardinality(answered)
    <2>1. pending \cap answered = answered /\ pending1 = pending \ answered
        OBVIOUS
    <2>2. count = Cardinality(pending) /\ IsFiniteSet(pending)
        BY DEF Books
    <2> HIDE DEF pending, pending1
    <2>3. QED BY <2>1, <2>2, FS_Difference
<1>2. \A i \in DOMAIN calls1 : i <= out1
    BY DEF Books
<1>3. ASSUME NEW i \in answered
      PROVE  calls[i] = <<>> /\ \E r \in Result : calls1[i] = <<r>>
    <2>1. calls[i] = <<>>
        BY DEF Books
    <2>2. PICK r \in Result : calls1[i] = Append(calls[i], r)
        OBVIOUS
    <2>3. Append(<<>>, r) = <<r>>
        OBVIOUS
    <2>4. QED BY <2>1, <2>2, <2>3
<1>4. pending1 \subseteq DOMAIN calls1
    BY DEF Books
<1>5. ASSUME NEW i \in DOMAIN calls1
      PROVE  /\ i \in pending1 => calls1[i] = <<>>
             /\ i \notin pending1 => \E r \in Result : calls1[i] = <<r>>
    <2>1. CASE i \in answered
        BY <1>3, <2>1
    <2>2. CASE i \notin answered
        BY <2>2 DEF Books
    <2>3. QED BY <2>1, <2>2
<1>6. Appended(calls, calls1)
    BY DEF Appended
<1>7. QED BY <1>1, <1>2, <1>4, <1>5, <1>6 DEF Books

\* A step that changes the lists of one host only.
LEMMA OneHost ==
    ASSUME TypeOK, TypeOK', BooksKept, IdsGrow, NEW h \in Host,
           \A g \in Host \ {h} :
                /\ mUnackedPackets'[g] = mUnackedPackets[g]
                /\ mFinalRetryPackets'[g] = mFinalRetryPackets[g]
                /\ mUnackedPacketCount'[g] = mUnackedPacketCount[g]
                /\ callbacks'[g] = callbacks[g],
           Books(mUnackedPackets'[h], mFinalRetryPackets'[h], mUnackedPacketCount'[h],
                 callbacks'[h], mPacketsOutID'[h]),
           Appended(callbacks[h], callbacks'[h])
    PROVE  BooksKept' /\ CallbacksAppended
<1>1. ASSUME NEW g \in Host \ {h}
      PROVE  /\ Books(mUnackedPackets'[g], mFinalRetryPackets'[g], mUnackedPacketCount'[g],
                      callbacks'[g], mPacketsOutID'[g])
             /\ Appended(callbacks[g], callbacks'[g])
    <2>1. Books(mUnackedPackets[g], mFinalRetryPackets[g], mUnackedPacketCount[g],
                callbacks[g], mPacketsOutID[g])
        BY DEF BooksKept, BooksOf
    <2>2. \A i \in DOMAIN callbacks[g] : i <= mPacketsOutID'[g]
        <3>1. mPacketsOutID[g] <= mPacketsOutID'[g]
            BY DEF IdsGrow
        <3>2. DOMAIN callbacks[g] \subseteq Nat /\ mPacketsOutID[g] \in Nat
            BY PendingFacts
        <3>3. mPacketsOutID'[g] \in Nat
            BY ModulusAssumption DEF TypeOK, PacketID
        <3>4. \A i \in DOMAIN callbacks[g] : i <= mPacketsOutID[g]
            BY <2>1 DEF Books
        <3>5. QED BY <3>1, <3>2, <3>3, <3>4
    <2>3. QED BY <2>1, <2>2 DEF Books, Appended
<1>2. QED BY <1>1 DEF BooksKept, BooksOf, CallbacksAppended

\* Nothing changes but the ids.
LEMMA SameBooks ==
    ASSUME TypeOK, TypeOK', BooksKept, IdsGrow, UNCHANGED circuitVars
    PROVE  BooksKept' /\ CallbacksAppended
<1>1. PICK h \in Host : TRUE
    BY DEF Host
<1>2. BooksOf(h)
    BY DEF BooksKept
<1>3. \A i \in DOMAIN callbacks[h] : i <= mPacketsOutID'[h]
    <2>1. mPacketsOutID[h] <= mPacketsOutID'[h]
        BY DEF IdsGrow
    <2>2. DOMAIN callbacks[h] \subseteq Nat /\ mPacketsOutID[h] \in Nat
        BY PendingFacts
    <2>3. mPacketsOutID'[h] \in Nat
        BY ModulusAssumption DEF TypeOK, PacketID
    <2>4. QED BY <1>2, <2>1, <2>2, <2>3 DEF BooksOf, Books
<1>4. Books(mUnackedPackets'[h], mFinalRetryPackets'[h], mUnackedPacketCount'[h],
            callbacks'[h], mPacketsOutID'[h]) /\ Appended(callbacks[h], callbacks'[h])
    BY <1>2, <1>3 DEF circuitVars, BooksOf, Books, Appended
<1>5. QED BY <1>4, OneHost DEF circuitVars

\* An ack takes its packets off the lists and reports success.
LEMMA AckBooks ==
    ASSUME TypeOK, TypeOK', BooksKept, IdsGrow, NEW h \in Host, NEW ids,
           AckReliablePackets(h, ids)
    PROVE  BooksKept' /\ CallbacksAppended
<1> DEFINE acked == Pending(h) \cap ids
<1>1. /\ mUnackedPackets' = [mUnackedPackets EXCEPT ![h] = Without(@, ids)]
      /\ mFinalRetryPackets' = [mFinalRetryPackets EXCEPT ![h] = Without(@, ids)]
      /\ mUnackedPacketCount' =
            [mUnackedPacketCount EXCEPT ![h] = mUnackedPacketCount[h] - Cardinality(acked)]
      /\ callbacks' = [callbacks EXCEPT ![h] = Answer(h, acked, "LL_ERR_NOERR")]
    BY DEF AckReliablePackets, CountAfter
<1>2. /\ DOMAIN mUnackedPackets = Host /\ DOMAIN mFinalRetryPackets = Host
      /\ DOMAIN mUnackedPacketCount = Host /\ DOMAIN callbacks = Host
    BY DEF TypeOK, PendingType
<1>3. /\ mUnackedPackets'[h] = Without(mUnackedPackets[h], ids)
      /\ mFinalRetryPackets'[h] = Without(mFinalRetryPackets[h], ids)
      /\ mUnackedPacketCount'[h] = mUnackedPacketCount[h] - Cardinality(acked)
      /\ callbacks'[h] = Answer(h, acked, "LL_ERR_NOERR")
    BY <1>1, <1>2
<1>4. /\ DOMAIN Without(mUnackedPackets[h], ids) = DOMAIN mUnackedPackets[h] \ ids
      /\ DOMAIN Without(mFinalRetryPackets[h], ids) = DOMAIN mFinalRetryPackets[h] \ ids
      /\ \A i \in DOMAIN mUnackedPackets[h] \ ids :
            Without(mUnackedPackets[h], ids)[i] = mUnackedPackets[h][i]
    BY DEF Without
<1>5. /\ DOMAIN Answer(h, acked, "LL_ERR_NOERR") = DOMAIN callbacks[h]
      /\ \A i \in DOMAIN callbacks[h] \ acked :
            Answer(h, acked, "LL_ERR_NOERR")[i] = callbacks[h][i]
      /\ \A i \in acked \cap DOMAIN callbacks[h] :
            Answer(h, acked, "LL_ERR_NOERR")[i] = Append(callbacks[h][i], "LL_ERR_NOERR")
    BY DEF Answer
<1>6. Books(mUnackedPackets[h], mFinalRetryPackets[h], mUnackedPacketCount[h],
            callbacks[h], mPacketsOutID[h])
    BY DEF BooksKept, BooksOf
<1>7. /\ Pending(h) = DOMAIN mUnackedPackets[h] \cup DOMAIN mFinalRetryPackets[h]
      /\ IsFiniteSet(Pending(h)) /\ DOMAIN callbacks[h] \subseteq Nat
      /\ mPacketsOutID[h] \in Nat /\ mPacketsOutID'[h] \in Nat
      /\ mPacketsOutID[h] <= mPacketsOutID'[h]
    BY PendingFacts, ModulusAssumption DEF IdsGrow, TypeOK, PacketID
<1>8. acked \subseteq DOMAIN callbacks[h] /\ "LL_ERR_NOERR" \in Result
    BY <1>6, <1>7 DEF Books, Result
<1>9. /\ Books(mUnackedPackets'[h], mFinalRetryPackets'[h], mUnackedPacketCount'[h],
               callbacks'[h], mPacketsOutID'[h])
      /\ Appended(callbacks[h], callbacks'[h])
    <2>1. /\ DOMAIN mUnackedPackets'[h] \cap DOMAIN mFinalRetryPackets'[h] = {}
          /\ DOMAIN mUnackedPackets'[h] \cup DOMAIN mFinalRetryPackets'[h] = Pending(h) \ acked
          /\ \A i \in DOMAIN mUnackedPackets'[h] : mUnackedPackets'[h][i].mRetries > 0
        BY <1>3, <1>4, <1>6, <1>7 DEF Books
    <2>2. /\ DOMAIN callbacks'[h] = DOMAIN callbacks[h]
          /\ \A i \in DOMAIN callbacks[h] \ acked : callbacks'[h][i] = callbacks[h][i]
          /\ \A i \in acked : \E r \in Result : callbacks'[h][i] = Append(callbacks[h][i], r)
        BY <1>3, <1>5, <1>8
    <2>3. acked \in SUBSET Pending(h)
        OBVIOUS
    <2>4. Answering(mUnackedPackets[h], mFinalRetryPackets[h], callbacks[h], acked,
                    mUnackedPackets'[h], mFinalRetryPackets'[h], callbacks'[h])
        BY <1>7, <2>1, <2>2, <2>3 DEF Answering
    <2> HIDE DEF acked
    <2>5. IsFiniteSet(DOMAIN mUnackedPackets[h] \cup DOMAIN mFinalRetryPackets[h])
        BY <1>7
    <2>6. /\ Books(mUnackedPackets'[h], mFinalRetryPackets'[h],
                   mUnackedPacketCount[h] - Cardinality(acked), callbacks'[h], mPacketsOutID'[h])
          /\ Appended(callbacks[h], callbacks'[h])
        BY <1>6, <1>7, <2>4, <2>5, BooksAnswered, Zenon
    <2>7. QED BY <1>3, <2>6
<1>10. \A g \in Host \ {h} :
            /\ mUnackedPackets'[g] = mUnackedPackets[g]
            /\ mFinalRetryPackets'[g] = mFinalRetryPackets[g]
            /\ mUnackedPacketCount'[g] = mUnackedPacketCount[g]
            /\ callbacks'[g] = callbacks[g]
    BY <1>1, <1>2
<1>11. QED BY <1>9, <1>10, OneHost

\* The end of a circuit empties the lists and answers what was on them.
LEMMA AbortBooks ==
    ASSUME TypeOK, TypeOK', BooksKept, IdsGrow, NEW h \in Host, NEW acked,
           AbortPackets(h, acked)
    PROVE  BooksKept' /\ CallbacksAppended
<1>1. /\ mUnackedPackets' = [mUnackedPackets EXCEPT ![h] = NoPackets]
      /\ mFinalRetryPackets' = [mFinalRetryPackets EXCEPT ![h] = NoPackets]
      /\ mUnackedPacketCount' =
            [mUnackedPacketCount EXCEPT ![h] = @ - Cardinality(Pending(h))]
      /\ callbacks' = [callbacks EXCEPT ![h] =
            [i \in DOMAIN @ |-> IF i \in Pending(h)
                                THEN Append(@[i], Aborted(i, acked)) ELSE @[i]]]
    BY DEF AbortPackets
<1>2. /\ DOMAIN mUnackedPackets = Host /\ DOMAIN mFinalRetryPackets = Host
      /\ DOMAIN mUnackedPacketCount = Host /\ DOMAIN callbacks = Host
    BY DEF TypeOK, PendingType
<1>3. /\ mUnackedPackets'[h] = NoPackets /\ mFinalRetryPackets'[h] = NoPackets
      /\ mUnackedPacketCount'[h] = mUnackedPacketCount[h] - Cardinality(Pending(h))
      /\ callbacks'[h] = [i \in DOMAIN callbacks[h] |->
                IF i \in Pending(h) THEN Append(callbacks[h][i], Aborted(i, acked))
                                    ELSE callbacks[h][i]]
    BY <1>1, <1>2
<1>4. DOMAIN NoPackets = {}
    BY DEF NoPackets
<1>5. Books(mUnackedPackets[h], mFinalRetryPackets[h], mUnackedPacketCount[h],
            callbacks[h], mPacketsOutID[h])
    BY DEF BooksKept, BooksOf
<1>6. /\ Pending(h) = DOMAIN mUnackedPackets[h] \cup DOMAIN mFinalRetryPackets[h]
      /\ IsFiniteSet(Pending(h)) /\ DOMAIN callbacks[h] \subseteq Nat
      /\ mPacketsOutID[h] \in Nat /\ mPacketsOutID'[h] \in Nat
      /\ mPacketsOutID[h] <= mPacketsOutID'[h]
    BY PendingFacts, ModulusAssumption DEF IdsGrow, TypeOK, PacketID
<1>7. \A i \in Pending(h) : i \in DOMAIN callbacks[h] /\ Aborted(i, acked) \in Result
    BY <1>5, <1>6 DEF Books, Result, Aborted
<1>8. /\ Books(mUnackedPackets'[h], mFinalRetryPackets'[h], mUnackedPacketCount'[h],
               callbacks'[h], mPacketsOutID'[h])
      /\ Appended(callbacks[h], callbacks'[h])
    <2>1. /\ DOMAIN mUnackedPackets'[h] \cap DOMAIN mFinalRetryPackets'[h] = {}
          /\ DOMAIN mUnackedPackets'[h] \cup DOMAIN mFinalRetryPackets'[h]
                = Pending(h) \ Pending(h)
          /\ \A i \in DOMAIN mUnackedPackets'[h] : mUnackedPackets'[h][i].mRetries > 0
        BY <1>3, <1>4
    <2>2. /\ DOMAIN callbacks'[h] = DOMAIN callbacks[h]
          /\ \A i \in DOMAIN callbacks[h] \ Pending(h) : callbacks'[h][i] = callbacks[h][i]
          /\ \A i \in Pending(h) : \E r \in Result : callbacks'[h][i] = Append(callbacks[h][i], r)
        BY <1>3, <1>7
    <2>3. Answering(mUnackedPackets[h], mFinalRetryPackets[h], callbacks[h], Pending(h),
                    mUnackedPackets'[h], mFinalRetryPackets'[h], callbacks'[h])
        BY <1>6, <2>1, <2>2 DEF Answering
    <2>4. IsFiniteSet(DOMAIN mUnackedPackets[h] \cup DOMAIN mFinalRetryPackets[h])
        BY <1>6
    <2>5. /\ Books(mUnackedPackets'[h], mFinalRetryPackets'[h],
                   mUnackedPacketCount[h] - Cardinality(Pending(h)), callbacks'[h],
                   mPacketsOutID'[h])
          /\ Appended(callbacks[h], callbacks'[h])
        BY <1>5, <1>6, <2>3, <2>4, BooksAnswered, Zenon
    <2>6. QED BY <1>3, <2>5
<1>9. \A g \in Host \ {h} :
            /\ mUnackedPackets'[g] = mUnackedPackets[g]
            /\ mFinalRetryPackets'[g] = mFinalRetryPackets[g]
            /\ mUnackedPacketCount'[g] = mUnackedPacketCount[g]
            /\ callbacks'[g] = callbacks[g]
    BY <1>1, <1>2
<1>10. QED BY <1>8, <1>9, OneHost

\* A pass over the lists moves packets to the second and answers those that fail.
LEMMA ResendBooks ==
    ASSUME TypeOK, TypeOK', BooksKept, IdsGrow, NEW h \in Host, NEW n \in Nat,
           NEW resends \in [1 .. n -> DOMAIN mUnackedPackets[h]],
           NEW dropped \in SUBSET DOMAIN mUnackedPackets[h],
           NEW expired \in SUBSET DOMAIN mFinalRetryPackets[h],
           ResendUnackedPackets(h, resends, dropped, expired)
    PROVE  BooksKept' /\ CallbacksAppended
<1> DEFINE unacked == mUnackedPackets[h]
           final   == mFinalRetryPackets[h]
           resent  == SetOf(resends)
           left(i) == Retried(unacked[i])
           last    == {i \in resent : left(i).mRetries = 0}
           failed  == dropped \cup expired
           unacked1 == [i \in DOMAIN unacked \ (last \cup dropped) |->
                            IF i \in resent THEN left(i) ELSE unacked[i]]
           final1   == [i \in (DOMAIN final \ expired) \cup last |->
                            IF i \in last THEN left(i) ELSE final[i]]
<1>1. /\ mUnackedPackets' = [mUnackedPackets EXCEPT ![h] = unacked1]
      /\ mFinalRetryPackets' = [mFinalRetryPackets EXCEPT ![h] = final1]
      /\ mUnackedPacketCount' = [mUnackedPacketCount EXCEPT ![h] = @ - Cardinality(failed)]
      /\ callbacks' = [callbacks EXCEPT ![h] = Answer(h, failed, "LL_ERR_TCP_TIMEOUT")]
      /\ \A r \in resent, d \in dropped : r < d
    BY DEF ResendUnackedPackets, StillUnacked
<1>2. /\ DOMAIN mUnackedPackets = Host /\ DOMAIN mFinalRetryPackets = Host
      /\ DOMAIN mUnackedPacketCount = Host /\ DOMAIN callbacks = Host
      /\ PartialFunction(unacked, PacketID, ReliablePacket)
    BY DEF TypeOK, PendingType
<1>3. resent \subseteq DOMAIN unacked
    BY DEF SetOf
<1>4. Books(unacked, final, mUnackedPacketCount[h], callbacks[h], mPacketsOutID[h])
    BY DEF BooksKept, BooksOf
<1>5. /\ Pending(h) = DOMAIN unacked \cup DOMAIN final
      /\ IsFiniteSet(Pending(h)) /\ DOMAIN callbacks[h] \subseteq Nat
      /\ mPacketsOutID[h] \in Nat /\ mPacketsOutID'[h] \in Nat
      /\ mPacketsOutID[h] <= mPacketsOutID'[h]
      /\ Pending(h) \subseteq Nat
    BY PendingFacts, ModulusAssumption DEF IdsGrow, TypeOK, PacketID
<1>6. /\ mUnackedPackets'[h] = unacked1 /\ mFinalRetryPackets'[h] = final1
      /\ mUnackedPacketCount'[h] = mUnackedPacketCount[h] - Cardinality(failed)
      /\ callbacks'[h] = Answer(h, failed, "LL_ERR_TCP_TIMEOUT")
    BY <1>1, <1>2
<1>7. last \subseteq DOMAIN unacked /\ last \cap dropped = {}
    <2>1. \A i \in dropped : i \in Nat
        BY <1>5
    <2>2. \A i \in dropped : i \notin resent
        BY <1>1, <2>1
    <2>3. QED BY <1>3, <2>2
<1>8. \A i \in DOMAIN unacked1 : unacked1[i].mRetries > 0
    <2>1. TAKE i \in DOMAIN unacked1
    <2>2. i \in DOMAIN unacked /\ i \notin last
        OBVIOUS
    <2>3. unacked[i] \in ReliablePacket /\ unacked[i].mRetries > 0
        BY <1>2, <1>4, <2>2 DEF PartialFunction, Books
    <2>4. left(i).mRetries = unacked[i].mRetries - 1 /\ unacked[i].mRetries \in Int
        BY <2>3 DEF Retried, ReliablePacket
    <2>5. QED BY <2>2, <2>3, <2>4
<1>9. /\ DOMAIN unacked1 = DOMAIN unacked \ (last \cup dropped)
      /\ DOMAIN final1 = (DOMAIN final \ expired) \cup last
    OBVIOUS
<1>10. /\ DOMAIN Answer(h, failed, "LL_ERR_TCP_TIMEOUT") = DOMAIN callbacks[h]
       /\ \A i \in DOMAIN callbacks[h] \ failed :
            Answer(h, failed, "LL_ERR_TCP_TIMEOUT")[i] = callbacks[h][i]
       /\ \A i \in failed \cap DOMAIN callbacks[h] :
            Answer(h, failed, "LL_ERR_TCP_TIMEOUT")[i]
                = Append(callbacks[h][i], "LL_ERR_TCP_TIMEOUT")
    BY DEF Answer
<1>11. failed \subseteq DOMAIN callbacks[h] /\ "LL_ERR_TCP_TIMEOUT" \in Result
       /\ failed \in SUBSET Pending(h)
    BY <1>4, <1>5 DEF Books, Result
<1>12. DOMAIN unacked \cap DOMAIN final = {}
    BY <1>4 DEF Books
<1> HIDE DEF unacked1, final1, last, left, resent
<1>13. /\ Books(mUnackedPackets'[h], mFinalRetryPackets'[h], mUnackedPacketCount'[h],
                callbacks'[h], mPacketsOutID'[h])
       /\ Appended(callbacks[h], callbacks'[h])
    <2>1. /\ DOMAIN unacked1 \cap DOMAIN final1 = {}
          /\ DOMAIN unacked1 \cup DOMAIN final1 = Pending(h) \ failed
        BY <1>5, <1>7, <1>9, <1>12
    <2>2. /\ DOMAIN callbacks'[h] = DOMAIN callbacks[h]
          /\ \A i \in DOMAIN callbacks[h] \ failed : callbacks'[h][i] = callbacks[h][i]
          /\ \A i \in failed : \E r \in Result : callbacks'[h][i] = Append(callbacks[h][i], r)
        BY <1>6, <1>10, <1>11
    <2> HIDE DEF failed, unacked, final
    <2>3. Answering(unacked, final, callbacks[h], failed, unacked1, final1, callbacks'[h])
        BY <1>5, <1>8, <1>11, <2>1, <2>2 DEF Answering
    <2>4. IsFiniteSet(DOMAIN unacked \cup DOMAIN final)
        BY <1>5
    <2>5. /\ Books(unacked1, final1, mUnackedPacketCount[h] - Cardinality(failed),
                   callbacks'[h], mPacketsOutID'[h])
          /\ Appended(callbacks[h], callbacks'[h])
        BY <1>4, <1>5, <2>3, <2>4, BooksAnswered, Zenon
    <2>6. QED BY <1>6, <2>5
<1>14. \A g \in Host \ {h} :
            /\ mUnackedPackets'[g] = mUnackedPackets[g]
            /\ mFinalRetryPackets'[g] = mFinalRetryPackets[g]
            /\ mUnackedPacketCount'[g] = mUnackedPacketCount[g]
            /\ callbacks'[g] = callbacks[g]
    BY <1>1, <1>2
<1>15. QED BY <1>13, <1>14, OneHost

\* Before the ids wrap a new one is above the others.
LEMMA NextIDFacts ==
    ASSUME TypeOK, NEW h \in Host, BeforeWrap(h, 1)
    PROVE  /\ NextPacketOutID(mPacketsOutID[h]) = mPacketsOutID[h] + 1
           /\ mPacketsOutID[h] \in Nat
BY NextIDBeforeWrap, PendingFacts DEF BeforeWrap, TypeOK

LEMMA IdsGrowAt ==
    ASSUME TypeOK, NEW h \in Host, NEW id \in Nat, mPacketsOutID[h] <= id,
           mPacketsOutID' = [mPacketsOutID EXCEPT ![h] = id]
    PROVE  IdsGrow
<1>1. ASSUME NEW g \in Host
      PROVE  mPacketsOutID[g] <= mPacketsOutID'[g]
    <2>1. mPacketsOutID[g] \in Nat
        BY PendingFacts
    <2>2. CASE g = h
        BY <2>2 DEF TypeOK
    <2>3. CASE g # h
        BY <2>1, <2>3 DEF TypeOK
    <2>4. QED BY <2>2, <2>3
<1>2. QED BY <1>1 DEF IdsGrow

LEMMA IdsStay ==
    ASSUME TypeOK, mPacketsOutID' = mPacketsOutID
    PROVE  IdsGrow
BY PendingFacts DEF IdsGrow

\* A message that is sent joins one list, and its callback has yet to run.
LEMMA AddBooks ==
    ASSUME TypeOK, TypeOK', BooksKept, NEW h \in Host, NEW retries \in Retries,
           NEW closes \in Closing, NEW take \in SUBSET mAcks[h],
           SendReliable(h, retries, closes, take)
    PROVE  BooksKept' /\ CallbacksAppended /\ IdsGrow
<1> DEFINE id     == NextPacketOutID(mPacketsOutID[h])
           packet == [mRetries |-> retries, closes |-> closes]
           unacked1 == IF retries = 0 THEN mUnackedPackets[h]
                       ELSE With(mUnackedPackets[h], id, packet)
           final1   == IF retries # 0 THEN mFinalRetryPackets[h]
                       ELSE With(mFinalRetryPackets[h], id, packet)
           calls1   == With(callbacks[h], id, <<>>)
<1>1. id = mPacketsOutID[h] + 1 /\ mPacketsOutID[h] \in Nat
    BY NextIDFacts DEF SendReliable
<1>2. mPacketsOutID' = [mPacketsOutID EXCEPT ![h] = id]
    BY DEF SendReliable, SendMessage, Message
<1>3. /\ mUnackedPacketCount' = [mUnackedPacketCount EXCEPT ![h] = @ + 1]
      /\ mUnackedPackets' = IF retries = 0 THEN mUnackedPackets
                ELSE [mUnackedPackets EXCEPT ![h] = With(@, id, packet)]
      /\ mFinalRetryPackets' = IF retries # 0 THEN mFinalRetryPackets
                ELSE [mFinalRetryPackets EXCEPT ![h] = With(@, id, packet)]
      /\ callbacks' = [callbacks EXCEPT ![h] = With(@, id, <<>>)]
    BY DEF SendReliable, AddReliablePacket
<1>4. /\ DOMAIN mUnackedPackets = Host /\ DOMAIN mFinalRetryPackets = Host
      /\ DOMAIN mUnackedPacketCount = Host /\ DOMAIN callbacks = Host
      /\ DOMAIN mPacketsOutID = Host
    BY DEF TypeOK, PendingType
<1>5. /\ mUnackedPackets'[h] = unacked1 /\ mFinalRetryPackets'[h] = final1
      /\ mUnackedPacketCount'[h] = mUnackedPacketCount[h] + 1
      /\ callbacks'[h] = calls1 /\ mPacketsOutID'[h] = id
    BY <1>2, <1>3, <1>4
<1>6. Books(mUnackedPackets[h], mFinalRetryPackets[h], mUnackedPacketCount[h],
            callbacks[h], mPacketsOutID[h])
    BY DEF BooksKept, BooksOf
<1>7. /\ Pending(h) = DOMAIN mUnackedPackets[h] \cup DOMAIN mFinalRetryPackets[h]
      /\ IsFiniteSet(Pending(h)) /\ DOMAIN callbacks[h] \subseteq Nat
    BY PendingFacts
<1> HIDE DEF id
<1>8. /\ DOMAIN calls1 = DOMAIN callbacks[h] \cup {id} /\ calls1[id] = <<>>
      /\ \A i \in DOMAIN callbacks[h] \ {id} : calls1[i] = callbacks[h][i]
    BY DEF With
<1>9. \A i \in DOMAIN callbacks[h] : i < id
    BY <1>1, <1>6, <1>7 DEF Books
<1>10. id \notin DOMAIN callbacks[h] /\ id \notin Pending(h)
    <2>1. id \notin DOMAIN callbacks[h]
        BY <1>1, <1>9
    <2>2. QED BY <1>6, <1>7, <2>1 DEF Books
<1>11. retries \in Nat
    BY CircuitAssumption
<1>12. /\ DOMAIN unacked1 = DOMAIN mUnackedPackets[h] \cup IF retries = 0 THEN {} ELSE {id}
       /\ DOMAIN final1 = DOMAIN mFinalRetryPackets[h] \cup IF retries = 0 THEN {id} ELSE {}
    BY DEF With
<1>13. \A i \in DOMAIN unacked1 : unacked1[i].mRetries > 0
    <2>1. TAKE i \in DOMAIN unacked1
    <2>2. CASE i \in DOMAIN mUnackedPackets[h]
        <3>1. i # id
            BY <1>7, <1>10, <2>2
        <3>2. unacked1[i] = mUnackedPackets[h][i]
            BY <2>2, <3>1 DEF With
        <3>3. QED BY <1>6, <2>2, <3>2 DEF Books
    <2>3. CASE i \notin DOMAIN mUnackedPackets[h]
        <3>1. i = id /\ retries # 0
            BY <1>12, <2>3
        <3>2. unacked1[i] = packet
            BY <3>1 DEF With
        <3>3. QED BY <1>11, <3>1, <3>2
    <2>4. QED BY <2>2, <2>3
<1> HIDE DEF unacked1, final1, calls1
<1>14. DOMAIN unacked1 \cup DOMAIN final1 = Pending(h) \cup {id}
    BY <1>7, <1>12
<1>15. Cardinality(Pending(h) \cup {id}) = mUnackedPacketCount[h] + 1
    <2>1. Cardinality(Pending(h) \cup {id}) = Cardinality(Pending(h)) + 1
        BY <1>7, <1>10, FS_AddElement
    <2>2. QED BY <1>6, <1>7, <2>1 DEF Books
<1>16. DOMAIN unacked1 \cap DOMAIN final1 = {}
    BY <1>6, <1>7, <1>10, <1>12 DEF Books
<1>17. ASSUME NEW i \in DOMAIN calls1
       PROVE  /\ i <= id
              /\ i \in Pending(h) \cup {id} => calls1[i] = <<>>
              /\ i \notin Pending(h) \cup {id} => \E r \in Result : calls1[i] = <<r>>
    <2>1. CASE i = id
        BY <1>1, <1>8, <2>1
    <2>2. CASE i # id
        <3>1. i \in DOMAIN callbacks[h] /\ calls1[i] = callbacks[h][i]
            BY <1>8, <2>2
        <3>2. i <= id
            BY <1>1, <1>7, <1>9, <3>1
        <3>3. QED BY <1>6, <1>7, <2>2, <3>1, <3>2 DEF Books
    <2>3. QED BY <2>1, <2>2
<1>18. Pending(h) \cup {id} \subseteq DOMAIN calls1
    BY <1>6, <1>7, <1>8 DEF Books
<1>19. Books(unacked1, final1, mUnackedPacketCount[h] + 1, calls1, id)
    BY <1>13, <1>14, <1>15, <1>16, <1>17, <1>18 DEF Books
<1>20. Appended(callbacks[h], calls1)
    BY <1>8, <1>10 DEF Appended
<1>21. \A g \in Host \ {h} :
            /\ mUnackedPackets'[g] = mUnackedPackets[g]
            /\ mFinalRetryPackets'[g] = mFinalRetryPackets[g]
            /\ mUnackedPacketCount'[g] = mUnackedPacketCount[g]
            /\ callbacks'[g] = callbacks[g]
    BY <1>3, <1>4
<1>22. IdsGrow
    <2>1. id \in Nat /\ mPacketsOutID[h] <= id
        BY <1>1
    <2>2. QED BY <1>2, <2>1, IdsGrowAt
<1>23. QED BY <1>5, <1>19, <1>20, <1>21, <1>22, OneHost
-----------------------------------------------------------------------------
(* The maps of circuits *)

UnackedVisited == \A h \in Host : Pending(h) # {} => h \in mUnackedCircuitMap
AcksVisited == \A h \in Host : mAcks[h] # {} => h \in mSendAckMap
VisitedOpen == mUnackedCircuitMap \cup mSendAckMap \subseteq mCircuitData

LEMMA StrandedParts ==
    ASSUME TypeOK
    PROVE  NothingStranded <=> UnackedVisited /\ AcksVisited /\ VisitedOpen
BY DEF NothingStranded, UnackedVisited, AcksVisited, VisitedOpen, TypeOK, PendingType

\* The count tells whether something is pending.
LEMMA CountTells ==
    ASSUME TypeOK, BooksKept, NEW h \in Host
    PROVE  mUnackedPacketCount[h] = 0 <=> Pending(h) = {}
<1>1. mUnackedPacketCount[h] = Cardinality(Pending(h))
    BY DEF BooksKept, BooksOf, Books, Pending
<1>2. QED BY <1>1, PendingFacts, FS_EmptySet

LEMMA AckVisited ==
    ASSUME TypeOK, TypeOK', BooksKept', UnackedVisited, VisitedOpen, NEW h \in Host,
           NEW ids, AckReliablePackets(h, ids)
    PROVE  UnackedVisited' /\ mUnackedCircuitMap' \subseteq mUnackedCircuitMap
<1>1. /\ mUnackedPackets' = [mUnackedPackets EXCEPT ![h] = Without(@, ids)]
      /\ mFinalRetryPackets' = [mFinalRetryPackets EXCEPT ![h] = Without(@, ids)]
      /\ mUnackedPacketCount' = [mUnackedPacketCount EXCEPT ![h] = CountAfter(h, ids)]
      /\ mUnackedCircuitMap' = IF NoneUnacked(h, ids)
                               THEN mUnackedCircuitMap \ {h} ELSE mUnackedCircuitMap
    BY DEF AckReliablePackets
<1>2. /\ DOMAIN mUnackedPackets = Host /\ DOMAIN mFinalRetryPackets = Host
      /\ DOMAIN mUnackedPacketCount = Host
    BY DEF TypeOK, PendingType
<1>3. ASSUME NEW g \in Host, Pending(g)' # {}
      PROVE  g \in mUnackedCircuitMap'
    <2>1. CASE g # h
        <3>1. Pending(g)' = Pending(g)
            BY <1>1, <1>2, <2>1 DEF Pending
        <3>2. QED BY <1>1, <1>3, <2>1, <3>1 DEF UnackedVisited
    <2>2. CASE g = h
        <3>1. Pending(g)' \subseteq Pending(g)
            BY <1>1, <1>2, <2>2 DEF Pending, Without
        <3>2. mUnackedPacketCount'[h] # 0
            <4>1. mUnackedPacketCount'[h] = Cardinality(Pending(h)')
                BY DEF BooksKept, BooksOf, Books, Pending
            <4>2. IsFiniteSet(Pending(h)') /\ Pending(h)' # {}
                BY <1>3, <2>2, <3>1, PendingFacts, FS_Subset
            <4>3. QED BY <4>1, <4>2, FS_EmptySet
        <3>3. ~ NoneUnacked(h, ids)
            BY <1>1, <1>2, <3>2 DEF NoneUnacked
        <3>4. QED BY <1>1, <1>3, <3>1, <3>3 DEF UnackedVisited
    <2>3. QED BY <2>1, <2>2
<1>4. QED BY <1>1, <1>3 DEF UnackedVisited

LEMMA AbortVisited ==
    ASSUME TypeOK, UnackedVisited, NEW h \in Host, NEW acked, AbortPackets(h, acked)
    PROVE  UnackedVisited' /\ mUnackedCircuitMap' = mUnackedCircuitMap \ {h}
<1>1. /\ mUnackedPackets' = [mUnackedPackets EXCEPT ![h] = NoPackets]
      /\ mFinalRetryPackets' = [mFinalRetryPackets EXCEPT ![h] = NoPackets]
      /\ mUnackedCircuitMap' = mUnackedCircuitMap \ {h}
    BY DEF AbortPackets
<1>2. ASSUME NEW g \in Host, Pending(g)' # {}
      PROVE  g \in mUnackedCircuitMap'
    <2>1. CASE g # h
        <3>1. Pending(g)' = Pending(g)
            BY <1>1, <2>1 DEF Pending, TypeOK, PendingType
        <3>2. QED BY <1>1, <1>2, <2>1, <3>1 DEF UnackedVisited
    <2>2. CASE g = h
        <3>1. Pending(h)' = {}
            BY <1>1 DEF Pending, NoPackets, TypeOK, PendingType
        <3>2. QED BY <1>2, <2>2, <3>1
    <2>3. QED BY <2>1, <2>2
<1>3. QED BY <1>1, <1>2 DEF UnackedVisited

LEMMA CollectVisited ==
    ASSUME TypeOK, AcksVisited, NEW h \in Host, NEW id, CollectRAck(h, id)
    PROVE  /\ AcksVisited' /\ mSendAckMap' \subseteq mSendAckMap \cup {h}
<1>1. ASSUME NEW g \in Host, mAcks'[g] # {}
      PROVE  g \in mSendAckMap'
    <2>1. CASE g # h
        BY <1>1, <2>1 DEF CollectRAck, AcksVisited, TypeOK
    <2>2. CASE g = h
        BY <2>2 DEF CollectRAck, AcksVisited
    <2>3. QED BY <2>1, <2>2
<1>2. QED BY <1>1 DEF AcksVisited, CollectRAck

LEMMA ForgetVisited ==
    ASSUME TypeOK, AcksVisited, NEW h \in Host, ForgetCircuit(h)
    PROVE  /\ AcksVisited' /\ mSendAckMap' = mSendAckMap \ {h}
           /\ mCircuitData' = mCircuitData \ {h}
<1>1. ASSUME NEW g \in Host, mAcks'[g] # {}
      PROVE  g \in mSendAckMap'
    <2>1. CASE g # h
        BY <1>1, <2>1 DEF ForgetCircuit, AcksVisited, TypeOK
    <2>2. CASE g = h
        BY <1>1, <2>2 DEF ForgetCircuit, TypeOK
    <2>3. QED BY <2>1, <2>2
<1>2. QED BY <1>1 DEF AcksVisited, ForgetCircuit

\* Acks that a message takes along need no visit.
LEMMA FewerAcksVisited ==
    ASSUME AcksVisited, \A g \in Host : mAcks'[g] \subseteq mAcks[g], mSendAckMap' = mSendAckMap
    PROVE  AcksVisited'
BY DEF AcksVisited

LEMMA SameVisited ==
    ASSUME UnackedVisited, UNCHANGED circuitVars
    PROVE  UnackedVisited'
BY DEF UnackedVisited, Pending, circuitVars
-----------------------------------------------------------------------------
(* The network *)

\* A reliable packet on its way has a callback at its sender.
Registered == \A h \in Host :
    \A p \in SetOf(net[h]) : p.reliable => p.id \in DOMAIN callbacks[Peer(h)]

\* What a step may do to the history of the receivers: only a packet with a
\* callback is handled, and no callback of its sender runs then.
HandledMoves ==
    /\ HandledStays
    /\ \A g \in Host, i \in PacketID :
            handled'[g][i] # handled[g][i] =>
                i \in DOMAIN callbacks[g] /\ callbacks'[g] = callbacks[g]

LEMMA RegisteredKept ==
    ASSUME TypeOK, Registered, CallbacksAppended, NEW h \in Host, NEW sent,
           \A g \in Host \ {Peer(h)} : SetOf(net'[g]) \subseteq SetOf(net[g]),
           SetOf(net'[Peer(h)]) \subseteq SetOf(net[Peer(h)]) \cup sent,
           \A p \in sent : p.reliable => p.id \in DOMAIN callbacks'[h]
    PROVE  Registered'
<1> SUFFICES ASSUME NEW g \in Host, NEW p \in SetOf(net'[g]), p.reliable
             PROVE  p.id \in DOMAIN callbacks'[Peer(g)]
    BY DEF Registered
<1>1. CASE p \in SetOf(net[g])
    <2>1. p.id \in DOMAIN callbacks[Peer(g)]
        BY <1>1 DEF Registered
    <2>2. QED BY <2>1, PeerType DEF CallbacksAppended, Appended
<1>2. CASE p \notin SetOf(net[g])
    <2>1. g = Peer(h) /\ p \in sent
        BY <1>2
    <2>2. QED BY <2>1, PeerOfPeer
<1>3. QED BY <1>1, <1>2

LEMMA RegisteredShrinks ==
    ASSUME TypeOK, Registered, CallbacksAppended,
           \A g \in Host : SetOf(net'[g]) \subseteq SetOf(net[g])
    PROVE  Registered'
<1> SUFFICES ASSUME NEW g \in Host, NEW p \in SetOf(net'[g]), p.reliable
             PROVE  p.id \in DOMAIN callbacks'[Peer(g)]
    BY DEF Registered
<1>1. p.id \in DOMAIN callbacks[Peer(g)]
    BY DEF Registered
<1>2. QED BY <1>1, PeerType DEF CallbacksAppended, Appended

\* What h sends of what it may send is registered.
LEMMA RegisteredSent ==
    ASSUME TypeOK, BooksKept, Registered, CallbacksAppended, NEW h \in Host,
           NEW sent \in Seq(Sendable(h)), NEW before \in [Host -> Seq(Packet)],
           \A g \in Host : SetOf(before[g]) \subseteq SetOf(net[g]),
           net' = [before EXCEPT ![Peer(h)] = Transmit(@, sent)]
    PROVE  Registered'
<1>1. SetOf(sent) \subseteq Sendable(h) /\ sent \in Seq(Packet)
    BY DEF SetOf, Sendable
<1>2. SetOf(Transmit(before[Peer(h)], sent)) \subseteq SetOf(before[Peer(h)]) \cup SetOf(sent)
    BY <1>1, PeerType, TransmitType
<1>3. SetOf(net'[Peer(h)]) \subseteq SetOf(net[Peer(h)]) \cup SetOf(sent)
    BY <1>2, PeerType
<1>4. \A g \in Host \ {Peer(h)} : SetOf(net'[g]) \subseteq SetOf(net[g])
    OBVIOUS
<1>5. ASSUME NEW p \in SetOf(sent), p.reliable
      PROVE  p.id \in DOMAIN callbacks'[h]
    <2>1. p.id \in DOMAIN mUnackedPackets[h]
        BY <1>1, <1>5 DEF Sendable
    <2>2. p.id \in DOMAIN callbacks[h]
        BY <2>1 DEF BooksKept, BooksOf, Books
    <2>3. QED BY <2>2 DEF CallbacksAppended, Appended
<1>6. QED BY <1>3, <1>4, <1>5, RegisteredKept

LEMMA HandledSame == handled' = handled => HandledMoves
BY SameHandledStays DEF HandledMoves

\* A reliable packet that arrives is handled once more.
LEMMA HandledOne ==
    ASSUME TypeOK, Registered, NEW h \in Host, NEW p \in SetOf(net[h]), p.reliable,
           handled' = [handled EXCEPT ![Peer(h)][p.id] = OnceMore(@)],
           callbacks'[Peer(h)] = callbacks[Peer(h)]
    PROVE  HandledMoves
<1>1. p \in Packet /\ p.id \in PacketID
    <2>1. net[h] \in Seq(Packet)
        BY DEF TypeOK
    <2>2. p \in Packet
        BY <2>1 DEF SetOf
    <2>3. QED BY <2>2 DEF Packet
<1>2. HandledStays
    BY <1>1, OnceMoreStays, PeerType
<1>3. p.id \in DOMAIN callbacks[Peer(h)]
    BY DEF Registered
<1>4. ASSUME NEW g \in Host, NEW i \in PacketID, handled'[g][i] # handled[g][i]
      PROVE  g = Peer(h) /\ i = p.id
    BY <1>1, <1>4, PeerType DEF TypeOK
<1>5. QED BY <1>2, <1>3, <1>4 DEF HandledMoves
-----------------------------------------------------------------------------
(* Steps *)

Accounts == BooksKept /\ UnackedVisited /\ AcksVisited /\ VisitedOpen /\ Registered

\* What every step does.
Moves == Accounts' /\ CallbacksAppended /\ HandledMoves

LEMMA InitAccounts == Init => Accounts
<1> SUFFICES ASSUME Init PROVE Accounts
    OBVIOUS
<1>1. DOMAIN NoPackets = {}
    BY DEF NoPackets
<1>2. BooksKept
    BY <1>1, FS_EmptySet DEF Init, BooksKept, BooksOf, Books
<1>3. UnackedVisited
    BY <1>1 DEF Init, UnackedVisited, Pending
<1>4. AcksVisited /\ VisitedOpen /\ Registered
    BY DEF Init, AcksVisited, VisitedOpen, Registered, SetOf
<1>5. QED BY <1>2, <1>3, <1>4 DEF Accounts

LEMMA SendReliableMoves ==
    ASSUME TypeOK, TypeOK', Accounts, NEW h \in Host, NEW retries \in Retries,
           NEW closes \in Closing, NEW take \in SUBSET mAcks[h],
           SendReliable(h, retries, closes, take)
    PROVE  Moves
<1> USE DEF Accounts
<1> DEFINE id == NextPacketOutID(mPacketsOutID[h])
           message == [Message("Data", id, take) EXCEPT !.reliable = TRUE, !.closes = closes]
<1>1. BooksKept' /\ CallbacksAppended
    BY AddBooks
<1>2. /\ h \in mCircuitData /\ mCircuitData' = mCircuitData
      /\ mUnackedCircuitMap' = IF mUnackedPacketCount[h] = 0
                               THEN mUnackedCircuitMap \cup {h} ELSE mUnackedCircuitMap
      /\ mSendAckMap' = mSendAckMap /\ handled' = handled
      /\ AddReliablePacket(h, id, retries, closes)
      /\ SendMessage(h, message)
    BY DEF SendReliable
<1>3. VisitedOpen'
    BY <1>2 DEF VisitedOpen
<1>4. h \in mUnackedCircuitMap'
    BY <1>2, CountTells DEF UnackedVisited
<1>5. ASSUME NEW g \in Host, Pending(g)' # {}
      PROVE  g \in mUnackedCircuitMap'
    <2>1. CASE g # h
        <3>1. Pending(g)' = Pending(g)
            BY <1>2, <2>1 DEF AddReliablePacket, Pending, TypeOK, PendingType
        <3>2. QED BY <1>2, <1>5, <3>1 DEF UnackedVisited
    <2>2. QED BY <1>4, <2>1
<1>6. UnackedVisited'
    BY <1>5 DEF UnackedVisited
<1>7. AcksVisited'
    <2>1. \A g \in Host : mAcks'[g] \subseteq mAcks[g]
        BY <1>2 DEF SendMessage, TypeOK
    <2>2. QED BY <1>2, <2>1, FewerAcksVisited
<1>8. id \in PacketID /\ take \in SUBSET PacketID
    BY NextIDType DEF TypeOK
<1> HIDE DEF id
<1>9. message \in Packet /\ message.id = id
    BY <1>8, MessageType, CircuitAssumption DEF Packet, Message, Kind
<1>10. id \in DOMAIN callbacks'[h]
    BY <1>2 DEF AddReliablePacket, With, TypeOK, PendingType
<1> HIDE DEF message
<1>11. Registered'
    <2>1. <<message>> \in Seq(Packet) /\ net[Peer(h)] \in Seq(Packet)
        BY <1>9, PeerType DEF TypeOK
    <2>2. SetOf(<<message>>) = {message}
        BY DEF SetOf
    <2>3. net' = [net EXCEPT ![Peer(h)] = Transmit(@, <<message>>)]
        BY <1>2 DEF SendMessage
    <2>4. SetOf(net'[Peer(h)]) \subseteq SetOf(net[Peer(h)]) \cup {message}
        BY <2>1, <2>2, <2>3, TransmitType, PeerType DEF TypeOK
    <2>5. \A g \in Host \ {Peer(h)} : SetOf(net'[g]) \subseteq SetOf(net[g])
        BY <2>3 DEF TypeOK
    <2>6. \A p \in {message} : p.reliable => p.id \in DOMAIN callbacks'[h]
        BY <1>9, <1>10
    <2>7. QED BY <1>1, <2>4, <2>5, <2>6, RegisteredKept
<1>12. HandledMoves
    BY <1>2, HandledSame
<1>13. QED BY <1>1, <1>3, <1>6, <1>7, <1>11, <1>12 DEF Moves

LEMMA SendUnreliableMoves ==
    ASSUME TypeOK, TypeOK', Accounts, NEW h \in Host, NEW closes \in Closing,
           NEW take \in SUBSET mAcks[h], SendUnreliable(h, closes, take)
    PROVE  Moves
<1> USE DEF Accounts
<1> DEFINE id == NextPacketOutID(mPacketsOutID[h])
           message == [Message("Data", id, take) EXCEPT !.closes = closes]
<1>1. /\ mCircuitData' = mCircuitData /\ UNCHANGED circuitVars
      /\ mSendAckMap' = mSendAckMap /\ handled' = handled
      /\ SendMessage(h, message) /\ BeforeWrap(h, 1)
    BY DEF SendUnreliable
<1>2. id = mPacketsOutID[h] + 1 /\ mPacketsOutID[h] \in Nat
    BY <1>1, NextIDFacts
<1>3. IdsGrow
    <2>1. id \in Nat /\ mPacketsOutID[h] <= id
        BY <1>2
    <2>2. mPacketsOutID' = [mPacketsOutID EXCEPT ![h] = id]
        BY <1>1 DEF SendMessage, Message
    <2>3. QED BY <2>1, <2>2, IdsGrowAt
<1>4. BooksKept' /\ CallbacksAppended
    BY <1>1, <1>3, SameBooks
<1>5. UnackedVisited' /\ VisitedOpen'
    BY <1>1, SameVisited DEF VisitedOpen, circuitVars
<1>6. AcksVisited'
    <2>1. \A g \in Host : mAcks'[g] \subseteq mAcks[g]
        BY <1>1 DEF SendMessage, TypeOK
    <2>2. QED BY <1>1, <2>1, FewerAcksVisited
<1>7. id \in PacketID /\ take \in SUBSET PacketID
    BY NextIDType DEF TypeOK
<1> HIDE DEF id
<1>8. message \in Packet /\ ~ message.reliable
    BY <1>7, MessageType, CircuitAssumption DEF Packet, Message, Kind
<1> HIDE DEF message
<1>9. Registered'
    <2>1. <<message>> \in Seq(Packet) /\ net[Peer(h)] \in Seq(Packet)
        BY <1>8, PeerType DEF TypeOK
    <2>2. SetOf(<<message>>) = {message}
        BY DEF SetOf
    <2>3. net' = [net EXCEPT ![Peer(h)] = Transmit(@, <<message>>)]
        BY <1>1 DEF SendMessage
    <2>4. SetOf(net'[Peer(h)]) \subseteq SetOf(net[Peer(h)]) \cup {message}
        BY <2>1, <2>2, <2>3, TransmitType, PeerType DEF TypeOK
    <2>5. \A g \in Host \ {Peer(h)} : SetOf(net'[g]) \subseteq SetOf(net[g])
        BY <2>3 DEF TypeOK
    <2>6. \A p \in {message} : p.reliable => p.id \in DOMAIN callbacks'[h]
        BY <1>8
    <2>7. QED BY <1>4, <2>4, <2>5, <2>6, RegisteredKept
<1>10. HandledMoves
    BY <1>1, HandledSame
<1>11. QED BY <1>4, <1>5, <1>6, <1>9, <1>10 DEF Moves

LEMMA RemoveCircuitMoves ==
    ASSUME TypeOK, TypeOK', Accounts, NEW h \in Host, RemoveCircuit(h)
    PROVE  Moves
<1> USE DEF Accounts
<1>1. /\ ForgetCircuit(h) /\ AbortPackets(h, {}) /\ mPacketsOutID' = mPacketsOutID
      /\ net' = net /\ handled' = handled
    BY DEF RemoveCircuit
<1>2. BooksKept' /\ CallbacksAppended
    BY <1>1, IdsStay, AbortBooks
<1>3. UnackedVisited' /\ AcksVisited'
    BY <1>1, AbortVisited, ForgetVisited
<1>4. VisitedOpen'
    BY <1>1, AbortVisited, ForgetVisited DEF VisitedOpen
<1>5. Registered'
    BY <1>1, <1>2, RegisteredShrinks
<1>6. QED BY <1>1, <1>2, <1>3, <1>4, <1>5, HandledSame DEF Moves

LEMMA LoseMoves ==
    ASSUME TypeOK, TypeOK', Accounts, NEW h \in Host, NEW i \in DOMAIN net[h], Lose(h, i)
    PROVE  Moves
<1> USE DEF Accounts
<1>1. /\ net' = [net EXCEPT ![h] = Remove(@, i)]
      /\ UNCHANGED <<mCircuitData, mPacketsOutID, circuitVars, mAcks, mSendAckMap, handled>>
    BY DEF Lose, receiveVars
<1>2. \A g \in Host : SetOf(net'[g]) \subseteq SetOf(net[g])
    <2>1. SetOf(Remove(net[h], i)) \subseteq SetOf(net[h])
        BY RemoveType DEF TypeOK
    <2>2. QED BY <1>1, <2>1 DEF TypeOK
<1>3. BooksKept' /\ CallbacksAppended
    BY <1>1, IdsStay, SameBooks
<1>4. UnackedVisited' /\ AcksVisited' /\ VisitedOpen'
    BY <1>1, SameVisited DEF AcksVisited, VisitedOpen, circuitVars
<1>5. QED BY <1>1, <1>2, <1>3, <1>4, RegisteredShrinks, HandledSame DEF Moves

\* A frame sends a ping, an ack, both or neither.
LEMMA ProcessAcksIds ==
    ASSUME TypeOK, NEW h \in Host, NEW pinged, NEW take, NEW resends, NEW dropped, NEW expired,
           ProcessAcks(h, pinged, take, resends, dropped, expired)
    PROVE  IdsGrow
<1> DEFINE out     == mPacketsOutID[h]
           pingID  == NextPacketOutID(out)
           ackID   == NextPacketOutID(IF pinged THEN pingID ELSE out)
           left    == IF pinged THEN mAcks[h] \ take ELSE mAcks[h]
           sendAck == h \in mSendAckMap /\ left # {}
           last    == CASE sendAck -> ackID [] ~sendAck /\ pinged -> pingID [] OTHER -> out
<1>1. BeforeWrap(h, 2) /\ mPacketsOutID' = [mPacketsOutID EXCEPT ![h] = last]
    BY DEF ProcessAcks, TypeOK
<1>2. out \in PacketID /\ out + 2 < LL_MAX_OUT_PACKET_ID /\ out \in Nat
    BY <1>1, PendingFacts DEF BeforeWrap, TypeOK
<1>3. pingID = out + 1 /\ pingID \in PacketID
    BY <1>2, NextIDBeforeWrap, NextIDType, ModulusAssumption
<1>4. NextPacketOutID(pingID) = out + 2
    <2>1. pingID + 1 < LL_MAX_OUT_PACKET_ID
        BY <1>2, <1>3
    <2> HIDE DEF pingID
    <2>2. NextPacketOutID(pingID) = pingID + 1
        BY <1>3, <2>1, NextIDBeforeWrap
    <2>3. QED BY <1>2, <1>3, <2>2
<1>5. ackID \in {out + 1, out + 2}
    BY <1>3, <1>4
<1> HIDE DEF ackID, pingID, sendAck
<1>6. last \in {out, out + 1, out + 2}
    BY <1>3, <1>5
<1>7. last \in Nat /\ mPacketsOutID[h] <= last
    BY <1>2, <1>6
<1> HIDE DEF last
<1>8. QED BY <1>1, <1>7, IdsGrowAt

LEMMA ProcessAcksMoves ==
    ASSUME TypeOK, TypeOK', Accounts, NEW h \in Host, NEW pinged \in BOOLEAN, NEW n \in Nat,
           NEW take \in SUBSET mAcks[h],
           NEW resends \in [1 .. n -> DOMAIN mUnackedPackets[h]],
           NEW dropped \in SUBSET DOMAIN mUnackedPackets[h],
           NEW expired \in SUBSET DOMAIN mFinalRetryPackets[h],
           ProcessAcks(h, pinged, take, resends, dropped, expired)
    PROVE  Moves
<1> USE DEF Accounts
<1> DEFINE out     == mPacketsOutID[h]
           pingID  == NextPacketOutID(out)
           ackID   == NextPacketOutID(IF pinged THEN pingID ELSE out)
           left    == IF pinged THEN mAcks[h] \ take ELSE mAcks[h]
           sendAck == h \in mSendAckMap /\ left # {}
           last    == CASE sendAck -> ackID [] ~sendAck /\ pinged -> pingID [] OTHER -> out
<1>1. /\ BeforeWrap(h, 2)
      /\ ResendUnackedPackets(h, resends, dropped, expired)
      /\ mPacketsOutID' = [mPacketsOutID EXCEPT ![h] = last]
      /\ mAcks' = [mAcks EXCEPT ![h] = IF sendAck THEN {} ELSE left]
      /\ mSendAckMap' = mSendAckMap \ {h}
      /\ mCircuitData' = mCircuitData /\ handled' = handled
    BY DEF ProcessAcks, TypeOK
<1>2. IdsGrow
    BY ProcessAcksIds
<1>3. BooksKept' /\ CallbacksAppended
    BY <1>1, <1>2, ResendBooks
<1>4. AcksVisited'
    <2>1. SUFFICES ASSUME NEW g \in Host, mAcks'[g] # {}
                   PROVE  g \in mSendAckMap'
        BY DEF AcksVisited
    <2>2. CASE g # h
        BY <1>1, <2>1, <2>2 DEF AcksVisited, TypeOK
    <2>3. CASE g = h
        <3>1. ~sendAck /\ left # {}
            BY <1>1, <2>1, <2>3 DEF TypeOK
        <3>2. QED BY <3>1 DEF AcksVisited
    <2>4. QED BY <2>2, <2>3
<1>5. mUnackedCircuitMap' = mUnackedCircuitMap
    BY <1>1 DEF ResendUnackedPackets
<1>6. UnackedVisited'
    <2>1. SUFFICES ASSUME NEW g \in Host, Pending(g)' # {}
                   PROVE  Pending(g) # {}
        BY <1>5 DEF UnackedVisited
    <2>2. CASE g # h
        BY <1>1, <2>1, <2>2 DEF ResendUnackedPackets, Pending, TypeOK, PendingType
    <2>3. CASE g = h
        <3>1. SetOf(resends) \subseteq DOMAIN mUnackedPackets[h]
            BY DEF SetOf
        <3>2. Pending(h)' \subseteq Pending(h)
            BY <1>1, <3>1 DEF ResendUnackedPackets, StillUnacked, Pending, TypeOK, PendingType
        <3>3. QED BY <2>1, <2>3, <3>2
    <2>4. QED BY <2>2, <2>3
<1>7. VisitedOpen'
    BY <1>1, <1>5 DEF VisitedOpen
<1>8. Registered'
    <2>1. PICK sent \in Seq(Sendable(h)) : net' = [net EXCEPT ![Peer(h)] = Transmit(@, sent)]
        BY FrameSends
    <2>2. net \in [Host -> Seq(Packet)]
        BY DEF TypeOK
    <2>3. QED BY <1>3, <2>1, <2>2, RegisteredSent
<1>9. QED BY <1>1, <1>3, <1>4, <1>6, <1>7, <1>8, HandledSame DEF Moves

LEMMA ReceiveOffCircuitMoves ==
    ASSUME TypeOK, TypeOK', Accounts, NEW h \in Host, NEW i, NEW kept,
           ReceiveOffCircuit(h, i, kept)
    PROVE  Moves
<1> USE DEF Accounts
<1>1. /\ Arrival(h, i, kept) /\ net' = [net EXCEPT ![h] = AfterArrival(h, i, kept)]
      /\ UNCHANGED <<mCircuitData, mPacketsOutID, circuitVars, mAcks, mSendAckMap, handled>>
    BY DEF ReceiveOffCircuit, receiveVars
<1>2. BooksKept' /\ CallbacksAppended
    BY <1>1, IdsStay, SameBooks
<1>3. UnackedVisited' /\ AcksVisited' /\ VisitedOpen'
    BY <1>1, SameVisited DEF AcksVisited, VisitedOpen, circuitVars
<1>4. QED BY <1>1, <1>2, <1>3, ArrivalShrinks, RegisteredShrinks, HandledSame DEF Moves

LEMMA ReceiveDuplicateResendMoves ==
    ASSUME TypeOK, TypeOK', Accounts, NEW h \in Host, NEW i, NEW kept,
           ReceiveDuplicateResend(h, i, kept)
    PROVE  Moves
<1> USE DEF Accounts
<1> DEFINE p == net[h][i]
<1>1. /\ Arrival(h, i, kept) /\ net' = [net EXCEPT ![h] = AfterArrival(h, i, kept)]
      /\ h \in mCircuitData /\ mCircuitData' = mCircuitData
      /\ AckReliablePackets(h, p.acks) /\ CollectRAck(h, p.id)
      /\ mPacketsOutID' = mPacketsOutID /\ handled' = handled
    BY DEF ReceiveDuplicateResend
<1>2. BooksKept' /\ CallbacksAppended
    BY <1>1, IdsStay, AckBooks
<1>3. UnackedVisited' /\ mUnackedCircuitMap' \subseteq mUnackedCircuitMap
    BY <1>1, <1>2, AckVisited
<1>4. AcksVisited' /\ mSendAckMap' \subseteq mSendAckMap \cup {h}
    BY <1>1, CollectVisited
<1>5. VisitedOpen'
    BY <1>1, <1>3, <1>4 DEF VisitedOpen
<1>6. QED BY <1>1, <1>2, <1>3, <1>4, <1>5, ArrivalShrinks, RegisteredShrinks, HandledSame
          DEF Moves

LEMMA ReceiveDataMoves ==
    ASSUME TypeOK, TypeOK', Accounts, NEW h \in Host, NEW i, NEW kept, ReceiveData(h, i, kept)
    PROVE  Moves
<1> USE DEF Accounts
<1> DEFINE p == net[h][i]
<1>1. /\ Arrival(h, i, kept) /\ net' = [net EXCEPT ![h] = AfterArrival(h, i, kept)]
      /\ h \in mCircuitData /\ mCircuitData' = mCircuitData
      /\ AckReliablePackets(h, p.acks) /\ mPacketsOutID' = mPacketsOutID
    BY DEF ReceiveData
<1>2. BooksKept' /\ CallbacksAppended
    BY <1>1, IdsStay, AckBooks
<1>3. UnackedVisited' /\ mUnackedCircuitMap' \subseteq mUnackedCircuitMap
    BY <1>1, <1>2, AckVisited
<1>4. AcksVisited' /\ mSendAckMap' \subseteq mSendAckMap \cup {h}
    <2>1. CASE p.reliable
        BY <2>1, CollectVisited DEF ReceiveData
    <2>2. CASE ~ p.reliable
        BY <2>2 DEF ReceiveData, AcksVisited
    <2>3. QED BY <2>1, <2>2
<1>5. VisitedOpen'
    BY <1>1, <1>3, <1>4 DEF VisitedOpen
<1>6. HandledMoves
    <2>1. CASE p.reliable
        <3>1. p \in SetOf(net[h])
            BY <1>1, ArrivalType
        <3>2. handled' = [handled EXCEPT ![Peer(h)][p.id] = OnceMore(@)]
            BY <2>1 DEF ReceiveData
        <3>3. callbacks'[Peer(h)] = callbacks[Peer(h)]
            BY <1>1, PeerType DEF AckReliablePackets, TypeOK, PendingType
        <3> HIDE DEF p
        <3>4. QED BY <2>1, <3>1, <3>2, <3>3, HandledOne
    <2>2. CASE ~ p.reliable
        BY <2>2, HandledSame DEF ReceiveData
    <2>3. QED BY <2>1, <2>2
<1>7. QED BY <1>1, <1>2, <1>3, <1>4, <1>5, <1>6, ArrivalShrinks, RegisteredShrinks DEF Moves

LEMMA ReceiveClosingDataMoves ==
    ASSUME TypeOK, TypeOK', Accounts, NEW h \in Host, NEW i, NEW kept,
           ReceiveClosingData(h, i, kept)
    PROVE  Moves
<1> USE DEF Accounts
<1> DEFINE p == net[h][i]
<1>1. /\ Arrival(h, i, kept) /\ net' = [net EXCEPT ![h] = AfterArrival(h, i, kept)]
      /\ ForgetCircuit(h) /\ AbortPackets(h, p.acks) /\ mPacketsOutID' = mPacketsOutID
      /\ handled' = IF p.reliable THEN [handled EXCEPT ![Peer(h)][p.id] = OnceMore(@)]
                                  ELSE handled
    BY DEF ReceiveClosingData
<1>2. BooksKept' /\ CallbacksAppended
    BY <1>1, IdsStay, AbortBooks
<1>3. UnackedVisited' /\ AcksVisited'
    BY <1>1, AbortVisited, ForgetVisited
<1>4. VisitedOpen'
    BY <1>1, AbortVisited, ForgetVisited DEF VisitedOpen
<1>5. HandledMoves
    <2>1. CASE p.reliable
        <3>1. p \in SetOf(net[h])
            BY <1>1, ArrivalType
        <3>2. handled' = [handled EXCEPT ![Peer(h)][p.id] = OnceMore(@)]
            BY <1>1, <2>1
        <3>3. callbacks'[Peer(h)] = callbacks[Peer(h)]
            BY <1>1, PeerType DEF AbortPackets, TypeOK, PendingType
        <3> HIDE DEF p
        <3>4. QED BY <2>1, <3>1, <3>2, <3>3, HandledOne
    <2>2. CASE ~ p.reliable
        BY <1>1, <2>2, HandledSame
    <2>3. QED BY <2>1, <2>2
<1>6. QED BY <1>1, <1>2, <1>3, <1>4, <1>5, ArrivalShrinks, RegisteredShrinks DEF Moves

LEMMA ReceiveReplyMoves ==
    ASSUME TypeOK, TypeOK', Accounts, NEW h \in Host, NEW i, NEW kept, ReceiveReply(h, i, kept)
    PROVE  Moves
<1> USE DEF Accounts
<1>1. /\ Arrival(h, i, kept) /\ net' = [net EXCEPT ![h] = AfterArrival(h, i, kept)]
      /\ AckReliablePackets(h, net[h][i].acks)
      /\ UNCHANGED <<mCircuitData, mPacketsOutID, mAcks, mSendAckMap, handled>>
    BY DEF ReceiveReply
<1>2. BooksKept' /\ CallbacksAppended
    BY <1>1, IdsStay, AckBooks
<1>3. UnackedVisited' /\ mUnackedCircuitMap' \subseteq mUnackedCircuitMap
    BY <1>1, <1>2, AckVisited
<1>4. AcksVisited' /\ VisitedOpen'
    BY <1>1, <1>3 DEF AcksVisited, VisitedOpen
<1>5. QED BY <1>1, <1>2, <1>3, <1>4, ArrivalShrinks, RegisteredShrinks, HandledSame DEF Moves

LEMMA ReceiveStartPingCheckMoves ==
    ASSUME TypeOK, TypeOK', Accounts, NEW h \in Host, NEW i, NEW kept,
           NEW take \in SUBSET mAcks[h], NEW timedOut,
           ReceiveStartPingCheck(h, i, kept, take, timedOut)
    PROVE  Moves
<1> USE DEF Accounts
<1> DEFINE id     == NextPacketOutID(mPacketsOutID[h])
           reply  == Message("CompletePingCheck", id, take)
           before == [net EXCEPT ![h] = AfterArrival(h, i, kept)]
<1>1. /\ Arrival(h, i, kept) /\ BeforeWrap(h, 1)
      /\ AckReliablePackets(h, net[h][i].acks)
      /\ mPacketsOutID' = [mPacketsOutID EXCEPT ![h] = id]
      /\ mAcks' = [mAcks EXCEPT ![h] = @ \ take]
      /\ net' = [net EXCEPT ![h] = AfterArrival(h, i, kept),
                            ![Peer(h)] = Transmit(@, <<reply>>)]
      /\ UNCHANGED <<mCircuitData, mSendAckMap, handled>>
    BY DEF ReceiveStartPingCheck
<1>2. id = mPacketsOutID[h] + 1 /\ mPacketsOutID[h] \in Nat
    BY <1>1, NextIDFacts
<1>3. IdsGrow
    <2>1. id \in Nat /\ mPacketsOutID[h] <= id
        BY <1>2
    <2> HIDE DEF id
    <2>2. QED BY <1>1, <2>1, IdsGrowAt
<1>4. BooksKept' /\ CallbacksAppended
    BY <1>1, <1>3, AckBooks
<1>5. UnackedVisited' /\ mUnackedCircuitMap' \subseteq mUnackedCircuitMap
    BY <1>1, <1>4, AckVisited
<1>6. AcksVisited' /\ VisitedOpen'
    <2>1. \A g \in Host : mAcks'[g] \subseteq mAcks[g]
        BY <1>1 DEF TypeOK
    <2>2. AcksVisited'
        BY <1>1, <2>1, FewerAcksVisited
    <2>3. QED BY <1>1, <1>5, <2>2 DEF VisitedOpen
<1>7. Registered'
    <2>1. id \in PacketID /\ take \in SUBSET PacketID
        BY NextIDType DEF TypeOK
    <2>2. AfterArrival(h, i, kept) \in Seq(Packet)
          /\ SetOf(AfterArrival(h, i, kept)) \subseteq SetOf(net[h])
        BY <1>1, ArrivalType
    <2>3. before \in [Host -> Seq(Packet)]
          /\ \A g \in Host : SetOf(before[g]) \subseteq SetOf(net[g])
        BY <2>2 DEF TypeOK
    <2>4. net' = [before EXCEPT ![Peer(h)] = Transmit(@, <<reply>>)]
        <3>1. before[Peer(h)] = net[Peer(h)]
            BY PeerType DEF TypeOK
        <3>2. QED BY <1>1, <3>1
    <2> HIDE DEF id, before
    <2>5. <<reply>> \in Seq(Sendable(h))
        <3>1. reply \in Packet
            BY <2>1, MessageType DEF Kind
        <3>2. reply \in Sendable(h)
            BY <3>1 DEF Sendable, Message
        <3> HIDE DEF reply
        <3>3. QED BY <3>2
    <2> HIDE DEF reply
    <2>6. QED BY <1>4, <2>3, <2>4, <2>5, RegisteredSent
<1>8. QED BY <1>1, <1>4, <1>5, <1>6, <1>7, HandledSame DEF Moves

LEMMA StutterMoves ==
    ASSUME TypeOK, TypeOK', Accounts, UNCHANGED vars
    PROVE  Moves
<1> USE DEF Accounts
<1>1. /\ UNCHANGED <<mCircuitData, mPacketsOutID, circuitVars, mAcks, mSendAckMap, handled>>
      /\ net' = net
    BY DEF vars, receiveVars
<1>2. BooksKept' /\ CallbacksAppended
    BY <1>1, IdsStay, SameBooks
<1>3. UnackedVisited' /\ AcksVisited' /\ VisitedOpen'
    BY <1>1, SameVisited DEF AcksVisited, VisitedOpen, circuitVars
<1>4. QED BY <1>1, <1>2, <1>3, RegisteredShrinks, HandledSame DEF Moves

LEMMA NextMoves == TypeOK /\ TypeOK' /\ Accounts /\ [Next]_vars => Moves
<1> SUFFICES ASSUME TypeOK, TypeOK', Accounts, [Next]_vars PROVE Moves
    OBVIOUS
<1>1. CASE UNCHANGED vars
    BY <1>1, StutterMoves
<1>2. ASSUME NEW h \in Host, Send(h)
      PROVE  Moves
    BY <1>2, SendReliableMoves, SendUnreliableMoves DEF Send
<1>3. ASSUME NEW h \in Host, RemoveCircuit(h)
      PROVE  Moves
    BY <1>3, RemoveCircuitMoves
<1>4. ASSUME NEW h \in Host, Frame(h)
      PROVE  Moves
    <2>1. PICK n \in 0 .. Cardinality(DOMAIN mUnackedPackets[h]) :
            \E pinged \in BOOLEAN, take \in SUBSET mAcks[h],
               expired \in SUBSET DOMAIN mFinalRetryPackets[h],
               resends \in [1 .. n -> DOMAIN mUnackedPackets[h]],
               dropped \in SUBSET DOMAIN mUnackedPackets[h] :
                    ProcessAcks(h, pinged, take, resends, dropped, expired)
        BY <1>4 DEF Frame
    <2>2. n \in Nat
        OBVIOUS
    <2>3. QED BY <2>1, <2>2, ProcessAcksMoves
<1>5. ASSUME NEW h \in Host, Receive(h)
      PROVE  Moves
    BY <1>5, ReceiveOffCircuitMoves, ReceiveDuplicateResendMoves, ReceiveDataMoves,
       ReceiveClosingDataMoves, ReceiveReplyMoves, ReceiveStartPingCheckMoves DEF Receive
<1>6. ASSUME NEW h \in Host, NEW i \in DOMAIN net[h], Lose(h, i)
      PROVE  Moves
    BY <1>6, LoseMoves
<1>7. QED BY <1>1, <1>2, <1>3, <1>4, <1>5, <1>6 DEF Next

THEOREM AccountsKept == Spec => [](TypeOK /\ Accounts)
<1>1. Init => TypeOK /\ Accounts
    BY InitType, InitAccounts
<1>2. TypeOK /\ Accounts /\ [Next]_vars => TypeOK' /\ Accounts'
    BY NextType, NextMoves DEF Moves
<1>3. QED BY <1>1, <1>2, PTL DEF Spec

\* The lists of pending packets and their count agree, for any number of
\* messages, any retries and any network.
THEOREM Accounting == Spec => []UnackedAccounting
<1>1. TypeOK /\ Accounts => UnackedAccounting
    BY DEF Accounts, BooksKept, BooksOf, Books, UnackedAccounting, Pending
<1>2. QED BY <1>1, AccountsKept, PTL

\* No circuit that has something to resend or to ack is left out of the maps.
THEOREM NoneStranded == Spec => []NothingStranded
<1>1. TypeOK /\ Accounts => NothingStranded
    BY StrandedParts DEF Accounts
<1>2. QED BY <1>1, AccountsKept, PTL

\* The callback of a message has run exactly once when its packet left the
\* lists, and not before.
THEOREM OneAnswer == Spec => []AnsweredOnce
<1>1. TypeOK /\ Accounts => AnsweredOnce
    <2>1. SUFFICES ASSUME TypeOK, Accounts, NEW h \in Host, NEW i \in DOMAIN callbacks[h]
                   PROVE  Len(callbacks[h][i]) = IF i \in Pending(h) THEN 0 ELSE 1
        BY DEF AnsweredOnce
    <2>2. /\ i \in Pending(h) => callbacks[h][i] = <<>>
          /\ i \notin Pending(h) => \E r \in Result : callbacks[h][i] = <<r>>
        BY <2>1 DEF Accounts, BooksKept, BooksOf, Books, Pending
    <2>3. QED BY <2>2
<1>2. QED BY <1>1, AccountsKept, PTL
-----------------------------------------------------------------------------
(* The refinement *)

\* A callback has yet to run, or was given its answer.
OneEach(calls) == \A i \in DOMAIN calls : calls[i] = <<>> \/ \E r \in Result : calls[i] = <<r>>

LEMMA BooksOneEach ==
    ASSUME BooksKept, NEW h \in Host
    PROVE  OneEach(callbacks[h])
BY DEF BooksKept, BooksOf, Books, OneEach

LEMMA StatusFacts ==
    ASSUME NEW calls, OneEach(calls), NEW i
    PROVE  /\ i \notin DOMAIN calls => StatusOf(calls, i) = "unsent"
           /\ i \in DOMAIN calls /\ calls[i] = <<>> => StatusOf(calls, i) = "pending"
           /\ \A r \in Result : i \in DOMAIN calls /\ calls[i] = <<r>> => StatusOf(calls, i) = r
           /\ StatusOf(calls, i) \in {"unsent", "pending"} \cup Result
           /\ StatusOf(calls, i) = "unsent" => i \notin DOMAIN calls
<1>1. \A r \in Result : <<r>> # <<>> /\ Len(<<r>>) = 1 /\ <<r>>[1] = r
    OBVIOUS
<1>2. "unsent" \notin Result
    BY DEF Result
<1>3. CASE i \notin DOMAIN calls
    BY <1>3 DEF StatusOf
<1>4. CASE i \in DOMAIN calls /\ calls[i] = <<>>
    BY <1>1, <1>4 DEF StatusOf
<1>5. CASE i \in DOMAIN calls /\ calls[i] # <<>>
    <2>1. PICK r \in Result : calls[i] = <<r>>
        BY <1>5 DEF OneEach
    <2>2. StatusOf(calls, i) = r
        BY <1>1, <1>5, <2>1 DEF StatusOf
    <2>3. \A q \in Result : calls[i] = <<q>> => q = r
        BY <2>1
    <2>4. QED BY <1>2, <1>5, <2>2, <2>3
<1>6. QED BY <1>3, <1>4, <1>5

\* The three ways of a message.
LEMMA StatusMoves ==
    ASSUME NEW calls, NEW calls1, OneEach(calls), OneEach(calls1), Appended(calls, calls1),
           NEW i
    PROVE  \/ StatusOf(calls1, i) = StatusOf(calls, i)
           \/ StatusOf(calls, i) = "unsent" /\ StatusOf(calls1, i) = "pending"
           \/ /\ StatusOf(calls, i) = "pending" /\ StatusOf(calls1, i) \in Result
              /\ i \in DOMAIN calls1 /\ calls1[i] = <<StatusOf(calls1, i)>>
<1>1. CASE i \notin DOMAIN calls
    <2>1. CASE i \notin DOMAIN calls1
        BY <1>1, <2>1 DEF StatusOf
    <2>2. CASE i \in DOMAIN calls1
        BY <1>1, <2>2, StatusFacts DEF Appended
    <2>3. QED BY <2>1, <2>2
<1>2. CASE i \in DOMAIN calls /\ calls1[i] = calls[i]
    BY <1>2 DEF StatusOf, Appended
<1>3. CASE i \in DOMAIN calls /\ calls1[i] # calls[i]
    <2>1. i \in DOMAIN calls1
        BY <1>3 DEF Appended
    <2>2. PICK r \in Result : calls1[i] = Append(calls[i], r)
        BY <1>3 DEF Appended
    <2>3. calls[i] = <<>>
        <3>1. SUFFICES ASSUME NEW q \in Result, calls[i] = <<q>>
                       PROVE  FALSE
            BY <1>3 DEF OneEach
        <3>2. Len(calls1[i]) = 2
            BY <2>2, <3>1
        <3>3. calls1[i] = <<>> \/ \E s \in Result : calls1[i] = <<s>>
            BY <2>1 DEF OneEach
        <3>4. Len(<<>>) = 0 /\ \A s \in Result : Len(<<s>>) = 1
            OBVIOUS
        <3>5. QED BY <3>2, <3>3, <3>4
    <2>4. Append(<<>>, r) = <<r>>
        OBVIOUS
    <2>5. calls1[i] = <<r>>
        BY <2>2, <2>3, <2>4
    <2>6. StatusOf(calls, i) = "pending" /\ StatusOf(calls1, i) = r
        BY <1>3, <2>1, <2>3, <2>5, StatusFacts
    <2>7. QED BY <2>1, <2>5, <2>6
<1>4. QED BY <1>1, <1>2, <1>3

LEMMA StepDelivers ==
    ASSUME TypeOK, TypeOK', BooksKept, BooksKept', CallbacksAppended, HandledMoves,
           AckedWasHandled'
    PROVE  Delivery!Next
<1> DEFINE Messages == Host \X PacketID
<1>1. ASSUME NEW h \in Host
      PROVE  OneEach(callbacks[h]) /\ OneEach(callbacks'[h])
    BY DEF BooksKept, BooksOf, Books, OneEach
<1>2. StatusSeen' = [m \in Messages |-> StatusOf(callbacks'[m[1]], m[2])]
      /\ StatusSeen = [m \in Messages |-> StatusOf(callbacks[m[1]], m[2])]
    BY DEF StatusSeen
<1>3. {"unsent", "pending"} \cup Result = Delivery!Status
    BY DEF Delivery!Status, Delivery!Failure, Result
<1>4. StatusSeen' \in [Messages -> Delivery!Status]
    <2>1. ASSUME NEW m \in Messages
          PROVE  StatusOf(callbacks'[m[1]], m[2]) \in Delivery!Status
        <3>1. m[1] \in Host
            OBVIOUS
        <3>2. OneEach(callbacks'[m[1]])
            BY <1>1, <3>1
        <3>3. QED BY <1>3, <3>2, StatusFacts
    <2>2. QED BY <1>2, <2>1
<1>5. ASSUME NEW m \in Messages
      PROVE  \/ StatusSeen'[m] = StatusSeen[m]
             \/ Delivery!Sent(m) \/ Delivery!Succeeded(m) \/ Delivery!Failed(m)
    <2> DEFINE h == m[1]
               i == m[2]
    <2>1. h \in Host /\ i \in PacketID
        OBVIOUS
    <2>2. /\ StatusSeen[m] = StatusOf(callbacks[h], i)
          /\ StatusSeen'[m] = StatusOf(callbacks'[h], i)
        BY <1>2
    <2>3. OneEach(callbacks[h]) /\ OneEach(callbacks'[h]) /\ Appended(callbacks[h], callbacks'[h])
        BY <1>1, <2>1 DEF CallbacksAppended
    <2> DEFINE before == StatusOf(callbacks[h], i)
               after  == StatusOf(callbacks'[h], i)
    <2>4. \/ after = before
          \/ before = "unsent" /\ after = "pending"
          \/ /\ before = "pending" /\ after \in Result
             /\ i \in DOMAIN callbacks'[h] /\ callbacks'[h][i] = <<after>>
        BY <2>3, StatusMoves
    <2>5. CASE after = before
        BY <2>2, <2>5
    <2>6. CASE before = "unsent" /\ after = "pending"
        BY <2>2, <2>6 DEF Delivery!Sent
    <2>7. CASE /\ before = "pending" /\ after \in Result
               /\ i \in DOMAIN callbacks'[h] /\ callbacks'[h][i] = <<after>>
        <3>1. CASE after # "LL_ERR_NOERR"
            <4>1. after \in Delivery!Failure
                BY <2>7, <3>1 DEF Result, Delivery!Failure
            <4>2. QED BY <2>2, <2>7, <4>1 DEF Delivery!Failed
        <3>2. CASE after = "LL_ERR_NOERR"
            <4>1. handled'[h][i] > 0
                BY <2>1, <2>7, <3>2 DEF AckedWasHandled
            <4>2. callbacks'[h] # callbacks[h]
                <5>1. after # before
                    BY <2>7, <3>2
                <5>2. QED BY <5>1
            <4>3. handled[h][i] > 0
                BY <2>1, <4>1, <4>2 DEF HandledMoves
            <4>4. m \in HandledSeen
                BY <4>3 DEF HandledSeen
            <4>5. QED BY <2>2, <2>7, <3>2, <4>4 DEF Delivery!Succeeded
        <3>3. QED BY <3>1, <3>2
    <2>8. QED BY <2>4, <2>5, <2>6, <2>7
<1>6. HandledSeen \subseteq HandledSeen'
    BY DEF HandledSeen, HandledMoves, HandledStays
<1>7. ASSUME NEW m \in HandledSeen' \ HandledSeen
      PROVE  m \in Messages /\ StatusSeen[m] # "unsent"
    <2>1. m \in Messages /\ handled'[m[1]][m[2]] > 0 /\ ~(handled[m[1]][m[2]] > 0)
        BY DEF HandledSeen
    <2>2. m[1] \in Host /\ m[2] \in PacketID
        BY <2>1
    <2>3. m[2] \in DOMAIN callbacks[m[1]]
        BY <2>1, <2>2 DEF HandledMoves
    <2>4. OneEach(callbacks[m[1]])
        BY <1>1, <2>2
    <2>5. StatusOf(callbacks[m[1]], m[2]) # "unsent"
        BY <2>3, <2>4, StatusFacts
    <2>6. QED BY <1>2, <2>1, <2>5
<1>8. QED BY <1>4, <1>5, <1>6, <1>7 DEF Delivery!Next

LEMMA InitDelivers == Init => Delivery!Init
<1> SUFFICES ASSUME Init PROVE Delivery!Init
    OBVIOUS
<1>1. \A h \in Host : DOMAIN callbacks[h] = {}
    BY DEF Init, NoPackets
<1>2. StatusSeen = [m \in Host \X PacketID |-> "unsent"]
    BY <1>1 DEF StatusSeen, StatusOf
<1>3. HandledSeen = {}
    BY DEF Init, HandledSeen
<1>4. QED BY <1>2, <1>3 DEF Delivery!Init

\* Circuit implements ReliableDelivery: every message is pending until its
\* callback runs, which it does at most once, with success only for a message
\* that the peer has handled.
THEOREM Delivers == Spec => ImplementsDelivery
<1>1. Init => TypeOK /\ Accounts /\ AcksFollowHandling /\ Delivery!Init
    BY InitType, InitAccounts, InitEvidence, InitDelivers
<1>2. TypeOK /\ Accounts /\ AcksFollowHandling /\ [Next]_vars
        => TypeOK' /\ Accounts' /\ AcksFollowHandling' /\ [Delivery!Next]_(Delivery!vars)
    <2>1. SUFFICES ASSUME TypeOK, Accounts, AcksFollowHandling, [Next]_vars
                   PROVE  /\ TypeOK' /\ Accounts' /\ AcksFollowHandling' /\ Delivery!Next
        OBVIOUS
    <2>2. TypeOK' /\ AcksFollowHandling'
        BY <2>1, NextType, NextEvidence
    <2>3. Accounts' /\ CallbacksAppended /\ HandledMoves
        BY <2>1, <2>2, NextMoves DEF Moves
    <2>4. AckedWasHandled'
        BY <2>2 DEF AcksFollowHandling, AckedWasHandled
    <2>5. BooksKept /\ BooksKept'
        BY <2>1, <2>3 DEF Accounts
    <2>6. Delivery!Next
        BY <2>1, <2>2, <2>3, <2>4, <2>5, StepDelivers
    <2>7. QED BY <2>2, <2>3, <2>6
<1>3. QED BY <1>1, <1>2, PTL DEF Spec, ImplementsDelivery, Delivery!Spec

-----------------------------------------------------------------------------
(* Packets in order *)

\* A reliable packet of this id is on its way.
Travels(q, i) == \E k \in DOMAIN q : q[k].reliable /\ q[k].id = i

\* The packet at position k was sent by a host whose last id is `out', which
\* waits for `pending' and whose messages were handled `times': its first copy
\* comes before the others, and was not handled yet; a ping reports an id
\* that bounds what was pending then and all that was sent since.
PacketInOrder(q, k, out, pending, times) ==
    /\ q[k].id <= out
    /\ q[k].reliable => q[k].kind = "Data"
    /\ q[k].reliable /\ ~q[k].resent =>
        /\ times[q[k].id] = 0
        /\ \A j \in DOMAIN q : j < k /\ q[j].reliable => q[j].id # q[k].id
    /\ q[k].kind = "StartPingCheck" =>
        /\ q[k].oldest <= out
        /\ \A i \in pending : q[k].oldest <= i
        /\ \A j \in DOMAIN q : k < j /\ q[j].reliable => q[k].oldest <= q[j].id

QueueInOrder(q, out, pending, times) ==
    /\ \A k \in DOMAIN q : PacketInOrder(q, k, out, pending, times)
    /\ \A i \in PacketID : out < i => times[i] = 0

\* Each message was handled at most once, and the ids a host remembers are not
\* above the highest one.
HandledOnce(out, times, recent, highest) ==
    /\ highest <= out
    /\ \A i \in recent : i <= highest
    /\ \A i \in PacketID : times[i] <= 1

\* A host remembers every message it handled of which another copy may come.
Remembers(q, pending, times, recent) ==
    \A i \in PacketID : times[i] > 0 => i \in recent \/ (i \notin pending /\ ~Travels(q, i))

\* q1 has some of the packets of q, in the same order.
Subqueue(q1, q) ==
    \E m \in [DOMAIN q1 -> DOMAIN q] :
        /\ \A k \in DOMAIN q1 : q1[k] = q[m[k]]
        /\ \A j, k \in DOMAIN q1 : j < k => m[j] < m[k]

LEMMA RemoveSubqueue ==
    ASSUME NEW q \in Seq(Packet), NEW i \in DOMAIN q
    PROVE  Subqueue(Remove(q, i), q)
<1> DEFINE m == [j \in 1 .. Len(q) - 1 |-> IF j < i THEN j ELSE j + 1]
<1>1. Len(q) \in Nat /\ DOMAIN q = 1 .. Len(q) /\ DOMAIN Remove(q, i) = 1 .. Len(q) - 1
    BY DEF Remove
<1>2. m \in [1 .. Len(q) - 1 -> DOMAIN q]
    BY <1>1
<1>3. \A k \in 1 .. Len(q) - 1 : Remove(q, i)[k] = q[m[k]]
    BY <1>1 DEF Remove
<1>4. \A j, k \in 1 .. Len(q) - 1 : j < k => m[j] < m[k]
    BY <1>1
<1> HIDE DEF m
<1>5. QED BY <1>1, <1>2, <1>3, <1>4 DEF Subqueue

LEMMA SameSubqueue ==
    ASSUME NEW q \in Seq(Packet)
    PROVE  Subqueue(q, q)
<1> DEFINE m == [j \in DOMAIN q |-> j]
<1>1. m \in [DOMAIN q -> DOMAIN q]
    OBVIOUS
<1>2. (\A k \in DOMAIN q : q[k] = q[m[k]]) /\ \A j, k \in DOMAIN q : j < k => m[j] < m[k]
    OBVIOUS
<1> HIDE DEF m
<1>3. QED BY <1>1, <1>2 DEF Subqueue

LEMMA TransmitSubqueue ==
    ASSUME NEW q \in Seq(Packet), NEW packets \in Seq(Packet)
    PROVE  Subqueue(Transmit(q, packets), q \o packets)
<1> DEFINE all == q \o packets
           n == IF Len(all) < MaxInFlight THEN Len(all) ELSE MaxInFlight
           m == [j \in 1 .. n |-> j]
<1>1. all \in Seq(Packet) /\ n \in Nat /\ n <= Len(all)
    BY CircuitAssumption
<1>2. Transmit(q, packets) = SubSeq(all, 1, n)
    BY DEF Transmit
<1> HIDE DEF all, n
<1>3. DOMAIN SubSeq(all, 1, n) = 1 .. n /\ \A k \in 1 .. n : SubSeq(all, 1, n)[k] = all[k]
    BY <1>1
<1>4. m \in [1 .. n -> DOMAIN all]
    BY <1>1
<1>5. (\A k \in 1 .. n : SubSeq(all, 1, n)[k] = all[m[k]])
      /\ \A j, k \in 1 .. n : j < k => m[j] < m[k]
    BY <1>3
<1> HIDE DEF m
<1>6. Subqueue(SubSeq(all, 1, n), all)
    BY <1>3, <1>4, <1>5 DEF Subqueue
<1>7. QED BY <1>2, <1>6 DEF all

\* Packets may be lost.
LEMMA SubqueueInOrder ==
    ASSUME NEW q \in Seq(Packet), NEW q1 \in Seq(Packet), Subqueue(q1, q),
           NEW out, NEW pending, NEW times, QueueInOrder(q, out, pending, times)
    PROVE  /\ QueueInOrder(q1, out, pending, times)
           /\ \A i : Travels(q1, i) => Travels(q, i)
<1>1. PICK m \in [DOMAIN q1 -> DOMAIN q] :
        /\ \A k \in DOMAIN q1 : q1[k] = q[m[k]]
        /\ \A j, k \in DOMAIN q1 : j < k => m[j] < m[k]
    BY DEF Subqueue
<1>2. ASSUME NEW k \in DOMAIN q1
      PROVE  PacketInOrder(q1, k, out, pending, times)
    <2>1. PacketInOrder(q, m[k], out, pending, times)
        BY DEF QueueInOrder
    <2>2. \A j \in DOMAIN q1 : m[j] \in DOMAIN q /\ q1[j] = q[m[j]]
        BY <1>1
    <2>3. \A j \in DOMAIN q1 : (j < k => m[j] < m[k]) /\ (k < j => m[k] < m[j])
        BY <1>1
    <2>4. QED BY <2>1, <2>2, <2>3 DEF PacketInOrder
<1>3. QED BY <1>1, <1>2 DEF QueueInOrder, Travels

\* What the sender may add: either one packet with a new id, or a ping and
\* copies of what is pending.
SentInOrder(packets, out, pending, out1, pending1) ==
    \A k \in DOMAIN packets :
        /\ packets[k].id <= out1
        /\ packets[k].reliable => packets[k].kind = "Data"
        /\ packets[k].reliable /\ ~packets[k].resent => packets[k].id > out /\ Len(packets) = 1
        /\ packets[k].reliable /\ packets[k].resent => packets[k].id \in pending
        /\ packets[k].kind = "StartPingCheck" =>
            /\ packets[k].oldest <= out1
            /\ \A i \in pending1 : packets[k].oldest <= i
            /\ \A j \in DOMAIN packets :
                    packets[j].reliable => packets[k].oldest <= packets[j].id

\* The sender sends, and is told of acks.
LEMMA AppendedInOrder ==
    ASSUME NEW q \in Seq(Packet), NEW packets \in Seq(Packet), NEW out \in Nat, NEW out1 \in Nat,
           out <= out1, NEW pending \in SUBSET PacketID, NEW pending1 \in SUBSET PacketID,
           \A i \in pending1 : i \in pending \/ i > out,
           NEW times \in [PacketID -> 0 .. 2], QueueInOrder(q, out, pending, times),
           SentInOrder(packets, out, pending, out1, pending1)
    PROVE  /\ QueueInOrder(q \o packets, out1, pending1, times)
           /\ \A i : Travels(q \o packets, i) => Travels(q, i) \/ i \in pending \/ i > out
<1> DEFINE all == q \o packets
           n == Len(q)
<1>1. PacketID \subseteq Nat
    BY ModulusAssumption DEF PacketID
<1>2. /\ n \in Nat /\ Len(packets) \in Nat
      /\ DOMAIN q = 1 .. n /\ DOMAIN packets = 1 .. Len(packets)
      /\ DOMAIN all = 1 .. n + Len(packets)
      /\ \A k \in 1 .. n : all[k] = q[k]
      /\ \A k \in DOMAIN all : k > n => k - n \in DOMAIN packets /\ all[k] = packets[k - n]
    OBVIOUS
<1>3. /\ \A k \in DOMAIN q : q[k].id \in PacketID /\ q[k].oldest \in PacketID
      /\ \A k \in DOMAIN packets : packets[k].id \in PacketID /\ packets[k].oldest \in PacketID
    <2>1. (\A k \in DOMAIN q : q[k] \in Packet) /\ \A k \in DOMAIN packets : packets[k] \in Packet
        OBVIOUS
    <2>2. QED BY <2>1 DEF Packet
<1> HIDE DEF all, n
<1>4. ASSUME NEW j \in DOMAIN all, j > n, all[j].reliable
      PROVE  all[j].id \in pending \/ all[j].id > out
    BY <1>2, <1>4 DEF SentInOrder
<1>5. ASSUME NEW k \in DOMAIN all, k <= n
      PROVE  PacketInOrder(all, k, out1, pending1, times)
    <2>1. k \in DOMAIN q /\ all[k] = q[k] /\ PacketInOrder(q, k, out, pending, times)
        BY <1>2, <1>5 DEF QueueInOrder
    <2>2. all[k].id <= out1
        <3>1. q[k].id <= out /\ q[k].id \in Nat
            BY <1>1, <1>3, <2>1 DEF PacketInOrder
        <3>2. QED BY <2>1, <3>1
    <2>3. ASSUME all[k].reliable, ~all[k].resent
          PROVE  /\ times[all[k].id] = 0
                 /\ \A j \in DOMAIN all : j < k /\ all[j].reliable => all[j].id # all[k].id
        BY <1>2, <2>1, <2>3 DEF PacketInOrder
    <2>4. ASSUME all[k].kind = "StartPingCheck"
          PROVE  /\ all[k].oldest <= out1
                 /\ \A i \in pending1 : all[k].oldest <= i
                 /\ \A j \in DOMAIN all : k < j /\ all[j].reliable => all[k].oldest <= all[j].id
        <3>1. all[k].oldest <= out /\ all[k].oldest \in Nat /\ \A i \in pending : all[k].oldest <= i
            BY <1>1, <1>3, <2>1, <2>4 DEF PacketInOrder
        <3>2. \A i \in Nat : i > out => all[k].oldest <= i
            BY <3>1
        <3>3. \A i \in pending1 : all[k].oldest <= i
            BY <1>1, <3>1, <3>2
        <3>4. ASSUME NEW j \in DOMAIN all, k < j, all[j].reliable
              PROVE  all[k].oldest <= all[j].id
            <4>1. CASE j <= n
                BY <1>2, <2>1, <2>4, <3>4, <4>1 DEF PacketInOrder
            <4>2. CASE j > n
                <5>1. all[j].id \in Nat
                    BY <1>1, <1>2, <1>3, <4>2
                <5>2. all[j].id \in pending \/ all[j].id > out
                    BY <1>4, <3>4, <4>2
                <5>3. QED BY <3>1, <3>2, <5>1, <5>2
            <4>3. QED BY <1>2, <4>1, <4>2
        <3>5. QED BY <3>1, <3>3, <3>4
    <2>5. all[k].reliable => all[k].kind = "Data"
        BY <2>1 DEF PacketInOrder
    <2>6. QED BY <2>2, <2>3, <2>4, <2>5 DEF PacketInOrder
<1>6. ASSUME NEW k \in DOMAIN all, k > n
      PROVE  PacketInOrder(all, k, out1, pending1, times)
    <2> DEFINE p == packets[k - n]
    <2>1. /\ k - n \in DOMAIN packets /\ all[k] = p /\ p.id <= out1 /\ p.id \in PacketID
          /\ p.reliable => p.kind = "Data"
          /\ p.reliable /\ ~p.resent => p.id > out /\ Len(packets) = 1
        BY <1>2, <1>3, <1>6 DEF SentInOrder
    <2>2. p.kind = "StartPingCheck" =>
            /\ p.oldest <= out1
            /\ \A i \in pending1 : p.oldest <= i
            /\ \A j \in DOMAIN packets : packets[j].reliable => p.oldest <= packets[j].id
        BY <2>1 DEF SentInOrder
    <2> HIDE DEF p
    <2>3. ASSUME p.reliable, ~p.resent
          PROVE  /\ times[p.id] = 0
                 /\ \A j \in DOMAIN all : j < k /\ all[j].reliable => all[j].id # p.id
        <3>1. p.id > out /\ times[p.id] = 0 /\ k = n + 1
            BY <1>2, <1>6, <2>1, <2>3 DEF QueueInOrder
        <3>2. ASSUME NEW j \in DOMAIN all, j < k
              PROVE  all[j].id # p.id
            <4>1. j \in DOMAIN q /\ all[j] = q[j]
                BY <1>2, <3>1, <3>2
            <4>2. all[j].id <= out /\ all[j].id \in Nat
                BY <1>1, <1>3, <4>1 DEF QueueInOrder, PacketInOrder
            <4>3. QED BY <1>1, <2>1, <3>1, <4>2
        <3>3. QED BY <3>1, <3>2
    <2>4. ASSUME p.kind = "StartPingCheck", NEW j \in DOMAIN all, k < j, all[j].reliable
          PROVE  p.oldest <= all[j].id
        <3>1. j > n /\ j - n \in DOMAIN packets /\ all[j] = packets[j - n]
            BY <1>2, <1>6, <2>4
        <3>2. QED BY <2>2, <2>4, <3>1
    <2>5. QED BY <2>1, <2>2, <2>3, <2>4 DEF PacketInOrder
<1>7. \A i \in PacketID : out1 < i => times[i] = 0
    <2>1. SUFFICES ASSUME NEW i \in PacketID, out1 < i
                   PROVE  times[i] = 0
        OBVIOUS
    <2>2. out < i
        BY <1>1, <2>1
    <2>3. QED BY <2>2 DEF QueueInOrder
<1>8. QueueInOrder(all, out1, pending1, times)
    <2>1. \A k \in DOMAIN all : k <= n \/ k > n
        BY <1>2
    <2>2. QED BY <1>5, <1>6, <1>7, <2>1 DEF QueueInOrder
<1>9. \A i : Travels(all, i) => Travels(q, i) \/ i \in pending \/ i > out
    <2>1. SUFFICES ASSUME NEW k \in DOMAIN all, all[k].reliable
                   PROVE  Travels(q, all[k].id) \/ all[k].id \in pending \/ all[k].id > out
        BY DEF Travels
    <2>2. CASE k > n
        BY <1>4, <2>1, <2>2
    <2>3. CASE k <= n
        BY <1>2, <2>1, <2>3 DEF Travels
    <2>4. QED BY <1>2, <2>2, <2>3
<1>10. QED BY <1>8, <1>9 DEF all

\* The first packet is handled.
LEMMA HandledInOrder ==
    ASSUME NEW q \in Seq(Packet), NEW out \in Nat, NEW pending, NEW times \in [PacketID -> 0 .. 2],
           QueueInOrder(q, out, pending, times), 1 \in DOMAIN q, q[1].reliable,
           NEW q1, QueueInOrder(q1, out, pending, times), NEW m \in [DOMAIN q1 -> DOMAIN q],
           \A k \in DOMAIN q1 : q1[k] = q[m[k]] /\ 1 < m[k]
    PROVE  QueueInOrder(q1, out, pending, [times EXCEPT ![q[1].id] = 1])
<1> DEFINE times1 == [times EXCEPT ![q[1].id] = 1]
<1>1. q[1].id \in PacketID /\ \A k \in DOMAIN q : q[k].id \in PacketID
    <2>1. \A k \in DOMAIN q : q[k] \in Packet
        OBVIOUS
    <2>2. QED BY <2>1 DEF Packet
<1>2. q[1].id <= out
    BY DEF QueueInOrder, PacketInOrder
<1>3. \A i \in PacketID : i # q[1].id => times1[i] = times[i]
    OBVIOUS
<1> HIDE DEF times1
<1>4. ASSUME NEW k \in DOMAIN q1, q1[k].reliable, ~q1[k].resent
      PROVE  times1[q1[k].id] = times[q1[k].id]
    <2>1. PacketInOrder(q, m[k], out, pending, times) /\ q1[k] = q[m[k]] /\ m[k] \in DOMAIN q
        BY DEF QueueInOrder
    <2>2. q[m[k]].id # q[1].id
        BY <1>4, <2>1 DEF PacketInOrder
    <2>3. QED BY <1>1, <1>3, <2>1, <2>2
<1>5. \A k \in DOMAIN q1 : PacketInOrder(q1, k, out, pending, times1)
    BY <1>4 DEF PacketInOrder, QueueInOrder
<1>6. \A i \in PacketID : out < i => times1[i] = 0
    <2>1. SUFFICES ASSUME NEW i \in PacketID, out < i
                   PROVE  times1[i] = 0
        OBVIOUS
    <2>2. i # q[1].id /\ times[i] = 0
        <3>1. PacketID \subseteq Nat
            BY ModulusAssumption DEF PacketID
        <3>2. i \in Nat /\ q[1].id \in Nat
            BY <1>1, <3>1
        <3>3. ~(out < q[1].id)
            BY <1>2, <3>2
        <3>4. QED BY <2>1, <3>3 DEF QueueInOrder
    <2>3. QED BY <1>3, <2>2
<1>7. QED BY <1>5, <1>6 DEF QueueInOrder, times1
-----------------------------------------------------------------------------
(* What the receiver knows *)

\* It forgets only ids of which no copy comes any more.
LEMMA RemembersStill ==
    ASSUME NEW q, NEW out \in Nat, NEW pending, NEW times \in [PacketID -> 0 .. 2],
           NEW recent, Remembers(q, pending, times, recent),
           \A i \in PacketID : out < i => times[i] = 0,
           NEW q1, NEW pending1, NEW recent1,
           \A i \in pending1 : i \in pending \/ i > out,
           \A i \in PacketID : Travels(q1, i) => Travels(q, i) \/ i \in pending \/ i > out,
           \A i \in recent \ recent1 : i \notin pending1 /\ ~Travels(q1, i)
    PROVE  Remembers(q1, pending1, times, recent1)
<1> SUFFICES ASSUME NEW i \in PacketID, times[i] > 0
             PROVE  i \in recent1 \/ (i \notin pending1 /\ ~Travels(q1, i))
    BY DEF Remembers
<1>1. ~(i > out)
    <2>1. i \in Nat /\ (out < i => times[i] = 0)
        BY ModulusAssumption DEF PacketID
    <2>2. QED BY <2>1
<1>2. i \in recent \/ (i \notin pending /\ ~Travels(q, i))
    BY DEF Remembers
<1>3. CASE i \in recent
    BY <1>3
<1>4. CASE i \notin pending /\ ~Travels(q, i)
    BY <1>1, <1>4
<1>5. QED BY <1>2, <1>3, <1>4

LEMMA StillOnce ==
    ASSUME NEW out, NEW times, NEW recent \in SUBSET PacketID, NEW highest \in Nat,
           HandledOnce(out, times, recent, highest),
           NEW out1, NEW recent1 \in SUBSET recent, NEW highest1 \in Nat,
           highest <= highest1, highest1 <= out1
    PROVE  HandledOnce(out1, times, recent1, highest1)
<1>1. \A i \in recent1 : i <= highest1
    <2>1. SUFFICES ASSUME NEW i \in recent1
                   PROVE  i <= highest1
        OBVIOUS
    <2>2. i \in Nat /\ i <= highest
        BY ModulusAssumption DEF HandledOnce, PacketID
    <2>3. QED BY <2>2
<1>2. QED BY <1>1 DEF HandledOnce

\* The first packet is handled, and noted unless the circuit ends with it.
LEMMA HandledNow ==
    ASSUME NEW out, NEW times \in [PacketID -> 0 .. 2],
           NEW recent \in SUBSET PacketID, NEW highest \in Nat,
           HandledOnce(out, times, recent, highest), NEW id \in PacketID,
           NEW recent1 \in SUBSET (recent \cup {id}),
           NEW highest1 \in Nat, highest <= highest1, highest1 <= out, id <= highest1
    PROVE  HandledOnce(out, [times EXCEPT ![id] = 1], recent1, highest1)
<1>1. \A i \in recent1 : i <= highest1
    <2>1. SUFFICES ASSUME NEW i \in recent1, i # id
                   PROVE  i <= highest1
        OBVIOUS
    <2>2. i \in Nat /\ i <= highest
        BY <2>1, ModulusAssumption DEF HandledOnce, PacketID
    <2>3. QED BY <2>2
<1>2. \A i \in PacketID : [times EXCEPT ![id] = 1][i] <= 1
    BY DEF HandledOnce
<1>3. QED BY <1>1, <1>2 DEF HandledOnce

LEMMA RemembersHandled ==
    ASSUME NEW q, NEW pending, NEW times \in [PacketID -> 0 .. 2], NEW recent,
           Remembers(q, pending, times, recent), NEW id \in PacketID, NEW q1,
           \A i : Travels(q1, i) => Travels(q, i)
    PROVE  Remembers(q1, pending, [times EXCEPT ![id] = 1], recent \cup {id})
<1>1. \A i \in PacketID : [times EXCEPT ![id] = 1][i] = IF i = id THEN 1 ELSE times[i]
    OBVIOUS
<1>2. QED BY <1>1 DEF Remembers

\* While less than half the ids were used nothing looks like a wrap.
LEMMA HighestInHalf ==
    ASSUME NEW out \in Nat, 2 * out <= LL_MAX_OUT_PACKET_ID, NEW highest \in Nat,
           NEW id \in Nat, highest <= out, id <= out
    PROVE  HighestPacketID(highest, id) = IF id > highest THEN id ELSE highest
BY ModulusAssumption DEF HighestPacketID

\* The id a ping reports is not above any id that may be resent.
LEMMA OldestBounds ==
    ASSUME NEW out \in PacketID, NEW unacked \in SUBSET PacketID, NEW final \in SUBSET PacketID,
           \A i \in unacked \cup final : i <= out
    PROVE  LET oldest == OldestUnacked(out, unacked, final)
           IN  oldest <= out /\ \A i \in unacked \cup final : oldest <= i
<1> DEFINE Older(ids) == {i \in ids : i > out}
           First(ids) == Lowest(IF Older(ids) = {} THEN ids ELSE Older(ids))
<1>1. PacketID \subseteq Nat
    BY ModulusAssumption DEF PacketID
<1>2. Older(unacked) = {} /\ Older(final) = {}
    <2>1. out \in Nat /\ \A i \in unacked \cup final : i \in Nat /\ i <= out
        BY <1>1
    <2>2. \A i \in unacked \cup final : ~(i > out)
        BY <2>1
    <2>3. QED BY <2>2
<1>3. First(unacked) = Lowest(unacked) /\ First(final) = Lowest(final)
    BY <1>2
<1>4. \A ids \in SUBSET Nat : ids # {} => Lowest(ids) \in ids /\ \A i \in ids : Lowest(ids) <= i
    BY LowestIsLeast
<1>5. CASE unacked = {} /\ final = {}
    <2>1. OldestUnacked(out, unacked, final) = out
        BY <1>2, <1>5 DEF OldestUnacked
    <2>2. QED BY <1>1, <1>5, <2>1
<1>6. CASE unacked # {} /\ final = {}
    <2>1. OldestUnacked(out, unacked, final) = Lowest(unacked)
        BY <1>2, <1>6 DEF OldestUnacked
    <2>2. unacked \in SUBSET Nat
        BY <1>1
    <2>3. Lowest(unacked) \in unacked /\ \A i \in unacked : Lowest(unacked) <= i
        BY <1>4, <1>6, <2>2
    <2>4. QED BY <1>6, <2>1, <2>3
<1>7. CASE unacked = {} /\ final # {}
    <2>1. OldestUnacked(out, unacked, final) = Lowest(final)
        BY <1>2, <1>7 DEF OldestUnacked
    <2>2. final \in SUBSET Nat
        BY <1>1
    <2>3. Lowest(final) \in final /\ \A i \in final : Lowest(final) <= i
        BY <1>4, <1>7, <2>2
    <2>4. QED BY <1>7, <2>1, <2>3
<1>8. CASE unacked # {} /\ final # {}
    <2> DEFINE both == {Lowest(unacked), Lowest(final)}
    <2>1. OldestUnacked(out, unacked, final) = Lowest(both)
        BY <1>2, <1>8 DEF OldestUnacked
    <2>2. /\ Lowest(unacked) \in unacked /\ \A i \in unacked : Lowest(unacked) <= i
          /\ Lowest(final) \in final /\ \A i \in final : Lowest(final) <= i
        BY <1>1, <1>4, <1>8
    <2>3. both \in SUBSET Nat /\ both # {}
        BY <1>1, <2>2
    <2>4. Lowest(both) \in both /\ \A i \in both : Lowest(both) <= i
        BY <1>4, <2>3
    <2>5. Lowest(both) <= Lowest(unacked) /\ Lowest(both) <= Lowest(final)
        BY <2>4
    <2> DEFINE a == Lowest(unacked)
               b == Lowest(final)
               c == Lowest(both)
    <2>6. a \in Nat /\ b \in Nat /\ c \in Nat /\ a <= out /\ (c = a \/ c = b) /\ b <= out
        BY <1>1, <2>2, <2>4
    <2>7. ASSUME NEW i \in unacked \cup final
          PROVE  c <= i
        <3>1. i \in Nat /\ (a <= i \/ b <= i)
            BY <1>1, <2>2
        <3> HIDE DEF a, b, c
        <3>2. c <= a /\ c <= b
            BY <2>5 DEF a, b, c
        <3>3. QED BY <2>6, <3>1, <3>2
    <2>8. QED BY <2>1, <2>6, <2>7
<1>9. QED BY <1>5, <1>6, <1>7, <1>8
-----------------------------------------------------------------------------
(* Steps, as seen by one receiver *)

\* Less than half of the ids of h were used.
FewIds(h) == 2 * mPacketsOutID[h] <= LL_MAX_OUT_PACKET_ID

OrderAt(h) ==
    /\ QueueInOrder(net[h], mPacketsOutID[Peer(h)], Pending(Peer(h)), handled[Peer(h)])
    /\ HandledOnce(mPacketsOutID[Peer(h)], handled[Peer(h)],
                   mRecentlyReceivedReliablePackets[h], mHighestPacketID[h])
    /\ h \in mCircuitData => Remembers(net[h], Pending(Peer(h)), handled[Peer(h)],
                                       mRecentlyReceivedReliablePackets[h])

OnceInOrder ==
    \A h \in Host \ (Reorder \cup Duplicate) : FewIds(Peer(h)) => OrderAt(h)

LEMMA OrderTypes ==
    ASSUME TypeOK, NEW h \in Host
    PROVE  /\ net[h] \in Seq(Packet) /\ mPacketsOutID[Peer(h)] \in Nat
           /\ mPacketsOutID[h] \in Nat
           /\ Pending(Peer(h)) \in SUBSET PacketID
           /\ handled[Peer(h)] \in [PacketID -> 0 .. 2]
           /\ mRecentlyReceivedReliablePackets[h] \in SUBSET PacketID
           /\ mHighestPacketID[h] \in Nat
<1>1. Peer(h) \in Host /\ PacketID \subseteq Nat
    BY PeerType, ModulusAssumption DEF PacketID
<1>2. mPacketsOutID[Peer(h)] \in PacketID /\ mPacketsOutID[h] \in PacketID
      /\ mHighestPacketID[h] \in PacketID
    BY <1>1 DEF TypeOK
<1>3. Pending(Peer(h)) \in SUBSET PacketID
    BY <1>1, PendingFacts
<1>4. net[h] \in Seq(Packet) /\ handled[Peer(h)] \in [PacketID -> 0 .. 2]
      /\ mRecentlyReceivedReliablePackets[h] \in SUBSET PacketID
    BY <1>1 DEF TypeOK
<1>5. QED BY <1>1, <1>2, <1>3, <1>4

LEMMA OrderTypesNext ==
    ASSUME TypeOK', NEW h \in Host
    PROVE  /\ net'[h] \in Seq(Packet) /\ mPacketsOutID'[Peer(h)] \in Nat
           /\ Pending(Peer(h))' \in SUBSET PacketID
           /\ mHighestPacketID'[h] \in Nat
<1>1. Peer(h) \in Host /\ PacketID \subseteq Nat
    BY PeerType, ModulusAssumption DEF PacketID
<1>2. mPacketsOutID'[Peer(h)] \in PacketID /\ mHighestPacketID'[h] \in PacketID
      /\ net'[h] \in Seq(Packet)
    BY <1>1 DEF TypeOK
<1>3. Pending(Peer(h))' \in SUBSET PacketID
    BY <1>1 DEF TypeOK, PendingType, PartialFunction, Pending
<1>4. QED BY <1>1, <1>2, <1>3

\* The peer of h sends `packets' and is told of acks, packets to h are lost, and
\* h forgets ids that do not come again.
Forwards(h, packets) ==
    /\ handled'[Peer(h)] = handled[Peer(h)]
    /\ mRecentlyReceivedReliablePackets'[h] \subseteq mRecentlyReceivedReliablePackets[h]
    /\ mHighestPacketID[h] <= mHighestPacketID'[h]
    /\ mHighestPacketID'[h] <= mPacketsOutID'[Peer(h)]
    /\ mPacketsOutID[Peer(h)] <= mPacketsOutID'[Peer(h)]
    /\ \A i \in Pending(Peer(h))' : i \in Pending(Peer(h)) \/ i > mPacketsOutID[Peer(h)]
    /\ SentInOrder(packets, mPacketsOutID[Peer(h)], Pending(Peer(h)),
                   mPacketsOutID'[Peer(h)], Pending(Peer(h))')
    /\ Subqueue(net'[h], net[h] \o packets)
    /\ h \in mCircuitData' =>
        /\ h \in mCircuitData
        /\ \A i \in mRecentlyReceivedReliablePackets[h] \ mRecentlyReceivedReliablePackets'[h] :
                i \notin Pending(Peer(h))' /\ ~Travels(net'[h], i)

LEMMA OrderMoves ==
    ASSUME TypeOK, TypeOK', NEW h \in Host, OrderAt(h), NEW packets \in Seq(Packet),
           Forwards(h, packets)
    PROVE  OrderAt(h)'
<1> DEFINE out      == mPacketsOutID[Peer(h)]
           out1     == mPacketsOutID'[Peer(h)]
           pending  == Pending(Peer(h))
           pending1 == Pending(Peer(h))'
           times    == handled[Peer(h)]
           recent   == mRecentlyReceivedReliablePackets[h]
           recent1  == mRecentlyReceivedReliablePackets'[h]
           highest  == mHighestPacketID[h]
           highest1 == mHighestPacketID'[h]
           all      == net[h] \o packets
<1>1. /\ net[h] \in Seq(Packet) /\ out \in Nat /\ pending \in SUBSET PacketID
      /\ times \in [PacketID -> 0 .. 2] /\ recent \in SUBSET PacketID /\ highest \in Nat
    BY OrderTypes
<1>2. net'[h] \in Seq(Packet) /\ out1 \in Nat /\ highest1 \in Nat
      /\ pending1 \in SUBSET PacketID
    BY OrderTypesNext
<1>3. /\ QueueInOrder(net[h], out, pending, times)
      /\ HandledOnce(out, times, recent, highest)
      /\ h \in mCircuitData => Remembers(net[h], pending, times, recent)
    BY DEF OrderAt
<1>4. /\ recent1 \in SUBSET recent /\ highest <= highest1 /\ highest1 <= out1 /\ out <= out1
      /\ \A i \in pending1 : i \in pending \/ i > out
      /\ SentInOrder(packets, out, pending, out1, pending1)
      /\ Subqueue(net'[h], all)
      /\ h \in mCircuitData' => /\ h \in mCircuitData
                                /\ \A i \in recent \ recent1 : i \notin pending1 /\ ~Travels(net'[h], i)
    BY DEF Forwards
<1>5. handled'[Peer(h)] = times
    BY DEF Forwards
<1>6. all \in Seq(Packet)
    BY <1>1
<1>7. QED
    <2> SUFFICES /\ QueueInOrder(net'[h], out1, pending1, times)
                 /\ HandledOnce(out1, times, recent1, highest1)
                 /\ h \in mCircuitData' => Remembers(net'[h], pending1, times, recent1)
        BY <1>5 DEF OrderAt
    <2> HIDE DEF out, out1, pending, pending1, times, recent, recent1, highest, highest1
    <2>1. /\ QueueInOrder(all, out1, pending1, times)
          /\ \A i : Travels(all, i) => Travels(net[h], i) \/ i \in pending \/ i > out
        BY <1>1, <1>2, <1>3, <1>4, AppendedInOrder
    <2> HIDE DEF all
    <2>2. /\ QueueInOrder(net'[h], out1, pending1, times)
          /\ \A i : Travels(net'[h], i) => Travels(all, i)
        BY <1>2, <1>4, <1>6, <2>1, SubqueueInOrder
    <2>3. \A i \in PacketID : out < i => times[i] = 0
        BY <1>3 DEF QueueInOrder
    <2>4. \A i \in PacketID : Travels(net'[h], i) => Travels(net[h], i) \/ i \in pending \/ i > out
        BY <2>1, <2>2
    <2>5. HandledOnce(out1, times, recent1, highest1)
        BY <1>1, <1>2, <1>3, <1>4, StillOnce
    <2>6. ASSUME h \in mCircuitData'
          PROVE  Remembers(net'[h], pending1, times, recent1)
        <3>1. Remembers(net[h], pending, times, recent)
            BY <1>3, <1>4, <2>6
        <3>2. \A i \in recent \ recent1 : i \notin pending1 /\ ~Travels(net'[h], i)
            BY <1>4, <2>6
        <3>3. \A i \in pending1 : i \in pending \/ i > out
            BY <1>4
        <3>4. QED BY <1>1, <2>3, <2>4, <3>1, <3>2, <3>3, RemembersStill
    <2>7. QED BY <2>2, <2>5, <2>6

\* The same when nothing is sent to h.
LEMMA OrderStays ==
    ASSUME TypeOK, TypeOK', NEW h \in Host, OrderAt(h),
           handled'[Peer(h)] = handled[Peer(h)],
           mRecentlyReceivedReliablePackets'[h] \subseteq mRecentlyReceivedReliablePackets[h],
           \/ mHighestPacketID'[h] = mHighestPacketID[h]
           \/ /\ mHighestPacketID[h] <= mHighestPacketID'[h]
              /\ mHighestPacketID'[h] <= mPacketsOutID[Peer(h)],
           mPacketsOutID[Peer(h)] <= mPacketsOutID'[Peer(h)],
           \A i \in Pending(Peer(h))' : i \in Pending(Peer(h)) \/ i > mPacketsOutID[Peer(h)],
           Subqueue(net'[h], net[h]),
           h \in mCircuitData' =>
                /\ h \in mCircuitData
                /\ mRecentlyReceivedReliablePackets'[h] = mRecentlyReceivedReliablePackets[h]
    PROVE  OrderAt(h)'
<1>1. net[h] \in Seq(Packet) /\ mHighestPacketID[h] \in Nat /\ mPacketsOutID[Peer(h)] \in Nat
    BY OrderTypes
<1>2. mPacketsOutID'[Peer(h)] \in Nat /\ mHighestPacketID'[h] \in Nat
    BY OrderTypesNext
<1>3. net[h] \o <<>> = net[h] /\ <<>> \in Seq(Packet)
    BY <1>1
<1>4. mHighestPacketID[h] <= mPacketsOutID[Peer(h)]
    BY DEF OrderAt, HandledOnce
<1>5. SentInOrder(<<>>, mPacketsOutID[Peer(h)], Pending(Peer(h)),
                  mPacketsOutID'[Peer(h)], Pending(Peer(h))')
    BY DEF SentInOrder
<1>6. /\ mHighestPacketID[h] <= mHighestPacketID'[h]
      /\ mHighestPacketID'[h] <= mPacketsOutID'[Peer(h)]
    BY <1>1, <1>2, <1>4
<1>7. Subqueue(net'[h], net[h] \o <<>>)
    BY <1>3
<1>8. Forwards(h, <<>>)
    BY <1>5, <1>6, <1>7 DEF Forwards
<1>9. QED BY <1>3, <1>8, OrderMoves

LEMMA HostCases == \A g, h \in Host : h # g => h = Peer(g) /\ Peer(h) = g
BY CircuitAssumption DEF Host, Peer

\* Enough of the ids were left before the step, too.
LEMMA FewBefore ==
    ASSUME TypeOK, TypeOK', IdsGrow, OnceInOrder, NEW h \in Host \ (Reorder \cup Duplicate),
           FewIds(Peer(h))'
    PROVE  FewIds(Peer(h)) /\ OrderAt(h) /\ mPacketsOutID[Peer(h)] <= mPacketsOutID'[Peer(h)]
<1>1. mPacketsOutID[Peer(h)] \in Nat
    BY OrderTypes
<1>2. mPacketsOutID'[Peer(h)] \in Nat
    BY OrderTypesNext
<1>3. mPacketsOutID[Peer(h)] <= mPacketsOutID'[Peer(h)]
    BY PeerType DEF IdsGrow
<1>4. FewIds(Peer(h))
    BY <1>1, <1>2, <1>3, ModulusAssumption DEF FewIds
<1>5. QED BY <1>3, <1>4 DEF OnceInOrder

\* What a step may do to the packets that wait for acks.
PendingMoves ==
    \A h \in Host : \A i \in Pending(h)' : i \in Pending(h) \/ i > mPacketsOutID[h]

LEMMA AckPending ==
    ASSUME TypeOK, NEW h \in Host, NEW ids, AckReliablePackets(h, ids)
    PROVE  /\ PendingMoves
           /\ \A g \in Host \ {h} : Pending(g)' = Pending(g)
<1>1. /\ DOMAIN mUnackedPackets = Host /\ DOMAIN mFinalRetryPackets = Host
    BY DEF TypeOK, PendingType
<1>2. /\ mUnackedPackets' = [mUnackedPackets EXCEPT ![h] = Without(@, ids)]
      /\ mFinalRetryPackets' = [mFinalRetryPackets EXCEPT ![h] = Without(@, ids)]
    BY DEF AckReliablePackets
<1>3. \A g \in Host \ {h} : Pending(g)' = Pending(g)
    BY <1>1, <1>2 DEF Pending
<1>4. Pending(h)' \subseteq Pending(h)
    BY <1>1, <1>2 DEF Pending, Without
<1>5. QED BY <1>3, <1>4 DEF PendingMoves

LEMMA AbortPending ==
    ASSUME TypeOK, NEW h \in Host, NEW acked, AbortPackets(h, acked)
    PROVE  /\ PendingMoves
           /\ \A g \in Host \ {h} : Pending(g)' = Pending(g)
<1>1. /\ DOMAIN mUnackedPackets = Host /\ DOMAIN mFinalRetryPackets = Host
    BY DEF TypeOK, PendingType
<1>2. /\ mUnackedPackets' = [mUnackedPackets EXCEPT ![h] = NoPackets]
      /\ mFinalRetryPackets' = [mFinalRetryPackets EXCEPT ![h] = NoPackets]
    BY DEF AbortPackets
<1>3. \A g \in Host \ {h} : Pending(g)' = Pending(g)
    BY <1>1, <1>2 DEF Pending
<1>4. Pending(h)' \subseteq Pending(h)
    BY <1>1, <1>2 DEF Pending, NoPackets
<1>5. QED BY <1>3, <1>4 DEF PendingMoves

LEMMA SamePending ==
    ASSUME UNCHANGED circuitVars
    PROVE  PendingMoves /\ \A g \in Host : Pending(g)' = Pending(g)
BY DEF circuitVars, Pending, PendingMoves

\* One host sends.
LEMMA SenderOrder ==
    ASSUME TypeOK, TypeOK', OnceInOrder, IdsGrow, PendingMoves, NEW g \in Host,
           NEW packets \in Seq(Packet),
           SentInOrder(packets, mPacketsOutID[g], Pending(g), mPacketsOutID'[g], Pending(g)'),
           net' = [net EXCEPT ![Peer(g)] = Transmit(@, packets)],
           UNCHANGED <<mCircuitData, handled, mRecentlyReceivedReliablePackets,
                       mHighestPacketID>>
    PROVE  OnceInOrder'
<1> SUFFICES ASSUME NEW h \in Host \ (Reorder \cup Duplicate), FewIds(Peer(h))'
             PROVE  OrderAt(h)'
    BY DEF OnceInOrder
<1>1. OrderAt(h) /\ mPacketsOutID[Peer(h)] <= mPacketsOutID'[Peer(h)]
    BY FewBefore
<1>2. \A i \in Pending(Peer(h))' : i \in Pending(Peer(h)) \/ i > mPacketsOutID[Peer(h)]
    BY PeerType DEF PendingMoves
<1>3. net[h] \in Seq(Packet)
    BY OrderTypes
<1>4. CASE h = g
    <2>1. net'[h] = net[h]
        BY <1>4, PeerType DEF TypeOK
    <2>2. Subqueue(net'[h], net[h])
        BY <1>3, <2>1, SameSubqueue
    <2>3. QED BY <1>1, <1>2, <2>2, OrderStays
<1>5. CASE h # g
    <2>1. h = Peer(g) /\ Peer(h) = g
        BY <1>5, HostCases
    <2>2. net'[h] = Transmit(net[h], packets)
        BY <2>1 DEF TypeOK
    <2>3. Subqueue(net'[h], net[h] \o packets)
        BY <1>3, <2>2, TransmitSubqueue
    <2>4. SentInOrder(packets, mPacketsOutID[Peer(h)], Pending(Peer(h)),
                      mPacketsOutID'[Peer(h)], Pending(Peer(h))')
        BY <2>1
    <2>5. /\ mHighestPacketID[h] <= mHighestPacketID'[h]
          /\ mHighestPacketID'[h] <= mPacketsOutID'[Peer(h)]
        <3>1. mHighestPacketID[h] \in Nat /\ mPacketsOutID[Peer(h)] \in Nat
            BY OrderTypes
        <3>2. mPacketsOutID'[Peer(h)] \in Nat
            BY OrderTypesNext
        <3>3. mHighestPacketID[h] <= mPacketsOutID[Peer(h)] /\ mHighestPacketID' = mHighestPacketID
            BY <1>1 DEF OrderAt, HandledOnce
        <3>4. QED BY <1>1, <3>1, <3>2, <3>3
    <2>6. Forwards(h, packets)
        BY <1>1, <1>2, <2>3, <2>4, <2>5 DEF Forwards
    <2>7. QED BY <1>1, <2>6, OrderMoves
<1>6. QED BY <1>4, <1>5

LEMMA OneInOrder ==
    ASSUME NEW message \in Packet, NEW out, NEW pending, NEW out1, NEW pending1,
           message.id <= out1, message.reliable => message.kind = "Data" /\ message.id > out,
           ~message.resent, message.kind # "StartPingCheck"
    PROVE  <<message>> \in Seq(Packet)
           /\ SentInOrder(<<message>>, out, pending, out1, pending1)
<1>1. DOMAIN <<message>> = {1} /\ Len(<<message>>) = 1 /\ <<message>>[1] = message
    OBVIOUS
<1>2. QED BY <1>1 DEF SentInOrder

LEMMA SendReliableOrder ==
    ASSUME TypeOK, TypeOK', BooksKept, OnceInOrder, NEW h \in Host, NEW retries \in Retries,
           NEW closes \in Closing, NEW take \in SUBSET mAcks[h],
           SendReliable(h, retries, closes, take)
    PROVE  OnceInOrder'
<1> DEFINE id == NextPacketOutID(mPacketsOutID[h])
           message == [Message("Data", id, take) EXCEPT !.reliable = TRUE, !.closes = closes]
           packet == [mRetries |-> retries, closes |-> closes]
<1>1. /\ BeforeWrap(h, 1) /\ SendMessage(h, message)
      /\ UNCHANGED <<mCircuitData, handled, mRecentlyReceivedReliablePackets,
                     mHighestPacketID>>
      /\ mUnackedPackets' = IF retries = 0 THEN mUnackedPackets
                ELSE [mUnackedPackets EXCEPT ![h] = With(@, id, packet)]
      /\ mFinalRetryPackets' = IF retries # 0 THEN mFinalRetryPackets
                ELSE [mFinalRetryPackets EXCEPT ![h] = With(@, id, packet)]
    BY DEF SendReliable, AddReliablePacket
<1>2. IdsGrow
    BY AddBooks
<1>3. id = mPacketsOutID[h] + 1 /\ mPacketsOutID[h] \in Nat /\ id \in PacketID
    BY <1>1, NextIDFacts, NextIDType DEF TypeOK
<1>4. /\ message \in Packet /\ message.id = id /\ message.kind = "Data" /\ ~message.resent
      /\ message.reliable
    <2>1. Message("Data", id, take) \in Packet
        BY <1>3, MessageType DEF TypeOK, Kind
    <2>2. closes \in BOOLEAN
        BY CircuitAssumption
    <2> HIDE DEF id
    <2>3. QED BY <2>1, <2>2 DEF Message, Packet
<1>5. /\ mPacketsOutID' = [mPacketsOutID EXCEPT ![h] = message.id]
      /\ net' = [net EXCEPT ![Peer(h)] = Transmit(@, <<message>>)]
    BY <1>1 DEF SendMessage
<1> HIDE DEF message
<1>6. mPacketsOutID'[h] = id
    BY <1>4, <1>5 DEF TypeOK
<1>7. PendingMoves
    <2>1. DOMAIN mUnackedPackets = Host /\ DOMAIN mFinalRetryPackets = Host
        BY DEF TypeOK, PendingType
    <2>2. \A g \in Host \ {h} : Pending(g)' = Pending(g)
        BY <1>1, <2>1 DEF Pending
    <2> HIDE DEF id
    <2>3. Pending(h)' \subseteq Pending(h) \cup {id}
        BY <1>1, <2>1 DEF Pending, With
    <2>4. id > mPacketsOutID[h]
        BY <1>3
    <2>5. QED BY <2>2, <2>3, <2>4 DEF PendingMoves
<1> HIDE DEF id
<1>8. <<message>> \in Seq(Packet)
      /\ SentInOrder(<<message>>, mPacketsOutID[h], Pending(h), mPacketsOutID'[h], Pending(h)')
    <2>1. message.id <= mPacketsOutID'[h] /\ message.id > mPacketsOutID[h]
          /\ message.kind # "StartPingCheck"
        BY <1>3, <1>4, <1>6
    <2>2. QED BY <1>4, <2>1, OneInOrder
<1>9. QED BY <1>1, <1>2, <1>5, <1>7, <1>8, SenderOrder

LEMMA SendUnreliableOrder ==
    ASSUME TypeOK, TypeOK', OnceInOrder, NEW h \in Host, NEW closes \in Closing,
           NEW take \in SUBSET mAcks[h], SendUnreliable(h, closes, take)
    PROVE  OnceInOrder'
<1> DEFINE id == NextPacketOutID(mPacketsOutID[h])
           message == [Message("Data", id, take) EXCEPT !.closes = closes]
<1>1. /\ BeforeWrap(h, 1) /\ SendMessage(h, message) /\ UNCHANGED circuitVars
      /\ UNCHANGED <<mCircuitData, handled, mRecentlyReceivedReliablePackets,
                     mHighestPacketID>>
    BY DEF SendUnreliable
<1>2. id = mPacketsOutID[h] + 1 /\ mPacketsOutID[h] \in Nat /\ id \in PacketID
    BY <1>1, NextIDFacts, NextIDType DEF TypeOK
<1>3. /\ message \in Packet /\ message.id = id /\ message.kind = "Data" /\ ~message.resent
      /\ ~message.reliable
    <2>1. Message("Data", id, take) \in Packet
        BY <1>2, MessageType DEF TypeOK, Kind
    <2>2. closes \in BOOLEAN
        BY CircuitAssumption
    <2> HIDE DEF id
    <2>3. QED BY <2>1, <2>2 DEF Message, Packet
<1>4. /\ mPacketsOutID' = [mPacketsOutID EXCEPT ![h] = message.id]
      /\ net' = [net EXCEPT ![Peer(h)] = Transmit(@, <<message>>)]
    BY <1>1 DEF SendMessage
<1> HIDE DEF message, id
<1>5. mPacketsOutID'[h] = id
    BY <1>3, <1>4 DEF TypeOK
<1>6. IdsGrow
    <2>1. id \in Nat /\ mPacketsOutID[h] <= id
        BY <1>2
    <2>2. mPacketsOutID' = [mPacketsOutID EXCEPT ![h] = id]
        BY <1>3, <1>4
    <2>3. QED BY <2>1, <2>2, IdsGrowAt
<1>7. <<message>> \in Seq(Packet)
      /\ SentInOrder(<<message>>, mPacketsOutID[h], Pending(h), mPacketsOutID'[h], Pending(h)')
    <2>1. message.id <= mPacketsOutID'[h] /\ message.kind # "StartPingCheck"
        BY <1>2, <1>3, <1>5
    <2>2. QED BY <1>3, <2>1, OneInOrder
<1>8. PendingMoves
    BY <1>1, SamePending
<1>9. QED BY <1>1, <1>4, <1>6, <1>7, <1>8, SenderOrder

LEMMA RemoveCircuitOrder ==
    ASSUME TypeOK, TypeOK', OnceInOrder, NEW g \in Host, RemoveCircuit(g)
    PROVE  OnceInOrder'
<1>1. /\ ForgetCircuit(g) /\ AbortPackets(g, {})
      /\ mPacketsOutID' = mPacketsOutID /\ net' = net /\ handled' = handled
      /\ mHighestPacketID' = mHighestPacketID
    BY DEF RemoveCircuit
<1>2. IdsGrow /\ PendingMoves
    BY <1>1, IdsStay, AbortPending
<1> SUFFICES ASSUME NEW h \in Host \ (Reorder \cup Duplicate), FewIds(Peer(h))'
             PROVE  OrderAt(h)'
    BY DEF OnceInOrder
<1>3. OrderAt(h) /\ mPacketsOutID[Peer(h)] <= mPacketsOutID'[Peer(h)]
    BY <1>2, FewBefore
<1>4. \A i \in Pending(Peer(h))' : i \in Pending(Peer(h)) \/ i > mPacketsOutID[Peer(h)]
    BY <1>2, PeerType DEF PendingMoves
<1>5. Subqueue(net'[h], net[h])
    BY <1>1, OrderTypes, SameSubqueue
<1>6. /\ mRecentlyReceivedReliablePackets'[h] \subseteq mRecentlyReceivedReliablePackets[h]
      /\ h \in mCircuitData' =>
            /\ h \in mCircuitData
            /\ mRecentlyReceivedReliablePackets'[h] = mRecentlyReceivedReliablePackets[h]
    BY <1>1 DEF ForgetCircuit, TypeOK
<1>7. QED BY <1>1, <1>3, <1>4, <1>5, <1>6, OrderStays

LEMMA LoseOrder ==
    ASSUME TypeOK, TypeOK', OnceInOrder, NEW g \in Host, NEW k \in DOMAIN net[g], Lose(g, k)
    PROVE  OnceInOrder'
<1>1. /\ net' = [net EXCEPT ![g] = Remove(@, k)]
      /\ UNCHANGED <<mCircuitData, mPacketsOutID, circuitVars, handled,
                     mRecentlyReceivedReliablePackets, mHighestPacketID>>
    BY DEF Lose, receiveVars
<1>2. IdsGrow /\ PendingMoves
    BY <1>1, IdsStay, SamePending
<1> SUFFICES ASSUME NEW h \in Host \ (Reorder \cup Duplicate), FewIds(Peer(h))'
             PROVE  OrderAt(h)'
    BY DEF OnceInOrder
<1>3. OrderAt(h) /\ mPacketsOutID[Peer(h)] <= mPacketsOutID'[Peer(h)]
    BY <1>2, FewBefore
<1>4. \A i \in Pending(Peer(h))' : i \in Pending(Peer(h)) \/ i > mPacketsOutID[Peer(h)]
    BY <1>2, PeerType DEF PendingMoves
<1>5. Subqueue(net'[h], net[h])
    <2>1. net[h] \in Seq(Packet)
        BY OrderTypes
    <2>2. CASE h = g
        BY <1>1, <2>1, <2>2, RemoveSubqueue DEF TypeOK
    <2>3. CASE h # g
        BY <1>1, <2>1, <2>3, SameSubqueue DEF TypeOK
    <2>4. QED BY <2>2, <2>3
<1>6. QED BY <1>1, <1>3, <1>4, <1>5, OrderStays

LEMMA StutterOrder ==
    ASSUME TypeOK, TypeOK', OnceInOrder, UNCHANGED vars
    PROVE  OnceInOrder'
BY DEF vars, circuitVars, receiveVars, OnceInOrder, FewIds, OrderAt, Pending

\* What a frame sends: a ping with the id `oldest', copies of the packets that
\* are resent, and a PacketAck.
InFrame(unacked, out1, oldest) ==
    {p \in Packet : /\ p.id <= out1
                    /\ p.reliable => /\ p.kind = "Data" /\ p.resent
                                     /\ p.id \in unacked
                    /\ p.kind = "StartPingCheck" => p.oldest = oldest}

LEMMA FrameInOrder ==
    ASSUME NEW unacked, NEW out1, NEW oldest, NEW sent \in Seq(InFrame(unacked, out1, oldest)),
           NEW out, NEW pending, NEW pending1 \in SUBSET pending,
           unacked \subseteq pending,
           oldest <= out1, \A i \in pending : oldest <= i
    PROVE  sent \in Seq(Packet) /\ SentInOrder(sent, out, pending, out1, pending1)
<1>1. \A k \in DOMAIN sent : sent[k] \in InFrame(unacked, out1, oldest)
    OBVIOUS
<1>2. InFrame(unacked, out1, oldest) \subseteq Packet
    BY DEF InFrame
<1>3. sent \in Seq(Packet)
    BY <1>2
<1>4. QED BY <1>1, <1>3 DEF SentInOrder, InFrame

LEMMA FrameSendsInOrder ==
    ASSUME TypeOK, NEW h \in Host, NEW pinged \in BOOLEAN, NEW n \in Nat,
           NEW take \in SUBSET mAcks[h],
           NEW resends \in [1 .. n -> DOMAIN mUnackedPackets[h]],
           NEW dropped, NEW expired, \A i \in Pending(h) : i <= mPacketsOutID[h],
           ProcessAcks(h, pinged, take, resends, dropped, expired)
    PROVE  \E sent \in Seq(InFrame(DOMAIN mUnackedPackets[h], mPacketsOutID'[h],
                                   OldestUnacked(mPacketsOutID[h], DOMAIN mUnackedPackets[h],
                                                 DOMAIN mFinalRetryPackets[h]))) :
                net' = [net EXCEPT ![Peer(h)] = Transmit(@, sent)]
<1> DEFINE oldest  == OldestUnacked(mPacketsOutID[h], DOMAIN mUnackedPackets[h],
                                    DOMAIN mFinalRetryPackets[h])
           out     == mPacketsOutID[h]
           pingID  == NextPacketOutID(out)
           ackID   == NextPacketOutID(IF pinged THEN pingID ELSE out)
           left    == IF pinged THEN mAcks[h] \ take ELSE mAcks[h]
           sendAck == h \in mSendAckMap /\ left # {}
           ping    == IF pinged
                      THEN <<[Message("StartPingCheck", pingID, take) EXCEPT !.oldest = oldest]>>
                      ELSE <<>>
           copies  == [i \in DOMAIN resends |-> Resent(h, resends[i])]
           ack     == IF sendAck THEN <<Message("PacketAck", ackID, left)>> ELSE <<>>
           last    == CASE sendAck -> ackID [] ~sendAck /\ pinged -> pingID [] OTHER -> out
           Sent    == InFrame(DOMAIN mUnackedPackets[h], mPacketsOutID'[h], oldest)
<1>1. out \in PacketID /\ pingID \in PacketID /\ ackID \in PacketID
    BY NextIDType DEF TypeOK
<1>2. oldest \in PacketID
    BY OldestUnackedType DEF TypeOK, PendingType, PartialFunction
<1>3. left \in SUBSET PacketID /\ take \in SUBSET PacketID
    BY DEF TypeOK
<1>4. /\ net' = [net EXCEPT ![Peer(h)] = Transmit(@, ping \o copies \o ack)]
      /\ mPacketsOutID' = [mPacketsOutID EXCEPT ![h] = last]
      /\ BeforeWrap(h, 2)
    BY DEF ProcessAcks, TypeOK
<1>5. mPacketsOutID'[h] = last
    BY <1>4 DEF TypeOK
<1>6. /\ out \in Nat /\ pingID = out + 1
      /\ ackID = IF pinged THEN out + 2 ELSE out + 1
    <2>1. out \in Nat /\ out + 2 < LL_MAX_OUT_PACKET_ID
        BY <1>4, PendingFacts DEF BeforeWrap
    <2>2. pingID = out + 1
        BY <1>1, <2>1, NextIDBeforeWrap, ModulusAssumption
    <2>3. NextPacketOutID(out + 1) = out + 2
        <3>1. out + 1 \in PacketID /\ (out + 1) + 1 < LL_MAX_OUT_PACKET_ID
            BY <1>1, <2>1, <2>2
        <3>2. NextPacketOutID(out + 1) = (out + 1) + 1
            BY <3>1, NextIDBeforeWrap
        <3>3. QED BY <2>1, <3>2
    <2>4. QED BY <2>1, <2>2, <2>3
<1> HIDE DEF pingID, ackID, left, sendAck
<1>7. (pinged => pingID <= last) /\ (sendAck => ackID <= last) /\ out <= last
    BY <1>6
<1>8. ping \in Seq(Sent)
    <2> DEFINE message == Message("StartPingCheck", pingID, take)
               dated == [message EXCEPT !.oldest = oldest]
    <2>1. message \in Packet /\ message.id = pingID /\ ~message.reliable
          /\ message.kind = "StartPingCheck"
        BY <1>1, <1>3, MessageType DEF Kind, Message
    <2> HIDE DEF message
    <2>2. /\ dated \in Packet /\ dated.id = message.id /\ dated.oldest = oldest
          /\ ~dated.reliable
        BY <1>2, <2>1 DEF Packet
    <2> HIDE DEF dated, last
    <2>3. pinged => dated \in Sent
        BY <1>5, <1>7, <2>1, <2>2 DEF InFrame
    <2> HIDE DEF Sent
    <2>4. QED BY <2>3 DEF dated, message
<1>9. ack \in Seq(Sent)
    <2> DEFINE message == Message("PacketAck", ackID, left)
    <2>1. message \in Packet /\ message.id = ackID /\ ~message.reliable
          /\ message.kind = "PacketAck"
        BY <1>1, <1>3, MessageType DEF Kind, Message
    <2> HIDE DEF message, last
    <2>2. sendAck => message \in Sent
        BY <1>5, <1>7, <2>1 DEF InFrame
    <2> HIDE DEF Sent
    <2>3. QED BY <2>2 DEF message
<1>10. copies \in Seq(Sent)
    <2>1. ASSUME NEW i \in DOMAIN mUnackedPackets[h]
          PROVE  Resent(h, i) \in Sent
        <3>1. /\ i \in PacketID /\ mUnackedPackets[h][i] \in ReliablePacket
              /\ i \in Pending(h)
            BY DEF TypeOK, PendingType, PartialFunction, Pending
        <3>2. mUnackedPackets[h][i].closes \in BOOLEAN
            BY <3>1 DEF ReliablePacket
        <3>3. Message("Data", i, {}) \in Packet
            BY <3>1, MessageType DEF Kind
        <3>4. /\ Resent(h, i) \in Packet /\ Resent(h, i).id = i /\ Resent(h, i).reliable
              /\ Resent(h, i).resent /\ Resent(h, i).kind = "Data"
            BY <3>2, <3>3 DEF Resent, Packet, Message
        <3>5. i <= mPacketsOutID'[h]
            <4>1. i \in Nat /\ i <= out /\ last \in Nat
                <5>1. last \in PacketID
                    BY <1>1
                <5>2. QED BY <3>1, <5>1, ModulusAssumption DEF PacketID
            <4>2. QED BY <1>5, <1>6, <1>7, <4>1
        <3>6. QED BY <3>4, <3>5 DEF InFrame
    <2>2. copies \in [1 .. n -> Sent]
        BY <2>1
    <2>3. QED BY <2>2, SeqDef
<1> HIDE DEF ping, ack, copies, Sent
<1>11. ping \o copies \o ack \in Seq(Sent)
    BY <1>8, <1>9, <1>10
<1>12. QED BY <1>4, <1>11 DEF Sent

LEMMA ProcessAcksOrder ==
    ASSUME TypeOK, TypeOK', BooksKept, OnceInOrder, NEW h \in Host, NEW pinged \in BOOLEAN,
           NEW n \in Nat, NEW take \in SUBSET mAcks[h],
           NEW resends \in [1 .. n -> DOMAIN mUnackedPackets[h]],
           NEW dropped \in SUBSET DOMAIN mUnackedPackets[h],
           NEW expired \in SUBSET DOMAIN mFinalRetryPackets[h],
           ProcessAcks(h, pinged, take, resends, dropped, expired)
    PROVE  OnceInOrder'
<1> DEFINE oldest == OldestUnacked(mPacketsOutID[h], DOMAIN mUnackedPackets[h],
                                   DOMAIN mFinalRetryPackets[h])
<1>1. /\ ResendUnackedPackets(h, resends, dropped, expired)
      /\ UNCHANGED <<mCircuitData, handled, mRecentlyReceivedReliablePackets,
                     mHighestPacketID>>
    BY DEF ProcessAcks
<1>2. IdsGrow
    BY ProcessAcksIds
<1>3. \A i \in Pending(h) : i <= mPacketsOutID[h]
    BY DEF BooksKept, BooksOf, Books, Pending
<1>4. oldest <= mPacketsOutID[h] /\ \A i \in Pending(h) : oldest <= i
    <2>1. /\ mPacketsOutID[h] \in PacketID /\ DOMAIN mUnackedPackets[h] \in SUBSET PacketID
          /\ DOMAIN mFinalRetryPackets[h] \in SUBSET PacketID
        BY DEF TypeOK, PendingType, PartialFunction
    <2>2. QED BY <1>3, <2>1, OldestBounds DEF Pending
<1>5. oldest \in PacketID
    BY OldestUnackedType DEF TypeOK, PendingType, PartialFunction
<1> HIDE DEF oldest
<1>6. oldest <= mPacketsOutID'[h]
    <2>1. oldest \in Nat
        BY <1>5, ModulusAssumption DEF PacketID
    <2>2. mPacketsOutID[h] \in Nat
        BY PendingFacts
    <2>3. mPacketsOutID'[h] \in Nat
        BY ModulusAssumption DEF TypeOK, PacketID
    <2>4. mPacketsOutID[h] <= mPacketsOutID'[h]
        BY <1>2 DEF IdsGrow
    <2>5. QED BY <1>4, <2>1, <2>2, <2>3, <2>4
<1>7. Pending(h)' \in SUBSET Pending(h) /\ \A g \in Host \ {h} : Pending(g)' = Pending(g)
    <2>1. DOMAIN mUnackedPackets = Host /\ DOMAIN mFinalRetryPackets = Host
        BY DEF TypeOK, PendingType
    <2>2. SetOf(resends) \subseteq DOMAIN mUnackedPackets[h]
        BY DEF SetOf
    <2>3. Pending(h)' \subseteq Pending(h)
        BY <1>1, <2>1, <2>2 DEF ResendUnackedPackets, StillUnacked, Pending
    <2>4. \A g \in Host \ {h} : Pending(g)' = Pending(g)
        BY <1>1, <2>1 DEF ResendUnackedPackets, Pending
    <2>5. QED BY <2>3, <2>4
<1>8. PendingMoves
    BY <1>7 DEF PendingMoves
<1>9. PICK sent \in Seq(InFrame(DOMAIN mUnackedPackets[h], mPacketsOutID'[h], oldest)) :
            net' = [net EXCEPT ![Peer(h)] = Transmit(@, sent)]
    <2>1. \E sent \in Seq(InFrame(DOMAIN mUnackedPackets[h], mPacketsOutID'[h],
                                  OldestUnacked(mPacketsOutID[h], DOMAIN mUnackedPackets[h],
                                                DOMAIN mFinalRetryPackets[h]))) :
                net' = [net EXCEPT ![Peer(h)] = Transmit(@, sent)]
        BY <1>3, FrameSendsInOrder
    <2>2. QED BY <2>1 DEF oldest
<1>10. DOMAIN mUnackedPackets[h] \subseteq Pending(h)
    BY DEF Pending
<1>11. sent \in Seq(Packet)
       /\ SentInOrder(sent, mPacketsOutID[h], Pending(h), mPacketsOutID'[h], Pending(h)')
    BY <1>4, <1>6, <1>7, <1>10, FrameInOrder
<1>12. QED BY <1>1, <1>2, <1>8, <1>9, <1>11, SenderOrder

\* Nothing changes for the host that does not receive.
LEMMA OthersOrder ==
    ASSUME TypeOK, TypeOK', OnceInOrder, IdsGrow, PendingMoves, NEW g \in Host,
           NEW h \in Host \ (Reorder \cup Duplicate), h # g, FewIds(Peer(h))',
           net'[h] = net[h], handled'[g] = handled[g],
           mRecentlyReceivedReliablePackets'[h] = mRecentlyReceivedReliablePackets[h],
           mHighestPacketID'[h] = mHighestPacketID[h], h \in mCircuitData' => h \in mCircuitData
    PROVE  OrderAt(h)'
<1>1. OrderAt(h) /\ mPacketsOutID[Peer(h)] <= mPacketsOutID'[Peer(h)]
    BY FewBefore
<1>2. Peer(h) = g
    BY HostCases
<1>3. \A i \in Pending(Peer(h))' : i \in Pending(Peer(h)) \/ i > mPacketsOutID[Peer(h)]
    BY PeerType DEF PendingMoves
<1>4. Subqueue(net'[h], net[h])
    BY OrderTypes, SameSubqueue
<1>5. handled'[Peer(h)] = handled[Peer(h)]
    BY <1>2
<1>6. QED BY <1>1, <1>3, <1>4, <1>5, OrderStays

\* A host that gets its packets in order and once takes the first.
LEMMA ArrivalFirst ==
    ASSUME TypeOK, NEW h \in Host \ (Reorder \cup Duplicate), NEW i, NEW kept,
           Arrival(h, i, kept), net' = [net EXCEPT ![h] = AfterArrival(h, i, kept)]
    PROVE  /\ i = 1 /\ 1 \in DOMAIN net[h] /\ net'[h] = Remove(net[h], 1)
           /\ Subqueue(net'[h], net[h])
           /\ \A g \in Host \ {h} : net'[g] = net[g]
<1>1. i = 1 /\ ~kept /\ 1 \in DOMAIN net[h]
    BY DEF Arrival
<1>2. net'[h] = Remove(net[h], 1) /\ \A g \in Host \ {h} : net'[g] = net[g]
    BY <1>1 DEF AfterArrival, TypeOK
<1>3. QED BY <1>1, <1>2, OrderTypes, RemoveSubqueue

LEMMA OthersArrival ==
    ASSUME TypeOK, NEW h \in Host, NEW i, NEW kept,
           net' = [net EXCEPT ![h] = AfterArrival(h, i, kept)]
    PROVE  \A g \in Host \ {h} : net'[g] = net[g]
BY DEF TypeOK

\* The id of the first packet is noted.
LEMMA FirstNoted ==
    ASSUME TypeOK, NEW h \in Host, OrderAt(h), FewIds(Peer(h)), 1 \in DOMAIN net[h],
           CheckPacketInID(h, net[h][1].id)
    PROVE  /\ mHighestPacketID[h] <= mHighestPacketID'[h]
           /\ mHighestPacketID'[h] <= mPacketsOutID[Peer(h)]
           /\ net[h][1].id <= mHighestPacketID'[h]
           /\ \A g \in Host \ {h} : mHighestPacketID'[g] = mHighestPacketID[g]
<1> DEFINE out     == mPacketsOutID[Peer(h)]
           id      == net[h][1].id
           highest == mHighestPacketID[h]
<1>1. out \in Nat /\ highest \in Nat /\ net[h] \in Seq(Packet)
    BY OrderTypes
<1>2. id \in Nat
    <2>1. net[h][1] \in Packet
        BY <1>1
    <2>2. QED BY <2>1, ModulusAssumption DEF Packet, PacketID
<1>3. id <= out /\ highest <= out
    BY DEF OrderAt, QueueInOrder, PacketInOrder, HandledOnce
<1>4. /\ mHighestPacketID'[h] = HighestPacketID(highest, id)
      /\ \A g \in Host \ {h} : mHighestPacketID'[g] = mHighestPacketID[g]
    BY DEF CheckPacketInID, TypeOK
<1>5. 2 * out <= LL_MAX_OUT_PACKET_ID
    BY DEF FewIds
<1> HIDE DEF out, id, highest
<1>6. HighestPacketID(highest, id) = IF id > highest THEN id ELSE highest
    BY <1>1, <1>2, <1>3, <1>5, HighestInHalf
<1>7. QED
    <2>1. mHighestPacketID'[h] = IF id > highest THEN id ELSE highest
        BY <1>4, <1>6
    <2>2. highest <= mHighestPacketID'[h] /\ mHighestPacketID'[h] <= out
          /\ id <= mHighestPacketID'[h]
        BY <1>1, <1>2, <1>3, <2>1
    <2>3. QED BY <1>4, <2>2 DEF out, id, highest

\* A reliable packet that is not a duplicate is handled for the first time.
LEMMA OrderHandled ==
    ASSUME TypeOK, TypeOK', NEW h \in Host, OrderAt(h), 1 \in DOMAIN net[h],
           h \in mCircuitData, net[h][1].reliable, ~isDuplicateResend(h, net[h][1]),
           handled' = [handled EXCEPT ![Peer(h)][net[h][1].id] = OnceMore(@)],
           net'[h] = Remove(net[h], 1), Pending(Peer(h))' = Pending(Peer(h)),
           mPacketsOutID'[Peer(h)] = mPacketsOutID[Peer(h)],
           mHighestPacketID[h] <= mHighestPacketID'[h],
           mHighestPacketID'[h] <= mPacketsOutID[Peer(h)],
           net[h][1].id <= mHighestPacketID'[h],
           mRecentlyReceivedReliablePackets'[h] \subseteq
                mRecentlyReceivedReliablePackets[h] \cup {net[h][1].id},
           h \in mCircuitData' => mRecentlyReceivedReliablePackets'[h] =
                mRecentlyReceivedReliablePackets[h] \cup {net[h][1].id}
    PROVE  OrderAt(h)'
<1> DEFINE q        == net[h]
           q1       == Remove(net[h], 1)
           id       == net[h][1].id
           out      == mPacketsOutID[Peer(h)]
           pending  == Pending(Peer(h))
           times    == handled[Peer(h)]
           times1   == [times EXCEPT ![id] = 1]
           recent   == mRecentlyReceivedReliablePackets[h]
           recent1  == mRecentlyReceivedReliablePackets'[h]
           highest  == mHighestPacketID[h]
           highest1 == mHighestPacketID'[h]
<1>1. /\ q \in Seq(Packet) /\ out \in Nat /\ pending \in SUBSET PacketID
      /\ times \in [PacketID -> 0 .. 2] /\ recent \in SUBSET PacketID /\ highest \in Nat
    BY OrderTypes
<1>2. highest1 \in Nat
    BY OrderTypesNext
<1>3. q[1] \in Packet /\ id \in PacketID
    <2>1. q[1] \in Packet
        BY <1>1
    <2>2. QED BY <2>1 DEF Packet
<1>4. /\ QueueInOrder(q, out, pending, times)
      /\ HandledOnce(out, times, recent, highest)
      /\ Remembers(q, pending, times, recent)
    BY DEF OrderAt
<1>5. times[id] = 0
    <2>1. CASE ~q[1].resent
        BY <1>4, <2>1 DEF QueueInOrder, PacketInOrder
    <2>2. CASE q[1].resent
        <3>1. id \notin recent
            BY <2>2 DEF isDuplicateResend
        <3>2. Travels(q, id)
            BY DEF Travels
        <3>3. ~(times[id] > 0)
            BY <1>3, <1>4, <3>1, <3>2 DEF Remembers
        <3>4. QED BY <1>1, <1>3, <3>3
    <2>3. QED BY <2>1, <2>2
<1>6. handled'[Peer(h)] = times1
    <2>1. OnceMore(times[id]) = 1
        BY <1>5 DEF OnceMore
    <2>2. DOMAIN handled = Host
        BY DEF TypeOK
    <2>3. QED BY <2>1, <2>2, PeerType
<1>7. PICK m \in [DOMAIN q1 -> DOMAIN q] : \A k \in DOMAIN q1 : q1[k] = q[m[k]] /\ 1 < m[k]
    <2> DEFINE shift == [k \in 1 .. Len(q) - 1 |-> k + 1]
    <2>1. Len(q) \in Nat /\ DOMAIN q = 1 .. Len(q) /\ DOMAIN q1 = 1 .. Len(q) - 1
        BY <1>1 DEF Remove
    <2>2. shift \in [1 .. Len(q) - 1 -> DOMAIN q]
        BY <2>1
    <2>3. \A k \in 1 .. Len(q) - 1 : q1[k] = q[shift[k]] /\ 1 < shift[k]
        BY <2>1 DEF Remove
    <2> HIDE DEF shift, q, q1
    <2>4. QED BY <2>1, <2>2, <2>3
<1>8. q1 \in Seq(Packet) /\ Subqueue(q1, q)
    BY <1>1, RemoveType, RemoveSubqueue
<1>9. recent1 \in SUBSET (recent \cup {id}) /\ highest <= highest1 /\ highest1 <= out
      /\ id <= highest1 /\ (h \in mCircuitData' => recent1 = recent \cup {id})
    OBVIOUS
<1>10. SUFFICES /\ QueueInOrder(q1, out, pending, times1)
                /\ HandledOnce(out, times1, recent1, highest1)
                /\ h \in mCircuitData' => Remembers(q1, pending, times1, recent1)
    BY <1>6 DEF OrderAt
<1>11. q[1].reliable /\ 1 \in DOMAIN q /\ id = q[1].id
    OBVIOUS
<1> HIDE DEF q, q1, id, out, pending, times, recent, recent1, highest, highest1
<1>12. QueueInOrder(q1, out, pending, times) /\ \A i : Travels(q1, i) => Travels(q, i)
    BY <1>1, <1>4, <1>8, SubqueueInOrder
<1>13. QueueInOrder(q1, out, pending, times1)
    BY <1>1, <1>4, <1>7, <1>11, <1>12, HandledInOrder
<1>14. HandledOnce(out, times1, recent1, highest1)
    BY <1>1, <1>2, <1>3, <1>4, <1>9, HandledNow
<1>15. Remembers(q1, pending, times1, recent \cup {id})
    BY <1>1, <1>3, <1>4, <1>12, RemembersHandled
<1>16. QED BY <1>9, <1>13, <1>14, <1>15

LEMMA ReceiveOffCircuitOrder ==
    ASSUME TypeOK, TypeOK', OnceInOrder, NEW g \in Host, NEW k, NEW kept,
           ReceiveOffCircuit(g, k, kept)
    PROVE  OnceInOrder'
<1>1. /\ Arrival(g, k, kept) /\ net' = [net EXCEPT ![g] = AfterArrival(g, k, kept)]
      /\ UNCHANGED <<mCircuitData, mPacketsOutID, circuitVars, handled,
                     mRecentlyReceivedReliablePackets, mHighestPacketID>>
    BY DEF ReceiveOffCircuit, receiveVars
<1>2. IdsGrow /\ PendingMoves
    BY <1>1, IdsStay, SamePending
<1> SUFFICES ASSUME NEW h \in Host \ (Reorder \cup Duplicate), FewIds(Peer(h))'
             PROVE  OrderAt(h)'
    BY DEF OnceInOrder
<1>3. OrderAt(h) /\ mPacketsOutID[Peer(h)] <= mPacketsOutID'[Peer(h)]
    BY <1>2, FewBefore
<1>4. \A i \in Pending(Peer(h))' : i \in Pending(Peer(h)) \/ i > mPacketsOutID[Peer(h)]
    BY <1>2, PeerType DEF PendingMoves
<1>5. Subqueue(net'[h], net[h])
    <2>1. CASE h = g
        BY <1>1, <2>1, ArrivalFirst
    <2>2. CASE h # g
        BY <1>1, <2>2, OthersArrival, OrderTypes, SameSubqueue
    <2>3. QED BY <2>1, <2>2
<1>6. QED BY <1>1, <1>3, <1>4, <1>5, OrderStays

LEMMA ReceiveDuplicateResendOrder ==
    ASSUME TypeOK, TypeOK', OnceInOrder, NEW g \in Host, NEW k, NEW kept,
           ReceiveDuplicateResend(g, k, kept)
    PROVE  OnceInOrder'
<1>1. /\ Arrival(g, k, kept) /\ net' = [net EXCEPT ![g] = AfterArrival(g, k, kept)]
      /\ AckReliablePackets(g, net[g][k].acks)
      /\ UNCHANGED <<mCircuitData, mPacketsOutID, handled,
                     mRecentlyReceivedReliablePackets, mHighestPacketID>>
    BY DEF ReceiveDuplicateResend
<1>2. IdsGrow /\ PendingMoves
    BY <1>1, IdsStay, AckPending
<1> SUFFICES ASSUME NEW h \in Host \ (Reorder \cup Duplicate), FewIds(Peer(h))'
             PROVE  OrderAt(h)'
    BY DEF OnceInOrder
<1>3. OrderAt(h) /\ mPacketsOutID[Peer(h)] <= mPacketsOutID'[Peer(h)]
    BY <1>2, FewBefore
<1>4. \A i \in Pending(Peer(h))' : i \in Pending(Peer(h)) \/ i > mPacketsOutID[Peer(h)]
    BY <1>2, PeerType DEF PendingMoves
<1>5. Subqueue(net'[h], net[h])
    <2>1. CASE h = g
        BY <1>1, <2>1, ArrivalFirst
    <2>2. CASE h # g
        BY <1>1, <2>2, OthersArrival, OrderTypes, SameSubqueue
    <2>3. QED BY <2>1, <2>2
<1>6. QED BY <1>1, <1>3, <1>4, <1>5, OrderStays

LEMMA ReceiveReplyOrder ==
    ASSUME TypeOK, TypeOK', OnceInOrder, NEW g \in Host, NEW k, NEW kept,
           ReceiveReply(g, k, kept)
    PROVE  OnceInOrder'
<1>1. /\ Arrival(g, k, kept) /\ net' = [net EXCEPT ![g] = AfterArrival(g, k, kept)]
      /\ AckReliablePackets(g, net[g][k].acks) /\ CheckPacketInID(g, net[g][k].id)
      /\ UNCHANGED <<mCircuitData, mPacketsOutID, handled, mRecentlyReceivedReliablePackets>>
    BY DEF ReceiveReply
<1>2. IdsGrow /\ PendingMoves
    BY <1>1, IdsStay, AckPending
<1> SUFFICES ASSUME NEW h \in Host \ (Reorder \cup Duplicate), FewIds(Peer(h))'
             PROVE  OrderAt(h)'
    BY DEF OnceInOrder
<1>3. FewIds(Peer(h)) /\ OrderAt(h) /\ mPacketsOutID[Peer(h)] <= mPacketsOutID'[Peer(h)]
    BY <1>2, FewBefore
<1>4. CASE h = g
    <2>1. \A i \in Pending(Peer(h))' : i \in Pending(Peer(h)) \/ i > mPacketsOutID[Peer(h)]
        BY <1>2, PeerType DEF PendingMoves
    <2>2. k = 1 /\ 1 \in DOMAIN net[h] /\ Subqueue(net'[h], net[h])
        <3>1. g \in Host \ (Reorder \cup Duplicate)
            BY <1>4
        <3>2. Arrival(g, k, kept)
            BY <1>1
        <3>3. net' = [net EXCEPT ![g] = AfterArrival(g, k, kept)]
            BY <1>1
        <3>4. k = 1 /\ 1 \in DOMAIN net[g]
            BY <3>1, <3>2 DEF Arrival
        <3>5. Subqueue(net'[g], net[g])
            BY <3>1, <3>2, <3>3, ArrivalFirst
        <3>6. QED BY <1>4, <3>4, <3>5
    <2>3. /\ mHighestPacketID[h] <= mHighestPacketID'[h]
          /\ mHighestPacketID'[h] <= mPacketsOutID[Peer(h)]
        BY <1>1, <1>3, <1>4, <2>2, FirstNoted
    <2>4. QED BY <1>1, <1>3, <2>1, <2>2, <2>3, OrderStays
<1>5. CASE h # g
    <2>1. net'[h] = net[h]
        BY <1>1, <1>5, OthersArrival
    <2>2. mHighestPacketID'[h] = mHighestPacketID[h]
        BY <1>1, <1>5 DEF CheckPacketInID, TypeOK
    <2>3. QED BY <1>1, <1>2, <1>5, <2>1, <2>2, OthersOrder
<1>6. QED BY <1>4, <1>5

LEMMA ReceiveDataOrder ==
    ASSUME TypeOK, TypeOK', OnceInOrder, NEW g \in Host, NEW k, NEW kept,
           ReceiveData(g, k, kept)
    PROVE  OnceInOrder'
<1> DEFINE p == net[g][k]
<1>1. /\ Arrival(g, k, kept) /\ net' = [net EXCEPT ![g] = AfterArrival(g, k, kept)]
      /\ AckReliablePackets(g, p.acks) /\ CheckPacketInID(g, p.id)
      /\ UNCHANGED <<mCircuitData, mPacketsOutID>>
      /\ g \in mCircuitData /\ ~isDuplicateResend(g, p)
    BY DEF ReceiveData
<1>2. IF p.reliable
      THEN /\ handled' = [handled EXCEPT ![Peer(g)][p.id] = OnceMore(@)]
           /\ mRecentlyReceivedReliablePackets' =
                    [mRecentlyReceivedReliablePackets EXCEPT ![g] = @ \cup {p.id}]
      ELSE UNCHANGED <<handled, mRecentlyReceivedReliablePackets>>
    BY DEF ReceiveData
<1>3. IdsGrow /\ PendingMoves /\ \A f \in Host \ {g} : Pending(f)' = Pending(f)
    BY <1>1, IdsStay, AckPending
<1> SUFFICES ASSUME NEW h \in Host \ (Reorder \cup Duplicate), FewIds(Peer(h))'
             PROVE  OrderAt(h)'
    BY DEF OnceInOrder
<1>4. FewIds(Peer(h)) /\ OrderAt(h) /\ mPacketsOutID[Peer(h)] <= mPacketsOutID'[Peer(h)]
    BY <1>3, FewBefore
<1>5. CASE h = g
    <2>1. Pending(Peer(h))' = Pending(Peer(h))
        BY <1>3, <1>5, PeerType
    <2>2. /\ k = 1 /\ 1 \in DOMAIN net[h] /\ net'[h] = Remove(net[h], 1)
          /\ Subqueue(net'[h], net[h])
        <3>1. g \in Host \ (Reorder \cup Duplicate)
            BY <1>5
        <3>2. Arrival(g, k, kept)
            BY <1>1
        <3>3. net' = [net EXCEPT ![g] = AfterArrival(g, k, kept)]
            BY <1>1
        <3>4. k = 1 /\ 1 \in DOMAIN net[g]
            BY <3>1, <3>2 DEF Arrival
        <3>5. Subqueue(net'[g], net[g])
            BY <3>1, <3>2, <3>3, ArrivalFirst
        <3>6. net'[g] = Remove(net[g], 1)
            BY <3>1, <3>2, <3>3, ArrivalFirst
        <3>7. QED BY <1>5, <3>4, <3>5, <3>6
    <2>3. p = net[h][1]
        BY <1>5, <2>2
    <2>4. /\ mHighestPacketID[h] <= mHighestPacketID'[h]
          /\ mHighestPacketID'[h] <= mPacketsOutID[Peer(h)]
          /\ p.id <= mHighestPacketID'[h]
        BY <1>1, <1>4, <1>5, <2>2, <2>3, FirstNoted
    <2> HIDE DEF p
    <2>5. CASE p.reliable
        <3>1. mRecentlyReceivedReliablePackets'[h]
                = mRecentlyReceivedReliablePackets[h] \cup {p.id}
            BY <1>2, <1>5, <2>5 DEF TypeOK
        <3>2. handled' = [handled EXCEPT ![Peer(h)][p.id] = OnceMore(@)]
            BY <1>2, <1>5, <2>5
        <3>3. h \in mCircuitData /\ ~isDuplicateResend(h, net[h][1])
            BY <1>1, <1>5, <2>3
        <3>4. QED BY <1>1, <1>4, <2>1, <2>2, <2>3, <2>4, <2>5, <3>1, <3>2, <3>3, OrderHandled
    <2>6. CASE ~p.reliable
        <3>1. UNCHANGED <<handled, mRecentlyReceivedReliablePackets>>
            BY <1>2, <2>6
        <3>2. QED BY <1>1, <1>4, <2>1, <2>2, <2>4, <3>1, OrderStays
    <2>7. QED BY <2>5, <2>6
<1>6. CASE h # g
    <2>1. net'[h] = net[h]
        BY <1>1, <1>6, OthersArrival
    <2>2. mHighestPacketID'[h] = mHighestPacketID[h]
        BY <1>1, <1>6 DEF CheckPacketInID, TypeOK
    <2>3. /\ handled'[g] = handled[g]
          /\ mRecentlyReceivedReliablePackets'[h] = mRecentlyReceivedReliablePackets[h]
        BY <1>2, <1>6, PeerType DEF TypeOK
    <2>4. QED BY <1>1, <1>3, <1>6, <2>1, <2>2, <2>3, OthersOrder
<1>7. QED BY <1>5, <1>6

LEMMA ReceiveClosingDataOrder ==
    ASSUME TypeOK, TypeOK', OnceInOrder, NEW g \in Host, NEW k, NEW kept,
           ReceiveClosingData(g, k, kept)
    PROVE  OnceInOrder'
<1> DEFINE p == net[g][k]
<1>1. /\ Arrival(g, k, kept) /\ net' = [net EXCEPT ![g] = AfterArrival(g, k, kept)]
      /\ AbortPackets(g, p.acks) /\ CheckPacketInID(g, p.id) /\ ForgetCircuit(g)
      /\ UNCHANGED mPacketsOutID
      /\ g \in mCircuitData /\ ~isDuplicateResend(g, p)
      /\ handled' = IF p.reliable THEN [handled EXCEPT ![Peer(g)][p.id] = OnceMore(@)]
                                  ELSE handled
    BY DEF ReceiveClosingData
<1>2. /\ mCircuitData' = mCircuitData \ {g}
      /\ mRecentlyReceivedReliablePackets'[g] = {}
      /\ \A f \in Host \ {g} :
            mRecentlyReceivedReliablePackets'[f] = mRecentlyReceivedReliablePackets[f]
    BY <1>1 DEF ForgetCircuit, TypeOK
<1>3. IdsGrow /\ PendingMoves /\ \A f \in Host \ {g} : Pending(f)' = Pending(f)
    BY <1>1, IdsStay, AbortPending
<1> SUFFICES ASSUME NEW h \in Host \ (Reorder \cup Duplicate), FewIds(Peer(h))'
             PROVE  OrderAt(h)'
    BY DEF OnceInOrder
<1>4. FewIds(Peer(h)) /\ OrderAt(h) /\ mPacketsOutID[Peer(h)] <= mPacketsOutID'[Peer(h)]
    BY <1>3, FewBefore
<1>5. CASE h = g
    <2>1. Pending(Peer(h))' = Pending(Peer(h))
        BY <1>3, <1>5, PeerType
    <2>2. /\ k = 1 /\ 1 \in DOMAIN net[h] /\ net'[h] = Remove(net[h], 1)
          /\ Subqueue(net'[h], net[h])
        <3>1. g \in Host \ (Reorder \cup Duplicate)
            BY <1>5
        <3>2. Arrival(g, k, kept)
            BY <1>1
        <3>3. net' = [net EXCEPT ![g] = AfterArrival(g, k, kept)]
            BY <1>1
        <3>4. k = 1 /\ 1 \in DOMAIN net[g]
            BY <3>1, <3>2 DEF Arrival
        <3>5. Subqueue(net'[g], net[g])
            BY <3>1, <3>2, <3>3, ArrivalFirst
        <3>6. net'[g] = Remove(net[g], 1)
            BY <3>1, <3>2, <3>3, ArrivalFirst
        <3>7. QED BY <1>5, <3>4, <3>5, <3>6
    <2>3. p = net[h][1]
        BY <1>5, <2>2
    <2>4. /\ mHighestPacketID[h] <= mHighestPacketID'[h]
          /\ mHighestPacketID'[h] <= mPacketsOutID[Peer(h)]
          /\ p.id <= mHighestPacketID'[h]
        BY <1>1, <1>4, <1>5, <2>2, <2>3, FirstNoted
    <2>5. h \notin mCircuitData' /\ mRecentlyReceivedReliablePackets'[h] = {}
        BY <1>2, <1>5
    <2> HIDE DEF p
    <2>6. CASE p.reliable
        <3>1. handled' = [handled EXCEPT ![Peer(h)][p.id] = OnceMore(@)]
            BY <1>1, <1>5, <2>6
        <3>2. h \in mCircuitData /\ ~isDuplicateResend(h, net[h][1])
            BY <1>1, <1>5, <2>3
        <3>3. QED BY <1>1, <1>4, <2>1, <2>2, <2>3, <2>4, <2>5, <2>6, <3>1, <3>2, OrderHandled
    <2>7. CASE ~p.reliable
        BY <1>1, <1>4, <2>1, <2>2, <2>4, <2>5, <2>7, OrderStays
    <2>8. QED BY <2>6, <2>7
<1>6. CASE h # g
    <2>1. net'[h] = net[h]
        BY <1>1, <1>6, OthersArrival
    <2>2. mHighestPacketID'[h] = mHighestPacketID[h]
        BY <1>1, <1>6 DEF CheckPacketInID, TypeOK
    <2>3. handled'[g] = handled[g]
        BY <1>1, PeerType DEF TypeOK
    <2>4. h \in mCircuitData' => h \in mCircuitData
        BY <1>2
    <2>5. QED BY <1>2, <1>3, <1>6, <2>1, <2>2, <2>3, <2>4, OthersOrder
<1>7. QED BY <1>5, <1>6

\* A ping at the head of the queue makes a host forget only what does not come again.
LEMMA PingForgets ==
    ASSUME TypeOK, NEW h \in Host, OrderAt(h), 1 \in DOMAIN net[h],
           net[h][1].kind = "StartPingCheck", NEW highest1 \in Nat,
           mHighestPacketID[h] <= highest1, NEW timedOut,
           NEW i \in mRecentlyReceivedReliablePackets[h],
           i \notin ClearDuplicateList(mRecentlyReceivedReliablePackets[h], highest1,
                                      net[h][1].oldest, timedOut)
    PROVE  i \notin Pending(Peer(h)) /\ ~Travels(Remove(net[h], 1), i)
<1> DEFINE q == net[h]
           oldest == q[1].oldest
<1>1. q \in Seq(Packet) /\ mHighestPacketID[h] \in Nat
    BY OrderTypes
<1>2. q[1] \in Packet /\ oldest \in Nat /\ i \in Nat
    <2>1. q[1] \in Packet
        BY <1>1
    <2>2. mRecentlyReceivedReliablePackets[h] \in SUBSET PacketID
        BY OrderTypes
    <2>3. QED BY <2>1, <2>2, ModulusAssumption DEF Packet, PacketID
<1>3. i <= highest1
    <2>1. i <= mHighestPacketID[h]
        BY DEF OrderAt, HandledOnce
    <2>2. QED BY <1>1, <1>2, <2>1
<1>4. i < oldest
    BY <1>2, <1>3 DEF ClearDuplicateList
<1>5. /\ \A j \in Pending(Peer(h)) : oldest <= j
      /\ \A j \in DOMAIN q : 1 < j /\ q[j].reliable => oldest <= q[j].id
    BY DEF OrderAt, QueueInOrder, PacketInOrder
<1>6. ~(oldest <= i)
    BY <1>2, <1>4
<1>7. i \notin Pending(Peer(h))
    BY <1>5, <1>6
<1>8. ASSUME NEW j \in DOMAIN Remove(q, 1)
      PROVE  ~(Remove(q, 1)[j].reliable /\ Remove(q, 1)[j].id = i)
    <2>1. j + 1 \in DOMAIN q /\ 1 < j + 1 /\ Remove(q, 1)[j] = q[j + 1]
        BY <1>1 DEF Remove
    <2>2. QED BY <1>5, <1>6, <2>1
<1>9. QED BY <1>7, <1>8 DEF Travels

LEMMA ReceiveStartPingCheckOrder ==
    ASSUME TypeOK, TypeOK', OnceInOrder, NEW g \in Host, NEW k, NEW kept,
           NEW take \in SUBSET mAcks[g], NEW timedOut,
           ReceiveStartPingCheck(g, k, kept, take, timedOut)
    PROVE  OnceInOrder'
<1> DEFINE p     == net[g][k]
           id    == NextPacketOutID(mPacketsOutID[g])
           reply == Message("CompletePingCheck", id, take)
<1>1. /\ Arrival(g, k, kept) /\ BeforeWrap(g, 1)
      /\ p.kind = "StartPingCheck"
      /\ AckReliablePackets(g, p.acks) /\ CheckPacketInID(g, p.id)
      /\ mRecentlyReceivedReliablePackets' = [mRecentlyReceivedReliablePackets EXCEPT
                ![g] = ClearDuplicateList(@, mHighestPacketID'[g], p.oldest, timedOut)]
      /\ mPacketsOutID' = [mPacketsOutID EXCEPT ![g] = id]
      /\ net' = [net EXCEPT ![g] = AfterArrival(g, k, kept),
                            ![Peer(g)] = Transmit(@, <<reply>>)]
      /\ UNCHANGED <<mCircuitData, handled>>
    BY DEF ReceiveStartPingCheck
<1>2. id = mPacketsOutID[g] + 1 /\ mPacketsOutID[g] \in Nat /\ id \in PacketID
    BY <1>1, NextIDFacts, NextIDType DEF TypeOK
<1>3. reply \in Packet /\ reply.id = id /\ reply.kind = "CompletePingCheck"
      /\ ~reply.reliable /\ ~reply.resent
    <2>1. take \in SUBSET PacketID
        BY DEF TypeOK
    <2>2. reply \in Packet
        BY <1>2, <2>1, MessageType DEF Kind
    <2>3. QED BY <2>2 DEF Message
<1> HIDE DEF id, reply
<1>4. IdsGrow
    <2>1. id \in Nat /\ mPacketsOutID[g] <= id
        BY <1>2
    <2>2. QED BY <1>1, <2>1, IdsGrowAt
<1>5. PendingMoves /\ \A f \in Host \ {g} : Pending(f)' = Pending(f)
    BY <1>1, AckPending
<1>6. /\ net'[g] = AfterArrival(g, k, kept)
      /\ net'[Peer(g)] = Transmit(net[Peer(g)], <<reply>>)
    BY <1>1, PeerType DEF TypeOK
<1> SUFFICES ASSUME NEW h \in Host \ (Reorder \cup Duplicate), FewIds(Peer(h))'
             PROVE  OrderAt(h)'
    BY DEF OnceInOrder
<1>7. FewIds(Peer(h)) /\ OrderAt(h) /\ mPacketsOutID[Peer(h)] <= mPacketsOutID'[Peer(h)]
    BY <1>4, FewBefore
<1>8. CASE h = g
    <2>1. Pending(Peer(h))' = Pending(Peer(h)) /\ mPacketsOutID'[Peer(h)] = mPacketsOutID[Peer(h)]
        BY <1>1, <1>5, <1>8, PeerType DEF TypeOK
    <2>2. k = 1 /\ 1 \in DOMAIN net[h] /\ ~kept
        BY <1>1, <1>8 DEF Arrival
    <2>3. net'[h] = Remove(net[h], 1) /\ Subqueue(net'[h], net[h])
        BY <1>6, <1>8, <2>2, OrderTypes, RemoveSubqueue DEF AfterArrival
    <2>4. p = net[h][1]
        BY <1>8, <2>2
    <2>5. /\ mHighestPacketID[h] <= mHighestPacketID'[h]
          /\ mHighestPacketID'[h] <= mPacketsOutID[Peer(h)]
        BY <1>1, <1>7, <1>8, <2>2, <2>4, FirstNoted
    <2>6. mHighestPacketID'[h] \in Nat
        BY OrderTypesNext
    <2>7. mRecentlyReceivedReliablePackets'[h] =
            ClearDuplicateList(mRecentlyReceivedReliablePackets[h], mHighestPacketID'[h],
                               net[h][1].oldest, timedOut)
        BY <1>1, <1>8, <2>4 DEF TypeOK
    <2>8. mRecentlyReceivedReliablePackets'[h] \subseteq mRecentlyReceivedReliablePackets[h]
        BY <2>7 DEF ClearDuplicateList
    <2>9. ASSUME NEW i \in mRecentlyReceivedReliablePackets[h]
                                \ mRecentlyReceivedReliablePackets'[h]
          PROVE  i \notin Pending(Peer(h))' /\ ~Travels(net'[h], i)
        <3>1. net[h][1].kind = "StartPingCheck"
            BY <1>1, <2>4
        <3>2. i \notin Pending(Peer(h)) /\ ~Travels(Remove(net[h], 1), i)
            BY <1>7, <2>2, <2>5, <2>6, <2>7, <2>9, <3>1, PingForgets
        <3>3. QED BY <2>1, <2>3, <3>2
    <2>10. net[h] \o <<>> = net[h] /\ <<>> \in Seq(Packet)
        BY OrderTypes
    <2>11. SentInOrder(<<>>, mPacketsOutID[Peer(h)], Pending(Peer(h)),
                       mPacketsOutID'[Peer(h)], Pending(Peer(h))')
        BY DEF SentInOrder
    <2>12. Subqueue(net'[h], net[h] \o <<>>)
        BY <2>3, <2>10
    <2>13. \A i \in Pending(Peer(h))' : i \in Pending(Peer(h)) \/ i > mPacketsOutID[Peer(h)]
        BY <2>1
    <2>14. Forwards(h, <<>>)
        BY <1>1, <1>7, <2>1, <2>5, <2>8, <2>9, <2>11, <2>12, <2>13 DEF Forwards
    <2>15. QED BY <1>7, <2>10, <2>14, OrderMoves
<1>9. CASE h # g
    <2>1. h = Peer(g) /\ Peer(h) = g
        BY <1>9, HostCases
    <2>2. mPacketsOutID'[Peer(h)] = id
        BY <1>1, <2>1 DEF TypeOK
    <2>3. \A i \in Pending(Peer(h))' : i \in Pending(Peer(h)) \/ i > mPacketsOutID[Peer(h)]
        BY <1>5, PeerType DEF PendingMoves
    <2>4. <<reply>> \in Seq(Packet)
          /\ SentInOrder(<<reply>>, mPacketsOutID[Peer(h)], Pending(Peer(h)),
                         mPacketsOutID'[Peer(h)], Pending(Peer(h))')
        <3>1. reply.id <= mPacketsOutID'[Peer(h)]
            BY <1>2, <1>3, <2>2
        <3>2. reply.kind # "StartPingCheck"
            BY <1>3
        <3>3. QED BY <1>3, <3>1, <3>2, OneInOrder
    <2>5. Subqueue(net'[h], net[h] \o <<reply>>)
        BY <1>6, <2>1, <2>4, OrderTypes, TransmitSubqueue
    <2>6. /\ mHighestPacketID'[h] = mHighestPacketID[h]
          /\ mRecentlyReceivedReliablePackets'[h] = mRecentlyReceivedReliablePackets[h]
        BY <1>1, <1>9 DEF CheckPacketInID, TypeOK
    <2>7. /\ mHighestPacketID[h] <= mHighestPacketID'[h]
          /\ mHighestPacketID'[h] <= mPacketsOutID'[Peer(h)]
        <3>1. mHighestPacketID[h] \in Nat /\ mPacketsOutID[Peer(h)] \in Nat
            BY OrderTypes
        <3>2. mPacketsOutID'[Peer(h)] \in Nat
            BY OrderTypesNext
        <3>3. mHighestPacketID[h] <= mPacketsOutID[Peer(h)]
            BY <1>7 DEF OrderAt, HandledOnce
        <3>4. QED BY <1>7, <2>6, <3>1, <3>2, <3>3
    <2>8. Forwards(h, <<reply>>)
        BY <1>1, <1>7, <2>3, <2>4, <2>5, <2>6, <2>7 DEF Forwards
    <2>9. QED BY <1>7, <2>4, <2>8, OrderMoves
<1>10. QED BY <1>8, <1>9

LEMMA InitOrder == Init => OnceInOrder
<1> SUFFICES ASSUME Init, NEW h \in Host
             PROVE  OrderAt(h)
    BY DEF OnceInOrder
<1>1. PacketID \subseteq Nat /\ Peer(h) \in Host
    BY PeerType, ModulusAssumption DEF PacketID
<1>2. /\ net[h] = <<>> /\ mPacketsOutID[Peer(h)] = 0 /\ mHighestPacketID[h] = 0
      /\ mRecentlyReceivedReliablePackets[h] = {}
      /\ \A i \in PacketID : handled[Peer(h)][i] = 0
    BY <1>1 DEF Init
<1>3. QED BY <1>2 DEF OrderAt, QueueInOrder, HandledOnce, Remembers

LEMMA NextOrder ==
    TypeOK /\ TypeOK' /\ BooksKept /\ OnceInOrder /\ [Next]_vars => OnceInOrder'
<1> SUFFICES ASSUME TypeOK, TypeOK', BooksKept, OnceInOrder, [Next]_vars
             PROVE  OnceInOrder'
    OBVIOUS
<1>1. CASE UNCHANGED vars
    BY <1>1, StutterOrder
<1>2. ASSUME NEW h \in Host, Send(h)
      PROVE  OnceInOrder'
    BY <1>2, SendReliableOrder, SendUnreliableOrder DEF Send
<1>3. ASSUME NEW h \in Host, RemoveCircuit(h)
      PROVE  OnceInOrder'
    BY <1>3, RemoveCircuitOrder
<1>4. ASSUME NEW h \in Host, Frame(h)
      PROVE  OnceInOrder'
    <2>1. PICK n \in 0 .. Cardinality(DOMAIN mUnackedPackets[h]) :
            \E pinged \in BOOLEAN, take \in SUBSET mAcks[h],
               expired \in SUBSET DOMAIN mFinalRetryPackets[h],
               resends \in [1 .. n -> DOMAIN mUnackedPackets[h]],
               dropped \in SUBSET DOMAIN mUnackedPackets[h] :
                    ProcessAcks(h, pinged, take, resends, dropped, expired)
        BY <1>4 DEF Frame
    <2>2. n \in Nat
        OBVIOUS
    <2>3. QED BY <2>1, <2>2, ProcessAcksOrder
<1>5. ASSUME NEW h \in Host, Receive(h)
      PROVE  OnceInOrder'
    BY <1>5, ReceiveOffCircuitOrder, ReceiveDuplicateResendOrder, ReceiveDataOrder,
       ReceiveClosingDataOrder, ReceiveReplyOrder, ReceiveStartPingCheckOrder DEF Receive
<1>6. ASSUME NEW h \in Host, NEW k \in DOMAIN net[h], Lose(h, k)
      PROVE  OnceInOrder'
    BY <1>6, LoseOrder
<1>7. QED BY <1>1, <1>2, <1>3, <1>4, <1>5, <1>6 DEF Next

\* A host that gets its packets in order and once handles no message twice,
\* whatever is lost, resent, acked or forgotten after a ping.
THEOREM OnceHandled == Spec => []HandledAtMostOnce
<1>1. Init => TypeOK /\ Accounts /\ OnceInOrder
    BY InitType, InitAccounts, InitOrder
<1>2. TypeOK /\ Accounts /\ OnceInOrder /\ [Next]_vars
        => TypeOK' /\ Accounts' /\ OnceInOrder'
    BY NextType, NextMoves, NextOrder DEF Moves, Accounts
<1>3. TypeOK /\ OnceInOrder => HandledAtMostOnce
    BY DEF OnceInOrder, HandledAtMostOnce, FewIds, OrderAt, HandledOnce
<1>4. QED BY <1>1, <1>2, <1>3, PTL DEF Spec
=============================================================================
