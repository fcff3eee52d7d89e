---------------------------- MODULE Circuit_proofs ----------------------------
(***************************************************************************)
(* Theorems about Circuit, for every value of its constants.               *)
(***************************************************************************)
EXTENDS Circuit, FiniteSetTheorems, WellFoundedInduction, SequenceTheorems, TLAPS

-----------------------------------------------------------------------------
(* Packet ids *)

\* A non-empty set of ids has a least element, which Lowest finds.
LEMMA LowestIsLeast ==
    \A ids \in SUBSET Nat : ids # {} => Lowest(ids) \in ids /\ \A j \in ids : Lowest(ids) <= j
<1> SUFFICES ASSUME NEW ids \in SUBSET Nat, ids # {}
             PROVE  Lowest(ids) \in ids /\ \A j \in ids : Lowest(ids) <= j
    OBVIOUS
<1> DEFINE R == OpToRel(<, Nat)
<1>1. \A j, k \in Nat : ~ (<<j, k>> \in R) => ~ (j < k)
    BY Zenon DEF OpToRel
<1>2. IsWellFoundedOn(R, Nat)
    BY NatLessThanWellFounded
<1> HIDE DEF R
<1>3. PICK i \in ids : \A j \in ids : ~ (<<j, i>> \in R)
    BY <1>2, WFMin
<1>4. ASSUME NEW j \in ids
      PROVE  i <= j
    <2>1. i \in Nat /\ j \in Nat
        OBVIOUS
    <2>2. ~ (j < i)
        BY <1>1, <1>3, <2>1, Zenon
    <2>3. QED BY <2>1, <2>2
<1>5. QED BY <1>4 DEF Lowest

LEMMA LowestIsMember ==
    ASSUME NEW ids \in SUBSET Nat, ids # {}
    PROVE  Lowest(ids) \in ids
BY LowestIsLeast

\* The id a ping reports is a packet id.
LEMMA OldestUnackedType ==
    ASSUME NEW out \in PacketID, NEW unacked \in SUBSET PacketID,
           NEW final \in SUBSET PacketID
    PROVE  OldestUnacked(out, unacked, final) \in PacketID
<1> DEFINE Older(ids) == {i \in ids : i > out}
           First(ids) == Lowest(IF Older(ids) = {} THEN ids ELSE Older(ids))
<1>1. PacketID \subseteq Nat
    BY ModulusAssumption DEF PacketID
<1>2. unacked # {} => First(unacked) \in PacketID
    BY <1>1, LowestIsMember
<1>3. final # {} => First(final) \in PacketID
    BY <1>1, LowestIsMember
<1>4. unacked # {} /\ final # {} => Lowest({First(unacked), First(final)}) \in PacketID
    <2>1. SUFFICES ASSUME unacked # {}, final # {}
                   PROVE  Lowest({First(unacked), First(final)}) \in PacketID
        OBVIOUS
    <2> DEFINE both == {First(unacked), First(final)}
    <2>2. both \in SUBSET PacketID /\ both # {}
        BY <1>2, <1>3, <2>1
    <2> HIDE DEF both, First
    <2>3. Lowest(both) \in both
        BY <1>1, <2>2, LowestIsMember
    <2>4. QED BY <2>2, <2>3 DEF both
<1>5. Older(unacked) # {} => unacked # {}
    OBVIOUS
<1>6. Older(final) # {} => final # {}
    OBVIOUS
<1> HIDE DEF First
<1>7. QED BY <1>2, <1>3, <1>4, <1>5, <1>6 DEF OldestUnacked, First

\* Ids are computed within the id space.
LEMMA NextIDType ==
    ASSUME NEW out \in PacketID
    PROVE  NextPacketOutID(out) \in PacketID
BY ModulusAssumption DEF NextPacketOutID, PacketID

\* Before the ids wrap the next id is one more.
LEMMA NextIDBeforeWrap ==
    ASSUME NEW out \in PacketID, out + 1 < LL_MAX_OUT_PACKET_ID
    PROVE  NextPacketOutID(out) = out + 1
BY ModulusAssumption DEF NextPacketOutID, PacketID

LEMMA HighestIDType ==
    ASSUME NEW highest \in PacketID, NEW id \in PacketID
    PROVE  HighestPacketID(highest, id) \in PacketID
BY ModulusAssumption DEF HighestPacketID, PacketID

LEMMA PacketIDFinite == \A S \in SUBSET PacketID : IsFiniteSet(S)
<1>1. 0 \in Int /\ LL_MAX_OUT_PACKET_ID - 1 \in Int
    BY ModulusAssumption
<1>2. IsFiniteSet(PacketID)
    BY <1>1, FS_Interval DEF PacketID
<1>3. QED BY <1>2, FS_Subset
-----------------------------------------------------------------------------
(* The network *)

\* Losing or taking a packet leaves a sequence of the packets that were there.
LEMMA RemoveType ==
    ASSUME NEW S, NEW queue \in Seq(S), NEW i \in DOMAIN queue
    PROVE  /\ Remove(queue, i) \in Seq(S)
           /\ SetOf(Remove(queue, i)) \subseteq SetOf(queue)
<1>1. Len(queue) - 1 \in Nat /\ DOMAIN queue = 1 .. Len(queue)
    OBVIOUS
<1>2. \A j \in 1 .. Len(queue) - 1 : Remove(queue, i)[j] \in SetOf(queue)
    BY <1>1 DEF Remove, SetOf
<1>3. DOMAIN Remove(queue, i) = 1 .. Len(queue) - 1
    BY DEF Remove
<1>4. SetOf(queue) \subseteq S
    BY DEF SetOf
<1>5. Remove(queue, i) \in [1 .. Len(queue) - 1 -> S]
    BY <1>2, <1>4, <1>1 DEF Remove
<1>6. QED BY <1>1, <1>2, <1>3, <1>5, SeqDef DEF SetOf

\* What is in flight after a send was in flight before or was just sent.
LEMMA TransmitType ==
    ASSUME NEW S, NEW queue \in Seq(S), NEW packets \in Seq(S)
    PROVE  /\ Transmit(queue, packets) \in Seq(S)
           /\ SetOf(Transmit(queue, packets)) \subseteq SetOf(queue) \cup SetOf(packets)
<1> DEFINE all == queue \o packets
           n == IF Len(all) < MaxInFlight THEN Len(all) ELSE MaxInFlight
<1>1. all \in Seq(S) /\ n \in Nat /\ n <= Len(all)
    BY CircuitAssumption
<1>2. \A j \in 1 .. Len(all) : all[j] \in SetOf(queue) \cup SetOf(packets)
    <2>1. TAKE j \in 1 .. Len(all)
    <2>2. CASE j <= Len(queue)
        BY <2>2 DEF SetOf
    <2>3. CASE j > Len(queue)
        <3>1. all[j] = packets[j - Len(queue)] /\ j - Len(queue) \in DOMAIN packets
            BY <2>3
        <3>2. QED BY <3>1 DEF SetOf
    <2>4. QED BY <2>2, <2>3
<1> HIDE DEF all
<1>3. SubSeq(all, 1, n) \in Seq(S)
    BY <1>1
<1>4. \A j \in DOMAIN SubSeq(all, 1, n) : j \in 1 .. Len(all) /\ SubSeq(all, 1, n)[j] = all[j]
    BY <1>1
<1>5. QED BY <1>2, <1>3, <1>4 DEF Transmit, SetOf, all

LEMMA MessageType ==
    ASSUME NEW kind \in Kind, NEW id \in PacketID, NEW acks \in SUBSET PacketID
    PROVE  /\ Message(kind, id, acks) \in Packet
           /\ Message(kind, id, acks).id = id
           /\ Message(kind, id, acks).acks = acks
BY ModulusAssumption DEF Message, Packet, PacketID

LEMMA PeerType == \A h \in Host : Peer(h) \in Host /\ Peer(h) # h
BY CircuitAssumption DEF Peer, Host

LEMMA ArrivalType ==
    ASSUME TypeOK, NEW h \in Host, NEW i, NEW kept, Arrival(h, i, kept)
    PROVE  /\ net[h][i] \in Packet
           /\ net[h][i] \in SetOf(net[h])
           /\ AfterArrival(h, i, kept) \in Seq(Packet)
           /\ SetOf(AfterArrival(h, i, kept)) \subseteq SetOf(net[h])
<1>1. net[h] \in Seq(Packet) /\ i \in DOMAIN net[h]
    BY DEF TypeOK, Arrival
<1>2. Remove(net[h], i) \in Seq(Packet) /\ SetOf(Remove(net[h], i)) \subseteq SetOf(net[h])
    BY <1>1, RemoveType
<1>3. QED BY <1>1, <1>2 DEF AfterArrival, SetOf
-----------------------------------------------------------------------------
(* Type correctness *)

\* The part of TypeOK about the packets a host sent, in terms of one step.
LEMMA SendMessageType ==
    ASSUME TypeOK, NEW h \in Host, NEW message \in Packet,
           SendMessage(h, message)
    PROVE  /\ mPacketsOutID' \in [Host -> PacketID]
           /\ mAcks' \in [Host -> SUBSET PacketID]
           /\ net' \in [Host -> Seq(Packet)]
<1>1. message.id \in PacketID
    BY DEF Packet
<1>2. <<message>> \in Seq(Packet) /\ net[Peer(h)] \in Seq(Packet)
    BY PeerType DEF TypeOK
<1>3. Transmit(net[Peer(h)], <<message>>) \in Seq(Packet)
    BY <1>2, TransmitType
<1>4. QED BY <1>1, <1>3, PeerType DEF TypeOK, SendMessage

LEMMA AckReliablePacketsType ==
    ASSUME TypeOK, NEW h \in Host, NEW ids, AckReliablePackets(h, ids)
    PROVE  PendingType'
<1> DEFINE acked == Pending(h) \cap ids
<1>1. acked \subseteq PacketID
    BY DEF TypeOK, PendingType, Pending, PartialFunction
<1>2. Cardinality(acked) \in Int
    BY <1>1, PacketIDFinite, FS_CardinalityType
<1>3. PartialFunction(Without(mUnackedPackets[h], ids), PacketID, ReliablePacket)
    BY DEF TypeOK, PendingType, PartialFunction, Without
<1>4. PartialFunction(Without(mFinalRetryPackets[h], ids), PacketID, ReliablePacket)
    BY DEF TypeOK, PendingType, PartialFunction, Without
<1>5. PartialFunction(Answer(h, acked, "LL_ERR_NOERR"), PacketID, Seq(Result))
    BY DEF TypeOK, PendingType, PartialFunction, Answer, Result
<1>6. CountAfter(h, ids) \in Int
    BY <1>2 DEF TypeOK, PendingType, CountAfter
<1> HIDE DEF acked
<1>7. QED BY <1>3, <1>4, <1>5, <1>6 DEF TypeOK, PendingType, AckReliablePackets, acked

LEMMA AbortPacketsType ==
    ASSUME TypeOK, NEW h \in Host, NEW acked, AbortPackets(h, acked)
    PROVE  PendingType'
<1>1. Pending(h) \subseteq PacketID
    BY DEF TypeOK, PendingType, Pending, PartialFunction
<1>2. Cardinality(Pending(h)) \in Int
    BY <1>1, PacketIDFinite, FS_CardinalityType
<1>3. PartialFunction(NoPackets, PacketID, ReliablePacket)
    BY DEF NoPackets, PartialFunction
<1>4. PartialFunction(callbacks[h], PacketID, Seq(Result))
    BY DEF TypeOK, PendingType
<1>5. PartialFunction(callbacks'[h], PacketID, Seq(Result))
    <2>1. \A i : Aborted(i, acked) \in Result
        BY DEF Aborted, Result
    <2>2. callbacks'[h] = [i \in DOMAIN callbacks[h] |->
                IF i \in Pending(h) THEN Append(callbacks[h][i], Aborted(i, acked))
                                    ELSE callbacks[h][i]]
        BY DEF TypeOK, PendingType, AbortPackets
    <2>3. QED BY <1>4, <2>1, <2>2 DEF PartialFunction
<1>6. \A g \in Host : /\ PartialFunction(mUnackedPackets'[g], PacketID, ReliablePacket)
                      /\ PartialFunction(mFinalRetryPackets'[g], PacketID, ReliablePacket)
                      /\ PartialFunction(callbacks'[g], PacketID, Seq(Result))
    <2>1. TAKE g \in Host
    <2>2. CASE g = h
        BY <1>3, <1>5, <2>2 DEF TypeOK, PendingType, AbortPackets
    <2>3. CASE g # h
        BY <2>3 DEF TypeOK, PendingType, AbortPackets
    <2>4. QED BY <2>2, <2>3
<1>7. /\ DOMAIN mUnackedPackets' = Host
      /\ DOMAIN mFinalRetryPackets' = Host
      /\ DOMAIN callbacks' = Host
    BY DEF TypeOK, PendingType, AbortPackets
<1>8. mUnackedPacketCount' \in [Host -> Int] /\ mUnackedCircuitMap' \subseteq Host
    BY <1>2 DEF TypeOK, PendingType, AbortPackets
<1>9. QED BY <1>6, <1>7, <1>8 DEF PendingType

LEMMA ForgetCircuitType ==
    ASSUME TypeOK, NEW h \in Host, ForgetCircuit(h)
    PROVE  /\ mCircuitData' \subseteq Host
           /\ mSendAckMap' \subseteq Host
           /\ mAcks' \in [Host -> SUBSET PacketID]
           /\ mRecentlyReceivedReliablePackets' \in [Host -> SUBSET PacketID]
BY DEF TypeOK, ForgetCircuit

LEMMA CollectRAckType ==
    ASSUME TypeOK, NEW h \in Host, NEW id \in PacketID, CollectRAck(h, id)
    PROVE  /\ mAcks' \in [Host -> SUBSET PacketID]
           /\ mSendAckMap' \subseteq Host
BY DEF TypeOK, CollectRAck

LEMMA CheckPacketInIDType ==
    ASSUME TypeOK, NEW h \in Host, NEW id \in PacketID, CheckPacketInID(h, id)
    PROVE  mHighestPacketID' \in [Host -> PacketID]
<1>1. HighestPacketID(mHighestPacketID[h], id) \in PacketID
    BY HighestIDType DEF TypeOK
<1>2. QED BY <1>1 DEF TypeOK, CheckPacketInID

LEMMA OnceMoreType ==
    ASSUME TypeOK, NEW g \in Host, NEW id \in PacketID
    PROVE  [handled EXCEPT ![g][id] = OnceMore(@)] \in [Host -> [PacketID -> 0 .. 2]]
<1>1. handled[g] \in [PacketID -> 0 .. 2] /\ OnceMore(handled[g][id]) \in 0 .. 2
    BY DEF TypeOK, OnceMore
<1>2. QED BY <1>1 DEF TypeOK

LEMMA InitType == Init => TypeOK
<1> SUFFICES ASSUME Init PROVE TypeOK
    OBVIOUS
<1>1. 0 \in PacketID
    BY ModulusAssumption DEF PacketID
<1>2. PendingType
    BY <1>1 DEF Init, PendingType, PartialFunction, NoPackets
<1>3. QED BY <1>1, <1>2 DEF Init, TypeOK

LEMMA SendReliableType ==
    ASSUME TypeOK, NEW h \in Host, NEW retries \in Retries, NEW closes \in Closing,
           NEW take \in SUBSET mAcks[h], SendReliable(h, retries, closes, take)
    PROVE  TypeOK'
<1> DEFINE id == NextPacketOutID(mPacketsOutID[h])
           packet == [mRetries |-> retries, closes |-> closes]
           message == [Message("Data", id, take) EXCEPT !.reliable = TRUE, !.closes = closes]
<1>1. id \in PacketID
    BY NextIDType DEF TypeOK
<1>2. take \in SUBSET PacketID
    BY DEF TypeOK
<1> HIDE DEF id
<1>3. message \in Packet
    BY <1>1, <1>2, MessageType, CircuitAssumption DEF Packet, Message, Kind
<1>4. packet \in ReliablePacket
    BY CircuitAssumption DEF ReliablePacket
<1>5. SendMessage(h, message)
    BY DEF SendReliable, id
<1>6. AddReliablePacket(h, id, retries, closes)
    BY DEF SendReliable, id
<1> HIDE DEF message, packet
<1>7. mPacketsOutID' \in [Host -> PacketID] /\ mAcks' \in [Host -> SUBSET PacketID]
      /\ net' \in [Host -> Seq(Packet)]
    BY <1>3, <1>5, SendMessageType
<1>8. PendingType'
    <2>1. PartialFunction(With(mUnackedPackets[h], id, packet), PacketID, ReliablePacket)
        BY <1>1, <1>4 DEF TypeOK, PendingType, PartialFunction, With
    <2>2. PartialFunction(With(mFinalRetryPackets[h], id, packet), PacketID, ReliablePacket)
        BY <1>1, <1>4 DEF TypeOK, PendingType, PartialFunction, With
    <2>3. PartialFunction(With(callbacks[h], id, <<>>), PacketID, Seq(Result))
        BY <1>1 DEF TypeOK, PendingType, PartialFunction, With
    <2>4. mUnackedCircuitMap' \subseteq Host
        BY DEF SendReliable, TypeOK, PendingType
    <2>5. QED BY <1>6, <2>1, <2>2, <2>3, <2>4
              DEF AddReliablePacket, packet, TypeOK, PendingType
<1>9. QED BY <1>7, <1>8 DEF SendReliable, TypeOK

LEMMA SendUnreliableType ==
    ASSUME TypeOK, NEW h \in Host, NEW closes \in Closing,
           NEW take \in SUBSET mAcks[h], SendUnreliable(h, closes, take)
    PROVE  TypeOK'
<1> DEFINE id == NextPacketOutID(mPacketsOutID[h])
           message == [Message("Data", id, take) EXCEPT !.closes = closes]
<1>1. id \in PacketID /\ take \in SUBSET PacketID
    BY NextIDType DEF TypeOK
<1>2. SendMessage(h, message)
    BY DEF SendUnreliable
<1> HIDE DEF id
<1>3. message \in Packet
    BY <1>1, MessageType, CircuitAssumption DEF Packet, Message, Kind
<1> HIDE DEF message
<1>4. mPacketsOutID' \in [Host -> PacketID] /\ mAcks' \in [Host -> SUBSET PacketID]
      /\ net' \in [Host -> Seq(Packet)]
    BY <1>2, <1>3, SendMessageType
<1>5. QED BY <1>4 DEF SendUnreliable, TypeOK, PendingType, circuitVars

LEMMA RemoveCircuitType ==
    ASSUME TypeOK, NEW h \in Host, RemoveCircuit(h)
    PROVE  TypeOK'
<1>1. ForgetCircuit(h) /\ AbortPackets(h, {})
    BY DEF RemoveCircuit
<1>2. PendingType'
    BY <1>1, AbortPacketsType
<1>3. QED BY <1>1, <1>2, ForgetCircuitType DEF RemoveCircuit, TypeOK

LEMMA LoseType ==
    ASSUME TypeOK, NEW h \in Host, NEW i \in DOMAIN net[h], Lose(h, i)
    PROVE  TypeOK'
<1>1. Remove(net[h], i) \in Seq(Packet)
    BY RemoveType DEF TypeOK
<1>2. QED BY <1>1 DEF Lose, TypeOK, PendingType, circuitVars, receiveVars

LEMMA ResendType ==
    ASSUME TypeOK, NEW h \in Host, NEW n \in Nat,
           NEW resends \in [1 .. n -> DOMAIN mUnackedPackets[h]],
           NEW dropped \in SUBSET DOMAIN mUnackedPackets[h],
           NEW expired \in SUBSET DOMAIN mFinalRetryPackets[h],
           ResendUnackedPackets(h, resends, dropped, expired)
    PROVE  PendingType'
<1> DEFINE unacked == mUnackedPackets[h]
           resent  == SetOf(resends)
           last    == {i \in resent : Retried(unacked[i]).mRetries = 0}
           left(i) == Retried(unacked[i])
           failed  == dropped \cup expired
<1>1. resent \subseteq DOMAIN unacked
    BY DEF SetOf
<1>2. PartialFunction(unacked, PacketID, ReliablePacket)
    BY DEF TypeOK, PendingType
<1>3. PartialFunction(mFinalRetryPackets[h], PacketID, ReliablePacket)
    BY DEF TypeOK, PendingType
<1> HIDE DEF unacked, resent
<1>4. \A i \in resent : left(i) \in ReliablePacket
    <2>1. \A i \in resent : unacked[i] \in ReliablePacket
        BY <1>1, <1>2 DEF PartialFunction
    <2>2. \A r \in ReliablePacket : Retried(r) \in ReliablePacket
        BY DEF ReliablePacket, Retried
    <2>3. QED BY <2>1, <2>2
<1>5. failed \subseteq PacketID
    BY <1>2, <1>3 DEF PartialFunction, unacked
<1>6. Cardinality(failed) \in Int
    BY <1>5, PacketIDFinite, FS_CardinalityType
<1> HIDE DEF left, failed
<1>7. PartialFunction([i \in DOMAIN unacked \ (last \cup dropped) |->
                            IF i \in resent THEN left(i) ELSE unacked[i]],
                      PacketID, ReliablePacket)
    BY <1>2, <1>4 DEF PartialFunction
<1>8. PartialFunction([i \in (DOMAIN mFinalRetryPackets[h] \ expired) \cup last |->
                            IF i \in last THEN left(i) ELSE mFinalRetryPackets[h][i]],
                      PacketID, ReliablePacket)
    BY <1>1, <1>2, <1>3, <1>4 DEF PartialFunction
<1>9. PartialFunction(Answer(h, failed, "LL_ERR_TCP_TIMEOUT"), PacketID, Seq(Result))
    BY DEF TypeOK, PendingType, PartialFunction, Answer, Result
<1>10. /\ mUnackedPackets' = [mUnackedPackets EXCEPT ![h] =
                [i \in DOMAIN unacked \ (last \cup dropped) |->
                            IF i \in resent THEN left(i) ELSE unacked[i]]]
       /\ mFinalRetryPackets' = [mFinalRetryPackets EXCEPT ![h] =
                [i \in (DOMAIN mFinalRetryPackets[h] \ expired) \cup last |->
                            IF i \in last THEN left(i) ELSE mFinalRetryPackets[h][i]]]
       /\ mUnackedPacketCount' =
                [mUnackedPacketCount EXCEPT ![h] = @ - Cardinality(failed)]
       /\ callbacks' = [callbacks EXCEPT ![h] = Answer(h, failed, "LL_ERR_TCP_TIMEOUT")]
       /\ UNCHANGED mUnackedCircuitMap
    BY DEF ResendUnackedPackets, StillUnacked, unacked, resent, left, failed
<1>11. /\ DOMAIN mUnackedPackets' = Host /\ DOMAIN mFinalRetryPackets' = Host
       /\ DOMAIN callbacks' = Host
    BY <1>10 DEF TypeOK, PendingType
<1>12. ASSUME NEW g \in Host
       PROVE  /\ PartialFunction(mUnackedPackets'[g], PacketID, ReliablePacket)
              /\ PartialFunction(mFinalRetryPackets'[g], PacketID, ReliablePacket)
              /\ PartialFunction(callbacks'[g], PacketID, Seq(Result))
    <2>1. CASE g = h
        BY <1>7, <1>8, <1>9, <1>10, <2>1 DEF TypeOK, PendingType
    <2>2. CASE g # h
        BY <1>10, <2>2 DEF TypeOK, PendingType
    <2>3. QED BY <2>1, <2>2
<1>13. mUnackedPacketCount' \in [Host -> Int] /\ mUnackedCircuitMap' \subseteq Host
    BY <1>6, <1>10 DEF TypeOK, PendingType
<1>14. QED BY <1>11, <1>12, <1>13 DEF PendingType

\* What a frame sends: a ping, copies of packets, and a PacketAck, or less.
LEMMA FramePacketsType ==
    ASSUME TypeOK, NEW h \in Host, NEW n \in Nat,
           NEW resends \in [1 .. n -> DOMAIN mUnackedPackets[h]],
           NEW ping \in Seq(Packet), NEW ack \in Seq(Packet)
    PROVE  ping \o [i \in DOMAIN resends |-> Resent(h, resends[i])] \o ack \in Seq(Packet)
<1> DEFINE copies == [i \in DOMAIN resends |-> Resent(h, resends[i])]
<1>1. \A i \in DOMAIN resends : Resent(h, resends[i]) \in Packet
    <2>1. TAKE i \in DOMAIN resends
    <2> DEFINE id == resends[i]
    <2>2. id \in PacketID /\ mUnackedPackets[h][id].closes \in BOOLEAN
        BY DEF TypeOK, PendingType, PartialFunction, ReliablePacket
    <2> HIDE DEF id
    <2>3. Message("Data", id, {}) \in Packet
        BY <2>2, MessageType DEF Kind
    <2>4. Resent(h, id) \in Packet
        BY <2>2, <2>3 DEF Resent, Packet
    <2>5. QED BY <2>4 DEF id
<1>2. copies \in [1 .. n -> Packet]
    BY <1>1
<1>3. copies \in Seq(Packet)
    BY <1>2, SeqDef
<1> HIDE DEF copies
<1>4. ping \o copies \o ack \in Seq(Packet)
    BY <1>3
<1>5. QED BY <1>4 DEF copies

LEMMA ProcessAcksType ==
    ASSUME TypeOK, NEW h \in Host, NEW pinged \in BOOLEAN, NEW n \in Nat,
           NEW take \in SUBSET mAcks[h],
           NEW resends \in [1 .. n -> DOMAIN mUnackedPackets[h]],
           NEW dropped \in SUBSET DOMAIN mUnackedPackets[h],
           NEW expired \in SUBSET DOMAIN mFinalRetryPackets[h],
           ProcessAcks(h, pinged, take, resends, dropped, expired)
    PROVE  TypeOK'
<1> DEFINE out     == mPacketsOutID[h]
           pingID  == NextPacketOutID(out)
           ackID   == NextPacketOutID(IF pinged THEN pingID ELSE out)
           oldest  == OldestUnacked(out, DOMAIN mUnackedPackets[h],
                                         DOMAIN mFinalRetryPackets[h])
           left    == IF pinged THEN mAcks[h] \ take ELSE mAcks[h]
           sendAck == h \in mSendAckMap /\ left # {}
           ping    == IF pinged
                      THEN <<[Message("StartPingCheck", pingID, take) EXCEPT !.oldest = oldest]>>
                      ELSE <<>>
           copies  == [i \in DOMAIN resends |-> Resent(h, resends[i])]
           ack     == IF sendAck THEN <<Message("PacketAck", ackID, left)>> ELSE <<>>
<1>1. out \in PacketID /\ pingID \in PacketID /\ ackID \in PacketID
    BY NextIDType DEF TypeOK
<1>2. oldest \in PacketID
    BY OldestUnackedType DEF TypeOK, PendingType, PartialFunction
<1>3. left \in SUBSET PacketID /\ take \in SUBSET PacketID
    BY DEF TypeOK
<1>4. /\ mLastPingID' = [mLastPingID EXCEPT ![h] = IF pinged THEN @ + 1 ELSE @]
      /\ ResendUnackedPackets(h, resends, dropped, expired)
      /\ mPacketsOutID' = [mPacketsOutID EXCEPT ![h] =
                CASE sendAck -> ackID [] ~sendAck /\ pinged -> pingID [] OTHER -> @]
      /\ mAcks' = [mAcks EXCEPT ![h] = IF sendAck THEN {} ELSE left]
      /\ mSendAckMap' = mSendAckMap \ {h}
      /\ net' = [net EXCEPT ![Peer(h)] = Transmit(@, ping \o copies \o ack)]
      /\ UNCHANGED <<mCircuitData, mHighestPacketID, handled,
                     mRecentlyReceivedReliablePackets>>
    BY DEF ProcessAcks
<1> HIDE DEF pingID, ackID, oldest, left, sendAck
<1>5. ping \in Seq(Packet)
    <2>1. Message("StartPingCheck", pingID, take) \in Packet
        BY <1>1, <1>3, MessageType DEF Kind
    <2>2. [Message("StartPingCheck", pingID, take) EXCEPT !.oldest = oldest] \in Packet
        BY <1>2, <2>1 DEF Packet
    <2>3. QED BY <2>2
<1>6. ack \in Seq(Packet)
    <2>1. Message("PacketAck", ackID, left) \in Packet
        BY <1>1, <1>3, MessageType DEF Kind
    <2>2. QED BY <2>1
<1> HIDE DEF ping, ack
<1>7. ping \o copies \o ack \in Seq(Packet)
    BY <1>5, <1>6, FramePacketsType
<1> HIDE DEF copies
<1>8. Transmit(net[Peer(h)], ping \o copies \o ack) \in Seq(Packet)
    BY <1>7, TransmitType, PeerType DEF TypeOK
<1>9. net' \in [Host -> Seq(Packet)]
    BY <1>4, <1>8, PeerType DEF TypeOK
<1>10. PendingType'
    BY <1>4, ResendType
<1>11. mPacketsOutID' \in [Host -> PacketID]
    BY <1>1, <1>4 DEF TypeOK
<1>12. QED BY <1>3, <1>4, <1>9, <1>10, <1>11 DEF TypeOK

LEMMA ReceiveOffCircuitType ==
    ASSUME TypeOK, NEW h \in Host, NEW i, NEW kept, ReceiveOffCircuit(h, i, kept)
    PROVE  TypeOK'
<1>1. AfterArrival(h, i, kept) \in Seq(Packet)
    BY ArrivalType DEF ReceiveOffCircuit
<1>2. QED BY <1>1 DEF ReceiveOffCircuit, TypeOK, PendingType, circuitVars, receiveVars

LEMMA ReceiveDuplicateResendType ==
    ASSUME TypeOK, NEW h \in Host, NEW i, NEW kept, ReceiveDuplicateResend(h, i, kept)
    PROVE  TypeOK'
<1> DEFINE p == net[h][i]
<1>1. p \in Packet /\ AfterArrival(h, i, kept) \in Seq(Packet)
    BY ArrivalType DEF ReceiveDuplicateResend
<1>2. p.id \in PacketID
    BY <1>1 DEF Packet
<1>3. PendingType'
    BY AckReliablePacketsType DEF ReceiveDuplicateResend
<1>4. mAcks' \in [Host -> SUBSET PacketID] /\ mSendAckMap' \subseteq Host
    BY <1>2, CollectRAckType DEF ReceiveDuplicateResend
<1>5. QED BY <1>1, <1>3, <1>4 DEF ReceiveDuplicateResend, TypeOK

LEMMA ReceiveDataType ==
    ASSUME TypeOK, NEW h \in Host, NEW i, NEW kept, ReceiveData(h, i, kept)
    PROVE  TypeOK'
<1> DEFINE p == net[h][i]
<1>1. p \in Packet /\ AfterArrival(h, i, kept) \in Seq(Packet)
    BY ArrivalType DEF ReceiveData
<1>2. p.id \in PacketID
    BY <1>1 DEF Packet
<1>3. PendingType'
    BY AckReliablePacketsType DEF ReceiveData
<1>4. mHighestPacketID' \in [Host -> PacketID]
    BY <1>2, CheckPacketInIDType DEF ReceiveData
<1>5. /\ mAcks' \in [Host -> SUBSET PacketID] /\ mSendAckMap' \subseteq Host
      /\ mRecentlyReceivedReliablePackets' \in [Host -> SUBSET PacketID]
    <2>1. CASE p.reliable
        BY <1>2, <2>1, CollectRAckType DEF ReceiveData, TypeOK
    <2>2. CASE ~p.reliable
        BY <2>2 DEF ReceiveData, TypeOK
    <2>3. QED BY <2>1, <2>2
<1>6. handled' \in [Host -> [PacketID -> 0 .. 2]]
    <2>1. [handled EXCEPT ![Peer(h)][p.id] = OnceMore(@)] \in [Host -> [PacketID -> 0 .. 2]]
        BY <1>2, PeerType, OnceMoreType
    <2>2. handled' \in {handled, [handled EXCEPT ![Peer(h)][p.id] = OnceMore(@)]}
        BY DEF ReceiveData
    <2>3. QED BY <2>1, <2>2 DEF TypeOK
<1>7. QED BY <1>1, <1>3, <1>4, <1>5, <1>6 DEF ReceiveData, TypeOK

LEMMA ReceiveClosingDataType ==
    ASSUME TypeOK, NEW h \in Host, NEW i, NEW kept, ReceiveClosingData(h, i, kept)
    PROVE  TypeOK'
<1> DEFINE p == net[h][i]
<1>1. p \in Packet /\ AfterArrival(h, i, kept) \in Seq(Packet)
    BY ArrivalType DEF ReceiveClosingData
<1>2. p.id \in PacketID
    BY <1>1 DEF Packet
<1>3. PendingType'
    BY AbortPacketsType DEF ReceiveClosingData
<1>4. mHighestPacketID' \in [Host -> PacketID]
    BY <1>2, CheckPacketInIDType DEF ReceiveClosingData
<1>5. /\ mCircuitData' \subseteq Host /\ mSendAckMap' \subseteq Host
      /\ mAcks' \in [Host -> SUBSET PacketID]
      /\ mRecentlyReceivedReliablePackets' \in [Host -> SUBSET PacketID]
    BY ForgetCircuitType DEF ReceiveClosingData
<1>6. handled' \in [Host -> [PacketID -> 0 .. 2]]
    <2>1. [handled EXCEPT ![Peer(h)][p.id] = OnceMore(@)] \in [Host -> [PacketID -> 0 .. 2]]
        BY <1>2, PeerType, OnceMoreType
    <2>2. handled' \in {handled, [handled EXCEPT ![Peer(h)][p.id] = OnceMore(@)]}
        BY DEF ReceiveClosingData
    <2>3. QED BY <2>1, <2>2 DEF TypeOK
<1>7. QED BY <1>1, <1>3, <1>4, <1>5, <1>6 DEF ReceiveClosingData, TypeOK

LEMMA ReceiveReplyType ==
    ASSUME TypeOK, NEW h \in Host, NEW i, NEW kept, ReceiveReply(h, i, kept)
    PROVE  TypeOK'
<1>1. net[h][i] \in Packet /\ AfterArrival(h, i, kept) \in Seq(Packet)
    BY ArrivalType DEF ReceiveReply
<1>2. net[h][i].id \in PacketID
    BY <1>1 DEF Packet
<1>3. PendingType'
    BY AckReliablePacketsType DEF ReceiveReply
<1>4. mHighestPacketID' \in [Host -> PacketID]
    BY <1>2, CheckPacketInIDType DEF ReceiveReply
<1>5. QED BY <1>1, <1>3, <1>4 DEF ReceiveReply, TypeOK

LEMMA ReceiveStartPingCheckType ==
    ASSUME TypeOK, NEW h \in Host, NEW i, NEW kept, NEW take \in SUBSET mAcks[h],
           NEW timedOut, ReceiveStartPingCheck(h, i, kept, take, timedOut)
    PROVE  TypeOK'
<1> DEFINE id    == NextPacketOutID(mPacketsOutID[h])
           reply == Message("CompletePingCheck", id, take)
<1>1. net[h][i] \in Packet /\ AfterArrival(h, i, kept) \in Seq(Packet)
    BY ArrivalType DEF ReceiveStartPingCheck
<1>2. net[h][i].id \in PacketID
    BY <1>1 DEF Packet
<1>3. id \in PacketID /\ take \in SUBSET PacketID
    BY NextIDType DEF TypeOK
<1>4. PendingType'
    BY AckReliablePacketsType DEF ReceiveStartPingCheck
<1>5. mHighestPacketID' \in [Host -> PacketID]
    BY <1>2, CheckPacketInIDType DEF ReceiveStartPingCheck
<1>6. mRecentlyReceivedReliablePackets' \in [Host -> SUBSET PacketID]
    BY DEF ReceiveStartPingCheck, ClearDuplicateList, TypeOK
<1>7. net' = [net EXCEPT ![h] = AfterArrival(h, i, kept),
                         ![Peer(h)] = Transmit(@, <<reply>>)]
    BY DEF ReceiveStartPingCheck
<1>8. mPacketsOutID' = [mPacketsOutID EXCEPT ![h] = id]
    BY DEF ReceiveStartPingCheck
<1> HIDE DEF id
<1>9. reply \in Packet
    BY <1>3, MessageType DEF Kind
<1> HIDE DEF reply
<1>10. Transmit(net[Peer(h)], <<reply>>) \in Seq(Packet)
    <2>1. <<reply>> \in Seq(Packet) /\ net[Peer(h)] \in Seq(Packet)
        BY <1>9, PeerType DEF TypeOK
    <2>2. QED BY <2>1, TransmitType
<1>11. net' \in [Host -> Seq(Packet)]
    BY <1>1, <1>7, <1>10, PeerType DEF TypeOK
<1>12. /\ mAcks' = [mAcks EXCEPT ![h] = @ \ take]
       /\ UNCHANGED <<mCircuitData, mLastPingID, mSendAckMap, handled>>
    BY DEF ReceiveStartPingCheck
<1>13. mPacketsOutID' \in [Host -> PacketID] /\ mAcks' \in [Host -> SUBSET PacketID]
    BY <1>3, <1>8, <1>12 DEF TypeOK
<1>14. QED BY <1>4, <1>5, <1>6, <1>11, <1>12, <1>13 DEF TypeOK

LEMMA NextType == TypeOK /\ [Next]_vars => TypeOK'
<1> SUFFICES ASSUME TypeOK, [Next]_vars PROVE TypeOK'
    OBVIOUS
<1>1. CASE UNCHANGED vars
    BY <1>1 DEF vars, circuitVars, receiveVars, TypeOK, PendingType
<1>2. ASSUME NEW h \in Host, Send(h)
      PROVE  TypeOK'
    BY <1>2, SendReliableType, SendUnreliableType DEF Send
<1>3. ASSUME NEW h \in Host, RemoveCircuit(h)
      PROVE  TypeOK'
    BY <1>3, RemoveCircuitType
<1>4. ASSUME NEW h \in Host, Frame(h)
      PROVE  TypeOK'
    <2>1. PICK n \in 0 .. Cardinality(DOMAIN mUnackedPackets[h]) :
            \E pinged \in BOOLEAN, take \in SUBSET mAcks[h],
               expired \in SUBSET DOMAIN mFinalRetryPackets[h],
               resends \in [1 .. n -> DOMAIN mUnackedPackets[h]],
               dropped \in SUBSET DOMAIN mUnackedPackets[h] :
                    ProcessAcks(h, pinged, take, resends, dropped, expired)
        BY <1>4 DEF Frame
    <2>2. n \in Nat
        OBVIOUS
    <2>3. QED BY <2>1, <2>2, ProcessAcksType
<1>5. ASSUME NEW h \in Host, Receive(h)
      PROVE  TypeOK'
    BY <1>5, ReceiveOffCircuitType, ReceiveDuplicateResendType, ReceiveDataType,
       ReceiveClosingDataType, ReceiveReplyType, ReceiveStartPingCheckType DEF Receive
<1>6. ASSUME NEW h \in Host, NEW i \in DOMAIN net[h], Lose(h, i)
      PROVE  TypeOK'
    BY <1>6, LoseType
<1>7. QED BY <1>1, <1>2, <1>3, <1>4, <1>5, <1>6 DEF Next

\* Every reachable state of two circuits is well typed, for any id space, any
\* retry counts and any bounds.
THEOREM TypeInvariant == Spec => []TypeOK
<1>1. Init => TypeOK
    BY InitType
<1>2. TypeOK /\ [Next]_vars => TypeOK'
    BY NextType
<1>3. QED BY <1>1, <1>2, PTL DEF Spec
-----------------------------------------------------------------------------
(* An ack is evidence that the peer handled the packet *)

Remembered == \A h \in Host :
    \A i \in mAcks[h] \cup mRecentlyReceivedReliablePackets[h] : handled[Peer(h)][i] > 0
InFlight == \A h \in Host :
    \A p \in SetOf(net[h]) : \A i \in p.acks : handled[h][i] > 0
Reported == \A h \in Host :
    \A i \in DOMAIN callbacks[h] : \A k \in DOMAIN callbacks[h][i] :
        callbacks[h][i][k] = "LL_ERR_NOERR" => handled[h][i] > 0

LEMMA AcksFollowHandlingParts ==
    AcksFollowHandling <=> Remembered /\ InFlight /\ Reported
BY DEF AcksFollowHandling, Remembered, InFlight, Reported

LEMMA AcksFollowHandlingNext ==
    Remembered' /\ InFlight' /\ Reported' => AcksFollowHandling'
BY DEF AcksFollowHandling, Remembered, InFlight, Reported

\* What was handled stays handled.
HandledStays ==
    \A h \in Host, i \in PacketID : handled[h][i] > 0 => handled'[h][i] > 0

LEMMA OnceMoreStays ==
    ASSUME TypeOK, NEW g \in Host, NEW id \in PacketID,
           handled' = [handled EXCEPT ![g][id] = OnceMore(@)]
    PROVE  HandledStays /\ handled'[g][id] > 0
<1>1. handled[g] \in [PacketID -> 0 .. 2] /\ handled \in [Host -> [PacketID -> 0 .. 2]]
    BY DEF TypeOK
<1>2. OnceMore(handled[g][id]) > 0
    BY <1>1 DEF OnceMore
<1>3. handled'[g][id] = OnceMore(handled[g][id])
    BY <1>1
<1>4. ASSUME NEW h \in Host, NEW i \in PacketID, handled[h][i] > 0
      PROVE  handled'[h][i] > 0
    <2>1. CASE h = g /\ i = id
        BY <1>2, <1>3, <2>1
    <2>2. CASE ~(h = g /\ i = id)
        BY <1>1, <1>4, <2>2
    <2>3. QED BY <2>1, <2>2
<1>5. QED BY <1>2, <1>3, <1>4 DEF HandledStays

LEMMA PeerOfPeer == \A h \in Host : Peer(Peer(h)) = h
BY CircuitAssumption DEF Peer, Host

\* Acks that are evidence are reported as such.
LEMMA AckEvidence ==
    ASSUME TypeOK, Reported, HandledStays, NEW h \in Host, NEW ids,
           AckReliablePackets(h, ids), \A i \in ids : handled[h][i] > 0
    PROVE  Reported'
<1> SUFFICES ASSUME NEW g \in Host, NEW i \in DOMAIN callbacks'[g],
                    NEW k \in DOMAIN callbacks'[g][i],
                    callbacks'[g][i][k] = "LL_ERR_NOERR"
             PROVE  handled'[g][i] > 0
    BY DEF Reported
<1>1. DOMAIN callbacks = Host /\ PartialFunction(callbacks[g], PacketID, Seq(Result))
    BY DEF TypeOK, PendingType
<1>2. callbacks' = [callbacks EXCEPT ![h] = Answer(h, Pending(h) \cap ids, "LL_ERR_NOERR")]
    BY DEF AckReliablePackets
<1>3. i \in DOMAIN callbacks[g] /\ i \in PacketID
    BY <1>1, <1>2 DEF Answer, PartialFunction
<1>4. CASE g = h /\ i \in ids
    BY <1>3, <1>4 DEF HandledStays
<1>5. CASE ~(g = h /\ i \in ids)
    <2>1. callbacks'[g][i] = callbacks[g][i]
        BY <1>1, <1>2, <1>3, <1>5 DEF Answer
    <2>2. QED BY <1>3, <2>1 DEF Reported, HandledStays
<1>6. QED BY <1>4, <1>5

\* Aborting a circuit reports success only for the packets just acked.
LEMMA AbortEvidence ==
    ASSUME TypeOK, Reported, HandledStays, NEW h \in Host, NEW acked,
           AbortPackets(h, acked), \A i \in acked : handled[h][i] > 0
    PROVE  Reported'
<1> SUFFICES ASSUME NEW g \in Host, NEW i \in DOMAIN callbacks'[g],
                    NEW k \in DOMAIN callbacks'[g][i],
                    callbacks'[g][i][k] = "LL_ERR_NOERR"
             PROVE  handled'[g][i] > 0
    BY DEF Reported
<1>1. DOMAIN callbacks = Host /\ PartialFunction(callbacks[g], PacketID, Seq(Result))
    BY DEF TypeOK, PendingType
<1>2. callbacks' = [callbacks EXCEPT ![h] =
            [j \in DOMAIN @ |-> IF j \in Pending(h)
                                THEN Append(@[j], Aborted(j, acked)) ELSE @[j]]]
    BY DEF AbortPackets
<1>3. i \in DOMAIN callbacks[g] /\ i \in PacketID /\ callbacks[g][i] \in Seq(Result)
    BY <1>1, <1>2 DEF PartialFunction
<1>4. CASE g = h /\ i \in acked
    BY <1>3, <1>4 DEF HandledStays
<1>5. CASE ~(g = h /\ i \in acked)
    <2>1. \/ callbacks'[g][i] = callbacks[g][i]
          \/ callbacks'[g][i] = Append(callbacks[g][i], "LL_ERR_CIRCUIT_GONE")
        BY <1>1, <1>2, <1>3, <1>5 DEF Aborted
    <2>2. k \in DOMAIN callbacks[g][i] /\ callbacks[g][i][k] = "LL_ERR_NOERR"
        BY <1>3, <2>1
    <2>3. QED BY <1>3, <2>2 DEF Reported, HandledStays
<1>6. QED BY <1>4, <1>5

\* What joins the network must carry evidence only.
LEMMA InFlightKept ==
    ASSUME TypeOK, InFlight, HandledStays, NEW added \in [Host -> SUBSET Packet],
           \A g \in Host : SetOf(net'[g]) \subseteq SetOf(net[g]) \cup added[g],
           \A g \in Host : \A p \in added[g] : \A i \in p.acks : handled[g][i] > 0
    PROVE  InFlight'
<1> SUFFICES ASSUME NEW g \in Host, NEW p \in SetOf(net'[g]), NEW i \in p.acks
             PROVE  handled'[g][i] > 0
    BY DEF InFlight
<1>1. net[g] \in Seq(Packet)
    BY DEF TypeOK
<1>2. p \in Packet
    BY <1>1 DEF SetOf
<1>3. i \in PacketID
    BY <1>2 DEF Packet
<1>4. handled[g][i] > 0
    BY DEF InFlight
<1>5. QED BY <1>3, <1>4 DEF HandledStays

LEMMA InFlightShrinks ==
    ASSUME TypeOK, InFlight, HandledStays,
           \A g \in Host : SetOf(net'[g]) \subseteq SetOf(net[g])
    PROVE  InFlight'
<1> DEFINE added == [g \in Host |-> {}]
<1>1. added \in [Host -> SUBSET Packet]
    OBVIOUS
<1>2. \A g \in Host : SetOf(net'[g]) \subseteq SetOf(net[g]) \cup added[g]
    OBVIOUS
<1>3. \A g \in Host : \A p \in added[g] : \A i \in p.acks : handled[g][i] > 0
    OBVIOUS
<1> HIDE DEF added
<1>4. QED BY <1>1, <1>2, <1>3, InFlightKept

\* Taking a packet from the network leaves no packet that was not there.
LEMMA ArrivalShrinks ==
    ASSUME TypeOK, NEW h \in Host, NEW i, NEW kept, Arrival(h, i, kept),
           net' = [net EXCEPT ![h] = AfterArrival(h, i, kept)]
    PROVE  \A g \in Host : SetOf(net'[g]) \subseteq SetOf(net[g])
<1>1. SetOf(AfterArrival(h, i, kept)) \subseteq SetOf(net[h])
    BY ArrivalType
<1>2. QED BY <1>1 DEF TypeOK

\* The acks of an arriving packet are evidence.
LEMMA ArrivalEvidence ==
    ASSUME TypeOK, InFlight, NEW h \in Host, NEW i, NEW kept, Arrival(h, i, kept)
    PROVE  \A j \in net[h][i].acks : handled[h][j] > 0
<1>1. net[h][i] \in SetOf(net[h])
    BY ArrivalType
<1>2. QED BY <1>1 DEF InFlight

LEMMA RememberedSame ==
    ASSUME TypeOK, Remembered, HandledStays,
           \A g \in Host : mAcks'[g] \subseteq mAcks[g],
           \A g \in Host : mRecentlyReceivedReliablePackets'[g]
                                \subseteq mRecentlyReceivedReliablePackets[g]
    PROVE  Remembered'
<1> SUFFICES ASSUME NEW g \in Host,
                    NEW i \in mAcks'[g] \cup mRecentlyReceivedReliablePackets'[g]
             PROVE  handled'[Peer(g)][i] > 0
    BY DEF Remembered
<1>1. i \in PacketID /\ handled[Peer(g)][i] > 0
    BY DEF TypeOK, Remembered
<1>2. QED BY <1>1, PeerType DEF HandledStays

LEMMA SameHandledStays == handled' = handled => HandledStays
BY DEF HandledStays

\* Every packet a host sends carries acks it collected.
LEMMA SendMessageEvidence ==
    ASSUME TypeOK, Remembered, InFlight, HandledStays, NEW h \in Host,
           NEW message \in Packet, SendMessage(h, message), message.acks \subseteq mAcks[h],
           mRecentlyReceivedReliablePackets' = mRecentlyReceivedReliablePackets
    PROVE  Remembered' /\ InFlight'
<1>1. mAcks' = [mAcks EXCEPT ![h] = @ \ message.acks]
    BY DEF SendMessage
<1>2. Remembered'
    BY <1>1, RememberedSame DEF TypeOK
<1> DEFINE added == [g \in Host |-> IF g = Peer(h) THEN {message} ELSE {}]
<1>3. added \in [Host -> SUBSET Packet]
    OBVIOUS
<1>4. ASSUME NEW g \in Host
      PROVE  SetOf(net'[g]) \subseteq SetOf(net[g]) \cup added[g]
    <2>1. <<message>> \in Seq(Packet) /\ net[Peer(h)] \in Seq(Packet)
        BY PeerType DEF TypeOK
    <2>2. SetOf(<<message>>) = {message}
        BY DEF SetOf
    <2>3. SetOf(Transmit(net[Peer(h)], <<message>>)) \subseteq SetOf(net[Peer(h)]) \cup {message}
        BY <2>1, <2>2, TransmitType
    <2>4. QED BY <2>3, PeerType DEF SendMessage, TypeOK
<1>5. ASSUME NEW g \in Host, NEW p \in added[g], NEW i \in p.acks
      PROVE  handled[g][i] > 0
    <2>1. g = Peer(h) /\ p = message
        OBVIOUS
    <2>2. QED BY <2>1, PeerType DEF Remembered
<1> HIDE DEF added
<1>6. InFlight'
    BY <1>3, <1>4, <1>5, InFlightKept
<1>7. QED BY <1>2, <1>6

LEMMA InitEvidence == Init => AcksFollowHandling
<1> SUFFICES ASSUME Init PROVE AcksFollowHandling
    OBVIOUS
<1>1. Remembered /\ InFlight /\ Reported
    BY DEF Init, Remembered, InFlight, Reported, NoPackets, SetOf
<1>2. QED BY <1>1, AcksFollowHandlingParts

LEMMA SendReliableEvidence ==
    ASSUME TypeOK, AcksFollowHandling, NEW h \in Host, NEW retries \in Retries,
           NEW closes \in Closing, NEW take \in SUBSET mAcks[h],
           SendReliable(h, retries, closes, take)
    PROVE  AcksFollowHandling'
<1> DEFINE id == NextPacketOutID(mPacketsOutID[h])
           message == [Message("Data", id, take) EXCEPT !.reliable = TRUE, !.closes = closes]
<1>1. HandledStays
    BY SameHandledStays DEF SendReliable
<1>2. id \in PacketID /\ take \in SUBSET PacketID
    BY NextIDType DEF TypeOK
<1>3. SendMessage(h, message)
    BY DEF SendReliable
<1>4. callbacks' = [callbacks EXCEPT ![h] = With(@, id, <<>>)]
    BY DEF SendReliable, AddReliablePacket
<1>5. /\ mRecentlyReceivedReliablePackets' = mRecentlyReceivedReliablePackets
      /\ handled' = handled
    BY DEF SendReliable
<1> HIDE DEF id
<1>6. message \in Packet /\ message.acks = take
    BY <1>2, MessageType, CircuitAssumption DEF Packet, Message, Kind
<1> HIDE DEF message
<1>7. Remembered' /\ InFlight'
    BY <1>1, <1>3, <1>5, <1>6, AcksFollowHandlingParts, SendMessageEvidence
<1>8. Reported'
    BY <1>4, <1>5, AcksFollowHandlingParts DEF Reported, TypeOK, PendingType, With
<1>9. QED BY <1>7, <1>8, AcksFollowHandlingNext

LEMMA SendUnreliableEvidence ==
    ASSUME TypeOK, AcksFollowHandling, NEW h \in Host, NEW closes \in Closing,
           NEW take \in SUBSET mAcks[h], SendUnreliable(h, closes, take)
    PROVE  AcksFollowHandling'
<1> DEFINE id == NextPacketOutID(mPacketsOutID[h])
           message == [Message("Data", id, take) EXCEPT !.closes = closes]
<1>1. HandledStays
    BY SameHandledStays DEF SendUnreliable
<1>2. id \in PacketID /\ take \in SUBSET PacketID
    BY NextIDType DEF TypeOK
<1>3. SendMessage(h, message)
    BY DEF SendUnreliable
<1>4. /\ mRecentlyReceivedReliablePackets' = mRecentlyReceivedReliablePackets
      /\ handled' = handled /\ callbacks' = callbacks
    BY DEF SendUnreliable, circuitVars
<1> HIDE DEF id
<1>5. message \in Packet /\ message.acks = take
    BY <1>2, MessageType, CircuitAssumption DEF Packet, Message, Kind
<1> HIDE DEF message
<1>6. Remembered' /\ InFlight'
    BY <1>1, <1>3, <1>4, <1>5, AcksFollowHandlingParts, SendMessageEvidence
<1>7. Reported'
    BY <1>4, AcksFollowHandlingParts DEF Reported
<1>8. QED BY <1>6, <1>7, AcksFollowHandlingNext

LEMMA ForgetCircuitEvidence ==
    ASSUME TypeOK, Remembered, HandledStays, NEW h \in Host, ForgetCircuit(h)
    PROVE  Remembered'
<1>1. \A g \in Host : mAcks'[g] \subseteq mAcks[g]
    BY DEF ForgetCircuit, TypeOK
<1>2. \A g \in Host : mRecentlyReceivedReliablePackets'[g]
                                \subseteq mRecentlyReceivedReliablePackets[g]
    BY DEF ForgetCircuit, TypeOK
<1>3. QED BY <1>1, <1>2, RememberedSame

LEMMA RemoveCircuitEvidence ==
    ASSUME TypeOK, AcksFollowHandling, NEW h \in Host, RemoveCircuit(h)
    PROVE  AcksFollowHandling'
<1>1. HandledStays /\ net' = net
    BY SameHandledStays DEF RemoveCircuit
<1>2. Remembered'
    BY <1>1, AcksFollowHandlingParts, ForgetCircuitEvidence DEF RemoveCircuit
<1>3. InFlight'
    BY <1>1, AcksFollowHandlingParts, InFlightShrinks
<1>4. Reported'
    BY <1>1, AcksFollowHandlingParts, AbortEvidence DEF RemoveCircuit
<1>5. QED BY <1>2, <1>3, <1>4, AcksFollowHandlingNext

LEMMA LoseEvidence ==
    ASSUME TypeOK, AcksFollowHandling, NEW h \in Host, NEW i \in DOMAIN net[h], Lose(h, i)
    PROVE  AcksFollowHandling'
<1>1. HandledStays /\ callbacks' = callbacks /\ handled' = handled
      /\ mAcks' = mAcks
      /\ mRecentlyReceivedReliablePackets' = mRecentlyReceivedReliablePackets
    BY SameHandledStays DEF Lose, circuitVars, receiveVars
<1>2. SetOf(Remove(net[h], i)) \subseteq SetOf(net[h])
    BY RemoveType DEF TypeOK
<1>3. \A g \in Host : SetOf(net'[g]) \subseteq SetOf(net[g])
    BY <1>2 DEF Lose, TypeOK
<1>4. InFlight'
    BY <1>1, <1>3, AcksFollowHandlingParts, InFlightShrinks
<1>5. Remembered' /\ Reported'
    BY <1>1, AcksFollowHandlingParts DEF Remembered, Reported
<1>6. QED BY <1>4, <1>5, AcksFollowHandlingNext

\* What h may send: packets with no ack but those it collected, and of reliable
\* packets those that it will resend.
Sendable(h) == {p \in Packet : /\ p.acks \subseteq mAcks[h]
                               /\ p.reliable => p.id \in DOMAIN mUnackedPackets[h]}

LEMMA CopiesSendable ==
    ASSUME TypeOK, NEW h \in Host, NEW n \in Nat,
           NEW resends \in [1 .. n -> DOMAIN mUnackedPackets[h]]
    PROVE  [i \in DOMAIN resends |-> Resent(h, resends[i])] \in Seq(Sendable(h))
<1> DEFINE copies == [i \in DOMAIN resends |-> Resent(h, resends[i])]
<1>1. \A i \in DOMAIN resends : Resent(h, resends[i]) \in Sendable(h)
    <2>1. TAKE i \in DOMAIN resends
    <2> DEFINE id == resends[i]
    <2>2. /\ id \in PacketID /\ mUnackedPackets[h][id].closes \in BOOLEAN
          /\ id \in DOMAIN mUnackedPackets[h]
        BY DEF TypeOK, PendingType, PartialFunction, ReliablePacket
    <2> HIDE DEF id
    <2>3. Message("Data", id, {}) \in Packet
        BY <2>2, MessageType DEF Kind
    <2>4. Resent(h, id) \in Packet /\ Resent(h, id).acks = {} /\ Resent(h, id).id = id
        BY <2>2, <2>3 DEF Resent, Packet, Message
    <2>5. Resent(h, id) \in Sendable(h)
        BY <2>2, <2>4 DEF Sendable
    <2>6. QED BY <2>5 DEF id
<1>2. copies \in [1 .. n -> Sendable(h)]
    BY <1>1
<1>3. QED BY <1>2, SeqDef

\* A frame sends a ping, copies of packets and a PacketAck, or less.
LEMMA FrameSends ==
    ASSUME TypeOK, NEW h \in Host, NEW pinged \in BOOLEAN, NEW n \in Nat,
           NEW take \in SUBSET mAcks[h],
           NEW resends \in [1 .. n -> DOMAIN mUnackedPackets[h]],
           NEW dropped, NEW expired,
           ProcessAcks(h, pinged, take, resends, dropped, expired)
    PROVE  \E sent \in Seq(Sendable(h)) :
                net' = [net EXCEPT ![Peer(h)] = Transmit(@, sent)]
<1> DEFINE out     == mPacketsOutID[h]
           pingID  == NextPacketOutID(out)
           ackID   == NextPacketOutID(IF pinged THEN pingID ELSE out)
           oldest  == OldestUnacked(out, DOMAIN mUnackedPackets[h],
                                         DOMAIN mFinalRetryPackets[h])
           left    == IF pinged THEN mAcks[h] \ take ELSE mAcks[h]
           sendAck == h \in mSendAckMap /\ left # {}
           ping    == IF pinged
                      THEN <<[Message("StartPingCheck", pingID, take) EXCEPT !.oldest = oldest]>>
                      ELSE <<>>
           copies  == [i \in DOMAIN resends |-> Resent(h, resends[i])]
           ack     == IF sendAck THEN <<Message("PacketAck", ackID, left)>> ELSE <<>>
<1>1. out \in PacketID /\ pingID \in PacketID /\ ackID \in PacketID
    BY NextIDType DEF TypeOK
<1>2. oldest \in PacketID
    BY OldestUnackedType DEF TypeOK, PendingType, PartialFunction
<1>3. /\ left \in SUBSET PacketID /\ take \in SUBSET PacketID
      /\ left \subseteq mAcks[h] /\ take \subseteq mAcks[h]
    BY DEF TypeOK
<1>4. net' = [net EXCEPT ![Peer(h)] = Transmit(@, ping \o copies \o ack)]
    BY DEF ProcessAcks
<1> HIDE DEF pingID, ackID, oldest, left, sendAck
<1>5. ping \in Seq(Sendable(h))
    <2> DEFINE message == Message("StartPingCheck", pingID, take)
    <2>1. message \in Packet /\ message.acks = take /\ ~ message.reliable
        BY <1>1, <1>3, MessageType DEF Kind, Message
    <2> HIDE DEF message
    <2> DEFINE dated == [message EXCEPT !.oldest = oldest]
    <2>2. dated \in Packet /\ dated.acks = message.acks
        BY <1>2, <2>1 DEF Packet
    <2>3. ~ dated.reliable
        BY <2>1 DEF Packet
    <2> HIDE DEF dated
    <2>4. dated \in Sendable(h)
        BY <1>3, <2>1, <2>2, <2>3 DEF Sendable
    <2>5. QED BY <2>4 DEF dated, message
<1>6. ack \in Seq(Sendable(h))
    <2>1. Message("PacketAck", ackID, left) \in Packet
        BY <1>1, <1>3, MessageType DEF Kind
    <2>2. Message("PacketAck", ackID, left) \in Sendable(h)
        BY <1>3, <2>1 DEF Sendable, Message
    <2>3. QED BY <2>2
<1>7. copies \in Seq(Sendable(h))
    BY CopiesSendable
<1> HIDE DEF ping, ack, copies
<1>8. ping \o copies \o ack \in Seq(Sendable(h))
    BY <1>5, <1>6, <1>7
<1>9. QED BY <1>4, <1>8

\* Whatever h sends of what it may send carries evidence.
LEMMA SentEvidence ==
    ASSUME TypeOK, Remembered, InFlight, HandledStays, NEW h \in Host,
           NEW sent \in Seq(Sendable(h)), NEW before \in [Host -> Seq(Packet)],
           \A g \in Host : SetOf(before[g]) \subseteq SetOf(net[g]),
           net' = [before EXCEPT ![Peer(h)] = Transmit(@, sent)]
    PROVE  InFlight'
<1> DEFINE added == [g \in Host |-> IF g = Peer(h) THEN SetOf(sent) ELSE {}]
<1>1. SetOf(sent) \subseteq Sendable(h) /\ Sendable(h) \subseteq Packet
    BY DEF SetOf, Sendable
<1>2. added \in [Host -> SUBSET Packet]
    BY <1>1
<1>3. ASSUME NEW g \in Host
      PROVE  SetOf(net'[g]) \subseteq SetOf(net[g]) \cup added[g]
    <2>1. sent \in Seq(Packet)
        BY <1>1
    <2>2. SetOf(Transmit(before[Peer(h)], sent)) \subseteq SetOf(before[Peer(h)]) \cup SetOf(sent)
        BY <2>1, PeerType, TransmitType
    <2>3. CASE g = Peer(h)
        BY <2>2, <2>3
    <2>4. CASE g # Peer(h)
        BY <2>4
    <2>5. QED BY <2>3, <2>4
<1>4. ASSUME NEW g \in Host, NEW p \in added[g], NEW i \in p.acks
      PROVE  handled[g][i] > 0
    <2>1. g = Peer(h) /\ p \in SetOf(sent)
        OBVIOUS
    <2>2. i \in mAcks[h]
        BY <1>1, <2>1 DEF Sendable
    <2>3. QED BY <2>1, <2>2 DEF Remembered
<1> HIDE DEF added
<1>5. QED BY <1>2, <1>3, <1>4, InFlightKept

\* A timeout is not a report of success.
LEMMA TimeoutEvidence ==
    ASSUME TypeOK, Reported, HandledStays, NEW h \in Host, NEW failed,
           callbacks' = [callbacks EXCEPT ![h] = Answer(h, failed, "LL_ERR_TCP_TIMEOUT")]
    PROVE  Reported'
<1> SUFFICES ASSUME NEW g \in Host, NEW i \in DOMAIN callbacks'[g],
                    NEW k \in DOMAIN callbacks'[g][i],
                    callbacks'[g][i][k] = "LL_ERR_NOERR"
             PROVE  handled'[g][i] > 0
    BY DEF Reported
<1>1. DOMAIN callbacks = Host /\ PartialFunction(callbacks[g], PacketID, Seq(Result))
    BY DEF TypeOK, PendingType
<1>2. i \in DOMAIN callbacks[g] /\ i \in PacketID /\ callbacks[g][i] \in Seq(Result)
    BY <1>1 DEF PartialFunction, Answer
<1>3. \/ callbacks'[g][i] = callbacks[g][i]
      \/ callbacks'[g][i] = Append(callbacks[g][i], "LL_ERR_TCP_TIMEOUT")
    BY <1>1, <1>2 DEF Answer
<1>4. k \in DOMAIN callbacks[g][i] /\ callbacks[g][i][k] = "LL_ERR_NOERR"
    BY <1>2, <1>3
<1>5. QED BY <1>2, <1>4 DEF Reported, HandledStays

LEMMA ProcessAcksEvidence ==
    ASSUME TypeOK, AcksFollowHandling, NEW h \in Host, NEW pinged \in BOOLEAN,
           NEW n \in Nat, NEW take \in SUBSET mAcks[h],
           NEW resends \in [1 .. n -> DOMAIN mUnackedPackets[h]],
           NEW dropped, NEW expired,
           ProcessAcks(h, pinged, take, resends, dropped, expired)
    PROVE  AcksFollowHandling'
<1>1. HandledStays
    BY SameHandledStays DEF ProcessAcks
<1>2. mRecentlyReceivedReliablePackets' = mRecentlyReceivedReliablePackets
    BY DEF ProcessAcks
<1>3. \A g \in Host : mAcks'[g] \subseteq mAcks[g]
    BY DEF ProcessAcks, TypeOK
<1>4. Remembered'
    BY <1>1, <1>2, <1>3, AcksFollowHandlingParts, RememberedSame
<1>5. PICK sent \in Seq(Sendable(h)) : net' = [net EXCEPT ![Peer(h)] = Transmit(@, sent)]
    BY FrameSends
<1>6. InFlight'
    <2>1. net \in [Host -> Seq(Packet)]
        BY DEF TypeOK
    <2>2. QED BY <1>1, <1>5, <2>1, AcksFollowHandlingParts, SentEvidence
<1>7. Reported'
    <2>1. PICK failed : callbacks' = [callbacks EXCEPT ![h] =
                                        Answer(h, failed, "LL_ERR_TCP_TIMEOUT")]
        BY DEF ProcessAcks, ResendUnackedPackets
    <2>2. QED BY <1>1, <2>1, TimeoutEvidence, AcksFollowHandlingParts
<1>8. QED BY <1>4, <1>6, <1>7, AcksFollowHandlingNext

LEMMA ReceiveOffCircuitEvidence ==
    ASSUME TypeOK, AcksFollowHandling, NEW h \in Host, NEW i, NEW kept,
           ReceiveOffCircuit(h, i, kept)
    PROVE  AcksFollowHandling'
<1>1. HandledStays /\ UNCHANGED <<handled, callbacks, mAcks, mRecentlyReceivedReliablePackets>>
    BY SameHandledStays DEF ReceiveOffCircuit, circuitVars, receiveVars
<1>2. InFlight'
    BY <1>1, ArrivalShrinks, InFlightShrinks, AcksFollowHandlingParts DEF ReceiveOffCircuit
<1>3. Remembered' /\ Reported'
    BY <1>1, AcksFollowHandlingParts DEF Remembered, Reported
<1>4. QED BY <1>2, <1>3, AcksFollowHandlingNext

\* An id is collected for an ack, and remembered, once it was handled.
LEMMA CollectEvidence ==
    ASSUME TypeOK, Remembered, HandledStays, NEW h \in Host, NEW id \in PacketID,
           handled'[Peer(h)][id] > 0, CollectRAck(h, id),
           \A g \in Host : mRecentlyReceivedReliablePackets'[g]
                    \subseteq mRecentlyReceivedReliablePackets[g]
                                \cup (IF g = h THEN {id} ELSE {})
    PROVE  Remembered'
<1> SUFFICES ASSUME NEW g \in Host,
                    NEW i \in mAcks'[g] \cup mRecentlyReceivedReliablePackets'[g]
             PROVE  handled'[Peer(g)][i] > 0
    BY DEF Remembered
<1>1. mAcks'[g] \subseteq mAcks[g] \cup (IF g = h THEN {id} ELSE {})
    BY DEF CollectRAck, TypeOK
<1>2. CASE g = h /\ i = id
    BY <1>2
<1>3. CASE ~(g = h /\ i = id)
    <2>1. i \in mAcks[g] \cup mRecentlyReceivedReliablePackets[g]
        BY <1>1, <1>3
    <2>2. i \in PacketID /\ handled[Peer(g)][i] > 0
        BY <2>1 DEF TypeOK, Remembered
    <2>3. QED BY <2>2, PeerType DEF HandledStays
<1>4. QED BY <1>2, <1>3

LEMMA ReceiveDuplicateResendEvidence ==
    ASSUME TypeOK, AcksFollowHandling, NEW h \in Host, NEW i, NEW kept,
           ReceiveDuplicateResend(h, i, kept)
    PROVE  AcksFollowHandling'
<1> DEFINE p == net[h][i]
<1>1. HandledStays /\ handled' = handled
           /\ mRecentlyReceivedReliablePackets' = mRecentlyReceivedReliablePackets
    BY SameHandledStays DEF ReceiveDuplicateResend
<1>2. p.id \in PacketID
    BY ArrivalType DEF ReceiveDuplicateResend, Packet
<1>3. handled'[Peer(h)][p.id] > 0
    BY <1>1, AcksFollowHandlingParts DEF ReceiveDuplicateResend, isDuplicateResend, Remembered
<1>4. Remembered'
    BY <1>1, <1>2, <1>3, AcksFollowHandlingParts, CollectEvidence DEF ReceiveDuplicateResend
<1>5. InFlight'
    BY <1>1, ArrivalShrinks, InFlightShrinks, AcksFollowHandlingParts DEF ReceiveDuplicateResend
<1>6. Reported'
    BY <1>1, ArrivalEvidence, AckEvidence, AcksFollowHandlingParts DEF ReceiveDuplicateResend
<1>7. QED BY <1>4, <1>5, <1>6, AcksFollowHandlingNext

LEMMA ReceiveDataEvidence ==
    ASSUME TypeOK, AcksFollowHandling, NEW h \in Host, NEW i, NEW kept,
           ReceiveData(h, i, kept)
    PROVE  AcksFollowHandling'
<1> DEFINE p == net[h][i]
<1>1. p.id \in PacketID
    BY ArrivalType DEF ReceiveData, Packet
<1>2. HandledStays /\ Remembered'
    <2>1. CASE p.reliable
        <3>1. /\ handled' = [handled EXCEPT ![Peer(h)][p.id] = OnceMore(@)]
              /\ mRecentlyReceivedReliablePackets' =
                    [mRecentlyReceivedReliablePackets EXCEPT ![h] = @ \cup {p.id}]
              /\ CollectRAck(h, p.id)
            BY <2>1 DEF ReceiveData
        <3> HIDE DEF p
        <3>2. HandledStays /\ handled'[Peer(h)][p.id] > 0
            BY <1>1, <3>1, PeerType, OnceMoreStays
        <3>3. \A g \in Host : mRecentlyReceivedReliablePackets'[g]
                    \subseteq mRecentlyReceivedReliablePackets[g]
                                \cup (IF g = h THEN {p.id} ELSE {})
            BY <3>1 DEF TypeOK
        <3>4. QED BY <1>1, <3>1, <3>2, <3>3, AcksFollowHandlingParts, CollectEvidence
    <2>2. CASE ~p.reliable
        <3>1. UNCHANGED <<handled, mRecentlyReceivedReliablePackets, mAcks>>
            BY <2>2 DEF ReceiveData
        <3>2. QED BY <3>1, SameHandledStays, AcksFollowHandlingParts DEF Remembered
    <2>3. QED BY <2>1, <2>2
<1>3. InFlight'
    BY <1>2, ArrivalShrinks, InFlightShrinks, AcksFollowHandlingParts DEF ReceiveData
<1>4. Reported'
    BY <1>2, ArrivalEvidence, AckEvidence, AcksFollowHandlingParts DEF ReceiveData
<1>5. QED BY <1>2, <1>3, <1>4, AcksFollowHandlingNext

LEMMA ReceiveClosingDataEvidence ==
    ASSUME TypeOK, AcksFollowHandling, NEW h \in Host, NEW i, NEW kept,
           ReceiveClosingData(h, i, kept)
    PROVE  AcksFollowHandling'
<1> DEFINE p == net[h][i]
<1>1. p.id \in PacketID
    BY ArrivalType DEF ReceiveClosingData, Packet
<1>2. HandledStays
    <2>1. CASE p.reliable
        <3>1. handled' = [handled EXCEPT ![Peer(h)][p.id] = OnceMore(@)]
            BY <2>1 DEF ReceiveClosingData
        <3> HIDE DEF p
        <3>2. QED BY <1>1, <3>1, PeerType, OnceMoreStays
    <2>2. CASE ~p.reliable
        BY <2>2, SameHandledStays DEF ReceiveClosingData
    <2>3. QED BY <2>1, <2>2
<1>3. Remembered'
    BY <1>2, AcksFollowHandlingParts, ForgetCircuitEvidence DEF ReceiveClosingData
<1>4. InFlight'
    BY <1>2, ArrivalShrinks, InFlightShrinks, AcksFollowHandlingParts DEF ReceiveClosingData
<1>5. Reported'
    BY <1>2, ArrivalEvidence, AbortEvidence, AcksFollowHandlingParts DEF ReceiveClosingData
<1>6. QED BY <1>3, <1>4, <1>5, AcksFollowHandlingNext

LEMMA ReceiveReplyEvidence ==
    ASSUME TypeOK, AcksFollowHandling, NEW h \in Host, NEW i, NEW kept,
           ReceiveReply(h, i, kept)
    PROVE  AcksFollowHandling'
<1>1. HandledStays /\ UNCHANGED <<handled, mAcks, mRecentlyReceivedReliablePackets>>
    BY SameHandledStays DEF ReceiveReply
<1>2. Remembered'
    BY <1>1, AcksFollowHandlingParts DEF Remembered
<1>3. InFlight'
    BY <1>1, ArrivalShrinks, InFlightShrinks, AcksFollowHandlingParts DEF ReceiveReply
<1>4. Reported'
    BY <1>1, ArrivalEvidence, AckEvidence, AcksFollowHandlingParts DEF ReceiveReply
<1>5. QED BY <1>2, <1>3, <1>4, AcksFollowHandlingNext

LEMMA ReceiveStartPingCheckEvidence ==
    ASSUME TypeOK, AcksFollowHandling, NEW h \in Host, NEW i, NEW kept,
           NEW take \in SUBSET mAcks[h], NEW timedOut,
           ReceiveStartPingCheck(h, i, kept, take, timedOut)
    PROVE  AcksFollowHandling'
<1> DEFINE id     == NextPacketOutID(mPacketsOutID[h])
           reply  == Message("CompletePingCheck", id, take)
           before == [net EXCEPT ![h] = AfterArrival(h, i, kept)]
<1>1. HandledStays
    BY SameHandledStays DEF ReceiveStartPingCheck
<1>2. Remembered'
    <2>1. \A g \in Host : mAcks'[g] \subseteq mAcks[g]
        BY DEF ReceiveStartPingCheck, TypeOK
    <2>2. \A g \in Host : mRecentlyReceivedReliablePackets'[g]
                                \subseteq mRecentlyReceivedReliablePackets[g]
        BY DEF ReceiveStartPingCheck, TypeOK, ClearDuplicateList
    <2>3. QED BY <1>1, <2>1, <2>2, AcksFollowHandlingParts, RememberedSame
<1>3. Reported'
    BY <1>1, ArrivalEvidence, AckEvidence, AcksFollowHandlingParts DEF ReceiveStartPingCheck
<1>4. id \in PacketID /\ take \in SUBSET PacketID
    BY NextIDType DEF TypeOK
<1>5. AfterArrival(h, i, kept) \in Seq(Packet)
      /\ SetOf(AfterArrival(h, i, kept)) \subseteq SetOf(net[h])
    BY ArrivalType DEF ReceiveStartPingCheck
<1>6. before \in [Host -> Seq(Packet)]
      /\ \A g \in Host : SetOf(before[g]) \subseteq SetOf(net[g])
    BY <1>5 DEF TypeOK
<1>7. net' = [before EXCEPT ![Peer(h)] = Transmit(@, <<reply>>)]
    <2>1. net' = [net EXCEPT ![h] = AfterArrival(h, i, kept),
                             ![Peer(h)] = Transmit(@, <<reply>>)]
        BY DEF ReceiveStartPingCheck
    <2>2. Peer(h) # h /\ before[Peer(h)] = net[Peer(h)]
        BY CircuitAssumption DEF Peer, Host, TypeOK
    <2>3. QED BY <2>1, <2>2, PeerType DEF TypeOK
<1> HIDE DEF id, before
<1>8. reply \in Sendable(h)
    <2>1. reply \in Packet
        BY <1>4, MessageType DEF Kind
    <2>2. QED BY <2>1 DEF Sendable, Message
<1> HIDE DEF reply
<1>9. <<reply>> \in Seq(Sendable(h))
    BY <1>8
<1>10. InFlight'
    BY <1>1, <1>6, <1>7, <1>9, AcksFollowHandlingParts, SentEvidence
<1>11. QED BY <1>2, <1>3, <1>10, AcksFollowHandlingNext

LEMMA NextEvidence == TypeOK /\ AcksFollowHandling /\ [Next]_vars => AcksFollowHandling'
<1> SUFFICES ASSUME TypeOK, AcksFollowHandling, [Next]_vars PROVE AcksFollowHandling'
    OBVIOUS
<1>1. CASE UNCHANGED vars
    BY <1>1 DEF vars, circuitVars, receiveVars, AcksFollowHandling
<1>2. ASSUME NEW h \in Host, Send(h)
      PROVE  AcksFollowHandling'
    BY <1>2, SendReliableEvidence, SendUnreliableEvidence DEF Send
<1>3. ASSUME NEW h \in Host, RemoveCircuit(h)
      PROVE  AcksFollowHandling'
    BY <1>3, RemoveCircuitEvidence
<1>4. ASSUME NEW h \in Host, Frame(h)
      PROVE  AcksFollowHandling'
    <2>1. PICK n \in 0 .. Cardinality(DOMAIN mUnackedPackets[h]) :
            \E pinged \in BOOLEAN, take \in SUBSET mAcks[h],
               expired \in SUBSET DOMAIN mFinalRetryPackets[h],
               resends \in [1 .. n -> DOMAIN mUnackedPackets[h]],
               dropped \in SUBSET DOMAIN mUnackedPackets[h] :
                    ProcessAcks(h, pinged, take, resends, dropped, expired)
        BY <1>4 DEF Frame
    <2>2. n \in Nat
        OBVIOUS
    <2>3. QED BY <2>1, <2>2, ProcessAcksEvidence
<1>5. ASSUME NEW h \in Host, Receive(h)
      PROVE  AcksFollowHandling'
    BY <1>5, ReceiveOffCircuitEvidence, ReceiveDuplicateResendEvidence, ReceiveDataEvidence,
       ReceiveClosingDataEvidence, ReceiveReplyEvidence, ReceiveStartPingCheckEvidence
       DEF Receive
<1>6. ASSUME NEW h \in Host, NEW i \in DOMAIN net[h], Lose(h, i)
      PROVE  AcksFollowHandling'
    BY <1>6, LoseEvidence
<1>7. QED BY <1>1, <1>2, <1>3, <1>4, <1>5, <1>6 DEF Next

\* A sender is told LL_ERR_NOERR only for a message that its peer has handled,
\* whatever the network loses, reorders or duplicates and whenever a circuit is
\* removed.  TypeOK /\ AcksFollowHandling is the invariant a step preserves.
THEOREM SuccessMeansHandled == Spec => []AckedWasHandled
<1>1. Init => TypeOK /\ AcksFollowHandling
    BY InitType, InitEvidence
<1>2. TypeOK /\ AcksFollowHandling /\ [Next]_vars => TypeOK' /\ AcksFollowHandling'
    BY NextType, NextEvidence
<1>3. AcksFollowHandling => AckedWasHandled
    BY DEF AcksFollowHandling, AckedWasHandled
<1>4. QED BY <1>1, <1>2, <1>3, PTL DEF Spec
=============================================================================
