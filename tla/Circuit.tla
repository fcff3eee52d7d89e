------------------------------- MODULE Circuit -------------------------------
(***************************************************************************)
(* Two hosts that run LLMessageSystem/LLCircuitData against each other     *)
(* over UDP (llmessage/message.cpp, llmessage/llcircuit.cpp): reliable     *)
(* packets with resends and a final wait, acks appended to other packets   *)
(* or sent in a PacketAck, suppression of duplicate resends, the ping that *)
(* lets the receiver forget old ids, and the removal of a circuit.         *)
(*                                                                         *)
(* Each host has at most one circuit, to its peer; a removed circuit is    *)
(* not opened again, and the model stops before packet ids wrap (the bound *)
(* BeforeWrap; CircuitWrap takes up the wrap).  Reading the clock is a     *)
(* nondeterministic choice: any packet may have expired, any ping may be   *)
(* due, the watchdog may run out.                                          *)
(***************************************************************************)
EXTENDS PacketIds, FiniteSets, Sequences

CONSTANTS
    Viewer, Simulator,  \* the two hosts
    Retries,            \* the values callers pass for `retries'
    MaxReliable,        \* bound: reliable messages each host sends
    MaxUnreliableID,    \* bound: no unreliable message of the application above this id
    Closing,            \* the values of `closes' in messages of the application
    MaxPings,           \* bound: pings each host sends
    MaxInFlight,        \* bound: packets in flight to a host; UDP drops the rest
    Reorder,            \* the hosts to which the network may reorder packets
    Duplicate           \* those to which it may duplicate packets

Host == {Viewer, Simulator}

ASSUME CircuitAssumption ==
    /\ Viewer # Simulator
    /\ Retries \subseteq Nat
    /\ MaxReliable \in [Host -> Nat]
    /\ MaxUnreliableID \in [Host -> Nat]
    /\ Closing \subseteq BOOLEAN
    /\ MaxPings \in [Host -> Nat]
    /\ MaxInFlight \in Nat
    /\ Reorder \subseteq Host /\ Duplicate \subseteq Host

Peer(h) == IF h = Viewer THEN Simulator ELSE Viewer

VARIABLES
    mCircuitData,           \* the hosts that have circuit data for their peer
    mPacketsOutID,          \* id of the last packet a host sent
    mUnackedPackets,        \* id -> packet that will be resent
    mFinalRetryPackets,     \* id -> packet that only waits for its ack
    mUnackedPacketCount,
    mUnackedCircuitMap,     \* the hosts whose circuit resendUnackedPackets visits
    mAcks,                  \* received reliable ids not acked yet
    mSendAckMap,            \* the hosts whose circuit sendAcks visits
    mRecentlyReceivedReliablePackets,
    mHighestPacketID,
    mLastPingID,
    net,                    \* packets in flight to a host, in the order sent
    callbacks,              \* history: id -> results given to its callback
    handled                 \* history: how often the peer handled a packet, up to 2

circuitVars == <<mUnackedPackets, mFinalRetryPackets, mUnackedPacketCount,
                 mUnackedCircuitMap, callbacks>>
receiveVars == <<mAcks, mSendAckMap, mRecentlyReceivedReliablePackets,
                 mHighestPacketID, handled>>
vars == <<mCircuitData, mPacketsOutID, mLastPingID, net, circuitVars, receiveVars>>
-----------------------------------------------------------------------------
(* Data *)

Result == {"LL_ERR_NOERR", "LL_ERR_TCP_TIMEOUT", "LL_ERR_CIRCUIT_GONE"}

\* A message of the application, reliable or not, is of kind Data; `closes'
\* marks one whose handler disables the circuit (DisableSimulator).
Kind == {"Data", "PacketAck", "StartPingCheck", "CompletePingCheck"}

\* `acks' holds the ids appended to the packet or, for a PacketAck, its body.
Packet == [kind : Kind, id : PacketID, reliable : BOOLEAN, resent : BOOLEAN,
           closes : BOOLEAN, acks : SUBSET PacketID, oldest : PacketID]

Message(kind, id, acks) ==
    [kind |-> kind, id |-> id, reliable |-> FALSE, resent |-> FALSE,
     closes |-> FALSE, acks |-> acks, oldest |-> 0]

\* What LLReliablePacket keeps: the retries left and the bytes to resend.
ReliablePacket == [mRetries : Int, closes : BOOLEAN]

\* Bound: the history tells once from more than once and counts no further.
OnceMore(times) == IF times < 2 THEN times + 1 ELSE times

NoPackets == [i \in {} |-> {}]

With(f, k, v) == [x \in DOMAIN f \cup {k} |-> IF x = k THEN v ELSE f[x]]
Without(f, S) == [x \in DOMAIN f \ S |-> f[x]]

\* The ids for which a callback is still owed.
Pending(h) == DOMAIN mUnackedPackets[h] \cup DOMAIN mFinalRetryPackets[h]

Answer(h, ids, result) ==
    [i \in DOMAIN callbacks[h] |->
        IF i \in ids THEN Append(callbacks[h][i], result) ELSE callbacks[h][i]]

\* sendto: the packets join those in flight while there is room.
Transmit(queue, packets) ==
    LET all == queue \o packets
    IN  SubSeq(all, 1, IF Len(all) < MaxInFlight THEN Len(all) ELSE MaxInFlight)

Remove(queue, i) ==
    [j \in 1 .. Len(queue) - 1 |-> IF j < i THEN queue[j] ELSE queue[j + 1]]

\* Bound: the model stops before a host's packet ids wrap.
BeforeWrap(h, packets) == mPacketsOutID[h] + packets < LL_MAX_OUT_PACKET_ID
-----------------------------------------------------------------------------
Init ==
    /\ mCircuitData = Host
    /\ mPacketsOutID = [h \in Host |-> 0]
    /\ mUnackedPackets = [h \in Host |-> NoPackets]
    /\ mFinalRetryPackets = [h \in Host |-> NoPackets]
    /\ mUnackedPacketCount = [h \in Host |-> 0]
    /\ mUnackedCircuitMap = {}
    /\ mAcks = [h \in Host |-> {}]
    /\ mSendAckMap = {}
    /\ mRecentlyReceivedReliablePackets = [h \in Host |-> {}]
    /\ mHighestPacketID = [h \in Host |-> 0]
    /\ mLastPingID = [h \in Host |-> 0]
    /\ net = [h \in Host |-> <<>>]
    /\ callbacks = [h \in Host |-> NoPackets]
    /\ handled = [h \in Host |-> [i \in PacketID |-> 0]]
-----------------------------------------------------------------------------
(* Sending *)

\* The packets of one sendMessage, with `take' of the collected acks appended
\* to it (as many as fit; none when the message fills the packet).
SendMessage(h, message) ==
    /\ mPacketsOutID' = [mPacketsOutID EXCEPT ![h] = message.id]
    /\ mAcks' = [mAcks EXCEPT ![h] = @ \ message.acks]
    /\ net' = [net EXCEPT ![Peer(h)] = Transmit(@, <<message>>)]

\* addReliablePacket: a packet without retries goes straight to the final list.
AddReliablePacket(h, id, retries, closes) ==
    LET packet == [mRetries |-> retries, closes |-> closes]
    IN  /\ mUnackedPacketCount' = [mUnackedPacketCount EXCEPT ![h] = @ + 1]
        /\ mUnackedPackets' = IF retries = 0 THEN mUnackedPackets
                ELSE [mUnackedPackets EXCEPT ![h] = With(@, id, packet)]
        /\ mFinalRetryPackets' = IF retries # 0 THEN mFinalRetryPackets
                ELSE [mFinalRetryPackets EXCEPT ![h] = With(@, id, packet)]
        /\ callbacks' = [callbacks EXCEPT ![h] = With(@, id, <<>>)]

SendReliable(h, retries, closes, take) ==
    LET id == NextPacketOutID(mPacketsOutID[h])
    IN  /\ h \in mCircuitData
        /\ BeforeWrap(h, 1)
        /\ Cardinality(DOMAIN callbacks[h]) < MaxReliable[h]
        /\ mUnackedCircuitMap' = IF mUnackedPacketCount[h] = 0
                                 THEN mUnackedCircuitMap \cup {h}
                                 ELSE mUnackedCircuitMap
        /\ AddReliablePacket(h, id, retries, closes)
        /\ SendMessage(h, [Message("Data", id, take) EXCEPT !.reliable = TRUE,
                                                            !.closes = closes])
        /\ UNCHANGED <<mCircuitData, mLastPingID, mSendAckMap, handled,
                       mRecentlyReceivedReliablePackets, mHighestPacketID>>

SendUnreliable(h, closes, take) ==
    LET id == NextPacketOutID(mPacketsOutID[h])
    IN  /\ h \in mCircuitData
        /\ BeforeWrap(h, 1)
        /\ id <= MaxUnreliableID[h]
        /\ SendMessage(h, [Message("Data", id, take) EXCEPT !.closes = closes])
        /\ UNCHANGED <<mCircuitData, mLastPingID, circuitVars, mSendAckMap, handled,
                       mRecentlyReceivedReliablePackets, mHighestPacketID>>
-----------------------------------------------------------------------------
(* Removing a circuit *)

\* Fault: removeCircuitData leaves the circuit in mSendAckMap.
ForgetCircuitButAcks(h) ==
    /\ mCircuitData' = mCircuitData \ {h}
    /\ mAcks' = [mAcks EXCEPT ![h] = {}]
    /\ mRecentlyReceivedReliablePackets' =
            [mRecentlyReceivedReliablePackets EXCEPT ![h] = {}]
    /\ UNCHANGED mSendAckMap

\* The part of removeCircuitData, and of the destructor it runs, that is not
\* about the packets still pending: the circuit leaves every map.
ForgetCircuit(h) ==
    /\ mCircuitData' = mCircuitData \ {h}
    /\ mSendAckMap' = mSendAckMap \ {h}
    /\ mAcks' = [mAcks EXCEPT ![h] = {}]
    /\ mRecentlyReceivedReliablePackets' =
            [mRecentlyReceivedReliablePackets EXCEPT ![h] = {}]

\* Fault: the destructor passes LL_ERR_NOERR to every callback.
AbortedAsSuccess(i, acked) == "LL_ERR_NOERR"

\* What the callback of a packet pending at the end is told: those acked by the
\* packet that is being processed succeed, and no other.
Aborted(i, acked) == IF i \in acked THEN "LL_ERR_NOERR" ELSE "LL_ERR_CIRCUIT_GONE"

\* The packets on both lists are answered and freed.
AbortPackets(h, acked) ==
    /\ mUnackedCircuitMap' = mUnackedCircuitMap \ {h}
    /\ mUnackedPackets' = [mUnackedPackets EXCEPT ![h] = NoPackets]
    /\ mFinalRetryPackets' = [mFinalRetryPackets EXCEPT ![h] = NoPackets]
    /\ mUnackedPacketCount' =
            [mUnackedPacketCount EXCEPT ![h] = @ - Cardinality(Pending(h))]
    /\ callbacks' = [callbacks EXCEPT ![h] =
            [i \in DOMAIN @ |-> IF i \in Pending(h)
                                THEN Append(@[i], Aborted(i, acked)) ELSE @[i]]]

\* disableCircuit, called by the application, and the watchdog of processAcks
\* when no ping was answered for PING_INTERVAL_MAX seconds.
RemoveCircuit(h) ==
    /\ h \in mCircuitData
    /\ ForgetCircuit(h)
    /\ AbortPackets(h, {})
    /\ UNCHANGED <<mPacketsOutID, mLastPingID, net, mHighestPacketID, handled>>
-----------------------------------------------------------------------------
(* LLMessageSystem::processAcks, once a frame *)

Ascending(s) == \A i, j \in DOMAIN s : i < j => s[i] < s[j]
SetOf(s) == {s[i] : i \in DOMAIN s}

\* Fault: a resend uses up no retry.
RetriesKept(packet) == packet

\* A resend uses up a retry.
Retried(packet) == [packet EXCEPT !.mRetries = @ - 1]

\* The packets that will be resent again.
StillUnacked(h, last, dropped) == DOMAIN mUnackedPackets[h] \ (last \cup dropped)

\* resendUnackedPackets.  `resends' lists the packets found expired, in id
\* order; when the throttle overflows before the end and more than 512000
\* bytes wait, the expired packets of the rest are `dropped': their retries are
\* forfeited and, expired already, they fail in the second loop.  The second
\* loop fails the packets of the final list in `expired'.
ResendUnackedPackets(h, resends, dropped, expired) ==
    LET unacked == mUnackedPackets[h]
        resent  == SetOf(resends)
        last    == {i \in resent : Retried(unacked[i]).mRetries = 0}
        failed  == dropped \cup expired
    IN  /\ h \notin mUnackedCircuitMap => failed = {} /\ resends = <<>>
        /\ \A r \in resent, d \in dropped : r < d
        /\ mUnackedPackets' = [mUnackedPackets EXCEPT ![h] =
                [i \in StillUnacked(h, last, dropped) |->
                    IF i \in resent THEN Retried(@[i]) ELSE @[i]]]
        /\ mFinalRetryPackets' = [mFinalRetryPackets EXCEPT ![h] =
                [i \in (DOMAIN @ \ expired) \cup last |->
                    IF i \in last THEN Retried(unacked[i]) ELSE @[i]]]
        /\ mUnackedPacketCount' =
                [mUnackedPacketCount EXCEPT ![h] = @ - Cardinality(failed)]
        /\ callbacks' = [callbacks EXCEPT ![h] =
                Answer(h, failed, "LL_ERR_TCP_TIMEOUT")]
        /\ UNCHANGED mUnackedCircuitMap

Resent(h, id) ==
    [Message("Data", id, {}) EXCEPT !.reliable = TRUE, !.resent = TRUE,
                                    !.closes = mUnackedPackets[h][id].closes]

\* The circuit's ping, when due (`pinged'), which carries `take' of the acks
\* like any message; then the resends; then sendAcks.
ProcessAcks(h, pinged, take, resends, dropped, expired) ==
    LET out     == mPacketsOutID[h]
        pingID  == NextPacketOutID(out)
        ackID   == NextPacketOutID(IF pinged THEN pingID ELSE out)
        oldest  == OldestUnacked(out, DOMAIN mUnackedPackets[h],
                                      DOMAIN mFinalRetryPackets[h])
        left    == IF pinged THEN mAcks[h] \ take ELSE mAcks[h]
        sendAck == h \in mSendAckMap /\ left # {}
        ping    == IF pinged
                   THEN <<[Message("StartPingCheck", pingID, take) EXCEPT !.oldest = oldest]>>
                   ELSE <<>>
        copies  == [i \in DOMAIN resends |-> Resent(h, resends[i])]
        ack     == IF sendAck THEN <<Message("PacketAck", ackID, left)>> ELSE <<>>
    IN  /\ h \in mCircuitData
        /\ BeforeWrap(h, 2)
        /\ pinged => mLastPingID[h] < MaxPings[h]
        /\ mLastPingID' = [mLastPingID EXCEPT ![h] = IF pinged THEN @ + 1 ELSE @]
        /\ ResendUnackedPackets(h, resends, dropped, expired)
        /\ mPacketsOutID' = [mPacketsOutID EXCEPT ![h] =
                CASE sendAck -> ackID [] ~sendAck /\ pinged -> pingID [] OTHER -> @]
        /\ mAcks' = [mAcks EXCEPT ![h] = IF sendAck THEN {} ELSE left]
        /\ mSendAckMap' = mSendAckMap \ {h}
        /\ net' = [net EXCEPT ![Peer(h)] = Transmit(@, ping \o copies \o ack)]
        /\ UNCHANGED <<mCircuitData, mHighestPacketID, handled,
                       mRecentlyReceivedReliablePackets>>

\* A frame in which everything that waits has expired and the throttle admits
\* every resend; whether a ping is due is left open.
ProcessAcksAfterTimeout(h) ==
    \E pinged \in BOOLEAN, n \in 0 .. Cardinality(DOMAIN mUnackedPackets[h]) :
        \E resends \in [1 .. n -> DOMAIN mUnackedPackets[h]] :
            /\ Ascending(resends)
            /\ SetOf(resends) = DOMAIN mUnackedPackets[h]
            /\ ProcessAcks(h, pinged, {}, resends, {}, DOMAIN mFinalRetryPackets[h])
-----------------------------------------------------------------------------
(* Receiving: one packet of LLMessageSystem::checkMessages *)

\* The packet at position i leaves the network, or a duplicate of it stays.
Arrival(h, i, kept) ==
    /\ i \in DOMAIN net[h]
    /\ h \notin Reorder => i = 1
    /\ kept => h \in Duplicate

AfterArrival(h, i, kept) == IF kept THEN net[h] ELSE Remove(net[h], i)

\* Fault: an ack of a packet in mFinalRetryPackets is not counted.
CountUnlessFinal(h, ids) ==
    mUnackedPacketCount[h] - Cardinality(DOMAIN mUnackedPackets[h] \cap ids)

\* mUnackedPacketCount after the acks for `ids'.
CountAfter(h, ids) == mUnackedPacketCount[h] - Cardinality(Pending(h) \cap ids)

\* An ack that leaves nothing pending takes the circuit off mUnackedCircuitMap.
NoneUnacked(h, ids) == ids # {} /\ CountAfter(h, ids) = 0

\* ackReliablePacket for each id acked by the packet, in its tail or its body.
AckReliablePackets(h, ids) ==
    LET acked == Pending(h) \cap ids
    IN  /\ mUnackedPackets' = [mUnackedPackets EXCEPT ![h] = Without(@, ids)]
        /\ mFinalRetryPackets' = [mFinalRetryPackets EXCEPT ![h] = Without(@, ids)]
        /\ mUnackedPacketCount' = [mUnackedPacketCount EXCEPT ![h] = CountAfter(h, ids)]
        /\ callbacks' = [callbacks EXCEPT ![h] = Answer(h, acked, "LL_ERR_NOERR")]
        /\ mUnackedCircuitMap' = IF NoneUnacked(h, ids)
                                 THEN mUnackedCircuitMap \ {h} ELSE mUnackedCircuitMap

\* collectRAck
CollectRAck(h, id) ==
    /\ mSendAckMap' = IF mAcks[h] = {} THEN mSendAckMap \cup {h} ELSE mSendAckMap
    /\ mAcks' = [mAcks EXCEPT ![h] = @ \cup {id}]

\* checkPacketInID, called by logValidMsg before the handler runs.
CheckPacketInID(h, id) ==
    mHighestPacketID' = [mHighestPacketID EXCEPT ![h] = HighestPacketID(@, id)]

\* Fault: the resent flag alone marks a duplicate.
isResend(h, p) == p.resent

isDuplicateResend(h, p) == p.resent /\ p.id \in mRecentlyReceivedReliablePackets[h]

\* A packet for which there is no circuit is dropped (mbProtected).
ReceiveOffCircuit(h, i, kept) ==
    /\ Arrival(h, i, kept)
    /\ h \notin mCircuitData
    /\ net' = [net EXCEPT ![h] = AfterArrival(h, i, kept)]
    /\ UNCHANGED <<mCircuitData, mPacketsOutID, mLastPingID, circuitVars, receiveVars>>

\* A resend of a packet seen before is acked again and discarded.
ReceiveDuplicateResend(h, i, kept) ==
    LET p == net[h][i]
    IN  /\ Arrival(h, i, kept)
        /\ h \in mCircuitData
        /\ isDuplicateResend(h, p)
        /\ AckReliablePackets(h, p.acks)
        /\ CollectRAck(h, p.id)
        /\ net' = [net EXCEPT ![h] = AfterArrival(h, i, kept)]
        /\ UNCHANGED <<mCircuitData, mPacketsOutID, mLastPingID, mHighestPacketID,
                       mRecentlyReceivedReliablePackets, handled>>

\* The application handles the message, and a reliable one is noted and acked.
ReceiveData(h, i, kept) ==
    LET p == net[h][i]
    IN  /\ Arrival(h, i, kept)
        /\ h \in mCircuitData
        /\ ~isDuplicateResend(h, p)
        /\ p.kind = "Data" /\ ~p.closes
        /\ AckReliablePackets(h, p.acks)
        /\ CheckPacketInID(h, p.id)
        /\ IF p.reliable
           THEN /\ handled' = [handled EXCEPT ![Peer(h)][p.id] = OnceMore(@)]
                /\ mRecentlyReceivedReliablePackets' =
                        [mRecentlyReceivedReliablePackets EXCEPT ![h] = @ \cup {p.id}]
                /\ CollectRAck(h, p.id)
           ELSE UNCHANGED <<handled, mRecentlyReceivedReliablePackets, mAcks, mSendAckMap>>
        /\ net' = [net EXCEPT ![h] = AfterArrival(h, i, kept)]
        /\ UNCHANGED <<mCircuitData, mPacketsOutID, mLastPingID>>

\* The handler removes the circuit, so that checkMessages does not find it
\* again and the message is never acked.
ReceiveClosingData(h, i, kept) ==
    LET p == net[h][i]
    IN  /\ Arrival(h, i, kept)
        /\ h \in mCircuitData
        /\ ~isDuplicateResend(h, p)
        /\ p.kind = "Data" /\ p.closes
        /\ CheckPacketInID(h, p.id)
        /\ handled' = IF p.reliable THEN [handled EXCEPT ![Peer(h)][p.id] = OnceMore(@)]
                                    ELSE handled
        /\ ForgetCircuit(h)
        /\ AbortPackets(h, p.acks)
        /\ net' = [net EXCEPT ![h] = AfterArrival(h, i, kept)]
        /\ UNCHANGED <<mPacketsOutID, mLastPingID>>

\* process_packet_ack, and process_complete_ping_check, whose timers are not modelled.
ReceiveReply(h, i, kept) ==
    LET p == net[h][i]
    IN  /\ Arrival(h, i, kept)
        /\ h \in mCircuitData
        /\ p.kind \in {"PacketAck", "CompletePingCheck"}
        /\ AckReliablePackets(h, p.acks)
        /\ CheckPacketInID(h, p.id)
        /\ net' = [net EXCEPT ![h] = AfterArrival(h, i, kept)]
        /\ UNCHANGED <<mCircuitData, mPacketsOutID, mLastPingID, mAcks, mSendAckMap,
                       mRecentlyReceivedReliablePackets, handled>>

\* process_start_ping_check: forget what the peer cannot resend, and reply.
ReceiveStartPingCheck(h, i, kept, take, timedOut) ==
    LET p      == net[h][i]
        id     == NextPacketOutID(mPacketsOutID[h])
        recent == mRecentlyReceivedReliablePackets[h]
    IN  /\ Arrival(h, i, kept)
        /\ h \in mCircuitData
        /\ BeforeWrap(h, 1)
        /\ p.kind = "StartPingCheck"
        /\ AckReliablePackets(h, p.acks)
        /\ CheckPacketInID(h, p.id)
        /\ mRecentlyReceivedReliablePackets' =
                [mRecentlyReceivedReliablePackets EXCEPT ![h] =
                    ClearDuplicateList(@, mHighestPacketID'[h], p.oldest, timedOut)]
        /\ mPacketsOutID' = [mPacketsOutID EXCEPT ![h] = id]
        /\ mAcks' = [mAcks EXCEPT ![h] = @ \ take]
        /\ net' = [net EXCEPT ![h] = AfterArrival(h, i, kept),
                              ![Peer(h)] = Transmit(@, <<Message("CompletePingCheck", id, take)>>)]
        /\ UNCHANGED <<mCircuitData, mLastPingID, mSendAckMap, handled>>

\* The network loses a packet.
Lose(h, i) ==
    /\ i \in DOMAIN net[h]
    /\ net' = [net EXCEPT ![h] = Remove(@, i)]
    /\ UNCHANGED <<mCircuitData, mPacketsOutID, mLastPingID, circuitVars, receiveVars>>
-----------------------------------------------------------------------------
Send(h) ==
    \E closes \in Closing, take \in SUBSET mAcks[h] :
        \/ \E retries \in Retries : SendReliable(h, retries, closes, take)
        \/ SendUnreliable(h, closes, take)

Frame(h) ==
    \E pinged \in BOOLEAN, take \in SUBSET mAcks[h],
       n \in 0 .. Cardinality(DOMAIN mUnackedPackets[h]),
       expired \in SUBSET DOMAIN mFinalRetryPackets[h] :
        \E resends \in [1 .. n -> DOMAIN mUnackedPackets[h]] :
            /\ Ascending(resends)
            /\ \E dropped \in SUBSET DOMAIN mUnackedPackets[h] :
                   ProcessAcks(h, pinged, take, resends, dropped, expired)

Receive(h) ==
    \E i \in DOMAIN net[h], kept \in BOOLEAN :
        \/ ReceiveOffCircuit(h, i, kept)
        \/ ReceiveDuplicateResend(h, i, kept)
        \/ ReceiveData(h, i, kept)
        \/ ReceiveClosingData(h, i, kept)
        \/ ReceiveReply(h, i, kept)
        \/ \E take \in SUBSET mAcks[h],
              timedOut \in SUBSET mRecentlyReceivedReliablePackets[h] :
               ReceiveStartPingCheck(h, i, kept, take, timedOut)

Next ==
    \E h \in Host :
        \/ Send(h)
        \/ RemoveCircuit(h)
        \/ Frame(h)
        \/ Receive(h)
        \/ \E i \in DOMAIN net[h] : Lose(h, i)

Spec == Init /\ [][Next]_vars

\* The main loop calls processAcks every frame, and the clock does not stop.
FairSpec == Spec /\ \A h \in Host : WF_vars(ProcessAcksAfterTimeout(h))
-----------------------------------------------------------------------------
(* Properties *)

PartialFunction(f, S, T) == DOMAIN f \subseteq S /\ f \in [DOMAIN f -> T]

PendingType ==
    /\ DOMAIN mUnackedPackets = Host
    /\ DOMAIN mFinalRetryPackets = Host
    /\ DOMAIN callbacks = Host
    /\ \A h \in Host :
        /\ PartialFunction(mUnackedPackets[h], PacketID, ReliablePacket)
        /\ PartialFunction(mFinalRetryPackets[h], PacketID, ReliablePacket)
        /\ PartialFunction(callbacks[h], PacketID, Seq(Result))
    /\ mUnackedPacketCount \in [Host -> Int]
    /\ mUnackedCircuitMap \subseteq Host

\* Every variable holds a value of its type.
TypeOK ==
    /\ mCircuitData \subseteq Host
    /\ mPacketsOutID \in [Host -> PacketID]
    /\ PendingType
    /\ mAcks \in [Host -> SUBSET PacketID]
    /\ mSendAckMap \subseteq Host
    /\ mRecentlyReceivedReliablePackets \in [Host -> SUBSET PacketID]
    /\ mHighestPacketID \in [Host -> PacketID]
    /\ mLastPingID \in [Host -> Nat]
    /\ net \in [Host -> Seq(Packet)]
    /\ handled \in [Host -> [PacketID -> 0 .. 2]]

\* The accounting of pending packets holds through resends, acks, drops and the
\* removal of a circuit: no packet is on both lists, mUnackedPacketCount is the
\* number of packets on them (sendMessage and the ack handlers decide by it
\* whether a circuit is in mUnackedCircuitMap), and only packets on the first
\* list have retries left.
UnackedAccounting ==
    \A h \in Host :
        /\ DOMAIN mUnackedPackets[h] \cap DOMAIN mFinalRetryPackets[h] = {}
        /\ mUnackedPacketCount[h] = Cardinality(Pending(h))
        /\ \A i \in DOMAIN mUnackedPackets[h] : mUnackedPackets[h][i].mRetries > 0

\* The maps that processAcks walks leave nothing out: a circuit with a pending
\* packet is one resendUnackedPackets visits, and a circuit with an ack
\* collected is one sendAcks visits.  A circuit missing there would never
\* resend, never give up and never ack.
NothingStranded ==
    \A h \in Host :
        /\ Pending(h) # {} => h \in mUnackedCircuitMap
        /\ mAcks[h] # {} => h \in mSendAckMap
        /\ h \in mUnackedCircuitMap \cup mSendAckMap => h \in mCircuitData

\* The callback of a reliable message runs at most once, and it has not run
\* exactly while the packet is on one of the two lists: no packet is forgotten
\* without an answer and none is answered twice, whichever of the ack, the
\* timeout and the end of the circuit comes first.
AnsweredOnce ==
    \A h \in Host : \A i \in DOMAIN callbacks[h] :
        Len(callbacks[h][i]) = IF i \in Pending(h) THEN 0 ELSE 1

\* A sender is told LL_ERR_NOERR only for a message its peer has handled, over
\* a network that loses, reorders and duplicates packets.
AckedWasHandled ==
    \A h \in Host : \A i \in DOMAIN callbacks[h] :
        callbacks[h][i] = <<"LL_ERR_NOERR">> => handled[h][i] > 0

\* Why that holds, in the form a step preserves: an id is remembered, waits to
\* be acked, or travels as an ack only once its packet was handled.
AcksFollowHandling ==
    \A h \in Host :
        /\ \A i \in mAcks[h] \cup mRecentlyReceivedReliablePackets[h] :
                handled[Peer(h)][i] > 0
        /\ \A p \in SetOf(net[h]) : \A i \in p.acks : handled[h][i] > 0
        /\ \A i \in DOMAIN callbacks[h] : \A k \in DOMAIN callbacks[h][i] :
                callbacks[h][i][k] = "LL_ERR_NOERR" => handled[h][i] > 0

\* No reliable message is handled twice by a host that gets its packets in order
\* and once: checkMessages acks "valid packets that we've seen for the first
\* time" and discards the others, and no ping makes it forget one that its peer,
\* whatever happens to the acks, may still resend.  The code keeps this while no
\* packet waits for its ack through half the id space: the resend of one that
\* did would be taken for a wrap and bring mHighestPacketID down to its id.
HandledAtMostOnce ==
    \A h \in Host \ (Reorder \cup Duplicate), i \in PacketID :
        2 * mPacketsOutID[Peer(h)] <= LL_MAX_OUT_PACKET_ID => handled[Peer(h)][i] <= 1

\* The callback of every reliable message runs in the end: no packet is
\* forgotten on the way between the lists or with its circuit.
EventuallyAnswered ==
    \A h \in Host, i \in PacketID :
        i \in DOMAIN callbacks[h] ~> i \in DOMAIN callbacks[h] /\ callbacks[h][i] # <<>>

\* What the callers of sendReliable see: the answer of each message, and which
\* were handled.
StatusOf(calls, i) ==
    IF i \notin DOMAIN calls THEN "unsent"
    ELSE IF calls[i] = <<>> THEN "pending"
    ELSE IF Len(calls[i]) = 1 THEN calls[i][1] ELSE "answered again"

StatusSeen == [m \in Host \X PacketID |-> StatusOf(callbacks[m[1]], m[2])]
HandledSeen == {m \in Host \X PacketID : handled[m[1]][m[2]] > 0}

Delivery == INSTANCE ReliableDelivery WITH
    Messages <- Host \X PacketID, status <- StatusSeen, handled <- HandledSeen

\* The status of a message changes as sendReliable promises: it is sent, then
\* answered once, with success only when the peer handled it before.
ImplementsDelivery == Delivery!Spec
=============================================================================
