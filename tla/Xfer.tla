-------------------------------- MODULE Xfer --------------------------------
(***************************************************************************)
(* File transfers of LLXferManager (llmessage/llxfermanager.cpp) and the   *)
(* LLXfer objects they work on (llxfer.cpp, llxfer_file.cpp,               *)
(* llxfer_vfile.cpp): a host asks another one for a file, which comes one  *)
(* packet at a time, each confirmed before the next is sent.  Every host   *)
(* runs a manager with a list of the xfers it receives and one of those it *)
(* sends.                                                                  *)
(*                                                                         *)
(* An xfer of the model is one call of requestFile or requestVFile; its    *)
(* 64 bit id is random and taken to be unique.  RequestXfer is a reliable  *)
(* message (Circuit), so it arrives at most once; the other three are not. *)
(* A packet of the model is as much as fills a buffer of either end: it is *)
(* read from the file when it is sent, and written to the temp file when   *)
(* the next one comes.  Reading the clock and the ack throttle are         *)
(* nondeterministic choices.                                               *)
(***************************************************************************)
EXTENDS Integers, Sequences, FiniteSets, SequencesExt

CONSTANTS
    Hosts, Xfers, NoHost,
    Requester, Source,  \* xfer -> the host that receives, the one that sends
    Packets,            \* xfer -> packets of the file
    Disks,              \* the disks to consider, see Disk
    AckThrottling,      \* the hosts with mUseAckThrottling
    mMaxIncomingXfers,
    mMaxOutgoingXfersPerCircuit,
    LL_PACKET_RETRY_LIMIT,
    Networks,           \* the networks to consider, of "fifo" and "lossy"
    CircuitsDie,        \* may a circuit die?
    MaxInFlight         \* bound: no resend while this much of an xfer is in flight

\* What reading a packet gives: all of its data, a part, none (a short read, or
\* one past the end) or a failure (of the seek or the read of an LLXfer_VFile, or
\* a position past the buffer); and whether mBufferContainsEOF is set.
Read == [data : {"whole", "part", "none", "fails"}, eof : BOOLEAN]

\* A disk d: the files missing at their source; what each read of packet n gives,
\* and at Packets[x] of any past the file; how often the temp file can be opened;
\* the packets that are not written to it completely.  Something is always sent
\* for packet 0, which carries the size, and never past the file.
DiskOK(d) ==
    /\ d.missing \subseteq Xfers /\ d.opens \in [Xfers -> Nat]
    /\ \A x \in Xfers :
        /\ d.reads[x] \in [0 .. Packets[x] -> Read] /\ d.short[x] \subseteq Nat
        /\ d.reads[x][0].data # "none"
        /\ d.reads[x][Packets[x]].data \in {"none", "fails"}

ASSUME XferAssumption ==
    /\ IsFiniteSet(Xfers) /\ NoHost \notin Hosts
    /\ Requester \in [Xfers -> Hosts] /\ Source \in [Xfers -> Hosts]
    /\ \A x \in Xfers : Requester[x] # Source[x]
    /\ Packets \in [Xfers -> Nat \ {0}]
    /\ \A d \in Disks : DiskOK(d)
    /\ AckThrottling \subseteq Hosts
    /\ mMaxIncomingXfers \in Nat \ {0}
    /\ mMaxOutgoingXfersPerCircuit \in Nat \ {0}
    /\ LL_PACKET_RETRY_LIMIT \in Nat /\ MaxInFlight \in Nat
    /\ Networks \subseteq {"fifo", "lossy"} /\ CircuitsDie \in BOOLEAN

VARIABLES
    mReceiveList, mSendList,    \* of each host, the head first
    receive, send,              \* the LLXfer objects of either end
    mOutgoingHosts,             \* the one LLHostStatus of a host
    mXferAckQueue,
    toRequester, toSource,      \* the messages about an xfer on their way
    disk,                       \* one of Disks
    network,                    \* "fifo" loses nothing while the circuit lives
    gone,                       \* the pairs of hosts whose circuit died
    requested,                  \* the xfers asked for so far
    received,                   \* history: what went through the buffer, and
                                \* whether all of it came to the temp file
    answers                     \* history: results passed to the callback

receiveVars == <<mReceiveList, receive, mXferAckQueue, received, answers>>
sendVars == <<mSendList, send, mOutgoingHosts>>
environment == <<disk, network>>
vars == <<receiveVars, sendVars, environment, toRequester, toSource, gone, requested>>
-----------------------------------------------------------------------------
(* Data *)

\* "NONE" stands for an object that is in no list: it was not made yet, or was
\* deleted when removeXfer took it out.
Status == {"NONE", "PENDING", "IN_PROGRESS", "COMPLETE", "ABORTED"}

Result == {"NOERR", "EOF", "TCP_TIMEOUT", "CIRCUIT_GONE", "FILE_NOT_FOUND",
           "CANNOT_OPEN_FILE", "FAILED"}

\* mPacketNum of a new sender is -1: sendNextPacket increments it first.
NoReceive == [status |-> "NONE", packet |-> 0]
NewReceive == [status |-> "PENDING", packet |-> 0]
NoSend == [status |-> "NONE", packet |-> -1, waiting |-> FALSE, retries |-> 0]
NewSend == [status |-> "PENDING", packet |-> -1, waiting |-> FALSE, retries |-> 0]

PacketNum(x) == 0 .. Packets[x] - 1

\* suck, for packet n.
Sucked(x, n) == disk.reads[x][IF n < Packets[x] THEN n ELSE Packets[x]]

\* sendPacket marks the packet in which the buffer and with it the file ends.  A
\* file whose last read fills the buffer has no such packet (feof is not set), one
\* that was cut short has it early.
IsLast(x, n) == Sucked(x, n).eof

RequestXfer == [type |-> "RequestXfer"]
SendXferPacket(x, n) ==
    [type |-> "SendXferPacket", packet |-> n, last |-> IsLast(x, n),
     whole |-> Sucked(x, n).data = "whole"]
ConfirmXferPacket(n) == [type |-> "ConfirmXferPacket", packet |-> n]
AbortXfer(result) == [type |-> "AbortXfer", result |-> result]

\* What may be on its way to the requester of x.
ToRequester(x) == {SendXferPacket(x, n) : n \in PacketNum(x)}
                    \cup {AbortXfer(r) : r \in Result \ {"NOERR"}}

\* isCircuitAlive, for the two hosts of x; nothing is sent on a dead circuit.
Alive(x) == {Requester[x], Source[x]} \notin gone
Post(queue, x, messages) == IF Alive(x) THEN queue \o messages ELSE queue

\* What is at the positions I of a list, in order; not with SelectSeq, of which
\* the prover knows nothing.
Chosen(list, I) ==
    LET upTo[n \in 0 .. Len(list)] ==
            IF n = 0 THEN <<>>
            ELSE IF n \in I THEN Append(upTo[n - 1], list[n]) ELSE upTo[n - 1]
    IN  upTo[Len(list)]

Without(list, S) == Chosen(list, {i \in DOMAIN list : list[i] \notin S})
-----------------------------------------------------------------------------
Init ==
    /\ mReceiveList = [h \in Hosts |-> <<>>]
    /\ mSendList = [h \in Hosts |-> <<>>]
    /\ receive = [x \in Xfers |-> NoReceive]
    /\ send = [x \in Xfers |-> NoSend]
    /\ mOutgoingHosts = [h \in Hosts |-> [host |-> NoHost, active |-> 0]]
    /\ mXferAckQueue = [h \in Hosts |-> <<>>]
    /\ toRequester = [x \in Xfers |-> <<>>]
    /\ toSource = [x \in Xfers |-> <<>>]
    /\ disk \in Disks
    /\ network \in Networks
    /\ gone = {}
    /\ requested = {}
    /\ received = [x \in Xfers |-> <<>>]
    /\ answers = [x \in Xfers |-> <<>>]
-----------------------------------------------------------------------------
(* Downloads start *)

InProgress(list, xfers) == {x \in ToSet(list) : xfers[x].status = "IN_PROGRESS"}

\* The k-th time the temp file of x is opened, counted from 0.
CanOpen(x, k) == k < disk.opens[x]

PendingDownloads(list, xfers) == {x \in ToSet(list) : xfers[x].status = "PENDING"}

\* Fault: the downloads that run are not counted.
AllSlots(list, xfers) == mMaxIncomingXfers

FreeSlots(list, xfers) == mMaxIncomingXfers - Cardinality(InProgress(list, xfers))

\* The pending downloads startPendingDownloads tries, from the tail of the list
\* to its head: it goes on until the free slots are taken, and one whose temp
\* file cannot be created takes none.
Tried(list, xfers) ==
    LET pending(k) == xfers[list[k]].status = "PENDING"
        started(k) == {j \in k + 1 .. Len(list) : pending(j) /\ CanOpen(list[j], 0)}
    IN  {list[k] : k \in {i \in DOMAIN list :
            pending(i) /\ Cardinality(started(i)) < FreeSlots(list, xfers)}}

\* startPendingDownloads on host h, whose receive list has become `list' and
\* whose objects `xfers'; `queues' holds what is on its way to the sources.
StartPendingDownloads(h, list, xfers, queues) ==
    LET tried == Tried(list, xfers)
        status(x) == IF CanOpen(x, 0) THEN "IN_PROGRESS" ELSE "ABORTED"
        message(x) == IF CanOpen(x, 0) THEN RequestXfer ELSE AbortXfer("FAILED")
    IN  /\ mReceiveList' = [mReceiveList EXCEPT ![h] = list]
        /\ receive' = [x \in Xfers |->
                IF x \in tried THEN [xfers[x] EXCEPT !.status = status(x)]
                               ELSE xfers[x]]
        /\ toSource' = [x \in Xfers |->
                IF x \in tried THEN Post(queues[x], x, <<message(x)>>) ELSE queues[x]]

\* Fault: removeXfer is not called.
KeepDownload(x, queues) ==
    StartPendingDownloads(Requester[x], mReceiveList[Requester[x]],
                          [receive EXCEPT ![x].status = "COMPLETE"], queues)

\* removeXfer on the receive list, then startPendingDownloads.
EndDownload(x, queues) ==
    StartPendingDownloads(Requester[x], Without(mReceiveList[Requester[x]], {x}),
                          [receive EXCEPT ![x] = NoReceive], queues)

\* requestFile, requestVFile: a new xfer joins the head of the receive list, or
\* its tail when it has priority.
RequestFile(x, priority) ==
    LET list == mReceiveList[Requester[x]]
    IN  /\ x \notin requested
        /\ requested' = requested \cup {x}
        /\ StartPendingDownloads(Requester[x],
                IF priority THEN Append(list, x) ELSE <<x>> \o list,
                [receive EXCEPT ![x] = NewReceive], toSource)
        /\ UNCHANGED <<mXferAckQueue, received, answers, sendVars, environment,
                       toRequester, gone>>
-----------------------------------------------------------------------------
(* Sending *)

\* The next message is any one on a lossy network, the first on the other.
Arrives(queue, i) == i \in DOMAIN queue /\ (network = "fifo" => i = 1)

\* sendPacket: the object after packet n was sent, and the messages that go out.
\* When there is no data nothing is sent and no ack awaited, but the status is set
\* all the same.
SendPacket(x, xfer, n) ==
    IF Sucked(x, n).data = "fails"
    THEN [xfer EXCEPT !.status = "ABORTED"]
    ELSE [xfer EXCEPT !.waiting = @ \/ Sucked(x, n).data # "none",
                      !.status = IF IsLast(x, n) THEN "COMPLETE" ELSE "IN_PROGRESS"]

\* Fault: a packet without data is sent.
EmptyPacketOf(x, n) ==
    IF Sucked(x, n).data = "fails" THEN <<AbortXfer("EOF")>> ELSE <<SendXferPacket(x, n)>>

PacketOf(x, n) ==
    CASE Sucked(x, n).data = "fails" -> <<AbortXfer("EOF")>>
      [] Sucked(x, n).data = "none" -> <<>>
      [] OTHER -> <<SendXferPacket(x, n)>>

SendNextPacket(x, xfer) ==
    SendPacket(x, [xfer EXCEPT !.retries = 0, !.packet = @ + 1], xfer.packet + 1)

NumActiveXfers(status, host) == IF status.host = host THEN status.active ELSE 0

\* processFileRequest: the file is sent at once while there are few active
\* xfers to that host, and waits for retransmitUnackedPackets otherwise.
ProcessFileRequest(x, i) ==
    LET h == Source[x]
        now == NumActiveXfers(mOutgoingHosts[h], Requester[x]) < mMaxOutgoingXfersPerCircuit
    IN  /\ Arrives(toSource[x], i) /\ toSource[x][i].type = "RequestXfer"
        /\ toSource' = [toSource EXCEPT ![x] = RemoveAt(@, i)]
        /\ \/ /\ x \in disk.missing
              /\ toRequester' = [toRequester EXCEPT ![x] =
                                    Post(@, x, <<AbortXfer("FILE_NOT_FOUND")>>)]
              /\ UNCHANGED sendVars
           \/ /\ x \notin disk.missing /\ now
              /\ mSendList' = [mSendList EXCEPT ![h] = <<x>> \o @]
              /\ send' = [send EXCEPT ![x] = SendNextPacket(x, NewSend)]
              /\ mOutgoingHosts' = [mOutgoingHosts EXCEPT ![h].active =
                    IF mOutgoingHosts[h].host = Requester[x] THEN @ + 1 ELSE @]
              /\ toRequester' = [toRequester EXCEPT ![x] = Post(@, x, PacketOf(x, 0))]
           \/ /\ x \notin disk.missing /\ ~now
              /\ mSendList' = [mSendList EXCEPT ![h] = <<x>> \o @]
              /\ send' = [send EXCEPT ![x] = NewSend]
              /\ UNCHANGED <<mOutgoingHosts, toRequester>>
        /\ UNCHANGED <<receiveVars, environment, gone, requested>>

\* processConfirmation: whatever packet it confirms, an xfer in progress sends
\* its next one and any other is removed.
ProcessConfirmation(x, i) ==
    /\ Arrives(toSource[x], i) /\ toSource[x][i].type = "ConfirmXferPacket"
    /\ toSource' = [toSource EXCEPT ![x] = RemoveAt(@, i)]
    /\ \/ /\ send[x].status = "NONE"
          /\ UNCHANGED <<mSendList, send, toRequester>>
       \/ /\ send[x].status = "IN_PROGRESS"
          /\ send' = [send EXCEPT ![x] = SendNextPacket(x, [@ EXCEPT !.waiting = FALSE])]
          /\ toRequester' = [toRequester EXCEPT ![x] =
                                Post(@, x, PacketOf(x, send[x].packet + 1))]
          /\ UNCHANGED mSendList
       \/ /\ send[x].status \notin {"NONE", "IN_PROGRESS"}
          /\ mSendList' = [mSendList EXCEPT ![Source[x]] = Without(@, {x})]
          /\ send' = [send EXCEPT ![x] = NoSend]
          /\ UNCHANGED toRequester
    /\ UNCHANGED <<receiveVars, mOutgoingHosts, environment, gone, requested>>

\* processAbort at the source looks among the xfers received there only.
IgnoreAbort(x, i) ==
    /\ Arrives(toSource[x], i) /\ toSource[x][i].type = "AbortXfer"
    /\ toSource' = [toSource EXCEPT ![x] = RemoveAt(@, i)]
    /\ UNCHANGED <<receiveVars, sendVars, environment, toRequester, gone, requested>>
-----------------------------------------------------------------------------
(* Receiving *)

Answer(x, result) == answers' = [answers EXCEPT ![x] = Append(@, result)]

\* processEOF writes what is left in the buffer, packet n, and hands the callback
\* its result, or that of flush, which reports a file it cannot open and only warns
\* of a short write.
EOFResult(x, n) == IF CanOpen(x, n + 1) THEN "NOERR" ELSE "CANNOT_OPEN_FILE"

\* Fault: only older packets are refused.
NotBefore(x, n) == n >= receive[x].packet

Expected(x, n) == n = receive[x].packet

\* processReceiveData for a packet that is not the expected one: the one before
\* it is confirmed again, as its confirmation may be lost.
ReconfirmData(x, i) ==
    LET n == toRequester[x][i].packet
    IN  /\ Arrives(toRequester[x], i) /\ toRequester[x][i].type = "SendXferPacket"
        /\ receive[x].status = "NONE" \/ ~Expected(x, n)
        /\ toRequester' = [toRequester EXCEPT ![x] = RemoveAt(@, i)]
        /\ toSource' = IF receive[x].status # "NONE" /\ Expected(x, n + 1)
                       THEN [toSource EXCEPT ![x] = Post(@, x, <<ConfirmXferPacket(n)>>)]
                       ELSE toSource
        /\ UNCHANGED <<receiveVars, sendVars, environment, gone, requested>>

\* processReceiveData for the expected packet.  Packet n fills the buffer, so
\* n > 0 flushes the one before it first, which fails when the temp file cannot be
\* opened, and not when too little is written; the confirmation goes out at once
\* or, with throttling, joins the queue.
ProcessReceiveData(x, i) ==
    LET h == Requester[x]
        m == toRequester[x][i]
        direct == [toSource EXCEPT ![x] = Post(@, x, <<ConfirmXferPacket(m.packet)>>)]
        queues == IF h \in AckThrottling THEN toSource ELSE direct
    IN  /\ Arrives(toRequester[x], i) /\ m.type = "SendXferPacket"
        /\ receive[x].status # "NONE" /\ Expected(x, m.packet)
        /\ toRequester' = [toRequester EXCEPT ![x] = RemoveAt(@, i)]
        /\ \/ /\ m.packet > 0 /\ ~CanOpen(x, m.packet)
              /\ EndDownload(x, [toSource EXCEPT ![x] =
                                    Post(@, x, <<AbortXfer("CANNOT_OPEN_FILE")>>)])
              /\ UNCHANGED <<mXferAckQueue, received, answers>>
           \/ /\ m.packet = 0 \/ CanOpen(x, m.packet)
              /\ received' = [received EXCEPT ![x] = Append(@,
                    [packet |-> m.packet,
                     whole |-> m.whole /\ m.packet \notin disk.short[x]])]
              /\ mXferAckQueue' = IF h \notin AckThrottling THEN mXferAckQueue
                    ELSE [mXferAckQueue EXCEPT ![h] =
                            Append(@, [id |-> x, packet |-> m.packet])]
              /\ \/ /\ m.last
                    /\ Answer(x, EOFResult(x, m.packet))
                    /\ EndDownload(x, queues)
                 \/ /\ ~m.last
                    /\ receive' = [receive EXCEPT ![x].packet = @ + 1]
                    /\ toSource' = queues
                    /\ UNCHANGED <<mReceiveList, answers>>
        /\ UNCHANGED <<sendVars, environment, gone, requested>>

\* processAbort at the requester.
ProcessAbort(x, i) ==
    /\ Arrives(toRequester[x], i) /\ toRequester[x][i].type = "AbortXfer"
    /\ toRequester' = [toRequester EXCEPT ![x] = RemoveAt(@, i)]
    /\ \/ /\ receive[x].status # "NONE"
          /\ Answer(x, toRequester[x][i].result)
          /\ EndDownload(x, toSource)
       \/ /\ receive[x].status = "NONE"
          /\ UNCHANGED <<mReceiveList, receive, answers, toSource>>
    /\ UNCHANGED <<mXferAckQueue, received, sendVars, environment, gone, requested>>
-----------------------------------------------------------------------------
(* The timer *)

\* The xfers host h receives over a circuit that died.
Cut(h) == {x \in InProgress(mReceiveList[h], receive) : ~Alive(x)}

\* updateHostStatus makes one LLHostStatus, for the host of the first xfer, and
\* counts every xfer under it.
UpdateHostStatus(h) ==
    IF mSendList[h] = <<>> THEN [host |-> NoHost, active |-> 0]
    ELSE [host |-> Requester[Head(mSendList[h])],
          active |-> Cardinality(InProgress(mSendList[h], send))]

\* What becomes of the xfers being sent when those in `expired' have waited
\* LL_PACKET_TIMEOUT: dropped or resent, removed because aborted, or started if
\* pending while numActiveXfers, which each start increments, allows.
Dropped(expired) == {x \in expired : send[x].retries > LL_PACKET_RETRY_LIMIT}
Removed(h, expired) ==
    {x \in ToSet(mSendList[h]) \ expired : send[x].status = "ABORTED"}
\* Fault: an off-by-one in the limit.
StartedBelow(h, expired) ==
    {x \in ToSet(mSendList[h]) \ expired :
        /\ send[x].status = "PENDING"
        /\ UpdateHostStatus(h).active + 1 < mMaxOutgoingXfersPerCircuit}
Started(h, expired) ==
    LET list == mSendList[h]
        status == UpdateHostStatus(h)
        waits(x) == x \notin expired /\ send[x].status = "PENDING"
        ahead(i) == {j \in 1 .. i - 1 : waits(list[j]) /\ Requester[list[j]] = status.host}
    IN  {list[i] : i \in {k \in DOMAIN list :
            /\ waits(list[k])
            /\ Requester[list[k]] = status.host =>
                   status.active + Cardinality(ahead(k)) < mMaxOutgoingXfersPerCircuit}}

\* Fault: a drop does not tell the requester.
SilentTimerMessages(h, expired, x) ==
    IF x \in expired \ Dropped(expired) THEN PacketOf(x, send[x].packet)
    ELSE IF x \in Started(h, expired) THEN PacketOf(x, send[x].packet + 1)
    ELSE <<>>

\* What one xfer sends meanwhile, and its object afterwards.
TimerMessages(h, expired, x) ==
    IF x \in Dropped(expired) THEN <<AbortXfer("TCP_TIMEOUT")>>
    ELSE IF x \in expired THEN PacketOf(x, send[x].packet)
    ELSE IF x \in Started(h, expired) THEN PacketOf(x, send[x].packet + 1)
    ELSE <<>>

AfterTimer(h, expired, x) ==
    IF x \in Dropped(expired) \cup Removed(h, expired) THEN NoSend
    ELSE IF x \in expired
         THEN SendPacket(x, [send[x] EXCEPT !.retries = @ + 1], send[x].packet)
    ELSE IF x \in Started(h, expired) THEN SendNextPacket(x, send[x])
    ELSE send[x]

\* retransmitUnackedPackets, once per frame: the downloads whose circuit died
\* are answered, the send list is gone through, and `n' throttled confirmations
\* leave.
RetransmitUnackedPackets(h, expired, n) ==
    LET status == UpdateHostStatus(h)
        counted == {x \in Started(h, expired) : Requester[x] = status.host}
        acks(x) == Chosen(mXferAckQueue[h], {j \in 1 .. n : mXferAckQueue[h][j].id = x})
        confirms(x) == [j \in DOMAIN acks(x) |-> ConfirmXferPacket(acks(x)[j].packet)]
    IN  /\ mReceiveList' = [mReceiveList EXCEPT ![h] = Without(@, Cut(h))]
        /\ receive' = [x \in Xfers |-> IF x \in Cut(h) THEN NoReceive ELSE receive[x]]
        /\ answers' = [x \in Xfers |-> IF x \in Cut(h)
                            THEN Append(answers[x], "CIRCUIT_GONE") ELSE answers[x]]
        /\ mSendList' = [mSendList EXCEPT ![h] =
                Without(@, Dropped(expired) \cup Removed(h, expired))]
        /\ send' = [x \in Xfers |->
                IF Source[x] = h THEN AfterTimer(h, expired, x) ELSE send[x]]
        /\ mOutgoingHosts' = [mOutgoingHosts EXCEPT ![h] =
                [status EXCEPT !.active = @ + Cardinality(counted)]]
        /\ toRequester' = [x \in Xfers |->
                IF Source[x] = h THEN Post(toRequester[x], x, TimerMessages(h, expired, x))
                                 ELSE toRequester[x]]
        /\ mXferAckQueue' = [mXferAckQueue EXCEPT ![h] = SubSeq(@, n + 1, Len(@))]
        /\ toSource' = [x \in Xfers |->
                IF Requester[x] = h THEN Post(toSource[x], x, confirms(x)) ELSE toSource[x]]
        /\ UNCHANGED <<received, environment, gone, requested>>

Waiting(h) == {x \in ToSet(mSendList[h]) : send[x].waiting}

Timer(h, expired, n) ==
    /\ expired \subseteq Waiting(h)
    /\ \A x \in expired : Len(toRequester[x]) < MaxInFlight
    /\ n \in 0 .. Len(mXferAckQueue[h])
    /\ RetransmitUnackedPackets(h, expired, n)
-----------------------------------------------------------------------------
(* The network *)

Lose(x) ==
    /\ network = "lossy"
    /\ \/ /\ \E i \in DOMAIN toRequester[x] :
                toRequester' = [toRequester EXCEPT ![x] = RemoveAt(@, i)]
          /\ UNCHANGED toSource
       \/ /\ \E i \in DOMAIN toSource[x] :
                toSource' = [toSource EXCEPT ![x] = RemoveAt(@, i)]
          /\ UNCHANGED toRequester
    /\ UNCHANGED <<receiveVars, sendVars, environment, gone, requested>>

\* The circuit between two hosts dies, for good, with what is in flight on it.
CircuitDies(x) ==
    LET pair == {Requester[x], Source[x]}
        cut(y) == {Requester[y], Source[y]} = pair
    IN  /\ CircuitsDie /\ Alive(x)
        /\ gone' = gone \cup {pair}
        /\ toRequester' = [y \in Xfers |-> IF cut(y) THEN <<>> ELSE toRequester[y]]
        /\ toSource' = [y \in Xfers |-> IF cut(y) THEN <<>> ELSE toSource[y]]
        /\ UNCHANGED <<receiveVars, sendVars, environment, requested>>
-----------------------------------------------------------------------------
AtSource(x, i) == ProcessFileRequest(x, i) \/ ProcessConfirmation(x, i) \/ IgnoreAbort(x, i)
AtRequester(x, i) == ReconfirmData(x, i) \/ ProcessReceiveData(x, i) \/ ProcessAbort(x, i)

Next ==
    \/ \E x \in Xfers, priority \in BOOLEAN : RequestFile(x, priority)
    \/ \E x \in Xfers : \E i \in DOMAIN toSource[x] : AtSource(x, i)
    \/ \E x \in Xfers : \E i \in DOMAIN toRequester[x] : AtRequester(x, i)
    \/ \E h \in Hosts : \E expired \in SUBSET Waiting(h),
                            n \in 0 .. Len(mXferAckQueue[h]) : Timer(h, expired, n)
    \/ \E x \in Xfers : Lose(x) \/ CircuitDies(x)

Spec == Init /\ [][Next]_vars

\* The main loop calls retransmitUnackedPackets in every frame: it runs again
\* and again with every wait over and room in the throttle.  The network that
\* loses nothing delivers what is first in a queue.
FairSpec ==
    /\ Spec
    /\ \A h \in Hosts : WF_vars(Timer(h, Waiting(h), Len(mXferAckQueue[h])))
    /\ \A x \in Xfers : WF_vars(network = "fifo" /\ (AtSource(x, 1) \/ AtRequester(x, 1)))
-----------------------------------------------------------------------------
(* Properties *)

\* The types; in particular no message carries a packet that the file does not
\* have, however many confirmations arrive and wherever the file ends.
TypeOK ==
    /\ receive \in [Xfers -> [status : Status, packet : Nat]]
    /\ send \in [Xfers -> [status : Status, packet : Int, waiting : BOOLEAN, retries : Nat]]
    /\ \A x \in Xfers : toRequester[x] \in Seq(ToRequester(x))
    /\ disk \in Disks /\ network \in Networks /\ requested \subseteq Xfers
    /\ received \in [Xfers -> Seq([packet : Nat, whole : BOOLEAN])]
    /\ answers \in [Xfers -> Seq(Result)]

\* The file of x is read to its end, which is seen there, and written without a
\* short write.
Intact(x) ==
    /\ \A n \in PacketNum(x) :
            Sucked(x, n) = [data |-> "whole", eof |-> n = Packets[x] - 1]
    /\ disk.short[x] = {}

\* Packet n in the temp file: whole unless it was read or written short.
Stored(x, n) ==
    [packet |-> n, whole |-> Sucked(x, n).data = "whole" /\ n \notin disk.short[x]]

\* A callback is told of success only when the temp file was given every packet up
\* to the one that the source took for the last, once each and in order, whatever
\* the network loses, delays or makes the sender repeat, and however far a repeated
\* confirmation (which processConfirmation takes for any packet) has put the sender
\* ahead.  That is the whole file when no read or write falls short; the code does
\* not notice one that does.
SuccessMeansWhole ==
    \A x \in Xfers : "NOERR" \in ToSet(answers[x]) =>
        LET count == Len(received[x])
        IN  /\ count > 0 /\ IsLast(x, count - 1)
            /\ received[x] = [n \in 1 .. count |-> Stored(x, n - 1)]
            /\ Intact(x) => received[x] = [n \in 1 .. Packets[x] |->
                                                [packet |-> n - 1, whole |-> TRUE]]

\* A callback runs at most once: what arrives, expires or dies after an xfer
\* was answered finds it gone from the receive list.
AnsweredOnce == \A x \in Xfers : Len(answers[x]) <= 1

\* No more downloads run than mMaxIncomingXfers, and while all circuits live no
\* slot stays free with a download pending: each handler that ends one refills.
SlotsUsed ==
    \A h \in Hosts :
        LET active == Cardinality(InProgress(mReceiveList[h], receive))
        IN  /\ active <= mMaxIncomingXfers
            /\ gone = {} /\ PendingDownloads(mReceiveList[h], receive) # {}
                   => active = mMaxIncomingXfers

\* The sender of x comes to a packet without data before the end of the file: it
\* then sends nothing and waits for no ack.
FallsSilent(x) ==
    \E n \in 0 .. Packets[x] :
        Sucked(x, n).data = "none" /\ \A m \in 0 .. n - 1 : ~IsLast(x, m)

\* On a network that loses and reorders nothing a sender forgets an xfer only
\* when its end is in flight: the last packet or an abort.  Repeated confirmations
\* end it early but strand nobody; only a sender that falls silent does.
SenderForgetsNobody ==
    \A x \in Xfers :
        /\ network = "fifo" /\ Alive(x) /\ ~FallsSilent(x)
        /\ receive[x].status = "IN_PROGRESS" /\ send[x].status = "NONE"
        /\ RequestXfer \notin ToSet(toSource[x])
        => /\ toRequester[x] # <<>>
           /\ LET m == Last(toRequester[x]) IN m.type = "AbortXfer" \/ m.last

\* On such a network every download whose temp file can be opened is answered,
\* unless its circuit or another one dies, or some sender falls silent: that one
\* keeps its requester waiting, and others from their slots.
EventuallyAnswered ==
    \A x \in Xfers :
        /\ network = "fifo" /\ (\A y \in Xfers : ~FallsSilent(y))
        /\ x \in requested /\ CanOpen(x, Packets[x])
        ~> answers[x] # <<>> \/ gone # {}

=============================================================================
