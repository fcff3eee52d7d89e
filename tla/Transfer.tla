------------------------------ MODULE Transfer ------------------------------
(***************************************************************************)
(* The transfer manager (llmessage/lltransfermanager.cpp), which carries   *)
(* assets from a simulator to the viewer in packets of a few hundred       *)
(* bytes.  Both hosts run it: the source (lltransfersourceasset.cpp) sends *)
(* as its throttle allows, the target (lltransfertargetvfile.cpp) puts the *)
(* packets in order and appends them to a temporary file of the cache,     *)
(* which is renamed at the end.                                            *)
(*                                                                         *)
(* Messages are reliable: each arrives after any delay, perhaps twice,     *)
(* unless its sender runs out of retries (module Circuit).                 *)
(***************************************************************************)
EXTENDS Integers, Sequences, FiniteSets, SequencesExt, FiniteSetsExt

CONSTANTS
    Transfer,
    NumPackets,             \* transfer -> packets of its file
    Priority,               \* transfer -> priority of its request
    InventoryItem,          \* the transfers of items, whose info may have bad params
    LL_MAX_DELAYED_PACKETS,
    Unlucky,                \* bound: the transfers whose messages may be lost or arrive twice
    MaxDuplicates,          \* bound: how many of them arrive twice
    Nothing                 \* no file

ASSUME TransferAssumption ==
    /\ IsFiniteSet(Transfer)
    /\ NumPackets \in [Transfer -> Nat \ {0}] /\ Priority \in [Transfer -> Nat]
    /\ LL_MAX_DELAYED_PACKETS \in Nat /\ Nothing \notin Seq(Nat)
    /\ InventoryItem \subseteq Transfer
    /\ Unlucky \subseteq Transfer /\ MaxDuplicates \in Nat

VARIABLES
    mTransferSources,   \* transfer -> its source, at the simulator
    mTransferTargets,   \* transfer -> its target, in the viewer
    file,               \* transfer -> the temporary file
    asset,              \* transfer -> the file it was renamed to
    answers,            \* transfer -> the calls of mCompleteCallback
    wire,               \* the messages on their way
    unacked,            \* the data packets whose sender awaits the ack
    duplicates,         \* messages that arrived twice
    forsaken,           \* transfers that a message was lost of, with nobody told
    connected,          \* the circuit is there
    gAssetStorage       \* the viewer still has its asset storage

sourceVars == <<mTransferSources>>
targetVars == <<mTransferTargets, file, asset, answers>>
hostVars == <<connected, gAssetStorage>>
vars == <<mTransferSources, mTransferTargets, file, asset, answers, wire, unacked,
          duplicates, forsaken, connected, gAssetStorage>>
-----------------------------------------------------------------------------
Request(t) == [type |-> "TransferRequest", id |-> t]
Info(t, status) == [type |-> "TransferInfo", id |-> t, status |-> status]
Packet(t, n, status) == [type |-> "TransferPacket", id |-> t, packet |-> n, status |-> status]
Abort(t, to) == [type |-> "TransferAbort", id |-> t, to |-> to]

NoSource == [state |-> "none", next |-> 0]
NoTarget == [state |-> "none", gotInfo |-> FALSE, next |-> 0, delayed |-> <<>>,
             needsCreate |-> TRUE]

Whole(t) == [i \in 1 .. NumPackets[t] |-> i - 1]

Init ==
    /\ mTransferSources = [t \in Transfer |-> NoSource]
    /\ mTransferTargets = [t \in Transfer |-> NoTarget]
    /\ file = [t \in Transfer |-> Nothing]
    /\ asset = [t \in Transfer |-> Nothing]
    /\ answers = [t \in Transfer |-> <<>>]
    /\ wire = {} /\ unacked = {} /\ duplicates = 0 /\ forsaken = {}
    /\ connected = TRUE /\ gAssetStorage = TRUE
-----------------------------------------------------------------------------
(* The target *)

\* requestTransfer
RequestTransfer(t) ==
    /\ connected /\ mTransferTargets[t].state = "none"
    /\ mTransferTargets' = [mTransferTargets EXCEPT ![t].state = "waiting"]
    /\ wire' = wire \cup {Request(t)}
    /\ UNCHANGED <<sourceVars, file, asset, answers, unacked, duplicates, forsaken, hostVars>>

\* Fault: the temporary file of a failed transfer stays.
CompleteKeepingFile(t, status, content) ==
    /\ mTransferTargets' = [mTransferTargets EXCEPT ![t] = [NoTarget EXCEPT !.state = "gone"]]
    /\ file' = IF status = "DONE" THEN [file EXCEPT ![t] = Nothing] ELSE file
    /\ asset' = IF status = "DONE" THEN [asset EXCEPT ![t] = content] ELSE asset
    /\ answers' = [answers EXCEPT ![t] = Append(@, status)]

\* completionCallback and deleteTransfer: the temporary file is renamed, or
\* removed if the transfer failed.  Exit has the early return for a viewer without
\* asset storage.
Complete(t, status, content) ==
    /\ mTransferTargets' = [mTransferTargets EXCEPT ![t] = [NoTarget EXCEPT !.state = "gone"]]
    /\ file' = [file EXCEPT ![t] = Nothing]
    /\ asset' = IF status = "DONE" THEN [asset EXCEPT ![t] = content] ELSE asset
    /\ answers' = [answers EXCEPT ![t] = Append(@, status)]

\* Fault: mNeedsCreate is never cleared.
ContentsCreated(t, last) ==
    LET packets == [i \in 1 .. last + 1 - mTransferTargets[t].next |->
                        mTransferTargets[t].next + i - 1]
        old == IF file[t] = Nothing THEN {<<>>, Nothing} ELSE {file[t]}
    IN  IF packets = <<>> THEN {file[t]}
        ELSE {IF content = Nothing THEN Nothing ELSE content \o packets : content \in old}

\* dataCallback for the packets up to `last': the first one makes room for the
\* file, which may fail.  What is written to a file that has no room is ignored.
Contents(t, last) ==
    LET packets == [i \in 1 .. last + 1 - mTransferTargets[t].next |->
                        mTransferTargets[t].next + i - 1]
        old == IF mTransferTargets[t].needsCreate THEN {<<>>, Nothing} ELSE {file[t]}
    IN  IF packets = <<>> THEN {file[t]}
        ELSE {IF content = Nothing THEN Nothing ELSE content \o packets : content \in old}

\* Where playing back ends: at the first packet that is missing, or whose status
\* ends the transfer.
EndOf(t, delayed) ==
    CHOOSE n \in mTransferTargets[t].next .. NumPackets[t] :
        /\ n \in DOMAIN delayed => delayed[n] # "OK"
        /\ \A k \in mTransferTargets[t].next .. n - 1 :
                k \in DOMAIN delayed /\ delayed[k] = "OK"

\* The loop of processTransferPacket and of processTransferInfo: packets go to
\* the file while the next one is there, up to one that ends the transfer.
PlayBack(t, delayed) ==
    LET next == mTransferTargets[t].next
        end  == EndOf(t, delayed)
        rest == [k \in {k \in DOMAIN delayed : k \notin next .. end} |-> delayed[k]]
    IN  IF end \in DOMAIN delayed
        THEN \E content \in Contents(t, end) : Complete(t, delayed[end], content)
        ELSE \E content \in Contents(t, end - 1) :
                /\ mTransferTargets' = [mTransferTargets EXCEPT
                        ![t].gotInfo = TRUE, ![t].next = end, ![t].delayed = rest,
                        ![t].needsCreate = @ /\ end = next]
                /\ file' = [file EXCEPT ![t] = content]
                /\ UNCHANGED <<asset, answers>>

\* Takes m from the wire, which may keep it for another arrival.
Take(m, sent) ==
    /\ m \in wire
    /\ \/ wire' = (wire \ {m}) \cup sent /\ UNCHANGED duplicates
       \/ /\ m.id \in Unlucky /\ duplicates < MaxDuplicates
          /\ duplicates' = duplicates + 1
          /\ wire' = wire \cup sent

Waiting(t) == mTransferTargets[t].state = "waiting"

\* Fault: no packets are played back.
TransferInfoOnly(m) ==
    LET t == m.id IN
    /\ m.type = "TransferInfo" /\ Take(m, {})
    /\ CASE ~Waiting(t) -> UNCHANGED targetVars
         [] Waiting(t) /\ m.status # "OK" -> Complete(t, m.status, Nothing)
         [] OTHER ->
                /\ mTransferTargets' = [mTransferTargets EXCEPT ![t].gotInfo = TRUE]
                /\ UNCHANGED <<file, asset, answers>>
    /\ UNCHANGED <<sourceVars, unacked, forsaken, hostVars>>

\* unpackParams fails for an item whose info names no asset.
BadParams(t) == IF t \in InventoryItem THEN BOOLEAN ELSE {FALSE}

ProcessTransferInfo(m) ==
    LET t == m.id IN
    /\ m.type = "TransferInfo"
    /\ \/ ~Waiting(t) /\ Take(m, {}) /\ UNCHANGED targetVars
       \/ Waiting(t) /\ m.status # "OK" /\ Take(m, {}) /\ Complete(t, m.status, Nothing)
       \/ \E bad \in BadParams(t) :
             /\ Waiting(t) /\ m.status = "OK"
             /\ \/ ~bad /\ Take(m, {}) /\ PlayBack(t, mTransferTargets[t].delayed)
                \/ bad /\ Take(m, {Abort(t, "source")}) /\ Complete(t, "ABORT", Nothing)
    /\ UNCHANGED <<sourceVars, unacked, forsaken, hostVars>>

\* The check of addDelayedPacket.
TooMany(delayed) == Cardinality(DOMAIN delayed) > LL_MAX_DELAYED_PACKETS

\* A packet that is not the next is delayed, and one too many aborts all.
ProcessTransferPacket(m) ==
    LET t       == m.id
        target  == mTransferTargets[t]
        delayed == [n \in DOMAIN target.delayed \cup {m.packet} |->
                        IF n = m.packet THEN m.status ELSE target.delayed[n]]
        inOrder == target.gotInfo /\ m.packet = target.next
        full    == TooMany(target.delayed)
    IN
    /\ m.type = "TransferPacket"
    /\ CASE ~Waiting(t) -> Take(m, {}) /\ UNCHANGED targetVars
         [] Waiting(t) /\ inOrder -> Take(m, {}) /\ PlayBack(t, delayed)
         [] Waiting(t) /\ ~inOrder /\ ~full ->
                /\ Take(m, {})
                /\ mTransferTargets' = [mTransferTargets EXCEPT ![t].delayed = delayed]
                /\ UNCHANGED <<file, asset, answers>>
         [] OTHER -> Take(m, {Abort(t, "source")}) /\ Complete(t, "ABORT", Nothing)
    /\ UNCHANGED <<sourceVars, unacked, forsaken, hostVars>>

\* Whoever is told of an abort aborts, and so tells the other.
ProcessTransferAbort(m) ==
    LET t == m.id IN
    /\ m.type = "TransferAbort"
    /\ \/ /\ m.to = "target" /\ Waiting(t)
          /\ Take(m, {Abort(t, "source")})
          /\ Complete(t, "ABORT", Nothing) /\ UNCHANGED sourceVars
       \/ /\ m.to = "source" /\ mTransferSources[t].state \in {"asking", "sending"}
          /\ Take(m, {Abort(t, "target")})
          /\ mTransferSources' = [mTransferSources EXCEPT ![t].state = "gone"]
          /\ UNCHANGED targetVars
       \/ /\ m.to = "target" => ~Waiting(t)
          /\ m.to = "source" => mTransferSources[t].state \notin {"asking", "sending"}
          /\ Take(m, {}) /\ UNCHANGED <<sourceVars, targetVars>>
    /\ UNCHANGED <<unacked, forsaken, hostVars>>

\* The cache needs the room of a temporary file, which nobody holds open
\* between two packets.
Evict(t) ==
    /\ file[t] # Nothing /\ file' = [file EXCEPT ![t] = Nothing]
    /\ UNCHANGED <<sourceVars, mTransferTargets, asset, answers, wire, unacked, duplicates,
                   forsaken, hostVars>>
-----------------------------------------------------------------------------
(* The source *)

\* processTransferRequest asks the asset system for the file.
ProcessTransferRequest(m) ==
    LET t == m.id IN
    /\ m.type = "TransferRequest" /\ Take(m, {})
    /\ mTransferSources' = IF mTransferSources[t].state \in {"asking", "sending"}
                           THEN mTransferSources
                           ELSE [mTransferSources EXCEPT ![t] = [state |-> "asking", next |-> 0]]
    /\ UNCHANGED <<targetVars, unacked, forsaken, hostVars>>

InfoStatus == {"OK", "ERROR", "UNKNOWN_SOURCE"}

\* responderCallback and sendTransferStatus, which ends a transfer that has no
\* file.
Respond(t, status) ==
    /\ mTransferSources[t].state = "asking"
    /\ mTransferSources' = [mTransferSources EXCEPT
            ![t].state = IF status = "OK" THEN "sending" ELSE "gone"]
    /\ wire' = wire \cup {Info(t, status)}
    /\ UNCHANGED <<targetVars, unacked, duplicates, forsaken, hostVars>>

\* updateTransfers goes through the sources in the order of their priorities.  It
\* stays at one while it gives data, so that one goes to its last packet before
\* the next is served, until the throttle overflows.  A source whose file went
\* away sends LLTS_ERROR, with no data, and ends.
Sending == {t \in Transfer : mTransferSources[t].state = "sending"}

\* Those served are the first of the queue, up to the last one.
FirstServed(served, final) ==
    /\ final \in served
    /\ \A t \in served, u \in (Sending \ served) \cup {final} : Priority[t] >= Priority[u]

SendStatus(t, n, broken) ==
    CASE broken -> "ERROR"
      [] ~broken /\ n = NumPackets[t] - 1 -> "DONE"
      [] OTHER -> "OK"

\* Those served send up to their `last' packets; the files of some are broken.
Serve(served, final, broken, last) ==
    LET Status(t, n) == SendStatus(t, n, t \in broken /\ n = last[t])
        Sent(t) == {Packet(t, n, Status(t, n)) : n \in mTransferSources[t].next .. last[t]}
    IN  /\ \A t \in served : last[t] \in mTransferSources[t].next .. NumPackets[t] - 1
        /\ \A t \in served \ {final} : Status(t, last[t]) # "OK"
        /\ mTransferSources' = [t \in Transfer |->
                IF t \notin served THEN mTransferSources[t]
                ELSE [state |-> IF Status(t, last[t]) = "OK" THEN "sending" ELSE "gone",
                      next |-> last[t] + 1]]
        /\ wire' = wire \cup UNION {Sent(t) : t \in served}
        /\ unacked' = unacked \cup UNION {Sent(t) : t \in served}
        /\ UNCHANGED <<targetVars, duplicates, forsaken, hostVars>>

UpdateTransfers ==
    \E served \in SUBSET Sending, final \in Sending :
        /\ FirstServed(served, final)
        /\ \E broken \in SUBSET served,
              last \in [served -> 0 .. Max({NumPackets[t] : t \in served})] :
                Serve(served, final, broken, last)

\* The ack of a packet that arrived.
Acknowledged(m) ==
    /\ m \in unacked \ wire
    /\ unacked' = unacked \ {m}
    /\ UNCHANGED <<sourceVars, targetVars, wire, duplicates, forsaken, hostVars>>

\* Fault: the target is not told.
GiveUpSilently(m) ==
    LET alive == mTransferSources[m.id].state \in {"asking", "sending"} IN
    /\ m \in unacked /\ unacked' = unacked \ {m}
    /\ wire' \in {wire, wire \ {m}}
    /\ mTransferSources' = IF alive THEN [mTransferSources EXCEPT ![m.id].state = "gone"]
                           ELSE mTransferSources
    /\ forsaken' = IF ~alive /\ m \in wire /\ m \notin wire' THEN forsaken \cup {m.id}
                   ELSE forsaken
    /\ UNCHANGED <<targetVars, duplicates, hostVars>>

\* reliablePacketCallback with a failure: the packet was lost each time, or its
\* acks were.  The transfer is aborted if a source of it is there, one that was
\* started anew too.
GiveUp(m) ==
    LET alive == mTransferSources[m.id].state \in {"asking", "sending"}
        aborts == IF alive THEN {Abort(m.id, "target")} ELSE {}
    IN
    /\ m \in unacked /\ unacked' = unacked \ {m}
    /\ wire' \in {wire \cup aborts, (wire \ {m}) \cup aborts}
    /\ mTransferSources' = IF alive THEN [mTransferSources EXCEPT ![m.id].state = "gone"]
                           ELSE mTransferSources
    /\ forsaken' = IF ~alive /\ m \in wire /\ m \notin wire' THEN forsaken \cup {m.id}
                   ELSE forsaken
    /\ UNCHANGED <<targetVars, duplicates, hostVars>>

\* The other messages are lost without anyone being told.
Lose(m) ==
    /\ m \in wire /\ m.type # "TransferPacket" /\ m.id \in Unlucky
    /\ wire' = wire \ {m}
    /\ forsaken' = forsaken \cup {m.id}
    /\ UNCHANGED <<sourceVars, targetVars, unacked, duplicates, hostVars>>

\* Neither host has the circuit any more, nor what it carried.
Disconnect ==
    /\ connected' = FALSE /\ wire' = {} /\ unacked' = {}
    /\ mTransferTargets' = [t \in Transfer |->
            IF Waiting(t) THEN [NoTarget EXCEPT !.state = "gone"] ELSE mTransferTargets[t]]
    /\ mTransferSources' = [t \in Transfer |->
            IF mTransferSources[t].state \in {"asking", "sending"}
            THEN [mTransferSources[t] EXCEPT !.state = "gone"] ELSE mTransferSources[t]]

\* The circuit is removed on both hosts, and cleanupConnection aborts what they
\* have.
Cut ==
    /\ connected /\ Disconnect
    /\ file' = [t \in Transfer |-> IF Waiting(t) THEN Nothing ELSE file[t]]
    /\ answers' = [t \in Transfer |->
            IF Waiting(t) THEN Append(answers[t], "ABORT") ELSE answers[t]]
    /\ UNCHANGED <<asset, duplicates, forsaken, gAssetStorage>>

\* The viewer exits.  It handles no message any more, and deletes gAssetStorage
\* before end_messaging_system aborts the targets: completionCallback returns at
\* once, so that nobody is called and the temporary files stay.
Exit ==
    /\ connected /\ gAssetStorage' = FALSE
    /\ Disconnect
    /\ UNCHANGED <<file, asset, answers, duplicates, forsaken>>

Handle(m) ==
    \/ ProcessTransferInfo(m) \/ ProcessTransferPacket(m)
    \/ ProcessTransferAbort(m) \/ ProcessTransferRequest(m)

\* The hosts' main loops go on while there is something to do, and a throttle
\* gives room again.  Nothing makes the network lose anything.
MainLoop ==
    \/ UpdateTransfers
    \/ \E t \in Transfer, status \in InfoStatus : Respond(t, status)
    \/ \E m \in wire : Handle(m)

Next ==
    \/ \E t \in Transfer : RequestTransfer(t) \/ Evict(t)
    \/ MainLoop
    \/ \E m \in wire : Lose(m)
    \/ \E m \in unacked : Acknowledged(m) \/ GiveUp(m)
    \/ Cut
    \/ Exit

Spec == Init /\ [][Next]_vars

FairSpec == Spec /\ WF_vars(MainLoop)
-----------------------------------------------------------------------------
(* Properties *)

State == {"none", "asking", "sending", "gone"}
PacketStatus == {"OK", "DONE", "ERROR"}
Results == {"DONE", "ERROR", "UNKNOWN_SOURCE", "ABORT"}

PacketNumber == UNION {0 .. NumPackets[t] - 1 : t \in Transfer}
Source == [state : State, next : Nat]
Target == [state : {"none", "waiting", "gone"}, gotInfo : BOOLEAN, next : PacketNumber,
           delayed : UNION {[S -> PacketStatus] : S \in SUBSET PacketNumber},
           needsCreate : BOOLEAN]
DataPacket == [type : {"TransferPacket"}, id : Transfer, packet : PacketNumber,
               status : PacketStatus]
Message == [type : {"TransferRequest"}, id : Transfer]
           \cup [type : {"TransferInfo"}, id : Transfer, status : InfoStatus]
           \cup DataPacket
           \cup [type : {"TransferAbort"}, id : Transfer, to : {"source", "target"}]

\* Every variable has its type; a file holds packets.
TypeOK ==
    /\ mTransferSources \in [Transfer -> Source]
    /\ mTransferTargets \in [Transfer -> Target]
    /\ file \in [Transfer -> Seq(PacketNumber) \cup {Nothing}]
    /\ asset \in [Transfer -> Seq(PacketNumber) \cup {Nothing}]
    /\ answers \in [Transfer -> Seq(Results)]
    /\ wire \subseteq Message /\ unacked \subseteq DataPacket
    /\ duplicates \in 0 .. MaxDuplicates
    /\ forsaken \subseteq Transfer /\ connected \in BOOLEAN /\ gAssetStorage \in BOOLEAN

\* The transfers that were asked for.
Requested == {t \in Transfer : mTransferTargets[t].state # "none"}

\* The targets that went without an answer, because the viewer exits.
Dropped == {t \in Transfer :
    ~gAssetStorage /\ mTransferTargets[t].state = "gone" /\ answers[t] = <<>>}

\* The completion callback runs exactly once for a target that went, unless the
\* asset storage went before it, and not for one that is there: it frees what it
\* is given.
AnsweredOnce ==
    \A t \in Transfer \ Dropped :
        Len(answers[t]) = IF mTransferTargets[t].state = "gone" THEN 1 ELSE 0

\* No temporary file outlives its target in the cache, unless the asset storage
\* went before the target.
TempFilesGone ==
    \A t \in Transfer \ Dropped : ~Waiting(t) => file[t] = Nothing

\* A target never holds back the packet it waits for: both copies of the loop
\* play all that they can.
NothingHeldBack ==
    \A t \in Transfer :
        Waiting(t) /\ mTransferTargets[t].gotInfo
            => mTransferTargets[t].next \notin DOMAIN mTransferTargets[t].delayed

\* Every request is answered while the viewer runs, unless a message of its
\* transfer was lost and its sender had nobody left to tell.
EventuallyAnswered ==
    <>[](gAssetStorage =>
            \A t \in Requested : answers[t] # <<>> \/ t \in forsaken)

\* What those who request transfers see of them.
AnswerSeen == [t \in Transfer |->
    IF answers[t] = <<>> THEN "none"
    ELSE IF Len(answers[t]) = 1 THEN answers[t][1] ELSE "answered again"]
FileSeen == [t \in Transfer |->
    IF asset[t] = Nothing THEN "none" ELSE IF asset[t] = Whole(t) THEN "whole" ELSE "a part"]

Service == INSTANCE TransferService WITH
    Status <- Results, asked <- Requested, answer <- AnswerSeen, file <- FileSeen

\* The promise to them: whatever is lost, repeated, reordered or evicted, and
\* however often a source starts anew, the callback runs once, and the asset that
\* the temporary file becomes is whole.
ImplementsService == Service!Spec
=============================================================================
