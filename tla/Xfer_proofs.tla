----------------------------- MODULE Xfer_proofs -----------------------------
(***************************************************************************)
(* Proofs about Xfer, for any hosts, files, disks, limits and network: its *)
(* types, that a callback runs at most once, that success is reported only *)
(* for a whole file, that the slots for downloads are used, and that a     *)
(* source forgets no requester.                                            *)
(*                                                                         *)
(* The invariant has a part per end of an xfer and one for the messages to *)
(* the requester.  The end that sends goes through the packets in order,   *)
(* never on from the one it takes for the last, and waits for an ack only  *)
(* of a packet it could read (SendOK), so every packet in flight is one of *)
(* the file and marked last as the source marks it (WireOK); the end that  *)
(* receives has buffered exactly the packets before the one it expects for *)
(* as long as it is in its list, and has not run its callback yet          *)
(* (ReceiveOK).                                                            *)
(*                                                                         *)
(* ListsOK relates the receive lists to the objects and says of each that  *)
(* its slots are used.  FlowOK relates the two ends of an xfer and what is *)
(* between them, on a network that loses and reorders nothing.             *)
(***************************************************************************)
EXTENDS Xfer, TLAPS, SequenceTheorems, NaturalsInduction, FiniteSetTheorems

EnvOK == disk \in Disks /\ network \in Networks

\* Something of packet n can be sent.
HasData(x, n) == Sucked(x, n).data \in {"whole", "part"}

\* No packet before n is taken for the last.
NotPast(x, n) == \A m \in 0 .. n - 1 : ~IsLast(x, m)

\* What SendOK says of one object.
Sender(x, xfer) ==
    /\ xfer \in [status : Status, packet : Int, waiting : BOOLEAN, retries : Nat]
    /\ xfer.status \in {"NONE", "PENDING"} => xfer.packet = -1
    /\ xfer.status \in {"NONE", "PENDING", "ABORTED"} => ~xfer.waiting
    /\ xfer.status = "IN_PROGRESS" => xfer.packet \in Nat /\ ~IsLast(x, xfer.packet)
    /\ xfer.waiting => xfer.packet \in Nat /\ HasData(x, xfer.packet)
    /\ NotPast(x, xfer.packet)

SendOK ==
    /\ send \in [Xfers -> [status : Status, packet : Int, waiting : BOOLEAN, retries : Nat]]
    /\ \A x \in Xfers : Sender(x, send[x])

WireOK ==
    /\ toRequester = [x \in Xfers |-> toRequester[x]]
    /\ \A x \in Xfers : toRequester[x] \in Seq(ToRequester(x))

Chunk == [packet : Nat, whole : BOOLEAN]
Chunks(x, k) == [n \in 1 .. k |-> Stored(x, n - 1)]

\* The packets up to the one the source took for the last.
ToTheEnd(x, w) == \E k \in 1 .. Packets[x] : IsLast(x, k - 1) /\ w = Chunks(x, k)

\* What ReceiveOK says of one xfer: its object r, the packets w that went through
\* the buffer and the answers a given.
Receiver(x, r, w, a) ==
    /\ r \in [status : Status, packet : Nat] /\ w \in Seq(Chunk) /\ a \in Seq(Result)
    /\ r.status # "NONE" => a = <<>> /\ w = Chunks(x, r.packet)
    /\ Len(a) <= 1
    /\ "NOERR" \in ToSet(a) => ToTheEnd(x, w)

ReceiveOK ==
    /\ receive \in [Xfers -> [status : Status, packet : Nat]]
    /\ requested \subseteq Xfers
    /\ received \in [Xfers -> Seq(Chunk)]
    /\ answers \in [Xfers -> Seq(Result)]
    /\ \A x \in Xfers :
        /\ x \notin requested =>
               receive[x].status = "NONE" /\ received[x] = <<>> /\ answers[x] = <<>>
        /\ Receiver(x, receive[x], received[x], answers[x])

IInv == EnvOK /\ SendOK /\ WireOK /\ ReceiveOK
-----------------------------------------------------------------------------
(* Sequences *)

LEMMA RemoveAtType ==
    ASSUME NEW S, NEW s \in Seq(S), NEW i \in DOMAIN s
    PROVE  RemoveAt(s, i) \in Seq(S)
<1>1. i \in 1 .. Len(s)
    OBVIOUS
<1>2. SubSeq(s, 1, i - 1) \in Seq(S) /\ SubSeq(s, i + 1, Len(s)) \in Seq(S)
    BY <1>1, SubSeqProperties
<1>3. QED BY <1>2, ConcatProperties DEF RemoveAt

LEMMA PostType ==
    ASSUME NEW S, NEW s \in Seq(S), NEW t \in Seq(S), NEW x
    PROVE  Post(s, x, t) \in Seq(S)
BY ConcatProperties DEF Post

-----------------------------------------------------------------------------
(* The disk *)

LEMMA DiskFacts ==
    ASSUME EnvOK, NEW x \in Xfers, NEW n \in Nat
    PROVE  /\ Sucked(x, n) \in Read /\ IsLast(x, n) \in BOOLEAN
           /\ Stored(x, n) \in Chunk /\ Stored(x, n).packet = n
           /\ HasData(x, n) => n \in PacketNum(x)
           /\ n = 0 => Sucked(x, n).data # "none"
           /\ n \in PacketNum(x) => n + 1 \in 1 .. Packets[x]
<1>1. Packets[x] \in Nat \ {0} /\ DiskOK(disk)
    BY XferAssumption DEF EnvOK, XferAssumption
<1> DEFINE k == IF n < Packets[x] THEN n ELSE Packets[x]
<1>2. k \in 0 .. Packets[x] /\ (n = 0 => k = 0) /\ (~(n < Packets[x]) => k = Packets[x])
    BY <1>1
<1>3. disk.reads[x][k] \in Read /\ disk.reads[x][0].data # "none"
        /\ disk.reads[x][Packets[x]].data \in {"none", "fails"}
    BY <1>1, <1>2 DEF DiskOK
<1>4. Sucked(x, n) = disk.reads[x][k]
    BY DEF Sucked
<1> HIDE DEF k
<1>5. Sucked(x, n) \in Read /\ IsLast(x, n) \in BOOLEAN
    BY <1>3, <1>4 DEF IsLast, Read
<1>6. HasData(x, n) => n \in PacketNum(x)
    BY <1>1, <1>2, <1>3, <1>4 DEF HasData, PacketNum
<1>7. QED BY <1>1, <1>2, <1>3, <1>4, <1>5, <1>6 DEF Stored, Chunk, PacketNum

\* The disk stays as it is, and with it what is said of the packets.
LEMMA SameDisk ==
    ASSUME disk' = disk, NEW x
    PROVE  /\ ToRequester(x)' = ToRequester(x)
           /\ \A xfer : Sender(x, xfer)' <=> Sender(x, xfer)
           /\ \A r, w, a : Receiver(x, r, w, a)' <=> Receiver(x, r, w, a)
<1>1. \A n : Sucked(x, n)' = Sucked(x, n) /\ IsLast(x, n)' = IsLast(x, n)
    BY DEF Sucked, IsLast
<1>2. ToRequester(x)' = ToRequester(x)
    BY <1>1 DEF ToRequester, SendXferPacket
<1>3. \A xfer : Sender(x, xfer)' <=> Sender(x, xfer)
    BY <1>1 DEF Sender, HasData, NotPast
<1>4. \A n : Stored(x, n)' = Stored(x, n)
    BY <1>1 DEF Stored
<1>5. \A k : Chunks(x, k)' = Chunks(x, k)
    BY <1>4 DEF Chunks
<1>6. \A w : ToTheEnd(x, w)' <=> ToTheEnd(x, w)
    BY <1>1, <1>5 DEF ToTheEnd
<1>7. \A r, w, a : Receiver(x, r, w, a)' <=> Receiver(x, r, w, a)
    BY <1>5, <1>6 DEF Receiver
<1>8. QED BY <1>2, <1>3, <1>7

\* The packets so far, with one more.
LEMMA AppendNext ==
    ASSUME EnvOK, NEW x \in Xfers, NEW k \in Nat
    PROVE  /\ Chunks(x, k) \in Seq(Chunk) /\ Chunks(x, k + 1) \in Seq(Chunk)
           /\ Append(Chunks(x, k), Stored(x, k)) = Chunks(x, k + 1)
<1> DEFINE s == Chunks(x, k)
           t == Chunks(x, k + 1)
<1>1. ASSUME NEW n \in Nat \ {0} PROVE Stored(x, n - 1) \in Chunk
    <2>1. n - 1 \in Nat
        OBVIOUS
    <2>2. QED BY <2>1, DiskFacts
<1>2. s = [n \in 1 .. k |-> Stored(x, n - 1)] /\ t = [n \in 1 .. k + 1 |-> Stored(x, n - 1)]
    BY DEF Chunks
<1>3. s \in [1 .. k -> Chunk] /\ t \in [1 .. k + 1 -> Chunk]
    <2> HIDE DEF s, t
    <2>1. \A n \in 1 .. k + 1 : n \in Nat \ {0}
        OBVIOUS
    <2>2. \A n \in 1 .. k : n \in Nat \ {0}
        OBVIOUS
    <2>3. QED BY <1>1, <1>2, <2>1, <2>2
<1>4. s \in Seq(Chunk) /\ Len(s) = k /\ t \in Seq(Chunk) /\ Len(t) = k + 1
    <2> HIDE DEF s, t
    <2>1. s \in Seq(Chunk) /\ Len(s) = k
        BY <1>2, <1>3, IsASeq
    <2>2. t \in Seq(Chunk) /\ Len(t) = k + 1
        BY <1>2, <1>3, IsASeq
    <2>3. QED BY <2>1, <2>2
<1>5. Stored(x, k) \in Chunk /\ t[k + 1] = Stored(x, k)
    <2>1. k + 1 \in 1 .. k + 1 /\ (k + 1) - 1 = k
        OBVIOUS
    <2>2. QED BY <1>2, <2>1, DiskFacts
<1>6. \A n \in 1 .. k : n \in 1 .. k + 1 /\ s[n] = t[n]
    BY <1>2
<1> HIDE DEF s, t
<1>7. Append(s, Stored(x, k)) \in Seq(Chunk) /\ Len(Append(s, Stored(x, k))) = k + 1
    BY <1>4, <1>5, AppendProperties
<1>8. ASSUME NEW i \in 1 .. k + 1 PROVE Append(s, Stored(x, k))[i] = t[i]
    BY <1>4, <1>5, <1>6, AppendProperties
<1>9. QED BY <1>4, <1>7, <1>8, SeqEqual DEF s, t
-----------------------------------------------------------------------------
(* Sending *)

\* A packet of the file, or the abort sent when it cannot be read, is what may
\* be on its way to the requester.
LEMMA PacketOfType ==
    ASSUME EnvOK, NEW x \in Xfers, NEW n \in Nat
    PROVE  PacketOf(x, n) \in Seq(ToRequester(x))
<1>1. CASE HasData(x, n)
    <2>1. PacketOf(x, n) = <<SendXferPacket(x, n)>>
        BY <1>1 DEF HasData, PacketOf
    <2>2. SendXferPacket(x, n) \in ToRequester(x)
        BY <1>1, DiskFacts DEF ToRequester
    <2>3. QED BY <2>1, <2>2
<1>2. CASE Sucked(x, n).data = "fails"
    BY <1>2 DEF PacketOf, ToRequester, Result
<1>3. CASE Sucked(x, n).data = "none"
    BY <1>3 DEF PacketOf
<1>4. QED BY <1>1, <1>2, <1>3, DiskFacts DEF HasData, Read

LEMMA AbortType ==
    ASSUME NEW x \in Xfers, NEW r \in Result \ {"NOERR"}
    PROVE  <<AbortXfer(r)>> \in Seq(ToRequester(x))
BY DEF ToRequester

\* Sending packet n leaves a proper object, whether there is anything to send or
\* not: the first, the next one or one that is sent again.
LEMMA SendPacketSender ==
    ASSUME EnvOK, NEW x \in Xfers, NEW xfer, NEW n \in Nat,
           xfer \in [status : Status, packet : Int, waiting : BOOLEAN, retries : Nat],
           xfer.packet = n, NotPast(x, n), xfer.waiting => HasData(x, n)
    PROVE  Sender(x, SendPacket(x, xfer, n))
<1> DEFINE data == Sucked(x, n).data
           sent == [xfer EXCEPT !.waiting = @ \/ data # "none",
                    !.status = IF IsLast(x, n) THEN "COMPLETE" ELSE "IN_PROGRESS"]
           aborted == [xfer EXCEPT !.status = "ABORTED"]
<1>1. data \in {"whole", "part", "none", "fails"}
    BY DiskFacts DEF Read
<1>2. ASSUME data # "fails" PROVE Sender(x, sent)
    <2>1. sent \in [status : Status, packet : Int, waiting : BOOLEAN, retries : Nat]
        BY DEF Status
    <2>2. sent.packet = n /\ sent.status \in {"COMPLETE", "IN_PROGRESS"}
        OBVIOUS
    <2>3. sent.status = "IN_PROGRESS" => ~IsLast(x, n)
        OBVIOUS
    <2>4. sent.waiting => xfer.waiting \/ data # "none"
        OBVIOUS
    <2>5. sent.waiting => HasData(x, n)
        BY <1>1, <1>2, <2>4 DEF HasData
    <2> HIDE DEF sent
    <2>6. QED BY <2>1, <2>2, <2>3, <2>5 DEF Sender
<1>3. ASSUME data = "fails" PROVE Sender(x, aborted)
    <2>1. aborted \in [status : Status, packet : Int, waiting : BOOLEAN, retries : Nat]
        BY DEF Status
    <2>2. aborted.packet = n /\ aborted.status = "ABORTED" /\ aborted.waiting = xfer.waiting
        OBVIOUS
    <2>3. ~xfer.waiting
        BY <1>3 DEF HasData
    <2> HIDE DEF aborted
    <2>4. QED BY <2>1, <2>2, <2>3 DEF Sender
<1>4. SendPacket(x, xfer, n) = IF data = "fails" THEN aborted ELSE sent
    BY DEF SendPacket
<1> HIDE DEF sent, aborted, data
<1>5. QED BY <1>2, <1>3, <1>4

\* No packet before the first is the last, and the one after packets that are not.
LEMMA NextNotPast ==
    ASSUME NEW x, NEW xfer, Sender(x, xfer), xfer.status \in {"PENDING", "IN_PROGRESS"}
    PROVE  xfer.packet + 1 \in Nat /\ NotPast(x, xfer.packet + 1)
<1>1. CASE xfer.status = "PENDING"
    <2>1. xfer.packet + 1 = 0 /\ \A m \in 0 .. 0 - 1 : FALSE
        BY <1>1 DEF Sender
    <2>2. QED BY <2>1 DEF NotPast
<1>2. CASE xfer.status = "IN_PROGRESS"
    <2> DEFINE n == xfer.packet
    <2>1. n \in Nat /\ ~IsLast(x, n) /\ \A m \in 0 .. n - 1 : ~IsLast(x, m)
        BY <1>2 DEF Sender, NotPast
    <2>2. \A m \in 0 .. (n + 1) - 1 : m = n \/ m \in 0 .. n - 1
        BY <2>1
    <2> HIDE DEF n
    <2>3. n + 1 \in Nat /\ NotPast(x, n + 1)
        BY <2>1, <2>2 DEF NotPast
    <2>4. QED BY <2>3 DEF n
<1>3. QED BY <1>1, <1>2

\* So does sending the next one.
LEMMA SendNextPacketSender ==
    ASSUME EnvOK, NEW x \in Xfers, NEW xfer, ~xfer.waiting,
           xfer \in [status : Status, packet : Int, waiting : BOOLEAN, retries : Nat],
           xfer.packet + 1 \in Nat, NotPast(x, xfer.packet + 1)
    PROVE  Sender(x, SendNextPacket(x, xfer))
<1> DEFINE zero == [xfer EXCEPT !.retries = 0]
           next == [xfer EXCEPT !.retries = 0, !.packet = @ + 1]
<1>1. next \in [status : Status, packet : Int, waiting : BOOLEAN, retries : Nat]
    <2>1. /\ zero \in [status : Status, packet : Int, waiting : BOOLEAN, retries : Nat]
          /\ zero.packet = xfer.packet
        OBVIOUS
    <2>2. next = [zero EXCEPT !.packet = @ + 1]
        OBVIOUS
    <2>3. zero.packet + 1 \in Int
        BY <2>1
    <2> HIDE DEF zero, next
    <2>4. QED BY <2>1, <2>2, <2>3
<1>2. next.packet = xfer.packet + 1 /\ next.waiting = xfer.waiting
    OBVIOUS
<1> HIDE DEF next
<1>3. QED BY <1>1, <1>2, SendPacketSender DEF SendNextPacket, next

LEMMA NewSender ==
    ASSUME NEW x \in Xfers
    PROVE  Sender(x, NoSend) /\ Sender(x, NewSend)
<1>1. \A m \in 0 .. -1 - 1 : FALSE
    OBVIOUS
<1>2. QED BY <1>1 DEF Sender, NotPast, NoSend, NewSend, Status

-----------------------------------------------------------------------------
(* The start *)

LEMMA InitIInv == Init => IInv
<1> SUFFICES ASSUME Init PROVE IInv
    OBVIOUS
<1>1. EnvOK
    BY DEF Init, EnvOK
<1>2. SendOK
    <2>1. send \in [Xfers -> [status : Status, packet : Int, waiting : BOOLEAN, retries : Nat]]
        BY DEF Init, NoSend, Status
    <2>2. \A x \in Xfers : Sender(x, send[x])
        BY NewSender DEF Init
    <2>3. QED BY <2>1, <2>2 DEF SendOK
<1>3. WireOK
    BY DEF Init, WireOK
<1>4. ReceiveOK
    <2>1. receive \in [Xfers -> [status : Status, packet : Nat]]
        BY DEF Init, NoReceive, Status
    <2>2. \A x \in Xfers : /\ receive[x].status = "NONE" /\ received[x] = <<>>
                           /\ answers[x] = <<>>
        BY DEF Init, NoReceive
    <2>3. Len(<<>>) <= 1 /\ "NOERR" \notin ToSet(<<>>)
        BY DEF ToSet
    <2>4. \A x \in Xfers : Receiver(x, receive[x], <<>>, <<>>)
        BY <2>1, <2>2, <2>3 DEF Receiver
    <2>5. QED BY <2>1, <2>2, <2>4 DEF Init, ReceiveOK
<1>5. QED BY <1>1, <1>2, <1>3, <1>4 DEF IInv
-----------------------------------------------------------------------------
(* Steps of the sender *)

\* The objects are proper again when each is, and so are the messages.
LEMMA AllSenders ==
    ASSUME disk' = disk, send' = [x \in Xfers |-> send'[x]],
           \A x \in Xfers : Sender(x, send'[x])
    PROVE  SendOK'
<1>1. \A x \in Xfers :
        send'[x] \in [status : Status, packet : Int, waiting : BOOLEAN, retries : Nat]
    BY DEF Sender
<1>2. send' \in [Xfers -> [status : Status, packet : Int, waiting : BOOLEAN, retries : Nat]]
    BY <1>1
<1>3. ASSUME NEW x \in Xfers PROVE Sender(x, send[x])'
    BY SameDisk
<1>4. QED BY <1>2, <1>3 DEF SendOK

LEMMA AllWires ==
    ASSUME disk' = disk, toRequester' = [x \in Xfers |-> toRequester'[x]],
           \A x \in Xfers : toRequester'[x] \in Seq(ToRequester(x))
    PROVE  WireOK'
<1>1. ASSUME NEW x \in Xfers PROVE toRequester'[x] \in Seq(ToRequester(x)')
    <2>1. ToRequester(x)' = ToRequester(x)
        BY SameDisk
    <2>2. QED BY <2>1
<1>2. QED BY <1>1 DEF WireOK

\* Replacing the object of one xfer by a proper one.
LEMMA OneSender ==
    ASSUME SendOK, disk' = disk, NEW x \in Xfers, NEW xfer, Sender(x, xfer),
           send' = [send EXCEPT ![x] = xfer]
    PROVE  SendOK'
<1>1. send' = [y \in Xfers |-> send'[y]]
    BY DEF SendOK
<1>2. ASSUME NEW y \in Xfers PROVE Sender(y, send'[y])
    <2>1. send'[y] = IF y = x THEN xfer ELSE send[y]
        BY DEF SendOK
    <2>2. QED BY <2>1 DEF SendOK
<1>3. QED BY <1>1, <1>2, AllSenders

\* Replacing what is on its way to one requester by proper messages.
LEMMA OneWire ==
    ASSUME WireOK, disk' = disk, NEW x \in Xfers, NEW queue \in Seq(ToRequester(x)),
           toRequester' = [toRequester EXCEPT ![x] = queue]
    PROVE  WireOK'
<1>1. toRequester' = [y \in Xfers |-> toRequester'[y]]
    BY DEF WireOK
<1>2. \A y \in Xfers : toRequester'[y] \in Seq(ToRequester(y))
    BY DEF WireOK
<1>3. QED BY <1>1, <1>2, AllWires

LEMMA ProcessFileRequestSends ==
    ASSUME IInv, NEW x \in Xfers, NEW i, ProcessFileRequest(x, i)
    PROVE  SendOK' /\ WireOK'
<1>1. disk' = disk /\ SendOK /\ WireOK /\ EnvOK
    BY DEF ProcessFileRequest, environment, IInv
<1>2. Sender(x, NewSend) /\ Sender(x, SendNextPacket(x, NewSend))
    <2>1. Sender(x, NewSend)
        BY NewSender
    <2>2. NewSend.status = "PENDING" /\ ~NewSend.waiting
        BY DEF NewSend
    <2>3. NewSend.packet + 1 \in Nat /\ NotPast(x, NewSend.packet + 1)
        BY <2>1, <2>2, NextNotPast
    <2>4. QED BY <1>1, <2>1, <2>2, <2>3, SendNextPacketSender DEF Sender
<1>3. toRequester[x] \in Seq(ToRequester(x))
    BY <1>1 DEF WireOK
<1>4. Post(toRequester[x], x, <<AbortXfer("FILE_NOT_FOUND")>>) \in Seq(ToRequester(x))
    BY <1>3, AbortType, PostType DEF Result
<1>5. Post(toRequester[x], x, PacketOf(x, 0)) \in Seq(ToRequester(x))
    BY <1>1, <1>3, PacketOfType, PostType
<1>6. SendOK'
    <2>1. \/ send' = [send EXCEPT ![x] = send[x]]
          \/ send' = [send EXCEPT ![x] = SendNextPacket(x, NewSend)]
          \/ send' = [send EXCEPT ![x] = NewSend]
        BY <1>1 DEF ProcessFileRequest, sendVars, SendOK
    <2>2. Sender(x, send[x])
        BY <1>1 DEF SendOK
    <2>3. QED BY <1>1, <1>2, <2>1, <2>2, OneSender
<1>7. WireOK'
    <2>1. \/ toRequester' = [toRequester EXCEPT ![x] =
                                Post(toRequester[x], x, <<AbortXfer("FILE_NOT_FOUND")>>)]
          \/ toRequester' = [toRequester EXCEPT ![x] =
                                Post(toRequester[x], x, PacketOf(x, 0))]
          \/ toRequester' = [toRequester EXCEPT ![x] = toRequester[x]]
        BY <1>1 DEF ProcessFileRequest, WireOK
    <2>2. QED BY <1>1, <1>3, <1>4, <1>5, <2>1, OneWire
<1>8. QED BY <1>6, <1>7

LEMMA ProcessConfirmationSends ==
    ASSUME IInv, NEW x \in Xfers, NEW i, ProcessConfirmation(x, i)
    PROVE  SendOK' /\ WireOK'
<1>1. disk' = disk /\ SendOK /\ WireOK /\ EnvOK
    BY DEF ProcessConfirmation, environment, IInv
<1>2. Sender(x, send[x]) /\ toRequester[x] \in Seq(ToRequester(x))
    BY <1>1 DEF SendOK, WireOK
<1>3. CASE send[x].status = "IN_PROGRESS"
    <2> DEFINE xfer == [send[x] EXCEPT !.waiting = FALSE]
    <2>1. send[x].packet + 1 \in Nat /\ NotPast(x, send[x].packet + 1)
        BY <1>2, <1>3, NextNotPast
    <2>2. /\ xfer \in [status : Status, packet : Int, waiting : BOOLEAN, retries : Nat]
          /\ xfer.packet = send[x].packet /\ ~xfer.waiting
        BY <1>1 DEF SendOK
    <2>3. send' = [send EXCEPT ![x] = SendNextPacket(x, xfer)]
        BY <1>1, <1>3 DEF ProcessConfirmation, SendOK
    <2>4. SendOK'
        <3> HIDE DEF xfer
        <3>1. Sender(x, SendNextPacket(x, xfer))
            BY <1>1, <2>1, <2>2, SendNextPacketSender
        <3>2. QED BY <1>1, <2>3, <3>1, OneSender
    <2>5. toRequester' = [toRequester EXCEPT ![x] =
                            Post(toRequester[x], x, PacketOf(x, send[x].packet + 1))]
        BY <1>1, <1>3 DEF ProcessConfirmation, WireOK
    <2>6. Post(toRequester[x], x, PacketOf(x, send[x].packet + 1)) \in Seq(ToRequester(x))
        BY <1>1, <1>2, <2>1, PacketOfType, PostType
    <2>7. QED BY <1>1, <2>4, <2>5, <2>6, OneWire
<1>4. CASE send[x].status # "IN_PROGRESS"
    <2>1. \/ send' = [send EXCEPT ![x] = NoSend]
          \/ send' = [send EXCEPT ![x] = send[x]]
        BY <1>1, <1>4 DEF ProcessConfirmation, SendOK
    <2>2. toRequester' = [toRequester EXCEPT ![x] = toRequester[x]]
        BY <1>1, <1>4 DEF ProcessConfirmation, WireOK
    <2>3. SendOK'
        BY <1>1, <1>2, <2>1, NewSender, OneSender
    <2>4. WireOK'
        BY <1>1, <1>2, <2>2, OneWire
    <2>5. QED BY <2>3, <2>4
<1>5. QED BY <1>3, <1>4

\* The timer goes through the send list and leaves proper objects and messages.
LEMMA TimerSender ==
    ASSUME IInv, NEW h \in Hosts, NEW expired, expired \subseteq Waiting(h), NEW x \in Xfers
    PROVE  /\ Sender(x, AfterTimer(h, expired, x))
           /\ TimerMessages(h, expired, x) \in Seq(ToRequester(x))
<1>1. /\ send[x] \in [status : Status, packet : Int, waiting : BOOLEAN, retries : Nat]
      /\ Sender(x, send[x]) /\ EnvOK
    BY DEF IInv, SendOK
<1>2. x \in expired =>
        /\ send[x].packet \in Nat /\ HasData(x, send[x].packet) /\ NotPast(x, send[x].packet)
    BY <1>1 DEF Waiting, Sender
<1>3. x \in Started(h, expired) =>
        /\ ~send[x].waiting
        /\ send[x].packet + 1 \in Nat /\ NotPast(x, send[x].packet + 1)
    <2>1. x \in Started(h, expired) => send[x].status = "PENDING"
        BY DEF Started
    <2>2. x \in Started(h, expired) => ~send[x].waiting
        BY <1>1, <2>1 DEF Sender
    <2>3. QED BY <1>1, <2>1, <2>2, NextNotPast
<1>4. Sender(x, AfterTimer(h, expired, x))
    <2> DEFINE again == [send[x] EXCEPT !.retries = @ + 1]
    <2>1. again \in [status : Status, packet : Int, waiting : BOOLEAN, retries : Nat]
        BY <1>1
    <2>2. again.packet = send[x].packet /\ again.waiting = send[x].waiting
        BY <1>1
    <2>3. x \in expired => Sender(x, SendPacket(x, again, send[x].packet))
        <3> HIDE DEF again
        <3> QED BY <1>1, <1>2, <2>1, <2>2, SendPacketSender
    <2>4. x \in Started(h, expired) => Sender(x, SendNextPacket(x, send[x]))
        BY <1>1, <1>3, SendNextPacketSender
    <2>5. AfterTimer(h, expired, x) \in
            {NoSend, send[x]}
                \cup (IF x \in expired THEN {SendPacket(x, again, send[x].packet)} ELSE {})
                \cup (IF x \in Started(h, expired) THEN {SendNextPacket(x, send[x])} ELSE {})
        <3> HIDE DEF Dropped, Removed, Started, SendPacket, SendNextPacket
        <3> QED BY DEF AfterTimer
    <2>6. QED BY <1>1, <2>3, <2>4, <2>5, NewSender
<1>5. TimerMessages(h, expired, x) \in Seq(ToRequester(x))
    <2>1. <<AbortXfer("TCP_TIMEOUT")>> \in Seq(ToRequester(x)) /\ <<>> \in Seq(ToRequester(x))
        BY AbortType DEF Result
    <2>2. x \in expired => PacketOf(x, send[x].packet) \in Seq(ToRequester(x))
        BY <1>1, <1>2, PacketOfType
    <2>3. x \in Started(h, expired) =>
            PacketOf(x, send[x].packet + 1) \in Seq(ToRequester(x))
        BY <1>1, <1>3, PacketOfType
    <2>4. QED BY <2>1, <2>2, <2>3 DEF TimerMessages
<1>6. QED BY <1>4, <1>5

\* One call of retransmitUnackedPackets.
LEMMA RetransmitSends ==
    ASSUME IInv, NEW h \in Hosts, NEW expired, expired \subseteq Waiting(h), NEW n,
           RetransmitUnackedPackets(h, expired, n)
    PROVE  SendOK' /\ WireOK'
<1>1. send' = [x \in Xfers |-> IF Source[x] = h THEN AfterTimer(h, expired, x) ELSE send[x]]
    BY DEF RetransmitUnackedPackets
<1>2. toRequester' = [x \in Xfers |->
            IF Source[x] = h THEN Post(toRequester[x], x, TimerMessages(h, expired, x))
                             ELSE toRequester[x]]
    BY DEF RetransmitUnackedPackets
<1>3. disk' = disk
    BY DEF RetransmitUnackedPackets, environment
<1>4. ASSUME NEW x \in Xfers PROVE Sender(x, send'[x])
    <2>1. Sender(x, send[x])
        BY DEF IInv, SendOK
    <2>2. Sender(x, AfterTimer(h, expired, x))
        BY TimerSender
    <2>3. send'[x] = IF Source[x] = h THEN AfterTimer(h, expired, x) ELSE send[x]
        BY <1>1
    <2>4. QED BY <2>1, <2>2, <2>3
<1>5. SendOK'
    <2>1. send' = [x \in Xfers |-> send'[x]]
        BY <1>1
    <2>2. QED BY <1>3, <1>4, <2>1, AllSenders
<1>6. ASSUME NEW x \in Xfers PROVE toRequester'[x] \in Seq(ToRequester(x))
    <2>1. toRequester[x] \in Seq(ToRequester(x))
        BY DEF IInv, WireOK
    <2>2. Post(toRequester[x], x, TimerMessages(h, expired, x)) \in Seq(ToRequester(x))
        BY <2>1, TimerSender, PostType
    <2>3. QED BY <1>2, <2>1, <2>2
<1>7. WireOK'
    <2>1. toRequester' = [x \in Xfers |-> toRequester'[x]]
        BY <1>2
    <2>2. QED BY <1>3, <1>6, <2>1, AllWires
<1>8. QED BY <1>5, <1>7

\* Taking one message off the wire.
LEMMA RemoveWire ==
    ASSUME WireOK, disk' = disk, NEW x \in Xfers, NEW i \in DOMAIN toRequester[x],
           toRequester' = [toRequester EXCEPT ![x] = RemoveAt(@, i)]
    PROVE  WireOK'
<1>1. RemoveAt(toRequester[x], i) \in Seq(ToRequester(x))
    BY RemoveAtType DEF WireOK
<1>2. QED BY <1>1, OneWire

LEMMA QuietSends ==
    ASSUME IInv, disk' = disk
    PROVE  /\ send' = send => SendOK'
           /\ toRequester' = toRequester => WireOK'
<1>1. send' = send => SendOK'
    BY AllSenders DEF IInv, SendOK
<1>2. toRequester' = toRequester => WireOK'
    BY AllWires DEF IInv, WireOK
<1>3. QED BY <1>1, <1>2
-----------------------------------------------------------------------------
(* Steps of the receiver *)

LEMMA ReceiveOKReceivers ==
    ASSUME ReceiveOK, NEW x \in Xfers
    PROVE  Receiver(x, receive[x], received[x], answers[x])
BY DEF ReceiveOK

\* Receivers that are all proper keep ReceiveOK when the xfers not asked for
\* stay as they are.
LEMMA AllReceivers ==
    ASSUME ReceiveOK, disk' = disk, requested' \subseteq Xfers,
           receive' = [x \in Xfers |-> receive'[x]],
           received' = [x \in Xfers |-> received'[x]],
           answers' = [x \in Xfers |-> answers'[x]],
           \A x \in Xfers : Receiver(x, receive'[x], received'[x], answers'[x]),
           \A x \in Xfers : x \notin requested' =>
               /\ x \notin requested
               /\ receive'[x].status = receive[x].status
               /\ received'[x] = received[x] /\ answers'[x] = answers[x]
    PROVE  ReceiveOK'
<1>1. /\ receive' \in [Xfers -> [status : Status, packet : Nat]]
      /\ received' \in [Xfers -> Seq(Chunk)]
      /\ answers' \in [Xfers -> Seq(Result)]
    <2>1. ASSUME NEW x \in Xfers
          PROVE  /\ receive'[x] \in [status : Status, packet : Nat]
                 /\ received'[x] \in Seq(Chunk) /\ answers'[x] \in Seq(Result)
        BY DEF Receiver
    <2>2. receive' \in [Xfers -> [status : Status, packet : Nat]]
        BY <2>1
    <2>3. received' \in [Xfers -> Seq(Chunk)]
        BY <2>1
    <2>4. answers' \in [Xfers -> Seq(Result)]
        BY <2>1
    <2>5. QED BY <2>2, <2>3, <2>4
<1>2. ASSUME NEW x \in Xfers, x \notin requested'
      PROVE  receive'[x].status = "NONE" /\ received'[x] = <<>> /\ answers'[x] = <<>>
    BY <1>2 DEF ReceiveOK
<1>3. ASSUME NEW x \in Xfers PROVE Receiver(x, receive[x], received[x], answers[x])'
    BY SameDisk
<1>4. QED BY <1>1, <1>2, <1>3 DEF ReceiveOK

\* startPendingDownloads changes the status of pending objects only, and never
\* deletes one.
LEMMA StartKeeps ==
    ASSUME NEW h, NEW list, NEW xfers \in [Xfers -> [status : Status, packet : Nat]],
           NEW queues, StartPendingDownloads(h, list, xfers, queues)
    PROVE  /\ receive' = [x \in Xfers |-> receive'[x]]
           /\ \A x \in Xfers : /\ receive'[x] \in [status : Status, packet : Nat]
                               /\ receive'[x].packet = xfers[x].packet
                               /\ receive'[x].status = "NONE" <=> xfers[x].status = "NONE"
<1> DEFINE tried == Tried(list, xfers)
           started(x) == [xfers[x] EXCEPT !.status =
                            IF CanOpen(x, 0) THEN "IN_PROGRESS" ELSE "ABORTED"]
<1>1. receive' = [x \in Xfers |-> IF x \in tried THEN started(x) ELSE xfers[x]]
    BY Zenon DEF StartPendingDownloads
<1>2. ASSUME NEW x \in Xfers, x \in tried PROVE xfers[x].status = "PENDING"
    BY <1>2 DEF Tried
<1>3. ASSUME NEW x \in Xfers
      PROVE  /\ started(x) \in [status : Status, packet : Nat]
             /\ started(x).packet = xfers[x].packet
             /\ started(x).status # "NONE"
    BY DEF Status
<1> HIDE DEF tried, started
<1>4. ASSUME NEW x \in Xfers
      PROVE  /\ receive'[x] \in [status : Status, packet : Nat]
             /\ receive'[x].packet = xfers[x].packet
             /\ receive'[x].status = "NONE" <=> xfers[x].status = "NONE"
    <2>1. CASE x \in tried
        <3>1. receive'[x] = started(x)
            BY <1>1, <2>1
        <3>2. QED BY <1>2, <1>3, <2>1, <3>1
    <2>2. CASE x \notin tried
        BY <1>1, <2>2
    <2>3. QED BY <2>1, <2>2
<1>5. receive' = [x \in Xfers |-> receive'[x]]
    BY <1>1
<1>6. QED BY <1>4, <1>5

LEMMA RequestFileReceives ==
    ASSUME IInv, NEW x \in Xfers, NEW priority, RequestFile(x, priority)
    PROVE  ReceiveOK'
<1> DEFINE xfers == [receive EXCEPT ![x] = NewReceive]
           list == IF priority THEN Append(mReceiveList[Requester[x]], x)
                               ELSE <<x>> \o mReceiveList[Requester[x]]
<1>1. /\ receive \in [Xfers -> [status : Status, packet : Nat]]
      /\ received \in [Xfers -> Seq(Chunk)] /\ answers \in [Xfers -> Seq(Result)]
      /\ requested \subseteq Xfers
    BY DEF IInv, ReceiveOK
<1>2. xfers \in [Xfers -> [status : Status, packet : Nat]]
    BY <1>1 DEF NewReceive, Status
<1>3. /\ StartPendingDownloads(Requester[x], list, xfers, toSource)
      /\ requested' = requested \cup {x} /\ x \notin requested
      /\ received' = received /\ answers' = answers /\ disk' = disk
    BY DEF RequestFile, environment
<1>4. /\ xfers[x].status = "PENDING" /\ xfers[x].packet = 0
      /\ \A y \in Xfers : y # x => xfers[y] = receive[y]
    BY <1>1 DEF NewReceive
<1> HIDE DEF xfers, list
<1>5. /\ receive' = [y \in Xfers |-> receive'[y]]
      /\ \A y \in Xfers : /\ receive'[y] \in [status : Status, packet : Nat]
                          /\ receive'[y].packet = xfers[y].packet
                          /\ receive'[y].status = "NONE" <=> xfers[y].status = "NONE"
    BY <1>2, <1>3, StartKeeps
<1>6. ASSUME NEW y \in Xfers PROVE Receiver(y, receive'[y], received'[y], answers'[y])
    <2>1. Receiver(y, receive[y], received[y], answers[y])
        BY ReceiveOKReceivers DEF IInv
    <2>2. CASE y = x
        <3>1. received[y] = <<>> /\ answers[y] = <<>>
            BY <1>3, <2>2 DEF IInv, ReceiveOK
        <3>2. Chunks(y, 0) = <<>>
            BY DEF Chunks
        <3>3. receive'[y] \in [status : Status, packet : Nat] /\ receive'[y].packet = 0
            BY <1>4, <1>5, <2>2
        <3>4. QED BY <1>3, <2>1, <3>1, <3>2, <3>3 DEF Receiver
    <2>3. CASE y # x
        BY <1>3, <1>4, <1>5, <2>1, <2>3 DEF Receiver
    <2>4. QED BY <2>2, <2>3
<1>7. ASSUME NEW y \in Xfers, y \notin requested'
      PROVE  /\ y \notin requested /\ receive'[y].status = receive[y].status
             /\ received'[y] = received[y] /\ answers'[y] = answers[y]
    <2>1. y \notin requested /\ y # x
        BY <1>3, <1>7
    <2>2. receive[y].status = "NONE"
        BY <2>1 DEF IInv, ReceiveOK
    <2>3. QED BY <1>3, <1>4, <1>5, <2>1, <2>2
<1>8. QED BY <1>1, <1>3, <1>5, <1>6, <1>7, AllReceivers DEF IInv

\* The end of one download deletes its object and keeps the others.
LEMMA EndKeeps ==
    ASSUME ReceiveOK, NEW x \in Xfers, NEW queues, EndDownload(x, queues)
    PROVE  /\ receive' = [y \in Xfers |-> receive'[y]]
           /\ receive'[x].status = "NONE"
           /\ \A y \in Xfers : receive'[y] \in [status : Status, packet : Nat]
           /\ \A y \in Xfers : y # x =>
                /\ receive'[y].packet = receive[y].packet
                /\ receive'[y].status = "NONE" <=> receive[y].status = "NONE"
<1> DEFINE xfers == [receive EXCEPT ![x] = NoReceive]
           list == Without(mReceiveList[Requester[x]], {x})
<1>1. receive \in [Xfers -> [status : Status, packet : Nat]]
    BY DEF ReceiveOK
<1>2. xfers \in [Xfers -> [status : Status, packet : Nat]]
    BY <1>1 DEF NoReceive, Status
<1>3. xfers[x].status = "NONE" /\ \A y \in Xfers : y # x => xfers[y] = receive[y]
    BY <1>1 DEF NoReceive
<1>4. StartPendingDownloads(Requester[x], list, xfers, queues)
    BY DEF EndDownload
<1> HIDE DEF xfers, list
<1>5. QED BY <1>2, <1>3, <1>4, StartKeeps

\* So ReceiveOK is kept when the object of x was in the list, and what was
\* written and answered to x is proper for an xfer that is gone.
LEMMA EndReceives ==
    ASSUME ReceiveOK, NEW x \in Xfers, NEW queues, EndDownload(x, queues),
           receive[x].status # "NONE", requested' = requested,
           NEW w \in Seq(Chunk), NEW a \in Seq(Result), Len(a) <= 1,
           "NOERR" \in ToSet(a) => ToTheEnd(x, w), disk' = disk,
           received' = [received EXCEPT ![x] = w],
           answers' = [answers EXCEPT ![x] = a]
    PROVE  ReceiveOK'
<1>1. /\ receive' = [y \in Xfers |-> receive'[y]]
      /\ receive'[x].status = "NONE"
      /\ \A y \in Xfers : receive'[y] \in [status : Status, packet : Nat]
      /\ \A y \in Xfers : y # x =>
            /\ receive'[y].packet = receive[y].packet
            /\ receive'[y].status = "NONE" <=> receive[y].status = "NONE"
    BY EndKeeps
<1>2. /\ requested \subseteq Xfers /\ x \in requested
      /\ received \in [Xfers -> Seq(Chunk)] /\ answers \in [Xfers -> Seq(Result)]
    BY DEF ReceiveOK
<1>3. ASSUME NEW y \in Xfers PROVE Receiver(y, receive'[y], received'[y], answers'[y])
    <2>1. Receiver(y, receive[y], received[y], answers[y])
        BY ReceiveOKReceivers
    <2>2. CASE y = x
        BY <1>1, <1>2, <2>2 DEF Receiver
    <2>3. CASE y # x
        BY <1>1, <1>2, <2>1, <2>3 DEF Receiver
    <2>4. QED BY <2>2, <2>3
<1>4. ASSUME NEW y \in Xfers, y \notin requested'
      PROVE  /\ y \notin requested /\ receive'[y].status = receive[y].status
             /\ received'[y] = received[y] /\ answers'[y] = answers[y]
    <2>1. y # x /\ y \notin requested
        BY <1>2, <1>4
    <2>2. receive[y].status = "NONE"
        BY <2>1 DEF ReceiveOK
    <2>3. QED BY <1>1, <1>2, <2>1, <2>2
<1>5. QED BY <1>1, <1>2, <1>3, <1>4, AllReceivers

\* A step that leaves the receiver alone.
LEMMA QuietReceives ==
    ASSUME IInv, disk' = disk, requested' = requested, receive' = receive,
           received' = received, answers' = answers
    PROVE  ReceiveOK'
BY AllReceivers, ReceiveOKReceivers DEF IInv, ReceiveOK

\* A data message carries a packet of the file, marked last only if it is.
LEMMA DataMessage ==
    ASSUME IInv, NEW x \in Xfers, NEW i \in DOMAIN toRequester[x],
           toRequester[x][i].type = "SendXferPacket"
    PROVE  /\ toRequester[x][i].packet \in PacketNum(x)
           /\ toRequester[x][i].last = IsLast(x, toRequester[x][i].packet)
           /\ toRequester[x][i].whole =
                    (Sucked(x, toRequester[x][i].packet).data = "whole")
<1>1. toRequester[x][i] \in ToRequester(x)
    BY DEF IInv, WireOK
<1>2. PICK n \in PacketNum(x) : toRequester[x][i] = SendXferPacket(x, n)
    BY <1>1 DEF ToRequester, AbortXfer
<1>3. QED BY <1>2 DEF SendXferPacket

LEMMA AbortMessage ==
    ASSUME IInv, NEW x \in Xfers, NEW i \in DOMAIN toRequester[x],
           toRequester[x][i].type = "AbortXfer"
    PROVE  toRequester[x][i].result \in Result \ {"NOERR"}
<1>1. toRequester[x][i] \in ToRequester(x)
    BY DEF IInv, WireOK
<1>2. PICK r \in Result \ {"NOERR"} : toRequester[x][i] = AbortXfer(r)
    BY <1>1 DEF ToRequester, SendXferPacket
<1>3. QED BY <1>2 DEF AbortXfer

\* The list with one answer.
LEMMA OneAnswer ==
    ASSUME NEW r \in Result
    PROVE  /\ Append(<<>>, r) \in Seq(Result) /\ Len(Append(<<>>, r)) <= 1
           /\ ToSet(Append(<<>>, r)) = {r}
<1>1. Append(<<>>, r) = <<r>>
    OBVIOUS
<1>2. <<r>> \in Seq(Result) /\ Len(<<r>>) = 1 /\ ToSet(<<r>>) = {r}
    BY DEF ToSet
<1>3. QED BY <1>1, <1>2

LEMMA ProcessReceiveDataReceives ==
    ASSUME IInv, NEW x \in Xfers, NEW i \in DOMAIN toRequester[x], ProcessReceiveData(x, i)
    PROVE  ReceiveOK'
<1> DEFINE m == toRequester[x][i]
           chunk == [packet |-> m.packet, whole |-> m.whole /\ m.packet \notin disk.short[x]]
<1>1. /\ m.packet \in PacketNum(x) /\ m.last = IsLast(x, m.packet)
      /\ chunk = Stored(x, m.packet)
    <2>1. /\ m.packet \in PacketNum(x) /\ m.last = IsLast(x, m.packet)
          /\ m.whole = (Sucked(x, m.packet).data = "whole")
        BY DataMessage DEF ProcessReceiveData
    <2> HIDE DEF m
    <2>2. QED BY <2>1 DEF Stored
<1>2. /\ receive[x].status # "NONE" /\ m.packet = receive[x].packet
      /\ requested' = requested /\ disk' = disk
    BY DEF ProcessReceiveData, Expected, environment
<1>3. /\ receive[x] \in [status : Status, packet : Nat]
      /\ received \in [Xfers -> Seq(Chunk)] /\ answers \in [Xfers -> Seq(Result)]
      /\ receive \in [Xfers -> [status : Status, packet : Nat]]
      /\ answers[x] = <<>>
      /\ received[x] = Chunks(x, receive[x].packet)
    BY <1>2 DEF IInv, ReceiveOK, Receiver
<1> DEFINE k == receive[x].packet
           written == Chunks(x, k + 1)
<1>4. k \in Nat /\ Append(received[x], chunk) = written /\ written \in Seq(Chunk)
    <2>1. k \in Nat /\ EnvOK
        BY <1>3 DEF IInv
    <2>2. Append(Chunks(x, k), Stored(x, k)) = written /\ written \in Seq(Chunk)
        BY <2>1, AppendNext
    <2>3. QED BY <1>1, <1>2, <1>3, <2>1, <2>2
<1>5. CASE m.packet > 0 /\ ~CanOpen(x, m.packet) /\ UNCHANGED <<received, answers>>
            /\ EndDownload(x, [toSource EXCEPT ![x] =
                                Post(@, x, <<AbortXfer("CANNOT_OPEN_FILE")>>)])
    <2>1. received' = [received EXCEPT ![x] = received[x]]
        BY <1>3, <1>5
    <2>2. answers' = [answers EXCEPT ![x] = <<>>]
        BY <1>3, <1>5
    <2>3. received[x] \in Seq(Chunk) /\ <<>> \in Seq(Result) /\ Len(<<>>) <= 1
            /\ "NOERR" \notin ToSet(<<>>)
        <3>1. received[x] \in Seq(Chunk)
            BY <1>3
        <3>2. "NOERR" \notin ToSet(<<>>)
            BY DEF ToSet
        <3>3. <<>> \in Seq(Result) /\ Len(<<>>) <= 1
            OBVIOUS
        <3>4. QED BY <3>1, <3>2, <3>3
    <2>4. QED BY <1>2, <1>5, <2>1, <2>2, <2>3, EndReceives DEF IInv
<1>6. CASE received' = [received EXCEPT ![x] = Append(@, chunk)] /\ m.last
            /\ Answer(x, EOFResult(x, m.packet)) /\ \E queues : EndDownload(x, queues)
    <2>1. PICK queues : EndDownload(x, queues)
        BY <1>6
    <2>2. received' = [received EXCEPT ![x] = written]
        BY <1>3, <1>4, <1>6
    <2>3. EOFResult(x, m.packet) \in Result
        BY DEF EOFResult, Result
    <2> DEFINE a == Append(<<>>, EOFResult(x, m.packet))
    <2>4. answers' = [answers EXCEPT ![x] = a]
        BY <1>3, <1>6 DEF Answer
    <2>5. a \in Seq(Result) /\ Len(a) <= 1
        BY <2>3, OneAnswer
    <2>6. ToTheEnd(x, written)
        <3>1. IsLast(x, m.packet) /\ k = m.packet /\ k \in PacketNum(x)
            BY <1>1, <1>2, <1>6, Zenon
        <3> HIDE DEF k, m
        <3>2. k + 1 \in 1 .. Packets[x] /\ (k + 1) - 1 = k
            <4>1. Packets[x] \in Nat
                BY XferAssumption DEF XferAssumption
            <4>2. QED BY <1>4, <3>1, <4>1 DEF PacketNum
        <3>3. QED BY <3>1, <3>2 DEF ToTheEnd
    <2> HIDE DEF a, written, m, chunk
    <2>7. QED BY <1>2, <1>4, <2>1, <2>2, <2>4, <2>5, <2>6, EndReceives DEF IInv
<1>7. CASE /\ received' = [received EXCEPT ![x] = Append(@, chunk)]
           /\ receive' = [receive EXCEPT ![x].packet = @ + 1] /\ answers' = answers
    <2>1. receive' = [receive EXCEPT ![x] = [receive[x] EXCEPT !.packet = @ + 1]]
        BY <1>7
    <2>2. /\ receive'[x] = [receive[x] EXCEPT !.packet = @ + 1]
          /\ \A y \in Xfers : y # x => receive'[y] = receive[y]
        BY <1>3, <2>1
    <2>3. /\ receive'[x] \in [status : Status, packet : Nat]
          /\ receive'[x].status = receive[x].status /\ receive'[x].packet = k + 1
        <3> DEFINE r == receive[x]
                   next == [r EXCEPT !.packet = @ + 1]
        <3>1. r \in [status : Status, packet : Nat] /\ r.packet + 1 \in Nat
            BY <1>3
        <3>2. /\ next \in [status : Status, packet : Nat]
              /\ next.status = r.status /\ next.packet = r.packet + 1
            <4> HIDE DEF r
            <4> QED BY <3>1
        <3>3. receive'[x] = next
            BY <2>2
        <3> HIDE DEF next
        <3>4. QED BY <3>2, <3>3
    <2>4. received' = [received EXCEPT ![x] = written]
        BY <1>3, <1>4, <1>7
    <2>5. ASSUME NEW y \in Xfers PROVE Receiver(y, receive'[y], received'[y], answers'[y])
        <3>1. Receiver(y, receive[y], received[y], answers[y])
            BY ReceiveOKReceivers DEF IInv
        <3>2. CASE y = x
            <4>1. received'[x] = written /\ answers'[x] = <<>> /\ written \in Seq(Chunk)
                BY <1>3, <1>4, <1>7, <2>4
            <4>2. "NOERR" \notin ToSet(answers'[x])
                BY <4>1 DEF ToSet
            <4>3. written = Chunks(x, receive'[x].packet)
                BY <2>3
            <4>4. Len(answers'[x]) <= 1 /\ answers'[x] \in Seq(Result)
                BY <4>1
            <4> HIDE DEF written
            <4>5. QED BY <2>3, <3>2, <4>1, <4>2, <4>3, <4>4 DEF Receiver
        <3>3. CASE y # x
            BY <1>3, <1>7, <2>2, <3>1, <3>3
        <3>4. QED BY <3>2, <3>3
    <2>6. /\ receive' = [y \in Xfers |-> receive'[y]]
          /\ received' = [y \in Xfers |-> received'[y]]
          /\ answers' = [y \in Xfers |-> answers'[y]]
        <3>1. receive' = [y \in Xfers |-> receive'[y]]
            BY <1>3, <2>1
        <3>2. received' = [y \in Xfers |-> received'[y]]
            BY <1>3, <2>4
        <3>3. answers' = [y \in Xfers |-> answers'[y]]
            BY <1>3, <1>7
        <3>4. QED BY <3>1, <3>2, <3>3
    <2>7. ASSUME NEW y \in Xfers, y \notin requested'
          PROVE  /\ y \notin requested /\ receive'[y].status = receive[y].status
                 /\ received'[y] = received[y] /\ answers'[y] = answers[y]
        <3>1. x \in requested
            BY <1>2 DEF IInv, ReceiveOK
        <3>2. y # x /\ y \notin requested
            BY <1>2, <2>7, <3>1
        <3>3. received'[y] = received[y]
            BY <1>3, <2>4, <3>2
        <3>4. QED BY <1>7, <2>2, <3>2, <3>3
    <2>8. requested' \subseteq Xfers
        BY <1>2 DEF IInv, ReceiveOK
    <2> HIDE DEF written, m, k, chunk
    <2>9. QED BY <1>2, <2>5, <2>6, <2>7, <2>8, AllReceivers DEF IInv
<1>8. \/ /\ m.packet > 0 /\ ~CanOpen(x, m.packet) /\ UNCHANGED <<received, answers>>
         /\ EndDownload(x, [toSource EXCEPT ![x] =
                                Post(@, x, <<AbortXfer("CANNOT_OPEN_FILE")>>)])
      \/ /\ received' = [received EXCEPT ![x] = Append(@, chunk)] /\ m.last
         /\ Answer(x, EOFResult(x, m.packet)) /\ \E queues : EndDownload(x, queues)
      \/ /\ received' = [received EXCEPT ![x] = Append(@, chunk)]
         /\ receive' = [receive EXCEPT ![x].packet = @ + 1] /\ answers' = answers
    BY DEF ProcessReceiveData
<1>9. QED BY <1>5, <1>6, <1>7, <1>8

LEMMA ProcessAbortReceives ==
    ASSUME IInv, NEW x \in Xfers, NEW i \in DOMAIN toRequester[x], ProcessAbort(x, i)
    PROVE  ReceiveOK'
<1>1. requested' = requested /\ received' = received /\ disk' = disk
    BY DEF ProcessAbort, environment
<1>2. CASE receive[x].status = "NONE"
    BY <1>1, <1>2, QuietReceives DEF ProcessAbort
<1>3. CASE receive[x].status # "NONE"
    <2> DEFINE r == toRequester[x][i].result
               a == Append(<<>>, r)
    <2>1. r \in Result \ {"NOERR"}
        BY AbortMessage DEF ProcessAbort
    <2>2. /\ answers[x] = <<>> /\ answers \in [Xfers -> Seq(Result)]
          /\ received \in [Xfers -> Seq(Chunk)]
        BY <1>3 DEF IInv, ReceiveOK, Receiver
    <2>3. answers' = [answers EXCEPT ![x] = a] /\ EndDownload(x, toSource)
        BY <1>3, <2>2 DEF ProcessAbort, Answer
    <2>4. a \in Seq(Result) /\ Len(a) <= 1 /\ ToSet(a) = {r}
        <3> HIDE DEF r
        <3> QED BY <2>1, OneAnswer
    <2>5. received' = [received EXCEPT ![x] = received[x]] /\ received[x] \in Seq(Chunk)
        BY <1>1, <2>2
    <2>6. "NOERR" \notin ToSet(a)
        BY <2>1, <2>4
    <2> HIDE DEF a, r
    <2>7. QED BY <1>1, <1>3, <2>3, <2>4, <2>5, <2>6, EndReceives DEF IInv
<1>4. QED BY <1>2, <1>3

\* The downloads whose circuit died are answered while they are in progress.
LEMMA RetransmitReceives ==
    ASSUME IInv, NEW h \in Hosts, NEW expired, NEW n,
           RetransmitUnackedPackets(h, expired, n)
    PROVE  ReceiveOK'
<1> DEFINE cut == Cut(h)
<1>1. /\ receive' = [x \in Xfers |-> IF x \in cut THEN NoReceive ELSE receive[x]]
      /\ answers' = [x \in Xfers |-> IF x \in cut
                        THEN Append(answers[x], "CIRCUIT_GONE") ELSE answers[x]]
      /\ received' = received /\ requested' = requested /\ disk' = disk
    BY DEF RetransmitUnackedPackets, environment
<1>2. ASSUME NEW x \in cut PROVE receive[x].status = "IN_PROGRESS"
    BY DEF Cut, InProgress
<1> HIDE DEF cut
<1>3. ASSUME NEW x \in Xfers, x \in cut
      PROVE  /\ Receiver(x, receive'[x], received'[x], answers'[x])
             /\ x \in requested
    <2>1. receive[x].status # "NONE" /\ Receiver(x, receive[x], received[x], answers[x])
        BY <1>2, <1>3, ReceiveOKReceivers DEF IInv
    <2>2. receive'[x] = NoReceive /\ received'[x] = received[x]
        BY <1>1, <1>3
    <2>3. answers'[x] = Append(<<>>, "CIRCUIT_GONE") /\ "CIRCUIT_GONE" \in Result
        BY <1>1, <1>3, <2>1 DEF Receiver, Result
    <2>4. /\ answers'[x] \in Seq(Result) /\ Len(answers'[x]) <= 1
          /\ ToSet(answers'[x]) = {"CIRCUIT_GONE"}
        BY <2>3, OneAnswer
    <2>5. /\ receive'[x] \in [status : Status, packet : Nat]
          /\ receive'[x].status = "NONE"
        BY <2>2 DEF NoReceive, Status
    <2>6. Receiver(x, receive'[x], received'[x], answers'[x])
        BY <2>1, <2>2, <2>4, <2>5 DEF Receiver
    <2>7. x \in requested
        BY <2>1 DEF IInv, ReceiveOK
    <2>8. QED BY <2>6, <2>7
<1>4. ASSUME NEW x \in Xfers, x \notin cut
      PROVE  receive'[x] = receive[x] /\ received'[x] = received[x] /\ answers'[x] = answers[x]
    BY <1>1, <1>4
<1>5. ASSUME NEW x \in Xfers PROVE Receiver(x, receive'[x], received'[x], answers'[x])
    BY <1>3, <1>4, ReceiveOKReceivers DEF IInv
<1>6. ASSUME NEW x \in Xfers, x \notin requested'
      PROVE  /\ x \notin requested /\ receive'[x].status = receive[x].status
             /\ received'[x] = received[x] /\ answers'[x] = answers[x]
    BY <1>1, <1>3, <1>4, <1>6
<1>7. /\ receive' = [x \in Xfers |-> receive'[x]]
      /\ received' = [x \in Xfers |-> received'[x]]
      /\ answers' = [x \in Xfers |-> answers'[x]]
    <2>1. receive' = [x \in Xfers |-> receive'[x]]
        BY <1>1
    <2>2. received' = [x \in Xfers |-> received'[x]]
        BY <1>1 DEF IInv, ReceiveOK
    <2>3. answers' = [x \in Xfers |-> answers'[x]]
        BY <1>1
    <2>4. QED BY <2>1, <2>2, <2>3
<1>8. requested' \subseteq Xfers
    BY <1>1 DEF IInv, ReceiveOK
<1>9. QED BY <1>1, <1>5, <1>6, <1>7, <1>8, AllReceivers DEF IInv
-----------------------------------------------------------------------------
(* Every step *)

LEMMA QuietEnv ==
    ASSUME IInv, UNCHANGED environment
    PROVE  EnvOK' /\ disk' = disk
BY DEF IInv, EnvOK, environment

LEMMA AtSourceIInv ==
    ASSUME IInv, NEW x \in Xfers, NEW i, AtSource(x, i)
    PROVE  IInv'
<1>1. UNCHANGED environment /\ UNCHANGED receiveVars /\ requested' = requested
    BY DEF AtSource, ProcessFileRequest, ProcessConfirmation, IgnoreAbort
<1>2. EnvOK' /\ ReceiveOK'
    BY <1>1, QuietEnv, QuietReceives DEF receiveVars
<1>3. SendOK' /\ WireOK'
    <2>1. CASE ProcessFileRequest(x, i)
        BY <2>1, ProcessFileRequestSends
    <2>2. CASE ProcessConfirmation(x, i)
        BY <2>2, ProcessConfirmationSends
    <2>3. CASE IgnoreAbort(x, i)
        BY <1>1, <2>3, QuietEnv, QuietSends DEF IgnoreAbort, sendVars
    <2>4. QED BY <2>1, <2>2, <2>3 DEF AtSource
<1>4. QED BY <1>2, <1>3 DEF IInv

LEMMA AtRequesterIInv ==
    ASSUME IInv, NEW x \in Xfers, NEW i \in DOMAIN toRequester[x], AtRequester(x, i)
    PROVE  IInv'
<1>1. /\ UNCHANGED environment /\ UNCHANGED sendVars
      /\ toRequester' = [toRequester EXCEPT ![x] = RemoveAt(@, i)]
    BY DEF AtRequester, ReconfirmData, ProcessReceiveData, ProcessAbort
<1>2. EnvOK' /\ SendOK' /\ WireOK'
    BY <1>1, QuietEnv, QuietSends, RemoveWire DEF sendVars, IInv
<1>3. ReceiveOK'
    <2>1. CASE ReconfirmData(x, i)
        BY <1>1, <2>1, QuietEnv, QuietReceives DEF ReconfirmData, receiveVars
    <2>2. CASE ProcessReceiveData(x, i)
        BY <2>2, ProcessReceiveDataReceives
    <2>3. CASE ProcessAbort(x, i)
        BY <2>3, ProcessAbortReceives
    <2>4. QED BY <2>1, <2>2, <2>3 DEF AtRequester
<1>4. QED BY <1>2, <1>3 DEF IInv

LEMMA LoseIInv ==
    ASSUME IInv, NEW x \in Xfers, Lose(x)
    PROVE  IInv'
<1>1. EnvOK' /\ SendOK' /\ ReceiveOK'
    BY QuietEnv, QuietSends, QuietReceives DEF Lose, sendVars, receiveVars
<1>2. WireOK'
    <2>1. CASE toRequester' = toRequester
        BY <2>1, QuietEnv, QuietSends DEF Lose
    <2>2. CASE \E i \in DOMAIN toRequester[x] :
                    toRequester' = [toRequester EXCEPT ![x] = RemoveAt(@, i)]
        BY <2>2, QuietEnv, RemoveWire DEF IInv, Lose
    <2>3. QED BY <2>1, <2>2 DEF Lose
<1>3. QED BY <1>1, <1>2 DEF IInv

LEMMA CircuitDiesIInv ==
    ASSUME IInv, NEW x \in Xfers, CircuitDies(x)
    PROVE  IInv'
<1>1. EnvOK' /\ SendOK' /\ ReceiveOK'
    BY QuietEnv, QuietSends, QuietReceives DEF CircuitDies, sendVars, receiveVars
<1>2. WireOK'
    <2>1. toRequester' = [y \in Xfers |->
                IF {Requester[y], Source[y]} = {Requester[x], Source[x]} THEN <<>>
                ELSE toRequester[y]]
        BY DEF CircuitDies
    <2>2. toRequester' = [y \in Xfers |-> toRequester'[y]]
        BY <2>1
    <2>3. ASSUME NEW y \in Xfers PROVE toRequester'[y] \in Seq(ToRequester(y))
        BY <2>1 DEF IInv, WireOK
    <2>4. disk' = disk
        BY QuietEnv DEF CircuitDies
    <2>5. QED BY <2>2, <2>3, <2>4, AllWires
<1>3. QED BY <1>1, <1>2 DEF IInv

LEMMA NextIInv == IInv /\ [Next]_vars => IInv'
<1> SUFFICES ASSUME IInv, [Next]_vars PROVE IInv'
    OBVIOUS
<1>1. ASSUME NEW x \in Xfers, NEW priority \in BOOLEAN, RequestFile(x, priority)
      PROVE  IInv'
    <2>1. ReceiveOK'
        BY <1>1, RequestFileReceives
    <2>2. EnvOK' /\ SendOK' /\ WireOK'
        BY <1>1, QuietEnv, QuietSends DEF RequestFile, sendVars
    <2>3. QED BY <2>1, <2>2 DEF IInv
<1>2. ASSUME NEW h \in Hosts, NEW expired \in SUBSET Waiting(h), NEW n, Timer(h, expired, n)
      PROVE  IInv'
    <2>1. RetransmitUnackedPackets(h, expired, n)
        BY <1>2 DEF Timer
    <2>2. SendOK' /\ WireOK' /\ ReceiveOK'
        BY <2>1, RetransmitSends, RetransmitReceives
    <2>3. EnvOK'
        BY <2>1, QuietEnv DEF RetransmitUnackedPackets
    <2>4. QED BY <2>2, <2>3 DEF IInv
<1>3. CASE UNCHANGED vars
    <2>1. /\ UNCHANGED environment /\ send' = send /\ toRequester' = toRequester
          /\ receive' = receive /\ received' = received /\ answers' = answers
          /\ requested' = requested
        BY <1>3 DEF vars, sendVars, receiveVars
    <2>2. QED BY <2>1, QuietEnv, QuietSends, QuietReceives DEF IInv
<1>4. QED BY <1>1, <1>2, <1>3, AtSourceIInv, AtRequesterIInv, LoseIInv, CircuitDiesIInv DEF Next

THEOREM InductiveInvariant == Spec => []IInv
BY InitIInv, NextIInv, PTL DEF Spec
-----------------------------------------------------------------------------
(* The theorems *)

\* The types of the state, for any number of hosts, xfers and packets and whatever
\* is read: no message names a packet the file does not have, however many
\* confirmations are repeated.
THEOREM TypeCorrect == Spec => []TypeOK
<1>1. IInv => TypeOK
    BY DEF IInv, EnvOK, SendOK, WireOK, ReceiveOK, TypeOK, Chunk
<1>2. QED BY <1>1, InductiveInvariant, PTL

\* A callback is told of success only when every packet up to the one the source
\* took for the last went to the temp file, once and in order, whatever the network,
\* the disks and the timers do; and the whole file, when nothing falls short.
THEOREM SuccessIsWhole == Spec => []SuccessMeansWhole
<1>1. ASSUME IInv, NEW x \in Xfers, "NOERR" \in ToSet(answers[x])
      PROVE  LET count == Len(received[x])
             IN  /\ count > 0 /\ IsLast(x, count - 1)
                 /\ received[x] = [n \in 1 .. count |-> Stored(x, n - 1)]
                 /\ Intact(x) => received[x] = [n \in 1 .. Packets[x] |->
                                                    [packet |-> n - 1, whole |-> TRUE]]
    <2>1. Receiver(x, receive[x], received[x], answers[x]) /\ EnvOK
        BY <1>1, ReceiveOKReceivers DEF IInv
    <2>2. PICK k \in 1 .. Packets[x] : IsLast(x, k - 1) /\ received[x] = Chunks(x, k)
        BY <1>1, <2>1 DEF Receiver, ToTheEnd
    <2>3. Packets[x] \in Nat \ {0} /\ k \in Nat /\ k > 0 /\ k - 1 \in PacketNum(x)
        BY <2>2, XferAssumption DEF XferAssumption, PacketNum
    <2>4. Len(Chunks(x, k)) = k
        BY <2>1, <2>3 DEF Chunks
    <2>5. ASSUME Intact(x)
          PROVE  received[x] = [n \in 1 .. Packets[x] |-> [packet |-> n - 1, whole |-> TRUE]]
        <3>1. Sucked(x, k - 1) = [data |-> "whole", eof |-> k - 1 = Packets[x] - 1]
            BY <2>3, <2>5 DEF Intact
        <3>2. k = Packets[x]
            <4>1. Sucked(x, k - 1).eof = (k - 1 = Packets[x] - 1)
                BY <3>1
            <4>2. k - 1 = Packets[x] - 1
                BY <2>2, <4>1, Zenon DEF IsLast
            <4>3. QED BY <2>3, <4>2
        <3>3. ASSUME NEW n \in 1 .. k PROVE Stored(x, n - 1) = [packet |-> n - 1, whole |-> TRUE]
            <4>1. n - 1 \in PacketNum(x)
                BY <2>3, <3>2 DEF PacketNum
            <4>2. Sucked(x, n - 1).data = "whole" /\ n - 1 \notin disk.short[x]
                BY <2>5, <4>1 DEF Intact
            <4>3. QED BY <4>2 DEF Stored
        <3>4. QED BY <2>2, <3>2, <3>3 DEF Chunks
    <2>6. QED BY <2>2, <2>3, <2>4, <2>5 DEF Chunks
<1>2. IInv => SuccessMeansWhole
    BY <1>1 DEF SuccessMeansWhole
<1>3. QED BY <1>2, InductiveInvariant, PTL

\* A callback runs at most once.
THEOREM CallbackOnce == Spec => []AnsweredOnce
<1>1. IInv => AnsweredOnce
    BY DEF IInv, ReceiveOK, Receiver, AnsweredOnce
<1>2. QED BY <1>1, InductiveInvariant, PTL
-----------------------------------------------------------------------------
(* Lists *)

\* A set of naturals that is not empty has a least element.
LEMMA LeastElement ==
    ASSUME NEW S \in SUBSET Nat, S # {}
    PROVE  \E i \in S : \A j \in S : i <= j
<1> DEFINE R == OpToRel(<, Nat)
<1>1. \A j, k \in Nat : ~ (<<j, k>> \in R) => ~ (j < k)
    BY Zenon DEF OpToRel
<1>2. IsWellFoundedOn(R, Nat)
    BY NatLessThanWellFounded
<1> HIDE DEF R
<1>3. PICK i \in S : \A j \in S : ~ (<<j, i>> \in R)
    BY <1>2, WFMin
<1>4. ASSUME NEW j \in S
      PROVE  i <= j
    <2>1. i \in Nat /\ j \in Nat
        OBVIOUS
    <2>2. ~ (j < i)
        BY <1>1, <1>3, <2>1, Zenon
    <2>3. QED BY <2>1, <2>2
<1>5. QED BY <1>4

\* Induction on the naturals, over a set.
LEMMA Induction ==
    ASSUME NEW S, 0 \in S, \A n \in Nat : n \in S => n + 1 \in S
    PROVE  Nat \subseteq S
<1> SUFFICES ASSUME Nat \ S # {} PROVE FALSE
    OBVIOUS
<1>1. PICK n \in Nat \ S : \A k \in Nat \ S : n <= k
    BY LeastElement
<1>2. n # 0 /\ n - 1 \in Nat
    BY <1>1
<1>3. n - 1 \in S /\ (n - 1) + 1 = n
    BY <1>1, <1>2
<1>4. QED BY <1>2, <1>3

\* The recursive function of Chosen, up to n.
ChosenUpTo(list, I, n, f) ==
    f = [m \in 0 .. n |-> IF m = 0 THEN <<>>
                          ELSE IF m \in I THEN Append(f[m - 1], list[m]) ELSE f[m - 1]]

LEMMA ChosenExists ==
    ASSUME NEW list, NEW I, NEW n \in Nat
    PROVE  \E f : ChosenUpTo(list, I, n, f)
<1> DEFINE S == {m \in Nat : \E f : ChosenUpTo(list, I, m, f)}
<1>1. 0 \in S
    <2>1. ChosenUpTo(list, I, 0, [m \in 0 .. 0 |-> <<>>])
        BY DEF ChosenUpTo
    <2>2. QED BY <2>1
<1>2. ASSUME NEW m \in Nat, m \in S PROVE m + 1 \in S
    <2>1. PICK f : ChosenUpTo(list, I, m, f)
        BY <1>2
    <2> DEFINE g == [k \in 0 .. m + 1 |->
                        IF k <= m THEN f[k]
                        ELSE IF k \in I THEN Append(f[m], list[k]) ELSE f[m]]
    <2>2. \A k \in 0 .. m : g[k] = f[k]
        OBVIOUS
    <2>3. \A k \in 0 .. m + 1 : k = 0 \/ k - 1 \in 0 .. m
        OBVIOUS
    <2>4. \A k \in 0 .. m : f[k] = IF k = 0 THEN <<>>
                          ELSE IF k \in I THEN Append(f[k - 1], list[k]) ELSE f[k - 1]
        BY <2>1 DEF ChosenUpTo
    <2>5. ASSUME NEW k \in 0 .. m + 1
          PROVE  g[k] = IF k = 0 THEN <<>>
                        ELSE IF k \in I THEN Append(g[k - 1], list[k]) ELSE g[k - 1]
        <3>1. CASE k <= m
            <4>1. k \in 0 .. m
                BY <3>1
            <4>2. QED BY <2>2, <2>3, <2>4, <4>1
        <3>2. CASE k = m + 1
            <4>1. k - 1 = m /\ k # 0 /\ m \in 0 .. m /\ ~ (k <= m)
                BY <3>2
            <4>2. g[k] = IF k \in I THEN Append(f[m], list[k]) ELSE f[m]
                BY <4>1
            <4>3. g[k - 1] = f[m]
                BY <2>2, <4>1
            <4> HIDE DEF g
            <4>4. QED BY <4>1, <4>2, <4>3
        <3>3. QED BY <3>1, <3>2
    <2>6. ChosenUpTo(list, I, m + 1, g)
        <3>1. g = [k \in 0 .. m + 1 |-> g[k]]
            OBVIOUS
        <3> HIDE DEF g
        <3>2. QED BY <2>5, <3>1 DEF ChosenUpTo
    <2>7. QED BY <2>6
<1> HIDE DEF S
<1>3. Nat \subseteq S
    BY <1>1, <1>2, Induction
<1>4. QED BY <1>3 DEF S

\* What is chosen from a list of different elements.
Different(list) == \A i, j \in DOMAIN list : list[i] = list[j] => i = j

LEMMA ChosenFacts ==
    ASSUME NEW X, NEW list \in Seq(X), NEW I
    PROVE  /\ Chosen(list, I) \in Seq(X)
           /\ ToSet(Chosen(list, I)) = {list[i] : i \in DOMAIN list \cap I}
           /\ Different(list) => Different(Chosen(list, I))
<1> DEFINE upTo[n \in 0 .. Len(list)] ==
            IF n = 0 THEN <<>>
            ELSE IF n \in I THEN Append(upTo[n - 1], list[n]) ELSE upTo[n - 1]
           N == Len(list)
<1>1. Chosen(list, I) = upTo[Len(list)]
    BY DEF Chosen
<1>2. Len(list) \in Nat /\ DOMAIN list = 1 .. Len(list)
    OBVIOUS
<1>3. ChosenUpTo(list, I, N, upTo)
    <2>1. \E f : ChosenUpTo(list, I, N, f)
        BY <1>2, ChosenExists
    <2>2. upTo = CHOOSE f : ChosenUpTo(list, I, N, f)
        BY DEF ChosenUpTo
    <2> HIDE DEF upTo, N
    <2>3. QED BY <2>1, <2>2
<1> HIDE DEF upTo
<1>4. \A n \in 0 .. N : upTo[n] = IF n = 0 THEN <<>>
            ELSE IF n \in I THEN Append(upTo[n - 1], list[n]) ELSE upTo[n - 1]
    BY <1>3 DEF ChosenUpTo
<1> DEFINE Good(n) ==
            /\ upTo[n] \in Seq(X)
            /\ ToSet(upTo[n]) = {list[i] : i \in (1 .. n) \cap I}
            /\ Different(list) => Different(upTo[n])
           S == {n \in Nat : n <= N => Good(n)}
<1>5. 0 \in S
    <2>1. upTo[0] = <<>>
        BY <1>2, <1>4
    <2>2. ToSet(<<>>) = {}
        BY DEF ToSet
    <2>3. (1 .. 0) \cap I = {}
        OBVIOUS
    <2>4. Different(<<>>)
        BY DEF Different
    <2>5. upTo[0] \in Seq(X) /\ ToSet(upTo[0]) = {list[i] : i \in (1 .. 0) \cap I}
        BY <2>1, <2>2, <2>3
    <2>6. Different(upTo[0])
        BY <2>1, <2>4
    <2>7. QED BY <2>5, <2>6
<1>6. ASSUME NEW n \in Nat, n \in S PROVE n + 1 \in S
    <2> SUFFICES ASSUME n + 1 <= N PROVE Good(n + 1)
        OBVIOUS
    <2> DEFINE s == upTo[n]
               e == list[n + 1]
               t == upTo[n + 1]
    <2>1. Good(n)
        <3>1. n <= N => Good(n)
            BY <1>6
        <3> HIDE DEF Good
        <3>2. QED BY <1>2, <3>1
    <2>2. t = IF n + 1 \in I THEN Append(s, e) ELSE s
        <3>1. n + 1 \in 0 .. N /\ n + 1 # 0 /\ (n + 1) - 1 = n
            BY <1>2
        <3>2. QED BY <1>4, <3>1
    <2>3. e \in X /\ n + 1 \in DOMAIN list
        BY <1>2
    <2>4. s \in Seq(X) /\ ToSet(s) = {list[i] : i \in (1 .. n) \cap I}
            /\ (Different(list) => Different(s))
        BY <2>1
    <2> HIDE DEF s, t
    <2>5. CASE n + 1 \in I
        <3>1. t = Append(s, e)
            BY <2>2, <2>5
        <3>2. t \in Seq(X) /\ Len(t) = Len(s) + 1 /\ DOMAIN t = 1 .. Len(s) + 1
                /\ DOMAIN s = 1 .. Len(s) /\ Len(s) \in Nat
                /\ t[Len(s) + 1] = e /\ \A i \in 1 .. Len(s) : t[i] = s[i]
            BY <2>3, <2>4, <3>1
        <3>3. ToSet(t) = ToSet(s) \cup {e}
            BY <3>2 DEF ToSet
        <3>4. {list[i] : i \in (1 .. n + 1) \cap I}
                = {list[i] : i \in (1 .. n) \cap I} \cup {e}
            <4>1. (1 .. n + 1) \cap I = ((1 .. n) \cap I) \cup {n + 1}
                BY <2>5
            <4>2. QED BY <4>1
        <3>5. ASSUME Different(list) PROVE Different(t)
            <4>1. ASSUME NEW i \in 1 .. n PROVE list[i] # e
                BY <1>2, <2>3, <3>5 DEF Different
            <4>2. e \notin ToSet(s)
                BY <2>4, <4>1
            <4>3. \A i \in DOMAIN s : s[i] # e
                BY <4>2 DEF ToSet
            <4>4. Different(s)
                BY <2>4, <3>5
            <4>5. ASSUME NEW i \in DOMAIN t, NEW j \in DOMAIN t, t[i] = t[j] PROVE i = j
                <5>1. CASE i \in DOMAIN s /\ j \in DOMAIN s
                    BY <3>2, <4>4, <4>5, <5>1 DEF Different
                <5>2. CASE i = Len(s) + 1 /\ j \in DOMAIN s
                    BY <3>2, <4>3, <4>5, <5>2
                <5>3. CASE j = Len(s) + 1 /\ i \in DOMAIN s
                    BY <3>2, <4>3, <4>5, <5>3
                <5>4. QED BY <3>2, <5>1, <5>2, <5>3
            <4>6. QED BY <4>5 DEF Different
        <3>6. QED BY <2>4, <3>2, <3>3, <3>4, <3>5 DEF t
    <2>6. CASE n + 1 \notin I
        <3>1. (1 .. n + 1) \cap I = (1 .. n) \cap I
            BY <2>6
        <3>2. t = s
            BY <2>2, <2>6
        <3>3. QED BY <2>4, <3>1, <3>2 DEF t
    <2>7. QED BY <2>5, <2>6
<1> HIDE DEF S
<1>7. Nat \subseteq S
    BY <1>5, <1>6, Induction
<1>8. Good(N)
    <2>1. N \in S
        BY <1>2, <1>7
    <2>2. N <= N => Good(N)
        BY <2>1 DEF S
    <2> HIDE DEF Good
    <2>3. QED BY <1>2, <2>2
<1>9. QED BY <1>1, <1>2, <1>8
-----------------------------------------------------------------------------
(* Slots *)

\* The greatest of finitely many naturals.
LEMMA GreatestElement ==
    ASSUME NEW n \in Nat, NEW S \in SUBSET (0 .. n), S # {}
    PROVE  \E i \in S : \A j \in S : j <= i
<1> DEFINE T == {n - i : i \in S}
<1>1. T \in SUBSET Nat /\ T # {}
    <2>1. \A i \in 0 .. n : n - i \in Nat
        OBVIOUS
    <2>2. QED BY <2>1
<1>2. PICK t \in T : \A u \in T : t <= u
    BY <1>1, LeastElement
<1>3. PICK i \in S : t = n - i
    BY <1>2
<1>4. ASSUME NEW j \in S PROVE j <= i
    <2>1. n - j \in T
        OBVIOUS
    <2>2. n - i <= n - j
        BY <1>2, <1>3, <2>1
    <2>3. i \in Int /\ j \in Int /\ n \in Int
        OBVIOUS
    <2>4. QED BY <2>2, <2>3
<1>5. QED BY <1>4

\* Going from the tail of a list to its head and taking those of S while fewer
\* than `free' were taken, no more are taken than are free, and just as many if
\* there is a position at which that stops.
LEMMA TakenFromTail ==
    ASSUME NEW n \in Nat, NEW S \in SUBSET (1 .. n), NEW free \in Nat
    PROVE  LET after(i) == {j \in S : i < j}
               taken == {i \in S : Cardinality(after(i)) < free}
           IN  /\ IsFiniteSet(taken) /\ Cardinality(taken) <= free
               /\ \A i \in 1 .. n :
                      ~(Cardinality(after(i)) < free) => Cardinality(taken) = free
<1> DEFINE after(i) == {j \in S : i < j}
           taken == {i \in S : Cardinality(after(i)) < free}
<1>1. IsFiniteSet(S) /\ \A T \in SUBSET S : IsFiniteSet(T) /\ Cardinality(T) \in Nat
    <2>1. IsFiniteSet(1 .. n)
        BY FS_Interval
    <2>2. IsFiniteSet(S)
        BY <2>1, FS_Subset
    <2>3. ASSUME NEW T \in SUBSET S PROVE IsFiniteSet(T) /\ Cardinality(T) \in Nat
        <3>1. IsFiniteSet(T)
            BY <2>2, FS_Subset
        <3>2. QED BY <3>1, FS_CardinalityType
    <2>4. QED BY <2>2, <2>3
<1>2. taken \in SUBSET S /\ IsFiniteSet(taken) /\ Cardinality(taken) \in Nat
    <2>1. taken \in SUBSET S
        OBVIOUS
    <2> HIDE DEF taken
    <2>2. QED BY <1>1, <2>1
<1>3. Cardinality(taken) <= free
    <2>1. CASE taken = {}
        <3> HIDE DEF taken
        <3>1. Cardinality(taken) = 0
            BY <2>1, FS_EmptySet
        <3>2. QED BY <3>1
    <2>2. CASE taken # {}
        <3>1. taken \in SUBSET Nat
            <4>1. S \in SUBSET Nat
                OBVIOUS
            <4>2. QED BY <1>2, <4>1
        <3>2. PICK m \in taken : \A j \in taken : m <= j
            <4> HIDE DEF taken
            <4>1. QED BY <2>2, <3>1, LeastElement
        <3>3. after(m) \in SUBSET S /\ IsFiniteSet(after(m)) /\ Cardinality(after(m)) \in Nat
            BY <1>1
        <3>4. taken \subseteq after(m) \cup {m}
            <4>1. ASSUME NEW j \in taken PROVE j \in after(m) \cup {m}
                BY <3>2
            <4>2. QED BY <4>1
        <3>5. Cardinality(after(m)) < free /\ m \notin after(m)
            BY <3>2
        <3> HIDE DEF after, taken
        <3>6. /\ IsFiniteSet(after(m) \cup {m})
              /\ Cardinality(after(m) \cup {m}) = Cardinality(after(m)) + 1
            BY <3>3, <3>5, FS_AddElement
        <3>7. Cardinality(taken) <= Cardinality(after(m) \cup {m})
            BY <3>4, <3>6, FS_Subset
        <3>8. QED BY <1>2, <3>3, <3>5, <3>6, <3>7
    <2>3. QED BY <2>1, <2>2
<1>4. ASSUME NEW i \in 1 .. n, ~(Cardinality(after(i)) < free)
      PROVE  Cardinality(taken) = free
    <2> DEFINE stop == {k \in 1 .. n : ~(Cardinality(after(k)) < free)}
    <2>1. stop \in SUBSET (0 .. n) /\ stop # {}
        <3>1. i \in stop
            BY <1>4
        <3>2. stop \subseteq 1 .. n /\ 1 .. n \subseteq 0 .. n
            OBVIOUS
        <3>3. QED BY <3>1, <3>2
    <2>2. PICK k \in stop : \A j \in stop : j <= k
        <3> HIDE DEF stop
        <3> QED BY <2>1, GreatestElement
    <2>3. after(k) \subseteq taken
        <3>1. ASSUME NEW j \in after(k) PROVE j \in taken
            <4>1. j \in S /\ k < j /\ j \in 1 .. n
                OBVIOUS
            <4>2. j \notin stop
                BY <2>2, <4>1
            <4>3. Cardinality(after(j)) < free
                BY <4>1, <4>2
            <4>4. QED BY <4>1, <4>3
        <3>2. QED BY <3>1
    <2>4. ~(Cardinality(after(k)) < free)
        BY <2>2
    <2>5. after(k) \in SUBSET S /\ Cardinality(after(k)) \in Nat
        BY <1>1
    <2> HIDE DEF after, taken, stop
    <2>6. Cardinality(after(k)) <= Cardinality(taken)
        BY <1>2, <2>3, FS_Subset
    <2>7. QED BY <1>2, <1>3, <2>4, <2>5, <2>6
<1>5. QED BY <1>2, <1>3, <1>4

\* No more run than may, and none waits while fewer run.
Slots(list, xfers) == Cardinality(InProgress(list, xfers)) <= mMaxIncomingXfers
Filled(list, xfers) ==
    PendingDownloads(list, xfers) # {} =>
        Cardinality(InProgress(list, xfers)) = mMaxIncomingXfers

LEMMA SomeXfers ==
    ASSUME NEW list \in Seq(Xfers), NEW xfers
    PROVE  /\ ToSet(list) \subseteq Xfers
           /\ IsFiniteSet(InProgress(list, xfers))
           /\ Cardinality(InProgress(list, xfers)) \in Nat
<1>1. ToSet(list) \subseteq Xfers
    BY DEF ToSet
<1>2. InProgress(list, xfers) \in SUBSET Xfers
    BY <1>1 DEF InProgress
<1>3. IsFiniteSet(InProgress(list, xfers))
    BY <1>2, XferAssumption, FS_Subset DEF XferAssumption
<1>4. Cardinality(InProgress(list, xfers)) \in Nat
    BY <1>3, FS_CardinalityType
<1>5. QED BY <1>1, <1>3, <1>4

\* As many elements as positions.
LEMMA DifferentCount ==
    ASSUME NEW list, Different(list), NEW I \in SUBSET DOMAIN list, IsFiniteSet(I)
    PROVE  LET chosen == {list[i] : i \in I}
           IN  IsFiniteSet(chosen) /\ Cardinality(chosen) = Cardinality(I)
<1> DEFINE chosen == {list[i] : i \in I}
           f == [i \in I |-> list[i]]
<1>1. f \in Bijection(I, chosen)
    <2>1. f \in [I -> chosen]
        OBVIOUS
    <2>2. \A i, j \in I : f[i] = f[j] => i = j
        BY DEF Different
    <2>3. \A e \in chosen : \E i \in I : f[i] = e
        OBVIOUS
    <2> HIDE DEF f, chosen
    <2>4. QED BY <2>1, <2>2, <2>3 DEF Bijection, Injection, IsInjective, Surjection
<1> HIDE DEF chosen
<1>2. ExistsBijection(I, chosen)
    BY <1>1 DEF ExistsBijection
<1>3. IsFiniteSet(chosen)
    BY <1>2, FS_Bijection
<1>4. Cardinality(chosen) = Cardinality(I)
    BY <1>2, FS_Bijection
<1>5. QED BY <1>3, <1>4 DEF chosen

\* startPendingDownloads fills the slots.
LEMMA StartFills ==
    ASSUME NEW list \in Seq(Xfers), Different(list),
           NEW xfers \in [Xfers -> [status : Status, packet : Nat]],
           Slots(list, xfers), NEW h, NEW queues,
           StartPendingDownloads(h, list, xfers, queues)
    PROVE  Slots(list, receive') /\ Filled(list, receive')
<1> DEFINE N == Len(list)
           pending(i) == xfers[list[i]].status = "PENDING"
           S == {i \in 1 .. N : pending(i) /\ CanOpen(list[i], 0)}
           free == FreeSlots(list, xfers)
           after(i) == {j \in S : i < j}
           taken == {i \in S : Cardinality(after(i)) < free}
           new == {list[i] : i \in taken}
           active == InProgress(list, xfers)
<1>1. N \in Nat /\ DOMAIN list = 1 .. N /\ \A i \in 1 .. N : list[i] \in Xfers
    OBVIOUS
<1>2. /\ IsFiniteSet(active) /\ Cardinality(active) \in Nat
      /\ mMaxIncomingXfers \in Nat /\ Cardinality(active) <= mMaxIncomingXfers
    BY SomeXfers, XferAssumption DEF Slots, XferAssumption
<1>3. free \in Nat /\ free = mMaxIncomingXfers - Cardinality(active)
    BY <1>2 DEF FreeSlots
<1>4. /\ IsFiniteSet(taken) /\ Cardinality(taken) <= free
      /\ \A i \in 1 .. N : ~(Cardinality(after(i)) < free) => Cardinality(taken) = free
    <2>1. S \in SUBSET (1 .. N)
        OBVIOUS
    <2> HIDE DEF S, N, free
    <2>2. QED BY <1>1, <1>3, <2>1, TakenFromTail
<1>5. Cardinality(taken) \in Nat
    BY <1>4, FS_CardinalityType
<1>6. ASSUME NEW i \in 1 .. N
      PROVE  list[i] \in Tried(list, xfers) <=> pending(i) /\ Cardinality(after(i)) < free
    <2> DEFINE started(k) ==
                    {j \in k + 1 .. Len(list) : pending(j) /\ CanOpen(list[j], 0)}
    <2>1. \A k \in 1 .. N : started(k) = after(k)
        BY <1>1
    <2>2. Tried(list, xfers) =
            {list[k] : k \in {l \in 1 .. N : pending(l) /\ Cardinality(started(l)) < free}}
        BY <1>1 DEF Tried
    <2>3. Tried(list, xfers) =
            {list[k] : k \in {l \in 1 .. N : pending(l) /\ Cardinality(after(l)) < free}}
        BY <2>1, <2>2
    <2>4. \A k \in 1 .. N : list[k] = list[i] => k = i
        BY <1>1 DEF Different
    <2> HIDE DEF started, after, pending, N, free
    <2>5. QED BY <2>3, <2>4
<1>7. \A x \in Xfers : receive'[x].status =
            IF x \in Tried(list, xfers)
            THEN IF CanOpen(x, 0) THEN "IN_PROGRESS" ELSE "ABORTED"
            ELSE xfers[x].status
    BY DEF StartPendingDownloads
<1>8. ASSUME NEW i \in 1 .. N
      PROVE  /\ receive'[list[i]].status = "IN_PROGRESS" <=> list[i] \in active \/ i \in taken
             /\ receive'[list[i]].status = "PENDING" => ~(Cardinality(after(i)) < free)
    <2>1. list[i] \in active <=> xfers[list[i]].status = "IN_PROGRESS"
        BY <1>1 DEF InProgress, ToSet
    <2>2. i \in taken <=> pending(i) /\ CanOpen(list[i], 0) /\ Cardinality(after(i)) < free
        OBVIOUS
    <2>3. list[i] \in Xfers
        BY <1>1
    <2> HIDE DEF after, taken, active, free
    <2>4. QED BY <1>6, <1>7, <2>1, <2>2, <2>3
<1>9. InProgress(list, receive') = active \cup new
    <2>1. ASSUME NEW i \in 1 .. N
          PROVE  receive'[list[i]].status = "IN_PROGRESS" <=> list[i] \in active \cup new
        <3>1. list[i] \in new <=> i \in taken
            <4>1. \A k \in taken : k \in 1 .. N
                OBVIOUS
            <4> HIDE DEF taken
            <4>2. QED BY <1>1, <4>1 DEF Different
        <3> HIDE DEF taken, new, active
        <3>2. QED BY <1>8, <3>1
    <2>2. ToSet(list) = {list[i] : i \in 1 .. N}
        BY <1>1 DEF ToSet
    <2>3. active \subseteq ToSet(list)
        BY DEF InProgress
    <2>4. new \subseteq ToSet(list)
        BY <2>2
    <2> HIDE DEF active, new
    <2>5. QED BY <2>1, <2>2, <2>3, <2>4 DEF InProgress
<1>10. IsFiniteSet(new) /\ Cardinality(new) = Cardinality(taken)
    <2>1. taken \in SUBSET DOMAIN list
        BY <1>1
    <2> HIDE DEF taken
    <2>2. QED BY <1>4, <2>1, DifferentCount
<1>11. active \cap new = {}
    BY <1>1 DEF InProgress
<1>12. Cardinality(active \cup new) = Cardinality(active) + Cardinality(taken)
    <2> HIDE DEF active, new, taken
    <2>1. Cardinality(active \cap new) = 0
        BY <1>11, FS_EmptySet
    <2>2. Cardinality(active \cup new)
            = Cardinality(active) + Cardinality(new) - Cardinality(active \cap new)
        BY <1>2, <1>10, FS_Union
    <2>3. QED BY <1>2, <1>5, <1>10, <2>1, <2>2
<1>13. Slots(list, receive')
    BY <1>2, <1>3, <1>4, <1>5, <1>9, <1>12 DEF Slots
<1>14. ASSUME PendingDownloads(list, receive') # {}
       PROVE  Cardinality(taken) = free
    <2>1. PICK i \in 1 .. N : receive'[list[i]].status = "PENDING"
        BY <1>1, <1>14 DEF PendingDownloads, ToSet
    <2>2. QED BY <1>4, <1>8, <2>1
<1>15. Filled(list, receive')
    BY <1>2, <1>3, <1>5, <1>9, <1>12, <1>14 DEF Filled
<1>16. QED BY <1>13, <1>15

\* The receive list of host h: the xfers it asked for that have an object.
Listed(h, list, xfers) ==
    /\ list \in Seq(Xfers) /\ Different(list)
    /\ \A x \in Xfers : x \in ToSet(list) <=> Requester[x] = h /\ xfers[x].status # "NONE"

ListsOK ==
    /\ mReceiveList = [h \in Hosts |-> mReceiveList[h]]
    /\ \A h \in Hosts :
        /\ Listed(h, mReceiveList[h], receive)
        /\ Slots(mReceiveList[h], receive)
        /\ gone = {} => Filled(mReceiveList[h], receive)

LEMMA WithoutFacts ==
    ASSUME NEW list \in Seq(Xfers), Different(list), NEW S
    PROVE  /\ Without(list, S) \in Seq(Xfers) /\ Different(Without(list, S))
           /\ ToSet(Without(list, S)) = ToSet(list) \ S
<1> DEFINE I == {i \in DOMAIN list : list[i] \notin S}
<1>1. Without(list, S) = Chosen(list, I)
    BY DEF Without
<1>2. {list[i] : i \in DOMAIN list \cap I} = ToSet(list) \ S
    BY DEF ToSet
<1> HIDE DEF I
<1>3. QED BY <1>1, <1>2, ChosenFacts

\* The objects of the list alone decide which of them run and wait.
LEMMA SameSlots ==
    ASSUME NEW list, NEW xfers, NEW others,
           \A x \in ToSet(list) : others[x].status = xfers[x].status
    PROVE  /\ Slots(list, others) <=> Slots(list, xfers)
           /\ Filled(list, others) <=> Filled(list, xfers)
<1>1. InProgress(list, others) = InProgress(list, xfers)
    BY DEF InProgress
<1>2. PendingDownloads(list, others) = PendingDownloads(list, xfers)
    BY DEF PendingDownloads
<1>3. QED BY <1>1, <1>2 DEF Slots, Filled

\* A step that leaves the list and the status of every object alone.
LEMMA QuietLists ==
    ASSUME ListsOK, mReceiveList' = mReceiveList,
           \A x \in Xfers : receive'[x].status = receive[x].status, gone' = {} => gone = {}
    PROVE  ListsOK'
<1> SUFFICES ASSUME NEW h \in Hosts
             PROVE  /\ Listed(h, mReceiveList[h], receive')
                    /\ Slots(mReceiveList[h], receive')
                    /\ gone' = {} => Filled(mReceiveList[h], receive')
    BY DEF ListsOK
<1>1. Listed(h, mReceiveList[h], receive) /\ Slots(mReceiveList[h], receive)
        /\ (gone = {} => Filled(mReceiveList[h], receive))
    BY DEF ListsOK
<1>2. \A x \in ToSet(mReceiveList[h]) : receive'[x].status = receive[x].status
    BY <1>1 DEF Listed, ToSet
<1>3. Slots(mReceiveList[h], receive') /\ (gone' = {} => Filled(mReceiveList[h], receive'))
    BY <1>1, <1>2, SameSlots
<1>4. Listed(h, mReceiveList[h], receive')
    BY <1>1 DEF Listed
<1>5. QED BY <1>3, <1>4

\* startPendingDownloads for a list that is right for the objects it is given,
\* of which that of x may have changed.
LEMMA StartLists ==
    ASSUME ReceiveOK, ListsOK, NEW x \in Xfers, NEW list, NEW queues, gone' = gone,
           NEW xfers \in [Xfers -> [status : Status, packet : Nat]],
           \A y \in Xfers : y # x => xfers[y] = receive[y],
           Listed(Requester[x], list, xfers), Slots(list, xfers),
           StartPendingDownloads(Requester[x], list, xfers, queues)
    PROVE  ListsOK'
<1> DEFINE h == Requester[x]
<1>1. h \in Hosts /\ mReceiveList' = [mReceiveList EXCEPT ![h] = list]
    BY XferAssumption DEF StartPendingDownloads, XferAssumption
<1>2. /\ mReceiveList' = [g \in Hosts |-> mReceiveList'[g]] /\ mReceiveList'[h] = list
      /\ \A g \in Hosts \ {h} : mReceiveList'[g] = mReceiveList[g]
    BY <1>1 DEF ListsOK
<1>3. list \in Seq(Xfers) /\ Different(list)
    BY DEF Listed
<1>4. \A y \in Xfers : receive'[y].status = "NONE" <=> xfers[y].status = "NONE"
    BY StartKeeps
<1>5. Listed(h, list, receive')
    BY <1>4 DEF Listed
<1>6. Slots(list, receive') /\ Filled(list, receive')
    BY <1>3, StartFills
<1>7. ASSUME NEW g \in Hosts \ {h}
      PROVE  /\ Listed(g, mReceiveList[g], receive')
             /\ Slots(mReceiveList[g], receive')
             /\ gone' = {} => Filled(mReceiveList[g], receive')
    <2>1. Listed(g, mReceiveList[g], receive) /\ Slots(mReceiveList[g], receive)
            /\ (gone = {} => Filled(mReceiveList[g], receive))
        BY DEF ListsOK
    <2>2. ASSUME NEW y \in Xfers, Requester[y] = g PROVE receive'[y] = receive[y]
        <3>1. y # x /\ y \notin ToSet(list)
            BY <2>2 DEF Listed
        <3>2. y \notin Tried(list, xfers)
            BY <3>1 DEF Tried, ToSet
        <3>3. QED BY <3>1, <3>2 DEF StartPendingDownloads
    <2>3. \A y \in ToSet(mReceiveList[g]) : y \in Xfers /\ Requester[y] = g
        BY <2>1 DEF Listed, ToSet
    <2>4. Slots(mReceiveList[g], receive')
            /\ (gone' = {} => Filled(mReceiveList[g], receive'))
        BY <2>1, <2>2, <2>3, SameSlots
    <2>5. Listed(g, mReceiveList[g], receive')
        BY <2>1, <2>2 DEF Listed
    <2>6. QED BY <2>4, <2>5
<1> HIDE DEF h
<1>8. QED BY <1>2, <1>5, <1>6, <1>7 DEF ListsOK

LEMMA EndDownloadLists ==
    ASSUME ReceiveOK, ListsOK, NEW x \in Xfers, NEW queues, gone' = gone,
           EndDownload(x, queues)
    PROVE  ListsOK'
<1> DEFINE h == Requester[x]
           old == mReceiveList[h]
           list == Without(old, {x})
           xfers == [receive EXCEPT ![x] = NoReceive]
<1>1. h \in Hosts /\ receive \in [Xfers -> [status : Status, packet : Nat]]
    BY XferAssumption DEF XferAssumption, ReceiveOK
<1>2. /\ xfers \in [Xfers -> [status : Status, packet : Nat]]
      /\ \A y \in Xfers : y # x => xfers[y] = receive[y]
      /\ xfers[x].status = "NONE"
    BY <1>1 DEF NoReceive, Status
<1>3. Listed(h, old, receive) /\ Slots(old, receive)
    BY <1>1 DEF ListsOK
<1>4. list \in Seq(Xfers) /\ Different(list) /\ ToSet(list) = ToSet(old) \ {x}
    BY <1>3, WithoutFacts DEF Listed
<1>5. StartPendingDownloads(h, list, xfers, queues)
    BY DEF EndDownload
<1> HIDE DEF xfers, list
<1>6. Listed(h, list, xfers)
    BY <1>2, <1>3, <1>4 DEF Listed
<1>7. InProgress(list, xfers) \subseteq InProgress(old, receive)
    <2>1. ToSet(old) \subseteq Xfers
        BY <1>3, SomeXfers DEF Listed
    <2>2. QED BY <1>2, <1>4, <2>1 DEF InProgress
<1>8. Slots(list, xfers)
    <2>1. IsFiniteSet(InProgress(old, receive)) /\ Cardinality(InProgress(old, receive)) \in Nat
        BY <1>3, SomeXfers DEF Listed
    <2>2. /\ Cardinality(InProgress(list, xfers)) \in Nat
          /\ Cardinality(InProgress(list, xfers)) <= Cardinality(InProgress(old, receive))
        BY <1>4, <1>7, <2>1, FS_Subset, SomeXfers
    <2>3. QED BY <1>3, <2>1, <2>2, XferAssumption DEF Slots, XferAssumption
<1>9. QED BY <1>2, <1>5, <1>6, <1>8, StartLists

LEMMA RequestFileLists ==
    ASSUME ReceiveOK, ListsOK, NEW x \in Xfers, NEW priority, RequestFile(x, priority)
    PROVE  ListsOK'
<1> DEFINE h == Requester[x]
           old == mReceiveList[h]
           list == IF priority THEN Append(old, x) ELSE <<x>> \o old
           xfers == [receive EXCEPT ![x] = NewReceive]
<1>1. h \in Hosts /\ receive \in [Xfers -> [status : Status, packet : Nat]]
    BY XferAssumption DEF XferAssumption, ReceiveOK
<1>2. /\ xfers \in [Xfers -> [status : Status, packet : Nat]]
      /\ \A y \in Xfers : y # x => xfers[y] = receive[y]
      /\ xfers[x].status = "PENDING"
    BY <1>1 DEF NewReceive, Status
<1>3. Listed(h, old, receive) /\ Slots(old, receive)
    BY <1>1 DEF ListsOK
<1>4. receive[x].status = "NONE"
    BY DEF RequestFile, ReceiveOK
<1>5. x \notin ToSet(old) /\ old \in Seq(Xfers) /\ Different(old)
    BY <1>3, <1>4 DEF Listed
<1>6. list \in Seq(Xfers) /\ Different(list) /\ ToSet(list) = ToSet(old) \cup {x}
    <2>1. \A i \in DOMAIN old : old[i] # x
        BY <1>5 DEF ToSet
    <2>2. CASE priority
        <3>1. /\ list \in Seq(Xfers) /\ Len(old) \in Nat
              /\ DOMAIN old = 1 .. Len(old) /\ DOMAIN list = 1 .. Len(old) + 1
              /\ \A i \in 1 .. Len(old) : list[i] = old[i]
              /\ list[Len(old) + 1] = x
            BY <1>5, <2>2
        <3> HIDE DEF list
        <3>2. \A i \in DOMAIN list : i \in DOMAIN old \/ i = Len(old) + 1
            BY <3>1
        <3>3. Different(list)
            BY <1>5, <2>1, <3>1, <3>2 DEF Different
        <3>4. ToSet(list) = ToSet(old) \cup {x}
            BY <3>1, <3>2 DEF ToSet
        <3>5. QED BY <3>1, <3>3, <3>4
    <2>3. CASE ~priority
        <3>1. /\ list \in Seq(Xfers) /\ Len(old) \in Nat
              /\ DOMAIN old = 1 .. Len(old) /\ DOMAIN list = 1 .. Len(old) + 1
              /\ \A i \in 1 .. Len(old) : list[i + 1] = old[i]
              /\ list[1] = x
            BY <1>5, <2>3
        <3> HIDE DEF list
        <3>2. \A i \in DOMAIN list : i = 1 \/ (i - 1 \in DOMAIN old /\ list[i] = old[i - 1])
            <4>1. ASSUME NEW i \in DOMAIN list, i # 1
                  PROVE  i - 1 \in DOMAIN old /\ list[i] = old[i - 1]
                <5>1. i - 1 \in 1 .. Len(old) /\ (i - 1) + 1 = i
                    BY <3>1, <4>1
                <5>2. QED BY <3>1, <5>1
            <4>2. QED BY <4>1
        <3>3. Different(list)
            <4> SUFFICES ASSUME NEW i \in DOMAIN list, NEW j \in DOMAIN list, list[i] = list[j]
                         PROVE  i = j
                BY DEF Different
            <4>1. i = 1 <=> list[i] = x
                BY <2>1, <3>1, <3>2
            <4>2. j = 1 <=> list[j] = x
                BY <2>1, <3>1, <3>2
            <4>3. CASE i # 1 /\ j # 1
                <5>1. i - 1 = j - 1
                    BY <1>5, <3>2, <4>3 DEF Different
                <5>2. i \in Int /\ j \in Int
                    BY <3>1
                <5>3. QED BY <5>1, <5>2
            <4>4. QED BY <4>1, <4>2, <4>3
        <3>4. ToSet(list) = ToSet(old) \cup {x}
            <4>1. \A i \in DOMAIN old : i + 1 \in DOMAIN list /\ list[i + 1] = old[i]
                BY <3>1
            <4>2. 1 \in DOMAIN list
                BY <3>1
            <4>3. ASSUME NEW e \in ToSet(list) PROVE e \in ToSet(old) \cup {x}
                <5>1. PICK i \in DOMAIN list : e = list[i]
                    BY DEF ToSet
                <5>2. CASE i = 1
                    BY <3>1, <5>1, <5>2
                <5>3. CASE i # 1
                    <6>1. i - 1 \in DOMAIN old /\ e = old[i - 1]
                        BY <3>2, <5>1, <5>3
                    <6>2. QED BY <6>1 DEF ToSet
                <5>4. QED BY <5>2, <5>3
            <4>4. ASSUME NEW e \in ToSet(old) PROVE e \in ToSet(list)
                <5>1. PICK i \in DOMAIN old : e = old[i]
                    BY DEF ToSet
                <5>2. QED BY <4>1, <5>1 DEF ToSet
            <4>5. x \in ToSet(list)
                BY <3>1, <4>2 DEF ToSet
            <4>6. QED BY <4>3, <4>4, <4>5
        <3>5. QED BY <3>1, <3>3, <3>4
    <2>4. QED BY <2>2, <2>3
<1>7. StartPendingDownloads(h, list, xfers, toSource) /\ gone' = gone
    BY DEF RequestFile
<1> HIDE DEF xfers, list
<1>8. Listed(h, list, xfers)
    BY <1>2, <1>3, <1>6 DEF Listed
<1>9. InProgress(list, xfers) = InProgress(old, receive)
    <2>1. ToSet(old) \subseteq Xfers
        BY <1>5, SomeXfers
    <2>2. QED BY <1>2, <1>5, <1>6, <2>1 DEF InProgress
<1>10. Slots(list, xfers)
    BY <1>3, <1>9 DEF Slots
<1>11. QED BY <1>2, <1>7, <1>8, <1>10, StartLists

LEMMA RetransmitLists ==
    ASSUME ReceiveOK, ListsOK, NEW h \in Hosts, NEW expired, NEW n,
           RetransmitUnackedPackets(h, expired, n)
    PROVE  ListsOK'
<1> DEFINE cut == Cut(h)
           old == mReceiveList[h]
           list == Without(old, cut)
<1>1. /\ mReceiveList' = [mReceiveList EXCEPT ![h] = list]
      /\ receive' = [x \in Xfers |-> IF x \in cut THEN NoReceive ELSE receive[x]]
      /\ gone' = gone
    BY DEF RetransmitUnackedPackets
<1>2. Listed(h, old, receive) /\ Slots(old, receive) /\ (gone = {} => Filled(old, receive))
    BY DEF ListsOK
<1>3. cut \subseteq ToSet(old) /\ ToSet(old) \subseteq Xfers
    BY <1>2, SomeXfers DEF Cut, InProgress, Listed
<1>4. gone = {} => cut = {}
    BY DEF Cut, Alive
<1>5. /\ mReceiveList' = [g \in Hosts |-> mReceiveList'[g]] /\ mReceiveList'[h] = list
      /\ \A g \in Hosts \ {h} : mReceiveList'[g] = mReceiveList[g]
    BY <1>1 DEF ListsOK
<1>6. list \in Seq(Xfers) /\ Different(list) /\ ToSet(list) = ToSet(old) \ cut
    BY <1>2, WithoutFacts DEF Listed
<1> HIDE DEF cut, list
<1>7. \A x \in Xfers : /\ x \in cut => receive'[x].status = "NONE"
                       /\ x \notin cut => receive'[x] = receive[x]
    BY <1>1 DEF NoReceive
<1>8. Listed(h, list, receive')
    BY <1>2, <1>3, <1>6, <1>7 DEF Listed
<1>9. InProgress(list, receive') \subseteq InProgress(old, receive)
    BY <1>3, <1>6, <1>7 DEF InProgress
<1>10. Slots(list, receive')
    <2>1. IsFiniteSet(InProgress(old, receive)) /\ Cardinality(InProgress(old, receive)) \in Nat
        BY <1>2, SomeXfers DEF Listed
    <2>2. /\ Cardinality(InProgress(list, receive')) \in Nat
          /\ Cardinality(InProgress(list, receive')) <= Cardinality(InProgress(old, receive))
        BY <1>6, <1>9, <2>1, FS_Subset, SomeXfers
    <2>3. QED BY <1>2, <2>1, <2>2, XferAssumption DEF Slots, XferAssumption
<1>11. ASSUME gone' = {} PROVE Filled(list, receive')
    <2>1. cut = {} /\ Filled(old, receive)
        BY <1>1, <1>2, <1>4, <1>11
    <2>2. InProgress(list, receive') = InProgress(old, receive)
        BY <1>3, <1>6, <1>7, <2>1 DEF InProgress
    <2>3. PendingDownloads(list, receive') = PendingDownloads(old, receive)
        BY <1>3, <1>6, <1>7, <2>1 DEF PendingDownloads
    <2>4. QED BY <2>1, <2>2, <2>3 DEF Filled
<1>12. ASSUME NEW g \in Hosts \ {h}
       PROVE  /\ Listed(g, mReceiveList[g], receive')
              /\ Slots(mReceiveList[g], receive')
              /\ gone' = {} => Filled(mReceiveList[g], receive')
    <2>1. Listed(g, mReceiveList[g], receive) /\ Slots(mReceiveList[g], receive)
            /\ (gone = {} => Filled(mReceiveList[g], receive))
        BY DEF ListsOK
    <2>2. ASSUME NEW y \in Xfers, Requester[y] = g PROVE receive'[y] = receive[y]
        BY <1>2, <1>3, <1>7, <2>2 DEF Listed
    <2>3. \A y \in ToSet(mReceiveList[g]) : y \in Xfers /\ Requester[y] = g
        BY <2>1 DEF Listed, ToSet
    <2>4. Slots(mReceiveList[g], receive')
            /\ (gone' = {} => Filled(mReceiveList[g], receive'))
        BY <1>1, <2>1, <2>2, <2>3, SameSlots
    <2>5. Listed(g, mReceiveList[g], receive')
        BY <2>1, <2>2 DEF Listed
    <2>6. QED BY <2>4, <2>5
<1>13. QED BY <1>5, <1>8, <1>10, <1>11, <1>12 DEF ListsOK

LEMMA AtRequesterLists ==
    ASSUME ReceiveOK, ListsOK, NEW x \in Xfers, NEW i, AtRequester(x, i)
    PROVE  ListsOK'
<1>1. gone' = gone /\ receive \in [Xfers -> [status : Status, packet : Nat]]
    BY DEF AtRequester, ReconfirmData, ProcessReceiveData, ProcessAbort, ReceiveOK
<1>2. CASE ReconfirmData(x, i)
    BY <1>1, <1>2, QuietLists DEF ReconfirmData, receiveVars
<1>3. CASE ProcessReceiveData(x, i)
    <2>1. \/ \E queues : EndDownload(x, queues)
          \/ /\ receive' = [receive EXCEPT ![x].packet = @ + 1]
             /\ mReceiveList' = mReceiveList
        BY <1>3 DEF ProcessReceiveData
    <2>2. CASE \E queues : EndDownload(x, queues)
        BY <1>1, <2>2, EndDownloadLists
    <2>3. CASE /\ receive' = [receive EXCEPT ![x].packet = @ + 1]
               /\ mReceiveList' = mReceiveList
        <3>1. \A y \in Xfers : receive'[y].status = receive[y].status
            BY <1>1, <2>3
        <3>2. QED BY <1>1, <2>3, <3>1, QuietLists
    <2>4. QED BY <2>1, <2>2, <2>3
<1>4. CASE ProcessAbort(x, i)
    <2>1. CASE EndDownload(x, toSource)
        BY <1>1, <2>1, EndDownloadLists
    <2>2. CASE mReceiveList' = mReceiveList /\ receive' = receive
        BY <1>1, <2>2, QuietLists
    <2>3. QED BY <1>4, <2>1, <2>2 DEF ProcessAbort
<1>5. QED BY <1>2, <1>3, <1>4 DEF AtRequester

LEMMA InitLists == Init => ListsOK
<1> SUFFICES ASSUME Init PROVE ListsOK
    OBVIOUS
<1>1. mReceiveList = [h \in Hosts |-> <<>>] /\ \A x \in Xfers : receive[x].status = "NONE"
    BY DEF Init, NoReceive
<1>2. ToSet(<<>>) = {}
    BY DEF ToSet
<1>3. Different(<<>>)
    BY DEF Different
<1>4. InProgress(<<>>, receive) = {} /\ PendingDownloads(<<>>, receive) = {}
    BY <1>2 DEF InProgress, PendingDownloads
<1>5. Slots(<<>>, receive) /\ Filled(<<>>, receive)
    <2>1. Cardinality(InProgress(<<>>, receive)) = 0
        BY <1>4, FS_EmptySet
    <2>2. mMaxIncomingXfers \in Nat
        BY XferAssumption DEF XferAssumption
    <2>3. QED BY <1>4, <2>1, <2>2 DEF Slots, Filled
<1>6. QED BY <1>1, <1>2, <1>3, <1>5 DEF ListsOK, Listed

LEMMA NextLists == IInv /\ ListsOK /\ [Next]_vars => ListsOK'
<1> SUFFICES ASSUME ReceiveOK, ListsOK, [Next]_vars PROVE ListsOK'
    BY DEF IInv
<1>1. ASSUME NEW x \in Xfers, NEW priority \in BOOLEAN, RequestFile(x, priority)
      PROVE  ListsOK'
    BY <1>1, RequestFileLists
<1>2. ASSUME NEW x \in Xfers, NEW i, AtSource(x, i) PROVE ListsOK'
    <2>1. UNCHANGED receiveVars /\ gone' = gone
        BY <1>2 DEF AtSource, ProcessFileRequest, ProcessConfirmation, IgnoreAbort
    <2>2. QED BY <2>1, QuietLists DEF receiveVars
<1>3. ASSUME NEW x \in Xfers, NEW i, AtRequester(x, i) PROVE ListsOK'
    BY <1>3, AtRequesterLists
<1>4. ASSUME NEW h \in Hosts, NEW expired, NEW n, Timer(h, expired, n) PROVE ListsOK'
    BY <1>4, RetransmitLists DEF Timer
<1>5. ASSUME NEW x \in Xfers, Lose(x) PROVE ListsOK'
    BY <1>5, QuietLists DEF Lose, receiveVars
<1>6. ASSUME NEW x \in Xfers, CircuitDies(x) PROVE ListsOK'
    <2>1. gone' # {}
        BY <1>6 DEF CircuitDies
    <2>2. QED BY <1>6, <2>1, QuietLists DEF CircuitDies, receiveVars
<1>7. CASE UNCHANGED vars
    BY <1>7, QuietLists DEF vars, receiveVars
<1>8. QED BY <1>1, <1>2, <1>3, <1>4, <1>5, <1>6, <1>7 DEF Next

\* No more downloads run than may, and as many as may while one is pending and
\* all circuits live: every handler that ends one starts the next.
THEOREM SlotsInUse == Spec => []SlotsUsed
<1>1. Spec => [](IInv /\ ListsOK)
    BY InitIInv, NextIInv, InitLists, NextLists, PTL DEF Spec
<1>2. ListsOK => SlotsUsed
    BY DEF ListsOK, Slots, Filled, SlotsUsed
<1>3. QED BY <1>1, <1>2, PTL

-----------------------------------------------------------------------------
(* The messages of an xfer *)

Ack == [id : Xfers, packet : Nat]
ToSource == {RequestXfer} \cup {ConfirmXferPacket(n) : n \in Nat}
                \cup {AbortXfer(r) : r \in Result}

QueuesOK ==
    /\ toSource \in [Xfers -> Seq(ToSource)]
    /\ mXferAckQueue \in [Hosts -> Seq(Ack)]

NoAck(x, acks) == \A j \in DOMAIN acks : acks[j].id # x
IsData(m) == m.type = "SendXferPacket"

\* What is on its way in w to a receiver that expects packet e: nothing it could
\* not take by the time it comes.
Follows(e, w) ==
    \A j \in DOMAIN w : IsData(w[j]) =>
        \/ w[j].packet <= e
        \/ \E i \in DOMAIN w : i < j /\ IsData(w[i]) /\ w[i].packet = w[j].packet - 1

\* Packet n was received or is on its way.
Reached(n, e, w) == n < e \/ \E i \in DOMAIN w : IsData(w[i]) /\ w[i].packet = n

\* The last message ends the xfer.
Ends(w) == w # <<>> /\ (IsData(w[Len(w)]) => w[Len(w)].last)

\* Nothing was sent for an xfer that was not asked for yet.
Before(x, r, s, w, q, acks) ==
    r.packet = 0 /\ s.status = "NONE" /\ w = <<>> /\ q = <<>> /\ NoAck(x, acks)

\* From the request on, the source has not heard of it, or waits for its turn, or
\* sends the packets one after the other, or has sent what ends the xfer.
During(x, r, s, w, q, acks) ==
    /\ NotPast(x, r.packet)
    /\ RequestXfer \in ToSet(q) =>
           s.status = "NONE" /\ w = <<>> /\ q = <<RequestXfer>> /\ NoAck(x, acks)
    /\ s.status = "PENDING" => w = <<>> /\ q = <<>> /\ NoAck(x, acks)
    /\ Follows(r.packet, w)
    /\ s.status \in {"IN_PROGRESS", "COMPLETE"} => Reached(s.packet, r.packet, w)
    /\ s.status \notin {"PENDING", "IN_PROGRESS"} /\ RequestXfer \notin ToSet(q) => Ends(w)

Flow(x, asked, r, s, w, q, acks) ==
    /\ x \notin asked \/ r.status = "PENDING" => Before(x, r, s, w, q, acks)
    /\ r.status = "IN_PROGRESS" => During(x, r, s, w, q, acks)

FlowOK ==
    \A x \in Xfers : network = "fifo" /\ Alive(x) /\ ~FallsSilent(x) =>
        Flow(x, requested, receive[x], send[x], toRequester[x], toSource[x],
             mXferAckQueue[Requester[x]])

\* The disk stays as it is, and with it what falls silent.
LEMMA FlowNext ==
    ASSUME disk' = disk,
           \A x \in Xfers : network' = "fifo" /\ Alive(x)' /\ ~FallsSilent(x) =>
                Flow(x, requested', receive'[x], send'[x], toRequester'[x], toSource'[x],
                     mXferAckQueue'[Requester[x]])
    PROVE  FlowOK'
<1>1. \A x, n : Sucked(x, n)' = Sucked(x, n) /\ IsLast(x, n)' = IsLast(x, n)
    BY DEF Sucked, IsLast
<1>2. \A x : FallsSilent(x)' <=> FallsSilent(x)
    BY <1>1 DEF FallsSilent
<1>3. \A x, n : NotPast(x, n)' <=> NotPast(x, n)
    BY <1>1 DEF NotPast
<1>4. ASSUME NEW x \in Xfers, network' = "fifo", Alive(x)', ~FallsSilent(x)'
      PROVE  Flow(x, requested, receive[x], send[x], toRequester[x], toSource[x],
                  mXferAckQueue[Requester[x]])'
    <2>1. Flow(x, requested', receive'[x], send'[x], toRequester'[x], toSource'[x],
               mXferAckQueue'[Requester[x]])
        BY <1>2, <1>4
    <2>2. NotPast(x, receive'[x].packet) <=> NotPast(x, receive[x].packet)'
        BY <1>3
    <2>3. QED BY <2>1, <2>2 DEF Flow, Before, During, NoAck, Follows, Reached, Ends, IsData
<1>5. QED BY <1>4 DEF FlowOK

\* Every packet such a sender comes to has data, or its read fails.
LEMMA NotSilent ==
    ASSUME EnvOK, NEW x \in Xfers, ~FallsSilent(x), NEW n \in Nat, NotPast(x, n)
    PROVE  Sucked(x, n).data \in {"whole", "part", "fails"}
<1>1. Packets[x] \in Nat
    BY XferAssumption DEF XferAssumption
<1>2. ASSUME NEW k \in 0 .. Packets[x], k <= n PROVE Sucked(x, k).data # "none"
    <2>1. \A m \in 0 .. k - 1 : m \in 0 .. n - 1
        BY <1>1, <1>2
    <2>2. QED BY <2>1 DEF NotPast, FallsSilent
<1>3. Sucked(x, n).data # "none"
    <2>1. CASE n < Packets[x]
        BY <1>1, <1>2, <2>1
    <2>2. CASE ~(n < Packets[x])
        <3>1. Sucked(x, n) = Sucked(x, Packets[x])
            BY <1>1, <2>2 DEF Sucked
        <3>2. QED BY <1>1, <1>2, <2>2, <3>1
    <2>3. QED BY <2>1, <2>2
<1>4. QED BY <1>3, DiskFacts DEF Read

LEMMA EndsAppended ==
    ASSUME NEW S, NEW w \in Seq(S), NEW m
    PROVE  (IsData(m) => m.last) => Ends(Append(w, m))
BY DEF Ends

LEMMA FollowsAppended ==
    ASSUME NEW S, NEW w \in Seq(S), NEW m, NEW e, Follows(e, w),
           IsData(m) => \/ m.packet <= e
                        \/ \E i \in DOMAIN w : IsData(w[i]) /\ w[i].packet = m.packet - 1
    PROVE  Follows(e, Append(w, m))
<1> DEFINE v == Append(w, m)
<1>1. /\ Len(w) \in Nat /\ DOMAIN w = 1 .. Len(w) /\ DOMAIN v = 1 .. Len(w) + 1
      /\ v[Len(w) + 1] = m /\ \A i \in 1 .. Len(w) : v[i] = w[i]
    OBVIOUS
<1> HIDE DEF v
<1>2. ASSUME NEW j \in DOMAIN v, IsData(v[j])
      PROVE  \/ v[j].packet <= e
             \/ \E i \in DOMAIN v : i < j /\ IsData(v[i]) /\ v[i].packet = v[j].packet - 1
    <2>1. CASE j \in DOMAIN w
        <3>1. \/ w[j].packet <= e
              \/ \E i \in DOMAIN w : i < j /\ IsData(w[i]) /\ w[i].packet = w[j].packet - 1
            BY <1>1, <1>2, <2>1 DEF Follows
        <3>2. QED BY <1>1, <2>1, <3>1
    <2>2. CASE j = Len(w) + 1
        <3>1. \A i \in DOMAIN w : i < j /\ i \in DOMAIN v /\ v[i] = w[i]
            BY <1>1, <2>2
        <3>2. QED BY <1>1, <1>2, <2>2, <3>1
    <2>3. QED BY <1>1, <2>1, <2>2
<1>3. QED BY <1>2 DEF Follows, v

LEMMA ReachedAppended ==
    ASSUME NEW S, NEW w \in Seq(S), NEW m, NEW e, NEW n
    PROVE  /\ Reached(n, e, w) => Reached(n, e, Append(w, m))
           /\ IsData(m) /\ m.packet = n => Reached(n, e, Append(w, m))
<1> DEFINE v == Append(w, m)
<1>1. /\ Len(w) \in Nat /\ DOMAIN w = 1 .. Len(w) /\ DOMAIN v = 1 .. Len(w) + 1
      /\ v[Len(w) + 1] = m /\ \A i \in 1 .. Len(w) : v[i] = w[i]
    OBVIOUS
<1> HIDE DEF v
<1>2. ASSUME Reached(n, e, w) PROVE Reached(n, e, v)
    <2>1. \A i \in DOMAIN w : i \in DOMAIN v /\ v[i] = w[i]
        BY <1>1
    <2>2. QED BY <1>2, <2>1 DEF Reached
<1>3. ASSUME IsData(m), m.packet = n PROVE Reached(n, e, v)
    <2>1. Len(w) + 1 \in DOMAIN v
        BY <1>1
    <2>2. QED BY <1>1, <1>3, <2>1 DEF Reached
<1>4. QED BY <1>2, <1>3 DEF v

\* Sending packet n, the one after a packet that was reached or one that was
\* reached itself, keeps the order, whether it is read or not.
LEMMA SendsOn ==
    ASSUME NEW x \in Xfers, NEW e \in Nat, NEW w \in Seq(ToRequester(x)), Follows(e, w),
           NEW n \in Nat, Sucked(x, n).data \in {"whole", "part", "fails"},
           NEW xfer, xfer.packet = n,
           xfer \in [status : Status, packet : Int, waiting : BOOLEAN, retries : Nat],
           n = 0 \/ Reached(n - 1, e, w) \/ Reached(n, e, w)
    PROVE  LET s == SendPacket(x, xfer, n)
               v == w \o PacketOf(x, n)
           IN  /\ Follows(e, v)
               /\ s.status \in {"IN_PROGRESS", "COMPLETE", "ABORTED"}
               /\ s.status \in {"IN_PROGRESS", "COMPLETE"} => Reached(s.packet, e, v)
               /\ s.status # "IN_PROGRESS" => Ends(v)
<1> DEFINE fails == Sucked(x, n).data = "fails"
           m == IF fails THEN AbortXfer("EOF") ELSE SendXferPacket(x, n)
           s == SendPacket(x, xfer, n)
           v == Append(w, m)
<1>1. w \o PacketOf(x, n) = v
    <2>1. PacketOf(x, n) = <<m>>
        BY DEF PacketOf
    <2> HIDE DEF m
    <2>2. QED BY <2>1
<1>2. n \in Nat
    OBVIOUS
<1>3. n <= e \/ \E i \in DOMAIN w : IsData(w[i]) /\ w[i].packet = n - 1
    <2>1. CASE n = 0
        BY <2>1
    <2>2. CASE Reached(n - 1, e, w)
        BY <1>2, <2>2 DEF Reached
    <2>3. CASE Reached(n, e, w)
        <3>1. CASE n < e
            BY <1>2, <3>1
        <3>2. ASSUME NEW i \in DOMAIN w, IsData(w[i]), w[i].packet = n
              PROVE  n <= e \/ \E k \in DOMAIN w : IsData(w[k]) /\ w[k].packet = n - 1
            BY <3>2 DEF Follows
        <3>3. QED BY <2>3, <3>1, <3>2 DEF Reached
    <2>4. QED BY <2>1, <2>2, <2>3
<1>4. CASE ~fails
    <2>1. IsData(m) /\ m.packet = n /\ m.last = IsLast(x, n)
        BY <1>4 DEF SendXferPacket, IsData
    <2>2. s.packet = n /\ s.status = IF IsLast(x, n) THEN "COMPLETE" ELSE "IN_PROGRESS"
        BY <1>4 DEF SendPacket
    <2> HIDE DEF m, s, fails
    <2>3. Follows(e, v) /\ Reached(n, e, v)
        BY <1>3, <2>1, FollowsAppended, ReachedAppended
    <2>4. IsLast(x, n) => Ends(v)
        BY <2>1, EndsAppended
    <2> HIDE DEF v
    <2>5. QED BY <1>1, <2>2, <2>3, <2>4 DEF m, s
<1>5. CASE fails
    <2>1. ~IsData(m)
        BY <1>5 DEF AbortXfer, IsData
    <2>2. s.status = "ABORTED"
        BY <1>5 DEF SendPacket
    <2> HIDE DEF m, s, fails
    <2>3. Follows(e, v) /\ Ends(v)
        BY <2>1, FollowsAppended, EndsAppended
    <2> HIDE DEF v
    <2>4. QED BY <1>1, <2>2, <2>3 DEF m, s
<1>6. QED BY <1>4, <1>5

\* Taking the first message: a packet the receiver has, or the one it expects.
LEMMA FirstTaken ==
    ASSUME NEW S, NEW w \in Seq(S), 1 \in DOMAIN w, NEW e \in Nat, Follows(e, w),
           IsData(w[1]), \A j \in DOMAIN w : IsData(w[j]) => w[j].packet \in Nat
    PROVE  /\ w[1].packet <= e
           /\ Follows(IF w[1].packet = e THEN e + 1 ELSE e, RemoveAt(w, 1))
           /\ \A n \in Int : Reached(n, e, w) =>
                  Reached(n, IF w[1].packet = e THEN e + 1 ELSE e, RemoveAt(w, 1))
           /\ Ends(w) /\ ~w[1].last => Ends(RemoveAt(w, 1))
           /\ Ends(w) /\ Len(w) > 1 => Ends(RemoveAt(w, 1))
<1> DEFINE v == RemoveAt(w, 1)
           f == IF w[1].packet = e THEN e + 1 ELSE e
<1>1. /\ Len(w) \in Nat \ {0} /\ DOMAIN w = 1 .. Len(w) /\ Len(v) = Len(w) - 1
      /\ DOMAIN v = 1 .. Len(w) - 1
      /\ \A i \in 1 .. Len(w) - 1 : v[i] = w[i + 1]
    <2> DEFINE t == SubSeq(w, 2, Len(w))
    <2>1. Len(w) \in Nat \ {0} /\ DOMAIN w = 1 .. Len(w)
        OBVIOUS
    <2>2. SubSeq(w, 1, 0) = <<>>
        BY <2>1, SubSeqProperties
    <2>3. t \in Seq(S) /\ Len(t) = Len(w) - 1
        BY <2>1, SubSeqProperties
    <2>4. \A i \in 1 .. Len(w) - 1 : t[i] = w[i + 1]
        BY <2>1, SubSeqProperties
    <2>5. v = SubSeq(w, 1, 1 - 1) \o SubSeq(w, 1 + 1, Len(w))
        BY DEF RemoveAt
    <2>6. 1 - 1 = 0 /\ 1 + 1 = 2
        OBVIOUS
    <2>7. v = <<>> \o t
        BY <2>2, <2>5, <2>6
    <2> HIDE DEF t, v
    <2>8. v = t
        BY <2>3, <2>7
    <2>9. DOMAIN t = 1 .. Len(t)
        BY <2>3
    <2>10. QED BY <2>1, <2>3, <2>4, <2>8, <2>9
<1>2. w[1].packet <= e /\ w[1].packet \in Nat
    <2>1. \A i \in DOMAIN w : ~(i < 1)
        BY <1>1
    <2>2. QED BY <2>1 DEF Follows
<1>3. f \in Nat /\ w[1].packet < f /\ e <= f
    BY <1>2
<1> HIDE DEF v, f
<1>4. Follows(f, v)
    <2> SUFFICES ASSUME NEW j \in DOMAIN v, IsData(v[j])
                 PROVE  \/ v[j].packet <= f
                        \/ \E i \in DOMAIN v :
                              i < j /\ IsData(v[i]) /\ v[i].packet = v[j].packet - 1
        BY DEF Follows
    <2>1. j + 1 \in DOMAIN w /\ v[j] = w[j + 1] /\ j \in Nat
        BY <1>1
    <2>5. w[j + 1].packet \in Nat /\ IsData(w[j + 1])
        BY <2>1
    <2>2. CASE w[j + 1].packet <= e
        BY <1>3, <2>1, <2>2, <2>5
    <2>3. ASSUME NEW i \in DOMAIN w, i < j + 1, IsData(w[i]),
                 w[i].packet = w[j + 1].packet - 1
          PROVE  \/ v[j].packet <= f
                 \/ \E k \in DOMAIN v : k < j /\ IsData(v[k]) /\ v[k].packet = v[j].packet - 1
        <3>1. CASE i = 1
            BY <1>2, <1>3, <2>1, <2>3, <2>5, <3>1
        <3>2. CASE i # 1
            <4>1. i - 1 \in DOMAIN v /\ v[i - 1] = w[i] /\ i - 1 < j
                <5>1. i - 1 \in 1 .. Len(w) - 1 /\ (i - 1) + 1 = i
                    BY <1>1, <3>2
                <5>2. QED BY <1>1, <2>1, <2>3, <5>1
            <4>2. QED BY <2>1, <2>3, <4>1
        <3>3. QED BY <3>1, <3>2
    <2>4. QED BY <2>1, <2>2, <2>3, <2>5 DEF Follows
<1>5. ASSUME NEW n \in Int, Reached(n, e, w) PROVE Reached(n, f, v)
    <2>1. CASE n < e
        BY <1>3, <2>1 DEF Reached
    <2>2. ASSUME NEW i \in DOMAIN w, IsData(w[i]), w[i].packet = n
          PROVE  Reached(n, f, v)
        <3>1. CASE i = 1
            BY <1>3, <2>2, <3>1 DEF Reached
        <3>2. CASE i # 1
            <4>1. i - 1 \in 1 .. Len(w) - 1 /\ (i - 1) + 1 = i
                BY <1>1, <3>2
            <4>2. QED BY <1>1, <2>2, <4>1 DEF Reached
        <3>3. QED BY <3>1, <3>2
    <2>3. QED BY <1>5, <2>1, <2>2 DEF Reached
<1>6. ASSUME Ends(w), Len(w) > 1 PROVE Ends(v)
    <2>1. Len(v) \in 1 .. Len(w) - 1 /\ v[Len(v)] = w[Len(w)] /\ v # <<>>
        BY <1>1, <1>6
    <2>2. QED BY <1>6, <2>1 DEF Ends
<1>7. ASSUME Ends(w), ~w[1].last PROVE Ends(v)
    <2>1. Len(w) # 1
        BY <1>7 DEF Ends
    <2>2. QED BY <1>1, <1>6, <1>7, <2>1
<1>8. QED BY <1>2, <1>4, <1>5, <1>6, <1>7 DEF v, f

-----------------------------------------------------------------------------
(* What one step does to an xfer *)

LEMMA AppendedMessage ==
    ASSUME NEW S, NEW q \in Seq(S), NEW m
    PROVE  ToSet(q \o <<m>>) = ToSet(q) \cup {m}
<1> DEFINE v == q \o <<m>>
<1>1. /\ Len(q) \in Nat /\ DOMAIN q = 1 .. Len(q) /\ DOMAIN v = 1 .. Len(q) + 1
      /\ v[Len(q) + 1] = m /\ \A i \in 1 .. Len(q) : v[i] = q[i]
    OBVIOUS
<1> HIDE DEF v
<1>2. DOMAIN v = DOMAIN q \cup {Len(q) + 1}
    BY <1>1
<1>3. QED BY <1>1, <1>2 DEF ToSet, v

LEMMA RemovedMessage ==
    ASSUME NEW S, NEW q \in Seq(S), NEW i \in DOMAIN q
    PROVE  RemoveAt(q, i) \in Seq(S) /\ ToSet(RemoveAt(q, i)) \subseteq ToSet(q)
<1> DEFINE a == SubSeq(q, 1, i - 1)
           b == SubSeq(q, i + 1, Len(q))
<1>1. i \in 1 .. Len(q) /\ Len(q) \in Nat /\ DOMAIN q = 1 .. Len(q)
    OBVIOUS
<1>2. a \in Seq(S) /\ b \in Seq(S)
    BY <1>1, SubSeqProperties
<1>3. \A j \in 1 .. Len(a) : a[j] \in ToSet(q)
    <2>1. Len(a) = i - 1 /\ \A j \in 1 .. i - 1 : a[j] = q[j]
        BY <1>1, SubSeqProperties
    <2>2. \A j \in 1 .. i - 1 : j \in DOMAIN q
        BY <1>1
    <2> HIDE DEF a
    <2>3. QED BY <2>1, <2>2 DEF ToSet
<1>4. \A j \in 1 .. Len(b) : b[j] \in ToSet(q)
    <2>1. Len(b) = Len(q) - i /\ \A j \in 1 .. Len(q) - i : b[j] = q[(i + 1) + j - 1]
        BY <1>1, SubSeqProperties
    <2>2. \A j \in 1 .. Len(q) - i : (i + 1) + j - 1 \in DOMAIN q
        BY <1>1
    <2> HIDE DEF b
    <2>3. QED BY <2>1, <2>2 DEF ToSet
<1> HIDE DEF a, b
<1>5. a \o b \in Seq(S) /\ DOMAIN (a \o b) = 1 .. Len(a) + Len(b)
        /\ Len(a) \in Nat /\ Len(b) \in Nat
    BY <1>2
<1>6. ASSUME NEW j \in DOMAIN (a \o b) PROVE (a \o b)[j] \in ToSet(q)
    <2>1. CASE j <= Len(a)
        <3>1. (a \o b)[j] = a[j] /\ j \in 1 .. Len(a)
            BY <1>2, <1>5, <2>1
        <3>2. QED BY <1>3, <3>1
    <2>2. CASE ~(j <= Len(a))
        <3>1. (a \o b)[j] = b[j - Len(a)] /\ j - Len(a) \in 1 .. Len(b)
            BY <1>2, <1>5, <2>2
        <3>2. QED BY <1>4, <3>1
    <2>3. QED BY <2>1, <2>2
<1>7. ToSet(a \o b) \subseteq ToSet(q)
    BY <1>6 DEF ToSet
<1>8. QED BY <1>5, <1>7 DEF RemoveAt, a, b

\* startPendingDownloads: a request for what was pending.
LEMMA StartFlow ==
    ASSUME NEW x \in Xfers, NEW asked, NEW s, NEW w, NEW acks,
           NEW h, NEW list, NEW xfers \in [Xfers -> [status : Status, packet : Nat]],
           NEW queues, StartPendingDownloads(h, list, xfers, queues), Alive(x),
           xfers[x].status = "PENDING" => x \in asked,
           Flow(x, asked, xfers[x], s, w, queues[x], acks)
    PROVE  Flow(x, asked, receive'[x], s, w, toSource'[x], acks)
<1> DEFINE r == xfers[x]
           q == queues[x]
           status == IF CanOpen(x, 0) THEN "IN_PROGRESS" ELSE "ABORTED"
           message == IF CanOpen(x, 0) THEN RequestXfer ELSE AbortXfer("FAILED")
           tried == x \in Tried(list, xfers)
<1>1. /\ receive'[x] = IF tried THEN [r EXCEPT !.status = status] ELSE r
      /\ toSource'[x] = IF tried THEN q \o <<message>> ELSE q
    BY DEF StartPendingDownloads, Post
<1>2. CASE ~tried
    BY <1>1, <1>2
<1>3. CASE tried
    <2>1. r.status = "PENDING" /\ x \in asked
        BY <1>3 DEF Tried
    <2>2. Before(x, r, s, w, q, acks)
        BY <2>1 DEF Flow
    <2>3. CASE ~CanOpen(x, 0)
        <3>1. receive'[x].status = "ABORTED"
            BY <1>1, <1>3, <2>3
        <3>2. QED BY <2>1, <3>1 DEF Flow
    <2>4. CASE CanOpen(x, 0)
        <3> DEFINE p == receive'[x]
                   v == toSource'[x]
        <3>1. p.status = "IN_PROGRESS" /\ p.packet = 0
            BY <1>1, <1>3, <2>2, <2>4 DEF Before
        <3>2. v = <<RequestXfer>>
            BY <1>1, <1>3, <2>2, <2>4 DEF Before
        <3>3. RequestXfer \in ToSet(<<RequestXfer>>)
            BY DEF ToSet
        <3>4. NotPast(x, 0)
            <4>1. \A m \in 0 .. 0 - 1 : FALSE
                OBVIOUS
            <4>2. QED BY <4>1 DEF NotPast
        <3>5. Follows(0, <<>>)
            BY DEF Follows
        <3> HIDE DEF p, v
        <3>6. During(x, p, s, w, v, acks)
            BY <2>2, <3>1, <3>2, <3>3, <3>4, <3>5 DEF During, Before
        <3>7. Flow(x, asked, p, s, w, v, acks)
            BY <2>1, <3>1, <3>6 DEF Flow
        <3>8. QED BY <3>7 DEF p, v
    <2>5. QED BY <2>3, <2>4
<1>4. QED BY <1>2, <1>3

\* A message other than the request reaches the source.
LEMMA ConfirmTaken ==
    ASSUME NEW x \in Xfers, NEW asked, NEW r, NEW s, NEW w, NEW acks,
           NEW q \in Seq(ToSource), 1 \in DOMAIN q, q[1].type # "RequestXfer",
           Flow(x, asked, r, s, w, q, acks)
    PROVE  /\ Flow(x, asked, r, s, w, RemoveAt(q, 1), acks)
           /\ x \in asked /\ r.status # "PENDING"
           /\ r.status = "IN_PROGRESS" =>
                s.status # "PENDING" /\ RequestXfer \notin ToSet(RemoveAt(q, 1))
<1> DEFINE v == RemoveAt(q, 1)
<1>1. q # <<>> /\ q # <<RequestXfer>>
    BY DEF RequestXfer
<1>2. x \in asked /\ r.status # "PENDING"
    BY <1>1 DEF Flow, Before
<1>3. ToSet(v) \subseteq ToSet(q)
    BY RemovedMessage
<1> HIDE DEF v
<1>4. ASSUME r.status = "IN_PROGRESS"
      PROVE  During(x, r, s, w, v, acks) /\ s.status # "PENDING" /\ RequestXfer \notin ToSet(v)
    <2>1. During(x, r, s, w, q, acks)
        BY <1>4 DEF Flow
    <2>2. RequestXfer \notin ToSet(q) /\ s.status # "PENDING"
        BY <1>1, <2>1 DEF During
    <2>3. RequestXfer \notin ToSet(v)
        BY <1>3, <2>2
    <2>4. QED BY <2>1, <2>2, <2>3 DEF During
<1>5. QED BY <1>2, <1>4 DEF Flow, v

\* A confirmation or an abort leaves for the source, while something is on its
\* way to the requester or throttled.
LEMMA MessagePosted ==
    ASSUME NEW x \in Xfers, NEW asked, NEW r, NEW s, NEW w, NEW q \in Seq(ToSource), NEW acks,
           NEW m, m.type # "RequestXfer", x \in asked, r.status # "PENDING",
           r.status = "IN_PROGRESS" => s.status # "PENDING" /\ RequestXfer \notin ToSet(q),
           Flow(x, asked, r, s, w, q, acks)
    PROVE  Flow(x, asked, r, s, w, Post(q, x, <<m>>), acks)
<1> DEFINE v == Post(q, x, <<m>>)
<1>1. RequestXfer \in ToSet(v) => RequestXfer \in ToSet(q)
    <2>1. RequestXfer # m
        BY DEF RequestXfer
    <2>2. v = q \/ ToSet(v) = ToSet(q) \cup {m}
        BY AppendedMessage DEF Post
    <2>3. QED BY <2>1, <2>2
<1> HIDE DEF v
<1>2. ASSUME r.status = "IN_PROGRESS" PROVE During(x, r, s, w, v, acks)
    <2>1. During(x, r, s, w, q, acks)
        BY <1>2 DEF Flow
    <2>2. QED BY <1>1, <1>2, <2>1 DEF During
<1>3. QED BY <1>2 DEF Flow, v

LEMMA WireFacts ==
    ASSUME NEW x \in Xfers, NEW w \in Seq(ToRequester(x)), NEW j \in DOMAIN w
    PROVE  /\ IsData(w[j]) => w[j].packet \in Nat /\ w[j].last = IsLast(x, w[j].packet)
           /\ w[j].type \in {"SendXferPacket", "AbortXfer"}
<1>1. w[j] \in ToRequester(x)
    OBVIOUS
<1>2. CASE w[j] \in {SendXferPacket(x, k) : k \in PacketNum(x)}
    <2>1. PICK k \in PacketNum(x) : w[j] = SendXferPacket(x, k)
        BY <1>2
    <2>2. k \in Nat
        BY XferAssumption DEF PacketNum, XferAssumption
    <2>3. w[j].type = "SendXferPacket" /\ w[j].packet = k /\ w[j].last = IsLast(x, k)
        BY <2>1 DEF SendXferPacket
    <2>4. QED BY <2>2, <2>3
<1>3. CASE w[j] \in {AbortXfer(r) : r \in Result \ {"NOERR"}}
    <2>1. w[j].type = "AbortXfer"
        BY <1>3 DEF AbortXfer
    <2>2. QED BY <2>1 DEF IsData
<1>4. QED BY <1>1, <1>2, <1>3 DEF ToRequester

\* A message reaches the requester of an xfer that runs: r is its object, and
\* after the packet it expects it expects the next.
LEMMA DataTaken ==
    ASSUME NEW x \in Xfers, NEW asked, NEW r \in [status : Status, packet : Nat],
           NEW s, s.packet \in Int, NEW w \in Seq(ToRequester(x)), 1 \in DOMAIN w,
           NEW q, NEW acks, Flow(x, asked, r, s, w, q, acks),
           IsData(w[1]), ~(w[1].packet = r.packet /\ w[1].last)
    PROVE  LET p == IF w[1].packet = r.packet THEN [r EXCEPT !.packet = @ + 1] ELSE r
           IN  /\ x \in asked /\ r.status # "PENDING"
               /\ r.status = "IN_PROGRESS" => s.status # "PENDING" /\ RequestXfer \notin ToSet(q)
               /\ \A more : Flow(x, asked, p, s, RemoveAt(w, 1), q, more)
<1> DEFINE p == IF w[1].packet = r.packet THEN [r EXCEPT !.packet = @ + 1] ELSE r
           v == RemoveAt(w, 1)
           e == r.packet
           f == IF w[1].packet = e THEN e + 1 ELSE e
<1>1. p.status = r.status /\ p.packet = f /\ e \in Nat
    OBVIOUS
<1>2. w # <<>>
    OBVIOUS
<1>3. x \in asked /\ r.status # "PENDING"
    BY <1>2 DEF Flow, Before
<1> HIDE DEF p, v, f
<1>4. ASSUME r.status = "IN_PROGRESS"
      PROVE  /\ s.status # "PENDING" /\ RequestXfer \notin ToSet(q)
             /\ \A more : During(x, p, s, v, q, more)
    <2>1. During(x, r, s, w, q, acks)
        BY <1>4 DEF Flow
    <2>2. s.status # "PENDING" /\ RequestXfer \notin ToSet(q)
        BY <1>2, <2>1 DEF During
    <2>3. w[1].packet \in Nat /\ w[1].last = IsLast(x, w[1].packet)
        BY WireFacts
    <2>4. NotPast(x, e)
        BY <2>1 DEF During
    <2>5. Follows(e, w) /\ \A j \in DOMAIN w : IsData(w[j]) => w[j].packet \in Nat
        BY <2>1, WireFacts DEF During
    <2>6. w[1].packet <= e
        BY <1>1, <2>5, FirstTaken
    <2>7. NotPast(x, f) /\ ~w[1].last
        <3>1. CASE w[1].packet = e
            <4>1. ~w[1].last /\ ~IsLast(x, e) /\ f = e + 1
                BY <2>3, <3>1 DEF f
            <4>2. \A k \in 0 .. (e + 1) - 1 : k = e \/ k \in 0 .. e - 1
                BY <1>1
            <4>3. QED BY <2>4, <4>1, <4>2 DEF NotPast
        <3>2. CASE w[1].packet # e
            <4>1. w[1].packet \in 0 .. e - 1 /\ f = e
                BY <1>1, <2>3, <2>6, <3>2 DEF f
            <4>2. ~IsLast(x, w[1].packet)
                BY <2>4, <4>1 DEF NotPast
            <4>3. QED BY <2>3, <2>4, <4>1, <4>2
        <3>3. QED BY <3>1, <3>2
    <2>8. Follows(f, v)
        BY <1>1, <2>5, FirstTaken DEF f, v
    <2>9. \A k \in Int : Reached(k, e, w) => Reached(k, f, v)
        BY <1>1, <2>5, FirstTaken DEF f, v
    <2>10. Ends(w) => Ends(v)
        BY <1>1, <2>5, <2>7, FirstTaken DEF v
    <2>11. s.status \in {"IN_PROGRESS", "COMPLETE"} => Reached(s.packet, f, v)
        BY <2>1, <2>9 DEF During
    <2>12. QED BY <1>1, <2>1, <2>2, <2>7, <2>8, <2>10, <2>11 DEF During
<1>5. ASSUME NEW more PROVE Flow(x, asked, p, s, v, q, more)
    BY <1>1, <1>3, <1>4 DEF Flow
<1>6. QED BY <1>3, <1>4, <1>5 DEF p, v

\* The source sends its packet n, the first or the one after the last one sent or
\* that one again, and is left with object s.
LEMMA PacketSent ==
    ASSUME NEW x \in Xfers, NEW asked, NEW r \in [status : Status, packet : Nat], NEW s,
           NEW w \in Seq(ToRequester(x)), NEW q, NEW acks, NEW n \in Nat, NEW xfer,
           Sucked(x, n).data \in {"whole", "part", "fails"},
           xfer \in [status : Status, packet : Int, waiting : BOOLEAN, retries : Nat],
           xfer.packet = n, x \in asked, r.status # "PENDING",
           r.status = "IN_PROGRESS" =>
                /\ NotPast(x, r.packet) /\ Follows(r.packet, w) /\ RequestXfer \notin ToSet(q)
                /\ n = 0 \/ Reached(n - 1, r.packet, w) \/ Reached(n, r.packet, w)
    PROVE  Flow(x, asked, r, SendPacket(x, xfer, n), w \o PacketOf(x, n), q, acks)
<1> DEFINE p == SendPacket(x, xfer, n)
           v == w \o PacketOf(x, n)
<1>1. ASSUME r.status = "IN_PROGRESS" PROVE During(x, r, p, v, q, acks)
    <2>1. /\ Follows(r.packet, w) /\ r.packet \in Nat
          /\ n = 0 \/ Reached(n - 1, r.packet, w) \/ Reached(n, r.packet, w)
        BY <1>1
    <2>2. Follows(r.packet, v)
        BY <2>1, SendsOn
    <2>3. p.status \in {"IN_PROGRESS", "COMPLETE", "ABORTED"}
        BY <2>1, SendsOn
    <2>4. p.status \in {"IN_PROGRESS", "COMPLETE"} => Reached(p.packet, r.packet, v)
        BY <2>1, SendsOn
    <2>5. p.status # "IN_PROGRESS" => Ends(v)
        BY <2>1, SendsOn
    <2> HIDE DEF p, v
    <2>6. QED BY <1>1, <2>2, <2>3, <2>4, <2>5 DEF During
<1>2. QED BY <1>1 DEF Flow

\* It gives up with an abort, and forgets the xfer.
LEMMA AbortSent ==
    ASSUME NEW x \in Xfers, NEW asked, NEW r \in [status : Status, packet : Nat],
           NEW s, s.status = "NONE",
           NEW w \in Seq(ToRequester(x)), NEW q, NEW acks, NEW why, x \in asked,
           r.status # "PENDING",
           r.status = "IN_PROGRESS" =>
                NotPast(x, r.packet) /\ Follows(r.packet, w) /\ RequestXfer \notin ToSet(q)
    PROVE  Flow(x, asked, r, s, w \o <<AbortXfer(why)>>, q, acks)
<1> DEFINE m == AbortXfer(why)
           v == w \o <<m>>
<1>1. ~IsData(m) /\ v = Append(w, m)
    BY DEF IsData, AbortXfer
<1> HIDE DEF m
<1>2. Ends(v)
    BY <1>1, EndsAppended
<1>3. Follows(r.packet, w) => Follows(r.packet, v)
    BY <1>1, FollowsAppended
<1> HIDE DEF v
<1>4. r.status = "IN_PROGRESS" => During(x, r, s, v, q, acks)
    BY <1>2, <1>3 DEF During
<1>5. QED BY <1>4 DEF Flow, v, m
-----------------------------------------------------------------------------
(* The steps of the source *)

\* What is true of the one xfer while its circuit lives.
OneFlow(x) ==
    Flow(x, requested, receive[x], send[x], toRequester[x], toSource[x],
         mXferAckQueue[Requester[x]])

LEMMA FlowTypes ==
    ASSUME IInv, QueuesOK, NEW x \in Xfers
    PROVE  /\ receive[x] \in [status : Status, packet : Nat]
           /\ send[x] \in [status : Status, packet : Int, waiting : BOOLEAN, retries : Nat]
           /\ toRequester[x] \in Seq(ToRequester(x))
           /\ toSource[x] \in Seq(ToSource)
           /\ mXferAckQueue[Requester[x]] \in Seq(Ack)
BY XferAssumption DEF IInv, SendOK, WireOK, ReceiveOK, QueuesOK, XferAssumption

LEMMA SourceMessage ==
    ASSUME NEW m \in ToSource
    PROVE  /\ m.type = "RequestXfer" <=> m = RequestXfer
           /\ m.type \in {"RequestXfer", "ConfirmXferPacket", "AbortXfer"}
<1>1. CASE m = RequestXfer
    BY <1>1 DEF RequestXfer
<1>2. CASE m \in {ConfirmXferPacket(n) : n \in Nat}
    BY <1>2 DEF ConfirmXferPacket, RequestXfer
<1>3. CASE m \in {AbortXfer(r) : r \in Result}
    BY <1>3 DEF AbortXfer, RequestXfer
<1>4. QED BY <1>1, <1>2, <1>3 DEF ToSource

LEMMA ProcessFileRequestFlow ==
    ASSUME IInv, QueuesOK, NEW x \in Xfers, OneFlow(x), Alive(x), network = "fifo",
           ~FallsSilent(x), NEW i, ProcessFileRequest(x, i)
    PROVE  Flow(x, requested, receive[x], send'[x], toRequester'[x], toSource'[x],
                mXferAckQueue[Requester[x]])
<1> DEFINE r == receive[x]
           s == send[x]
           w == toRequester[x]
           q == toSource[x]
           acks == mXferAckQueue[Requester[x]]
<1>1. i = 1 /\ 1 \in DOMAIN q /\ q[1].type = "RequestXfer"
    BY DEF ProcessFileRequest, Arrives
<1>2. /\ r \in [status : Status, packet : Nat]
      /\ w \in Seq(ToRequester(x)) /\ q \in Seq(ToSource)
    BY FlowTypes
<1>3. RequestXfer \in ToSet(q)
    <2>1. q[1] = RequestXfer
        BY <1>1, <1>2, SourceMessage
    <2>2. QED BY <1>1, <2>1 DEF ToSet
<1>4. x \in requested /\ r.status # "PENDING"
    BY <1>1 DEF OneFlow, Flow, Before
<1>5. r.status = "IN_PROGRESS" =>
            /\ NotPast(x, r.packet) /\ s.status = "NONE" /\ w = <<>>
            /\ q = <<RequestXfer>> /\ NoAck(x, acks)
    BY <1>3 DEF OneFlow, Flow, During
<1>6. toSource'[x] = RemoveAt(q, 1)
    BY <1>1 DEF ProcessFileRequest, QueuesOK
<1>7. r.status = "IN_PROGRESS" =>
            toSource'[x] = <<>> /\ RequestXfer \notin ToSet(toSource'[x])
    <2>1. RemoveAt(<<RequestXfer>>, 1) = <<>>
        BY DEF RemoveAt
    <2>2. ToSet(<<>>) = {}
        BY DEF ToSet
    <2>3. QED BY <1>5, <1>6, <2>1, <2>2
<1>8. Follows(r.packet, <<>>)
    BY DEF Follows
<1> DEFINE v == toSource'[x]
<1> HIDE DEF v
<1>9. CASE /\ toRequester' = [toRequester EXCEPT ![x] =
                                    Post(@, x, <<AbortXfer("FILE_NOT_FOUND")>>)]
           /\ UNCHANGED sendVars
    <2>1. /\ toRequester'[x] = w \o <<AbortXfer("FILE_NOT_FOUND")>>
          /\ send'[x] = s
        BY <1>9 DEF sendVars, IInv, WireOK, Post
    <2>2. CASE r.status = "IN_PROGRESS"
        <3>1. Flow(x, requested, r, s, w \o <<AbortXfer("FILE_NOT_FOUND")>>, v, acks)
            BY <1>2, <1>4, <1>5, <1>7, <1>8, <2>2, AbortSent DEF v
        <3>2. QED BY <2>1, <3>1 DEF v
    <2>3. CASE r.status # "IN_PROGRESS"
        BY <1>4, <2>3 DEF Flow
    <2>4. QED BY <2>2, <2>3
<1>10. CASE /\ send' = [send EXCEPT ![x] = SendNextPacket(x, NewSend)]
            /\ toRequester' = [toRequester EXCEPT ![x] = Post(@, x, PacketOf(x, 0))]
    <2> DEFINE xfer == [NewSend EXCEPT !.retries = 0, !.packet = @ + 1]
    <2>1. /\ toRequester'[x] = w \o PacketOf(x, 0)
          /\ send'[x] = SendNextPacket(x, NewSend)
        BY <1>10 DEF IInv, WireOK, SendOK, Post
    <2>2. xfer \in [status : Status, packet : Int, waiting : BOOLEAN, retries : Nat]
            /\ xfer.packet = 0 /\ NewSend.packet + 1 = 0
        <3>1. NewSend.packet + 1 = 0
            BY DEF NewSend
        <3> DEFINE zero == [NewSend EXCEPT !.retries = 0]
        <3>2. /\ zero \in [status : Status, packet : Int, waiting : BOOLEAN, retries : Nat]
              /\ zero.packet + 1 = 0
            BY <3>1, NewSender DEF Sender
        <3>3. xfer = [zero EXCEPT !.packet = @ + 1]
            OBVIOUS
        <3> HIDE DEF zero, xfer
        <3>4. QED BY <3>1, <3>2, <3>3
    <2>3. SendNextPacket(x, NewSend) = SendPacket(x, xfer, 0)
        BY <2>2 DEF SendNextPacket
    <2> HIDE DEF xfer
    <2>7. 0 \in Nat /\ Sucked(x, 0).data \in {"whole", "part", "fails"}
        <3>1. Sender(x, NewSend) /\ NewSend.status = "PENDING"
            BY NewSender DEF NewSend
        <3>2. NotPast(x, 0)
            BY <2>2, <3>1, NextNotPast
        <3>3. QED BY <3>2, NotSilent DEF IInv
    <2>4. CASE r.status = "IN_PROGRESS"
        <3>1. Flow(x, requested, r, SendPacket(x, xfer, 0), w \o PacketOf(x, 0), v, acks)
            BY <1>2, <1>4, <1>5, <1>7, <1>8, <2>2, <2>4, <2>7, PacketSent DEF v
        <3>2. QED BY <2>1, <2>3, <3>1 DEF v
    <2>5. CASE r.status # "IN_PROGRESS"
        BY <1>4, <2>5 DEF Flow
    <2>6. QED BY <2>4, <2>5
<1>11. CASE send' = [send EXCEPT ![x] = NewSend] /\ toRequester' = toRequester
    <2>1. toRequester'[x] = w /\ send'[x] = NewSend
        BY <1>11 DEF IInv, SendOK
    <2>2. NewSend.status = "PENDING"
        BY DEF NewSend
    <2>3. r.status = "IN_PROGRESS" => During(x, r, NewSend, w, v, acks)
        BY <1>5, <1>7, <1>8, <2>2 DEF During, v
    <2>4. Flow(x, requested, r, NewSend, w, v, acks)
        BY <1>4, <2>3 DEF Flow
    <2>5. QED BY <2>1, <2>4 DEF v
<1>12. QED BY <1>9, <1>10, <1>11 DEF ProcessFileRequest

LEMMA ProcessConfirmationFlow ==
    ASSUME IInv, QueuesOK, NEW x \in Xfers, OneFlow(x), Alive(x), network = "fifo",
           ~FallsSilent(x), NEW i, ProcessConfirmation(x, i)
    PROVE  Flow(x, requested, receive[x], send'[x], toRequester'[x], toSource'[x],
                mXferAckQueue[Requester[x]])
<1> DEFINE r == receive[x]
           s == send[x]
           w == toRequester[x]
           q == toSource[x]
           v == RemoveAt(q, 1)
           acks == mXferAckQueue[Requester[x]]
<1>1. i = 1 /\ 1 \in DOMAIN q /\ q[1].type # "RequestXfer" /\ toSource'[x] = v
    BY DEF ProcessConfirmation, Arrives, QueuesOK
<1>2. /\ r \in [status : Status, packet : Nat]
      /\ s \in [status : Status, packet : Int, waiting : BOOLEAN, retries : Nat]
      /\ w \in Seq(ToRequester(x)) /\ q \in Seq(ToSource)
    BY FlowTypes
<1>3. Flow(x, requested, r, s, w, v, acks)
    BY <1>1, <1>2, ConfirmTaken DEF OneFlow
<1>4. x \in requested /\ r.status # "PENDING"
    BY <1>1, <1>2, ConfirmTaken DEF OneFlow
<1>5. r.status = "IN_PROGRESS" => s.status # "PENDING" /\ RequestXfer \notin ToSet(v)
    BY <1>1, <1>2, ConfirmTaken DEF OneFlow
<1> HIDE DEF v
<1>6. r.status = "IN_PROGRESS" => During(x, r, s, w, v, acks)
    BY <1>3 DEF Flow
<1>7. CASE s.status = "NONE"
    <2>1. send'[x] = s /\ toRequester'[x] = w
        BY <1>7 DEF ProcessConfirmation
    <2>2. QED BY <1>1, <1>3, <2>1
<1>8. CASE s.status = "IN_PROGRESS"
    <2> DEFINE n == s.packet + 1
               old == [s EXCEPT !.waiting = FALSE]
               xfer == [old EXCEPT !.retries = 0, !.packet = @ + 1]
    <2>1. /\ toRequester'[x] = w \o PacketOf(x, n)
          /\ send'[x] = SendNextPacket(x, old)
        BY <1>8 DEF ProcessConfirmation, IInv, WireOK, SendOK, Post
    <2>2. /\ n \in Nat /\ n - 1 = s.packet
          /\ Sucked(x, n).data \in {"whole", "part", "fails"}
        <3>1. Sender(x, s)
            BY DEF IInv, SendOK
        <3>2. n \in Nat /\ NotPast(x, n)
            BY <1>8, <3>1, NextNotPast
        <3>3. Sucked(x, n).data \in {"whole", "part", "fails"}
            BY <3>2, NotSilent DEF IInv
        <3>4. n - 1 = s.packet
            BY <1>2
        <3>5. QED BY <3>2, <3>3, <3>4
    <2>3. xfer \in [status : Status, packet : Int, waiting : BOOLEAN, retries : Nat]
            /\ xfer.packet = n
        <3>1. old \in [status : Status, packet : Int, waiting : BOOLEAN, retries : Nat]
                /\ old.packet = s.packet
            BY <1>2
        <3> DEFINE zero == [old EXCEPT !.retries = 0]
        <3>2. zero \in [status : Status, packet : Int, waiting : BOOLEAN, retries : Nat]
                /\ zero.packet = s.packet
            BY <3>1
        <3>3. xfer = [zero EXCEPT !.packet = @ + 1]
            OBVIOUS
        <3>4. s.packet + 1 \in Int
            BY <3>1
        <3> HIDE DEF zero, old, xfer
        <3>5. QED BY <3>2, <3>3, <3>4
    <2>4. SendNextPacket(x, old) = SendPacket(x, xfer, n)
        BY <1>2 DEF SendNextPacket
    <2> HIDE DEF xfer, old, n
    <2>5. r.status = "IN_PROGRESS" =>
            /\ NotPast(x, r.packet) /\ Follows(r.packet, w)
            /\ RequestXfer \notin ToSet(v) /\ Reached(n - 1, r.packet, w)
        BY <1>5, <1>6, <1>8, <2>2 DEF During
    <2>6. Flow(x, requested, r, SendPacket(x, xfer, n), w \o PacketOf(x, n), v, acks)
        BY <1>2, <1>4, <2>2, <2>3, <2>5, PacketSent
    <2>7. QED BY <1>1, <2>1, <2>4, <2>6
<1>9. CASE s.status \notin {"NONE", "IN_PROGRESS"}
    <2>1. send'[x] = NoSend /\ toRequester'[x] = w
        BY <1>9 DEF ProcessConfirmation, IInv, SendOK
    <2>2. NoSend.status = "NONE"
        BY DEF NoSend
    <2>3. r.status = "IN_PROGRESS" => During(x, r, NoSend, w, v, acks)
        BY <1>5, <1>6, <1>9, <2>2 DEF During
    <2>4. Flow(x, requested, r, NoSend, w, v, acks)
        BY <1>4, <2>3 DEF Flow
    <2>5. QED BY <1>1, <2>1, <2>4
<1>10. QED BY <1>7, <1>8, <1>9

LEMMA AtSourceFlow ==
    ASSUME IInv, QueuesOK, FlowOK, NEW x \in Xfers, NEW i, AtSource(x, i)
    PROVE  FlowOK'
<1>0. disk' = disk
    BY DEF AtSource, ProcessFileRequest, ProcessConfirmation, IgnoreAbort, environment
<1> SUFFICES ASSUME NEW y \in Xfers, network' = "fifo", Alive(y)', ~FallsSilent(y)
             PROVE  Flow(y, requested', receive'[y], send'[y], toRequester'[y], toSource'[y],
                         mXferAckQueue'[Requester[y]])
    BY <1>0, FlowNext
<1>1. UNCHANGED <<receive, mXferAckQueue, network, gone, requested>>
    BY DEF AtSource, ProcessFileRequest, ProcessConfirmation, IgnoreAbort, receiveVars,
           environment
<1>2. OneFlow(y) /\ Alive(y) /\ network = "fifo"
    BY <1>1 DEF FlowOK, OneFlow, Alive
<1>3. ASSUME y # x
      PROVE  Flow(y, requested', receive'[y], send'[y], toRequester'[y], toSource'[y],
                  mXferAckQueue'[Requester[y]])
    <2>1. send'[y] = send[y]
        BY <1>3 DEF AtSource, ProcessFileRequest, ProcessConfirmation, IgnoreAbort, sendVars,
                    IInv, SendOK
    <2>2. toSource'[y] = toSource[y]
        BY <1>3 DEF AtSource, ProcessFileRequest, ProcessConfirmation, IgnoreAbort, QueuesOK
    <2>3. toRequester'[y] = toRequester[y]
        BY <1>3 DEF AtSource, ProcessFileRequest, ProcessConfirmation, IgnoreAbort,
                    IInv, WireOK
    <2>4. QED BY <1>1, <1>2, <2>1, <2>2, <2>3 DEF OneFlow
<1>4. CASE y = x /\ ProcessFileRequest(x, i)
    BY <1>1, <1>2, <1>4, ProcessFileRequestFlow
<1>5. CASE y = x /\ ProcessConfirmation(x, i)
    BY <1>1, <1>2, <1>5, ProcessConfirmationFlow
<1>6. CASE y = x /\ IgnoreAbort(x, i)
    <2>1. /\ 1 \in DOMAIN toSource[x] /\ toSource[x][1].type # "RequestXfer"
          /\ toSource'[x] = RemoveAt(toSource[x], 1)
        BY <1>2, <1>6 DEF IgnoreAbort, Arrives, QueuesOK
    <2>2. toSource[x] \in Seq(ToSource)
        BY FlowTypes
    <2>3. Flow(x, requested, receive[x], send[x], toRequester[x], toSource'[x],
               mXferAckQueue[Requester[x]])
        BY <1>2, <1>6, <2>1, <2>2, ConfirmTaken DEF OneFlow
    <2>4. send' = send /\ toRequester' = toRequester
        BY <1>6 DEF IgnoreAbort, sendVars
    <2>5. QED BY <1>1, <1>6, <2>3, <2>4
<1>7. QED BY <1>3, <1>4, <1>5, <1>6 DEF AtSource
-----------------------------------------------------------------------------
(* The steps of the requester *)

LEMMA OtherAcks ==
    ASSUME NEW x, NEW asked, NEW r, NEW s, NEW w, NEW q, NEW acks, NEW more,
           Flow(x, asked, r, s, w, q, acks), NoAck(x, acks) => NoAck(x, more)
    PROVE  Flow(x, asked, r, s, w, q, more)
<1>1. Before(x, r, s, w, q, acks) => Before(x, r, s, w, q, more)
    BY DEF Before
<1>2. During(x, r, s, w, q, acks) => During(x, r, s, w, q, more)
    BY DEF During
<1>3. QED BY <1>1, <1>2 DEF Flow

LEMMA EndDownloadFlow ==
    ASSUME IInv, QueuesOK, NEW x \in Xfers, NEW y \in Xfers, OneFlow(y), Alive(y),
           NEW queues, y # x => queues[y] = toSource[y], EndDownload(x, queues)
    PROVE  /\ y = x => receive'[y].status = "NONE"
           /\ y # x => Flow(y, requested, receive'[y], send[y], toRequester[y], toSource'[y],
                            mXferAckQueue[Requester[y]])
<1> DEFINE h == Requester[x]
           list == Without(mReceiveList[h], {x})
           xfers == [receive EXCEPT ![x] = NoReceive]
<1>1. /\ xfers \in [Xfers -> [status : Status, packet : Nat]]
      /\ xfers[x].status = "NONE" /\ (y # x => xfers[y] = receive[y])
    BY DEF IInv, ReceiveOK, NoReceive, Status
<1>2. StartPendingDownloads(h, list, xfers, queues)
    BY DEF EndDownload
<1>3. receive[y].status = "PENDING" => y \in requested
    BY DEF IInv, ReceiveOK
<1> HIDE DEF h, list, xfers
<1>4. CASE y = x
    <2>1. x \notin Tried(list, xfers)
        BY <1>1 DEF Tried
    <2>2. receive'[x] = xfers[x]
        BY <1>2, <2>1 DEF StartPendingDownloads
    <2>3. QED BY <1>1, <1>4, <2>2
<1>5. CASE y # x
    BY <1>1, <1>2, <1>3, <1>5, StartFlow DEF OneFlow
<1>6. QED BY <1>4, <1>5

LEMMA ReconfirmDataFlow ==
    ASSUME IInv, QueuesOK, NEW x \in Xfers, OneFlow(x), network = "fifo",
           NEW i, ReconfirmData(x, i)
    PROVE  Flow(x, requested, receive[x], send[x], toRequester'[x], toSource'[x],
                mXferAckQueue[Requester[x]])
<1> DEFINE r == receive[x]
           s == send[x]
           w == toRequester[x]
           q == toSource[x]
           acks == mXferAckQueue[Requester[x]]
<1>1. i = 1 /\ 1 \in DOMAIN w /\ IsData(w[1]) /\ toRequester'[x] = RemoveAt(w, 1)
    BY DEF ReconfirmData, Arrives, IsData, IInv, WireOK
<1>2. /\ r \in [status : Status, packet : Nat] /\ s.packet \in Int
      /\ w \in Seq(ToRequester(x)) /\ q \in Seq(ToSource)
    BY FlowTypes
<1>3. toSource'[x] = q \/ toSource'[x] = Post(q, x, <<ConfirmXferPacket(w[1].packet)>>)
    BY <1>1 DEF ReconfirmData, QueuesOK
<1>4. x \in requested /\ r.status # "PENDING"
    BY <1>1 DEF OneFlow, Flow, Before
<1>5. CASE r.status = "NONE"
    BY <1>4, <1>5 DEF Flow
<1>6. CASE r.status # "NONE"
    <2>1. w[1].packet # r.packet
        BY <1>1, <1>6 DEF ReconfirmData, Expected
    <2> DEFINE v == RemoveAt(w, 1)
    <2>2. Flow(x, requested, r, s, v, q, acks)
        BY <1>1, <1>2, <2>1, DataTaken DEF OneFlow
    <2>3. r.status = "IN_PROGRESS" => s.status # "PENDING" /\ RequestXfer \notin ToSet(q)
        BY <1>1, <1>2, <2>1, DataTaken DEF OneFlow
    <2> DEFINE m == ConfirmXferPacket(w[1].packet)
    <2>4. m.type # "RequestXfer"
        BY DEF ConfirmXferPacket
    <2> HIDE DEF v, m
    <2>5. Flow(x, requested, r, s, v, Post(q, x, <<m>>), acks)
        BY <1>2, <1>4, <2>2, <2>3, <2>4, MessagePosted
    <2>6. QED BY <1>1, <1>3, <2>2, <2>5 DEF v, m
<1>7. QED BY <1>5, <1>6

\* A packet that is not the last is taken.
LEMMA PacketTakenFlow ==
    ASSUME IInv, QueuesOK, NEW x \in Xfers, OneFlow(x), network = "fifo",
           NEW i, Arrives(toRequester[x], i), IsData(toRequester[x][i]),
           Expected(x, toRequester[x][i].packet), ~toRequester[x][i].last,
           NEW q, NEW m, m.type # "RequestXfer",
           q \in {toSource[x], Post(toSource[x], x, <<m>>)}, NEW acks
    PROVE  Flow(x, requested, [receive[x] EXCEPT !.packet = @ + 1], send[x],
                RemoveAt(toRequester[x], i), q, acks)
<1> DEFINE r == receive[x]
           s == send[x]
           w == toRequester[x]
           p == [r EXCEPT !.packet = @ + 1]
           v == RemoveAt(w, 1)
<1>1. i = 1 /\ 1 \in DOMAIN w /\ IsData(w[1]) /\ w[1].packet = r.packet /\ ~w[1].last
    BY DEF Arrives, Expected
<1>2. /\ r \in [status : Status, packet : Nat] /\ s.packet \in Int
      /\ w \in Seq(ToRequester(x)) /\ toSource[x] \in Seq(ToSource)
    BY FlowTypes
<1>3. Flow(x, requested, p, s, v, toSource[x], acks)
    BY <1>1, <1>2, DataTaken DEF OneFlow
<1>4. x \in requested /\ r.status # "PENDING"
    BY <1>1, <1>2, DataTaken DEF OneFlow
<1>5. r.status = "IN_PROGRESS" => s.status # "PENDING" /\ RequestXfer \notin ToSet(toSource[x])
    BY <1>1, <1>2, DataTaken DEF OneFlow
<1>6. p.status = r.status
    BY <1>2
<1> HIDE DEF p, v
<1>7. Flow(x, requested, p, s, v, Post(toSource[x], x, <<m>>), acks)
    BY <1>2, <1>3, <1>4, <1>5, <1>6, MessagePosted
<1>8. QED BY <1>1, <1>3, <1>7 DEF p, v

LEMMA AtRequesterFlow ==
    ASSUME IInv, QueuesOK, FlowOK, NEW x \in Xfers, NEW i, AtRequester(x, i)
    PROVE  FlowOK'
<1>0. disk' = disk
    BY DEF AtRequester, ReconfirmData, ProcessReceiveData, ProcessAbort, environment
<1> SUFFICES ASSUME NEW y \in Xfers, network' = "fifo", Alive(y)', ~FallsSilent(y)
             PROVE  Flow(y, requested', receive'[y], send'[y], toRequester'[y], toSource'[y],
                         mXferAckQueue'[Requester[y]])
    BY <1>0, FlowNext
<1> DEFINE acks == mXferAckQueue[Requester[y]]
           w == toRequester[x]
<1>1. UNCHANGED <<send, network, gone, requested>>
    BY DEF AtRequester, ReconfirmData, ProcessReceiveData, ProcessAbort, sendVars, environment
<1>2. OneFlow(y) /\ Alive(y) /\ network = "fifo"
    BY <1>1 DEF FlowOK, OneFlow, Alive
<1>3. /\ i = 1 /\ 1 \in DOMAIN w
      /\ toRequester' = [toRequester EXCEPT ![x] = RemoveAt(w, 1)]
    BY <1>2 DEF AtRequester, ReconfirmData, ProcessReceiveData, ProcessAbort, Arrives
<1>4. toRequester'[x] = RemoveAt(w, 1) /\ (y # x => toRequester'[y] = toRequester[y])
    BY <1>3 DEF IInv, WireOK
<1>5. y = x => x \in requested
    <2>1. w # <<>>
        BY <1>3
    <2>2. QED BY <1>2, <2>1 DEF OneFlow, Flow, Before
<1>6. NoAck(y, acks) => \/ NoAck(y, mXferAckQueue'[Requester[y]])
                        \/ y = x
    <2>1. CASE mXferAckQueue' = mXferAckQueue
        BY <2>1
    <2>2. CASE mXferAckQueue' = [mXferAckQueue EXCEPT ![Requester[x]] =
                                    Append(@, [id |-> x, packet |-> w[1].packet])]
        <3>1. acks \in Seq(Ack)
            BY FlowTypes
        <3> DEFINE m == [id |-> x, packet |-> w[1].packet]
                   more == Append(acks, m)
        <3>2. y # x => m.id # y
            OBVIOUS
        <3>3. /\ DOMAIN more = 1 .. Len(acks) + 1 /\ more[Len(acks) + 1] = m
              /\ DOMAIN acks = 1 .. Len(acks) /\ \A j \in 1 .. Len(acks) : more[j] = acks[j]
              /\ Len(acks) \in Nat
            BY <3>1
        <3>4. mXferAckQueue'[Requester[y]] \in {acks, more}
            BY <2>2, XferAssumption DEF QueuesOK, XferAssumption
        <3> HIDE DEF m, more, acks
        <3>5. \A j \in DOMAIN more : j \in DOMAIN acks \/ j = Len(acks) + 1
            BY <3>3
        <3>6. NoAck(y, acks) /\ y # x => NoAck(y, more)
            BY <3>2, <3>3, <3>5 DEF NoAck
        <3>7. QED BY <3>4, <3>6
    <2>3. QED BY <1>3, <2>1, <2>2 DEF AtRequester, ReconfirmData, ProcessReceiveData,
                                      ProcessAbort, receiveVars
<1>7. CASE ReconfirmData(x, i)
    <2>1. receive' = receive /\ mXferAckQueue' = mXferAckQueue
        BY <1>7 DEF ReconfirmData, receiveVars
    <2>2. CASE y = x
        BY <1>1, <1>2, <1>7, <2>1, <2>2, ReconfirmDataFlow
    <2>3. CASE y # x
        <3>1. toSource'[y] = toSource[y]
            BY <1>7, <2>3 DEF ReconfirmData, QueuesOK
        <3>2. QED BY <1>1, <1>2, <1>4, <2>1, <2>3, <3>1 DEF OneFlow
    <2>4. QED BY <2>2, <2>3
<1>8. ASSUME NEW queues, y # x => queues[y] = toSource[y], EndDownload(x, queues)
      PROVE  Flow(y, requested', receive'[y], send'[y], toRequester'[y], toSource'[y],
                  mXferAckQueue'[Requester[y]])
    <2>1. CASE y = x
        <3>1. receive'[y].status = "NONE"
            BY <1>2, <1>8, <2>1, EndDownloadFlow
        <3>2. QED BY <1>1, <1>5, <2>1, <3>1 DEF Flow
    <2>2. CASE y # x
        <3>1. Flow(y, requested, receive'[y], send[y], toRequester[y], toSource'[y], acks)
            BY <1>2, <1>8, <2>2, EndDownloadFlow
        <3>2. QED BY <1>1, <1>4, <1>6, <2>2, <3>1, OtherAcks
    <2>3. QED BY <2>1, <2>2
<1>9. CASE ProcessAbort(x, i)
    <2>1. CASE EndDownload(x, toSource)
        BY <1>8, <2>1
    <2>2. CASE UNCHANGED <<mReceiveList, receive, answers, toSource>> /\ receive[x].status = "NONE"
        <3>1. mXferAckQueue' = mXferAckQueue
            BY <1>9 DEF ProcessAbort
        <3>2. CASE y = x
            BY <1>1, <1>5, <2>2, <3>2 DEF Flow
        <3>3. CASE y # x
            BY <1>1, <1>2, <1>4, <2>2, <3>1, <3>3 DEF OneFlow
        <3>4. QED BY <3>2, <3>3
    <2>3. QED BY <1>9, <2>1, <2>2 DEF ProcessAbort
<1>10. CASE ProcessReceiveData(x, i)
    <2> DEFINE m == ConfirmXferPacket(w[i].packet)
    <2>1. CASE \E queues : EndDownload(x, queues) /\ (y # x => queues[y] = toSource[y])
        BY <1>8, <2>1
    <2>2. CASE /\ ~w[i].last /\ receive' = [receive EXCEPT ![x].packet = @ + 1]
               /\ toSource' \in {toSource, [toSource EXCEPT ![x] = Post(@, x, <<m>>)]}
        <3>1. CASE y # x
            <4>1. receive'[y] = receive[y] /\ toSource'[y] = toSource[y]
                BY <2>2, <3>1 DEF QueuesOK, IInv, ReceiveOK
            <4>2. Flow(y, requested, receive'[y], send[y], toRequester[y], toSource'[y], acks)
                BY <1>2, <4>1 DEF OneFlow
            <4>3. QED BY <1>1, <1>4, <1>6, <3>1, <4>2, OtherAcks
        <3>2. CASE y = x
            <4>1. receive'[x] = [receive[x] EXCEPT !.packet = @ + 1]
                BY <2>2 DEF IInv, ReceiveOK
            <4>2. toSource'[x] \in {toSource[x], Post(toSource[x], x, <<m>>)}
                BY <2>2 DEF QueuesOK
            <4>3. m.type # "RequestXfer"
                BY DEF ConfirmXferPacket
            <4>4. /\ Arrives(toRequester[x], i) /\ IsData(toRequester[x][i])
                  /\ Expected(x, toRequester[x][i].packet)
                BY <1>10 DEF ProcessReceiveData, IsData
            <4> HIDE DEF m
            <4>5. Flow(x, requested, receive'[x], send[x], RemoveAt(w, i), toSource'[x],
                       mXferAckQueue'[Requester[y]])
                BY <1>2, <2>2, <3>2, <4>1, <4>2, <4>3, <4>4, PacketTakenFlow
            <4>6. QED BY <1>1, <1>3, <1>4, <3>2, <4>5
        <3>3. QED BY <3>1, <3>2
    <2> DEFINE abort == [toSource EXCEPT ![x] = Post(@, x, <<AbortXfer("CANNOT_OPEN_FILE")>>)]
               direct == [toSource EXCEPT ![x] = Post(@, x, <<m>>)]
    <2>3. \/ EndDownload(x, abort) \/ EndDownload(x, toSource) \/ EndDownload(x, direct)
          \/ /\ ~w[i].last /\ receive' = [receive EXCEPT ![x].packet = @ + 1]
             /\ toSource' \in {toSource, direct}
        BY <1>10 DEF ProcessReceiveData
    <2>4. y # x => abort[y] = toSource[y] /\ direct[y] = toSource[y]
        BY DEF QueuesOK
    <2> HIDE DEF abort
    <2>5. QED BY <2>1, <2>2, <2>3, <2>4
<1>11. QED BY <1>7, <1>9, <1>10 DEF AtRequester
-----------------------------------------------------------------------------
(* The other steps *)

LEMMA RequestFileFlow ==
    ASSUME IInv, QueuesOK, FlowOK, NEW x \in Xfers, NEW priority, RequestFile(x, priority)
    PROVE  FlowOK'
<1>0. disk' = disk
    BY DEF RequestFile, environment
<1> SUFFICES ASSUME NEW y \in Xfers, network' = "fifo", Alive(y)', ~FallsSilent(y)
             PROVE  Flow(y, requested', receive'[y], send'[y], toRequester'[y], toSource'[y],
                         mXferAckQueue'[Requester[y]])
    BY <1>0, FlowNext
<1> DEFINE h == Requester[x]
           list == IF priority THEN Append(mReceiveList[h], x) ELSE <<x>> \o mReceiveList[h]
           xfers == [receive EXCEPT ![x] = NewReceive]
           acks == mXferAckQueue[Requester[y]]
<1>1. /\ UNCHANGED <<send, toRequester, mXferAckQueue, network, gone>>
      /\ requested' = requested \cup {x} /\ x \notin requested
      /\ StartPendingDownloads(h, list, xfers, toSource)
    BY DEF RequestFile, sendVars, environment
<1>2. OneFlow(y) /\ Alive(y)
    BY <1>1 DEF FlowOK, OneFlow, Alive
<1>3. xfers \in [Xfers -> [status : Status, packet : Nat]] /\ xfers[x] = NewReceive
        /\ (y # x => xfers[y] = receive[y])
    BY DEF IInv, ReceiveOK, NewReceive, Status
<1>4. xfers[y].status = "PENDING" => y \in requested'
    BY <1>1, <1>3 DEF IInv, ReceiveOK
<1> HIDE DEF list, xfers
<1>5. Flow(y, requested', xfers[y], send[y], toRequester[y], toSource[y], acks)
    <2>1. CASE y # x
        <3>1. y \in requested' <=> y \in requested
            BY <1>1, <2>1
        <3>2. QED BY <1>2, <1>3, <2>1, <3>1 DEF OneFlow, Flow
    <2>2. CASE y = x
        <3>1. Before(y, receive[y], send[y], toRequester[y], toSource[y], acks)
            BY <1>1, <1>2, <2>2 DEF OneFlow, Flow
        <3>2. NewReceive.packet = 0 /\ NewReceive.status = "PENDING"
            BY DEF NewReceive
        <3>3. Before(y, NewReceive, send[y], toRequester[y], toSource[y], acks)
            BY <3>1, <3>2 DEF Before
        <3>4. QED BY <1>3, <2>2, <3>2, <3>3 DEF Flow
    <2>3. QED BY <2>1, <2>2
<1>6. QED BY <1>1, <1>2, <1>3, <1>4, <1>5, StartFlow

\* The first n throttled confirmations leave.
LEMMA ConfirmsLeave ==
    ASSUME NEW x \in Xfers, NEW asked, NEW r, NEW s, NEW w, NEW q \in Seq(ToSource),
           NEW acks \in Seq(Ack), NEW n \in 0 .. Len(acks), Alive(x),
           Flow(x, asked, r, s, w, q, acks)
    PROVE  LET own == Chosen(acks, {j \in 1 .. n : acks[j].id = x})
               confirms == [j \in DOMAIN own |-> ConfirmXferPacket(own[j].packet)]
           IN  Flow(x, asked, r, s, w, q \o confirms, SubSeq(acks, n + 1, Len(acks)))
<1> DEFINE own == Chosen(acks, {j \in 1 .. n : acks[j].id = x})
           confirms == [j \in DOMAIN own |-> ConfirmXferPacket(own[j].packet)]
           v == q \o confirms
           more == SubSeq(acks, n + 1, Len(acks))
<1>1. own \in Seq(Ack)
    BY ChosenFacts
<1>2. ToSet(own) = {acks[i] : i \in DOMAIN acks \cap {j \in 1 .. n : acks[j].id = x}}
    BY ChosenFacts
<1>3. confirms \in Seq(ToSource) /\ Len(confirms) = Len(own)
    <2>1. DOMAIN own = 1 .. Len(own) /\ Len(own) \in Nat
            /\ \A j \in DOMAIN own : own[j].packet \in Nat
        <3> HIDE DEF own
        <3>1. DOMAIN own = 1 .. Len(own) /\ Len(own) \in Nat
                /\ \A j \in DOMAIN own : own[j] \in Ack
            BY <1>1
        <3>2. QED BY <3>1 DEF Ack
    <2>2. \A j \in DOMAIN own : ConfirmXferPacket(own[j].packet) \in ToSource
        BY <2>1 DEF ToSource
    <2> HIDE DEF own
    <2>3. QED BY <2>1, <2>2, IsASeq
<1>4. \A j \in DOMAIN confirms : confirms[j].type = "ConfirmXferPacket"
    BY DEF ConfirmXferPacket
<1>5. RequestXfer \in ToSet(v) => RequestXfer \in ToSet(q)
    <2> HIDE DEF confirms
    <2>1. \A j \in DOMAIN v : \/ j \in DOMAIN q /\ v[j] = q[j]
                              \/ j - Len(q) \in DOMAIN confirms /\ v[j] = confirms[j - Len(q)]
        BY <1>3
    <2> HIDE DEF v
    <2>2. \A j \in DOMAIN v : v[j] = RequestXfer => j \in DOMAIN q /\ q[j] = RequestXfer
        BY <1>4, <2>1 DEF RequestXfer
    <2>3. QED BY <2>2 DEF ToSet
<1>6. NoAck(x, acks) => NoAck(x, more)
    <2>1. \A j \in DOMAIN more : n + j \in DOMAIN acks /\ more[j] = acks[n + j]
        <3>1. Len(acks) \in Nat /\ DOMAIN acks = 1 .. Len(acks)
            OBVIOUS
        <3>2. Len(more) = Len(acks) - n /\ DOMAIN more = 1 .. Len(acks) - n
            <4>1. Len(more) = IF n + 1 <= Len(acks) THEN Len(acks) - (n + 1) + 1 ELSE 0
                BY <3>1, SubSeqProperties
            <4>2. more \in Seq(Ack)
                BY <3>1, SubSeqProperties
            <4>5. n \in Nat /\ n <= Len(acks) /\ Len(acks) \in Nat
                BY <3>1
            <4> DEFINE L == Len(acks)
            <4> HIDE DEF more, L
            <4>3. Len(more) = Len(acks) - n
                <5>1. n + 1 <= L => L - (n + 1) + 1 = L - n
                    BY <4>5 DEF L
                <5>2. ~(n + 1 <= L) => 0 = L - n
                    BY <4>5 DEF L
                <5>3. Len(more) = IF n + 1 <= L THEN L - (n + 1) + 1 ELSE 0
                    BY <4>1 DEF L
                <5>4. Len(more) = L - n
                    BY <5>1, <5>2, <5>3
                <5>5. QED BY <5>4 DEF L
            <4>4. QED BY <4>2, <4>3
        <3>3. \A j \in 1 .. Len(acks) - n : more[j] = acks[(n + 1) + j - 1]
            BY <3>1, SubSeqProperties
        <3> HIDE DEF more
        <3>4. \A j \in 1 .. Len(acks) - n : (n + 1) + j - 1 = n + j /\ n + j \in DOMAIN acks
            BY <3>1
        <3>5. QED BY <3>2, <3>3, <3>4
    <2> HIDE DEF more
    <2>2. QED BY <2>1 DEF NoAck
<1>7. NoAck(x, acks) => v = q
    <2>1. NoAck(x, acks) => ToSet(own) = {}
        BY <1>2 DEF NoAck
    <2>2. ToSet(own) = {} => own = <<>>
        <3> HIDE DEF own
        <3>1. ToSet(own) = {} => DOMAIN own = {}
            BY DEF ToSet
        <3>2. DOMAIN own = 1 .. Len(own) /\ Len(own) \in Nat
            BY <1>1
        <3>3. DOMAIN own = {} => Len(own) = 0
            BY <3>2
        <3>4. QED BY <1>1, <3>1, <3>3
    <2>3. own = <<>> => confirms = <<>>
        <3> HIDE DEF own, confirms
        <3>1. own = <<>> => Len(confirms) = 0
            BY <1>3
        <3>2. QED BY <1>3, <3>1
    <2>4. q \o <<>> = q
        OBVIOUS
    <2> HIDE DEF own, confirms
    <2>5. QED BY <2>1, <2>2, <2>3, <2>4
<1> HIDE DEF v, more
<1>8. Flow(x, asked, r, s, w, q, more)
    BY <1>6, OtherAcks
<1>9. CASE NoAck(x, acks)
    BY <1>7, <1>8, <1>9 DEF v, more
<1>10. CASE ~NoAck(x, acks)
    <2>1. x \in asked /\ r.status # "PENDING"
        BY <1>10 DEF Flow, Before
    <2>2. ASSUME r.status = "IN_PROGRESS" PROVE During(x, r, s, w, v, more)
        <3>1. During(x, r, s, w, q, acks)
            BY <2>2 DEF Flow
        <3>2. RequestXfer \notin ToSet(q) /\ s.status # "PENDING"
            BY <1>10, <3>1 DEF During
        <3>3. QED BY <1>5, <3>1, <3>2 DEF During
    <2>3. QED BY <2>1, <2>2 DEF Flow, v, more
<1>11. QED BY <1>9, <1>10

\* The timer of the source goes through its send list.
LEMMA TimerFlow ==
    ASSUME IInv, QueuesOK, NEW x \in Xfers, OneFlow(x), Alive(x),
           ~FallsSilent(x), NEW h \in Hosts, NEW expired, expired \subseteq Waiting(h)
    PROVE  Flow(x, requested, receive[x], AfterTimer(h, expired, x),
                Post(toRequester[x], x, TimerMessages(h, expired, x)), toSource[x],
                mXferAckQueue[Requester[x]])
<1> DEFINE r == receive[x]
           s == send[x]
           w == toRequester[x]
           q == toSource[x]
           acks == mXferAckQueue[Requester[x]]
           p == AfterTimer(h, expired, x)
           v == Post(w, x, TimerMessages(h, expired, x))
<1>1. /\ r \in [status : Status, packet : Nat]
      /\ s \in [status : Status, packet : Int, waiting : BOOLEAN, retries : Nat]
      /\ w \in Seq(ToRequester(x)) /\ q \in Seq(ToSource)
    BY FlowTypes
<1>2. Flow(x, requested, r, s, w, q, acks) /\ Sender(x, s)
    BY DEF OneFlow, IInv, SendOK
<1>3. v = w \o TimerMessages(h, expired, x) /\ w \o <<>> = w
    BY <1>1 DEF Post
<1>4. /\ x \in expired => s.waiting
      /\ x \in Started(h, expired) => s.status = "PENDING"
      /\ x \in Removed(h, expired) => s.status = "ABORTED"
      /\ Dropped(expired) \subseteq expired
    BY DEF Waiting, Started, Removed, Dropped
<1>5. x \in expired => s.status \notin {"NONE", "PENDING"} /\ s.status # "ABORTED"
    BY <1>2, <1>4 DEF Sender
<1>6. s.status # "NONE" => x \in requested
    BY <1>2 DEF Flow, Before
<1>7. s.status # "NONE" => r.status # "PENDING"
    BY <1>2 DEF Flow, Before
<1>8. r.status = "IN_PROGRESS" => During(x, r, s, w, q, acks)
    BY <1>2 DEF Flow
<1>9. CASE x \in Dropped(expired)
    <2>1. p = NoSend /\ NoSend.status = "NONE" /\ v = w \o <<AbortXfer("TCP_TIMEOUT")>>
        BY <1>3, <1>9 DEF AfterTimer, TimerMessages, NoSend
    <2>2. s.status \notin {"NONE", "PENDING"} /\ x \in requested /\ r.status # "PENDING"
        BY <1>4, <1>5, <1>6, <1>7, <1>9
    <2>3. r.status = "IN_PROGRESS" =>
            NotPast(x, r.packet) /\ Follows(r.packet, w) /\ RequestXfer \notin ToSet(q)
        BY <1>8, <2>2 DEF During
    <2>4. Flow(x, requested, r, NoSend, w \o <<AbortXfer("TCP_TIMEOUT")>>, q, acks)
        BY <1>1, <2>1, <2>2, <2>3, AbortSent
    <2>5. QED BY <2>1, <2>4
<1>10. CASE x \in expired \ Dropped(expired)
    <2> DEFINE n == s.packet
               xfer == [s EXCEPT !.retries = @ + 1]
    <2>1. v = w \o PacketOf(x, n)
        BY <1>3, <1>10 DEF TimerMessages
    <2>2. s.status \in {"IN_PROGRESS", "COMPLETE"} /\ x \in requested /\ r.status # "PENDING"
        BY <1>1, <1>5, <1>6, <1>7, <1>10 DEF Status
    <2>3. p = SendPacket(x, xfer, n)
        <3>1. x \notin Removed(h, expired)
            BY <1>4, <2>2
        <3>2. QED BY <1>10, <3>1 DEF AfterTimer
    <2>4. n \in Nat /\ Sucked(x, n).data \in {"whole", "part", "fails"}
        BY <1>2, <1>4, <1>10 DEF Sender, HasData
    <2>5. xfer \in [status : Status, packet : Int, waiting : BOOLEAN, retries : Nat]
            /\ xfer.packet = n
        BY <1>1
    <2> HIDE DEF xfer
    <2>6. r.status = "IN_PROGRESS" =>
            /\ NotPast(x, r.packet) /\ Follows(r.packet, w)
            /\ RequestXfer \notin ToSet(q) /\ Reached(n, r.packet, w)
        BY <1>8, <2>2 DEF During
    <2> HIDE DEF n, p, v
    <2>7. Flow(x, requested, r, SendPacket(x, xfer, n), w \o PacketOf(x, n), q, acks)
        BY <1>1, <2>2, <2>4, <2>5, <2>6, PacketSent
    <2>8. QED BY <2>1, <2>3, <2>7 DEF p, v
<1>11. CASE x \in Started(h, expired) /\ x \notin expired
    <2> DEFINE n == s.packet + 1
               zero == [s EXCEPT !.retries = 0]
               xfer == [s EXCEPT !.retries = 0, !.packet = @ + 1]
    <2>1. v = w \o PacketOf(x, n)
        BY <1>3, <1>4, <1>11 DEF TimerMessages
    <2>2. s.status = "PENDING" /\ x \in requested /\ r.status # "PENDING"
        BY <1>4, <1>6, <1>7, <1>11
    <2>3. p = SendPacket(x, xfer, n)
        <3>1. x \notin Removed(h, expired) /\ x \notin Dropped(expired)
            BY <1>4, <1>11, <2>2
        <3>2. QED BY <1>11, <3>1 DEF AfterTimer, SendNextPacket
    <2>4. n = 0 /\ n \in Nat /\ Sucked(x, n).data \in {"whole", "part", "fails"}
        <3>1. n = 0
            BY <1>2, <2>2 DEF Sender
        <3>2. n \in Nat /\ NotPast(x, n)
            BY <1>2, <2>2, NextNotPast
        <3>3. QED BY <3>1, <3>2, NotSilent DEF IInv
    <2>5. xfer \in [status : Status, packet : Int, waiting : BOOLEAN, retries : Nat]
            /\ xfer.packet = n
        <3>1. zero \in [status : Status, packet : Int, waiting : BOOLEAN, retries : Nat]
                /\ zero.packet = s.packet
            BY <1>1
        <3>2. xfer = [zero EXCEPT !.packet = @ + 1]
            OBVIOUS
        <3>3. s.packet + 1 \in Int
            BY <1>1
        <3> HIDE DEF zero, xfer
        <3>4. QED BY <3>1, <3>2, <3>3
    <2> HIDE DEF xfer
    <2>6. r.status = "IN_PROGRESS" =>
            /\ NotPast(x, r.packet) /\ Follows(r.packet, w) /\ RequestXfer \notin ToSet(q)
        BY <1>8, <2>2 DEF During
    <2> HIDE DEF n, p, v
    <2>7. Flow(x, requested, r, SendPacket(x, xfer, n), w \o PacketOf(x, n), q, acks)
        BY <1>1, <2>2, <2>4, <2>5, <2>6, PacketSent
    <2>8. QED BY <2>1, <2>3, <2>7 DEF p, v
<1>12. CASE x \notin expired /\ x \notin Started(h, expired)
    <2>1. v = w
        BY <1>3, <1>4, <1>12 DEF TimerMessages
    <2>2. CASE x \notin Removed(h, expired)
        <3>1. p = s
            BY <1>4, <1>12, <2>2 DEF AfterTimer
        <3>2. QED BY <1>2, <2>1, <3>1
    <2>3. CASE x \in Removed(h, expired)
        <3>1. p = NoSend /\ NoSend.status = "NONE"
            BY <2>3 DEF AfterTimer, NoSend
        <3>2. s.status = "ABORTED" /\ x \in requested /\ r.status # "PENDING"
            BY <1>4, <1>6, <1>7, <2>3
        <3>3. r.status = "IN_PROGRESS" => During(x, r, NoSend, w, q, acks)
            BY <1>8, <3>1, <3>2 DEF During
        <3>4. Flow(x, requested, r, NoSend, w, q, acks)
            BY <3>2, <3>3 DEF Flow
        <3>5. QED BY <2>1, <3>1, <3>4
    <2>4. QED BY <2>2, <2>3
<1>13. QED BY <1>9, <1>10, <1>11, <1>12

LEMMA RetransmitFlow ==
    ASSUME IInv, QueuesOK, FlowOK, NEW h \in Hosts, NEW expired, NEW n,
           Timer(h, expired, n)
    PROVE  FlowOK'
<1>0. disk' = disk
    BY DEF Timer, RetransmitUnackedPackets, environment
<1> SUFFICES ASSUME NEW y \in Xfers, network' = "fifo", Alive(y)', ~FallsSilent(y)
             PROVE  Flow(y, requested', receive'[y], send'[y], toRequester'[y], toSource'[y],
                         mXferAckQueue'[Requester[y]])
    BY <1>0, FlowNext
<1> DEFINE all == mXferAckQueue[h]
           own == Chosen(all, {j \in 1 .. n : all[j].id = y})
           confirms == [j \in DOMAIN own |-> ConfirmXferPacket(own[j].packet)]
           acks == mXferAckQueue[Requester[y]]
           s == send'[y]
           w == toRequester'[y]
<1>1. /\ RetransmitUnackedPackets(h, expired, n) /\ expired \subseteq Waiting(h)
      /\ n \in 0 .. Len(all)
    BY DEF Timer
<1>2. UNCHANGED <<disk, network, gone, requested>>
    BY <1>1 DEF RetransmitUnackedPackets, environment
<1>3. OneFlow(y) /\ Alive(y)
    BY <1>2 DEF FlowOK, OneFlow, Alive
<1>4. receive'[y] = receive[y]
    <2>1. y \notin Cut(h)
        BY <1>3 DEF Cut
    <2>2. QED BY <1>1, <2>1 DEF RetransmitUnackedPackets
<1>5. Flow(y, requested, receive[y], s, w, toSource[y], acks)
    <2>1. CASE Source[y] = h
        <3>1. /\ s = AfterTimer(h, expired, y)
              /\ w = Post(toRequester[y], y, TimerMessages(h, expired, y))
            BY <1>1, <2>1 DEF RetransmitUnackedPackets
        <3>2. QED BY <1>1, <1>3, <3>1, TimerFlow
    <2>2. CASE Source[y] # h
        <3>1. s = send[y] /\ w = toRequester[y]
            BY <1>1, <2>2 DEF RetransmitUnackedPackets
        <3>2. QED BY <1>3, <3>1 DEF OneFlow
    <2>3. QED BY <2>1, <2>2
<1>6. mXferAckQueue' = [mXferAckQueue EXCEPT ![h] = SubSeq(@, n + 1, Len(@))]
    BY <1>1 DEF RetransmitUnackedPackets
<1> HIDE DEF s, w
<1>7. CASE Requester[y] = h
    <2>1. toSource'[y] = toSource[y] \o confirms
        BY <1>1, <1>3, <1>7 DEF RetransmitUnackedPackets, Post
    <2>2. mXferAckQueue'[h] = SubSeq(all, n + 1, Len(all))
        BY <1>6 DEF QueuesOK
    <2>3. toSource[y] \in Seq(ToSource) /\ all \in Seq(Ack)
        BY DEF QueuesOK
    <2>4. Flow(y, requested, receive[y], s, w, toSource[y], all)
        BY <1>5, <1>7
    <2> HIDE DEF all
    <2>5. Flow(y, requested, receive[y], s, w, toSource[y] \o confirms,
               SubSeq(all, n + 1, Len(all)))
        BY <1>1, <1>3, <2>3, <2>4, ConfirmsLeave
    <2> HIDE DEF confirms
    <2>6. QED BY <1>2, <1>4, <1>7, <2>1, <2>2, <2>5 DEF s, w
<1>8. CASE Requester[y] # h
    <2>1. toSource'[y] = toSource[y]
        BY <1>1, <1>8 DEF RetransmitUnackedPackets
    <2>2. mXferAckQueue'[Requester[y]] = acks
        BY <1>6, <1>8, XferAssumption DEF QueuesOK, XferAssumption
    <2>3. QED BY <1>2, <1>4, <1>5, <2>1, <2>2 DEF s, w
<1>9. QED BY <1>7, <1>8

LEMMA OtherFlow ==
    ASSUME FlowOK, [Next]_vars,
           \/ \E x \in Xfers : Lose(x) \/ CircuitDies(x)
           \/ UNCHANGED vars
    PROVE  FlowOK'
<1>0. disk' = disk
    BY DEF Lose, CircuitDies, vars, environment
<1> SUFFICES ASSUME NEW y \in Xfers, network' = "fifo", Alive(y)', ~FallsSilent(y)
             PROVE  Flow(y, requested', receive'[y], send'[y], toRequester'[y], toSource'[y],
                         mXferAckQueue'[Requester[y]])
    BY <1>0, FlowNext
<1>1. CASE \E x \in Xfers : Lose(x)
    BY <1>1 DEF Lose, environment
<1>2. ASSUME NEW x \in Xfers, CircuitDies(x)
      PROVE  Flow(y, requested', receive'[y], send'[y], toRequester'[y], toSource'[y],
                  mXferAckQueue'[Requester[y]])
    <2>1. UNCHANGED <<receive, mXferAckQueue, send, network, requested>>
        BY <1>2 DEF CircuitDies, receiveVars, sendVars, environment
    <2>2. {Requester[y], Source[y]} # {Requester[x], Source[x]} /\ Alive(y)
        BY <1>2 DEF CircuitDies, Alive
    <2>3. toRequester'[y] = toRequester[y] /\ toSource'[y] = toSource[y]
        BY <1>2, <2>2 DEF CircuitDies
    <2>4. QED BY <2>1, <2>2, <2>3 DEF FlowOK
<1>3. CASE UNCHANGED vars
    BY <1>3 DEF FlowOK, Alive, vars, receiveVars, sendVars, environment
<1>4. QED BY <1>1, <1>2, <1>3

LEMMA NextFlow == IInv /\ QueuesOK /\ FlowOK /\ [Next]_vars => FlowOK'
<1> SUFFICES ASSUME IInv, QueuesOK, FlowOK, [Next]_vars PROVE FlowOK'
    OBVIOUS
<1>1. ASSUME NEW x \in Xfers, NEW priority \in BOOLEAN, RequestFile(x, priority)
      PROVE  FlowOK'
    BY <1>1, RequestFileFlow
<1>2. ASSUME NEW x \in Xfers, NEW i, AtSource(x, i) PROVE FlowOK'
    BY <1>2, AtSourceFlow
<1>3. ASSUME NEW x \in Xfers, NEW i, AtRequester(x, i) PROVE FlowOK'
    BY <1>3, AtRequesterFlow
<1>4. ASSUME NEW h \in Hosts, NEW expired, NEW n, Timer(h, expired, n) PROVE FlowOK'
    BY <1>4, RetransmitFlow
<1>5. CASE (\E x \in Xfers : Lose(x) \/ CircuitDies(x)) \/ UNCHANGED vars
    BY <1>5, OtherFlow
<1>6. QED BY <1>1, <1>2, <1>3, <1>4, <1>5 DEF Next
-----------------------------------------------------------------------------
(* What is on its way to the source *)

LEMMA AppendedType ==
    ASSUME NEW S, NEW q \in Seq(S), NEW m \in S, NEW x
    PROVE  Post(q, x, <<m>>) \in Seq(S)
<1>1. <<m>> \in Seq(S)
    OBVIOUS
<1>2. QED BY <1>1, PostType

LEMMA StartQueues ==
    ASSUME NEW h, NEW list, NEW xfers, NEW queues \in [Xfers -> Seq(ToSource)],
           StartPendingDownloads(h, list, xfers, queues)
    PROVE  toSource' \in [Xfers -> Seq(ToSource)]
<1> DEFINE message(x) == IF CanOpen(x, 0) THEN RequestXfer ELSE AbortXfer("FAILED")
<1>1. toSource' = [x \in Xfers |-> IF x \in Tried(list, xfers)
                                   THEN Post(queues[x], x, <<message(x)>>) ELSE queues[x]]
    BY DEF StartPendingDownloads
<1>2. ASSUME NEW x \in Xfers PROVE Post(queues[x], x, <<message(x)>>) \in Seq(ToSource)
    <2>1. message(x) \in ToSource
        BY DEF ToSource, Result
    <2> HIDE DEF message
    <2>2. QED BY <2>1, AppendedType
<1> HIDE DEF message
<1>3. QED BY <1>1, <1>2

LEMMA QuietQueues ==
    ASSUME QueuesOK, mXferAckQueue' = mXferAckQueue,
           toSource' \in [Xfers -> Seq(ToSource)]
    PROVE  QueuesOK'
BY DEF QueuesOK

LEMMA RemovedQueues ==
    ASSUME QueuesOK, NEW x \in Xfers, NEW i \in DOMAIN toSource[x],
           mXferAckQueue' = mXferAckQueue,
           toSource' = [toSource EXCEPT ![x] = RemoveAt(@, i)]
    PROVE  QueuesOK'
<1>1. RemoveAt(toSource[x], i) \in Seq(ToSource)
    BY RemovedMessage DEF QueuesOK
<1>2. toSource' \in [Xfers -> Seq(ToSource)]
    BY <1>1 DEF QueuesOK
<1>3. QED BY <1>2, QuietQueues

LEMMA AtRequesterQueues ==
    ASSUME IInv, QueuesOK, NEW x \in Xfers, NEW i, AtRequester(x, i)
    PROVE  QueuesOK'
<1> DEFINE m == toRequester[x][i]
           confirm == ConfirmXferPacket(m.packet)
           abort == AbortXfer("CANNOT_OPEN_FILE")
           direct == [toSource EXCEPT ![x] = Post(@, x, <<confirm>>)]
           stop == [toSource EXCEPT ![x] = Post(@, x, <<abort>>)]
<1>1. toSource \in [Xfers -> Seq(ToSource)] /\ mXferAckQueue \in [Hosts -> Seq(Ack)]
    BY DEF QueuesOK
<1>2. stop \in [Xfers -> Seq(ToSource)]
    <2>1. abort \in ToSource
        BY DEF ToSource, Result
    <2> HIDE DEF abort
    <2>2. Post(toSource[x], x, <<abort>>) \in Seq(ToSource)
        BY <1>1, <2>1, AppendedType
    <2>3. QED BY <1>1, <2>2
<1>3. m.type = "SendXferPacket" => m.packet \in Nat
    <2>1. toRequester[x] \in Seq(ToRequester(x))
        BY DEF IInv, WireOK
    <2>2. i \in DOMAIN toRequester[x]
        BY DEF AtRequester, ReconfirmData, ProcessReceiveData, ProcessAbort, Arrives
    <2>3. QED BY <2>1, <2>2, WireFacts DEF IsData
<1>4. m.type = "SendXferPacket" => direct \in [Xfers -> Seq(ToSource)]
    <2>1. m.type = "SendXferPacket" => confirm \in ToSource
        BY <1>3 DEF ToSource
    <2> HIDE DEF confirm
    <2>2. m.type = "SendXferPacket" => Post(toSource[x], x, <<confirm>>) \in Seq(ToSource)
        BY <1>1, <2>1, AppendedType
    <2>3. QED BY <1>1, <2>2
<1> HIDE DEF m, confirm, abort, stop
<1>5. ASSUME NEW queues, queues \in [Xfers -> Seq(ToSource)], EndDownload(x, queues)
      PROVE  toSource' \in [Xfers -> Seq(ToSource)]
    BY <1>5, StartQueues DEF EndDownload
<1>6. CASE ReconfirmData(x, i)
    <2>1. m.type = "SendXferPacket" /\ toSource' \in {direct, toSource}
        BY <1>6 DEF ReconfirmData, m, confirm
    <2>2. mXferAckQueue' = mXferAckQueue
        BY <1>6 DEF ReconfirmData, receiveVars
    <2> HIDE DEF direct
    <2>3. QED BY <1>1, <1>4, <2>1, <2>2, QuietQueues
<1>7. CASE ProcessAbort(x, i)
    <2>1. mXferAckQueue' = mXferAckQueue /\ (EndDownload(x, toSource) \/ toSource' = toSource)
        BY <1>7 DEF ProcessAbort
    <2>2. QED BY <1>1, <1>5, <2>1, QuietQueues
<1>8. CASE ProcessReceiveData(x, i)
    <2>1. /\ m.type = "SendXferPacket"
          /\ \/ EndDownload(x, stop) \/ EndDownload(x, toSource) \/ EndDownload(x, direct)
             \/ toSource' \in {direct, toSource}
        BY <1>8 DEF ProcessReceiveData, m, confirm, stop, abort
    <2>2. toSource' \in [Xfers -> Seq(ToSource)]
        <3> HIDE DEF direct
        <3> QED BY <1>1, <1>2, <1>4, <1>5, <2>1
    <2>3. \/ mXferAckQueue' = mXferAckQueue
          \/ mXferAckQueue' = [mXferAckQueue EXCEPT ![Requester[x]] =
                                    Append(@, [id |-> x, packet |-> m.packet])]
        BY <1>8 DEF ProcessReceiveData, m
    <2>4. [id |-> x, packet |-> m.packet] \in Ack
        BY <1>3, <2>1 DEF Ack
    <2>5. mXferAckQueue' \in [Hosts -> Seq(Ack)]
        <3> DEFINE h == Requester[x]
                   ack == [id |-> x, packet |-> m.packet]
        <3>1. h \in Hosts
            BY XferAssumption DEF XferAssumption
        <3> HIDE DEF ack, h
        <3>2. Append(mXferAckQueue[h], ack) \in Seq(Ack)
            BY <1>1, <2>4, <3>1 DEF ack
        <3>3. \/ mXferAckQueue' = mXferAckQueue
              \/ mXferAckQueue' = [mXferAckQueue EXCEPT ![h] = Append(@, ack)]
            BY <2>3 DEF h, ack
        <3>4. QED BY <1>1, <3>2, <3>3
    <2>6. QED BY <2>2, <2>5 DEF QueuesOK
<1>9. QED BY <1>6, <1>7, <1>8 DEF AtRequester

LEMMA TimerQueues ==
    ASSUME QueuesOK, NEW h \in Hosts, NEW expired, NEW n, Timer(h, expired, n)
    PROVE  QueuesOK'
<1> DEFINE all == mXferAckQueue[h]
           own(x) == Chosen(all, {j \in 1 .. n : all[j].id = x})
           confirms(x) == [j \in DOMAIN own(x) |-> ConfirmXferPacket(own(x)[j].packet)]
<1>1. all \in Seq(Ack) /\ n \in 0 .. Len(all)
    BY DEF QueuesOK, Timer
<1>2. ASSUME NEW x \in Xfers PROVE confirms(x) \in Seq(ToSource)
    <2> DEFINE mine == own(x)
    <2>1. mine \in Seq(Ack)
        <3> HIDE DEF all
        <3>1. mine = Chosen(all, {j \in 1 .. n : all[j].id = x})
            OBVIOUS
        <3>2. QED BY <1>1, <3>1, ChosenFacts
    <2> HIDE DEF mine
    <2>2. DOMAIN mine = 1 .. Len(mine) /\ Len(mine) \in Nat
        BY <2>1
    <2>3. \A j \in DOMAIN mine : mine[j].packet \in Nat
        <3>1. \A j \in DOMAIN mine : mine[j] \in Ack
            BY <2>1
        <3>2. QED BY <3>1 DEF Ack
    <2>4. \A j \in DOMAIN mine : ConfirmXferPacket(mine[j].packet) \in ToSource
        BY <2>3 DEF ToSource
    <2>5. [j \in DOMAIN mine |-> ConfirmXferPacket(mine[j].packet)] \in Seq(ToSource)
        BY <2>2, <2>4, IsASeq
    <2>6. QED BY <2>5 DEF mine
<1>3. toSource' = [x \in Xfers |-> IF Requester[x] = h THEN Post(toSource[x], x, confirms(x))
                                                       ELSE toSource[x]]
    BY DEF Timer, RetransmitUnackedPackets
<1>4. toSource' \in [Xfers -> Seq(ToSource)]
    <2> HIDE DEF confirms
    <2>1. ASSUME NEW x \in Xfers PROVE toSource[x] \in Seq(ToSource)
        BY DEF QueuesOK
    <2>2. ASSUME NEW x \in Xfers PROVE Post(toSource[x], x, confirms(x)) \in Seq(ToSource)
        BY <1>2, <2>1, PostType
    <2>3. QED BY <1>3, <2>1, <2>2
<1>5. mXferAckQueue' \in [Hosts -> Seq(Ack)]
    <2>1. SubSeq(all, n + 1, Len(all)) \in Seq(Ack)
        BY <1>1, SubSeqProperties
    <2>2. mXferAckQueue' = [mXferAckQueue EXCEPT ![h] = SubSeq(all, n + 1, Len(all))]
        BY DEF Timer, RetransmitUnackedPackets
    <2>3. QED BY <2>1, <2>2 DEF QueuesOK
<1>6. QED BY <1>4, <1>5 DEF QueuesOK

LEMMA NextQueues == IInv /\ QueuesOK /\ [Next]_vars => QueuesOK'
<1> SUFFICES ASSUME IInv, QueuesOK, [Next]_vars PROVE QueuesOK'
    OBVIOUS
<1>1. toSource \in [Xfers -> Seq(ToSource)]
    BY DEF QueuesOK
<1>2. ASSUME NEW x \in Xfers, NEW priority \in BOOLEAN, RequestFile(x, priority)
      PROVE  QueuesOK'
    <2>1. toSource' \in [Xfers -> Seq(ToSource)]
        BY <1>1, <1>2, StartQueues DEF RequestFile
    <2>2. QED BY <1>2, <2>1, QuietQueues DEF RequestFile
<1>3. ASSUME NEW x \in Xfers, NEW i \in DOMAIN toSource[x], AtSource(x, i) PROVE QueuesOK'
    <2>1. /\ mXferAckQueue' = mXferAckQueue
          /\ toSource' = [toSource EXCEPT ![x] = RemoveAt(@, i)]
        BY <1>3 DEF AtSource, ProcessFileRequest, ProcessConfirmation, IgnoreAbort, receiveVars
    <2>2. QED BY <2>1, RemovedQueues
<1>4. ASSUME NEW x \in Xfers, NEW i, AtRequester(x, i) PROVE QueuesOK'
    BY <1>4, AtRequesterQueues
<1>5. ASSUME NEW h \in Hosts, NEW expired, NEW n, Timer(h, expired, n) PROVE QueuesOK'
    BY <1>5, TimerQueues
<1>6. ASSUME NEW x \in Xfers, Lose(x) PROVE QueuesOK'
    <2>1. mXferAckQueue' = mXferAckQueue
        BY <1>6 DEF Lose, receiveVars
    <2>2. CASE toSource' = toSource
        BY <1>1, <2>1, <2>2, QuietQueues
    <2>3. CASE \E i \in DOMAIN toSource[x] :
                    toSource' = [toSource EXCEPT ![x] = RemoveAt(@, i)]
        BY <2>1, <2>3, RemovedQueues
    <2>4. QED BY <1>6, <2>2, <2>3 DEF Lose
<1>7. ASSUME NEW x \in Xfers, CircuitDies(x) PROVE QueuesOK'
    <2>1. mXferAckQueue' = mXferAckQueue
        BY <1>7 DEF CircuitDies, receiveVars
    <2>2. <<>> \in Seq(ToSource)
        OBVIOUS
    <2>3. toSource' \in [Xfers -> Seq(ToSource)]
        BY <1>1, <1>7, <2>2 DEF CircuitDies
    <2>4. QED BY <2>1, <2>3, QuietQueues
<1>8. CASE UNCHANGED vars
    BY <1>8 DEF QueuesOK, vars, receiveVars
<1>9. QED BY <1>2, <1>3, <1>4, <1>5, <1>6, <1>7, <1>8 DEF Next

LEMMA InitFlow == Init => QueuesOK /\ FlowOK
<1> SUFFICES ASSUME Init PROVE QueuesOK /\ FlowOK
    OBVIOUS
<1>1. QueuesOK
    BY DEF Init, QueuesOK
<1>2. FlowOK
    <2>1. ASSUME NEW x \in Xfers
          PROVE  Flow(x, requested, receive[x], send[x], toRequester[x], toSource[x],
                      mXferAckQueue[Requester[x]])
        <3>1. mXferAckQueue[Requester[x]] = <<>>
            BY XferAssumption DEF Init, XferAssumption
        <3>2. NoAck(x, <<>>)
            BY DEF NoAck
        <3>3. receive[x] = NoReceive /\ send[x] = NoSend
                /\ toRequester[x] = <<>> /\ toSource[x] = <<>>
            BY DEF Init
        <3>4. Before(x, NoReceive, NoSend, <<>>, <<>>, <<>>)
            BY <3>2 DEF Before, NoReceive, NoSend
        <3>5. NoReceive.status = "NONE"
            BY DEF NoReceive
        <3>6. QED BY <3>1, <3>3, <3>4, <3>5 DEF Flow
    <2>2. QED BY <2>1 DEF FlowOK
<1>3. QED BY <1>1, <1>2

\* On a network that loses and reorders nothing, a source that has forgotten an
\* xfer has sent, as the last message on its way, what ends it; unless it came to a
\* packet without data before the end, of which nobody is told.
THEOREM NobodyForgotten == Spec => []SenderForgetsNobody
<1>1. Init => IInv /\ QueuesOK /\ FlowOK
    BY InitIInv, InitFlow
<1>2. IInv /\ QueuesOK /\ FlowOK /\ [Next]_vars
        => IInv' /\ QueuesOK' /\ FlowOK'
    BY NextIInv, NextQueues, NextFlow
<1>3. IInv /\ FlowOK => SenderForgetsNobody
    <2> SUFFICES ASSUME IInv, FlowOK, NEW x \in Xfers, network = "fifo", Alive(x),
                        ~FallsSilent(x), receive[x].status = "IN_PROGRESS", send[x].status = "NONE",
                        RequestXfer \notin ToSet(toSource[x])
                 PROVE  /\ toRequester[x] # <<>>
                        /\ LET m == Last(toRequester[x]) IN m.type = "AbortXfer" \/ m.last
        BY DEF SenderForgetsNobody
    <2> DEFINE w == toRequester[x]
    <2>1. Ends(w)
        BY DEF FlowOK, Flow, During
    <2>2. w \in Seq(ToRequester(x))
        BY DEF IInv, WireOK
    <2> HIDE DEF w
    <2>3. w # <<>> /\ (IsData(w[Len(w)]) => w[Len(w)].last)
        BY <2>1 DEF Ends
    <2>4. Len(w) \in DOMAIN w
        BY <2>2, <2>3
    <2>5. w[Len(w)].type \in {"SendXferPacket", "AbortXfer"}
        BY <2>2, <2>4, WireFacts
    <2>6. Last(w) = w[Len(w)]
        BY DEF Last
    <2>7. QED BY <2>3, <2>5, <2>6 DEF w, IsData
<1>4. QED BY <1>1, <1>2, <1>3, PTL DEF Spec

=============================================================================
