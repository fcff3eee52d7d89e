------------------------------ MODULE PacketIds ------------------------------
(***************************************************************************)
(* The packet-id arithmetic of a circuit (llmessage/llcircuit.cpp): ids    *)
(* are 24-bit and wrap, and four pieces of code decide by comparing them:  *)
(* which id comes next, which received id is the highest, which pending    *)
(* packet is the oldest, and which received ids may be forgotten.          *)
(***************************************************************************)
EXTENDS Integers

CONSTANT LL_MAX_OUT_PACKET_ID    \* the modulus of packet ids, 2^24 in the code

ASSUME ModulusAssumption == LL_MAX_OUT_PACKET_ID \in Nat \ {0}

PacketID == 0 .. LL_MAX_OUT_PACKET_ID - 1

\* A least element of a set of ids; used on non-empty sets only.
Lowest(ids) == CHOOSE i \in ids : \A j \in ids : i <= j

\* LLCircuitData::nextPacketOutID, the id given to the packet after `out'.
NextPacketOutID(out) == (out + 1) % LL_MAX_OUT_PACKET_ID

\* LLCircuitData::checkPacketInID, its update of mHighestPacketID.  A drop of
\* more than half the id space is a wrap; a rise of more than half is an old
\* packet that arrives after a wrap.
HighestPacketID(highest, id) ==
    CASE 2 * (highest - id) > LL_MAX_OUT_PACKET_ID -> id
      [] 2 * (id - highest) > LL_MAX_OUT_PACKET_ID -> highest
      [] OTHER -> IF id > highest THEN id ELSE highest

\* Fault: with nothing pending a ping reports the id before the last one sent.
OldestUnackedBefore(out, unacked, final) ==
    IF unacked = {} /\ final = {} THEN out - 1 ELSE Lowest(unacked \cup final)

\* LLCircuitData::updateWatchDogTimers, the id a ping reports: the oldest of
\* the packets that still wait for an ack (on either list), or the last id
\* sent.  An id above the last id sent was sent before the ids wrapped.
OldestUnacked(out, unacked, final) ==
    LET Older(ids)   == {i \in ids : i > out}
        wrapped      == Older(unacked) = {}
        wrappedFinal == Older(final) = {}
        First(ids)   == Lowest(IF Older(ids) = {} THEN ids ELSE Older(ids))
    IN  CASE wrapped /\ ~wrappedFinal           -> First(final)
          [] ~wrapped /\ wrappedFinal           -> First(unacked)
          [] unacked = {} /\ final = {}         -> out
          [] unacked # {} /\ final = {}         -> First(unacked)
          [] unacked = {} /\ final # {}         -> First(final)
          [] OTHER -> Lowest({First(unacked), First(final)})

\* Fault: the oldest id that may be resent is forgotten too.
ClearDuplicateListToo(recent, highest, oldest, timedOut) ==
    {i \in recent : /\ oldest < highest => i > oldest
                    /\ ~(i > highest /\ i \in timedOut)}

\* LLCircuitData::clearDuplicateList: the received ids kept when a ping says
\* that `oldest' is the oldest id its sender may still resend.  `timedOut' are
\* the ids received longer than LL_DUPLICATE_SUPPRESSION_TIMEOUT ago; age
\* counts only for ids above the highest one.
ClearDuplicateList(recent, highest, oldest, timedOut) ==
    {i \in recent : /\ oldest < highest => i >= oldest
                    /\ ~(i > highest /\ i \in timedOut)}
=============================================================================
