------------------------------- MODULE MCXfer -------------------------------
(* Small instances of Xfer: a viewer downloads two files. *)
EXTENDS Xfer, TLC
CONSTANTS Viewer, Simulator, a, b

Downloads == (a :> Viewer) @@ (b :> Viewer)
OneSource == (a :> Simulator) @@ (b :> Simulator)
ThreeAndOne == (a :> 3) @@ (b :> 1)

Data(what) == [data |-> what, eof |-> FALSE]
End(what) == [data |-> what, eof |-> TRUE]

\* The reads of the packets, and what a read past them gives.
Reads(packets, after) ==
    [n \in 0 .. Len(packets) |-> IF n < Len(packets) THEN packets[n + 1] ELSE after]
ReadsOfA == Reads(<<Data("whole"), Data("whole"), End("whole")>>, Data("fails"))
ReadsOfB == Reads(<<End("whole")>>, Data("fails"))

Works == [missing |-> {}, reads |-> (a :> ReadsOfA) @@ (b :> ReadsOfB),
          opens |-> (a :> 4) @@ (b :> 2), short |-> (a :> {}) @@ (b :> {})]
Reading(ofA, ofB) == [Works EXCEPT !.reads = (a :> ofA) @@ (b :> ofB)]

\* Nothing fails; a read of a fails and b is missing; the temp file of a cannot be
\* opened when the buffer is full, and the read of b fills the buffer, so that its
\* end is not seen; the temp file of a cannot be opened at the end and that of b not
\* be created.
\* Short reads: the second packet of a has no data, b is sent in part and its end
\* seen by the next read; a was cut short, read in part and written in part.
SomeFail == {
    Works,
    [Reading(Reads(<<Data("whole"), Data("whole"), Data("fails")>>, Data("fails")), ReadsOfB)
        EXCEPT !.missing = {b}],
    [Reading(ReadsOfA, Reads(<<Data("whole")>>, Data("fails"))) EXCEPT !.opens[a] = 2],
    [Works EXCEPT !.opens = (a :> 3) @@ (b :> 0)],
    Reading(Reads(<<Data("whole"), Data("none"), End("whole")>>, Data("fails")),
            Reads(<<Data("part")>>, End("none"))),
    [Reading(Reads(<<Data("whole"), End("part"), End("none")>>, End("none")), ReadsOfB)
        EXCEPT !.short[a] = {0}]}
=============================================================================
