----------------------------- MODULE VFS_proofs -----------------------------
(***************************************************************************)
(* Theorems about VFS, for any files, any size of the data file and of its *)
(* blocks, and any number of locks.                                        *)
(*                                                                         *)
(* The invariant is Good, of the record that stands for a state: free      *)
(* blocks and files lie in the data file, apart from one another and with  *)
(* nothing between them; the index has an entry for each file with data;   *)
(* and what is in the data file is what was stored.  What a crash may      *)
(* leave of the index is SoundIndex, which suffices to load it.  As the    *)
(* operations are put together from calls, it is proved call by call: each *)
(* lemma says what a call makes of a record that is Good, or Good but for  *)
(* the entry of one file.                                                  *)
(***************************************************************************)
EXTENDS VFS, TLAPS, SequenceTheorems, FiniteSetTheorems, NaturalsInduction

USE VFSAssumption DEF VFSAssumption
-----------------------------------------------------------------------------
(* Naturals *)

\* A set of naturals that is not empty has a least element.
LEMMA LeastElement ==
    ASSUME NEW S \in SUBSET Nat, S # {}
    PROVE  \E i \in S : \A j \in S : i <= j
<1> DEFINE R == OpToRel(<, Nat)
<1>1. \A j, k \in Nat : ~ (<<j, k>> \in R) => ~ (j < k)
    BY Zenon DEF OpToRel
<1>2. IsWellFoundedOn(R, Nat)
    BY NatLessThanWellFounded
<1> HIDE DEF R
<1>3. PICK i \in S : \A j \in S : ~ (<<j, i>> \in R)
    BY <1>2, WFMin
<1>4. ASSUME NEW j \in S
      PROVE  i <= j
    <2>1. i \in Nat /\ j \in Nat
        OBVIOUS
    <2>2. ~ (j < i)
        BY <1>1, <1>3, <2>1, Zenon
    <2>3. QED BY <2>1, <2>2
<1>5. QED BY <1>4

\* Induction on the naturals, over a set.
LEMMA Induction ==
    ASSUME NEW S, 0 \in S, \A n \in Nat : n \in S => n + 1 \in S
    PROVE  Nat \subseteq S
<1> SUFFICES ASSUME Nat \ S # {} PROVE FALSE
    OBVIOUS
<1>1. PICK n \in Nat \ S : \A k \in Nat \ S : n <= k
    BY LeastElement
<1>2. n # 0 /\ n - 1 \in Nat
    BY <1>1
<1>3. n - 1 \in S /\ (n - 1) + 1 = n
    BY <1>1, <1>2
<1>4. QED BY <1>2, <1>3
-----------------------------------------------------------------------------
(* Types *)

FileBlock == [location : Byte, length : Int, size : Nat, index : Nat,
              time : Nat, locks : Nat]
FileMap == UNION {[F -> FileBlock] : F \in SUBSET Files}
FreeMap == UNION {[B -> Nat \ {0}] : B \in SUBSET Byte}
IndexEntry == {NoEntry} \cup [file : Files, location : Byte, length : Nat \ {0}, size : Nat]
Content == {NoByte} \cup (Files \X Nat)

State == [files : FileMap, byLocation : FreeMap, byLength : SUBSET (Nat \X Byte),
          holes : Seq(Nat \ {0}), index : Seq(IndexEntry), data : [Byte -> Content],
          written : Seq(Seq(IndexEntry))]

LEMMA FileMaps ==
    ASSUME NEW m
    PROVE  m \in FileMap <=> /\ DOMAIN m \subseteq Files
                             /\ m \in [DOMAIN m -> FileBlock]
<1>1. ASSUME m \in FileMap
      PROVE  DOMAIN m \subseteq Files /\ m \in [DOMAIN m -> FileBlock]
    <2>1. PICK F \in SUBSET Files : m \in [F -> FileBlock]
        BY <1>1 DEF FileMap
    <2>2. QED BY <2>1
<1>2. ASSUME DOMAIN m \subseteq Files, m \in [DOMAIN m -> FileBlock]
      PROVE  m \in FileMap
    BY <1>2 DEF FileMap
<1>3. QED BY <1>1, <1>2

LEMMA FreeMaps ==
    ASSUME NEW m
    PROVE  m \in FreeMap <=> /\ DOMAIN m \subseteq Byte
                             /\ m \in [DOMAIN m -> Nat \ {0}]
<1>1. ASSUME m \in FreeMap
      PROVE  DOMAIN m \subseteq Byte /\ m \in [DOMAIN m -> Nat \ {0}]
    <2>1. PICK B \in SUBSET Byte : m \in [B -> Nat \ {0}]
        BY <1>1 DEF FreeMap
    <2>2. QED BY <2>1
<1>2. ASSUME DOMAIN m \subseteq Byte, m \in [DOMAIN m -> Nat \ {0}]
      PROVE  m \in FreeMap
    BY <1>2 DEF FreeMap
<1>3. QED BY <1>1, <1>2
-----------------------------------------------------------------------------
(* Free blocks *)

InFree(s, b, u) == b <= u /\ u < b + s.byLocation[b]
FreeBytes(s) == {u \in Byte : \E b \in Blocks(s) : InFree(s, b, u)}

\* Free blocks lie in the data file, there is something between any two of them,
\* and the map by length holds the same blocks.
FreeOK(s) ==
    /\ \A b \in Blocks(s) : b + s.byLocation[b] <= DataSize
    /\ \A b, c \in Blocks(s) : b < c => b + s.byLocation[b] < c
    /\ s.byLength = {<<s.byLocation[b], b>> : b \in Blocks(s)}

\* All but the free blocks and the data.
SameFiles(s, r) ==
    r.files = s.files /\ r.holes = s.holes /\ r.index = s.index /\ r.written = s.written

LEMMA BlockTypes ==
    ASSUME NEW s \in State
    PROVE  /\ Blocks(s) \subseteq Byte
           /\ \A b \in Blocks(s) : b \in Int /\ s.byLocation[b] \in Nat \ {0}
           /\ s.byLocation = [b \in Blocks(s) |-> s.byLocation[b]]
<1>1. s.byLocation \in FreeMap
    BY DEF State
<1>2. /\ Blocks(s) \subseteq Byte
      /\ s.byLocation \in [Blocks(s) -> Nat \ {0}]
    BY <1>1, FreeMaps DEF Blocks
<1>3. QED BY <1>2 DEF Byte

LEMMA EraseFacts ==
    ASSUME NEW s \in State, NEW L \in SUBSET Blocks(s)
    PROVE  LET r == EraseBlocks(s, L)
           IN  /\ r \in State /\ SameFiles(s, r) /\ r.data = s.data
               /\ Blocks(r) = Blocks(s) \ L
               /\ \A b \in Blocks(r) : r.byLocation[b] = s.byLocation[b]
               /\ r.byLength = s.byLength \ {<<s.byLocation[b], b>> : b \in L}
<1> DEFINE r == EraseBlocks(s, L)
           map == [b \in Blocks(s) \ L |-> s.byLocation[b]]
           pairs == s.byLength \ {<<s.byLocation[b], b>> : b \in L}
<1>1. map \in FreeMap
    <2>1. map \in [Blocks(s) \ L -> Nat \ {0}] /\ DOMAIN map = Blocks(s) \ L
        BY BlockTypes
    <2> HIDE DEF map
    <2>2. QED BY <2>1, BlockTypes, FreeMaps
<1>2. pairs \in SUBSET (Nat \X Byte)
    BY DEF State
<1>3. r = [s EXCEPT !.byLocation = map, !.byLength = pairs]
    BY DEF EraseBlocks, Blocks
<1>4. DOMAIN map = Blocks(s) \ L /\ \A b \in DOMAIN map : map[b] = s.byLocation[b]
    OBVIOUS
<1> HIDE DEF r, map, pairs
<1>5. /\ r \in State /\ r.byLocation = map /\ r.byLength = pairs
      /\ r.files = s.files /\ r.holes = s.holes /\ r.index = s.index
      /\ r.written = s.written /\ r.data = s.data
    BY <1>1, <1>2, <1>3 DEF State
<1>6. QED BY <1>4, <1>5 DEF SameFiles, Blocks, r, pairs

LEMMA InsertFacts ==
    ASSUME NEW s \in State, NEW location \in Byte, NEW length \in Nat \ {0}
    PROVE  LET r == InsertBlock(s, location, length)
           IN  /\ r \in State /\ SameFiles(s, r) /\ r.data = s.data
               /\ Blocks(r) = Blocks(s) \cup {location}
               /\ r.byLocation[location] = length
               /\ \A b \in Blocks(s) \ {location} : r.byLocation[b] = s.byLocation[b]
               /\ r.byLength = s.byLength \cup {<<length, location>>}
<1> DEFINE r == InsertBlock(s, location, length)
           map == [b \in Blocks(s) \cup {location} |->
                                IF b = location THEN length ELSE s.byLocation[b]]
           pairs == s.byLength \cup {<<length, location>>}
<1>1. map \in FreeMap
    <2>1. map \in [Blocks(s) \cup {location} -> Nat \ {0}]
            /\ DOMAIN map = Blocks(s) \cup {location}
        BY BlockTypes
    <2> HIDE DEF map
    <2>2. QED BY <2>1, BlockTypes, FreeMaps
<1>2. pairs \in SUBSET (Nat \X Byte)
    BY DEF State
<1>3. r = [s EXCEPT !.byLocation = map, !.byLength = pairs]
    BY DEF InsertBlock, Blocks
<1>4. /\ DOMAIN map = Blocks(s) \cup {location} /\ map[location] = length
      /\ \A b \in Blocks(s) \ {location} : map[b] = s.byLocation[b]
    OBVIOUS
<1> HIDE DEF r, map, pairs
<1>5. /\ r \in State /\ r.byLocation = map /\ r.byLength = pairs
      /\ r.files = s.files /\ r.holes = s.holes /\ r.index = s.index
      /\ r.written = s.written /\ r.data = s.data
    BY <1>1, <1>2, <1>3 DEF State
<1>6. QED BY <1>4, <1>5 DEF SameFiles, Blocks, r, pairs

\* Min and Max of sets of one or two integers.
LEMMA MinMax ==
    ASSUME NEW i \in Int, NEW j \in Int
    PROVE  /\ Min({i}) = i /\ Max({i}) = i
           /\ i <= j => Min({i, j}) = i /\ Min({j, i}) = i
           /\ i <= j => Max({i, j}) = j /\ Max({j, i}) = j
<1>1. Min({i}) = i /\ Max({i}) = i
    BY DEF Min, Max
<1>2. ASSUME i <= j
      PROVE  Min({i, j}) = i /\ Max({i, j}) = j
    <2>1. Min({i, j}) \in {i, j} /\ \A k \in {i, j} : Min({i, j}) <= k
        BY <1>2 DEF Min
    <2>2. Max({i, j}) \in {i, j} /\ \A k \in {i, j} : k <= Max({i, j})
        BY <1>2 DEF Max
    <2>3. QED BY <1>2, <2>1, <2>2
<1>3. {i, j} = {j, i}
    OBVIOUS
<1>4. QED BY <1>1, <1>2, <1>3

\* Taking away the pairs of some of the blocks leaves those of the others.
LEMMA PairsWithout ==
    ASSUME NEW S, NEW G \in SUBSET S, NEW m
    PROVE  {<<m[b], b>> : b \in S} \ {<<m[b], b>> : b \in G} = {<<m[b], b>> : b \in S \ G}
<1>1. ASSUME NEW b \in S \ G
      PROVE  <<m[b], b>> \notin {<<m[c], c>> : c \in G}
    <2> SUFFICES ASSUME NEW c \in G, <<m[b], b>> = <<m[c], c>>
                 PROVE  FALSE
        OBVIOUS
    <2>1. b = c
        OBVIOUS
    <2>2. QED BY <2>1
<1>2. ASSUME NEW p \in {<<m[b], b>> : b \in S}, p \notin {<<m[b], b>> : b \in G}
      PROVE  p \in {<<m[b], b>> : b \in S \ G}
    <2>1. PICK b \in S : p = <<m[b], b>>
        BY <1>2
    <2>2. b \notin G
        BY <1>2, <2>1
    <2>3. QED BY <2>1, <2>2
<1>3. QED BY <1>1, <1>2

\* What addFreeBlock leaves: the free bytes and those of the new block, in
\* blocks that do not touch.
LEMMA AddFreeFacts ==
    ASSUME NEW s \in State, FreeOK(s), NEW location \in Byte, NEW length \in Nat \ {0},
           location + length <= DataSize,
           \A u \in Bytes(location, length) : u \notin FreeBytes(s)
    PROVE  LET r == AddFreeBlock(s, location, length)
           IN  /\ r \in State /\ SameFiles(s, r) /\ FreeOK(r)
               /\ FreeBytes(r) = FreeBytes(s) \cup Bytes(location, length)
               /\ \A u \in Byte \ Bytes(location, length) : r.data[u] = s.data[u]
<1> DEFINE previous == {b \in Blocks(s) : b + s.byLocation[b] = location}
           next     == {b \in Blocks(s) : b = location + length}
           start    == Min({location} \cup previous)
           end      == Max({location + length} \cup {b + s.byLocation[b] : b \in next})
           erased   == EraseBlocks(s, previous \cup next)
           added    == InsertBlock(erased, start, end - start)
           r        == AddFreeBlock(s, location, length)
           len(b)   == s.byLocation[b]
<1>1. r = [added EXCEPT !.data =
            [u \in Byte |-> IF u \in Bytes(location, length) THEN NoByte ELSE added.data[u]]]
    BY DEF AddFreeBlock
<1>2. /\ Blocks(s) \subseteq Byte
      /\ location \in Int /\ 0 <= location /\ length \in Int /\ length > 0
      /\ \A b \in Blocks(s) : b \in Int /\ len(b) \in Int /\ len(b) > 0 /\ b >= 0
                                /\ b + len(b) <= DataSize
    <2>1. Blocks(s) \subseteq Byte /\ \A b \in Blocks(s) : len(b) \in Nat \ {0}
        BY BlockTypes
    <2>2. \A u \in Byte : u \in Int /\ 0 <= u
        BY DEF Byte
    <2>3. \A b \in Blocks(s) : b + len(b) <= DataSize
        BY DEF FreeOK
    <2>4. QED BY <2>1, <2>2, <2>3
<1>3. \A b, c \in Blocks(s) : b < c => b + len(b) < c
    BY DEF FreeOK
<1>4. ASSUME NEW b \in Blocks(s)
      PROVE  b + len(b) <= location \/ location + length <= b
    <2>1. CASE b <= location /\ location < b + len(b)
        <3>1. location \in FreeBytes(s)
            BY <2>1 DEF FreeBytes, InFree
        <3>2. location \in Bytes(location, length)
            BY <1>2 DEF Bytes
        <3>3. QED BY <3>1, <3>2
    <2>2. CASE location < b /\ b < location + length
        <3>1. b \in FreeBytes(s)
            BY <1>2 DEF FreeBytes, InFree
        <3>2. b \in Bytes(location, length)
            BY <1>2, <2>2 DEF Bytes
        <3>3. QED BY <3>1, <3>2
    <2>3. QED BY <1>2, <2>1, <2>2
<1> HIDE DEF previous, next, start, end, erased, added, r
<1>5. /\ start \in Int /\ 0 <= start /\ start <= location
      /\ previous = {} => start = location
      /\ previous # {} => previous = {start} /\ start < location
    <2>1. CASE previous = {}
        <3>1. {location} \cup previous = {location}
            BY <2>1
        <3>2. start = location
            BY <1>2, <3>1, MinMax DEF start
        <3>3. QED BY <1>2, <2>1, <3>2
    <2>2. CASE previous # {}
        <3>1. PICK p \in Blocks(s) : p + len(p) = location
            BY <2>2 DEF previous
        <3>2. \A b \in previous : b = p
            BY <1>2, <1>3, <3>1 DEF previous
        <3>3. previous = {p}
            BY <3>1, <3>2 DEF previous
        <3>4. {location} \cup previous = {location, p} /\ p < location /\ p <= location
            BY <1>2, <3>1, <3>3
        <3>5. start = p
            BY <1>2, <3>1, <3>4, MinMax DEF start
        <3>6. QED BY <1>2, <3>1, <3>3, <3>4, <3>5
    <2>3. QED BY <2>1, <2>2
<1>6. /\ end \in Int /\ location + length <= end /\ end <= DataSize
      /\ next = {} => end = location + length
      /\ next # {} => /\ next = {location + length}
                      /\ end = location + length + len(location + length)
    <2> DEFINE p == location + length
               q == p + len(p)
               ends == {b + len(b) : b \in next}
    <2>1. end = Max({p} \cup ends) /\ p \in Int
        BY <1>2 DEF end
    <2>2. CASE next = {}
        <3>1. {p} \cup ends = {p}
            BY <2>2
        <3> HIDE DEF ends, p
        <3>2. end = p
            BY <2>1, <3>1, MinMax
        <3>3. QED BY <1>2, <2>2, <3>2 DEF p
    <2>3. CASE next # {}
        <3>1. next = {p} /\ p \in Blocks(s)
            BY <2>3 DEF next
        <3>2. {p} \cup ends = {p, q}
            BY <3>1
        <3>3. q \in Int /\ p < q /\ p <= q /\ q <= DataSize
            BY <1>2, <3>1
        <3> HIDE DEF p, q, ends
        <3>4. end = q
            BY <2>1, <3>2, <3>3, MinMax
        <3>5. QED BY <2>1, <2>3, <3>1, <3>3, <3>4 DEF p, q
    <2>4. QED BY <2>2, <2>3
<1>7. /\ erased \in State /\ SameFiles(s, erased) /\ erased.data = s.data
      /\ Blocks(erased) = Blocks(s) \ (previous \cup next)
      /\ \A b \in Blocks(erased) : erased.byLocation[b] = len(b)
      /\ erased.byLength = s.byLength \ {<<len(b), b>> : b \in previous \cup next}
    BY EraseFacts DEF erased, previous, next
<1>8. start \in Byte /\ end - start \in Nat \ {0}
    BY <1>2, <1>5, <1>6 DEF Byte
<1>9. /\ added \in State /\ SameFiles(erased, added) /\ added.data = erased.data
      /\ Blocks(added) = Blocks(erased) \cup {start}
      /\ added.byLocation[start] = end - start
      /\ \A b \in Blocks(erased) \ {start} : added.byLocation[b] = erased.byLocation[b]
      /\ added.byLength = erased.byLength \cup {<<end - start, start>>}
    <2> DEFINE size == end - start
    <2>1. size \in Nat \ {0} /\ start \in Byte /\ erased \in State
        BY <1>7, <1>8
    <2>2. added = InsertBlock(erased, start, size)
        BY DEF added
    <2> HIDE DEF size
    <2>3. /\ added \in State /\ SameFiles(erased, added) /\ added.data = erased.data
          /\ Blocks(added) = Blocks(erased) \cup {start}
          /\ added.byLocation[start] = size
          /\ \A b \in Blocks(erased) \ {start} : added.byLocation[b] = erased.byLocation[b]
          /\ added.byLength = erased.byLength \cup {<<size, start>>}
        BY <2>1, <2>2, InsertFacts
    <2>4. QED BY <2>3 DEF size
<1> DEFINE bytes == [u \in Byte |->
                        IF u \in Bytes(location, length) THEN NoByte ELSE added.data[u]]
<1>10. bytes \in [Byte -> Content] /\ \A u \in Byte \ Bytes(location, length) : bytes[u] = s.data[u]
    <2>1. added.data \in [Byte -> Content]
        BY <1>9 DEF State
    <2>2. QED BY <1>7, <1>9, <2>1 DEF Content
<1>11. r = [added EXCEPT !.data = bytes]
    BY <1>1
<1> HIDE DEF bytes
<1>12. /\ r \in State /\ r.data = bytes /\ r.byLocation = added.byLocation
       /\ r.byLength = added.byLength /\ SameFiles(added, r)
    BY <1>9, <1>10, <1>11 DEF State, SameFiles
<1>13. SameFiles(s, r)
    BY <1>7, <1>9, <1>12 DEF SameFiles
<1>14. /\ Blocks(r) = (Blocks(s) \ (previous \cup next)) \cup {start}
       /\ r.byLocation[start] = end - start
       /\ start \notin Blocks(s) \ (previous \cup next)
       /\ \A b \in Blocks(s) \ (previous \cup next) : r.byLocation[b] = len(b)
    <2>1. start \notin Blocks(s) \ (previous \cup next)
        <3>1. CASE previous = {}
            BY <1>2, <1>4, <1>5, <3>1 DEF previous, next
        <3>2. CASE previous # {}
            BY <1>5, <3>2
        <3>3. QED BY <3>1, <3>2
    <2>2. Blocks(r) = Blocks(added)
        BY <1>12 DEF Blocks
    <2>3. QED BY <1>7, <1>9, <1>12, <2>1, <2>2
<1>15. \A b \in Blocks(s) \ (previous \cup next) : b + len(b) < start \/ end < b
    <2> SUFFICES ASSUME NEW b \in Blocks(s), b \notin previous, b \notin next
                 PROVE  b + len(b) < start \/ end < b
        OBVIOUS
    <2>1. CASE b + len(b) <= location
        <3>1. b + len(b) < location
            BY <1>2, <2>1 DEF previous
        <3>2. CASE previous = {}
            BY <1>5, <3>1, <3>2
        <3>3. CASE previous # {}
            <4>1. start \in Blocks(s) /\ start + len(start) = location
                BY <1>5, <3>3 DEF previous
            <4>2. b < start
                <5>1. b # start
                    BY <1>5, <3>3
                <5>2. ~ (start < b)
                    BY <1>2, <1>3, <3>1, <4>1
                <5>3. QED BY <1>2, <1>5, <5>1, <5>2
            <4>3. QED BY <1>3, <4>1, <4>2
        <3>4. QED BY <3>2, <3>3
    <2>2. CASE location + length <= b
        <3>1. location + length < b
            BY <1>2, <2>2 DEF next
        <3>2. CASE next = {}
            BY <1>6, <3>1, <3>2
        <3>3. CASE next # {}
            <4>1. location + length \in Blocks(s)
                BY <3>3 DEF next
            <4>2. QED BY <1>3, <1>6, <3>1, <3>3, <4>1
        <3>4. QED BY <3>2, <3>3
    <2>3. QED BY <1>4, <2>1, <2>2
<1>16. r.byLength = {<<r.byLocation[b], b>> : b \in Blocks(r)}
    <2>1. r.byLength = ({<<len(b), b>> : b \in Blocks(s)}
                            \ {<<len(b), b>> : b \in previous \cup next})
                       \cup {<<end - start, start>>}
        BY <1>7, <1>9, <1>12 DEF FreeOK
    <2> DEFINE rest == Blocks(s) \ (previous \cup next)
    <2>2. {<<len(b), b>> : b \in Blocks(s)} \ {<<len(b), b>> : b \in previous \cup next}
            = {<<len(b), b>> : b \in rest}
        <3>1. previous \cup next \subseteq Blocks(s)
            BY DEF previous, next
        <3>2. QED BY <3>1, PairsWithout
    <2>3. {<<r.byLocation[b], b>> : b \in Blocks(r)}
            = {<<len(b), b>> : b \in rest} \cup {<<end - start, start>>}
        <3>1. Blocks(r) = rest \cup {start} /\ \A b \in rest : r.byLocation[b] = len(b)
            BY <1>14
        <3> HIDE DEF rest
        <3>2. QED BY <1>14, <3>1
    <2> HIDE DEF rest
    <2>4. QED BY <2>1, <2>2, <2>3
<1>17. FreeOK(r)
    <2>1. \A b \in Blocks(r) : b + r.byLocation[b] <= DataSize
        BY <1>2, <1>5, <1>6, <1>14
    <2>2. ASSUME NEW b \in Blocks(r), NEW c \in Blocks(r), b < c
          PROVE  b + r.byLocation[b] < c
        <3> DEFINE rest == Blocks(s) \ (previous \cup next)
        <3>. /\ b \in Int /\ c \in Int /\ start \in Int /\ end \in Int /\ start < end
             /\ (b \in rest \/ b = start) /\ (c \in rest \/ c = start)
            BY <1>2, <1>5, <1>6, <1>8, <1>14
        <3>1. CASE b = start
            <4>1. c \in Blocks(s) \ (previous \cup next) /\ b + r.byLocation[b] = end
                BY <1>5, <1>6, <1>14, <2>2, <3>1
            <4>2. c \in Blocks(s) /\ len(c) \in Int /\ len(c) > 0
                BY <1>2, <4>1
            <4>3. c + len(c) < start \/ end < c
                BY <1>15, <4>1
            <4>4. QED BY <2>2, <3>1, <4>1, <4>2, <4>3
        <3>2. CASE b # start /\ c = start
            <4>1. b \in Blocks(s) \ (previous \cup next) /\ r.byLocation[b] = len(b)
                BY <1>14, <3>2
            <4>2. b + len(b) < start \/ end < b
                BY <1>15, <4>1
            <4>3. QED BY <2>2, <3>2, <4>1, <4>2
        <3>3. CASE b # start /\ c # start
            <4>1. /\ b \in Blocks(s) /\ c \in Blocks(s) /\ r.byLocation[b] = len(b)
                BY <1>14, <3>3
            <4>2. QED BY <1>3, <2>2, <4>1
        <3>4. QED BY <3>1, <3>2, <3>3
    <2>3. QED BY <1>16, <2>1, <2>2 DEF FreeOK
<1>18. FreeBytes(r) = FreeBytes(s) \cup Bytes(location, length)
    <2>1. ASSUME NEW u \in Byte
          PROVE  InFree(r, start, u) <=> start <= u /\ u < end
        BY <1>5, <1>6, <1>14 DEF InFree, Byte
    <2>2. ASSUME NEW u \in FreeBytes(r)
          PROVE  u \in FreeBytes(s) \cup Bytes(location, length)
        <3>1. PICK b \in Blocks(r) : InFree(r, b, u)
            BY DEF FreeBytes
        <3>2. u \in Byte /\ u \in Int
            BY DEF FreeBytes, Byte
        <3>3. CASE b # start
            BY <1>14, <3>1, <3>2, <3>3 DEF FreeBytes, InFree
        <3>4. CASE b = start
            <4>1. start <= u /\ u < end
                BY <2>1, <3>1, <3>2, <3>4
            <4>2. CASE u < location
                <5>1. previous = {start} /\ start \in Blocks(s) /\ start + len(start) = location
                    <6>1. start # location
                        BY <1>2, <1>5, <3>2, <4>1, <4>2
                    <6>2. previous = {start}
                        BY <1>5, <6>1
                    <6>3. start \in previous
                        BY <6>2
                    <6>4. QED BY <6>2, <6>3 DEF previous
                <5>2. InFree(s, start, u)
                    BY <4>1, <4>2, <5>1 DEF InFree
                <5>3. QED BY <3>2, <5>1, <5>2 DEF FreeBytes
            <4>3. CASE location + length <= u
                <5>1. /\ location + length \in Blocks(s)
                      /\ end = location + length + len(location + length)
                    BY <1>2, <1>6, <3>2, <4>1, <4>3 DEF next
                <5>2. InFree(s, location + length, u)
                    BY <4>1, <4>3, <5>1 DEF InFree
                <5>3. QED BY <3>2, <5>1, <5>2 DEF FreeBytes
            <4>4. CASE location <= u /\ u < location + length
                BY <1>2, <3>2, <4>4 DEF Bytes
            <4>5. QED BY <1>2, <3>2, <4>2, <4>3, <4>4
        <3>5. QED BY <3>3, <3>4
    <2>3. ASSUME NEW u \in Bytes(location, length)
          PROVE  u \in FreeBytes(r)
        <3>1. u \in Int /\ location <= u /\ u < location + length
            BY <1>2 DEF Bytes
        <3>2. u \in Byte /\ start <= u /\ u < end
            BY <1>2, <1>5, <1>6, <3>1 DEF Byte
        <3>3. QED BY <1>14, <2>1, <3>2 DEF FreeBytes
    <2>4. ASSUME NEW u \in FreeBytes(s)
          PROVE  u \in FreeBytes(r)
        <3>1. PICK b \in Blocks(s) : InFree(s, b, u)
            BY DEF FreeBytes
        <3>2. u \in Byte /\ u \in Int
            BY DEF FreeBytes, Byte
        <3>3. CASE b \notin previous \cup next
            <4>1. b \in Blocks(r) /\ r.byLocation[b] = len(b)
                BY <1>14, <3>3
            <4>2. QED BY <3>1, <3>2, <4>1 DEF FreeBytes, InFree
        <3>4. CASE b \in previous \cup next
            <4>1. start <= u /\ u < end
                <5>1. CASE b \in previous
                    <6>1. b = start /\ b + len(b) = location
                        BY <1>5, <5>1 DEF previous
                    <6>2. b <= u /\ u < location
                        BY <3>1, <6>1 DEF InFree
                    <6>3. QED BY <1>2, <1>6, <3>2, <6>1, <6>2
                <5>2. CASE b \in next
                    <6>1. b = location + length /\ end = b + len(b)
                        BY <1>6, <5>2
                    <6>2. b <= u /\ u < end
                        BY <3>1, <6>1 DEF InFree
                    <6>3. QED BY <1>2, <1>5, <3>2, <6>1, <6>2
                <5>3. QED BY <3>4, <5>1, <5>2
            <4>2. QED BY <1>14, <2>1, <3>2, <4>1 DEF FreeBytes
        <3>5. QED BY <3>3, <3>4
    <2>5. QED BY <2>2, <2>3, <2>4
<1>19. QED BY <1>10, <1>12, <1>13, <1>17, <1>18 DEF r

\* useFreeSpace takes the first bytes of a free block.
LEMMA UseFreeFacts ==
    ASSUME NEW s \in State, FreeOK(s), NEW location \in Blocks(s), NEW length \in Nat \ {0},
           length <= s.byLocation[location]
    PROVE  LET r == UseFreeSpace(s, location, length)
           IN  /\ r \in State /\ SameFiles(s, r) /\ FreeOK(r)
               /\ Bytes(location, length) \subseteq FreeBytes(s)
               /\ FreeBytes(r) = FreeBytes(s) \ Bytes(location, length)
               /\ \A u \in Byte \ FreeBytes(s) : r.data[u] = s.data[u]
               /\ location + length <= DataSize
<1> DEFINE len(b) == s.byLocation[b]
           rest   == len(location) - length
           erased == EraseBlocks(s, {location})
           r      == UseFreeSpace(s, location, length)
<1>1. /\ Blocks(s) \subseteq Byte /\ length \in Int /\ length > 0
      /\ \A b \in Blocks(s) : b \in Int /\ len(b) \in Int /\ len(b) > 0 /\ b >= 0
                                /\ b + len(b) <= DataSize
    <2>1. Blocks(s) \subseteq Byte /\ \A b \in Blocks(s) : len(b) \in Nat \ {0}
        BY BlockTypes
    <2>2. \A u \in Byte : u \in Int /\ 0 <= u
        BY DEF Byte
    <2>3. \A b \in Blocks(s) : b + len(b) <= DataSize
        BY DEF FreeOK
    <2>4. QED BY <2>1, <2>2, <2>3
<1>2. \A b, c \in Blocks(s) : b < c => b + len(b) < c
    BY DEF FreeOK
<1>3. r = IF rest = 0 THEN erased ELSE AddFreeBlock(erased, location + length, rest)
    BY DEF UseFreeSpace
<1>4. /\ erased \in State /\ SameFiles(s, erased) /\ erased.data = s.data
      /\ Blocks(erased) = Blocks(s) \ {location}
      /\ \A b \in Blocks(erased) : erased.byLocation[b] = len(b)
      /\ erased.byLength = s.byLength \ {<<len(b), b>> : b \in {location}}
    BY EraseFacts
<1> HIDE DEF erased, r
<1>5. FreeOK(erased)
    <2>1. erased.byLength = {<<len(b), b>> : b \in Blocks(s) \ {location}}
        <3>1. s.byLength = {<<len(b), b>> : b \in Blocks(s)}
            BY DEF FreeOK
        <3>2. QED BY <1>4, <3>1, PairsWithout
    <2>2. erased.byLength = {<<erased.byLocation[b], b>> : b \in Blocks(erased)}
        BY <1>4, <2>1
    <2>3. QED BY <1>1, <1>2, <1>4, <2>2 DEF FreeOK
<1>6. \A u \in Byte : u \in FreeBytes(erased) <=>
                        u \in FreeBytes(s) /\ ~InFree(s, location, u)
    <2> SUFFICES ASSUME NEW u \in Byte
                 PROVE  u \in FreeBytes(erased) <=>
                            u \in FreeBytes(s) /\ ~InFree(s, location, u)
        OBVIOUS
    <2>1. u \in Int
        BY DEF Byte
    <2>2. \A b \in Blocks(erased) : InFree(erased, b, u) <=> InFree(s, b, u)
        BY <1>4 DEF InFree
    <2>3. \A b \in Blocks(s) \ {location} : InFree(s, b, u) => ~InFree(s, location, u)
        <3> SUFFICES ASSUME NEW b \in Blocks(s), b # location, InFree(s, b, u),
                            InFree(s, location, u)
                     PROVE  FALSE
            OBVIOUS
        <3>1. b + len(b) < location \/ location + len(location) < b
            BY <1>1, <1>2
        <3>2. QED BY <1>1, <2>1, <3>1 DEF InFree
    <2>4. QED BY <1>4, <2>2, <2>3 DEF FreeBytes
<1>7. \A u \in Byte : InFree(s, location, u) <=>
                        location <= u /\ u < location + len(location)
    BY DEF InFree
<1>8. \A u : u \in Bytes(location, length) <=>
                    u \in Int /\ location <= u /\ u < location + length
    BY <1>1 DEF Bytes
<1>9. Bytes(location, length) \subseteq FreeBytes(s) /\ location + length <= DataSize
    <2>1. location + length <= DataSize
        BY <1>1
    <2>2. \A u \in Bytes(location, length) : u \in Byte /\ InFree(s, location, u)
        BY <1>1, <1>8, <2>1 DEF InFree, Byte
    <2>3. QED BY <2>1, <2>2 DEF FreeBytes
<1>10. CASE rest = 0
    <2>1. r = erased
        BY <1>3, <1>10
    <2>2. FreeBytes(r) = FreeBytes(s) \ Bytes(location, length)
        <3>1. len(location) = length
            BY <1>1, <1>10
        <3>2. \A u \in Byte : u \in Int
            BY DEF Byte
        <3>3. \A u \in Byte : InFree(s, location, u) <=> u \in Bytes(location, length)
            BY <1>7, <1>8, <3>1, <3>2
        <3>4. FreeBytes(r) \subseteq Byte /\ FreeBytes(s) \subseteq Byte
            BY DEF FreeBytes
        <3>5. QED BY <1>6, <2>1, <3>3, <3>4
    <2>3. QED BY <1>4, <1>5, <1>9, <2>1, <2>2 DEF r
<1>11. CASE rest # 0
    <2> DEFINE after == location + length
    <2>1. r = AddFreeBlock(erased, after, rest)
        BY <1>3, <1>11
    <2>2. /\ rest \in Nat \ {0} /\ after \in Byte /\ after + rest <= DataSize
          /\ after + rest = location + len(location) /\ after \in Int
        BY <1>1, <1>11 DEF Byte
    <2> HIDE DEF after, rest
    <2>3. \A u : u \in Bytes(after, rest) <=> u \in Int /\ after <= u /\ u < after + rest
        BY <2>2 DEF Bytes
    <2>4. \A u \in Bytes(after, rest) : u \in Byte /\ InFree(s, location, u)
        <3>1. location <= after
            BY <1>1 DEF after
        <3>2. QED BY <1>1, <2>2, <2>3, <3>1 DEF InFree, Byte
    <2>5. \A u \in Bytes(after, rest) : u \notin FreeBytes(erased)
        BY <1>6, <2>4
    <2>6. /\ r \in State /\ SameFiles(erased, r) /\ FreeOK(r)
          /\ FreeBytes(r) = FreeBytes(erased) \cup Bytes(after, rest)
          /\ \A u \in Byte \ Bytes(after, rest) : r.data[u] = erased.data[u]
        BY <1>4, <1>5, <2>1, <2>2, <2>5, AddFreeFacts
    <2>7. FreeBytes(r) = FreeBytes(s) \ Bytes(location, length)
        <3>1. \A u \in Byte : u \in Int
            BY DEF Byte
        <3>2. \A u \in Byte : InFree(s, location, u) <=>
                    u \in Bytes(location, length) \/ u \in Bytes(after, rest)
            BY <1>1, <1>7, <1>8, <2>2, <2>3, <3>1 DEF after
        <3>3. \A u \in Byte : ~(u \in Bytes(location, length) /\ u \in Bytes(after, rest))
            BY <1>1, <1>8, <2>3, <3>1 DEF after
        <3>4. FreeBytes(r) \subseteq Byte /\ FreeBytes(s) \subseteq Byte
            BY DEF FreeBytes
        <3>5. \A u \in Bytes(after, rest) : u \in FreeBytes(s)
            BY <2>4 DEF FreeBytes
        <3>6. QED BY <1>6, <2>6, <3>2, <3>3, <3>4, <3>5
    <2>8. \A u \in Byte \ FreeBytes(s) : r.data[u] = s.data[u]
        BY <1>4, <2>4, <2>6 DEF FreeBytes
    <2>9. QED BY <1>4, <1>9, <2>6, <2>7, <2>8 DEF r, SameFiles
<1>12. QED BY <1>10, <1>11

\* findFreeBlock returns a free block that is long enough.
LEMMA BestFitFacts ==
    ASSUME NEW s \in State, FreeOK(s), NEW size \in Nat, NEW location \in BestFit(s, size)
    PROVE  location \in Blocks(s) /\ s.byLocation[location] >= size
<1> DEFINE lengths == {p[1] : p \in {q \in s.byLength : q[1] >= size}}
<1>1. PICK p \in s.byLength : p[2] = location /\ lengths # {} /\ p[1] = Min(lengths)
    BY DEF BestFit
<1>2. lengths \in SUBSET Nat
    BY DEF State
<1>3. PICK least \in lengths : \A l \in lengths : least <= l
    BY <1>1, <1>2, LeastElement
<1>4. Min(lengths) \in lengths
    BY <1>3 DEF Min
<1>5. p[1] >= size
    BY <1>1, <1>4
<1>6. PICK b \in Blocks(s) : p = <<s.byLocation[b], b>>
    BY DEF FreeOK
<1>7. QED BY <1>1, <1>5, <1>6
-----------------------------------------------------------------------------
(* The invariant, of a record *)

InFile(s, f, u) ==
    s.files[f].location <= u /\ u < s.files[f].location + s.files[f].length

\* Blocks of files lie in the data file and do not overlap; the others are dummies.
FilesOK(s) ==
    /\ \A f \in HasData(s) : /\ s.files[f].location + s.files[f].length <= DataSize
                             /\ s.files[f].size <= s.files[f].length
    /\ \A f, g \in HasData(s) :
            f # g => \/ s.files[f].location + s.files[f].length <= s.files[g].location
                     \/ s.files[g].location + s.files[g].length <= s.files[f].location
    /\ \A f \in DOMAIN s.files \ HasData(s) :
            s.files[f].length = BLOCK_LENGTH_INVALID /\ s.files[f].index = 0
                /\ s.files[f].size = 0

\* What is not free is in a file.
Exact(s) == \A u \in Byte : u \in FreeBytes(s) <=> \A f \in HasData(s) : ~InFile(s, f, u)

\* The index has the entry of every file but perhaps those of E, which may have
\* no place in it; the rest of it is holes.
IndexBut(s, E) ==
    /\ \A f \in HasData(s) \ E : /\ s.files[f].index \in DOMAIN s.index
                                 /\ s.index[s.files[f].index] = Entry(s, f)
    /\ \A f \in HasData(s) : s.files[f].index = 0 \/ s.files[f].index \in DOMAIN s.index
    /\ \A f, g \in HasData(s) : s.files[f].index = s.files[g].index => f = g
    /\ ToSet(s.holes) = {i \in DOMAIN s.index : \A f \in HasData(s) : s.files[f].index # i}
    /\ IsInjective(s.holes)
    /\ \A i \in ToSet(s.holes) : s.index[i] = NoEntry

KeepsContents(s) ==
    \A f \in HasData(s), o \in Nat :
        o < s.files[f].size => s.data[s.files[f].location + o] = <<f, o>>

Good(s) ==
    /\ s \in State
    /\ FreeOK(s) /\ FilesOK(s) /\ Exact(s)
    /\ IndexBut(s, {})
    /\ KeepsContents(s)

\* Every entry of w that is taken for a file is one of idx.
Cleared(w, idx) == \A i \in Valid(w) : i \in Valid(idx) /\ w[i] = idx[i]

SameSpace(s, r) ==
    r.byLocation = s.byLocation /\ r.byLength = s.byLength /\ r.data = s.data

LEMMA FileTypes ==
    ASSUME NEW s \in State
    PROVE  /\ DOMAIN s.files \subseteq Files
           /\ \A f \in DOMAIN s.files : s.files[f] \in FileBlock
           /\ s.files = [f \in DOMAIN s.files |-> s.files[f]]
           /\ HasData(s) \subseteq DOMAIN s.files
<1>1. s.files \in FileMap
    BY DEF State
<1>2. QED BY <1>1, FileMaps DEF HasData

\* The fields of the block of a file.
LEMMA BlockFields ==
    ASSUME NEW s \in State, NEW f \in DOMAIN s.files
    PROVE  /\ s.files[f].location \in Int /\ s.files[f].location >= 0
           /\ s.files[f].location \in Byte
           /\ s.files[f].length \in Int /\ s.files[f].size \in Nat
           /\ s.files[f].index \in Nat /\ s.files[f].time \in Nat /\ s.files[f].locks \in Nat
           /\ f \in HasData(s) <=> s.files[f].length > 0
<1>1. s.files[f] \in FileBlock
    BY FileTypes
<1>2. QED BY <1>1 DEF FileBlock, Byte, HasData

\* What is true of the free blocks of s is true of those of a record with the same.
LEMMA SameFreeSpace ==
    ASSUME NEW s, NEW r, r.byLocation = s.byLocation, r.byLength = s.byLength
    PROVE  /\ FreeOK(r) <=> FreeOK(s)
           /\ FreeBytes(r) = FreeBytes(s)
           /\ Blocks(r) = Blocks(s)
    BY DEF FreeOK, FreeBytes, Blocks, InFree

\* A block put in the place of another.
LEMMA PutFile ==
    ASSUME NEW m \in FileMap, NEW f \in Files, NEW block \in FileBlock
    PROVE  /\ [m EXCEPT ![f] = block] \in FileMap
           /\ [g \in DOMAIN m \cup {f} |-> IF g = f THEN block ELSE m[g]] \in FileMap
<1>1. DOMAIN m \subseteq Files /\ m \in [DOMAIN m -> FileBlock]
    BY FileMaps
<1> DEFINE a == [m EXCEPT ![f] = block]
           b == [g \in DOMAIN m \cup {f} |-> IF g = f THEN block ELSE m[g]]
<1>2. DOMAIN a \subseteq Files /\ a \in [DOMAIN a -> FileBlock]
    BY <1>1
<1>3. DOMAIN b \subseteq Files /\ b \in [DOMAIN b -> FileBlock]
    BY <1>1
<1> HIDE DEF a, b
<1>4. a \in FileMap /\ b \in FileMap
    BY <1>2, <1>3, FileMaps
<1>5. QED BY <1>4 DEF a, b
-----------------------------------------------------------------------------
(* The index *)

\* What sync changes, for a file with data.
Synced(s, f, remove, r) ==
    LET own  == s.files[f].index
        slot == r.files[f].index
    IN  /\ r \in State /\ SameSpace(s, r)
        /\ DOMAIN r.files = DOMAIN s.files
        /\ \A g \in DOMAIN s.files \ {f} : r.files[g] = s.files[g]
        /\ r.files[f] = [s.files[f] EXCEPT !.index = slot]
        /\ slot \in Nat \ {0}
        /\ \A i : i \in DOMAIN r.index <=> i \in DOMAIN s.index \/ i = slot
        /\ r.index[slot] = IF remove THEN NoEntry ELSE Entry(s, f)
        /\ \A i \in DOMAIN s.index \ {slot} : r.index[i] = s.index[i]
        /\ r.written = Append(s.written, r.index)
        /\ own # 0 => slot = own /\ r.holes = IF remove THEN Append(s.holes, own) ELSE s.holes
        /\ own = 0 /\ s.holes # <<>> /\ ~remove =>
                slot = Head(s.holes) /\ r.holes = Tail(s.holes)
        /\ own = 0 /\ s.holes = <<>> /\ ~remove =>
                slot = Len(s.index) + 1 /\ r.holes = s.holes

LEMMA SyncFacts ==
    ASSUME NEW s \in State, NEW f \in HasData(s), NEW remove \in BOOLEAN,
           IndexBut(s, {f})
    PROVE  Synced(s, f, remove, Sync(s, f, remove))
<1> DEFINE own   == s.files[f].index
           place == IF own # 0 THEN own
                    ELSE IF s.holes # <<>> THEN Head(s.holes) ELSE Len(s.index) + 1
           rest  == IF own = 0 /\ s.holes # <<>> THEN Tail(s.holes) ELSE s.holes
           holes == IF remove THEN Append(rest, place) ELSE rest
           entry == IF remove THEN NoEntry ELSE Entry(s, f)
           now   == [i \in DOMAIN s.index \cup {place} |->
                        IF i = place THEN entry ELSE s.index[i]]
           block == [s.files[f] EXCEPT !.index = place]
           files == [s.files EXCEPT ![f] = block]
           r     == Sync(s, f, remove)
<1>1. f \in DOMAIN s.files /\ f \in Files /\ s.files[f] \in FileBlock /\ s.files[f].length > 0
    BY FileTypes DEF HasData
<1>2. /\ s.index \in Seq(IndexEntry) /\ s.holes \in Seq(Nat \ {0})
      /\ s.written \in Seq(Seq(IndexEntry))
    BY DEF State
<1>3. own = 0 \/ own \in DOMAIN s.index
    BY DEF IndexBut
<1>4. ToSet(s.holes) \subseteq DOMAIN s.index
    BY DEF IndexBut
<1>5. s.holes # <<>> => Head(s.holes) \in DOMAIN s.index /\ Tail(s.holes) \in Seq(Nat \ {0})
    <2> SUFFICES ASSUME s.holes # <<>>
                 PROVE  Head(s.holes) \in DOMAIN s.index /\ Tail(s.holes) \in Seq(Nat \ {0})
        OBVIOUS
    <2>1. Head(s.holes) = s.holes[1] /\ 1 \in DOMAIN s.holes /\ Tail(s.holes) \in Seq(Nat \ {0})
        BY <1>2
    <2>2. Head(s.holes) \in ToSet(s.holes)
        BY <2>1 DEF ToSet
    <2>3. QED BY <1>4, <2>1, <2>2
<1>6. DOMAIN s.index = 1 .. Len(s.index) /\ Len(s.index) \in Nat
    BY <1>2
<1>7. /\ place \in DOMAIN s.index \/ place = Len(s.index) + 1
      /\ place \in Nat \ {0}
    BY <1>3, <1>5, <1>6
<1>8. holes \in Seq(Nat \ {0})
    BY <1>2, <1>5, <1>7
<1>9. entry \in IndexEntry
    <2>1. Entry(s, f) \in [file : Files, location : Byte, length : Nat \ {0}, size : Nat]
        BY <1>1 DEF Entry, FileBlock
    <2>2. QED BY <2>1 DEF IndexEntry
<1>10. block \in FileBlock
    BY <1>1, <1>7 DEF FileBlock
<1>11. files \in FileMap
    <2>1. s.files \in FileMap
        BY DEF State
    <2>2. QED BY <1>1, <1>10, <2>1, PutFile
<1>12. r = [s EXCEPT !.files = files, !.holes = holes, !.index = now,
                     !.written = Append(s.written, now)]
    BY <1>1 DEF Sync, BLOCK_LENGTH_INVALID
<1> HIDE DEF place, entry
<1>13. now \in Seq(IndexEntry)
    <2>1. DOMAIN s.index \cup {place} = 1 .. Len(s.index)
            \/ DOMAIN s.index \cup {place} = 1 .. Len(s.index) + 1
        BY <1>6, <1>7
    <2>2. \A i \in DOMAIN s.index : s.index[i] \in IndexEntry
        BY <1>2
    <2>3. now \in [DOMAIN s.index \cup {place} -> IndexEntry]
        BY <1>9, <2>2
    <2> HIDE DEF now
    <2>4. CASE DOMAIN s.index \cup {place} = 1 .. Len(s.index)
        <3>1. now \in [1 .. Len(s.index) -> IndexEntry]
            BY <2>3, <2>4
        <3>2. QED BY <1>6, <3>1
    <2>5. CASE DOMAIN s.index \cup {place} = 1 .. Len(s.index) + 1
        <3>1. now \in [1 .. Len(s.index) + 1 -> IndexEntry] /\ Len(s.index) + 1 \in Nat
            BY <1>6, <2>3, <2>5
        <3>2. QED BY <3>1
    <2>6. QED BY <2>1, <2>4, <2>5
<1>14. /\ DOMAIN now = DOMAIN s.index \cup {place}
       /\ now[place] = entry
       /\ \A i \in DOMAIN s.index \ {place} : now[i] = s.index[i]
    OBVIOUS
<1>15. /\ DOMAIN files = DOMAIN s.files /\ files[f] = block
       /\ \A g \in DOMAIN s.files \ {f} : files[g] = s.files[g]
       /\ block.index = place
    <2>1. block.index = place
        BY <1>1 DEF FileBlock
    <2>2. QED BY <1>1, <2>1, FileTypes
<1>16. Append(s.written, now) \in Seq(Seq(IndexEntry))
    BY <1>2, <1>13
<1> HIDE DEF r, files, now, holes, block
<1>17. /\ r \in State /\ r.files = files /\ r.holes = holes /\ r.index = now
       /\ r.written = Append(s.written, now)
       /\ r.byLocation = s.byLocation /\ r.byLength = s.byLength /\ r.data = s.data
    BY <1>8, <1>11, <1>12, <1>13, <1>16 DEF State
<1>18. r.files[f].index = place
    BY <1>15, <1>17
<1>19. /\ own # 0 => place = own /\ holes = IF remove THEN Append(s.holes, own) ELSE s.holes
       /\ own = 0 /\ s.holes # <<>> /\ ~remove =>
            place = Head(s.holes) /\ holes = Tail(s.holes)
       /\ own = 0 /\ s.holes = <<>> /\ ~remove =>
            place = Len(s.index) + 1 /\ holes = s.holes
    BY DEF place, holes
<1>20. r.files[f] = [s.files[f] EXCEPT !.index = place]
    BY <1>15, <1>17 DEF block
<1>21. r.index[place] = IF remove THEN NoEntry ELSE Entry(s, f)
    BY <1>14, <1>17 DEF entry
<1>22. QED BY <1>7, <1>14, <1>15, <1>17, <1>18, <1>19, <1>20, <1>21 DEF SameSpace, Synced, r

\* Sequences without repetitions.
LEMMA InjectiveTail ==
    ASSUME NEW S, NEW h \in Seq(S), h # <<>>, IsInjective(h)
    PROVE  IsInjective(Tail(h)) /\ ToSet(Tail(h)) = ToSet(h) \ {Head(h)}
                /\ Head(h) \in ToSet(h)
<1>1. /\ Len(h) \in Nat /\ Len(h) >= 1 /\ DOMAIN h = 1 .. Len(h) /\ Head(h) = h[1]
      /\ DOMAIN Tail(h) = 1 .. Len(h) - 1
      /\ \A i \in 1 .. Len(h) - 1 : Tail(h)[i] = h[i + 1]
    BY EmptySeq
<1> DEFINE t == Tail(h)
<1>2. \A i, j \in DOMAIN h : h[i] = h[j] => i = j
    BY DEF IsInjective
<1>3. \A i \in DOMAIN t : i + 1 \in DOMAIN h /\ t[i] = h[i + 1] /\ i \in Int /\ i + 1 # 1
    BY <1>1
<1>4. \A i \in DOMAIN h : i = 1 \/ (i - 1 \in DOMAIN t /\ t[i - 1] = h[i])
    <2> SUFFICES ASSUME NEW i \in DOMAIN h, i # 1
                 PROVE  i - 1 \in DOMAIN t /\ t[i - 1] = h[i]
        OBVIOUS
    <2>1. i - 1 \in 1 .. Len(h) - 1 /\ (i - 1) + 1 = i
        BY <1>1
    <2>2. QED BY <1>1, <2>1
<1>5. 1 \in DOMAIN h /\ Head(h) = h[1]
    BY <1>1
<1> HIDE DEF t
<1>6. \A i, j \in DOMAIN t : t[i] = t[j] => i = j
    <2> SUFFICES ASSUME NEW i \in DOMAIN t, NEW j \in DOMAIN t, t[i] = t[j]
                 PROVE  i = j
        OBVIOUS
    <2>1. i + 1 = j + 1
        BY <1>2, <1>3
    <2>2. i \in Int /\ j \in Int
        BY <1>3
    <2>3. QED BY <2>1, <2>2
<1>7. ToSet(t) = ToSet(h) \ {Head(h)}
    <2>1. ASSUME NEW e \in ToSet(t) PROVE e \in ToSet(h) \ {Head(h)}
        <3>1. PICK i \in DOMAIN t : e = t[i]
            BY DEF ToSet
        <3>2. i + 1 \in DOMAIN h /\ e = h[i + 1] /\ i + 1 # 1
            BY <1>3, <3>1
        <3>3. e # h[1]
            BY <1>2, <1>5, <3>2
        <3>4. QED BY <1>5, <3>2, <3>3 DEF ToSet
    <2>2. ASSUME NEW e \in ToSet(h) \ {Head(h)} PROVE e \in ToSet(t)
        <3>1. PICK i \in DOMAIN h : e = h[i]
            BY DEF ToSet
        <3>2. i # 1
            BY <1>5, <3>1
        <3>3. QED BY <1>4, <3>1, <3>2 DEF ToSet
    <2>3. QED BY <2>1, <2>2
<1>8. Head(h) \in ToSet(h)
    BY <1>5 DEF ToSet
<1>9. QED BY <1>6, <1>7, <1>8 DEF IsInjective, t

LEMMA InjectiveAppend ==
    ASSUME NEW S, NEW h \in Seq(S), NEW e \in S, IsInjective(h), e \notin ToSet(h)
    PROVE  IsInjective(Append(h, e)) /\ ToSet(Append(h, e)) = ToSet(h) \cup {e}
<1> DEFINE t == Append(h, e)
           n == Len(h) + 1
<1>1. /\ DOMAIN t = 1 .. n /\ t[n] = e /\ Len(h) \in Nat
      /\ DOMAIN h = 1 .. Len(h)
      /\ \A i \in 1 .. Len(h) : t[i] = h[i]
    OBVIOUS
<1>2. \A i, j \in DOMAIN h : h[i] = h[j] => i = j
    BY DEF IsInjective
<1>3. \A i \in DOMAIN h : h[i] # e /\ t[i] = h[i] /\ i \in DOMAIN t
    BY <1>1 DEF ToSet
<1>4. n \in DOMAIN t /\ \A i \in DOMAIN t : i = n \/ i \in DOMAIN h
    BY <1>1
<1> HIDE DEF t, n
<1>5. \A i, j \in DOMAIN t : t[i] = t[j] => i = j
    BY <1>1, <1>2, <1>3, <1>4
<1>6. ToSet(t) = ToSet(h) \cup {e}
    BY <1>1, <1>3, <1>4 DEF ToSet
<1>7. QED BY <1>5, <1>6 DEF IsInjective, t

\* A file's data do not depend on its place in the index.
LEMMA SameData ==
    ASSUME NEW s, NEW r, DOMAIN r.files = DOMAIN s.files,
           \A f \in DOMAIN s.files : r.files[f].length = s.files[f].length
    PROVE  HasData(r) = HasData(s)
    BY DEF HasData

\* Saving a file's entry makes the index whole.
LEMMA SavedFacts ==
    ASSUME NEW s \in State, NEW f \in HasData(s), IndexBut(s, {f})
    PROVE  LET r == Sync(s, f, FALSE)
           IN  /\ r \in State /\ SameSpace(s, r) /\ IndexBut(r, {})
               /\ DOMAIN r.files = DOMAIN s.files
               /\ \A g \in DOMAIN s.files \ {f} : r.files[g] = s.files[g]
               /\ r.files[f] = [s.files[f] EXCEPT !.index = r.files[f].index]
               /\ r.written = Append(s.written, r.index)
               /\ HasData(r) = HasData(s)
<1> DEFINE r    == Sync(s, f, FALSE)
           own  == s.files[f].index
           slot == r.files[f].index
<1>1. f \in DOMAIN s.files /\ s.files[f] \in FileBlock
    BY FileTypes DEF HasData
<1>2. /\ r \in State /\ SameSpace(s, r)
      /\ DOMAIN r.files = DOMAIN s.files
      /\ \A g \in DOMAIN s.files \ {f} : r.files[g] = s.files[g]
      /\ r.files[f] = [s.files[f] EXCEPT !.index = slot]
      /\ slot \in Nat \ {0}
      /\ \A i : i \in DOMAIN r.index <=> i \in DOMAIN s.index \/ i = slot
      /\ r.index[slot] = Entry(s, f)
      /\ \A i \in DOMAIN s.index \ {slot} : r.index[i] = s.index[i]
      /\ r.written = Append(s.written, r.index)
      /\ own # 0 => slot = own /\ r.holes = s.holes
      /\ own = 0 /\ s.holes # <<>> => slot = Head(s.holes) /\ r.holes = Tail(s.holes)
      /\ own = 0 /\ s.holes = <<>> => slot = Len(s.index) + 1 /\ r.holes = s.holes
    <2>1. Synced(s, f, FALSE, r)
        BY SyncFacts
    <2> HIDE DEF r
    <2>2. QED BY <2>1 DEF Synced
<1> HIDE DEF r
<1>3. /\ r.files[f].length = s.files[f].length /\ r.files[f].location = s.files[f].location
      /\ r.files[f].size = s.files[f].size
    <2> HIDE DEF slot
    <2>1. QED BY <1>1, <1>2 DEF FileBlock
<1>4. HasData(r) = HasData(s)
    BY <1>2, <1>3, SameData
<1>5. \A g \in HasData(s) : Entry(r, g) = Entry(s, g) /\ g \in DOMAIN s.files
    BY <1>2, <1>3 DEF Entry, HasData
<1> DEFINE place(g) == s.files[g].index
           holes == ToSet(s.holes)
<1>6. /\ \A g \in HasData(s) :
            g # f => place(g) \in DOMAIN s.index /\ s.index[place(g)] = Entry(s, g)
      /\ \A g, h \in HasData(s) : place(g) = place(h) => g = h
      /\ holes = {i \in DOMAIN s.index : \A g \in HasData(s) : place(g) # i}
      /\ IsInjective(s.holes)
      /\ \A i \in holes : s.index[i] = NoEntry
      /\ own = 0 \/ own \in DOMAIN s.index
    BY DEF IndexBut
<1>7. DOMAIN s.index = 1 .. Len(s.index) /\ Len(s.index) \in Nat /\ s.holes \in Seq(Nat \ {0})
    BY DEF State
<1>8. slot \notin {place(g) : g \in HasData(s) \ {f}}
    <2>1. CASE own # 0
        BY <1>2, <1>6, <2>1
    <2>2. CASE own = 0 /\ s.holes # <<>>
        <3>1. slot \in holes
            <4>1. Head(s.holes) \in ToSet(s.holes)
                BY <1>6, <1>7, <2>2, InjectiveTail
            <4>2. QED BY <1>2, <2>2, <4>1
        <3>2. QED BY <1>6, <3>1
    <2>3. CASE own = 0 /\ s.holes = <<>>
        <3>1. slot \notin DOMAIN s.index
            BY <1>2, <1>7, <2>3
        <3>2. QED BY <1>6, <3>1
    <2>4. QED BY <2>1, <2>2, <2>3
<1>9. ToSet(r.holes) = holes \ {slot} /\ IsInjective(r.holes)
    <2>1. CASE own # 0
        <3>1. slot \notin holes
            BY <1>2, <1>6, <2>1
        <3>2. QED BY <1>2, <1>6, <2>1, <3>1
    <2>2. CASE own = 0 /\ s.holes # <<>>
        BY <1>2, <1>6, <1>7, <2>2, InjectiveTail
    <2>3. CASE own = 0 /\ s.holes = <<>>
        <3>1. slot \notin DOMAIN s.index
            BY <1>2, <1>7, <2>3
        <3>2. QED BY <1>2, <1>6, <2>3, <3>1
    <2>4. QED BY <2>1, <2>2, <2>3
<1>10. own = 0 \/ own = slot
    BY <1>2
<1>11. IndexBut(r, {})
    <2> DEFINE new(g) == r.files[g].index
    <2>1. new(f) = slot /\ \A g \in HasData(s) \ {f} : new(g) = place(g)
        BY <1>2, <1>5
    <2> HIDE DEF slot, holes
    <2>2. \A g \in HasData(r) : new(g) \in DOMAIN r.index /\ r.index[new(g)] = Entry(r, g)
        <3>1. ASSUME NEW g \in HasData(s), g # f
              PROVE  new(g) \in DOMAIN r.index /\ r.index[new(g)] = Entry(r, g)
            BY <1>2, <1>5, <1>6, <1>8, <2>1, <3>1
        <3>2. new(f) \in DOMAIN r.index /\ r.index[new(f)] = Entry(r, f)
            BY <1>2, <1>5, <2>1
        <3>3. QED BY <1>4, <3>1, <3>2
    <2>3. \A g, h \in HasData(r) : new(g) = new(h) => g = h
        BY <1>4, <1>6, <1>8, <2>1
    <2>4. ToSet(r.holes) = {i \in DOMAIN r.index : \A g \in HasData(r) : new(g) # i}
        <3>1. ASSUME NEW i \in DOMAIN r.index, \A g \in HasData(r) : new(g) # i
              PROVE  i \in ToSet(r.holes)
            <4>1. i # slot /\ i \in DOMAIN s.index
                BY <1>2, <1>4, <2>1, <3>1
            <4>2. \A g \in HasData(s) : place(g) # i
                <5>1. place(f) # i
                    BY <1>7, <1>10, <4>1
                <5>2. QED BY <1>4, <2>1, <3>1, <5>1
            <4>3. QED BY <1>6, <1>9, <4>1, <4>2 DEF holes
        <3>2. ASSUME NEW i \in ToSet(r.holes)
              PROVE  i \in DOMAIN r.index /\ \A g \in HasData(r) : new(g) # i
            <4>1. i \in DOMAIN s.index /\ i # slot /\ \A g \in HasData(s) : place(g) # i
                BY <1>6, <1>9 DEF holes
            <4>2. QED BY <1>2, <1>4, <2>1, <4>1
        <3>3. QED BY <3>1, <3>2
    <2>5. \A i \in ToSet(r.holes) : r.index[i] = NoEntry
        <3>1. \A i \in holes : i \in DOMAIN s.index /\ s.index[i] = NoEntry
            BY <1>6 DEF holes
        <3>2. QED BY <1>2, <1>9, <3>1
    <2>6. QED BY <1>9, <2>2, <2>3, <2>4, <2>5 DEF IndexBut
<1>12. QED BY <1>2, <1>4, <1>11 DEF r

LEMMA ClearedTransitive ==
    ASSUME NEW v, NEW w, NEW idx, Cleared(v, w), Cleared(w, idx)
    PROVE  Cleared(v, idx)
    BY DEF Cleared

LEMMA ClearedItself == \A idx : Cleared(idx, idx)
    BY DEF Cleared

\* Removing a file keeps everything in order.
LEMMA RemoveFacts ==
    ASSUME NEW s, Good(s), NEW f \in DOMAIN s.files
    PROVE  LET r == RemoveFileBlock(s, f)
           IN  /\ Good(r)
               /\ DOMAIN r.files = DOMAIN s.files
               /\ r.files[f] = Dummy(s.files[f].locks)
               /\ \A g \in DOMAIN s.files \ {f} : r.files[g] = s.files[g]
               /\ HasData(r) = HasData(s) \ {f}
               /\ r.written = s.written \/ r.written = Append(s.written, r.index)
               /\ Cleared(r.index, s.index)
<1> DEFINE block  == s.files[f]
           synced == Sync(s, f, TRUE)
           freed  == IF block.length > 0
                     THEN AddFreeBlock(synced, block.location, block.length) ELSE synced
           dummy  == Dummy(block.locks)
           r      == RemoveFileBlock(s, f)
<1>1. s \in State /\ FreeOK(s) /\ FilesOK(s) /\ Exact(s) /\ IndexBut(s, {}) /\ KeepsContents(s)
    BY DEF Good
<1>2. /\ f \in Files /\ block \in FileBlock /\ block.locks \in Nat
      /\ \A g \in DOMAIN s.files : s.files[g] \in FileBlock
      /\ block.length \in Int /\ block.location \in Byte
    BY <1>1, FileTypes DEF FileBlock
<1>3. dummy \in FileBlock /\ dummy.length = BLOCK_LENGTH_INVALID /\ dummy.index = 0
        /\ dummy.size = 0 /\ ~(dummy.length > 0)
    <2>1. 0 \in Byte
        BY DEF Byte
    <2>2. QED BY <1>2, <2>1 DEF Dummy, FileBlock, BLOCK_LENGTH_INVALID
<1>4. r = [freed EXCEPT !.files = [freed.files EXCEPT ![f] = dummy]]
    BY DEF RemoveFileBlock
<1>5. ASSUME freed \in State, DOMAIN freed.files = DOMAIN s.files,
             \A g \in DOMAIN s.files \ {f} : freed.files[g] = s.files[g]
      PROVE  /\ r \in State /\ DOMAIN r.files = DOMAIN s.files /\ r.files[f] = dummy
             /\ \A g \in DOMAIN s.files \ {f} : r.files[g] = s.files[g]
             /\ r.holes = freed.holes /\ r.index = freed.index /\ r.written = freed.written
             /\ SameSpace(freed, r) /\ HasData(r) = HasData(s) \ {f}
    <2> DEFINE files == [freed.files EXCEPT ![f] = dummy]
    <2> HIDE DEF freed, dummy, r
    <2>1. files \in FileMap
        <3>1. freed.files \in FileMap
            BY <1>5 DEF State
        <3>2. QED BY <1>2, <1>3, <3>1, PutFile
    <2>2. /\ DOMAIN files = DOMAIN s.files /\ files[f] = dummy
          /\ \A g \in DOMAIN s.files \ {f} : files[g] = s.files[g]
        BY <1>5, FileTypes
    <2> HIDE DEF files
    <2>3. /\ r \in State /\ r.files = files
          /\ r.holes = freed.holes /\ r.index = freed.index /\ r.written = freed.written
          /\ r.byLocation = freed.byLocation /\ r.byLength = freed.byLength
          /\ r.data = freed.data
        BY <1>4, <1>5, <2>1 DEF State, files
    <2>4. HasData(r) = HasData(s) \ {f}
        BY <1>3, <2>2, <2>3 DEF HasData
    <2>5. QED BY <2>2, <2>3, <2>4 DEF SameSpace
<1>6. ASSUME NEW t, FilesOK(s), DOMAIN t.files = DOMAIN s.files, t.files[f] = dummy,
             \A g \in DOMAIN s.files \ {f} : t.files[g] = s.files[g],
             HasData(t) = HasData(s) \ {f}
      PROVE  FilesOK(t)
    <2> HIDE DEF dummy
    <2>1. HasData(s) \subseteq DOMAIN s.files
        BY DEF HasData
    <2>2. QED BY <1>3, <1>6, <2>1 DEF FilesOK
<1>7. CASE ~(block.length > 0)
    <2>1. f \notin HasData(s) /\ block.length = BLOCK_LENGTH_INVALID
        BY <1>1, <1>7 DEF FilesOK, HasData
    <2>2. freed = s
        BY <1>7, <2>1 DEF Sync
    <2> HIDE DEF freed, r, dummy
    <2>3. /\ r \in State /\ DOMAIN r.files = DOMAIN s.files /\ r.files[f] = dummy
          /\ \A g \in DOMAIN s.files \ {f} : r.files[g] = s.files[g]
          /\ r.holes = s.holes /\ r.index = s.index /\ r.written = s.written
          /\ SameSpace(s, r) /\ HasData(r) = HasData(s)
        BY <1>1, <1>5, <2>1, <2>2
    <2>4. \A g \in HasData(s) : r.files[g] = s.files[g]
        BY <2>1, <2>3 DEF HasData
    <2>5. FreeOK(r) /\ FreeBytes(r) = FreeBytes(s)
        BY <1>1, <2>3, SameFreeSpace DEF SameSpace
    <2>6. FilesOK(r)
        BY <1>1, <1>6, <2>1, <2>3
    <2>7. Exact(r)
        BY <1>1, <2>3, <2>4, <2>5 DEF Exact, InFile
    <2>8. IndexBut(r, {})
        BY <1>1, <2>3, <2>4 DEF IndexBut, Entry
    <2>9. KeepsContents(r)
        BY <1>1, <2>3, <2>4 DEF KeepsContents, SameSpace
    <2>10. QED BY <2>1, <2>3, <2>5, <2>6, <2>7, <2>8, <2>9, ClearedItself DEF Good, dummy, r
<1>8. CASE block.length > 0
    <2>1. f \in HasData(s)
        BY <1>8 DEF HasData
    <2> DEFINE own == block.index
    <2>2. IndexBut(s, {f}) /\ own \in DOMAIN s.index /\ own # 0
        <3>1. own \in DOMAIN s.index /\ s.index \in Seq(IndexEntry)
            BY <1>1, <2>1 DEF IndexBut, State
        <3>2. QED BY <1>1, <3>1 DEF IndexBut
    <2>3. /\ synced \in State /\ SameSpace(s, synced)
          /\ DOMAIN synced.files = DOMAIN s.files
          /\ \A g \in DOMAIN s.files \ {f} : synced.files[g] = s.files[g]
          /\ synced.files[f].index = own
          /\ \A i : i \in DOMAIN synced.index <=> i \in DOMAIN s.index \/ i = own
          /\ synced.index[own] = NoEntry
          /\ \A i \in DOMAIN s.index \ {own} : synced.index[i] = s.index[i]
          /\ synced.written = Append(s.written, synced.index)
          /\ synced.holes = Append(s.holes, own)
        <3>1. s \in State /\ f \in HasData(s) /\ IndexBut(s, {f})
            BY <1>1, <2>1, <2>2
        <3>2. Synced(s, f, TRUE, synced)
            BY <3>1, SyncFacts
        <3> HIDE DEF synced
        <3>3. s.files[f].index # 0 /\ s.files[f].index = own
            BY <2>2
        <3>4. QED BY <3>2, <3>3 DEF Synced
    <2>4. freed = AddFreeBlock(synced, block.location, block.length)
        BY <1>8
    <2> HIDE DEF synced, freed, r, dummy
    <2>5. FreeOK(synced) /\ FreeBytes(synced) = FreeBytes(s)
        BY <1>1, <2>3, SameFreeSpace DEF SameSpace
    <2>6. /\ block.length \in Nat \ {0} /\ block.location + block.length <= DataSize
          /\ \A u : u \in Bytes(block.location, block.length) <=>
                        u \in Byte /\ InFile(s, f, u)
        <3>1. block.location + block.length <= DataSize
            BY <1>1, <2>1 DEF FilesOK
        <3>2. block.location \in Int /\ 0 <= block.location
            BY <1>2 DEF Byte
        <3> HIDE DEF block
        <3>3. \A u : u \in Bytes(block.location, block.length) <=>
                        u \in Byte /\ block.location <= u /\ u < block.location + block.length
            BY <1>2, <3>1, <3>2 DEF Bytes, Byte
        <3>4. QED BY <1>2, <1>8, <3>1, <3>3 DEF InFile, block
    <2>7. \A u \in Bytes(block.location, block.length) : u \notin FreeBytes(synced)
        BY <1>1, <2>1, <2>5, <2>6 DEF Exact
    <2>8. /\ freed \in State /\ SameFiles(synced, freed) /\ FreeOK(freed)
          /\ FreeBytes(freed) = FreeBytes(s) \cup Bytes(block.location, block.length)
          /\ \A u \in Byte \ Bytes(block.location, block.length) : freed.data[u] = s.data[u]
        <3>1. /\ freed \in State /\ SameFiles(synced, freed) /\ FreeOK(freed)
              /\ FreeBytes(freed) = FreeBytes(synced) \cup Bytes(block.location, block.length)
              /\ \A u \in Byte \ Bytes(block.location, block.length) :
                        freed.data[u] = synced.data[u]
            BY <1>2, <2>3, <2>4, <2>5, <2>6, <2>7, AddFreeFacts
        <3>2. QED BY <2>3, <2>5, <3>1 DEF SameSpace
    <2>9. /\ r \in State /\ DOMAIN r.files = DOMAIN s.files /\ r.files[f] = dummy
          /\ \A g \in DOMAIN s.files \ {f} : r.files[g] = s.files[g]
          /\ r.holes = synced.holes /\ r.index = synced.index /\ r.written = synced.written
          /\ SameSpace(freed, r) /\ HasData(r) = HasData(s) \ {f}
        <3>1. DOMAIN freed.files = DOMAIN s.files
                /\ \A g \in DOMAIN s.files \ {f} : freed.files[g] = s.files[g]
            BY <2>3, <2>8 DEF SameFiles
        <3>2. QED BY <1>5, <2>8, <3>1 DEF SameFiles
    <2>10. \A g \in HasData(r) : r.files[g] = s.files[g] /\ g # f /\ g \in HasData(s)
        BY <2>9 DEF HasData
    <2>11. FreeOK(r) /\ FreeBytes(r) = FreeBytes(freed)
        BY <2>8, <2>9, SameFreeSpace DEF SameSpace
    <2>12. FilesOK(r)
        BY <1>1, <1>6, <2>9
    <2>13. \A g \in HasData(r), u \in Byte : InFile(s, g, u) => ~InFile(s, f, u)
        <3> SUFFICES ASSUME NEW g \in HasData(r), NEW u \in Byte, InFile(s, g, u), InFile(s, f, u)
                     PROVE  FALSE
            OBVIOUS
        <3>1. \/ s.files[f].location + s.files[f].length <= s.files[g].location
              \/ s.files[g].location + s.files[g].length <= s.files[f].location
            BY <1>1, <2>1, <2>10 DEF FilesOK
        <3>2. /\ s.files[f].location \in Int /\ s.files[f].length \in Int
              /\ s.files[g].location \in Int /\ s.files[g].length \in Int /\ u \in Int
            <4>1. f \in DOMAIN s.files /\ g \in DOMAIN s.files /\ u \in Int
                BY <2>10 DEF HasData, Byte
            <4>2. QED BY <1>1, <4>1, BlockFields
        <3>3. QED BY <3>1, <3>2 DEF InFile
    <2>14. Exact(r)
        <3> SUFFICES ASSUME NEW u \in Byte
                     PROVE  u \in FreeBytes(r) <=> \A g \in HasData(r) : ~InFile(r, g, u)
            BY DEF Exact
        <3>1. \A g \in HasData(r) : InFile(r, g, u) <=> InFile(s, g, u)
            BY <2>10 DEF InFile
        <3>2. u \in FreeBytes(r) <=> u \in FreeBytes(s) \/ InFile(s, f, u)
            BY <2>6, <2>8, <2>11
        <3>3. u \in FreeBytes(s) <=> \A g \in HasData(s) : ~InFile(s, g, u)
            BY <1>1 DEF Exact
        <3>4. QED BY <2>1, <2>9, <2>13, <3>1, <3>2, <3>3
    <2>15. IndexBut(r, {})
        <3>1. own \notin ToSet(s.holes) /\ IsInjective(s.holes) /\ s.holes \in Seq(Nat \ {0})
                /\ own \in Nat \ {0}
            BY <1>1, <2>1, <2>2 DEF IndexBut, State
        <3>2. IsInjective(r.holes) /\ ToSet(r.holes) = ToSet(s.holes) \cup {own}
            BY <2>3, <2>9, <3>1, InjectiveAppend
        <3>3. DOMAIN r.index = DOMAIN s.index /\ r.index[own] = NoEntry
                /\ \A i \in DOMAIN s.index \ {own} : r.index[i] = s.index[i]
            BY <2>2, <2>3, <2>9
        <3>4. \A g \in HasData(s) : g # f => s.files[g].index # own
            BY <1>1, <2>1 DEF IndexBut
        <3>5. \A g \in HasData(r) : /\ r.files[g].index \in DOMAIN r.index
                                    /\ r.index[r.files[g].index] = Entry(r, g)
            BY <1>1, <2>10, <3>3, <3>4 DEF IndexBut, Entry
        <3>6. \A g, h \in HasData(r) : r.files[g].index = r.files[h].index => g = h
            BY <1>1, <2>10 DEF IndexBut
        <3>7. ToSet(r.holes) = {i \in DOMAIN r.index :
                                    \A g \in HasData(r) : r.files[g].index # i}
            <4>1. ToSet(s.holes) = {i \in DOMAIN s.index :
                                    \A g \in HasData(s) : s.files[g].index # i}
                BY <1>1 DEF IndexBut
            <4>2. ASSUME NEW i \in DOMAIN s.index
                  PROVE  (\A g \in HasData(r) : r.files[g].index # i) <=>
                            i = own \/ \A g \in HasData(s) : s.files[g].index # i
                BY <2>1, <2>9, <2>10, <3>4
            <4>3. QED BY <2>2, <3>2, <3>3, <4>1, <4>2
        <3>8. \A i \in ToSet(r.holes) : r.index[i] = NoEntry
            <4>1. \A i \in ToSet(s.holes) : i \in DOMAIN s.index /\ s.index[i] = NoEntry
                BY <1>1 DEF IndexBut
            <4>2. QED BY <3>2, <3>3, <4>1
        <3>9. QED BY <3>2, <3>5, <3>6, <3>7, <3>8 DEF IndexBut
    <2>16. KeepsContents(r)
        <3> SUFFICES ASSUME NEW g \in HasData(r), NEW o \in Nat, o < r.files[g].size
                     PROVE  r.data[r.files[g].location + o] = <<g, o>>
            BY DEF KeepsContents
        <3> DEFINE u == s.files[g].location + o
        <3>1. g \in HasData(s) /\ r.files[g] = s.files[g] /\ s.files[g] \in FileBlock
            BY <1>2, <2>10 DEF HasData
        <3>2. s.data[u] = <<g, o>>
            BY <1>1, <3>1 DEF KeepsContents
        <3>3. /\ s.files[g].location + s.files[g].length <= DataSize
              /\ s.files[g].size <= s.files[g].length
            BY <1>1, <3>1 DEF FilesOK
        <3>4. u \in Byte /\ InFile(s, g, u)
            BY <3>1, <3>3 DEF FileBlock, Byte, InFile
        <3>5. u \notin Bytes(block.location, block.length)
            BY <2>6, <2>13, <3>4
        <3>6. r.data[u] = s.data[u]
            BY <2>8, <2>9, <3>4, <3>5 DEF SameSpace
        <3>7. QED BY <3>1, <3>2, <3>6
    <2>17. Cleared(r.index, s.index)
        <3> SUFFICES ASSUME NEW i \in Valid(r.index)
                     PROVE  i \in Valid(s.index) /\ r.index[i] = s.index[i]
            BY DEF Cleared
        <3>1. i \in DOMAIN s.index /\ i # own
            BY <2>2, <2>3, <2>9 DEF Valid, NoEntry
        <3>2. QED BY <2>3, <2>9, <3>1 DEF Valid
    <2>18. Good(r)
        BY <2>9, <2>11, <2>8, <2>12, <2>14, <2>15, <2>16 DEF Good
    <2>19. QED BY <2>3, <2>9, <2>17, <2>18 DEF r, dummy
<1>9. QED BY <1>7, <1>8
-----------------------------------------------------------------------------
(* Making room *)

\* Everything that r wrote to the index, and the index, only clears entries of idx.
OnlyClears(r, idx) ==
    Cleared(r.index, idx) /\ \A k \in DOMAIN r.written : Cleared(r.written[k], idx)

\* What making room may have done to s: files that nobody locked and that are not
\* immune went.
Roomier(s, r, immune) ==
    /\ Good(r)
    /\ DOMAIN r.files = DOMAIN s.files
    /\ \A f \in DOMAIN s.files :
            r.files[f] = s.files[f] \/ (f \in LRUList(s, immune) /\ r.files[f] = Dummy(0))
    /\ \A idx : OnlyClears(s, idx) => OnlyClears(r, idx)

LEMMA RemovalClears ==
    ASSUME NEW s \in State, NEW r, NEW idx, OnlyClears(s, idx), Cleared(r.index, s.index),
           r.written = s.written \/ r.written = Append(s.written, r.index)
    PROVE  OnlyClears(r, idx)
<1>1. Cleared(r.index, idx)
    BY ClearedTransitive DEF OnlyClears
<1>2. s.written \in Seq(Seq(IndexEntry))
    BY DEF State
<1>3. CASE r.written = s.written
    BY <1>1, <1>3 DEF OnlyClears
<1>4. CASE r.written = Append(s.written, r.index)
    <2>1. /\ DOMAIN r.written = 1 .. Len(s.written) + 1 /\ Len(s.written) \in Nat
          /\ DOMAIN s.written = 1 .. Len(s.written)
          /\ \A k \in 1 .. Len(s.written) : r.written[k] = s.written[k]
          /\ r.written[Len(s.written) + 1] = r.index
        BY <1>2, <1>4
    <2>2. \A k \in DOMAIN r.written : k \in DOMAIN s.written \/ k = Len(s.written) + 1
        BY <2>1
    <2>3. QED BY <1>1, <2>1, <2>2 DEF OnlyClears
<1>5. QED BY <1>3, <1>4

LEMMA OldestIsListed ==
    ASSUME NEW s \in State, NEW immune, LRUList(s, immune) # {}
    PROVE  Oldest(s, immune) \in LRUList(s, immune)
<1> DEFINE times == {s.files[f].time : f \in LRUList(s, immune)}
<1>1. \A f \in LRUList(s, immune) : f \in DOMAIN s.files /\ s.files[f].time \in Nat
    <2>1. \A f \in LRUList(s, immune) : f \in DOMAIN s.files
        BY DEF LRUList, HasData
    <2>2. QED BY <2>1, BlockFields
<1>2. times \in SUBSET Nat /\ times # {}
    BY <1>1
<1>3. PICK t \in times : \A u \in times : t <= u
    BY <1>2, LeastElement
<1>4. PICK f \in LRUList(s, immune) : t = s.files[f].time
    BY <1>3
<1>5. \A g \in LRUList(s, immune) : ~Older(s, g, f)
    <2> SUFFICES ASSUME NEW g \in LRUList(s, immune), Older(s, g, f)
                 PROVE  FALSE
        OBVIOUS
    <2>1. s.files[f].time <= s.files[g].time
        BY <1>3, <1>4
    <2>2. QED BY <1>1, <2>1 DEF Older
<1>6. QED BY <1>5 DEF Oldest

LEMMA RemovalMakesRoom ==
    ASSUME NEW s, Good(s), NEW immune, NEW r, Roomier(s, r, immune), LRUList(r, immune) # {}
    PROVE  Roomier(s, RemoveFileBlock(r, Oldest(r, immune)), immune)
<1> DEFINE f == Oldest(r, immune)
           t == RemoveFileBlock(r, f)
<1>1. Good(r) /\ r \in State
    BY DEF Roomier, Good
<1>2. f \in LRUList(r, immune)
    BY <1>1, OldestIsListed
<1> HIDE DEF f
<1>3. f \in DOMAIN r.files /\ r.files[f].length > 0 /\ r.files[f].locks = 0 /\ f \notin immune
    BY <1>2 DEF LRUList, HasData
<1>4. r.files[f] = s.files[f] /\ f \in DOMAIN s.files
    <2>1. ~(Dummy(0).length > 0)
        BY DEF Dummy, BLOCK_LENGTH_INVALID
    <2>2. QED BY <1>3, <2>1 DEF Roomier
<1>5. f \in LRUList(s, immune)
    BY <1>3, <1>4 DEF LRUList, HasData
<1>6. /\ Good(t)
      /\ DOMAIN t.files = DOMAIN r.files
      /\ t.files[f] = Dummy(r.files[f].locks)
      /\ \A g \in DOMAIN r.files \ {f} : t.files[g] = r.files[g]
      /\ t.written = r.written \/ t.written = Append(r.written, t.index)
      /\ Cleared(t.index, r.index)
    BY <1>1, <1>3, RemoveFacts
<1> HIDE DEF t
<1>7. \A idx : OnlyClears(r, idx) => OnlyClears(t, idx)
    BY <1>1, <1>6, RemovalClears
<1>8. \A g \in DOMAIN s.files :
            t.files[g] = s.files[g] \/ (g \in LRUList(s, immune) /\ t.files[g] = Dummy(0))
    BY <1>3, <1>4, <1>5, <1>6 DEF Roomier
<1>9. QED BY <1>6, <1>7, <1>8 DEF Roomier, t, f

\* The loop of MakeRoom, up to n removals.
LoopUpTo(s, size, immune, n, f) ==
    f = [k \in 0 .. n |->
            IF k = 0 THEN [s |-> s, left |-> 0]
            ELSE IF RoomMade(f[k - 1], size, immune) THEN f[k - 1]
            ELSE RemoveOldest(f[k - 1], size, immune)]

LEMMA LoopExists ==
    ASSUME NEW s, NEW size, NEW immune, NEW n \in Nat
    PROVE  \E f : LoopUpTo(s, size, immune, n, f)
<1> DEFINE S == {m \in Nat : \E f : LoopUpTo(s, size, immune, m, f)}
           After(r) == IF RoomMade(r, size, immune) THEN r ELSE RemoveOldest(r, size, immune)
<1>1. 0 \in S
    <2>1. LoopUpTo(s, size, immune, 0, [k \in 0 .. 0 |-> [s |-> s, left |-> 0]])
        BY DEF LoopUpTo
    <2>2. QED BY <2>1
<1>2. ASSUME NEW m \in Nat, m \in S PROVE m + 1 \in S
    <2>1. PICK f : LoopUpTo(s, size, immune, m, f)
        BY <1>2
    <2> DEFINE g == [k \in 0 .. m + 1 |-> IF k <= m THEN f[k] ELSE After(f[m])]
    <2> HIDE DEF After
    <2>2. \A k \in 0 .. m : g[k] = f[k]
        OBVIOUS
    <2>3. \A k \in 0 .. m + 1 : k = 0 \/ k - 1 \in 0 .. m
        OBVIOUS
    <2>4. \A k \in 0 .. m : f[k] = IF k = 0 THEN [s |-> s, left |-> 0] ELSE After(f[k - 1])
        BY <2>1 DEF LoopUpTo, After
    <2>5. ASSUME NEW k \in 0 .. m + 1
          PROVE  g[k] = IF k = 0 THEN [s |-> s, left |-> 0] ELSE After(g[k - 1])
        <3>1. CASE k <= m
            <4>1. k \in 0 .. m
                BY <3>1
            <4>2. QED BY <2>2, <2>3, <2>4, <4>1
        <3>2. CASE k = m + 1
            <4>1. k - 1 = m /\ k # 0 /\ m \in 0 .. m /\ ~ (k <= m)
                BY <3>2
            <4>2. g[k] = After(f[m])
                BY <4>1
            <4>3. g[k - 1] = f[m]
                BY <2>2, <4>1
            <4> HIDE DEF g
            <4>4. QED BY <4>1, <4>2, <4>3
        <3>3. QED BY <3>1, <3>2
    <2>6. LoopUpTo(s, size, immune, m + 1, g)
        <3>1. g = [k \in 0 .. m + 1 |-> g[k]]
            OBVIOUS
        <3> HIDE DEF g
        <3>2. QED BY <2>5, <3>1 DEF LoopUpTo, After
    <2>7. QED BY <2>6
<1> HIDE DEF S
<1>3. Nat \subseteq S
    BY <1>1, <1>2, Induction
<1>4. QED BY <1>3 DEF S

LEMMA MakeRoomFacts ==
    ASSUME NEW s, Good(s), NEW size, NEW immune
    PROVE  Roomier(s, MakeRoom(s, size, immune), immune)
<1> DEFINE n == Cardinality(LRUList(s, immune))
           loop[k \in 0 .. n] ==
            IF k = 0 THEN [s |-> s, left |-> 0]
            ELSE IF RoomMade(loop[k - 1], size, immune) THEN loop[k - 1]
            ELSE RemoveOldest(loop[k - 1], size, immune)
<1>1. MakeRoom(s, size, immune) = loop[n].s
    BY DEF MakeRoom
<1>2. n \in Nat
    <2>1. s \in State
        BY DEF Good
    <2>2. LRUList(s, immune) \subseteq Files
        BY <2>1, FileTypes DEF LRUList
    <2>3. IsFiniteSet(LRUList(s, immune))
        BY <2>2, FS_Subset
    <2>4. QED BY <2>3, FS_CardinalityType
<1>3. LoopUpTo(s, size, immune, n, loop)
    <2>1. \E f : LoopUpTo(s, size, immune, n, f)
        BY <1>2, LoopExists
    <2>2. loop = CHOOSE f : LoopUpTo(s, size, immune, n, f)
        BY DEF LoopUpTo
    <2> HIDE DEF loop, n
    <2>3. QED BY <2>1, <2>2
<1> HIDE DEF loop, n
<1>4. \A k \in 0 .. n : loop[k] = IF k = 0 THEN [s |-> s, left |-> 0]
            ELSE IF RoomMade(loop[k - 1], size, immune) THEN loop[k - 1]
            ELSE RemoveOldest(loop[k - 1], size, immune)
    BY <1>3 DEF LoopUpTo
<1> DEFINE Reached(k) == Roomier(s, loop[k].s, immune)
           S == {k \in Nat : k <= n => Reached(k)}
<1>5. 0 \in S
    <2>1. loop[0].s = s
        <3>1. loop[0] = [s |-> s, left |-> 0]
            BY <1>2, <1>4
        <3>2. QED BY <3>1
    <2>2. Roomier(s, s, immune)
        BY DEF Roomier
    <2>3. QED BY <2>1, <2>2
<1>6. ASSUME NEW k \in Nat, k \in S PROVE k + 1 \in S
    <2> SUFFICES ASSUME k + 1 <= n PROVE Reached(k + 1)
        OBVIOUS
    <2>1. k <= n
        BY <1>2
    <2>2. Reached(k)
        <3>1. k <= n => Reached(k)
            BY <1>6
        <3> HIDE DEF Reached
        <3>2. QED BY <2>1, <3>1
    <2> DEFINE r == loop[k]
               t == loop[k + 1]
    <2>3. t = IF RoomMade(r, size, immune) THEN r ELSE RemoveOldest(r, size, immune)
        <3>1. k + 1 \in 0 .. n /\ k + 1 # 0 /\ (k + 1) - 1 = k
            BY <1>2
        <3>2. QED BY <1>4, <3>1
    <2>4. Roomier(s, r.s, immune)
        BY <2>2
    <2> HIDE DEF r, t
    <2>5. CASE RoomMade(r, size, immune)
        <3>1. t = r
            BY <2>3, <2>5
        <3>2. QED BY <2>4, <3>1 DEF t
    <2>6. CASE ~RoomMade(r, size, immune)
        <3>1. LRUList(r.s, immune) # {}
            BY <2>6 DEF RoomMade
        <3>2. t = RemoveOldest(r, size, immune)
            BY <2>3, <2>6
        <3>3. t.s = RemoveFileBlock(r.s, Oldest(r.s, immune))
            BY <3>2 DEF RemoveOldest
        <3>4. Roomier(s, RemoveFileBlock(r.s, Oldest(r.s, immune)), immune)
            BY <2>4, <3>1, RemovalMakesRoom
        <3>5. QED BY <3>3, <3>4 DEF t
    <2>7. QED BY <2>5, <2>6
<1> HIDE DEF S
<1>7. Nat \subseteq S
    BY <1>5, <1>6, Induction
<1>8. Reached(n)
    <2>1. n \in S
        BY <1>2, <1>7
    <2>2. n <= n => Reached(n)
        BY <2>1 DEF S
    <2> HIDE DEF Reached
    <2>3. QED BY <1>2, <2>2
<1>9. QED BY <1>1, <1>8
-----------------------------------------------------------------------------
(* The operations *)

\* A finite set of naturals that is not empty has a greatest element.
LEMMA GreatestElement ==
    ASSUME NEW T \in SUBSET Nat, IsFiniteSet(T), T # {}
    PROVE  \E t \in T : \A u \in T : u <= t
<1> DEFINE Bounded(U) == \E b \in Nat : \A u \in U : u <= b
           S == {n \in Nat : \A U \in SUBSET Nat :
                    IsFiniteSet(U) /\ Cardinality(U) = n => Bounded(U)}
<1>1. 0 \in S
    <2> SUFFICES ASSUME NEW U \in SUBSET Nat, IsFiniteSet(U), Cardinality(U) = 0
                 PROVE  Bounded(U)
        OBVIOUS
    <2>1. U = {}
        BY FS_EmptySet
    <2>2. QED BY <2>1
<1>2. ASSUME NEW n \in Nat, n \in S PROVE n + 1 \in S
    <2> SUFFICES ASSUME NEW U \in SUBSET Nat, IsFiniteSet(U), Cardinality(U) = n + 1
                 PROVE  Bounded(U)
        OBVIOUS
    <2>1. U # {}
        BY FS_EmptySet
    <2>2. PICK u \in U : TRUE
        BY <2>1
    <2>3. IsFiniteSet(U \ {u}) /\ Cardinality(U \ {u}) = n
        <3>1. IsFiniteSet(U \ {u}) /\ Cardinality(U \ {u}) = Cardinality(U) - 1
            BY <2>2, FS_RemoveElement
        <3>2. QED BY <3>1
    <2>4. Bounded(U \ {u})
        <3>1. U \ {u} \in SUBSET Nat
            OBVIOUS
        <3> HIDE DEF Bounded
        <3>2. \A V \in SUBSET Nat : IsFiniteSet(V) /\ Cardinality(V) = n => Bounded(V)
            BY <1>2
        <3> DEFINE V == U \ {u}
        <3>3. V \in SUBSET Nat /\ IsFiniteSet(V) /\ Cardinality(V) = n
            BY <2>3, <3>1
        <3> HIDE DEF S, V
        <3>4. QED BY <3>2, <3>3 DEF V
    <2>5. PICK b \in Nat : \A v \in U \ {u} : v <= b
        BY <2>4
    <2>6. b + u \in Nat /\ \A v \in U : v <= b + u
        BY <2>2, <2>5
    <2>7. QED BY <2>6
<1> HIDE DEF S
<1>3. Nat \subseteq S
    BY <1>1, <1>2, Induction
<1>4. Bounded(T)
    <2>1. Cardinality(T) \in S
        BY <1>3, FS_CardinalityType
    <2> HIDE DEF Bounded
    <2>2. QED BY <2>1 DEF S
<1> DEFINE bounds == {b \in Nat : \A u \in T : u <= b}
<1>5. PICK b \in bounds : \A c \in bounds : b <= c
    BY <1>4, LeastElement
<1>6. b \in T
    <2> SUFFICES ASSUME b \notin T PROVE FALSE
        OBVIOUS
    <2>1. PICK u \in T : TRUE
        OBVIOUS
    <2>2. \A v \in T : v \in Nat /\ v <= b /\ v # b
        OBVIOUS
    <2>3. \A v \in T : v <= b - 1
        BY <2>2
    <2>4. b - 1 \in Nat
        BY <2>1, <2>2
    <2>5. b - 1 \in bounds
        BY <2>3, <2>4
    <2>6. QED BY <1>5, <2>5
<1>7. QED BY <1>5, <1>6

LEMMA TimesFinite ==
    ASSUME NEW s \in State
    PROVE  LET times == {s.files[f].time : f \in HasData(s)}
           IN  times \in SUBSET Nat /\ IsFiniteSet(times)
<1> DEFINE H == HasData(s)
           m == [f \in H |-> s.files[f].time]
           times == {s.files[f].time : f \in H}
<1>1. H \subseteq Files /\ \A f \in H : s.files[f].time \in Nat
    <2>1. H \subseteq DOMAIN s.files /\ DOMAIN s.files \subseteq Files
        BY FileTypes
    <2>2. QED BY <2>1, BlockFields
<1>2. IsFiniteSet(H)
    BY <1>1, FS_Subset
<1>3. times \in SUBSET Nat
    BY <1>1
<1> HIDE DEF H
<1>4. m \in Surjection(H, times)
    BY DEF Surjection
<1>5. IsFiniteSet(times)
    BY <1>2, <1>4, FS_Surjection
<1>6. QED BY <1>3, <1>5 DEF H

LEMMA TimeType ==
    ASSUME NEW s \in State
    PROVE  Time(s) \in Nat
<1> DEFINE times == {s.files[f].time : f \in HasData(s)}
           T == times \cup {0}
<1>1. times \in SUBSET Nat /\ IsFiniteSet(times)
    BY TimesFinite
<1> HIDE DEF times
<1>2. IsFiniteSet(T)
    BY <1>1, FS_AddElement
<1>3. T \in SUBSET Nat /\ T # {}
    BY <1>1
<1> HIDE DEF T
<1>4. PICK t \in T : \A u \in T : u <= t
    BY <1>2, <1>3, GreatestElement
<1>5. Max(T) \in T
    <2>1. \A u \in T : t >= u
        BY <1>3, <1>4
    <2>2. QED BY <2>1 DEF Max
<1>6. Time(s) = Max(T) + 1
    BY DEF Time, T, times
<1>7. Max(T) \in Nat
    BY <1>3, <1>5
<1>8. QED BY <1>6, <1>7

\* The same files in the same places.
Alike(s, r) ==
    /\ s \in State /\ r \in State /\ SameSpace(s, r)
    /\ HasData(r) = HasData(s)
    /\ \A f \in HasData(s) : /\ r.files[f].location = s.files[f].location
                             /\ r.files[f].length = s.files[f].length
                             /\ r.files[f].size = s.files[f].size
    /\ \A f \in DOMAIN r.files \ HasData(r) :
            r.files[f].length = BLOCK_LENGTH_INVALID /\ r.files[f].index = 0
                /\ r.files[f].size = 0

LEMMA AlikeSpace ==
    ASSUME NEW s, NEW r, Alike(s, r),
           FreeOK(s), FilesOK(s), Exact(s), KeepsContents(s)
    PROVE  FreeOK(r) /\ FilesOK(r) /\ Exact(r) /\ KeepsContents(r)
<1>1. FreeOK(r) /\ FreeBytes(r) = FreeBytes(s)
    BY SameFreeSpace DEF Alike, SameSpace
<1>2. FilesOK(r)
    BY DEF Alike, FilesOK
<1>3. Exact(r)
    BY <1>1 DEF Alike, Exact, InFile
<1>4. KeepsContents(r)
    <2>1. ASSUME NEW f \in HasData(r), NEW o \in Nat, o < r.files[f].size
          PROVE  r.data[r.files[f].location + o] = <<f, o>>
        <3>1. /\ f \in HasData(s) /\ r.files[f].location = s.files[f].location
              /\ r.files[f].size = s.files[f].size /\ r.data = s.data
            BY <2>1 DEF Alike, SameSpace
        <3>2. QED BY <2>1, <3>1 DEF KeepsContents
    <2>2. QED BY <2>1 DEF KeepsContents
<1>5. QED BY <1>1, <1>2, <1>3, <1>4

LEMMA AlikeIndex ==
    ASSUME NEW s, NEW r, Alike(s, r), r.holes = s.holes, r.index = s.index,
           \A f \in HasData(s) : r.files[f].index = s.files[f].index,
           Good(s)
    PROVE  Good(r)
<1>1. FreeOK(r) /\ FilesOK(r) /\ Exact(r) /\ KeepsContents(r) /\ r \in State
    BY AlikeSpace DEF Good, Alike
<1>2. HasData(r) = HasData(s) /\ \A f \in HasData(s) : Entry(r, f) = Entry(s, f)
    BY DEF Alike, Entry
<1>3. IndexBut(s, {})
    BY DEF Good
<1>4. IndexBut(r, {})
    BY <1>2, <1>3 DEF IndexBut
<1>5. QED BY <1>1, <1>4 DEF Good

\* An access changes a file's time only.
LEMMA AccessedFacts ==
    ASSUME NEW s, Good(s), NEW f \in DOMAIN s.files
    PROVE  LET r == Accessed(s, f)
           IN  /\ Good(r)
               /\ DOMAIN r.files = DOMAIN s.files
               /\ \A g \in DOMAIN s.files \ {f} : r.files[g] = s.files[g]
               /\ r.files[f] = [s.files[f] EXCEPT !.time = Time(s)]
               /\ HasData(r) = HasData(s)
               /\ r.holes = s.holes /\ r.index = s.index /\ r.written = s.written
               /\ SameSpace(s, r)
<1> DEFINE r     == Accessed(s, f)
           time  == Time(s)
           block == [s.files[f] EXCEPT !.time = time]
           files == [s.files EXCEPT ![f] = block]
<1>1. s \in State /\ FilesOK(s)
    BY DEF Good
<1>2. f \in Files /\ s.files[f] \in FileBlock /\ time \in Nat
    BY <1>1, FileTypes, TimeType
<1>3. r = [s EXCEPT !.files = files]
    BY DEF Accessed
<1> HIDE DEF time
<1>4. /\ block \in FileBlock
      /\ block.location = s.files[f].location /\ block.length = s.files[f].length
      /\ block.size = s.files[f].size /\ block.index = s.files[f].index
    BY <1>2 DEF FileBlock
<1>5. files \in FileMap
    <2>1. s.files \in FileMap
        BY <1>1 DEF State
    <2>2. QED BY <1>2, <1>4, <2>1, PutFile
<1>6. /\ DOMAIN files = DOMAIN s.files /\ files[f] = block
      /\ \A g \in DOMAIN s.files \ {f} : files[g] = s.files[g]
    BY <1>1, FileTypes
<1> HIDE DEF r, files
<1>7. /\ r \in State /\ r.files = files /\ r.holes = s.holes /\ r.index = s.index
      /\ r.written = s.written /\ r.byLocation = s.byLocation /\ r.byLength = s.byLength
      /\ r.data = s.data
    BY <1>1, <1>3, <1>5 DEF State
<1> HIDE DEF block
<1>8. \A g \in DOMAIN s.files : /\ r.files[g].location = s.files[g].location
                                /\ r.files[g].length = s.files[g].length
                                /\ r.files[g].size = s.files[g].size
                                /\ r.files[g].index = s.files[g].index
    BY <1>4, <1>6, <1>7
<1>9. HasData(r) = HasData(s)
    BY <1>6, <1>7, <1>8, SameData
<1>10. Alike(s, r)
    BY <1>1, <1>6, <1>7, <1>8, <1>9 DEF Alike, SameSpace, FilesOK, HasData
<1>11. Good(r)
    BY <1>7, <1>8, <1>10, AlikeIndex DEF HasData
<1>12. QED BY <1>6, <1>7, <1>9, <1>11 DEF SameSpace, r, block, time

\* What f may have in its new block: the free bytes of s and its own.
OrFree(s, f, u) == u \in FreeBytes(s) \/ (f \in HasData(s) /\ InFile(s, f, u))

\* The record p has f in another block than s had, or for the first time; the
\* index has not been told.
Replaced(s, p, f) ==
    LET block == p.files[f]
    IN  /\ p \in State /\ FreeOK(p)
        /\ DOMAIN p.files = DOMAIN s.files \cup {f}
        /\ \A g \in DOMAIN s.files \ {f} : p.files[g] = s.files[g]
        /\ block.length > 0 /\ block.size <= block.length
        /\ block.location + block.length <= DataSize
        /\ block.index = IF f \in DOMAIN s.files THEN s.files[f].index ELSE 0
        /\ p.holes = s.holes /\ p.index = s.index
        /\ \A u \in Byte : InFile(p, f, u) => OrFree(s, f, u)
        /\ \A u \in Byte : u \in FreeBytes(p) <=> OrFree(s, f, u) /\ ~InFile(p, f, u)
        /\ \A u \in Byte : ~OrFree(s, f, u) => p.data[u] = s.data[u]
        /\ \A o \in Nat : o < block.size => p.data[block.location + o] = <<f, o>>

\* Blocks that do not overlap have no byte in common, and the other way round.
LEMMA NoCommonByte ==
    ASSUME NEW s \in State, NEW f \in HasData(s), NEW g \in HasData(s),
           s.files[f].location + s.files[f].length <= DataSize,
           s.files[g].location + s.files[g].length <= DataSize
    PROVE  (\/ s.files[f].location + s.files[f].length <= s.files[g].location
            \/ s.files[g].location + s.files[g].length <= s.files[f].location)
           <=> \A u \in Byte : ~(InFile(s, f, u) /\ InFile(s, g, u))
<1> DEFINE x == s.files[f].location
           y == s.files[g].location
           a == s.files[f].length
           b == s.files[g].length
<1>1. /\ x \in Int /\ y \in Int /\ a \in Int /\ b \in Int /\ x \in Byte /\ y \in Byte
      /\ a > 0 /\ b > 0 /\ x >= 0 /\ y >= 0
    BY BlockFields DEF HasData
<1>2. \A u : /\ InFile(s, f, u) <=> x <= u /\ u < x + a
             /\ InFile(s, g, u) <=> y <= u /\ u < y + b
    BY DEF InFile
<1> HIDE DEF x, y, a, b
<1>3. (x + a <= y \/ y + b <= x) <=>
            \A u \in Byte : ~((x <= u /\ u < x + a) /\ (y <= u /\ u < y + b))
    <2>1. ASSUME x + a <= y \/ y + b <= x, NEW u \in Byte
          PROVE  ~((x <= u /\ u < x + a) /\ (y <= u /\ u < y + b))
        BY <1>1, <2>1 DEF Byte
    <2>2. ASSUME ~(x + a <= y \/ y + b <= x)
          PROVE  \E u \in Byte : (x <= u /\ u < x + a) /\ (y <= u /\ u < y + b)
        <3>1. CASE x <= y
            <4>1. (x <= y /\ y < x + a) /\ (y <= y /\ y < y + b)
                BY <1>1, <2>2, <3>1
            <4>2. QED BY <1>1, <4>1
        <3>2. CASE y < x
            <4>1. (x <= x /\ x < x + a) /\ (y <= x /\ x < y + b)
                BY <1>1, <2>2, <3>2
            <4>2. QED BY <1>1, <4>1
        <3>3. QED BY <1>1, <3>1, <3>2
    <2>3. QED BY <2>1, <2>2
<1>4. QED BY <1>2, <1>3 DEF x, y, a, b

\* The bytes of another file are not free.
LEMMA OthersKept ==
    ASSUME NEW s, Good(s), NEW f, NEW g \in HasData(s), g # f,
           NEW u \in Byte, InFile(s, g, u)
    PROVE  ~OrFree(s, f, u)
<1>1. s \in State /\ FilesOK(s) /\ Exact(s)
    BY DEF Good
<1>2. u \notin FreeBytes(s)
    BY <1>1 DEF Exact
<1>3. ASSUME f \in HasData(s), InFile(s, f, u)
      PROVE  FALSE
    <2>1. /\ \/ s.files[f].location + s.files[f].length <= s.files[g].location
             \/ s.files[g].location + s.files[g].length <= s.files[f].location
          /\ s.files[f].location + s.files[f].length <= DataSize
          /\ s.files[g].location + s.files[g].length <= DataSize
        BY <1>1, <1>3 DEF FilesOK
    <2>2. QED BY <1>1, <1>3, <2>1, NoCommonByte
<1>4. QED BY <1>2, <1>3 DEF OrFree

LEMMA ReplacedSpace ==
    ASSUME NEW s, Good(s), NEW f \in Files, NEW p, Replaced(s, p, f)
    PROVE  /\ p \in State /\ f \in HasData(p)
           /\ HasData(p) = HasData(s) \cup {f}
           /\ FreeOK(p) /\ FilesOK(p) /\ Exact(p) /\ KeepsContents(p)
           /\ IndexBut(p, {f})
<1> DEFINE block == p.files[f]
<1>1. s \in State /\ FreeOK(s) /\ FilesOK(s) /\ Exact(s) /\ IndexBut(s, {}) /\ KeepsContents(s)
    BY DEF Good
<1>2. /\ p \in State /\ FreeOK(p)
      /\ DOMAIN p.files = DOMAIN s.files \cup {f}
      /\ \A g \in DOMAIN s.files \ {f} : p.files[g] = s.files[g]
      /\ block.length > 0 /\ block.size <= block.length
      /\ block.location + block.length <= DataSize
      /\ block.index = IF f \in DOMAIN s.files THEN s.files[f].index ELSE 0
      /\ p.holes = s.holes /\ p.index = s.index
      /\ \A u \in Byte : InFile(p, f, u) => OrFree(s, f, u)
      /\ \A u \in Byte : u \in FreeBytes(p) <=> OrFree(s, f, u) /\ ~InFile(p, f, u)
      /\ \A u \in Byte : ~OrFree(s, f, u) => p.data[u] = s.data[u]
      /\ \A o \in Nat : o < block.size => p.data[block.location + o] = <<f, o>>
    BY DEF Replaced
<1> HIDE DEF block
<1>3. /\ f \in HasData(p)
      /\ HasData(p) = HasData(s) \cup {f}
    BY <1>2 DEF HasData, block
<1>4. \A g \in HasData(s) \ {f} : p.files[g] = s.files[g] /\ g \in DOMAIN s.files
    BY <1>2 DEF HasData
<1>5. \A g \in HasData(s) \ {f} : \A u : InFile(p, g, u) <=> InFile(s, g, u)
    BY <1>4 DEF InFile
<1>6. \A g \in HasData(s) \ {f}, u \in Byte : InFile(p, g, u) => ~OrFree(s, f, u)
    BY <1>5, OthersKept
<1>7. FilesOK(p)
    <2>1. \A g \in HasData(p) : /\ p.files[g].location + p.files[g].length <= DataSize
                                /\ p.files[g].size <= p.files[g].length
        BY <1>1, <1>2, <1>3, <1>4 DEF FilesOK, block
    <2>2. ASSUME NEW g \in HasData(s) \ {f}
          PROVE  \/ block.location + block.length <= p.files[g].location
                 \/ p.files[g].location + p.files[g].length <= block.location
        <3>1. \A u \in Byte : ~(InFile(p, f, u) /\ InFile(p, g, u))
            BY <1>2, <1>6
        <3>2. g \in HasData(p)
            BY <1>3
        <3>3. QED BY <1>2, <1>3, <2>1, <3>1, <3>2, NoCommonByte DEF block
    <2>3. ASSUME NEW g \in HasData(p), NEW h \in HasData(p), g # h
          PROVE  \/ p.files[g].location + p.files[g].length <= p.files[h].location
                 \/ p.files[h].location + p.files[h].length <= p.files[g].location
        <3>1. CASE g = f
            BY <1>3, <2>2, <2>3, <3>1 DEF block
        <3>2. CASE h = f
            BY <1>3, <2>2, <2>3, <3>2 DEF block
        <3>3. CASE g # f /\ h # f
            BY <1>1, <1>3, <1>4, <2>3, <3>3 DEF FilesOK
        <3>4. QED BY <3>1, <3>2, <3>3
    <2>4. \A g \in DOMAIN p.files \ HasData(p) :
            p.files[g].length = BLOCK_LENGTH_INVALID /\ p.files[g].index = 0
                /\ p.files[g].size = 0
        BY <1>1, <1>2, <1>3 DEF FilesOK
    <2>5. QED BY <2>1, <2>3, <2>4 DEF FilesOK
<1>8. Exact(p)
    <2> SUFFICES ASSUME NEW u \in Byte
                 PROVE  u \in FreeBytes(p) <=> \A g \in HasData(p) : ~InFile(p, g, u)
        BY DEF Exact
    <2>1. u \in FreeBytes(s) <=> \A g \in HasData(s) : ~InFile(s, g, u)
        BY <1>1 DEF Exact
    <2>2. CASE OrFree(s, f, u)
        BY <1>2, <1>3, <1>6, <2>2
    <2>3. CASE ~OrFree(s, f, u)
        <3>1. \E g \in HasData(s) : InFile(s, g, u) /\ g # f
            BY <2>1, <2>3 DEF OrFree
        <3>2. QED BY <1>2, <1>3, <1>5, <2>3, <3>1
    <2>4. QED BY <2>2, <2>3
<1>9. KeepsContents(p)
    <2> SUFFICES ASSUME NEW g \in HasData(p), NEW o \in Nat, o < p.files[g].size
                 PROVE  p.data[p.files[g].location + o] = <<g, o>>
        BY DEF KeepsContents
    <2>1. CASE g = f
        BY <1>2, <2>1 DEF block
    <2>2. CASE g # f
        <3> DEFINE u == s.files[g].location + o
        <3>1. g \in HasData(s) /\ g \in DOMAIN s.files /\ p.files[g] = s.files[g]
            BY <1>3, <1>4, <2>2
        <3>2. /\ s.files[g].location + s.files[g].length <= DataSize
              /\ s.files[g].size <= s.files[g].length
            BY <1>1, <3>1 DEF FilesOK
        <3>3. /\ s.files[g].location \in Int /\ s.files[g].location >= 0
              /\ s.files[g].length \in Int /\ s.files[g].size \in Nat
            BY <1>1, <3>1, BlockFields
        <3>4. u \in Byte /\ InFile(s, g, u)
            BY <3>1, <3>2, <3>3 DEF Byte, InFile
        <3>5. p.data[u] = s.data[u]
            BY <1>2, <2>2, <3>1, <3>4, OthersKept
        <3>6. s.data[u] = <<g, o>>
            BY <1>1, <3>1 DEF KeepsContents
        <3>7. QED BY <3>1, <3>5, <3>6
    <2>3. QED BY <2>1, <2>2
<1>10. IndexBut(p, {f})
    <2>1. \A g \in HasData(s) : g \in DOMAIN s.files /\ p.files[g].index = s.files[g].index
        <3>1. \A g \in HasData(s) : g \in DOMAIN s.files
            BY DEF HasData
        <3>2. QED BY <1>2, <1>4, <3>1 DEF block
    <2>2. f \in HasData(s) \/ p.files[f].index = 0
        BY <1>1, <1>2 DEF FilesOK, block
    <2>3. 0 \notin DOMAIN s.index
        BY <1>1 DEF State
    <2>4. \A g \in HasData(s) : /\ s.files[g].index \in DOMAIN s.index
                                /\ s.index[s.files[g].index] = Entry(s, g)
        BY <1>1 DEF IndexBut
    <2>5. \A g \in HasData(p) \ {f} : /\ p.files[g].index \in DOMAIN p.index
                                      /\ p.index[p.files[g].index] = Entry(p, g)
        BY <1>2, <1>3, <1>4, <2>4 DEF Entry
    <2>6. \A g \in HasData(p) : p.files[g].index = 0 \/ p.files[g].index \in DOMAIN p.index
        BY <1>2, <1>3, <2>1, <2>2, <2>4
    <2>7. \A g, h \in HasData(p) : p.files[g].index = p.files[h].index => g = h
        <3>1. \A g, h \in HasData(s) : s.files[g].index = s.files[h].index => g = h
            BY <1>1 DEF IndexBut
        <3>2. QED BY <1>3, <2>1, <2>2, <2>3, <2>4, <3>1
    <2>8. ToSet(p.holes) = {i \in DOMAIN p.index : \A g \in HasData(p) : p.files[g].index # i}
        <3>1. ToSet(s.holes) = {i \in DOMAIN s.index : \A g \in HasData(s) : s.files[g].index # i}
            BY <1>1 DEF IndexBut
        <3>2. \A i \in DOMAIN s.index : (\A g \in HasData(p) : p.files[g].index # i)
                    <=> (\A g \in HasData(s) : s.files[g].index # i)
            BY <1>3, <2>1, <2>2, <2>3
        <3>3. QED BY <1>2, <3>1, <3>2
    <2>9. IsInjective(p.holes) /\ \A i \in ToSet(p.holes) : p.index[i] = NoEntry
        BY <1>1, <1>2 DEF IndexBut
    <2>10. QED BY <2>5, <2>6, <2>7, <2>8, <2>9 DEF IndexBut
<1>11. QED BY <1>2, <1>3, <1>7, <1>8, <1>9, <1>10

\* When the entry of the one file is saved everything is in order.
LEMMA SavedGood ==
    ASSUME NEW p \in State, NEW f \in HasData(p),
           FreeOK(p), FilesOK(p), Exact(p), KeepsContents(p), IndexBut(p, {f})
    PROVE  LET r == Sync(p, f, FALSE)
           IN  /\ Good(r)
               /\ DOMAIN r.files = DOMAIN p.files
               /\ \A g \in DOMAIN p.files \ {f} : r.files[g] = p.files[g]
               /\ f \in HasData(r) /\ r.files[f].size = p.files[f].size
               /\ r.written = Append(p.written, r.index)
<1> DEFINE r == Sync(p, f, FALSE)
<1>1. /\ r \in State /\ SameSpace(p, r) /\ IndexBut(r, {})
      /\ DOMAIN r.files = DOMAIN p.files
      /\ \A g \in DOMAIN p.files \ {f} : r.files[g] = p.files[g]
      /\ r.files[f] = [p.files[f] EXCEPT !.index = r.files[f].index]
      /\ r.written = Append(p.written, r.index)
      /\ HasData(r) = HasData(p)
    BY SavedFacts
<1> HIDE DEF r
<1>2. p.files[f] \in FileBlock
    BY FileTypes
<1>3. /\ r.files[f].length = p.files[f].length /\ r.files[f].location = p.files[f].location
      /\ r.files[f].size = p.files[f].size
    <2> DEFINE slot == r.files[f].index
    <2>1. r.files[f] = [p.files[f] EXCEPT !.index = slot]
        BY <1>1
    <2> HIDE DEF slot
    <2>2. QED BY <1>2, <2>1 DEF FileBlock
<1>4. Alike(p, r)
    <2>1. \A g \in HasData(p) : g \in DOMAIN p.files
        BY DEF HasData
    <2>2. \A g \in DOMAIN p.files \ HasData(p) : g # f
        OBVIOUS
    <2>3. QED BY <1>1, <1>3, <2>1, <2>2 DEF Alike, FilesOK
<1>5. Good(r)
    BY <1>1, <1>4, AlikeSpace DEF Good
<1>6. QED BY <1>1, <1>3, <1>5 DEF r

\* What saving the new block of f leaves.
Saved(s, p, f, r) ==
    /\ Good(r)
    /\ DOMAIN r.files = DOMAIN s.files \cup {f}
    /\ \A g \in DOMAIN s.files \ {f} : r.files[g] = s.files[g]
    /\ f \in HasData(r) /\ r.files[f].size = p.files[f].size
    /\ r.written = Append(p.written, r.index)

LEMMA ReplacedFacts ==
    ASSUME NEW s, Good(s), NEW f \in Files, NEW p, Replaced(s, p, f)
    PROVE  Saved(s, p, f, Sync(p, f, FALSE))
<1> DEFINE r == Sync(p, f, FALSE)
<1>1. /\ p \in State /\ f \in HasData(p)
      /\ FreeOK(p) /\ FilesOK(p) /\ Exact(p) /\ KeepsContents(p)
      /\ IndexBut(p, {f})
    BY ReplacedSpace
<1>2. /\ DOMAIN p.files = DOMAIN s.files \cup {f}
      /\ \A g \in DOMAIN s.files \ {f} : p.files[g] = s.files[g]
    BY DEF Replaced
<1>3. /\ Good(r)
      /\ DOMAIN r.files = DOMAIN p.files
      /\ \A g \in DOMAIN p.files \ {f} : r.files[g] = p.files[g]
      /\ f \in HasData(r) /\ r.files[f].size = p.files[f].size
      /\ r.written = Append(p.written, r.index)
    BY <1>1, SavedGood
<1> HIDE DEF r
<1>4. QED BY <1>2, <1>3 DEF Saved, r

\* The block of a file with data.
LEMMA OwnBytes ==
    ASSUME NEW s, Good(s), NEW f \in HasData(s)
    PROVE  LET x == s.files[f].location
               n == s.files[f].length
           IN  /\ s \in State /\ f \in DOMAIN s.files /\ f \in Files
               /\ s.files[f] \in FileBlock
               /\ x \in Byte /\ x \in Int /\ 0 <= x
               /\ n \in Nat \ {0} /\ n > 0 /\ x + n <= DataSize
               /\ s.files[f].size \in Nat /\ s.files[f].size <= n
               /\ \A u : u \in Bytes(x, n) <=> u \in Byte /\ InFile(s, f, u)
               /\ \A u \in Byte : InFile(s, f, u) => u \notin FreeBytes(s)
               /\ \A o \in Nat : o < s.files[f].size => s.data[x + o] = <<f, o>>
<1> DEFINE x == s.files[f].location
           n == s.files[f].length
<1>1. s \in State /\ FilesOK(s) /\ Exact(s) /\ KeepsContents(s)
    BY DEF Good
<1>2. f \in DOMAIN s.files /\ f \in Files /\ s.files[f] \in FileBlock /\ n > 0
    BY <1>1, FileTypes DEF HasData
<1>3. x \in Byte /\ x \in Int /\ 0 <= x /\ n \in Int /\ s.files[f].size \in Nat
    BY <1>1, <1>2, BlockFields
<1>4. x + n <= DataSize /\ s.files[f].size <= n
    BY <1>1 DEF FilesOK
<1>5. \A u : InFile(s, f, u) <=> x <= u /\ u < x + n
    BY DEF InFile
<1> HIDE DEF x, n
<1>6. \A u : u \in Bytes(x, n) <=> u \in Byte /\ x <= u /\ u < x + n
    BY <1>3, <1>4 DEF Bytes, Byte
<1>7. \A u \in Byte : InFile(s, f, u) => u \notin FreeBytes(s)
    BY <1>1 DEF Exact
<1>8. \A o \in Nat : o < s.files[f].size => s.data[x + o] = <<f, o>>
    BY <1>1 DEF KeepsContents, x
<1>9. n \in Nat \ {0}
    BY <1>2, <1>3 DEF n
<1>10. QED BY <1>1, <1>2, <1>3, <1>4, <1>5, <1>6, <1>7, <1>8, <1>9 DEF x, n

\* When a record with a new block for f is as it must be before the index is
\* told: q has the free blocks, m the files and d the data.
Fits(s, f, q, block, m, d, p) ==
    /\ q \in State /\ SameFiles(s, q) /\ FreeOK(q)
    /\ block \in FileBlock /\ m \in FileMap /\ d \in [Byte -> Content]
    /\ DOMAIN m = DOMAIN s.files \cup {f} /\ m[f] = block
    /\ \A g \in DOMAIN s.files \ {f} : m[g] = s.files[g]
    /\ block.length > 0 /\ block.size <= block.length
    /\ block.location + block.length <= DataSize
    /\ block.index = IF f \in DOMAIN s.files THEN s.files[f].index ELSE 0
    /\ \/ p = [q EXCEPT !.files = m] /\ d = q.data
       \/ p = [q EXCEPT !.files = m, !.data = d]
    /\ \A u \in Byte : u \in Bytes(block.location, block.length) => OrFree(s, f, u)
    /\ \A u \in Byte : u \in FreeBytes(q) <=>
            OrFree(s, f, u) /\ u \notin Bytes(block.location, block.length)
    /\ \A u \in Byte : ~OrFree(s, f, u) => d[u] = s.data[u]
    /\ \A o \in Nat : o < block.size => d[block.location + o] = <<f, o>>

LEMMA Replaces ==
    ASSUME NEW s, NEW f, NEW q, NEW block, NEW m, NEW d, NEW p,
           Fits(s, f, q, block, m, d, p)
    PROVE  Replaced(s, p, f) /\ p.written = s.written /\ p.files[f] = block
<1>1. /\ p \in State /\ p.files = m /\ p.data = d
      /\ p.byLocation = q.byLocation /\ p.byLength = q.byLength
      /\ p.holes = s.holes /\ p.index = s.index /\ p.written = s.written
    <2>1. /\ p \in State /\ p.files = m /\ p.data = d
          /\ p.byLocation = q.byLocation /\ p.byLength = q.byLength
          /\ p.holes = q.holes /\ p.index = q.index /\ p.written = q.written
        <3>1. /\ q \in State /\ m \in FileMap /\ d \in [Byte -> Content]
              /\ \/ p = [q EXCEPT !.files = m] /\ d = q.data
                 \/ p = [q EXCEPT !.files = m, !.data = d]
            BY DEF Fits
        <3>2. CASE p = [q EXCEPT !.files = m] /\ d = q.data
            BY <3>1, <3>2 DEF State
        <3>3. CASE p = [q EXCEPT !.files = m, !.data = d]
            BY <3>1, <3>3 DEF State
        <3>4. QED BY <3>1, <3>2, <3>3
    <2>2. QED BY <2>1 DEF Fits, SameFiles
<1>2. FreeOK(p) /\ FreeBytes(p) = FreeBytes(q)
    BY <1>1, SameFreeSpace DEF Fits
<1>3. \A u \in Byte : InFile(p, f, u) <=> u \in Bytes(block.location, block.length)
    <2>1. \A u \in Byte : u \in Int
        BY DEF Byte
    <2>2. block.location \in Int /\ block.length \in Int
        BY DEF Fits, FileBlock, Byte
    <2>3. p.files[f] = block
        BY <1>1 DEF Fits
    <2>4. QED BY <2>1, <2>2, <2>3 DEF InFile, Bytes
<1>4. QED BY <1>1, <1>2, <1>3 DEF Fits, Replaced

LEMMA ShrunkFacts ==
    ASSUME NEW s, Good(s), NEW f \in HasData(s), NEW size \in Nat \ {0},
           s.files[f].size <= size, size < s.files[f].length
    PROVE  \E p : /\ Replaced(s, p, f) /\ p.written = s.written
                  /\ p.files[f].size = s.files[f].size
                  /\ Shrunk(s, f, size) = Sync(p, f, FALSE)
<1> DEFINE old   == s.files[f]
           x     == old.location
           n     == old.length
           freed == AddFreeBlock(s, x + size, n - size)
           block == [old EXCEPT !.length = size]
           m     == [s.files EXCEPT ![f] = block]
           p     == [freed EXCEPT !.files = m]
<1>1. /\ s \in State /\ f \in DOMAIN s.files /\ f \in Files /\ old \in FileBlock
      /\ x \in Byte /\ x \in Int /\ 0 <= x
      /\ n \in Nat \ {0} /\ n > 0 /\ x + n <= DataSize
      /\ old.size \in Nat /\ old.size <= n
      /\ \A u : u \in Bytes(x, n) <=> u \in Byte /\ InFile(s, f, u)
      /\ \A u \in Byte : InFile(s, f, u) => u \notin FreeBytes(s)
      /\ \A o \in Nat : o < old.size => s.data[x + o] = <<f, o>>
    BY OwnBytes
<1>2. FreeOK(s)
    BY DEF Good
<1>3. /\ block \in FileBlock /\ block.location = x /\ block.length = size
      /\ block.size = old.size /\ block.index = old.index
    BY <1>1 DEF FileBlock
<1>4. m \in FileMap
    <2>1. s.files \in FileMap
        BY <1>1 DEF State
    <2>2. QED BY <1>1, <1>3, <2>1, PutFile
<1>5. /\ DOMAIN m = DOMAIN s.files \cup {f} /\ m[f] = block
      /\ \A g \in DOMAIN s.files \ {f} : m[g] = s.files[g]
    BY <1>1, FileTypes
<1> HIDE DEF x, n, m, block
<1>6. /\ x + size \in Byte /\ n - size \in Nat \ {0}
      /\ (x + size) + (n - size) <= DataSize
      /\ \A u : u \in Bytes(x, n) <=> u \in Bytes(x, size) \/ u \in Bytes(x + size, n - size)
      /\ \A u : u \in Bytes(x, size) => u \notin Bytes(x + size, n - size)
    BY <1>1 DEF Bytes, Byte, n, x
<1>7. \A u \in Bytes(x + size, n - size) : u \notin FreeBytes(s)
    BY <1>1, <1>6
<1>8. /\ freed \in State /\ SameFiles(s, freed) /\ FreeOK(freed)
      /\ FreeBytes(freed) = FreeBytes(s) \cup Bytes(x + size, n - size)
      /\ \A u \in Byte \ Bytes(x + size, n - size) : freed.data[u] = s.data[u]
    BY <1>1, <1>2, <1>6, <1>7, AddFreeFacts
<1>9. Shrunk(s, f, size) = Sync(p, f, FALSE)
    <2>1. [freed EXCEPT !.files[f].length = size] = p
        BY <1>8 DEF m, block, SameFiles
    <2>2. QED BY <2>1 DEF Shrunk, x, n
<1> HIDE DEF freed
<1>10. freed.data \in [Byte -> Content]
    BY <1>8 DEF State
<1>11. \A u \in Byte : u \in Bytes(x, size) => OrFree(s, f, u)
    BY <1>1, <1>6 DEF OrFree
<1>12. \A u \in Byte : u \in FreeBytes(freed) <=> OrFree(s, f, u) /\ u \notin Bytes(x, size)
    BY <1>1, <1>6, <1>8 DEF OrFree
<1>13. \A u \in Byte : ~OrFree(s, f, u) => freed.data[u] = s.data[u]
    BY <1>1, <1>6, <1>8 DEF OrFree
<1>14. \A o \in Nat : o < old.size => freed.data[x + o] = <<f, o>>
    <2> SUFFICES ASSUME NEW o \in Nat, o < old.size
                 PROVE  freed.data[x + o] = <<f, o>>
        OBVIOUS
    <2>1. x + o \in Byte /\ x + o \in Bytes(x, size)
        BY <1>1 DEF Bytes, Byte, n
    <2>2. QED BY <1>1, <1>6, <1>8, <2>1
<1>15. Replaced(s, p, f) /\ p.written = s.written /\ p.files[f] = block
    <2>1. /\ block.length > 0 /\ block.size <= block.length
          /\ block.location + block.length <= DataSize
          /\ block.index = IF f \in DOMAIN s.files THEN s.files[f].index ELSE 0
        BY <1>1, <1>3 DEF n
    <2> HIDE DEF p
    <2>2. p = [freed EXCEPT !.files = m] /\ freed.data = freed.data
        BY DEF p
    <2>3. \A u \in Byte : u \in Bytes(block.location, block.length) => OrFree(s, f, u)
        BY <1>3, <1>11
    <2>4. \A u \in Byte : u \in FreeBytes(freed) <=>
                OrFree(s, f, u) /\ u \notin Bytes(block.location, block.length)
        BY <1>3, <1>12
    <2>5. \A o \in Nat : o < block.size => freed.data[block.location + o] = <<f, o>>
        BY <1>3, <1>14
    <2>6. Fits(s, f, freed, block, m, freed.data, p)
        BY <1>1, <1>3, <1>4, <1>5, <1>8, <1>10, <1>13, <2>1, <2>2, <2>3, <2>4, <2>5 DEF Fits
    <2>7. QED BY <1>3, <2>6, Replaces
<1>16. QED BY <1>3, <1>9, <1>15

LEMMA GrownFacts ==
    ASSUME NEW s, Good(s), NEW f \in HasData(s), NEW size \in Nat,
           size > s.files[f].length, GrowsInPlace(s, f, size)
    PROVE  \E p : /\ Replaced(s, p, f) /\ p.written = s.written
                  /\ p.files[f].size = s.files[f].size
                  /\ Grown(s, f, size) = Sync(p, f, FALSE)
<1> DEFINE old   == s.files[f]
           x     == old.location
           n     == old.length
           used  == UseFreeSpace(s, x + n, size - n)
           block == [old EXCEPT !.length = size]
           m     == [s.files EXCEPT ![f] = block]
           p     == [used EXCEPT !.files = m]
<1>1. /\ s \in State /\ f \in DOMAIN s.files /\ f \in Files /\ old \in FileBlock
      /\ x \in Byte /\ x \in Int /\ 0 <= x
      /\ n \in Nat \ {0} /\ n > 0 /\ x + n <= DataSize
      /\ old.size \in Nat /\ old.size <= n
      /\ \A u : u \in Bytes(x, n) <=> u \in Byte /\ InFile(s, f, u)
      /\ \A u \in Byte : InFile(s, f, u) => u \notin FreeBytes(s)
      /\ \A o \in Nat : o < old.size => s.data[x + o] = <<f, o>>
    BY OwnBytes
<1>2. FreeOK(s) /\ x + n \in Blocks(s) /\ s.byLocation[x + n] >= size - n
    BY DEF Good, GrowsInPlace
<1>3. /\ block \in FileBlock /\ block.location = x /\ block.length = size
      /\ block.size = old.size /\ block.index = old.index
    BY <1>1 DEF FileBlock
<1>4. m \in FileMap
    <2>1. s.files \in FileMap
        BY <1>1 DEF State
    <2>2. QED BY <1>1, <1>3, <2>1, PutFile
<1>5. /\ DOMAIN m = DOMAIN s.files \cup {f} /\ m[f] = block
      /\ \A g \in DOMAIN s.files \ {f} : m[g] = s.files[g]
    BY <1>1, FileTypes
<1>6. s.byLocation[x + n] \in Nat
    BY <1>1, <1>2, BlockTypes
<1>7. size > n
    OBVIOUS
<1> HIDE DEF x, n, m, block
<1>8. size - n \in Nat \ {0} /\ size - n <= s.byLocation[x + n]
    BY <1>1, <1>2, <1>6, <1>7
<1>9. /\ used \in State /\ SameFiles(s, used) /\ FreeOK(used)
      /\ Bytes(x + n, size - n) \subseteq FreeBytes(s)
      /\ FreeBytes(used) = FreeBytes(s) \ Bytes(x + n, size - n)
      /\ \A u \in Byte \ FreeBytes(s) : used.data[u] = s.data[u]
      /\ (x + n) + (size - n) <= DataSize
    BY <1>1, <1>2, <1>8, UseFreeFacts
<1>10. /\ x + size <= DataSize
       /\ \A u : u \in Bytes(x, size) <=> u \in Bytes(x, n) \/ u \in Bytes(x + n, size - n)
    <2>1. x + size <= DataSize
        BY <1>1, <1>9
    <2>2. QED BY <1>1, <1>7, <2>1 DEF Bytes
<1>11. Grown(s, f, size) = Sync(p, f, FALSE)
    <2>1. [used EXCEPT !.files[f].length = size] = p
        BY <1>9 DEF m, block, SameFiles
    <2>2. QED BY <2>1 DEF Grown, x, n
<1> HIDE DEF used
<1>12. used.data \in [Byte -> Content]
    BY <1>9 DEF State
<1>13. \A u \in Byte : u \in Bytes(x, size) => OrFree(s, f, u)
    BY <1>1, <1>9, <1>10 DEF OrFree
<1>14. \A u \in Byte : u \in FreeBytes(used) <=> OrFree(s, f, u) /\ u \notin Bytes(x, size)
    BY <1>1, <1>9, <1>10 DEF OrFree
<1>15. \A u \in Byte : ~OrFree(s, f, u) => used.data[u] = s.data[u]
    BY <1>9 DEF OrFree
<1>16. \A o \in Nat : o < old.size => used.data[x + o] = <<f, o>>
    <2> SUFFICES ASSUME NEW o \in Nat, o < old.size
                 PROVE  used.data[x + o] = <<f, o>>
        OBVIOUS
    <2>1. x + o \in Bytes(x, n)
        BY <1>1 DEF Bytes, Byte, n
    <2>2. QED BY <1>1, <1>9, <2>1
<1>17. Replaced(s, p, f) /\ p.written = s.written /\ p.files[f] = block
    <2>1. /\ block.length > 0 /\ block.size <= block.length
          /\ block.location + block.length <= DataSize
          /\ block.index = IF f \in DOMAIN s.files THEN s.files[f].index ELSE 0
        BY <1>1, <1>3, <1>7, <1>10
    <2> HIDE DEF p
    <2>2. p = [used EXCEPT !.files = m] /\ used.data = used.data
        BY DEF p
    <2>3. \A u \in Byte : u \in Bytes(block.location, block.length) => OrFree(s, f, u)
        BY <1>3, <1>13
    <2>4. \A u \in Byte : u \in FreeBytes(used) <=>
                OrFree(s, f, u) /\ u \notin Bytes(block.location, block.length)
        BY <1>3, <1>14
    <2>5. \A o \in Nat : o < block.size => used.data[block.location + o] = <<f, o>>
        BY <1>3, <1>16
    <2>6. Fits(s, f, used, block, m, used.data, p)
        BY <1>1, <1>3, <1>4, <1>5, <1>9, <1>12, <1>15, <2>1, <2>2, <2>3, <2>4, <2>5 DEF Fits
    <2>7. QED BY <1>3, <2>6, Replaces
<1>18. QED BY <1>3, <1>11, <1>17

LEMMA MovedFacts ==
    ASSUME NEW s, Good(s), NEW f \in HasData(s), NEW size \in Nat,
           size > s.files[f].length, NEW location \in BestFit(s, size)
    PROVE  \E p : /\ Replaced(s, p, f) /\ p.written = s.written
                  /\ p.files[f].size = s.files[f].size
                  /\ Moved(s, f, location, size) = Sync(p, f, FALSE)
<1> DEFINE old   == s.files[f]
           x     == old.location
           n     == old.length
           k     == old.size
           used  == UseFreeSpace(s, location, size)
           freed == AddFreeBlock(used, x, n)
           block == [old EXCEPT !.location = location, !.length = size]
           m     == [s.files EXCEPT ![f] = block]
           d     == [u \in Byte |-> IF u \in Bytes(location, k)
                                    THEN used.data[x + (u - location)] ELSE freed.data[u]]
           p     == [freed EXCEPT !.files = m, !.data = d]
<1>1. /\ s \in State /\ f \in DOMAIN s.files /\ f \in Files /\ old \in FileBlock
      /\ x \in Byte /\ x \in Int /\ 0 <= x
      /\ n \in Nat \ {0} /\ n > 0 /\ x + n <= DataSize
      /\ k \in Nat /\ k <= n
      /\ \A u : u \in Bytes(x, n) <=> u \in Byte /\ InFile(s, f, u)
      /\ \A u \in Byte : InFile(s, f, u) => u \notin FreeBytes(s)
      /\ \A o \in Nat : o < k => s.data[x + o] = <<f, o>>
    BY OwnBytes
<1>2. FreeOK(s) /\ location \in Blocks(s) /\ s.byLocation[location] >= size
    <2>1. FreeOK(s)
        BY DEF Good
    <2>2. QED BY <1>1, <2>1, BestFitFacts
<1>3. location \in Byte /\ location \in Int /\ 0 <= location /\ s.byLocation[location] \in Nat
    <2>1. location \in Byte /\ s.byLocation[location] \in Nat
        BY <1>1, <1>2, BlockTypes
    <2>2. QED BY <2>1 DEF Byte
<1>4. /\ block \in FileBlock /\ block.location = location /\ block.length = size
      /\ block.size = old.size /\ block.index = old.index
    <2>1. block = [old EXCEPT !.location = location, !.length = size] /\ size \in Int
        OBVIOUS
    <2> HIDE DEF block, old
    <2>2. QED BY <1>1, <1>3, <2>1 DEF FileBlock
<1>5. m \in FileMap
    <2>1. s.files \in FileMap
        BY <1>1 DEF State
    <2>2. QED BY <1>1, <1>4, <2>1, PutFile
<1>6. /\ DOMAIN m = DOMAIN s.files \cup {f} /\ m[f] = block
      /\ \A g \in DOMAIN s.files \ {f} : m[g] = s.files[g]
    BY <1>1, FileTypes
<1>7. size > n
    OBVIOUS
<1>8. Moved(s, f, location, size) = Sync([freed EXCEPT !.files[f].location = location,
                                                       !.files[f].length = size,
                                                       !.data = d], f, FALSE)
    BY DEF Moved
<1> HIDE DEF x, n, k, m, block
<1>9. size \in Nat \ {0} /\ size <= s.byLocation[location]
    BY <1>1, <1>2, <1>3, <1>7
<1>10. /\ used \in State /\ SameFiles(s, used) /\ FreeOK(used)
       /\ Bytes(location, size) \subseteq FreeBytes(s)
       /\ FreeBytes(used) = FreeBytes(s) \ Bytes(location, size)
       /\ \A u \in Byte \ FreeBytes(s) : used.data[u] = s.data[u]
       /\ location + size <= DataSize
    BY <1>1, <1>2, <1>9, UseFreeFacts
<1>11. \A u \in Bytes(x, n) : u \notin FreeBytes(used)
    BY <1>1, <1>10
<1> HIDE DEF used
<1>12. /\ freed \in State /\ SameFiles(used, freed) /\ FreeOK(freed)
       /\ FreeBytes(freed) = FreeBytes(used) \cup Bytes(x, n)
       /\ \A u \in Byte \ Bytes(x, n) : freed.data[u] = used.data[u]
    BY <1>1, <1>10, <1>11, AddFreeFacts
<1>13. SameFiles(s, freed)
    BY <1>10, <1>12 DEF SameFiles
<1> HIDE DEF freed
<1>14. [freed EXCEPT !.files[f].location = location, !.files[f].length = size, !.data = d] = p
    BY <1>1, <1>12, <1>13 DEF m, block, SameFiles, State
<1>15. used.data \in [Byte -> Content] /\ freed.data \in [Byte -> Content]
    BY <1>10, <1>12 DEF State
<1>16. \A u \in Bytes(location, k) : u \in Bytes(location, size) /\ x + (u - location) \in Byte
    BY <1>1, <1>3, <1>7 DEF Bytes, Byte
<1>17. d \in [Byte -> Content]
    BY <1>15, <1>16
<1>18. \A u \in Byte : u \in Bytes(location, size) => OrFree(s, f, u)
    BY <1>10 DEF OrFree
<1>19. \A u \in Byte : u \in FreeBytes(freed) <=> OrFree(s, f, u) /\ u \notin Bytes(location, size)
    BY <1>1, <1>10, <1>12 DEF OrFree
<1>20. \A u \in Byte : ~OrFree(s, f, u) => d[u] = s.data[u]
    <2> SUFFICES ASSUME NEW u \in Byte, ~OrFree(s, f, u)
                 PROVE  d[u] = s.data[u]
        OBVIOUS
    <2>1. u \notin FreeBytes(s) /\ u \notin Bytes(x, n) /\ u \notin Bytes(location, k)
        BY <1>1, <1>10, <1>16 DEF OrFree
    <2>2. d[u] = freed.data[u]
        BY <2>1
    <2>3. QED BY <1>10, <1>12, <2>1, <2>2
<1>21. \A o \in Nat : o < k => d[location + o] = <<f, o>>
    <2> SUFFICES ASSUME NEW o \in Nat, o < k
                 PROVE  d[location + o] = <<f, o>>
        OBVIOUS
    <2>1. /\ location + o \in Bytes(location, k) /\ location + o \in Byte
          /\ x + ((location + o) - location) = x + o /\ x + o \in Bytes(x, n)
        BY <1>1, <1>3, <1>7, <1>10 DEF Bytes, Byte
    <2>2. d[location + o] = used.data[x + o]
        BY <2>1
    <2>3. used.data[x + o] = s.data[x + o]
        BY <1>1, <1>10, <2>1
    <2>4. QED BY <1>1, <2>2, <2>3
<1>22. Replaced(s, p, f) /\ p.written = s.written /\ p.files[f] = block
    <2>1. /\ block.length > 0 /\ block.size <= block.length
          /\ block.location + block.length <= DataSize
          /\ block.index = IF f \in DOMAIN s.files THEN s.files[f].index ELSE 0
        BY <1>1, <1>4, <1>7, <1>10 DEF k
    <2> HIDE DEF d
    <2>2. p = [freed EXCEPT !.files = m, !.data = d]
        OBVIOUS
    <2> HIDE DEF p
    <2>3. \A u \in Byte : u \in Bytes(block.location, block.length) => OrFree(s, f, u)
        BY <1>4, <1>18
    <2>4. \A u \in Byte : u \in FreeBytes(freed) <=>
                OrFree(s, f, u) /\ u \notin Bytes(block.location, block.length)
        BY <1>4, <1>19
    <2>5. \A o \in Nat : o < block.size => d[block.location + o] = <<f, o>>
        BY <1>4, <1>21 DEF k
    <2>6. Fits(s, f, freed, block, m, d, p)
        BY <1>1, <1>4, <1>5, <1>6, <1>12, <1>13, <1>17, <1>20, <2>1, <2>2, <2>3, <2>4, <2>5
           DEF Fits
    <2>7. QED BY <2>6, Replaces
<1>23. QED BY <1>4, <1>8, <1>14, <1>22

LEMMA PlacedFacts ==
    ASSUME NEW s, Good(s), NEW f \in Files, f \notin HasData(s), NEW size \in Nat \ {0},
           NEW location \in BestFit(s, size)
    PROVE  \E p : /\ Replaced(s, p, f) /\ p.written = s.written
                  /\ Placed(s, f, location, size) = Sync(p, f, FALSE)
<1> DEFINE used  == UseFreeSpace(s, location, size)
           dummy == IF f \in DOMAIN s.files THEN s.files[f] ELSE Dummy(0)
           time  == Time(s)
           block == [dummy EXCEPT !.location = location, !.length = size, !.time = time]
           m     == [g \in DOMAIN s.files \cup {f} |-> IF g = f THEN block ELSE s.files[g]]
           p     == [used EXCEPT !.files = m]
<1>1. s \in State /\ FreeOK(s) /\ FilesOK(s) /\ Exact(s)
    BY DEF Good
<1>2. location \in Blocks(s) /\ s.byLocation[location] >= size
    BY <1>1, BestFitFacts
<1>3. location \in Byte /\ location \in Int /\ 0 <= location /\ s.byLocation[location] \in Nat
    <2>1. location \in Byte /\ s.byLocation[location] \in Nat
        BY <1>1, <1>2, BlockTypes
    <2>2. QED BY <2>1 DEF Byte
<1>4. time \in Nat
    BY <1>1, TimeType
<1>5. /\ dummy \in FileBlock /\ dummy.size = 0
      /\ dummy.index = IF f \in DOMAIN s.files THEN s.files[f].index ELSE 0
    <2>1. CASE f \in DOMAIN s.files
        BY <1>1, <2>1, FileTypes DEF FilesOK
    <2>2. CASE f \notin DOMAIN s.files
        <3>1. 0 \in Byte
            BY DEF Byte
        <3>2. QED BY <2>2, <3>1 DEF Dummy, FileBlock, BLOCK_LENGTH_INVALID
    <2>3. QED BY <2>1, <2>2
<1> HIDE DEF dummy, time
<1>6. /\ block \in FileBlock /\ block.location = location /\ block.length = size
      /\ block.size = 0 /\ block.index = dummy.index
    <2>1. /\ block = [dummy EXCEPT !.location = location, !.length = size, !.time = time]
          /\ size \in Int
        OBVIOUS
    <2> HIDE DEF block
    <2>2. /\ block \in FileBlock /\ block.location = location /\ block.length = size
          /\ block.size = dummy.size /\ block.index = dummy.index
        BY <1>3, <1>4, <1>5, <2>1 DEF FileBlock
    <2>3. QED BY <1>5, <2>2
<1> HIDE DEF block
<1>7. m \in FileMap
    <2>1. s.files \in FileMap
        BY <1>1 DEF State
    <2>2. QED BY <1>6, <2>1, PutFile
<1>8. /\ DOMAIN m = DOMAIN s.files \cup {f} /\ m[f] = block
      /\ \A g \in DOMAIN s.files \ {f} : m[g] = s.files[g]
    OBVIOUS
<1>9. Placed(s, f, location, size) = Sync(p, f, FALSE)
    BY DEF Placed, block, dummy, time
<1> HIDE DEF m
<1>10. /\ used \in State /\ SameFiles(s, used) /\ FreeOK(used)
       /\ Bytes(location, size) \subseteq FreeBytes(s)
       /\ FreeBytes(used) = FreeBytes(s) \ Bytes(location, size)
       /\ \A u \in Byte \ FreeBytes(s) : used.data[u] = s.data[u]
       /\ location + size <= DataSize
    BY <1>1, <1>2, <1>3, UseFreeFacts
<1> HIDE DEF used
<1>11. used.data \in [Byte -> Content]
    BY <1>10 DEF State
<1>12. /\ block.length > 0 /\ block.size <= block.length
       /\ block.location + block.length <= DataSize
       /\ block.index = IF f \in DOMAIN s.files THEN s.files[f].index ELSE 0
    BY <1>5, <1>6, <1>10
<1>13. /\ p = [used EXCEPT !.files = m]
       /\ used.data = used.data
    OBVIOUS
<1> HIDE DEF p
<1>14. \A u \in Byte : u \in Bytes(block.location, block.length) => OrFree(s, f, u)
    BY <1>6, <1>10 DEF OrFree
<1>15. \A u \in Byte : u \in FreeBytes(used) <=>
            OrFree(s, f, u) /\ u \notin Bytes(block.location, block.length)
    BY <1>6, <1>10 DEF OrFree
<1>16. \A u \in Byte : ~OrFree(s, f, u) => used.data[u] = s.data[u]
    BY <1>10 DEF OrFree
<1>17. \A o \in Nat : o < block.size => used.data[block.location + o] = <<f, o>>
    BY <1>6
<1>18. Fits(s, f, used, block, m, used.data, p)
    BY <1>6, <1>7, <1>8, <1>10, <1>11, <1>12, <1>13, <1>14, <1>15, <1>16, <1>17 DEF Fits
<1>19. Replaced(s, p, f) /\ p.written = s.written
    BY <1>18, Replaces
<1>20. QED BY <1>9, <1>19

\* What the operations promise: a file that was locked, and is still there, has
\* its data, and all that was written to the index before the end only
\* clears entries.
Ending(r, idx) ==
    \A k \in DOMAIN r.written : k < Len(r.written) => Cleared(r.written[k], idx)

Operation(s, r) ==
    /\ Good(r)
    /\ \A g \in HasData(s) : s.files[g].locks > 0 /\ g \in DOMAIN r.files =>
            g \in HasData(r) /\ s.files[g].size <= r.files[g].size
    /\ \A idx : OnlyClears(s, idx) => Ending(r, idx)

\* How far an operation on f may have come when f's entry is to be saved.
Before(s, q, f) ==
    /\ Good(q)
    /\ \A g \in HasData(s) \ {f} :
            s.files[g].locks > 0 => g \in DOMAIN q.files /\ q.files[g] = s.files[g]
    /\ \A idx : OnlyClears(s, idx) => OnlyClears(q, idx)

LEMMA EndsWithSave ==
    ASSUME NEW q \in State, NEW r, NEW idx, OnlyClears(q, idx),
           r.written = Append(q.written, r.index)
    PROVE  Ending(r, idx)
<1>1. q.written \in Seq(Seq(IndexEntry))
    BY DEF State
<1>2. /\ DOMAIN r.written = 1 .. Len(q.written) + 1 /\ Len(q.written) \in Nat
      /\ Len(r.written) = Len(q.written) + 1
      /\ DOMAIN q.written = 1 .. Len(q.written)
      /\ \A k \in 1 .. Len(q.written) : r.written[k] = q.written[k]
    BY <1>1
<1>3. ASSUME NEW k \in DOMAIN r.written, k < Len(r.written)
      PROVE  k \in DOMAIN q.written /\ r.written[k] = q.written[k]
    BY <1>2, <1>3
<1>4. QED BY <1>3 DEF Ending, OnlyClears

LEMMA OperationSaves ==
    ASSUME NEW s, NEW q, NEW f \in Files, Before(s, q, f),
           NEW p, Replaced(q, p, f), p.written = q.written,
           f \in HasData(s) => s.files[f].size <= p.files[f].size
    PROVE  Operation(s, Sync(p, f, FALSE))
<1> DEFINE r == Sync(p, f, FALSE)
<1>1. Good(q) /\ q \in State
    BY DEF Before, Good
<1>2. /\ Good(r)
      /\ DOMAIN r.files = DOMAIN q.files \cup {f}
      /\ \A g \in DOMAIN q.files \ {f} : r.files[g] = q.files[g]
      /\ f \in HasData(r) /\ r.files[f].size = p.files[f].size
      /\ r.written = Append(q.written, r.index)
    <2>1. Saved(q, p, f, r)
        BY <1>1, ReplacedFacts
    <2> HIDE DEF r
    <2>2. QED BY <2>1 DEF Saved
<1> HIDE DEF r
<1>3. \A idx : OnlyClears(s, idx) => Ending(r, idx)
    BY <1>1, <1>2, EndsWithSave DEF Before
<1>4. ASSUME NEW g \in HasData(s), s.files[g].locks > 0
      PROVE  g \in HasData(r) /\ s.files[g].size <= r.files[g].size
    <2>1. CASE g = f
        BY <1>2, <2>1
    <2>2. CASE g # f
        <3>1. g \in DOMAIN q.files /\ q.files[g] = s.files[g]
            BY <1>4, <2>2 DEF Before
        <3>2. r.files[g] = s.files[g] /\ g \in DOMAIN r.files
            BY <1>2, <2>2, <3>1
        <3>3. s.files[g].size \in Nat
            BY <1>1, <3>1, BlockFields
        <3>4. s.files[g].size <= s.files[g].size
            BY <3>3
        <3>5. QED BY <3>2, <3>4 DEF HasData
    <2>3. QED BY <2>1, <2>2
<1>5. QED BY <1>2, <1>3, <1>4 DEF Operation, r

\* Nothing is saved when no room could be made.
LEMMA OperationEnds ==
    ASSUME NEW s, NEW q, NEW f, Before(s, q, f),
           f \in HasData(s) => f \in HasData(q) /\ q.files[f].size = s.files[f].size
    PROVE  Operation(s, q)
<1>1. Good(q) /\ q \in State
    BY DEF Before, Good
<1>2. \A idx : OnlyClears(s, idx) => Ending(q, idx)
    BY DEF Before, OnlyClears, Ending
<1>3. ASSUME NEW g \in HasData(s), s.files[g].locks > 0
      PROVE  g \in HasData(q) /\ s.files[g].size <= q.files[g].size
    <2>1. g \in HasData(q) /\ q.files[g].size = s.files[g].size
        <3>1. CASE g = f
            BY <3>1
        <3>2. CASE g # f
            BY <1>3, <3>2 DEF Before, HasData
        <3>3. QED BY <3>1, <3>2
    <2>2. q.files[g].size \in Nat
        BY <1>1, <2>1, BlockFields DEF HasData
    <2>3. QED BY <2>1, <2>2
<1>4. QED BY <1>1, <1>2, <1>3 DEF Operation

\* An access, and then perhaps room is made, comes before.
LEMMA BeforeAccessed ==
    ASSUME NEW s, Good(s), NEW f \in DOMAIN s.files
    PROVE  Before(s, Accessed(s, f), f)
<1> DEFINE r == Accessed(s, f)
<1>1. /\ Good(r)
      /\ DOMAIN r.files = DOMAIN s.files
      /\ \A g \in DOMAIN s.files \ {f} : r.files[g] = s.files[g]
      /\ r.index = s.index /\ r.written = s.written
    BY AccessedFacts
<1> HIDE DEF r
<1>2. \A g \in HasData(s) : g \in DOMAIN s.files
    BY DEF HasData
<1>3. QED BY <1>1, <1>2 DEF Before, OnlyClears, r

LEMMA BeforeRoom ==
    ASSUME NEW s, NEW q, NEW f, Before(s, q, f), NEW size, NEW immune
    PROVE  /\ Before(s, MakeRoom(q, size, immune), f)
           /\ Roomier(q, MakeRoom(q, size, immune), immune)
<1> DEFINE r == MakeRoom(q, size, immune)
<1>1. Good(q)
    BY DEF Before
<1>2. Roomier(q, r, immune)
    BY <1>1, MakeRoomFacts
<1> HIDE DEF r
<1>3. ASSUME NEW g \in HasData(s) \ {f}, s.files[g].locks > 0
      PROVE  g \in DOMAIN r.files /\ r.files[g] = s.files[g]
    <2>1. g \in DOMAIN q.files /\ q.files[g] = s.files[g]
        BY <1>3 DEF Before
    <2>2. g \notin LRUList(q, immune)
        <3>1. q.files[g].locks # 0
            BY <1>3, <2>1
        <3>2. QED BY <3>1 DEF LRUList
    <2>3. QED BY <1>2, <2>1, <2>2 DEF Roomier
<1>4. QED BY <1>2, <1>3 DEF Before, Roomier, r

LEMMA SetMaxSizeFacts ==
    ASSUME NEW s, Good(s), NEW f \in Files, NEW size \in Nat \ {0},
           f \in HasData(s) => s.files[f].size <= size,
           NEW r \in SetMaxSizeOf(s, f, size)
    PROVE  Operation(s, r)
<1> DEFINE touched == Accessed(s, f)
           room    == MakeRoom(touched, size, {f})
           free    == MakeRoom(s, size, {})
<1>1. CASE f \in HasData(s)
    <2>1. f \in DOMAIN s.files /\ s \in State
        BY <1>1 DEF HasData, Good
    <2>2. s.files[f] \in FileBlock /\ s.files[f].length \in Int /\ s.files[f].size \in Nat
        BY <2>1, FileTypes, BlockFields
    <2>3. Before(s, touched, f)
        BY <2>1, BeforeAccessed
    <2>4. touched.files[f] = [s.files[f] EXCEPT !.time = Time(s)]
            /\ HasData(touched) = HasData(s) /\ Good(touched)
        BY <2>1, AccessedFacts
    <2>5. Before(s, room, f) /\ Roomier(touched, room, {f})
        BY <2>3, BeforeRoom
    <2>6. \/ r = touched
          \/ size < s.files[f].length /\ r = Shrunk(touched, f, size)
          \/ size > s.files[f].length /\ GrowsInPlace(touched, f, size)
                /\ r = Grown(touched, f, size)
          \/ r = room
          \/ size > s.files[f].length
                /\ \E location \in BestFit(room, size) : r = Moved(room, f, location, size)
        <3>1. \/ size = s.files[f].length \/ size < s.files[f].length
              \/ size > s.files[f].length
            BY <2>2
        <3>2. CASE size = s.files[f].length
            BY <1>1, <3>2 DEF SetMaxSizeOf
        <3>3. CASE size < s.files[f].length
            <4>1. size # s.files[f].length
                BY <2>2, <3>3
            <4>2. QED BY <1>1, <2>2, <3>3, <4>1 DEF SetMaxSizeOf
        <3>4. CASE size > s.files[f].length
            <4>1. size # s.files[f].length /\ ~(size < s.files[f].length)
                BY <2>2, <3>4
            <4>2. CASE GrowsInPlace(touched, f, size)
                BY <1>1, <3>4, <4>1, <4>2 DEF SetMaxSizeOf
            <4>3. CASE ~GrowsInPlace(touched, f, size)
                BY <1>1, <3>4, <4>1, <4>3 DEF SetMaxSizeOf
            <4>4. QED BY <4>2, <4>3
        <3>5. QED BY <3>1, <3>2, <3>3, <3>4
    <2> HIDE DEF touched, room
    <2>7. /\ touched.files[f].length = s.files[f].length
          /\ touched.files[f].size = s.files[f].size
          /\ f \in HasData(touched) /\ f \in DOMAIN touched.files
        BY <1>1, <2>2, <2>4 DEF FileBlock, HasData
    <2>8. room.files[f] = touched.files[f] /\ f \in HasData(room) /\ Good(room)
        <3>1. f \notin LRUList(touched, {f})
            BY DEF LRUList
        <3>2. room.files[f] = touched.files[f] /\ f \in DOMAIN room.files /\ Good(room)
            BY <2>5, <2>7, <3>1 DEF Roomier
        <3>3. QED BY <2>7, <3>2 DEF HasData
    <2>9. CASE r = touched
        BY <2>3, <2>7, <2>9, OperationEnds
    <2>10. CASE size < s.files[f].length /\ r = Shrunk(touched, f, size)
        <3>1. touched.files[f].size <= size /\ size < touched.files[f].length
            BY <1>1, <2>7, <2>10
        <3>2. PICK p : /\ Replaced(touched, p, f) /\ p.written = touched.written
                       /\ p.files[f].size = touched.files[f].size
                       /\ Shrunk(touched, f, size) = Sync(p, f, FALSE)
            <4>1. /\ Good(touched) /\ f \in HasData(touched) /\ size \in Nat \ {0}
                  /\ touched.files[f].size <= size /\ size < touched.files[f].length
                BY <2>4, <2>7, <3>1
            <4>2. QED BY <4>1, ShrunkFacts
        <3>3. s.files[f].size <= p.files[f].size
            BY <2>2, <2>7, <3>2
        <3>4. QED BY <2>3, <2>10, <3>2, <3>3, OperationSaves
    <2>11. CASE size > s.files[f].length /\ GrowsInPlace(touched, f, size)
                    /\ r = Grown(touched, f, size)
        <3>1. size > touched.files[f].length
            BY <2>7, <2>11
        <3>2. PICK p : /\ Replaced(touched, p, f) /\ p.written = touched.written
                       /\ p.files[f].size = touched.files[f].size
                       /\ Grown(touched, f, size) = Sync(p, f, FALSE)
            <4>1. /\ Good(touched) /\ f \in HasData(touched) /\ size \in Nat
                  /\ size > touched.files[f].length /\ GrowsInPlace(touched, f, size)
                BY <2>4, <2>7, <2>11, <3>1
            <4>2. QED BY <4>1, GrownFacts
        <3>3. s.files[f].size <= p.files[f].size
            BY <2>2, <2>7, <3>2
        <3>4. QED BY <2>3, <2>11, <3>2, <3>3, OperationSaves
    <2>12. CASE r = room
        BY <2>5, <2>7, <2>8, <2>12, OperationEnds
    <2>13. CASE size > s.files[f].length
                    /\ \E location \in BestFit(room, size) : r = Moved(room, f, location, size)
        <3>1. PICK location \in BestFit(room, size) : r = Moved(room, f, location, size)
            BY <2>13
        <3>2. size > room.files[f].length
            BY <2>7, <2>8, <2>13
        <3>3. PICK p : /\ Replaced(room, p, f) /\ p.written = room.written
                       /\ p.files[f].size = room.files[f].size
                       /\ Moved(room, f, location, size) = Sync(p, f, FALSE)
            BY <2>8, <3>2, MovedFacts
        <3>4. s.files[f].size <= p.files[f].size
            BY <2>2, <2>7, <2>8, <3>3
        <3>5. QED BY <2>5, <3>1, <3>3, <3>4, OperationSaves
    <2>14. QED BY <2>6, <2>9, <2>10, <2>11, <2>12, <2>13
<1>2. CASE f \notin HasData(s)
    <2>1. Before(s, s, f)
        BY DEF Before, HasData
    <2>2. Before(s, free, f) /\ Roomier(s, free, {})
        BY <2>1, BeforeRoom
    <2>3. \/ r = free
          \/ \E location \in BestFit(free, size) : r = Placed(free, f, location, size)
        BY <1>2 DEF SetMaxSizeOf
    <2> HIDE DEF free
    <2>4. Good(free)
        BY <2>2 DEF Roomier
    <2>5. f \notin HasData(free)
        <3>1. ~(Dummy(0).length > 0)
            BY DEF Dummy, BLOCK_LENGTH_INVALID
        <3>2. QED BY <1>2, <2>2, <3>1 DEF Roomier, HasData
    <2>6. CASE r = free
        BY <1>2, <2>2, <2>6, OperationEnds
    <2>7. CASE \E location \in BestFit(free, size) : r = Placed(free, f, location, size)
        <3>1. PICK location \in BestFit(free, size) : r = Placed(free, f, location, size)
            BY <2>7
        <3>2. PICK p : /\ Replaced(free, p, f) /\ p.written = free.written
                       /\ Placed(free, f, location, size) = Sync(p, f, FALSE)
            BY <2>4, <2>5, PlacedFacts
        <3>3. QED BY <1>2, <2>2, <3>1, <3>2, OperationSaves
    <2>8. QED BY <2>3, <2>6, <2>7
<1>3. QED BY <1>1, <1>2

\* A write of n bytes within the block, after which the file has a size.
Wrote(s, f, location, n, size, d, m, p) ==
    /\ d = [u \in Byte |-> IF u \in Bytes(s.files[f].location + location, n)
                           THEN <<f, u - s.files[f].location>> ELSE s.data[u]]
    /\ m = [s.files EXCEPT ![f] = [s.files[f] EXCEPT !.size = size]]
    /\ p = [s EXCEPT !.files = m, !.data = d]

LEMMA WroteFacts ==
    ASSUME NEW s, Good(s), NEW f \in HasData(s),
           NEW location \in Nat, NEW n \in Nat, location <= s.files[f].size,
           location + n <= s.files[f].length,
           NEW size \in Nat, s.files[f].size <= size, location + n <= size,
           size = s.files[f].size \/ size = location + n,
           NEW d, NEW m, NEW p, Wrote(s, f, location, n, size, d, m, p)
    PROVE  /\ Replaced(s, p, f) /\ p.written = s.written /\ p.files[f].size = size
           /\ p.files = m
<1> DEFINE old   == s.files[f]
           x     == old.location
           k     == old.size
           len   == old.length
           block == [old EXCEPT !.size = size]
<1>1. /\ s \in State /\ f \in DOMAIN s.files /\ f \in Files /\ old \in FileBlock
      /\ x \in Byte /\ x \in Int /\ 0 <= x
      /\ len \in Nat \ {0} /\ len > 0 /\ x + len <= DataSize
      /\ k \in Nat /\ k <= len
      /\ \A u : u \in Bytes(x, len) <=> u \in Byte /\ InFile(s, f, u)
      /\ \A u \in Byte : InFile(s, f, u) => u \notin FreeBytes(s)
      /\ \A o \in Nat : o < k => s.data[x + o] = <<f, o>>
    BY OwnBytes
<1>2. FreeOK(s)
    BY DEF Good
<1>3. /\ block \in FileBlock /\ block.location = x /\ block.length = len
      /\ block.size = size /\ block.index = old.index
    BY <1>1 DEF FileBlock
<1>4. m \in FileMap
    <2>1. s.files \in FileMap
        BY <1>1 DEF State
    <2>2. m = [s.files EXCEPT ![f] = block]
        BY DEF Wrote
    <2>3. QED BY <1>1, <1>3, <2>1, <2>2, PutFile
<1>5. /\ DOMAIN m = DOMAIN s.files \cup {f} /\ m[f] = block
      /\ \A g \in DOMAIN s.files \ {f} : m[g] = s.files[g]
    BY <1>1, FileTypes DEF Wrote
<1>6. d = [u \in Byte |-> IF u \in Bytes(x + location, n) THEN <<f, u - x>> ELSE s.data[u]]
    BY DEF Wrote
<1>7. location + n <= len
    OBVIOUS
<1>8. size <= len
    BY <1>1, <1>7
<1> HIDE DEF x, len, block
<1>9. \A u \in Byte : u \in Bytes(x + location, n) => u \in Bytes(x, len) /\ u - x \in Nat
    BY <1>1, <1>7 DEF Bytes, Byte
<1>10. s.data \in [Byte -> Content]
    BY <1>1 DEF State
<1>11. d \in [Byte -> Content]
    <2>1. \A u \in Byte : u \in Bytes(x + location, n) => <<f, u - x>> \in Content
        BY <1>1, <1>9 DEF Content
    <2>2. QED BY <1>6, <1>10, <2>1
<1>12. \A u \in Byte : u \in Bytes(block.location, block.length) => OrFree(s, f, u)
    BY <1>1, <1>3 DEF OrFree
<1>13. \A u \in Byte : u \in FreeBytes(s) <=>
            OrFree(s, f, u) /\ u \notin Bytes(block.location, block.length)
    BY <1>1, <1>3 DEF OrFree
<1>14. \A u \in Byte : ~OrFree(s, f, u) => d[u] = s.data[u]
    BY <1>1, <1>6, <1>9 DEF OrFree
<1>15. \A o \in Nat : o < block.size => d[block.location + o] = <<f, o>>
    <2> SUFFICES ASSUME NEW o \in Nat, o < size
                 PROVE  d[x + o] = <<f, o>>
        BY <1>3
    <2>1. x + o \in Byte
        BY <1>1, <1>8 DEF Byte
    <2>2. CASE x + o \in Bytes(x + location, n)
        <3>1. d[x + o] = <<f, (x + o) - x>>
            BY <1>6, <2>1, <2>2
        <3>2. (x + o) - x = o
            BY <1>1
        <3>3. QED BY <3>1, <3>2
    <2>3. CASE x + o \notin Bytes(x + location, n)
        <3>1. d[x + o] = s.data[x + o]
            BY <1>6, <2>1, <2>3
        <3>2. o < k
            BY <1>1, <2>3 DEF Bytes
        <3>3. QED BY <1>1, <3>1, <3>2
    <2>4. QED BY <2>2, <2>3
<1>16. /\ block.length > 0 /\ block.size <= block.length
       /\ block.location + block.length <= DataSize
       /\ block.index = IF f \in DOMAIN s.files THEN s.files[f].index ELSE 0
    BY <1>1, <1>3, <1>8
<1>17. SameFiles(s, s)
    BY DEF SameFiles
<1>18. Fits(s, f, s, block, m, d, p)
    <2>1. p = [s EXCEPT !.files = m, !.data = d]
        BY DEF Wrote
    <2>2. QED BY <2>1, <1>1, <1>2, <1>3, <1>4, <1>5, <1>11, <1>12, <1>13, <1>14, <1>15, <1>16, <1>17
          DEF Fits
<1>19. Replaced(s, p, f) /\ p.written = s.written /\ p.files[f] = block
    BY <1>18, Replaces
<1>20. p.files = m
    BY <1>1 DEF State, Wrote
<1>21. QED BY <1>3, <1>19, <1>20

LEMMA StoredFacts ==
    ASSUME NEW s, Good(s), NEW f \in DOMAIN s.files,
           NEW location \in 0 .. s.files[f].size, NEW length \in Nat \ {0}
    PROVE  Operation(s, Stored(s, f, location, length))
<1> DEFINE block   == s.files[f]
           n       == Min({length, block.length - location})
           touched == Accessed(s, f)
           d == [u \in Byte |-> IF u \in Bytes(block.location + location, n)
                                THEN <<f, u - block.location>> ELSE touched.data[u]]
           wrote   == [touched EXCEPT !.data = d]
           grown   == [wrote EXCEPT !.files[f].size = location + n]
           r       == Stored(s, f, location, length)
<1>1. s \in State /\ FilesOK(s)
    BY DEF Good
<1>2. /\ block \in FileBlock /\ f \in Files
      /\ block.length \in Int /\ block.size \in Nat /\ block.location \in Int
    BY <1>1, FileTypes, BlockFields
<1>3. /\ Good(touched)
      /\ DOMAIN touched.files = DOMAIN s.files
      /\ touched.files[f] = [s.files[f] EXCEPT !.time = Time(s)]
      /\ HasData(touched) = HasData(s)
      /\ touched.written = s.written
    BY AccessedFacts
<1>4. Before(s, touched, f)
    BY BeforeAccessed
<1>5. r = IF block.length = BLOCK_LENGTH_INVALID THEN touched
          ELSE IF location + n <= block.size THEN wrote
          ELSE Sync(grown, f, FALSE)
    BY DEF Stored
<1> HIDE DEF touched, r
<1>6. /\ touched.files[f].length = block.length /\ touched.files[f].size = block.size
      /\ touched.files[f].location = block.location /\ touched.files[f].index = block.index
    <2> DEFINE time == Time(s)
    <2>1. touched.files[f] = [s.files[f] EXCEPT !.time = time]
        BY <1>3
    <2> HIDE DEF time
    <2>2. QED BY <1>2, <2>1 DEF FileBlock
<1>7. CASE block.length = BLOCK_LENGTH_INVALID
    <2>1. f \in HasData(s) => f \in HasData(touched) /\ touched.files[f].size = s.files[f].size
        BY <1>3, <1>6
    <2>2. r = touched
        BY <1>5, <1>7
    <2>3. QED BY <1>4, <2>1, <2>2, OperationEnds DEF r
<1>8. CASE block.length # BLOCK_LENGTH_INVALID
    <2>1. f \in HasData(s)
        BY <1>1, <1>8 DEF FilesOK
    <2>2. block.size <= block.length
        BY <1>1, <2>1 DEF FilesOK
    <2>3. /\ n \in Nat /\ location \in Nat /\ location <= block.size
          /\ location + n <= block.length
        <3>1. length \in Int /\ block.length - location \in Int
            BY <1>2
        <3>2. length <= block.length - location \/ block.length - location <= length
            BY <3>1
        <3>3. \/ n = length /\ length <= block.length - location
              \/ n = block.length - location
            BY <3>1, <3>2, MinMax
        <3> HIDE DEF n, block
        <3>4. location \in Int /\ 0 <= location /\ location <= block.size
            BY <1>2 DEF block
        <3>5. QED BY <1>2, <2>2, <3>3, <3>4
    <2>4. f \in HasData(touched) /\ touched \in State
        BY <1>3, <2>1 DEF Good
    <2>5. d = [u \in Byte |-> IF u \in Bytes(touched.files[f].location + location, n)
                              THEN <<f, u - touched.files[f].location>> ELSE touched.data[u]]
        BY <1>6
    <2> HIDE DEF d, n
    <2> DEFINE m(size) == [touched.files EXCEPT ![f] = [touched.files[f] EXCEPT !.size = size]]
               p(size) == [touched EXCEPT !.files = m(size), !.data = d]
    <2>6. touched.files[f] \in FileBlock
        BY <1>3, <2>4, FileTypes
    <2>7. ASSUME NEW size \in Nat, block.size <= size, location + n <= size,
                 size = block.size \/ size = location + n
          PROVE  /\ Replaced(touched, p(size), f) /\ p(size).written = touched.written
                 /\ p(size).files[f].size = size /\ p(size).files = m(size)
        <3> DEFINE mm == m(size)
                   pp == p(size)
        <3>1. /\ Good(touched) /\ f \in HasData(touched)
              /\ location <= touched.files[f].size
              /\ location + n <= touched.files[f].length
              /\ touched.files[f].size <= size
              /\ size = touched.files[f].size \/ size = location + n
            BY <1>3, <1>6, <2>3, <2>4, <2>7
        <3>2. /\ mm = [touched.files EXCEPT ![f] = [touched.files[f] EXCEPT !.size = size]]
              /\ pp = [touched EXCEPT !.files = mm, !.data = d]
            OBVIOUS
        <3> HIDE DEF mm, pp, m, p
        <3>3. /\ Replaced(touched, pp, f) /\ pp.written = touched.written
              /\ pp.files[f].size = size /\ pp.files = mm
            <4>1. Wrote(touched, f, location, n, size, d, mm, pp)
                BY <2>5, <3>2 DEF Wrote
            <4>2. /\ Good(touched) /\ f \in HasData(touched)
                  /\ location \in Nat /\ n \in Nat
                  /\ location <= touched.files[f].size
                  /\ location + n <= touched.files[f].length
                  /\ size \in Nat /\ touched.files[f].size <= size /\ location + n <= size
                  /\ size = touched.files[f].size \/ size = location + n
                BY <2>3, <2>7, <3>1
            <4>3. QED BY <4>1, <4>2, WroteFacts
        <3>4. QED BY <3>3 DEF mm, pp
    <2>8. CASE location + n <= block.size
        <3>1. r = wrote
            BY <1>5, <1>8, <2>8
        <3>2. m(block.size) = touched.files
            <4>1. [touched.files[f] EXCEPT !.size = block.size] = touched.files[f]
                BY <1>6, <2>6 DEF FileBlock
            <4>2. touched.files = [g \in DOMAIN touched.files |-> touched.files[g]]
                BY <2>4, FileTypes
            <4>3. QED BY <4>1, <4>2
        <3>3. wrote = p(block.size)
            <4> DEFINE mm == m(block.size)
            <4>1. mm = touched.files
                BY <3>2
            <4>2. p(block.size) = [touched EXCEPT !.files = mm, !.data = d]
                OBVIOUS
            <4> HIDE DEF mm, p
            <4>3. QED BY <2>4, <4>1, <4>2 DEF State
        <3>4. block.size <= block.size
            BY <1>2
        <3>5. /\ Replaced(touched, p(block.size), f)
              /\ p(block.size).written = touched.written /\ p(block.size).files = touched.files
            <4> HIDE DEF p, m
            <4>1. QED BY <1>2, <2>7, <2>8, <3>2, <3>4
        <3>6. /\ Replaced(touched, wrote, f)
              /\ wrote.written = touched.written /\ wrote.files = touched.files
            BY <3>3, <3>5
        <3> HIDE DEF wrote, p, m
        <3>7. /\ wrote \in State /\ f \in HasData(wrote)
              /\ HasData(wrote) = HasData(touched) \cup {f}
              /\ FreeOK(wrote) /\ FilesOK(wrote) /\ Exact(wrote) /\ KeepsContents(wrote)
              /\ IndexBut(wrote, {f})
            <4>1. Good(touched) /\ f \in Files /\ Replaced(touched, wrote, f)
                BY <1>2, <1>3, <3>6
            <4>2. QED BY <4>1, ReplacedSpace
        <3>8. wrote.index = touched.index /\ wrote.holes = touched.holes
            BY <3>6 DEF Replaced
        <3>9. IndexBut(wrote, {})
            <4>1. IndexBut(touched, {}) /\ HasData(wrote) = HasData(touched)
                BY <1>3, <2>4, <3>7 DEF Good
            <4>2. QED BY <3>6, <3>8, <4>1 DEF IndexBut, Entry
        <3>10. Good(wrote)
            BY <3>7, <3>9 DEF Good
        <3>11. Before(s, wrote, f)
            BY <1>4, <3>6, <3>8, <3>10 DEF Before, OnlyClears
        <3>12. f \in HasData(wrote) /\ wrote.files[f].size = s.files[f].size
            BY <1>6, <3>6, <3>7
        <3>13. Operation(s, wrote)
            BY <3>11, <3>12, OperationEnds
        <3>14. QED BY <3>1, <3>13 DEF r
    <2>9. CASE ~(location + n <= block.size)
        <3>1. r = Sync(grown, f, FALSE)
            BY <1>5, <1>8, <2>9
        <3> DEFINE size == location + n
        <3>2. grown = p(size)
            BY <2>4 DEF State
        <3>3. size \in Nat /\ block.size <= size /\ location + n <= size
            BY <1>2, <2>3, <2>9
        <3> HIDE DEF grown, p, m
        <3>4. /\ Replaced(touched, grown, f) /\ grown.written = touched.written
              /\ grown.files[f].size = size
            BY <2>7, <3>2, <3>3
        <3> HIDE DEF size
        <3>5. f \in HasData(s) => s.files[f].size <= grown.files[f].size
            BY <3>3, <3>4
        <3>6. Operation(s, Sync(grown, f, FALSE))
            BY <1>2, <1>4, <3>4, <3>5, OperationSaves
        <3>7. QED BY <3>1, <3>6 DEF r
    <2>10. QED BY <2>8, <2>9
<1>9. QED BY <1>7, <1>8

\* The record p has the block of f under the name of g, which had none in c; the
\* index has not been told.
Named(c, p, f, g) ==
    /\ p \in State
    /\ DOMAIN p.files = (DOMAIN c.files \cup {g}) \ {f}
    /\ \A h \in DOMAIN c.files \ {f, g} : p.files[h] = c.files[h]
    /\ p.files[g].location = c.files[f].location /\ p.files[g].length = c.files[f].length
    /\ p.files[g].size = c.files[f].size /\ p.files[g].index = c.files[f].index
    /\ p.byLocation = c.byLocation /\ p.byLength = c.byLength
    /\ p.holes = c.holes /\ p.index = c.index /\ p.written = c.written
    /\ \A u \in Byte : p.data[u] = IF c.data[u] # NoByte /\ c.data[u][1] = f
                                   THEN <<g, c.data[u][2]>> ELSE c.data[u]

LEMMA NamedSpace ==
    ASSUME NEW c, Good(c), NEW f \in DOMAIN c.files, NEW g \in Files, f # g,
           g \notin HasData(c), NEW p, Named(c, p, f, g)
    PROVE  /\ p \in State /\ (g \in HasData(p) <=> f \in HasData(c))
           /\ FreeOK(p) /\ FilesOK(p) /\ Exact(p) /\ KeepsContents(p)
           /\ IndexBut(p, {g})
<1> DEFINE old(h) == IF h = g THEN f ELSE h
<1>1. c \in State /\ FreeOK(c) /\ FilesOK(c) /\ Exact(c) /\ IndexBut(c, {}) /\ KeepsContents(c)
    BY DEF Good
<1>2. /\ p \in State /\ g \in DOMAIN p.files /\ f \notin DOMAIN p.files
      /\ \A h \in DOMAIN p.files : old(h) \in DOMAIN c.files
      /\ \A h \in DOMAIN p.files : /\ p.files[h].location = c.files[old(h)].location
                                   /\ p.files[h].length = c.files[old(h)].length
                                   /\ p.files[h].size = c.files[old(h)].size
                                   /\ p.files[h].index = c.files[old(h)].index
      /\ \A h \in DOMAIN c.files : h # f /\ h # g => h \in DOMAIN p.files
      /\ p.holes = c.holes /\ p.index = c.index
    <2>1. \A h \in DOMAIN p.files : h = g \/ h \in DOMAIN c.files \ {f, g}
        BY DEF Named
    <2>2. QED BY <2>1 DEF Named
<1>3. /\ g \in HasData(p) <=> f \in HasData(c)
      /\ \A h : h \in HasData(p) <=> h \in DOMAIN p.files /\ old(h) \in HasData(c)
    BY <1>2 DEF HasData
<1>4. \A h \in HasData(p) : h \in DOMAIN p.files /\ h # f /\ old(h) \in HasData(c)
    BY <1>2, <1>3
<1>5. \A h, k \in HasData(p) : old(h) = old(k) => h = k
    BY <1>4
<1>6. \A k \in HasData(c) : \E h \in HasData(p) : old(h) = k
    <2>1. ASSUME NEW k \in HasData(c), k # f
          PROVE  k \in HasData(p) /\ old(k) = k
        <3>1. k # g /\ k \in DOMAIN c.files
            BY <2>1 DEF HasData
        <3>2. k \in DOMAIN p.files
            BY <1>2, <2>1, <3>1
        <3>3. QED BY <1>3, <3>1, <3>2
    <2>2. QED BY <1>2, <1>3, <2>1
<1> HIDE DEF old
<1>7. FreeOK(p) /\ FreeBytes(p) = FreeBytes(c)
    BY <1>1, SameFreeSpace DEF Named
<1>8. \A h \in HasData(p) : /\ p.files[h].location = c.files[old(h)].location
                            /\ p.files[h].length = c.files[old(h)].length
                            /\ p.files[h].size = c.files[old(h)].size
                            /\ p.files[h].index = c.files[old(h)].index
    BY <1>2, <1>4
<1>9. FilesOK(p)
    <2>1. \A h \in HasData(p) : /\ p.files[h].location + p.files[h].length <= DataSize
                                /\ p.files[h].size <= p.files[h].length
        BY <1>1, <1>4, <1>8 DEF FilesOK
    <2>2. ASSUME NEW h \in HasData(p), NEW k \in HasData(p), h # k
          PROVE  \/ p.files[h].location + p.files[h].length <= p.files[k].location
                 \/ p.files[k].location + p.files[k].length <= p.files[h].location
        <3>1. old(h) # old(k) /\ old(h) \in HasData(c) /\ old(k) \in HasData(c)
            BY <1>4, <1>5, <2>2
        <3>2. \/ c.files[old(h)].location + c.files[old(h)].length <= c.files[old(k)].location
              \/ c.files[old(k)].location + c.files[old(k)].length <= c.files[old(h)].location
            BY <1>1, <3>1 DEF FilesOK
        <3>3. QED BY <1>8, <3>2
    <2>3. ASSUME NEW h \in DOMAIN p.files, h \notin HasData(p)
          PROVE  p.files[h].length = BLOCK_LENGTH_INVALID /\ p.files[h].index = 0
                    /\ p.files[h].size = 0
        <3>1. old(h) \in DOMAIN c.files \ HasData(c)
            BY <1>2, <1>3, <2>3
        <3>2. QED BY <1>1, <1>2, <3>1 DEF FilesOK
    <2>4. QED BY <2>1, <2>2, <2>3 DEF FilesOK
<1>10. Exact(p)
    <2>1. \A h \in HasData(p) : \A u : InFile(p, h, u) <=> InFile(c, old(h), u)
        BY <1>8 DEF InFile
    <2>2. QED BY <1>1, <1>4, <1>6, <1>7, <2>1 DEF Exact
<1>11. KeepsContents(p)
    <2> SUFFICES ASSUME NEW h \in HasData(p), NEW o \in Nat, o < p.files[h].size
                 PROVE  p.data[p.files[h].location + o] = <<h, o>>
        BY DEF KeepsContents
    <2> DEFINE k == old(h)
               u == c.files[k].location + o
    <2>1. k \in HasData(c) /\ o < c.files[k].size /\ p.files[h].location + o = u
        BY <1>4, <1>8
    <2>2. c.data[u] = <<k, o>>
        BY <1>1, <2>1 DEF KeepsContents
    <2>3. u \in Byte
        <3>1. /\ c.files[k].location + c.files[k].length <= DataSize
              /\ c.files[k].size <= c.files[k].length
            BY <1>1, <2>1 DEF FilesOK
        <3>2. /\ c.files[k].location \in Int /\ c.files[k].location >= 0
              /\ c.files[k].length \in Int /\ c.files[k].size \in Nat
            <4>1. k \in DOMAIN c.files
                BY <2>1 DEF HasData
            <4>2. QED BY <1>1, <4>1, BlockFields
        <3>3. QED BY <2>1, <3>1, <3>2 DEF Byte
    <2>4. p.data[u] = IF c.data[u] # NoByte /\ c.data[u][1] = f
                      THEN <<g, c.data[u][2]>> ELSE c.data[u]
        BY <2>3 DEF Named
    <2> HIDE DEF u, k
    <2>5. c.data[u] # NoByte /\ c.data[u][1] = k /\ c.data[u][2] = o
        BY <2>2 DEF NoByte
    <2>6. CASE h = g
        <3>1. k = f
            BY <2>6 DEF k, old
        <3>2. QED BY <2>1, <2>4, <2>5, <2>6, <3>1
    <2>7. CASE h # g
        <3>1. k = h /\ h # f
            BY <1>4, <2>7 DEF k, old
        <3>2. QED BY <2>1, <2>2, <2>4, <2>5, <3>1
    <2>8. QED BY <2>6, <2>7
<1>12. IndexBut(p, {g})
    <2>1. \A k \in HasData(c) : /\ c.files[k].index \in DOMAIN c.index
                                /\ c.index[c.files[k].index] = Entry(c, k)
        BY <1>1 DEF IndexBut
    <2>2. \A h \in HasData(p) \ {g} : old(h) = h
        BY DEF old
    <2>3. \A h \in HasData(p) \ {g} : /\ p.files[h].index \in DOMAIN p.index
                                      /\ p.index[p.files[h].index] = Entry(p, h)
        BY <1>2, <1>4, <1>8, <2>1, <2>2 DEF Entry
    <2>4. \A h \in HasData(p) : p.files[h].index \in DOMAIN p.index
        BY <1>2, <1>4, <1>8, <2>1
    <2>5. \A h, k \in HasData(p) : p.files[h].index = p.files[k].index => h = k
        <3>1. \A h, k \in HasData(c) : c.files[h].index = c.files[k].index => h = k
            BY <1>1 DEF IndexBut
        <3>2. QED BY <1>4, <1>5, <1>8, <3>1
    <2>6. \A i : (\A h \in HasData(p) : p.files[h].index # i)
                    <=> (\A k \in HasData(c) : c.files[k].index # i)
        BY <1>4, <1>6, <1>8
    <2>7. ToSet(p.holes) = {i \in DOMAIN p.index : \A h \in HasData(p) : p.files[h].index # i}
        <3>1. ToSet(c.holes) = {i \in DOMAIN c.index : \A h \in HasData(c) : c.files[h].index # i}
            BY <1>1 DEF IndexBut
        <3>2. p.holes = c.holes /\ p.index = c.index
            BY <1>2
        <3>3. {i \in DOMAIN p.index : \A h \in HasData(p) : p.files[h].index # i}
                = {i \in DOMAIN c.index : \A h \in HasData(c) : c.files[h].index # i}
            BY <2>6, <3>2
        <3>4. QED BY <3>1, <3>2, <3>3
    <2>8. IsInjective(p.holes) /\ \A i \in ToSet(p.holes) : p.index[i] = NoEntry
        BY <1>1, <1>2 DEF IndexBut
    <2>9. QED BY <2>3, <2>4, <2>5, <2>7, <2>8 DEF IndexBut
<1>13. QED BY <1>2, <1>3, <1>7, <1>9, <1>10, <1>11, <1>12

LEMMA RenamedFacts ==
    ASSUME NEW s, Good(s), NEW f \in DOMAIN s.files, NEW g \in Files, f # g,
           g \in DOMAIN s.files => ~(s.files[g].locks > 0)
    PROVE  Operation(s, Renamed(s, f, g))
<1> DEFINE c     == IF g \in DOMAIN s.files THEN RemoveFileBlock(s, g) ELSE s
           time  == Time(c)
           block == [c.files[f] EXCEPT !.time = time]
           m     == [h \in (DOMAIN c.files \cup {g}) \ {f} |->
                        IF h = g THEN block ELSE c.files[h]]
           named(byte) == IF byte # NoByte /\ byte[1] = f THEN <<g, byte[2]>> ELSE byte
           d     == [u \in Byte |-> named(c.data[u])]
           p     == [c EXCEPT !.files = m, !.data = d]
           r     == Sync(p, g, FALSE)
<1>1. s \in State
    BY DEF Good
<1>2. /\ Good(c) /\ c \in State
      /\ DOMAIN c.files = DOMAIN s.files
      /\ \A h \in DOMAIN s.files \ {g} : c.files[h] = s.files[h]
      /\ HasData(c) = HasData(s) \ {g}
      /\ \A idx : OnlyClears(s, idx) => OnlyClears(c, idx)
    <2>1. CASE g \in DOMAIN s.files
        <3> DEFINE t == RemoveFileBlock(s, g)
        <3>1. /\ Good(t)
              /\ DOMAIN t.files = DOMAIN s.files
              /\ \A h \in DOMAIN s.files \ {g} : t.files[h] = s.files[h]
              /\ HasData(t) = HasData(s) \ {g}
              /\ t.written = s.written \/ t.written = Append(s.written, t.index)
              /\ Cleared(t.index, s.index)
            BY <2>1, RemoveFacts
        <3>2. c = t
            BY <2>1
        <3> HIDE DEF t, c
        <3>3. \A idx : OnlyClears(s, idx) => OnlyClears(t, idx)
            BY <1>1, <3>1, RemovalClears
        <3>4. QED BY <3>1, <3>2, <3>3 DEF Good
    <2>2. CASE g \notin DOMAIN s.files
        <3>1. c = s
            BY <2>2
        <3>2. HasData(s) = HasData(s) \ {g}
            BY <2>2 DEF HasData
        <3> HIDE DEF c
        <3>3. QED BY <1>1, <3>1, <3>2
    <2>3. QED BY <2>1, <2>2
<1>3. Renamed(s, f, g) = r
    BY DEF Renamed
<1> HIDE DEF c, r
<1>4. /\ f \in DOMAIN c.files /\ c.files[f] \in FileBlock /\ DOMAIN c.files \subseteq Files
      /\ time \in Nat /\ \A h \in DOMAIN c.files : c.files[h] \in FileBlock
    BY <1>2, FileTypes, TimeType
<1> HIDE DEF time
<1>5. /\ block \in FileBlock
      /\ block.location = c.files[f].location /\ block.length = c.files[f].length
      /\ block.size = c.files[f].size /\ block.index = c.files[f].index
    BY <1>4 DEF FileBlock
<1> HIDE DEF block
<1>6. /\ DOMAIN m = (DOMAIN c.files \cup {g}) \ {f} /\ m[g] = block
      /\ \A h \in DOMAIN c.files \ {f, g} : m[h] = c.files[h]
    OBVIOUS
<1>7. m \in FileMap
    <2>1. DOMAIN m \subseteq Files /\ m \in [DOMAIN m -> FileBlock]
        BY <1>4, <1>5
    <2> HIDE DEF m
    <2>2. QED BY <2>1, FileMaps
<1>8. d \in [Byte -> Content]
    <2>1. c.data \in [Byte -> Content]
        BY <1>2 DEF State
    <2>2. ASSUME NEW byte \in Content
          PROVE  named(byte) \in Content
        <3>1. CASE byte = NoByte
            BY <3>1 DEF Content
        <3>2. CASE byte \in Files \X Nat
            BY <3>2 DEF Content
        <3>3. QED BY <3>1, <3>2 DEF Content
    <2> HIDE DEF named
    <2>3. QED BY <2>1, <2>2
<1>9. \A u \in Byte : d[u] = IF c.data[u] # NoByte /\ c.data[u][1] = f
                             THEN <<g, c.data[u][2]>> ELSE c.data[u]
    OBVIOUS
<1>10. p = [c EXCEPT !.files = m, !.data = d]
    OBVIOUS
<1> HIDE DEF m, d, p
<1>11. /\ p \in State /\ p.files = m /\ p.data = d
       /\ p.byLocation = c.byLocation /\ p.byLength = c.byLength
       /\ p.holes = c.holes /\ p.index = c.index /\ p.written = c.written
    BY <1>2, <1>7, <1>8, <1>10 DEF State
<1>12. Named(c, p, f, g)
    BY <1>5, <1>6, <1>9, <1>11 DEF Named
<1>13. /\ p \in State /\ (g \in HasData(p) <=> f \in HasData(c))
       /\ FreeOK(p) /\ FilesOK(p) /\ Exact(p) /\ KeepsContents(p)
       /\ IndexBut(p, {g})
    <2>1. Good(c) /\ f \in DOMAIN c.files /\ g \in Files /\ f # g /\ g \notin HasData(c)
        BY <1>2, <1>4
    <2>2. QED BY <1>12, <2>1, NamedSpace
<1>14. \A idx : OnlyClears(s, idx) => OnlyClears(p, idx)
    BY <1>2, <1>11 DEF OnlyClears
<1>15. /\ Good(r) /\ DOMAIN r.files = DOMAIN p.files
       /\ \A h \in DOMAIN p.files \ {g} : r.files[h] = p.files[h]
       /\ \A idx : OnlyClears(s, idx) => Ending(r, idx)
    <2>1. CASE g \in HasData(p)
        <3>1. /\ Good(r)
              /\ DOMAIN r.files = DOMAIN p.files
              /\ \A h \in DOMAIN p.files \ {g} : r.files[h] = p.files[h]
              /\ r.written = Append(p.written, r.index)
            BY <1>13, <2>1, SavedGood DEF r
        <3>2. QED BY <1>13, <1>14, <3>1, EndsWithSave
    <2>2. CASE g \notin HasData(p)
        <3>1. p.files[g].length = BLOCK_LENGTH_INVALID
            BY <1>6, <1>11, <1>13, <2>2 DEF FilesOK
        <3>2. r = p
            BY <3>1 DEF r, Sync
        <3>3. IndexBut(p, {})
            BY <1>13, <2>2 DEF IndexBut
        <3>4. Good(p)
            BY <1>13, <3>3 DEF Good
        <3>5. QED BY <1>14, <3>2, <3>4 DEF OnlyClears, Ending
    <2>3. QED BY <2>1, <2>2
<1>16. ASSUME NEW h \in HasData(s), s.files[h].locks > 0, h \in DOMAIN r.files
       PROVE  h \in HasData(r) /\ s.files[h].size <= r.files[h].size
    <2>1. h \in DOMAIN s.files /\ s.files[h].length > 0
        BY DEF HasData
    <2>2. h # g /\ h # f
        BY <1>6, <1>11, <1>15, <1>16, <2>1
    <2>3. r.files[h] = s.files[h]
        BY <1>2, <1>6, <1>11, <1>15, <2>1, <2>2
    <2>4. s.files[h].size \in Nat
        BY <1>1, <2>1, BlockFields
    <2>5. s.files[h].size <= s.files[h].size
        BY <2>4
    <2>6. QED BY <1>16, <2>1, <2>3, <2>5 DEF HasData
<1>17. Operation(s, r)
    BY <1>15, <1>16 DEF Operation
<1>18. QED BY <1>3, <1>17
-----------------------------------------------------------------------------
(* The steps *)

\* What an operation leaves becomes the state, with the times ranked.
LEMMA BecomesFacts ==
    ASSUME NEW s, Good(s), Becomes(s)
    PROVE  /\ Good(Now)'
           /\ DOMAIN mFileBlocks' = DOMAIN s.files
           /\ HasData(Now)' = HasData(s)
           /\ \A g \in DOMAIN s.files : /\ mFileBlocks'[g].size = s.files[g].size
                                        /\ mFileBlocks'[g].length = s.files[g].length
                                        /\ mFileBlocks'[g].locks = s.files[g].locks
<1> DEFINE times == {s.files[f].time : f \in HasData(s)}
           rank(f) == IF f \in HasData(s)
                      THEN Cardinality({t \in times : t <= s.files[f].time}) ELSE 0
           files == [f \in DOMAIN s.files |-> [s.files[f] EXCEPT !.time = rank(f)]]
           r == [files |-> files, byLocation |-> s.byLocation, byLength |-> s.byLength,
                 holes |-> s.holes, index |-> s.index, data |-> s.data,
                 written |-> <<s.index>>]
<1>1. s \in State /\ FilesOK(s)
    BY DEF Good
<1>2. files = Ranked(s)
    BY DEF Ranked
<1>3. times \in SUBSET Nat /\ IsFiniteSet(times)
    BY <1>1, TimesFinite
<1>4. \A f : rank(f) \in Nat
    <2> SUFFICES ASSUME NEW f PROVE Cardinality({t \in times : t <= s.files[f].time}) \in Nat
        OBVIOUS
    <2> DEFINE T == {t \in times : t <= s.files[f].time}
    <2> HIDE DEF times
    <2>1. T \in SUBSET times
        OBVIOUS
    <2> HIDE DEF T
    <2>2. IsFiniteSet(T)
        BY <1>3, <2>1, FS_Subset
    <2>3. Cardinality(T) \in Nat
        BY <2>2, FS_CardinalityType
    <2>4. QED BY <2>3 DEF T
<1> HIDE DEF rank
<1>5. \A f \in DOMAIN s.files : /\ files[f] \in FileBlock
                                /\ files[f].location = s.files[f].location
                                /\ files[f].length = s.files[f].length
                                /\ files[f].size = s.files[f].size
                                /\ files[f].index = s.files[f].index
                                /\ files[f].locks = s.files[f].locks
    <2> SUFFICES ASSUME NEW f \in DOMAIN s.files
                 PROVE  /\ files[f] \in FileBlock
                        /\ files[f].location = s.files[f].location
                        /\ files[f].length = s.files[f].length
                        /\ files[f].size = s.files[f].size
                        /\ files[f].index = s.files[f].index
                        /\ files[f].locks = s.files[f].locks
        OBVIOUS
    <2> DEFINE time == rank(f)
    <2>1. files[f] = [s.files[f] EXCEPT !.time = time]
        OBVIOUS
    <2>2. s.files[f] \in FileBlock /\ time \in Nat
        BY <1>1, <1>4, FileTypes
    <2> HIDE DEF files, time
    <2>3. QED BY <2>1, <2>2 DEF FileBlock
<1>6. DOMAIN files = DOMAIN s.files
    OBVIOUS
<1> HIDE DEF files
<1>7. files \in FileMap
    <2>1. files \in [DOMAIN files -> FileBlock]
        BY <1>2, <1>5, <1>6 DEF Ranked
    <2>2. QED BY <1>1, <1>6, <2>1, FileTypes, FileMaps
<1>8. <<s.index>> \in Seq(Seq(IndexEntry))
    BY <1>1 DEF State
<1>9. /\ r \in State /\ r.files = files /\ SameSpace(s, r)
      /\ r.holes = s.holes /\ r.index = s.index
    BY <1>1, <1>7, <1>8 DEF State, SameSpace
<1>10. r = Now'
    BY <1>2 DEF Becomes, Now
<1> HIDE DEF r
<1>11. HasData(r) = HasData(s)
    BY <1>5, <1>6, <1>9, SameData
<1>12. Alike(s, r)
    BY <1>1, <1>5, <1>6, <1>9, <1>11 DEF Alike, FilesOK, HasData
<1>13. Good(r)
    BY <1>5, <1>9, <1>12, AlikeIndex DEF HasData
<1>14. r.files = mFileBlocks'
    BY <1>2, <1>9 DEF Becomes
<1>15. QED BY <1>5, <1>6, <1>9, <1>10, <1>11, <1>13, <1>14

\* A lock changes only the file's count of locks, or makes a dummy.
LEMMA LockFacts ==
    ASSUME Good(Now), NEW f \in Files, IncLock(f) \/ DecLock(f)
    PROVE  /\ Good(Now)'
           /\ HasData(Now)' = HasData(Now)
           /\ \A g \in HasData(Now) : mFileBlocks'[g].size = mFileBlocks[g].size
<1> DEFINE s     == Now
           old   == IF f \in DOMAIN s.files THEN s.files[f] ELSE Dummy(0)
           block == mFileBlocks'[f]
           files == mFileBlocks'
           r     == [files |-> files, byLocation |-> s.byLocation, byLength |-> s.byLength,
                     holes |-> s.holes, index |-> s.index, data |-> s.data,
                     written |-> <<s.index>>]
<1>1. s \in State /\ FilesOK(s) /\ s.files = mFileBlocks
    BY DEF Good, Now
<1>2. r = Now'
    BY DEF Now, IncLock, DecLock
<1>3. /\ s.byLocation = mFreeBlocksByLocation /\ s.index = index
    BY DEF Now
<1>4. /\ DOMAIN files = DOMAIN s.files \cup {f}
      /\ \A g \in DOMAIN s.files \ {f} : files[g] = s.files[g]
      /\ \E locks \in Nat : block = [old EXCEPT !.locks = locks]
      /\ files = [g \in DOMAIN files |-> files[g]]
      /\ old \in FileBlock
      /\ f \in DOMAIN s.files \/ old.length = BLOCK_LENGTH_INVALID
    <2> HIDE DEF s
    <2>1. old \in FileBlock /\ (f \in DOMAIN s.files \/ old.length = BLOCK_LENGTH_INVALID)
        <3>1. CASE f \in DOMAIN s.files
            BY <1>1, <3>1, FileTypes
        <3>2. CASE f \notin DOMAIN s.files
            <4>1. 0 \in Byte
                BY DEF Byte
            <4>2. QED BY <3>2, <4>1 DEF Dummy, FileBlock, BLOCK_LENGTH_INVALID
        <3>3. QED BY <3>1, <3>2
    <2>2. CASE IncLock(f)
        <3>1. files = [g \in DOMAIN s.files \cup {f} |->
                    IF g = f THEN [old EXCEPT !.locks = @ + 1] ELSE s.files[g]]
            BY <1>1, <2>2 DEF IncLock
        <3>2. block = [old EXCEPT !.locks = old.locks + 1] /\ old.locks + 1 \in Nat
            BY <2>1, <3>1 DEF FileBlock
        <3> HIDE DEF old, block
        <3>3. QED BY <2>1, <3>1, <3>2
    <2>3. CASE DecLock(f)
        <3>1. /\ files = [s.files EXCEPT ![f].locks = @ - 1]
              /\ f \in DOMAIN s.files /\ s.files[f].locks > 0
            BY <1>1, <2>3 DEF DecLock, Locked
        <3>2. s.files = [g \in DOMAIN s.files |-> s.files[g]] /\ old = s.files[f]
            BY <1>1, <3>1, FileTypes
        <3>3. block = [old EXCEPT !.locks = old.locks - 1] /\ old.locks - 1 \in Nat
            BY <2>1, <3>1, <3>2 DEF FileBlock
        <3> HIDE DEF old, block
        <3>4. QED BY <2>1, <3>1, <3>2, <3>3
    <2>4. QED BY <2>2, <2>3
<1> HIDE DEF s, old, files
<1>5. /\ block \in FileBlock
      /\ block.location = old.location /\ block.length = old.length
      /\ block.size = old.size /\ block.index = old.index
    <2>1. PICK locks \in Nat : block = [old EXCEPT !.locks = locks]
        BY <1>4
    <2> HIDE DEF block
    <2>2. QED BY <1>4, <2>1 DEF FileBlock
<1>6. /\ files[f] = block /\ (f \in DOMAIN s.files => old = s.files[f])
      /\ (f \notin DOMAIN s.files => old = Dummy(0))
    BY DEF files, old
<1> HIDE DEF block
<1>7. files \in FileMap
    <2>1. \A g \in DOMAIN files : files[g] \in FileBlock
        BY <1>1, <1>4, <1>5, <1>6, FileTypes
    <2>2. files \in [DOMAIN files -> FileBlock]
        BY <1>4, <2>1
    <2>3. DOMAIN files \subseteq Files
        BY <1>1, <1>4, FileTypes
    <2>4. QED BY <2>2, <2>3, FileMaps
<1>8. <<s.index>> \in Seq(Seq(IndexEntry))
    BY <1>1 DEF State
<1>9. /\ r \in State /\ r.files = files /\ SameSpace(s, r)
      /\ r.holes = s.holes /\ r.index = s.index
    BY <1>1, <1>7, <1>8 DEF State, SameSpace
<1> HIDE DEF r
<1>10. \A g \in DOMAIN s.files : /\ r.files[g].location = s.files[g].location
                                 /\ r.files[g].length = s.files[g].length
                                 /\ r.files[g].size = s.files[g].size
                                 /\ r.files[g].index = s.files[g].index
    BY <1>4, <1>5, <1>6, <1>9
<1>11. f \notin DOMAIN s.files => /\ r.files[f].length = BLOCK_LENGTH_INVALID
                                  /\ r.files[f].index = 0 /\ r.files[f].size = 0
    BY <1>5, <1>6, <1>9 DEF Dummy
<1>12. HasData(r) = HasData(s)
    <2>1. ~(BLOCK_LENGTH_INVALID > 0)
        BY DEF BLOCK_LENGTH_INVALID
    <2>2. QED BY <1>4, <1>9, <1>10, <1>11, <2>1 DEF HasData
<1>13. Alike(s, r)
    <2>1. \A g \in HasData(s) : g \in DOMAIN s.files
        BY DEF HasData
    <2>2. \A g \in DOMAIN r.files \ HasData(r) : g \in DOMAIN s.files \ HasData(s)
                                                    \/ (g = f /\ f \notin DOMAIN s.files)
        BY <1>4, <1>9, <1>12
    <2>3. QED BY <1>1, <1>9, <1>10, <1>11, <1>12, <2>1, <2>2 DEF Alike, FilesOK
<1>14. Good(s)
    BY DEF s
<1>15. Good(r)
    BY <1>9, <1>10, <1>13, <1>14, AlikeIndex DEF HasData
<1>16. \A g \in HasData(s) : g \in DOMAIN s.files
    BY DEF HasData
<1>17. QED BY <1>1, <1>2, <1>9, <1>10, <1>12, <1>15, <1>16 DEF files, s

LEMMA RoundedType ==
    ASSUME NEW f \in Files, NEW size \in Size
    PROVE  Rounded(f, size) \in Nat \ {0}
<1>1. size \in Int /\ size > 0
    BY DEF Size
<1>2. CASE f \in Textures
    BY <1>1, <1>2 DEF Rounded
<1>3. CASE f \notin Textures
    <2> DEFINE B == BlockSize
               a == size + B - 1
               q == a \div B
    <2>1. B \in Int /\ B > 0 /\ a \in Int /\ a >= B
        BY <1>1
    <2> HIDE DEF B, a
    <2>2. q \in Int /\ q >= 1
        BY <2>1
    <2> HIDE DEF q
    <2>3. q * B \in Int /\ q * B > 0
        BY <2>1, <2>2
    <2>4. Rounded(f, size) = q * B
        BY <1>3 DEF Rounded, q, a, B
    <2>5. QED BY <2>3, <2>4
<1>4. QED BY <1>2, <1>3

LEMMA NowClears ==
    Good(Now) => Now \in State /\ OnlyClears(Now, index)
<1>1. Now.index = index /\ Now.written = <<index>>
    BY DEF Now
<1>2. \A k \in DOMAIN <<index>> : <<index>>[k] = index
    OBVIOUS
<1>3. QED BY <1>1, <1>2, ClearedItself DEF OnlyClears, Good

LEMMA SetMaxSizeOperation ==
    ASSUME Good(Now), NEW f \in Files, NEW s \in SetMaxSizeResults(f)
    PROVE  Operation(Now, s)
<1>1. PICK asked \in Size : /\ s \in SetMaxSizeOf(Now, f, Rounded(f, asked))
                            /\ f \in HasData(Now) => Rounded(f, asked) >= mFileBlocks[f].size
    BY DEF SetMaxSizeResults
<1> DEFINE size == Rounded(f, asked)
<1>2. size \in Nat \ {0}
    BY RoundedType
<1>3. f \in HasData(Now) => Now.files[f].size <= size
    <2> SUFFICES ASSUME f \in HasData(Now) PROVE Now.files[f].size <= size
        OBVIOUS
    <2>1. size >= Now.files[f].size
        BY <1>1 DEF Now
    <2>2. Now \in State /\ f \in DOMAIN Now.files
        BY DEF Good, HasData
    <2>3. Now.files[f].size \in Nat
        BY <2>2, BlockFields
    <2> HIDE DEF size
    <2>4. QED BY <1>2, <2>1, <2>3
<1>4. s \in SetMaxSizeOf(Now, f, size)
    BY <1>1
<1> HIDE DEF size
<1>5. QED BY <1>2, <1>3, <1>4, SetMaxSizeFacts

LEMMA RenameOperation ==
    ASSUME Good(Now), NEW f \in Files, NEW g \in Files, NEW s \in RenameResults(f, g)
    PROVE  Operation(Now, s)
<1>1. f \in DOMAIN mFileBlocks /\ f # g /\ ~Locked(g) /\ s = Renamed(Now, f, g)
    BY DEF RenameResults
<1>2. f \in DOMAIN Now.files /\ (g \in DOMAIN Now.files => ~(Now.files[g].locks > 0))
    BY <1>1 DEF Now, Locked
<1>3. QED BY <1>1, <1>2, RenamedFacts

LEMMA StoreOperation ==
    ASSUME Good(Now), NEW f \in Files, NEW s \in StoreResults(f)
    PROVE  Operation(Now, s)
<1>1. f \in DOMAIN mFileBlocks
    BY DEF StoreResults
<1>2. PICK location \in 0 .. mFileBlocks[f].size, length \in Size :
            s = Stored(Now, f, location, length)
    BY <1>1 DEF StoreResults
<1>3. f \in DOMAIN Now.files /\ location \in 0 .. Now.files[f].size
    BY <1>1 DEF Now
<1>4. length \in Nat \ {0}
    BY DEF Size
<1>5. QED BY <1>2, <1>3, <1>4, StoredFacts

\* Entries taken for files are those of files with data.
LEMMA ValidEntries ==
    ASSUME NEW s, Good(s), NEW i \in Valid(s.index)
    PROVE  \E f \in HasData(s) : s.files[f].index = i /\ s.index[i] = Entry(s, f)
<1>1. IndexBut(s, {})
    BY DEF Good
<1>2. i \in DOMAIN s.index /\ s.index[i] # NoEntry
    BY DEF Valid, NoEntry
<1>3. i \notin ToSet(s.holes)
    BY <1>1, <1>2 DEF IndexBut
<1>4. PICK f \in HasData(s) : s.files[f].index = i
    BY <1>1, <1>2, <1>3 DEF IndexBut
<1>5. QED BY <1>1, <1>4 DEF IndexBut

\* An index that can be loaded: no file has two entries, and no byte.
SoundIndex(w) ==
    /\ w \in Seq(IndexEntry)
    /\ \A i \in Valid(w) : /\ w[i].location + w[i].length <= DataSize
                           /\ w[i].size <= w[i].length
    /\ \A i, j \in Valid(w) :
            i # j => /\ w[i].file # w[j].file
                     /\ \/ w[i].location + w[i].length <= w[j].location
                        \/ w[j].location + w[j].length <= w[i].location

\* The fields of an entry that is taken for a file.
LEMMA EntryFields ==
    ASSUME NEW w \in Seq(IndexEntry), NEW i \in Valid(w)
    PROVE  /\ i \in Nat \ {0} /\ i \in DOMAIN w
           /\ w[i].file \in Files /\ w[i].location \in Byte
           /\ w[i].location \in Int /\ w[i].location >= 0
           /\ w[i].length \in Nat \ {0} /\ w[i].size \in Nat \ {0}
           /\ w[i] \in IndexEntry
<1>1. i \in DOMAIN w /\ w[i].length > 0 /\ w[i].size > 0
    BY DEF Valid
<1>2. i \in Nat \ {0} /\ w[i] \in IndexEntry
    BY <1>1
<1>3. w[i] # NoEntry
    BY <1>1 DEF NoEntry
<1>4. w[i] \in [file : Files, location : Byte, length : Nat \ {0}, size : Nat]
    BY <1>2, <1>3 DEF IndexEntry
<1>5. /\ w[i].file \in Files /\ w[i].location \in Byte
      /\ w[i].length \in Nat \ {0} /\ w[i].size \in Nat
    BY <1>4
<1>6. QED BY <1>1, <1>2, <1>5 DEF Byte

\* An index that only lacks entries can be loaded.
LEMMA ClearedIsSound ==
    ASSUME NEW s, Good(s), NEW w \in Seq(IndexEntry), Cleared(w, s.index)
    PROVE  SoundIndex(w)
<1>1. s \in State /\ FilesOK(s)
    BY DEF Good
<1>2. \A i \in Valid(w) : \E f \in HasData(s) : s.files[f].index = i /\ w[i] = Entry(s, f)
    BY ValidEntries DEF Cleared
<1>3. ASSUME NEW i \in Valid(w)
      PROVE  /\ w[i].location + w[i].length <= DataSize
             /\ w[i].size <= w[i].length
    <2>1. PICK f \in HasData(s) : w[i] = Entry(s, f)
        BY <1>2
    <2>2. QED BY <1>1, <2>1 DEF FilesOK, Entry
<1>4. ASSUME NEW i \in Valid(w), NEW j \in Valid(w), i # j
      PROVE  /\ w[i].file # w[j].file
             /\ \/ w[i].location + w[i].length <= w[j].location
                \/ w[j].location + w[j].length <= w[i].location
    <2>1. PICK f \in HasData(s) : s.files[f].index = i /\ w[i] = Entry(s, f)
        BY <1>2
    <2>2. PICK g \in HasData(s) : s.files[g].index = j /\ w[j] = Entry(s, g)
        BY <1>2
    <2>3. f # g
        BY <1>4, <2>1, <2>2
    <2>4. QED BY <1>1, <2>1, <2>2, <2>3 DEF FilesOK, Entry
<1>5. QED BY <1>3, <1>4 DEF SoundIndex

LEMMA SoundIndexIsSound ==
    ASSUME NEW w, SoundIndex(w)
    PROVE  Sound(w)
<1>1. w \in Seq(IndexEntry)
    BY DEF SoundIndex
<1>2. ASSUME NEW i \in Valid(w)
      PROVE  /\ w[i].length <= DataSize /\ w[i].location < DataSize
             /\ w[i].size <= w[i].length
    <2>1. w[i].location + w[i].length <= DataSize /\ w[i].size <= w[i].length
        BY DEF SoundIndex
    <2>2. w[i].location \in Int /\ w[i].location >= 0 /\ w[i].length \in Nat \ {0}
        BY <1>1, EntryFields
    <2>3. QED BY <2>1, <2>2
<1>3. ASSUME NEW i \in Valid(w), NEW j \in Valid(w), i # j
      PROVE  Used(w, i) \cap Used(w, j) = {}
    <2> DEFINE x == w[i].location
               m == w[i].length
               y == w[j].location
               n == w[j].length
    <2>1. /\ Used(w, i) = Bytes(x, m) /\ Used(w, j) = Bytes(y, n)
          /\ x + m <= y \/ y + n <= x
        BY <1>3 DEF SoundIndex, Used
    <2>2. x \in Int /\ m \in Int /\ y \in Int /\ n \in Int
        BY <1>1, EntryFields
    <2> HIDE DEF x, m, y, n
    <2>3. Bytes(x, m) \cap Bytes(y, n) = {}
        BY <2>1, <2>2 DEF Bytes
    <2>4. QED BY <2>1, <2>3
<1>4. QED BY <1>2, <1>3 DEF Sound

\* What an operation writes to the index on its way can be loaded.
LEMMA EndingIsSound ==
    ASSUME Good(Now), NEW s, s \in State, Ending(s, index)
    PROVE  \A k \in DOMAIN s.written : k < Len(s.written) => SoundIndex(s.written[k])
<1> SUFFICES ASSUME NEW k \in DOMAIN s.written, k < Len(s.written)
             PROVE  SoundIndex(s.written[k])
    OBVIOUS
<1>1. Cleared(s.written[k], Now.index)
    BY DEF Ending, Now
<1>2. s.written[k] \in Seq(IndexEntry)
    <2>1. s.written \in Seq(Seq(IndexEntry))
        BY DEF State
    <2>2. QED BY <2>1
<1>3. QED BY <1>1, <1>2, ClearedIsSound

LEMMA IndexIsSound == Good(Now) => SoundIndex(index)
<1> SUFFICES ASSUME Good(Now) PROVE SoundIndex(index)
    OBVIOUS
<1>1. Now.index = index /\ Now.index \in Seq(IndexEntry)
    BY DEF Good, State, Now
<1>2. Cleared(Now.index, Now.index)
    BY ClearedItself
<1>3. SoundIndex(Now.index)
    BY <1>1, <1>2, ClearedIsSound
<1>4. QED BY <1>1, <1>3

\* What a crash leaves on disk can be loaded.
LEMMA OnDiskFacts ==
    ASSUME Good(Now), SoundIndex(indexOnDisk), NEW w \in OnDisk
    PROVE  SoundIndex(w)
<1>1. Now \in State /\ OnlyClears(Now, index)
    BY NowClears
<1>2. CASE w = index \/ w = indexOnDisk
    BY <1>2, IndexIsSound
<1>3. CASE w # index /\ w # indexOnDisk
    <2> DEFINE results == UNION {Results(f) : f \in Files}
    <2>1. PICK s \in results : w \in ToSet(Front(s.written))
        BY <1>3 DEF OnDisk
    <2>2. Operation(Now, s)
        <3>1. PICK f \in Files : s \in Results(f)
            BY <2>1
        <3>2. CASE s \in SetMaxSizeResults(f)
            BY <3>2, SetMaxSizeOperation
        <3>3. CASE s \notin SetMaxSizeResults(f)
            <4>1. PICK g \in Files : s \in RenameResults(f, g)
                BY <3>1, <3>3 DEF Results
            <4>2. QED BY <4>1, RenameOperation
        <3>4. QED BY <3>2, <3>3
    <2> HIDE DEF results
    <2>3. s \in State /\ s.written \in Seq(Seq(IndexEntry)) /\ Ending(s, index)
        BY <1>1, <2>2 DEF Operation, Good, State
    <2> DEFINE v == s.written
    <2>4. \A k \in DOMAIN v : k < Len(v) => SoundIndex(v[k])
        BY <2>3, EndingIsSound
    <2>5. v \in Seq(Seq(IndexEntry))
        BY <2>3
    <2>6. PICK k \in DOMAIN Front(v) : w = Front(v)[k]
        BY <2>1 DEF ToSet
    <2> HIDE DEF v
    <2>7. Front(v) = [i \in 1 .. Len(v) - 1 |-> v[i]] /\ Len(v) \in Nat /\ DOMAIN v = 1 .. Len(v)
        <3>1. SubSeq(v, 1, Len(v) - 1) = [i \in 1 .. Len(v) - 1 |-> v[i]]
            BY <2>5
        <3>2. QED BY <2>5, <3>1 DEF Front
    <2>8. k \in DOMAIN v /\ k < Len(v) /\ w = v[k]
        BY <2>6, <2>7
    <2>9. QED BY <2>4, <2>8
<1>4. QED BY <1>2, <1>3
-----------------------------------------------------------------------------
(* Starting *)

\* The function of Holes, up to the m-th entry.
HolesUpTo(idx, m, f) ==
    f = [n \in 0 .. m |-> IF n = 0 THEN <<>>
                          ELSE IF n \in Valid(idx) THEN f[n - 1] ELSE Append(f[n - 1], n)]

LEMMA HolesExist ==
    ASSUME NEW idx, NEW m \in Nat
    PROVE  \E f : HolesUpTo(idx, m, f)
<1> DEFINE S == {n \in Nat : \E f : HolesUpTo(idx, n, f)}
           After(h, n) == IF n \in Valid(idx) THEN h ELSE Append(h, n)
<1>1. 0 \in S
    <2>1. HolesUpTo(idx, 0, [n \in 0 .. 0 |-> <<>>])
        BY DEF HolesUpTo
    <2>2. QED BY <2>1
<1>2. ASSUME NEW n \in Nat, n \in S PROVE n + 1 \in S
    <2>1. PICK f : HolesUpTo(idx, n, f)
        BY <1>2
    <2> DEFINE g == [k \in 0 .. n + 1 |-> IF k <= n THEN f[k] ELSE After(f[n], k)]
    <2> HIDE DEF After
    <2>2. \A k \in 0 .. n : g[k] = f[k]
        OBVIOUS
    <2>3. \A k \in 0 .. n + 1 : k = 0 \/ k - 1 \in 0 .. n
        OBVIOUS
    <2>4. \A k \in 0 .. n : f[k] = IF k = 0 THEN <<>> ELSE After(f[k - 1], k)
        BY <2>1 DEF HolesUpTo, After
    <2>5. ASSUME NEW k \in 0 .. n + 1
          PROVE  g[k] = IF k = 0 THEN <<>> ELSE After(g[k - 1], k)
        <3>1. CASE k <= n
            <4>1. k \in 0 .. n
                BY <3>1
            <4>2. QED BY <2>2, <2>3, <2>4, <4>1
        <3>2. CASE k = n + 1
            <4>1. k - 1 = n /\ k # 0 /\ n \in 0 .. n /\ ~ (k <= n)
                BY <3>2
            <4>2. g[k] = After(f[n], k)
                BY <4>1
            <4>3. g[k - 1] = f[n]
                BY <2>2, <4>1
            <4> HIDE DEF g
            <4>4. QED BY <4>1, <4>2, <4>3
        <3>3. QED BY <3>1, <3>2
    <2>6. HolesUpTo(idx, n + 1, g)
        <3>1. g = [k \in 0 .. n + 1 |-> g[k]]
            OBVIOUS
        <3> HIDE DEF g
        <3>2. QED BY <2>5, <3>1 DEF HolesUpTo, After
    <2>7. QED BY <2>6
<1> HIDE DEF S
<1>3. Nat \subseteq S
    BY <1>1, <1>2, Induction
<1>4. QED BY <1>3 DEF S

\* The holes are the entries of no file, each once.
LEMMA HolesFacts ==
    ASSUME NEW idx \in Seq(IndexEntry)
    PROVE  /\ Holes(idx) \in Seq(Nat \ {0})
           /\ IsInjective(Holes(idx))
           /\ ToSet(Holes(idx)) = DOMAIN idx \ Valid(idx)
<1> DEFINE m == Len(idx)
           upTo[n \in 0 .. m] ==
                IF n = 0 THEN <<>>
                ELSE IF n \in Valid(idx) THEN upTo[n - 1] ELSE Append(upTo[n - 1], n)
           Fine(h, n) == /\ h \in Seq(Nat \ {0}) /\ IsInjective(h)
                         /\ ToSet(h) = 1 .. n \ Valid(idx)
           S == {n \in Nat : n <= m => Fine(upTo[n], n)}
<1>1. m \in Nat /\ DOMAIN idx = 1 .. m
    OBVIOUS
<1>2. Holes(idx) = upTo[m]
    BY DEF Holes
<1>3. HolesUpTo(idx, m, upTo)
    <2>1. \E f : HolesUpTo(idx, m, f)
        BY <1>1, HolesExist
    <2>2. upTo = CHOOSE f : HolesUpTo(idx, m, f)
        BY DEF HolesUpTo
    <2> HIDE DEF upTo, m
    <2>3. QED BY <2>1, <2>2
<1> HIDE DEF upTo, m
<1>4. \A n \in 0 .. m : upTo[n] = IF n = 0 THEN <<>>
            ELSE IF n \in Valid(idx) THEN upTo[n - 1] ELSE Append(upTo[n - 1], n)
    BY <1>3 DEF HolesUpTo
<1> HIDE DEF Fine
<1>5. 0 \in S
    <2>1. upTo[0] = <<>>
        BY <1>1, <1>4
    <2>2. Fine(<<>>, 0)
        <3>1. <<>> \in Seq(Nat \ {0}) /\ DOMAIN <<>> = {} /\ 1 .. 0 = {}
            OBVIOUS
        <3>2. QED BY <3>1 DEF Fine, IsInjective, ToSet
    <2>3. QED BY <2>1, <2>2
<1>6. ASSUME NEW n \in Nat, n \in S PROVE n + 1 \in S
    <2> SUFFICES ASSUME n + 1 <= m PROVE Fine(upTo[n + 1], n + 1)
        OBVIOUS
    <2> DEFINE h == upTo[n]
    <2>1. Fine(h, n)
        <3>1. n <= m
            BY <1>1
        <3>2. QED BY <1>6, <3>1
    <2>2. upTo[n + 1] = IF n + 1 \in Valid(idx) THEN h ELSE Append(h, n + 1)
        <3>1. n + 1 \in 0 .. m /\ n + 1 # 0 /\ (n + 1) - 1 = n
            BY <1>1
        <3>2. QED BY <1>4, <3>1
    <2> HIDE DEF h
    <2>3. 1 .. n + 1 = 1 .. n \cup {n + 1} /\ n + 1 \notin 1 .. n
        OBVIOUS
    <2>4. CASE n + 1 \in Valid(idx)
        BY <2>1, <2>2, <2>3, <2>4 DEF Fine
    <2>5. CASE n + 1 \notin Valid(idx)
        <3>1. h \in Seq(Nat \ {0}) /\ IsInjective(h) /\ n + 1 \in Nat \ {0} /\ n + 1 \notin ToSet(h)
            BY <2>1, <2>3 DEF Fine
        <3>2. IsInjective(Append(h, n + 1)) /\ ToSet(Append(h, n + 1)) = ToSet(h) \cup {n + 1}
            BY <3>1, InjectiveAppend
        <3>3. Append(h, n + 1) \in Seq(Nat \ {0})
            BY <3>1
        <3>4. QED BY <2>1, <2>2, <2>3, <2>5, <3>2, <3>3 DEF Fine
    <2>6. QED BY <2>4, <2>5
<1> HIDE DEF S
<1>7. Nat \subseteq S
    BY <1>5, <1>6, Induction
<1>8. Fine(upTo[m], m)
    <2>1. m \in S /\ m <= m
        BY <1>1, <1>7
    <2>2. QED BY <2>1 DEF S
<1>9. QED BY <1>1, <1>2, <1>8 DEF Fine

\* The runs of a set of bytes.
StartsOf(free) == {u \in free : u - 1 \notin free}
RunOf(free, u) == Min({v \in u .. DataSize : v \notin free}) - u

LEMMA RunFacts ==
    ASSUME NEW free \in SUBSET Byte, NEW u \in StartsOf(free)
    PROVE  LET end == u + RunOf(free, u)
           IN  /\ RunOf(free, u) \in Nat \ {0} /\ end \in Int /\ end <= DataSize
               /\ u \in Byte /\ u \in Int
               /\ end \notin free /\ \A v \in u .. end - 1 : v \in free
<1> DEFINE ends == {v \in u .. DataSize : v \notin free}
           end  == Min(ends)
<1>1. u \in free /\ u \in Byte /\ u \in Int /\ 0 <= u /\ u <= DataSize
    BY DEF StartsOf, Byte
<1>2. DataSize \notin free /\ DataSize \in ends
    BY <1>1 DEF Byte
<1>3. ends \in SUBSET Nat /\ ends # {}
    BY <1>1, <1>2
<1>4. PICK e \in ends : \A v \in ends : e <= v
    BY <1>3, LeastElement
<1>5. end \in ends /\ \A v \in ends : end <= v
    <2> HIDE DEF ends
    <2>1. QED BY <1>4 DEF Min
<1> HIDE DEF end
<1>6. /\ end \in Int /\ end <= DataSize /\ u <= end /\ end \notin free /\ end # u
    BY <1>1, <1>5
<1>7. \A v \in u .. end - 1 : v \in free
    <2> SUFFICES ASSUME NEW v \in u .. end - 1, v \notin free PROVE FALSE
        OBVIOUS
    <2>1. v \in ends
        BY <1>1, <1>6
    <2>2. end <= v
        BY <1>5, <2>1
    <2>3. QED BY <1>1, <1>6, <2>2
<1>8. RunOf(free, u) = end - u
    BY DEF RunOf, end
<1>9. u + RunOf(free, u) = end /\ end - u \in Nat \ {0}
    BY <1>1, <1>6, <1>8
<1>10. QED BY <1>1, <1>6, <1>7, <1>8, <1>9

LEMMA RunOfByte ==
    ASSUME NEW free \in SUBSET Byte, NEW u \in free
    PROVE  \E b \in StartsOf(free) : b <= u /\ u < b + RunOf(free, b)
<1> DEFINE starts == {b \in 0 .. u : \A v \in b .. u : v \in free}
<1>1. u \in Int /\ 0 <= u /\ -1 \notin free
    BY DEF Byte
<1>2. starts \in SUBSET Nat /\ u \in starts
    BY <1>1
<1>3. PICK b \in starts : \A c \in starts : b <= c
    BY <1>2, LeastElement
<1>4. b \in Int /\ 0 <= b /\ b <= u /\ b \in free /\ \A v \in b .. u : v \in free
    BY <1>1, <1>3
<1>5. b \in StartsOf(free)
    <2> SUFFICES ASSUME b - 1 \in free PROVE FALSE
        BY <1>4 DEF StartsOf
    <2>1. b # 0 /\ b - 1 \in 0 .. u
        BY <1>1, <1>4
    <2>2. \A v \in b - 1 .. u : v = b - 1 \/ v \in b .. u
        BY <1>1, <1>4
    <2>3. b - 1 \in starts
        BY <1>4, <2>1, <2>2
    <2>4. QED BY <1>3, <1>4, <2>3
<1> DEFINE end == b + RunOf(free, b)
<1>6. end \in Int /\ end \notin free /\ RunOf(free, b) \in Nat \ {0}
    BY <1>5, RunFacts
<1>7. b <= end
    BY <1>4, <1>6
<1> HIDE DEF end
<1>8. u < end
    <2> SUFFICES ASSUME ~(u < end) PROVE FALSE
        OBVIOUS
    <2>1. end \in b .. u
        BY <1>1, <1>4, <1>6, <1>7
    <2>2. QED BY <1>4, <1>6, <2>1
<1>9. QED BY <1>4, <1>5, <1>8 DEF end

\* Free blocks as the start makes them.
LEMMA RunsAreFree ==
    ASSUME NEW free \in SUBSET Byte, NEW s,
           s.byLocation = [u \in StartsOf(free) |-> RunOf(free, u)],
           s.byLength = {<<RunOf(free, u), u>> : u \in StartsOf(free)}
    PROVE  /\ FreeOK(s) /\ FreeBytes(s) = free
           /\ s.byLocation \in FreeMap /\ s.byLength \in SUBSET (Nat \X Byte)
<1> DEFINE run(u) == RunOf(free, u)
           starts == StartsOf(free)
<1>1. /\ Blocks(s) = starts /\ \A b \in starts : s.byLocation[b] = run(b)
      /\ starts \subseteq free
    BY DEF Blocks, StartsOf
<1>2. \A b \in starts : /\ run(b) \in Nat \ {0} /\ b + run(b) <= DataSize
                        /\ b \in Byte /\ b \in Int /\ b + run(b) \notin free
                        /\ \A v \in b .. (b + run(b)) - 1 : v \in free
    BY RunFacts
<1> HIDE DEF run
<1>3. ASSUME NEW b \in starts, NEW c \in starts, b < c
      PROVE  b + run(b) < c
    <2> SUFFICES ASSUME ~(b + run(b) < c) PROVE FALSE
        OBVIOUS
    <2>1. c \in free /\ c - 1 \notin free
        BY DEF StartsOf
    <2>2. b + run(b) # c /\ b \in Int /\ c \in Int /\ run(b) \in Int
        BY <1>2, <2>1
    <2>3. c - 1 \in b .. (b + run(b)) - 1
        BY <1>3, <2>2
    <2>4. QED BY <1>2, <2>1, <2>3
<1>4. s.byLength = {<<s.byLocation[b], b>> : b \in Blocks(s)}
    BY <1>1 DEF run
<1> HIDE DEF starts
<1>5. FreeOK(s)
    BY <1>1, <1>2, <1>3, <1>4 DEF FreeOK
<1>6. FreeBytes(s) = free
    <2>1. ASSUME NEW u \in FreeBytes(s) PROVE u \in free
        <3>1. PICK b \in starts : b <= u /\ u < b + run(b)
            BY <1>1 DEF FreeBytes, InFree
        <3>2. u \in Int
            BY DEF FreeBytes, Byte
        <3>3. b \in Int /\ run(b) \in Int
            BY <1>2
        <3>4. u \in b .. (b + run(b)) - 1
            BY <3>1, <3>2, <3>3
        <3>5. QED BY <1>2, <3>4
    <2>2. ASSUME NEW u \in free PROVE u \in FreeBytes(s)
        <3>1. \E b \in starts : b <= u /\ u < b + run(b)
            BY RunOfByte DEF run, starts
        <3>2. QED BY <1>1, <3>1 DEF FreeBytes, InFree
    <2>3. QED BY <2>1, <2>2
<1>7. s.byLocation \in FreeMap
    <2>1. s.byLocation = [u \in starts |-> run(u)]
        BY DEF starts, run
    <2>2. s.byLocation \in [starts -> Nat \ {0}] /\ DOMAIN s.byLocation = starts
        BY <1>2, <2>1
    <2>3. starts \subseteq Byte
        BY <1>2
    <2>4. QED BY <2>2, <2>3, FreeMaps
<1>8. s.byLength \in SUBSET (Nat \X Byte)
    <2>1. \A b \in Blocks(s) : s.byLocation[b] \in Nat /\ b \in Byte
        BY <1>1, <1>2
    <2>2. ASSUME NEW pair \in s.byLength PROVE pair \in Nat \X Byte
        <3>1. PICK b \in Blocks(s) : pair = <<s.byLocation[b], b>>
            BY <1>4
        <3>2. QED BY <2>1, <3>1
    <2>3. QED BY <2>2
<1>9. QED BY <1>5, <1>6, <1>7, <1>8

\* The bytes in the data file are those of the files of the index.
ContentsOf(w, contents) ==
    \A i \in Valid(w), u \in Byte :
        u \in Bytes(w[i].location, w[i].size) => contents[u] = <<w[i].file, u - w[i].location>>

\* What the program makes of an index that can be loaded is in order, and nothing
\* is locked.
LEMMA LoadedFacts ==
    ASSUME NEW w, SoundIndex(w), NEW contents \in [Byte -> Content], ContentsOf(w, contents),
           NEW times \in [{w[i].file : i \in Valid(w)} -> Nat]
    PROVE  LET r == Loaded(w, contents, times)
           IN  /\ Good(r) /\ \A f \in DOMAIN r.files : r.files[f].locks = 0
<1> DEFINE found == {w[i].file : i \in Valid(w)}
           slot(f) == Min({i \in Valid(w) : w[i].file = f})
           free == Byte \ UNION {Used(w, i) : i \in Valid(w)}
           block(f) == [location |-> w[slot(f)].location, length |-> w[slot(f)].length,
                        size |-> w[slot(f)].size, index |-> slot(f), time |-> times[f],
                        locks |-> 0]
           stored == UNION {Bytes(block(f).location, block(f).size) : f \in found}
           files == [f \in found |-> block(f)]
           entries == [i \in DOMAIN w |-> IF i \in Valid(w) THEN w[i] ELSE NoEntry]
           bytes == [u \in Byte |-> IF u \in stored THEN contents[u] ELSE NoByte]
           r == Loaded(w, contents, times)
<1>1. /\ r.files = files /\ r.holes = Holes(w) /\ r.index = entries /\ r.data = bytes
      /\ r.byLocation = [u \in StartsOf(free) |-> RunOf(free, u)]
      /\ r.byLength = {<<RunOf(free, u), u>> : u \in StartsOf(free)}
      /\ r.written = <<w>>
      /\ r = [files |-> r.files, byLocation |-> r.byLocation, byLength |-> r.byLength,
              holes |-> r.holes, index |-> r.index, data |-> r.data, written |-> r.written]
    BY DEF Loaded, StartsOf, RunOf
<1> HIDE DEF r
<1>2. /\ w \in Seq(IndexEntry)
      /\ \A i \in Valid(w) : /\ w[i].location + w[i].length <= DataSize
                             /\ w[i].size <= w[i].length
      /\ \A i, j \in Valid(w) : i # j =>
            /\ w[i].file # w[j].file
            /\ \/ w[i].location + w[i].length <= w[j].location
               \/ w[j].location + w[j].length <= w[i].location
    BY DEF SoundIndex
<1>3. \A i \in Valid(w) : /\ i \in Nat \ {0} /\ i \in DOMAIN w
                          /\ w[i].file \in Files /\ w[i].location \in Byte
                          /\ w[i].location \in Int /\ w[i].location >= 0
                          /\ w[i].length \in Nat \ {0} /\ w[i].size \in Nat \ {0}
    BY <1>2, EntryFields
<1>4. DOMAIN w = 1 .. Len(w) /\ Len(w) \in Nat
    BY <1>2
<1>5. ASSUME NEW i \in Valid(w)
      PROVE  slot(w[i].file) = i
    <2>1. {j \in Valid(w) : w[j].file = w[i].file} = {i}
        BY <1>2
    <2>2. i \in Int
        BY <1>3
    <2>3. Min({i}) = i
        BY <2>2, MinMax
    <2>4. QED BY <2>1, <2>3
<1> HIDE DEF slot
<1>6. \A f \in found : slot(f) \in Valid(w) /\ w[slot(f)].file = f
    BY <1>5
<1>7. \A i \in Valid(w) : w[i].file \in found /\ slot(w[i].file) = i
    BY <1>5
<1>8. ASSUME NEW f \in found
      PROVE  /\ f \in Files /\ block(f) \in FileBlock
             /\ block(f).location = w[slot(f)].location
             /\ block(f).length = w[slot(f)].length
             /\ block(f).size = w[slot(f)].size
             /\ block(f).index = slot(f) /\ block(f).locks = 0
    <2>1. times[f] \in Nat
        OBVIOUS
    <2>2. /\ slot(f) \in Nat /\ w[slot(f)].location \in Byte
          /\ w[slot(f)].length \in Int /\ w[slot(f)].size \in Nat /\ f \in Files
        BY <1>3, <1>6
    <2> HIDE DEF found
    <2>3. QED BY <2>1, <2>2 DEF FileBlock
<1>9. /\ DOMAIN files = found
      /\ \A f \in found : /\ files[f].location = w[slot(f)].location
                          /\ files[f].length = w[slot(f)].length
                          /\ files[f].size = w[slot(f)].size
                          /\ files[f].index = slot(f)
                          /\ files[f].locks = 0
    BY <1>8
<1>10. /\ DOMAIN entries = DOMAIN w
       /\ \A i \in DOMAIN w : entries[i] = IF i \in Valid(w) THEN w[i] ELSE NoEntry
    OBVIOUS
<1>11. \A f \in found, u \in Byte :
            u \in Bytes(w[slot(f)].location, w[slot(f)].size) => u \in stored
    <2> DEFINE of(f) == Bytes(block(f).location, block(f).size)
    <2>1. \A f \in found : of(f) = Bytes(w[slot(f)].location, w[slot(f)].size)
        BY <1>8
    <2>2. stored = UNION {of(f) : f \in found}
        OBVIOUS
    <2> HIDE DEF of, stored, found
    <2>3. QED BY <2>1, <2>2
<1>12. files \in FileMap
    <2>1. files \in [DOMAIN files -> FileBlock]
        BY <1>8
    <2>2. DOMAIN files \subseteq Files
        BY <1>8, <1>9
    <2> HIDE DEF files
    <2>3. QED BY <2>1, <2>2, FileMaps
<1>13. bytes \in [Byte -> Content]
    <2>1. NoByte \in Content
        BY DEF Content
    <2> HIDE DEF stored
    <2>2. QED BY <2>1
<1>14. entries \in Seq(IndexEntry)
    <2>1. \A i \in DOMAIN w : w[i] \in IndexEntry
        BY <1>2, <1>4
    <2>2. entries \in [1 .. Len(w) -> IndexEntry]
        BY <1>4, <2>1 DEF IndexEntry
    <2> HIDE DEF entries
    <2>3. QED BY <1>4, <2>2
<1>15. free \in SUBSET Byte
    OBVIOUS
<1>16. \A u \in Byte : u \in free <=>
            \A f \in found :
                ~(w[slot(f)].location <= u /\ u < w[slot(f)].location + w[slot(f)].length)
    <2> SUFFICES ASSUME NEW u \in Byte
                 PROVE  u \in free <=> \A f \in found :
                    ~(w[slot(f)].location <= u /\ u < w[slot(f)].location + w[slot(f)].length)
        OBVIOUS
    <2>1. u \in free <=> \A i \in Valid(w) : u \notin Used(w, i)
        OBVIOUS
    <2>2. ASSUME NEW i \in Valid(w)
          PROVE  u \in Used(w, i) <=> (w[i].location <= u /\ u < w[i].location + w[i].length)
        <3> DEFINE x == w[i].location
                   n == w[i].length
        <3>1. u \in Int /\ x \in Int /\ n \in Int
            BY <1>3 DEF Byte
        <3>2. Used(w, i) = Bytes(x, n)
            BY DEF Used
        <3> HIDE DEF x, n
        <3>3. u \in Used(w, i) <=> x <= u /\ u < x + n
            BY <3>1, <3>2 DEF Bytes
        <3>4. QED BY <3>3 DEF x, n
    <2> HIDE DEF found, free
    <2>3. QED BY <1>6, <1>7, <2>1, <2>2
<1>17. /\ Holes(w) \in Seq(Nat \ {0}) /\ IsInjective(Holes(w))
       /\ ToSet(Holes(w)) = DOMAIN w \ Valid(w)
    BY <1>2, HolesFacts
<1> HIDE DEF found, free, stored, files, entries, bytes, block
<1>18. /\ FreeOK(r) /\ FreeBytes(r) = free
       /\ r.byLocation \in FreeMap /\ r.byLength \in SUBSET (Nat \X Byte)
    BY <1>1, <1>15, RunsAreFree
<1>19. <<w>> \in Seq(Seq(IndexEntry))
    BY <1>2
<1>20. r \in State
    <2>1. /\ r.files \in FileMap /\ r.holes \in Seq(Nat \ {0}) /\ r.index \in Seq(IndexEntry)
          /\ r.data \in [Byte -> Content] /\ r.written \in Seq(Seq(IndexEntry))
          /\ r.byLocation \in FreeMap /\ r.byLength \in SUBSET (Nat \X Byte)
        BY <1>1, <1>12, <1>13, <1>14, <1>17, <1>18, <1>19
    <2>2. r = [files |-> r.files, byLocation |-> r.byLocation, byLength |-> r.byLength,
              holes |-> r.holes, index |-> r.index, data |-> r.data, written |-> r.written]
        BY <1>1
    <2>3. QED BY <2>1, <2>2 DEF State
<1>21. HasData(r) = found /\ DOMAIN r.files = found
    <2>1. \A f \in found : w[slot(f)].length > 0
        BY <1>3, <1>6
    <2>2. QED BY <1>1, <1>9, <2>1 DEF HasData
<1>22. FilesOK(r)
    <2>1. \A f \in found : r.files[f].location + r.files[f].length <= DataSize
                            /\ r.files[f].size <= r.files[f].length
        BY <1>1, <1>2, <1>6, <1>9
    <2>2. ASSUME NEW f \in found, NEW g \in found, f # g
          PROVE  \/ r.files[f].location + r.files[f].length <= r.files[g].location
                 \/ r.files[g].location + r.files[g].length <= r.files[f].location
        <3>1. slot(f) # slot(g) /\ slot(f) \in Valid(w) /\ slot(g) \in Valid(w)
            BY <1>6, <2>2
        <3>2. QED BY <1>1, <1>2, <1>9, <3>1
    <2>3. QED BY <1>21, <2>1, <2>2 DEF FilesOK
<1>23. Exact(r)
    BY <1>1, <1>9, <1>16, <1>18, <1>21 DEF Exact, InFile
<1>24. IndexBut(r, {})
    <2>1. ASSUME NEW f \in found
          PROVE  /\ r.files[f].index = slot(f) /\ slot(f) \in DOMAIN r.index
                 /\ r.index[slot(f)] = Entry(r, f)
        <3> DEFINE i == slot(f)
        <3>1. i \in DOMAIN w /\ i \in Valid(w) /\ w[i].file = f
            BY <1>3, <1>6
        <3>2. w[i] = [file |-> w[i].file, location |-> w[i].location,
                      length |-> w[i].length, size |-> w[i].size]
            <4>1. w[i] \in IndexEntry /\ w[i] # NoEntry
                <5>1. w[i].length > 0
                    BY <3>1 DEF Valid
                <5>2. QED BY <1>2, <3>1, <5>1, EntryFields DEF NoEntry
            <4>2. w[i] \in [file : Files, location : Byte, length : Nat \ {0}, size : Nat]
                BY <4>1 DEF IndexEntry
            <4>3. QED BY <4>2
        <3>3. Entry(r, f) = [file |-> f, location |-> w[i].location,
                             length |-> w[i].length, size |-> w[i].size]
            BY <1>1, <1>9 DEF Entry
        <3>4. QED BY <1>1, <1>9, <1>10, <3>1, <3>2, <3>3
    <2>2. \A f, g \in found : slot(f) = slot(g) => f = g
        BY <1>6
    <2>3. ToSet(r.holes) = {i \in DOMAIN r.index : \A f \in found : r.files[f].index # i}
        <3>1. ToSet(r.holes) = DOMAIN w \ Valid(w) /\ DOMAIN r.index = DOMAIN w
            BY <1>1, <1>10, <1>17
        <3>2. \A i \in DOMAIN w : i \in Valid(w) <=> \E f \in found : r.files[f].index = i
            BY <1>6, <1>7, <2>1
        <3>3. QED BY <3>1, <3>2
    <2>4. \A i \in ToSet(r.holes) : r.index[i] = NoEntry
        BY <1>1, <1>10, <1>17
    <2>5. IsInjective(r.holes)
        BY <1>1, <1>17
    <2>6. QED BY <1>21, <2>1, <2>2, <2>3, <2>4, <2>5 DEF IndexBut
<1>25. KeepsContents(r)
    <2> SUFFICES ASSUME NEW f \in found, NEW o \in Nat, o < r.files[f].size
                 PROVE  r.data[r.files[f].location + o] = <<f, o>>
        BY <1>21 DEF KeepsContents
    <2> DEFINE i == slot(f)
               x == w[i].location
               n == w[i].length
               k == w[i].size
               u == x + o
    <2>1. r.files[f].location = x /\ r.files[f].size = k /\ i \in Valid(w) /\ w[i].file = f
        BY <1>1, <1>6, <1>9
    <2>2. /\ x \in Int /\ x >= 0 /\ n \in Nat \ {0} /\ k \in Nat \ {0}
          /\ k <= n /\ x + n <= DataSize
        BY <1>2, <1>3, <2>1
    <2> HIDE DEF x, n, k
    <2>3. u \in Byte /\ u \in Bytes(x, k) /\ u - x = o
        BY <2>1, <2>2 DEF Byte, Bytes
    <2>4. u \in stored
        BY <1>11, <2>3 DEF x, k
    <2>5. r.data[u] = contents[u]
        BY <1>1, <2>3, <2>4 DEF bytes
    <2>6. contents[u] = <<w[i].file, u - x>>
        BY <2>1, <2>3 DEF ContentsOf, x, k
    <2>7. QED BY <2>1, <2>3, <2>5, <2>6
<1>26. QED BY <1>1, <1>9, <1>18, <1>20, <1>21, <1>22, <1>23, <1>24, <1>25 DEF Good, r

\* After a clean end the files find what they had.
LEMMA DataFacts ==
    ASSUME Good(Now)
    PROVE  data \in [Byte -> Content] /\ ContentsOf(index, data)
<1>1. /\ Now \in State /\ KeepsContents(Now) /\ Now.data = data /\ Now.index = index
      /\ index \in Seq(IndexEntry)
    BY DEF Good, Now, State
<1>2. ASSUME NEW i \in Valid(index), NEW u \in Byte,
             u \in Bytes(index[i].location, index[i].size)
      PROVE  data[u] = <<index[i].file, u - index[i].location>>
    <2>1. PICK f \in HasData(Now) : index[i] = Entry(Now, f)
        BY <1>1, ValidEntries
    <2> DEFINE x == Now.files[f].location
               k == Now.files[f].size
    <2>2. index[i].location = x /\ index[i].size = k /\ index[i].file = f
        BY <2>1 DEF Entry
    <2>3. x \in Int /\ k \in Nat /\ u \in Int
        BY <1>1, BlockFields DEF HasData, Byte
    <2>4. \A o \in Nat : o < k => data[x + o] = <<f, o>>
        BY <1>1 DEF KeepsContents
    <2> HIDE DEF x, k
    <2>5. u - x \in Nat /\ u - x < k /\ x + (u - x) = u
        BY <1>2, <2>2, <2>3 DEF Bytes
    <2>6. data[u] = <<f, u - x>>
        BY <2>4, <2>5
    <2>7. QED BY <2>2, <2>6
<1>3. data \in [Byte -> Content]
    BY <1>1 DEF State
<1>4. QED BY <1>2, <1>3 DEF ContentsOf

\* And after a crash, what they have counts.
LEMMA AsFoundFacts ==
    ASSUME NEW w, SoundIndex(w)
    PROVE  AsFound(w) \in [Byte -> Content] /\ ContentsOf(w, AsFound(w))
<1> DEFINE mine(u) == {i \in Valid(w) : u \in Bytes(w[i].location, w[i].size)}
           byte(u) == <<w[Min(mine(u))].file, u - w[Min(mine(u))].location>>
<1>1. /\ w \in Seq(IndexEntry)
      /\ \A i \in Valid(w) : w[i].size <= w[i].length
      /\ \A i, j \in Valid(w) : i # j =>
                \/ w[i].location + w[i].length <= w[j].location
                \/ w[j].location + w[j].length <= w[i].location
    BY DEF SoundIndex
<1>2. \A i \in Valid(w) : /\ i \in Int /\ w[i].file \in Files
                          /\ w[i].location \in Int
                          /\ w[i].length \in Int /\ w[i].size \in Int
    BY <1>1, EntryFields
<1>3. ASSUME NEW u \in Byte, NEW i \in mine(u)
      PROVE  /\ mine(u) = {i} /\ byte(u) = <<w[i].file, u - w[i].location>>
             /\ u - w[i].location \in Nat /\ w[i].file \in Files
    <2>1. \A j \in mine(u) : /\ j \in Valid(w) /\ w[j].location <= u
                             /\ u < w[j].location + w[j].size
        BY <1>2 DEF Bytes
    <2>2. u \in Int
        BY DEF Byte
    <2>3. ASSUME NEW j \in mine(u), j # i
          PROVE  FALSE
        <3>1. /\ i \in Valid(w) /\ w[i].location <= u /\ u < w[i].location + w[i].size
              /\ j \in Valid(w) /\ w[j].location <= u /\ u < w[j].location + w[j].size
            BY <2>1
        <3> HIDE DEF mine
        <3> DEFINE x == w[i].location
                   m == w[i].length
                   k == w[i].size
                   y == w[j].location
                   n == w[j].length
                   l == w[j].size
        <3>2. k <= m /\ l <= n /\ (x + m <= y \/ y + n <= x)
            BY <1>1, <2>3, <3>1
        <3>3. x \in Int /\ m \in Int /\ k \in Int /\ y \in Int /\ n \in Int /\ l \in Int
            BY <1>2, <3>1
        <3>4. x <= u /\ u < x + k /\ y <= u /\ u < y + l
            BY <3>1
        <3> HIDE DEF x, m, k, y, n, l
        <3>5. QED BY <2>2, <3>2, <3>3, <3>4
    <2>4. mine(u) = {i}
        BY <2>3
    <2>5. Min({i}) = i
        BY <1>2, <2>1, MinMax
    <2>6. u - w[i].location \in Nat /\ w[i].file \in Files
        BY <1>2, <2>1, <2>2
    <2> HIDE DEF mine
    <2>7. QED BY <2>4, <2>5, <2>6
<1>4. AsFound(w) = [u \in Byte |-> IF mine(u) = {} THEN NoByte ELSE byte(u)]
    BY DEF AsFound
<1>5. \A u \in Byte : mine(u) # {} => byte(u) \in Content
    <2> SUFFICES ASSUME NEW u \in Byte, NEW i \in mine(u) PROVE byte(u) \in Content
        OBVIOUS
    <2>1. /\ byte(u) = <<w[i].file, u - w[i].location>>
          /\ u - w[i].location \in Nat /\ w[i].file \in Files
        BY <1>3
    <2> HIDE DEF byte, mine
    <2>2. QED BY <2>1 DEF Content
<1>6. AsFound(w) \in [Byte -> Content]
    <2>1. NoByte \in Content
        BY DEF Content
    <2> HIDE DEF byte, mine
    <2>2. QED BY <1>4, <1>5, <2>1
<1>7. ASSUME NEW i \in Valid(w), NEW u \in Byte, u \in Bytes(w[i].location, w[i].size)
      PROVE  AsFound(w)[u] = <<w[i].file, u - w[i].location>>
    <2>1. i \in mine(u)
        BY <1>7
    <2>2. mine(u) # {} /\ byte(u) = <<w[i].file, u - w[i].location>>
        BY <1>3, <2>1
    <2> HIDE DEF byte, mine
    <2>3. QED BY <1>4, <2>2
<1>8. QED BY <1>6, <1>7 DEF ContentsOf
-----------------------------------------------------------------------------
(* The invariant *)

\* What is in memory and in both files is in order, and so is the index on disk,
\* which lags behind by a write: it can be loaded.
IInv == Good(Now) /\ SoundIndex(indexOnDisk) /\ mValid = "OK"

\* The step part of LockedKept.
LocksHold ==
    \A f \in Files : Locked(f) /\ Locked(f)' /\ f \in WithData =>
        (f \in WithData' /\ mFileBlocks'[f].size >= mFileBlocks[f].size) \/ RemoveFile(f)

LEMMA InitGood == Init => IInv
<1> SUFFICES ASSUME Init PROVE Good(Now)
    <2>1. SoundIndex(<<>>)
        BY DEF SoundIndex, Valid
    <2>2. QED BY <2>1 DEF Init, IInv
<1> DEFINE s == Now
<1>1. /\ s.files = <<>> /\ s.byLocation = [b \in {0} |-> DataSize]
      /\ s.byLength = {<<DataSize, 0>>} /\ s.holes = <<>> /\ s.index = <<>>
      /\ s.data = [u \in Byte |-> NoByte] /\ s.written = <<<<>>>>
      /\ s = [files |-> s.files, byLocation |-> s.byLocation, byLength |-> s.byLength,
              holes |-> s.holes, index |-> s.index, data |-> s.data, written |-> s.written]
    BY DEF Init, Now
<1> HIDE DEF s
<1>2. DOMAIN s.files = {} /\ HasData(s) = {}
    BY <1>1 DEF HasData
<1>3. s.files \in FileMap
    <2>1. s.files \in [DOMAIN s.files -> FileBlock]
        BY <1>1
    <2>2. DOMAIN s.files \subseteq Files
        BY <1>2
    <2>3. QED BY <2>1, <2>2, FileMaps
<1>4. Blocks(s) = {0} /\ s.byLocation[0] = DataSize /\ 0 \in Byte
    BY <1>1 DEF Blocks, Byte
<1>5. s.byLocation \in FreeMap
    <2>1. s.byLocation \in [DOMAIN s.byLocation -> Nat \ {0}] /\ DOMAIN s.byLocation \subseteq Byte
        BY <1>1, <1>4
    <2>2. QED BY <2>1, FreeMaps
<1>6. s.byLength \in SUBSET (Nat \X Byte)
    BY <1>1, <1>4
<1>7. s.data \in [Byte -> Content]
    BY <1>1 DEF Content
<1>8. /\ s.holes \in Seq(Nat \ {0}) /\ s.index \in Seq(IndexEntry) /\ DOMAIN s.index = {}
      /\ ToSet(s.holes) = {} /\ IsInjective(s.holes)
    BY <1>1 DEF ToSet, IsInjective
<1>9. s.written \in Seq(Seq(IndexEntry))
    BY <1>1
<1>10. s \in State
    BY <1>1, <1>3, <1>5, <1>6, <1>7, <1>8, <1>9 DEF State
<1>11. FreeOK(s)
    BY <1>1, <1>4 DEF FreeOK
<1>12. FilesOK(s)
    BY <1>2 DEF FilesOK
<1>13. Exact(s)
    <2>1. \A u \in Byte : InFree(s, 0, u)
        BY <1>4 DEF InFree, Byte
    <2>2. QED BY <1>2, <1>4, <2>1 DEF Exact, FreeBytes
<1>14. IndexBut(s, {})
    BY <1>2, <1>8 DEF IndexBut
<1>15. KeepsContents(s)
    BY <1>2 DEF KeepsContents
<1>16. QED BY <1>10, <1>11, <1>12, <1>13, <1>14, <1>15 DEF Good, s

LEMMA NowData ==
    /\ HasData(Now) = WithData /\ Now.files = mFileBlocks /\ Now.index = index
    /\ HasData(Now)' = WithData'
    BY DEF HasData, Now, WithData

\* The index on disk lags behind by the last write of an operation.
LEMMA EndsFacts ==
    ASSUME Good(Now), NEW s, Good(s), Ending(s, index), Ends(s), SoundIndex(indexOnDisk)
    PROVE  Becomes(s) /\ SoundIndex(indexOnDisk')
<1> DEFINE v == s.written
           n == Len(v)
<1>1. s \in State /\ v \in Seq(Seq(IndexEntry))
    BY DEF Good, State
<1>2. \A k \in DOMAIN v : k < n => SoundIndex(v[k])
    BY <1>1, EndingIsSound
<1>3. Becomes(s) /\ indexOnDisk' = IF n > 1 THEN v[n - 1] ELSE indexOnDisk
    BY DEF Ends
<1> HIDE DEF v
<1>4. n \in Nat /\ DOMAIN v = 1 .. n
    BY <1>1
<1> HIDE DEF n
<1>5. n > 1 => n - 1 \in DOMAIN v /\ n - 1 < n
    BY <1>4
<1>6. QED BY <1>2, <1>3, <1>5

LEMMA OperationStep ==
    ASSUME Good(Now), SoundIndex(indexOnDisk), NEW s, Operation(Now, s), Ends(s)
    PROVE  Good(Now)' /\ SoundIndex(indexOnDisk') /\ LocksHold
<1>1. Good(s) /\ s \in State
    BY DEF Operation, Good
<1>0. Becomes(s) /\ SoundIndex(indexOnDisk')
    <2>1. Ending(s, index)
        BY NowClears DEF Operation
    <2>2. QED BY <1>1, <2>1, EndsFacts
<1>2. /\ Good(Now)'
      /\ DOMAIN mFileBlocks' = DOMAIN s.files /\ HasData(Now)' = HasData(s)
      /\ \A g \in DOMAIN s.files : mFileBlocks'[g].size = s.files[g].size
    BY <1>0, <1>1, BecomesFacts
<1>3. ASSUME NEW g \in Files, Locked(g), Locked(g)', g \in WithData
      PROVE  g \in WithData' /\ mFileBlocks'[g].size >= mFileBlocks[g].size
    <2>1. g \in HasData(Now) /\ Now.files[g].locks > 0 /\ g \in DOMAIN s.files
        BY <1>2, <1>3, NowData DEF Locked
    <2>2. g \in HasData(s) /\ Now.files[g].size <= s.files[g].size
        BY <2>1 DEF Operation
    <2>3. Now.files[g].size \in Nat /\ s.files[g].size \in Nat
        <3>1. Now \in State /\ g \in DOMAIN Now.files
            BY <2>1 DEF Good, HasData
        <3>2. QED BY <1>1, <2>1, <3>1, BlockFields
    <2>4. mFileBlocks'[g].size = s.files[g].size /\ mFileBlocks[g].size = Now.files[g].size
        BY <1>2, <2>1, NowData
    <2>5. QED BY <1>2, <2>2, <2>3, <2>4, NowData
<1>4. QED BY <1>0, <1>2, <1>3 DEF LocksHold

LEMMA RemoveStep ==
    ASSUME Good(Now), SoundIndex(indexOnDisk), NEW f \in Files, RemoveFile(f)
    PROVE  Good(Now)' /\ SoundIndex(indexOnDisk') /\ LocksHold
<1> DEFINE s == RemoveFileBlock(Now, f)
<1>1. f \in DOMAIN mFileBlocks /\ Ends(s)
    BY DEF RemoveFile, RemoveResults
<1>2. f \in DOMAIN Now.files
    BY <1>1, NowData
<1>3. /\ Good(s) /\ DOMAIN s.files = DOMAIN Now.files
      /\ \A g \in DOMAIN Now.files \ {f} : s.files[g] = Now.files[g]
      /\ HasData(s) = HasData(Now) \ {f}
      /\ s.written = Now.written \/ s.written = Append(Now.written, s.index)
    BY <1>2, RemoveFacts
<1> HIDE DEF s
<1>0. Becomes(s) /\ SoundIndex(indexOnDisk')
    <2>1. Now \in State /\ OnlyClears(Now, index)
        BY NowClears
    <2>2. Ending(s, index)
        BY <1>3, <2>1, EndsWithSave DEF OnlyClears, Ending
    <2>3. QED BY <1>1, <1>3, <2>2, EndsFacts
<1>4. /\ Good(Now)' /\ HasData(Now)' = HasData(s)
      /\ \A g \in DOMAIN s.files : mFileBlocks'[g].size = s.files[g].size
    BY <1>0, <1>3, BecomesFacts
<1>5. ASSUME NEW g \in Files, g \in WithData, g # f
      PROVE  g \in WithData' /\ mFileBlocks'[g].size >= mFileBlocks[g].size
    <2>1. g \in HasData(Now) /\ g \in DOMAIN Now.files
        BY <1>5, NowData DEF HasData
    <2>2. mFileBlocks'[g].size = mFileBlocks[g].size
        BY <1>3, <1>4, <1>5, <2>1, NowData
    <2>3. mFileBlocks[g].size \in Nat
        BY <2>1, NowData, BlockFields DEF Good
    <2>4. QED BY <1>3, <1>4, <1>5, <2>1, <2>2, <2>3, NowData
<1>6. QED BY <1>0, <1>4, <1>5 DEF LocksHold

LEMMA GetStep ==
    ASSUME Good(Now), SoundIndex(indexOnDisk), NEW f \in Files, GetData(f)
    PROVE  Good(Now)' /\ SoundIndex(indexOnDisk') /\ LocksHold
<1> DEFINE s == Accessed(Now, f)
<1>1. f \in HasData(Now) /\ f \in DOMAIN Now.files /\ Ends(s)
    BY DEF GetData, HasData
<1>2. Before(Now, s, f)
    BY <1>1, BeforeAccessed
<1>3. HasData(s) = HasData(Now) /\ s.files[f] = [Now.files[f] EXCEPT !.time = Time(Now)]
    BY <1>1, AccessedFacts
<1> HIDE DEF s
<1>4. s.files[f].size = Now.files[f].size
    <2>1. Now.files[f] \in FileBlock
        BY <1>1, FileTypes DEF Good
    <2>2. QED BY <1>3, <2>1 DEF FileBlock
<1>5. Operation(Now, s)
    BY <1>1, <1>2, <1>3, <1>4, OperationEnds
<1>6. QED BY <1>1, <1>5, OperationStep

LEMMA LockStep ==
    ASSUME Good(Now), SoundIndex(indexOnDisk), NEW f \in Files, IncLock(f) \/ DecLock(f)
    PROVE  Good(Now)' /\ SoundIndex(indexOnDisk') /\ LocksHold
<1>1. /\ Good(Now)' /\ HasData(Now)' = HasData(Now)
      /\ \A g \in HasData(Now) : mFileBlocks'[g].size = mFileBlocks[g].size
    BY LockFacts
<1>2. ASSUME NEW g \in WithData
      PROVE  g \in WithData' /\ mFileBlocks'[g].size >= mFileBlocks[g].size
    <2>1. g \in HasData(Now) /\ g \in DOMAIN Now.files
        BY NowData DEF HasData
    <2>2. mFileBlocks[g].size \in Nat
        BY <2>1, NowData, BlockFields DEF Good
    <2>3. QED BY <1>1, <2>1, <2>2, NowData
<1>3. indexOnDisk' = indexOnDisk
    BY DEF IncLock, DecLock
<1>4. QED BY <1>1, <1>2, <1>3 DEF LocksHold

\* An index that can be loaded is not taken for corrupt.
LEMMA LoadStep ==
    ASSUME mValid = "OK", NEW w, SoundIndex(w), NEW contents \in [Byte -> Content],
           ContentsOf(w, contents), Load(w, contents)
    PROVE  IInv' /\ LocksHold
<1> DEFINE found == {w[k].file : k \in Valid(w)}
<1>1. Sound(w)
    BY SoundIndexIsSound
<1>2. PICK times \in Bijection(found, 1 .. Cardinality(found)) :
            Becomes(Loaded(w, contents, times))
    BY <1>1 DEF Load
<1>3. mValid' = "OK" /\ indexOnDisk' = index'
    BY <1>1 DEF Load
<1>4. times \in [found -> Nat]
    <2> DEFINE n == Cardinality(found)
    <2>1. times \in [found -> 1 .. n]
        BY <1>2 DEF Bijection, Injection
    <2> HIDE DEF n
    <2>2. 1 .. n \subseteq Nat
        OBVIOUS
    <2> HIDE DEF found
    <2>3. QED BY <2>1, <2>2
<1>5. times \in [{w[i].file : i \in Valid(w)} -> Nat]
    BY <1>4
<1> HIDE DEF found
<1> DEFINE s == Loaded(w, contents, times)
<1>6. Good(s) /\ \A f \in DOMAIN s.files : s.files[f].locks = 0
    BY <1>5, LoadedFacts
<1>7. Becomes(s)
    BY <1>2
<1> HIDE DEF s
<1>8. /\ Good(Now)' /\ DOMAIN mFileBlocks' = DOMAIN s.files
      /\ \A g \in DOMAIN s.files : mFileBlocks'[g].locks = s.files[g].locks
    BY <1>6, <1>7, BecomesFacts
<1>9. \A g : ~Locked(g)'
    BY <1>6, <1>8 DEF Locked
<1>10. SoundIndex(index')
    <2>1. s.index \in Seq(IndexEntry) /\ Cleared(s.index, s.index)
        BY <1>6, ClearedItself DEF Good, State
    <2>2. index' = s.index
        BY <1>7 DEF Becomes
    <2>3. QED BY <1>6, <2>1, <2>2, ClearedIsSound
<1>11. QED BY <1>3, <1>8, <1>9, <1>10 DEF IInv, LocksHold

LEMMA Step == IInv /\ [Next]_vars => IInv' /\ (LocksHold \/ UNCHANGED vars)
<1> SUFFICES ASSUME IInv, [Next]_vars PROVE IInv' /\ (LocksHold \/ UNCHANGED vars)
    OBVIOUS
<1>1. Good(Now) /\ SoundIndex(indexOnDisk) /\ mValid = "OK"
    BY DEF IInv
<1>2. ASSUME NEW f \in Files, SetMaxSize(f)
      PROVE  IInv' /\ LocksHold
    <2>1. PICK s \in SetMaxSizeResults(f) : Ends(s)
        BY <1>2 DEF SetMaxSize
    <2>2. Operation(Now, s) /\ mValid' = mValid
        BY <1>1, <2>1, SetMaxSizeOperation DEF Ends
    <2>3. QED BY <1>1, <2>1, <2>2, OperationStep DEF IInv
<1>3. ASSUME NEW f \in Files, StoreData(f)
      PROVE  IInv' /\ LocksHold
    <2>1. PICK s \in StoreResults(f) : Ends(s)
        BY <1>3 DEF StoreData
    <2>2. Operation(Now, s) /\ mValid' = mValid
        BY <1>1, <2>1, StoreOperation DEF Ends
    <2>3. QED BY <1>1, <2>1, <2>2, OperationStep DEF IInv
<1>4. ASSUME NEW f \in Files, NEW g \in Files, RenameFile(f, g)
      PROVE  IInv' /\ LocksHold
    <2>1. PICK s \in RenameResults(f, g) : Ends(s)
        BY <1>4 DEF RenameFile
    <2>2. Operation(Now, s) /\ mValid' = mValid
        BY <1>1, <2>1, RenameOperation DEF Ends
    <2>3. QED BY <1>1, <2>1, <2>2, OperationStep DEF IInv
<1>5. ASSUME NEW f \in Files, RemoveFile(f)
      PROVE  IInv' /\ LocksHold
    BY <1>1, <1>5, RemoveStep DEF RemoveFile, Ends, IInv
<1>6. ASSUME NEW f \in Files, GetData(f)
      PROVE  IInv' /\ LocksHold
    BY <1>1, <1>6, GetStep DEF GetData, Ends, IInv
<1>7. ASSUME NEW f \in Files, IncLock(f) \/ DecLock(f)
      PROVE  IInv' /\ LocksHold
    BY <1>1, <1>7, LockStep DEF IncLock, DecLock, IInv
<1>8. ASSUME Restart
      PROVE  IInv' /\ LocksHold
    BY <1>1, <1>8, DataFacts, IndexIsSound, LoadStep DEF Restart
<1>9. ASSUME Crash
      PROVE  IInv' /\ LocksHold
    <2>1. PICK w \in OnDisk : Load(w, AsFound(w))
        BY <1>9 DEF Crash
    <2>2. SoundIndex(w)
        BY <1>1, OnDiskFacts
    <2>3. QED BY <1>1, <2>1, <2>2, AsFoundFacts, LoadStep
<1>10. ASSUME UNCHANGED vars
      PROVE  IInv'
    <2>1. Now' = Now /\ mValid' = mValid /\ indexOnDisk' = indexOnDisk
        BY <1>10 DEF vars, Now
    <2>2. Good(Now)'
        BY <1>1, <2>1 DEF Good, State, FreeOK, FilesOK, Exact, IndexBut, KeepsContents,
            HasData, Blocks, FreeBytes, InFree, InFile, Entry
    <2>3. QED BY <1>1, <2>1, <2>2 DEF IInv
<1>11. QED BY <1>2, <1>3, <1>4, <1>5, <1>6, <1>7, <1>8, <1>9, <1>10 DEF Next

\* The invariant holds throughout.
THEOREM Invariant == Spec => []IInv
<1>1. Init => IInv
    BY InitGood
<1>2. IInv /\ [Next]_vars => IInv'
    BY Step
<1>3. QED BY <1>1, <1>2, PTL DEF Spec
-----------------------------------------------------------------------------
(* The properties *)

LEMMA GoodSpace == Good(Now) => SpaceIsExact
<1> SUFFICES ASSUME Good(Now) PROVE SpaceIsExact
    OBVIOUS
<1> DEFINE s == Now
<1>1. s \in State /\ FreeOK(s) /\ FilesOK(s) /\ Exact(s)
    BY DEF Good
<1>2. /\ s.files = mFileBlocks /\ HasData(s) = WithData
      /\ s.byLocation = mFreeBlocksByLocation /\ s.byLength = mFreeBlocksByLength
      /\ Blocks(s) = DOMAIN mFreeBlocksByLocation
    BY NowData DEF Now, Blocks
<1>3. \A b \in Blocks(s) : b \in Byte /\ s.byLocation[b] \in Nat \ {0} /\ b \in Int
    BY <1>1, BlockTypes
<1> HIDE DEF s
<1>4. ASSUME NEW f \in WithData, NEW u
      PROVE  /\ u \in BlockOf(f) <=> u \in Int /\ InFile(s, f, u)
             /\ u \in BlockOf(f) => u \in Byte
             /\ mFileBlocks[f].size <= mFileBlocks[f].length
    <2> DEFINE x == s.files[f].location
               n == s.files[f].length
    <2>1. /\ x \in Int /\ 0 <= x /\ n \in Int /\ x + n <= DataSize
          /\ s.files[f].size <= s.files[f].length
        BY <1>1, <1>2, BlockFields DEF HasData, FilesOK
    <2>2. BlockOf(f) = Bytes(x, n) /\ (InFile(s, f, u) <=> x <= u /\ u < x + n)
        BY <1>2 DEF BlockOf, InFile
    <2> HIDE DEF x, n
    <2>3. u \in BlockOf(f) <=> u \in Int /\ x <= u /\ u < x + n
        BY <2>1, <2>2 DEF Bytes
    <2>4. u \in BlockOf(f) => u \in Byte
        BY <2>1, <2>3 DEF Byte
    <2>5. QED BY <1>2, <2>1, <2>2, <2>3, <2>4
<1>5. ASSUME NEW b \in DOMAIN mFreeBlocksByLocation, NEW u
      PROVE  /\ u \in FreeBlock(b) <=> u \in Int /\ InFree(s, b, u)
             /\ u \in FreeBlock(b) => u \in Byte
    <2> DEFINE n == s.byLocation[b]
    <2>1. b \in Int /\ 0 <= b /\ n \in Int /\ b + n <= DataSize
        <3>1. b \in Blocks(s)
            BY <1>2
        <3>2. b \in Byte /\ n \in Int
            BY <1>3, <3>1
        <3>3. b + n <= DataSize
            BY <1>1, <3>1 DEF FreeOK
        <3>4. QED BY <3>2, <3>3 DEF Byte
    <2>2. FreeBlock(b) = Bytes(b, n) /\ (InFree(s, b, u) <=> b <= u /\ u < b + n)
        BY <1>2 DEF FreeBlock, InFree
    <2> HIDE DEF n
    <2>3. u \in FreeBlock(b) <=> u \in Int /\ b <= u /\ u < b + n
        BY <2>1, <2>2 DEF Bytes
    <2>4. u \in FreeBlock(b) => u \in Byte
        BY <2>1, <2>3 DEF Byte
    <2>5. QED BY <2>2, <2>3, <2>4
<1>6. ASSUME NEW u \in Byte
      PROVE  Cardinality({f \in WithData : u \in BlockOf(f)})
            + Cardinality({b \in DOMAIN mFreeBlocksByLocation : u \in FreeBlock(b)}) = 1
    <2> DEFINE owners == {f \in WithData : u \in BlockOf(f)}
               blocks == {b \in DOMAIN mFreeBlocksByLocation : u \in FreeBlock(b)}
    <2>1. u \in Int
        BY DEF Byte
    <2>2. \A f \in WithData : f \in owners <=> InFile(s, f, u)
        BY <1>4, <2>1
    <2>3. \A b \in Blocks(s) : b \in blocks <=> InFree(s, b, u)
        BY <1>2, <1>5, <2>1
    <2>4. owners \subseteq WithData /\ blocks \subseteq Blocks(s)
        BY <1>2
    <2> HIDE DEF owners, blocks
    <2>5. \A f, g \in owners : f = g
        <3> SUFFICES ASSUME NEW f \in owners, NEW g \in owners, f # g PROVE FALSE
            OBVIOUS
        <3>1. InFile(s, f, u) /\ InFile(s, g, u) /\ f \in HasData(s) /\ g \in HasData(s)
            BY <1>2, <2>2, <2>4
        <3>2. /\ s.files[f].location \in Int /\ s.files[f].length \in Int
              /\ s.files[g].location \in Int /\ s.files[g].length \in Int
            BY <1>1, <3>1, BlockFields DEF HasData
        <3>3. \/ s.files[f].location + s.files[f].length <= s.files[g].location
              \/ s.files[g].location + s.files[g].length <= s.files[f].location
            BY <1>1, <3>1 DEF FilesOK
        <3>4. QED BY <2>1, <3>1, <3>2, <3>3 DEF InFile
    <2>6. \A b, c \in blocks : b = c
        <3> SUFFICES ASSUME NEW b \in blocks, NEW c \in blocks, b < c PROVE FALSE
            <4>1. \A b \in blocks : b \in Int
                BY <1>1, <2>4, BlockTypes
            <4>2. QED BY <4>1
        <3>1. InFree(s, b, u) /\ InFree(s, c, u) /\ b + s.byLocation[b] < c
            BY <1>1, <2>3, <2>4 DEF FreeOK
        <3>2. b \in Int /\ c \in Int /\ s.byLocation[b] \in Int
            <4>1. b \in Blocks(s) /\ c \in Blocks(s)
                BY <2>4
            <4>2. QED BY <1>3, <4>1
        <3>3. QED BY <2>1, <3>1, <3>2 DEF InFree
    <2>7. u \in FreeBytes(s) <=> blocks # {}
        BY <2>3, <2>4 DEF FreeBytes
    <2>8. u \in FreeBytes(s) <=> owners = {}
        BY <1>1, <1>2, <2>2, <2>4 DEF Exact
    <2>9. CASE owners = {}
        <3>1. PICK b : blocks = {b}
            BY <2>6, <2>7, <2>8, <2>9
        <3>2. Cardinality(owners) = 0 /\ Cardinality(blocks) = 1
            BY <2>9, <3>1, FS_EmptySet, FS_Singleton
        <3>3. QED BY <3>2 DEF owners, blocks
    <2>10. CASE owners # {}
        <3>1. PICK f : owners = {f}
            BY <2>5, <2>10
        <3>2. blocks = {}
            BY <2>7, <2>8, <2>10
        <3>3. Cardinality(owners) = 1 /\ Cardinality(blocks) = 0
            BY <3>1, <3>2, FS_EmptySet, FS_Singleton
        <3>4. QED BY <3>3 DEF owners, blocks
    <2>11. QED BY <2>9, <2>10
<1>7. ASSUME NEW b \in Blocks(s), b + s.byLocation[b] \in Blocks(s)
      PROVE  FALSE
    <2>1. b \in Int /\ s.byLocation[b] \in Nat \ {0}
        BY <1>1, BlockTypes
    <2>2. b < b + s.byLocation[b]
        BY <2>1
    <2>3. b + s.byLocation[b] < b + s.byLocation[b]
        BY <1>1, <1>7, <2>2 DEF FreeOK
    <2>4. QED BY <2>1, <2>3
<1>8. mFreeBlocksByLength = {<<mFreeBlocksByLocation[b], b>> : b \in DOMAIN mFreeBlocksByLocation}
    BY <1>1, <1>2 DEF FreeOK
<1>9. QED BY <1>2, <1>4, <1>5, <1>6, <1>7, <1>8 DEF SpaceIsExact

LEMMA GoodIndex == Good(Now) => IndexMatches
<1> SUFFICES ASSUME Good(Now) PROVE IndexMatches
    OBVIOUS
<1> DEFINE s == Now
           place(f) == mFileBlocks[f].index
           places == {place(f) : f \in WithData}
           at == [f \in WithData |-> place(f)]
<1>1. /\ IndexBut(s, {}) /\ s \in State
      /\ \A i \in Valid(s.index) : \E f \in HasData(s) : s.files[f].index = i
    BY ValidEntries DEF Good
<1>2. s.files = mFileBlocks /\ HasData(s) = WithData /\ s.index = index /\ s.holes = mIndexHoles
    BY NowData DEF Now
<1>3. IsFiniteSet(WithData)
    <2>1. WithData \in SUBSET Files
        BY <1>1, <1>2, FileTypes
    <2>2. QED BY <2>1, FS_Subset
<1>4. \A f \in WithData : place(f) \in DOMAIN index /\ index[place(f)] = Entry(Now, f)
    BY <1>1, <1>2 DEF IndexBut
<1>5. \A f, g \in WithData : place(f) = place(g) => f = g
    BY <1>1, <1>2 DEF IndexBut
<1>6. ToSet(mIndexHoles) = DOMAIN index \ places /\ IsInjective(mIndexHoles)
    BY <1>1, <1>2 DEF IndexBut
<1>7. Valid(index) \subseteq places
    BY <1>1, <1>2
<1> HIDE DEF s, place
<1>8. at \in Bijection(WithData, places)
    BY <1>5 DEF Bijection, Injection, Surjection, IsInjective
<1>9. Cardinality(places) = Cardinality(WithData)
    <2>1. ExistsBijection(WithData, places)
        BY <1>8 DEF ExistsBijection
    <2> HIDE DEF places
    <2>2. QED BY <1>3, <2>1, FS_Bijection
<1>10. places = {mFileBlocks[f].index : f \in WithData}
    BY DEF place
<1>11. \A f \in WithData : /\ mFileBlocks[f].index \in DOMAIN index
                           /\ index[mFileBlocks[f].index] = Entry(Now, f)
    BY <1>4 DEF place
<1> HIDE DEF places
<1>12. QED BY <1>6, <1>7, <1>9, <1>10, <1>11 DEF IndexMatches

LEMMA GoodContents == Good(Now) => ContentsKept
<1> SUFFICES ASSUME Good(Now), NEW f \in WithData, NEW o \in 0 .. mFileBlocks[f].size - 1
             PROVE  data[mFileBlocks[f].location + o] = <<f, o>>
    BY DEF ContentsKept
<1>1. /\ f \in HasData(Now) /\ f \in DOMAIN Now.files /\ Now.files = mFileBlocks
      /\ Now.data = data
    BY NowData DEF HasData, Now
<1>2. mFileBlocks[f].size \in Nat
    BY <1>1, BlockFields DEF Good
<1>3. o \in Nat /\ o < mFileBlocks[f].size
    BY <1>2
<1>4. QED BY <1>1, <1>3 DEF Good, KeepsContents

\* Every byte of the data file belongs to one file or to one free block, free
\* blocks that touch are merged, and the two maps of them agree.
THEOREM Space == Spec => []SpaceIsExact
<1>1. IInv => SpaceIsExact
    BY GoodSpace DEF IInv
<1>2. QED BY <1>1, Invariant, PTL

\* The index has the entry of every file with data at its place, and the rest of
\* it is the holes, each once.
THEOREM IndexAgrees == Spec => []IndexMatches
<1>1. IInv => IndexMatches
    BY GoodIndex DEF IInv
<1>2. QED BY <1>1, Invariant, PTL

\* A file reads back what was last stored in it, or what it had after a crash,
\* whatever moved, grew, shrank or was thrown away since, and however often the
\* viewer ended.
THEOREM Contents == Spec => []ContentsKept
<1>1. IInv => ContentsKept
    BY GoodContents DEF IInv
<1>2. QED BY <1>1, Invariant, PTL

\* The next start never takes for corrupt an index that a crash left on disk.
THEOREM AlwaysLoads == Spec => []NeverCorrupt
<1>1. IInv => NeverCorrupt
    BY DEF IInv, NeverCorrupt
<1>2. QED BY <1>1, Invariant, PTL

\* A file that somebody locked never loses its data to another file's need of
\* space.
THEOREM LocksKept == Spec => LockedKept
<1>1. IInv /\ [Next]_vars =>
        [\A f \in Files : Locked(f) /\ Locked(f)' /\ f \in WithData =>
            (f \in WithData' /\ mFileBlocks'[f].size >= mFileBlocks[f].size) \/ RemoveFile(f)]_vars
    BY Step DEF LocksHold
<1>2. QED BY <1>1, Invariant, PTL DEF Spec, LockedKept
=============================================================================
