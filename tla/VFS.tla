-------------------------------- MODULE VFS --------------------------------
(***************************************************************************)
(* The viewer's file cache, LLVFS (llvfs/llvfs.cpp): files are blocks of   *)
(* one data file, the rest of it is free blocks kept in two maps, and an   *)
(* index file on disk says which file is where.  Files that nobody locked  *)
(* are thrown away, oldest first, when a block is needed.                  *)
(*                                                                         *)
(* Every operation holds mDataMutex from begin to end and is one action.   *)
(* The viewer may crash in the middle of one, and reads the index when it  *)
(* starts again.  A crash may lose what the C library still has in its     *)
(* buffers (the calls of fflush are comments): the last write to each of   *)
(* the two files, since every write is preceded by an fseek, which writes  *)
(* out the one before.                                                     *)
(*                                                                         *)
(* A byte of a model file stands for any number of bytes; its value is the *)
(* file and the offset it was written for, or found at after a crash.      *)
(***************************************************************************)
EXTENDS Integers, Sequences, FiniteSets, SequencesExt, FiniteSetsExt

CONSTANTS
    Files,              \* the ids of files
    Textures,           \* those of type AT_TEXTURE, whose size is not rounded
    DataSize,           \* bytes of the data file
    BlockSize,          \* FILE_BLOCK_MASK + 1
    VFS_CLEANUP_SIZE,
    MaxLocks            \* bound: locks on one file

ASSUME VFSAssumption ==
    /\ IsFiniteSet(Files) /\ Textures \subseteq Files
    /\ DataSize \in Nat \ {0} /\ BlockSize \in Nat \ {0}
    /\ VFS_CLEANUP_SIZE \in Nat /\ MaxLocks \in Nat

VARIABLES
    mFileBlocks,            \* file -> its block; a dummy one has no length
    mFreeBlocksByLocation,  \* location -> length of the free block there
    mFreeBlocksByLength,    \* pairs <<length, location>>
    mIndexHoles,            \* the index entries to be used again
    index,                  \* the index file, a sequence of entries
    indexOnDisk,            \* the same without the last write
    data,                   \* the data file
    mValid

vars == <<mFileBlocks, mFreeBlocksByLocation, mFreeBlocksByLength, mIndexHoles,
          index, indexOnDisk, data, mValid>>
-----------------------------------------------------------------------------
(* Data *)

BLOCK_LENGTH_INVALID == -1
Byte == 0 .. DataSize - 1
NoByte == <<>>
NoEntry == [length |-> 0]

\* The states of the program are records here, so that an operation can be put
\* together from the calls it makes; written is what it wrote to the index.
Now == [files |-> mFileBlocks, byLocation |-> mFreeBlocksByLocation,
        byLength |-> mFreeBlocksByLength, holes |-> mIndexHoles, index |-> index,
        data |-> data, written |-> <<index>>]

HasData(s) == {f \in DOMAIN s.files : s.files[f].length > 0}
Blocks(s) == DOMAIN s.byLocation
Bytes(location, length) == location .. location + length - 1

\* mAccessTime matters by its order only: the times of the files that have data
\* are numbered from 1.
Ranked(s) ==
    LET times == {s.files[f].time : f \in HasData(s)}
        rank(f) == IF f \in HasData(s)
                   THEN Cardinality({t \in times : t <= s.files[f].time}) ELSE 0
    IN  [f \in DOMAIN s.files |-> [s.files[f] EXCEPT !.time = rank(f)]]

Becomes(s) ==
    /\ mFileBlocks' = Ranked(s)
    /\ mFreeBlocksByLocation' = s.byLocation
    /\ mFreeBlocksByLength' = s.byLength
    /\ mIndexHoles' = s.holes
    /\ index' = s.index
    /\ data' = s.data

\* An operation ends in s.  Its last write to the index stays in the buffer.
Ends(s) ==
    LET n == Len(s.written)
    IN  /\ Becomes(s)
        /\ indexOnDisk' = IF n > 1 THEN s.written[n - 1] ELSE indexOnDisk
        /\ UNCHANGED mValid

\* time(NULL) at an access.  Bound: no two accesses fall in one second.
Time(s) == Max({s.files[f].time : f \in HasData(s)} \cup {0}) + 1
-----------------------------------------------------------------------------
(* Free blocks *)

\* eraseBlock, for each of a set of locations.
EraseBlocks(s, locations) ==
    [s EXCEPT !.byLocation = [b \in DOMAIN @ \ locations |-> @[b]],
              !.byLength = @ \ {<<s.byLocation[b], b>> : b \in locations}]

InsertBlock(s, location, length) ==
    [s EXCEPT !.byLocation = [b \in DOMAIN @ \cup {location} |->
                                IF b = location THEN length ELSE @[b]],
              !.byLength = @ \cup {<<length, location>>}]

\* Fault: not merged with the previous free block.
AddFreeBlockUnmerged(s, location, length) ==
    LET next   == {b \in Blocks(s) : b = location + length}
        end    == Max({location + length} \cup {b + s.byLocation[b] : b \in next})
        added  == InsertBlock(EraseBlocks(s, next), location, end - location)
    IN  [added EXCEPT !.data =
            [u \in Byte |-> IF u \in Bytes(location, length) THEN NoByte ELSE @[u]]]

\* addFreeBlock merges the new block with the one that ends where it begins and
\* the one that begins where it ends.  What is in free space is of no account.
AddFreeBlock(s, location, length) ==
    LET previous == {b \in Blocks(s) : b + s.byLocation[b] = location}
        next     == {b \in Blocks(s) : b = location + length}
        start    == Min({location} \cup previous)
        end      == Max({location + length} \cup {b + s.byLocation[b] : b \in next})
        erased   == EraseBlocks(s, previous \cup next)
    IN  [InsertBlock(erased, start, end - start) EXCEPT !.data =
            [u \in Byte |-> IF u \in Bytes(location, length) THEN NoByte ELSE @[u]]]

\* useFreeSpace takes the first bytes of a free block.
UseFreeSpace(s, location, length) ==
    LET rest   == s.byLocation[location] - length
        erased == EraseBlocks(s, {location})
    IN  IF rest = 0 THEN erased ELSE AddFreeBlock(erased, location + length, rest)
-----------------------------------------------------------------------------
(* The index *)

Entry(s, f) == [file |-> f, location |-> s.files[f].location,
                length |-> s.files[f].length, size |-> s.files[f].size]

\* sync writes the entry of f to its place in the index, the first hole or the
\* end of the file, or clears it, which leaves a hole; dummies are not saved.
Sync(s, f, remove) ==
    LET own   == s.files[f].index
        slot  == IF own # 0 THEN own
                 ELSE IF s.holes # <<>> THEN Head(s.holes) ELSE Len(s.index) + 1
        holes == IF own = 0 /\ s.holes # <<>> THEN Tail(s.holes) ELSE s.holes
        entry == IF remove THEN NoEntry ELSE Entry(s, f)
        now   == [i \in DOMAIN s.index \cup {slot} |->
                    IF i = slot THEN entry ELSE s.index[i]]
    IN  IF s.files[f].length = BLOCK_LENGTH_INVALID THEN s
        ELSE [s EXCEPT !.files[f].index = slot,
                       !.holes = IF remove THEN Append(holes, slot) ELSE holes,
                       !.index = now,
                       !.written = Append(@, now)]

Dummy(locks) == [location |-> 0, length |-> BLOCK_LENGTH_INVALID, size |-> 0,
                 index |-> 0, time |-> 0, locks |-> locks]

\* Fault: the place in the index is not forgotten.
RemoveFileBlockInPlace(s, f) ==
    LET block  == s.files[f]
        synced == Sync(s, f, TRUE)
        freed  == IF block.length > 0
                  THEN AddFreeBlock(synced, block.location, block.length) ELSE synced
    IN  [freed EXCEPT !.files[f] = [Dummy(block.locks) EXCEPT !.index = block.index]]

\* Fault: the entry is not cleared on disk.
RemoveFileBlockUnsynced(s, f) ==
    LET block == s.files[f]
        freed == IF block.length > 0
                 THEN AddFreeBlock(s, block.location, block.length) ELSE s
    IN  [freed EXCEPT !.files[f] = Dummy(block.locks)]

\* removeFileBlock keeps the block as a dummy, for its locks.
RemoveFileBlock(s, f) ==
    LET block  == s.files[f]
        synced == Sync(s, f, TRUE)
        freed  == IF block.length > 0
                  THEN AddFreeBlock(synced, block.location, block.length) ELSE synced
    IN  [freed EXCEPT !.files[f] = Dummy(block.locks)]
-----------------------------------------------------------------------------
(* Making room *)

\* The free blocks findFreeBlock may return: the shortest that suffice.
BestFit(s, size) ==
    LET lengths == {p[1] : p \in {q \in s.byLength : q[1] >= size}}
    IN  {p[2] : p \in {q \in s.byLength : lengths # {} /\ q[1] = Min(lengths)}}

\* insertLRU
Older(s, f, g) == s.files[f].time < s.files[g].time

\* Fault: locks are not looked at.
LRUListOfAll(s, immune) == HasData(s) \ immune

\* The files that may be thrown away; `immune' may not.  The code lists them once:
\* in the loop only removals change them.
LRUList(s, immune) == {f \in HasData(s) \ immune : s.files[f].locks = 0}

\* lru_list.begin()
Oldest(s, immune) ==
    CHOOSE f \in LRUList(s, immune) : \A g \in LRUList(s, immune) : ~Older(s, g, f)

\* The loop of findFreeBlock, one removal at a time: r.left of the bytes that the
\* loop set out to clean up are left.  It ends when a free block suffices or no
\* file is left.
RoomMade(r, size, immune) ==
    LRUList(r.s, immune) = {} \/ (r.left <= 0 /\ BestFit(r.s, size) # {})

\* The oldest file goes; if it is not long enough, as many as add up to the size
\* needed or VFS_CLEANUP_SIZE.
RemoveOldest(r, size, immune) ==
    LET f      == Oldest(r.s, immune)
        length == r.s.files[f].length
        target == Max({size, VFS_CLEANUP_SIZE})
    IN  [s |-> RemoveFileBlock(r.s, f),
         left |-> IF r.left > 0 THEN r.left - length
                  ELSE IF length >= size THEN 0 ELSE target - length]

MakeRoom(s, size, immune) ==
    LET n == Cardinality(LRUList(s, immune))
        loop[k \in 0 .. n] ==
            IF k = 0 THEN [s |-> s, left |-> 0]
            ELSE IF RoomMade(loop[k - 1], size, immune) THEN loop[k - 1]
            ELSE RemoveOldest(loop[k - 1], size, immune)
    IN  loop[n].s
-----------------------------------------------------------------------------
(* The operations, each the set of the states it may end in *)

Accessed(s, f) == [s EXCEPT !.files[f].time = Time(s)]

\* Sizes are rounded upward to whole blocks, except those of textures.
Rounded(f, size) ==
    IF f \in Textures THEN size ELSE ((size + BlockSize - 1) \div BlockSize) * BlockSize

\* setMaxSize of a file that shrinks; cutting off data is an LL_ERRS.
Shrunk(s, f, size) ==
    LET block == s.files[f]
        freed == AddFreeBlock(s, block.location + size, block.length - size)
    IN  Sync([freed EXCEPT !.files[f].length = size], f, FALSE)

\* One that grows into the free block behind it.
GrowsInPlace(s, f, size) ==
    LET end == s.files[f].location + s.files[f].length
    IN  end \in Blocks(s) /\ s.byLocation[end] >= size - s.files[f].length

Grown(s, f, size) ==
    LET block == s.files[f]
        used  == UseFreeSpace(s, block.location + block.length, size - block.length)
    IN  Sync([used EXCEPT !.files[f].length = size], f, FALSE)

\* Fault: the last byte is not copied.
MovedShort(s, f, location, size) ==
    LET block == s.files[f]
        used  == UseFreeSpace(s, location, size)
        freed == AddFreeBlock(used, block.location, block.length)
        copied(u) == used.data[block.location + (u - location)]
    IN  Sync([freed EXCEPT !.files[f].location = location,
                           !.files[f].length = size,
                           !.data = [u \in Byte |-> IF u \in Bytes(location, block.size - 1)
                                                    THEN copied(u) ELSE @[u]]], f, FALSE)

\* One that moves to the free block at `location'.
Moved(s, f, location, size) ==
    LET block == s.files[f]
        used  == UseFreeSpace(s, location, size)
        freed == AddFreeBlock(used, block.location, block.length)
        copied(u) == used.data[block.location + (u - location)]
    IN  Sync([freed EXCEPT !.files[f].location = location,
                           !.files[f].length = size,
                           !.data = [u \in Byte |-> IF u \in Bytes(location, block.size)
                                                    THEN copied(u) ELSE @[u]]], f, FALSE)

\* A file that has no block yet, of which there may be a dummy.
Placed(s, f, location, size) ==
    LET used  == UseFreeSpace(s, location, size)
        dummy == IF f \in DOMAIN s.files THEN s.files[f] ELSE Dummy(0)
        block == [dummy EXCEPT !.location = location, !.length = size, !.time = Time(s)]
        files == [g \in DOMAIN s.files \cup {f} |-> IF g = f THEN block ELSE s.files[g]]
    IN  Sync([used EXCEPT !.files = files], f, FALSE)

\* setMaxSize to a rounded size; a file for which room cannot be made stays as it is, but what
\* was thrown away is gone.
SetMaxSizeOf(s, f, size) ==
    LET touched == Accessed(s, f)
        room    == MakeRoom(touched, size, {f})
        free    == MakeRoom(s, size, {})
    IN  IF f \in HasData(s)
        THEN CASE size = s.files[f].length -> {touched}
               [] size < s.files[f].length -> {Shrunk(touched, f, size)}
               [] size > s.files[f].length /\ GrowsInPlace(touched, f, size) ->
                    {Grown(touched, f, size)}
               [] OTHER ->
                    IF BestFit(room, size) = {} THEN {room}
                    ELSE {Moved(room, f, location, size) : location \in BestFit(room, size)}
        ELSE IF BestFit(free, size) = {} THEN {free}
             ELSE {Placed(free, f, location, size) : location \in BestFit(free, size)}

\* renameFile: what was in the place is removed, and the block moves with its
\* locks and its place in the index.
Renamed(s, f, g) ==
    LET cleared == IF g \in DOMAIN s.files THEN RemoveFileBlock(s, g) ELSE s
        block   == [cleared.files[f] EXCEPT !.time = Time(cleared)]
        files   == [h \in (DOMAIN cleared.files \cup {g}) \ {f} |->
                        IF h = g THEN block ELSE cleared.files[h]]
        named(byte) == IF byte # NoByte /\ byte[1] = f THEN <<g, byte[2]>> ELSE byte
    IN  Sync([cleared EXCEPT !.files = files,
                             !.data = [u \in Byte |-> named(@[u])]], g, FALSE)

\* storeData writes within the block, and the size grows with what it wrote; a
\* write to a dummy is ignored.
Stored(s, f, location, length) ==
    LET block   == s.files[f]
        n       == Min({length, block.length - location})
        touched == Accessed(s, f)
        wrote   == [touched EXCEPT !.data = [u \in Byte |->
                        IF u \in Bytes(block.location + location, n)
                        THEN <<f, u - block.location>> ELSE @[u]]]
    IN  IF block.length = BLOCK_LENGTH_INVALID THEN touched
        ELSE IF location + n <= block.size THEN wrote
        ELSE Sync([wrote EXCEPT !.files[f].size = location + n], f, FALSE)
-----------------------------------------------------------------------------
(* Starting *)

\* The entries of an index that are taken for files: those of no size are not.
Valid(idx) == {i \in DOMAIN idx : idx[i].length > 0 /\ idx[i].size > 0}
Used(idx, i) == Bytes(idx[i].location, idx[i].length)

\* The checks of the constructor: an entry must lie in the data file, and two
\* must not overlap.
Sound(idx) ==
    /\ \A i \in Valid(idx) : /\ idx[i].length <= DataSize /\ idx[i].location < DataSize
                             /\ idx[i].size <= idx[i].length
    /\ \A i, j \in Valid(idx) : i # j => Used(idx, i) \cap Used(idx, j) = {}

\* The entries of no file become holes, in the order of the index.
Holes(idx) ==
    LET upTo[n \in 0 .. Len(idx)] ==
            IF n = 0 THEN <<>>
            ELSE IF n \in Valid(idx) THEN upTo[n - 1] ELSE Append(upTo[n - 1], n)
    IN  upTo[Len(idx)]

\* What the files of an index find in their blocks after a crash, whatever it is:
\* it counts as stored there.
AsFound(idx) ==
    [u \in Byte |->
        LET mine == {i \in Valid(idx) : u \in Bytes(idx[i].location, idx[i].size)}
        IN  IF mine = {} THEN NoByte
            ELSE <<idx[Min(mine)].file, u - idx[Min(mine)].location>>]

\* The blocks between the entries are free.  What is in a hole, in free space or
\* behind a file's size is of no account.  The access times are those of the
\* last syncs: any order.
Loaded(idx, contents, times) ==
    LET found == {idx[i].file : i \in Valid(idx)}
        slot(f) == Min({i \in Valid(idx) : idx[i].file = f})
        free  == Byte \ UNION {Used(idx, i) : i \in Valid(idx)}
        start == {u \in free : u - 1 \notin free}
        run(u) == Min({v \in u .. DataSize : v \notin free}) - u
        block(f) == [location |-> idx[slot(f)].location, length |-> idx[slot(f)].length,
                     size |-> idx[slot(f)].size, index |-> slot(f), time |-> times[f],
                     locks |-> 0]
        stored == UNION {Bytes(block(f).location, block(f).size) : f \in found}
    IN  [files |-> [f \in found |-> block(f)],
         byLocation |-> [u \in start |-> run(u)],
         byLength |-> {<<run(u), u>> : u \in start},
         holes |-> Holes(idx),
         index |-> [i \in DOMAIN idx |-> IF i \in Valid(idx) THEN idx[i] ELSE NoEntry],
         data |-> [u \in Byte |-> IF u \in stored THEN contents[u] ELSE NoByte],
         written |-> <<idx>>]
-----------------------------------------------------------------------------
Init ==
    /\ mFileBlocks = <<>>
    /\ mFreeBlocksByLocation = [b \in {0} |-> DataSize]
    /\ mFreeBlocksByLength = {<<DataSize, 0>>}
    /\ mIndexHoles = <<>>
    /\ index = <<>>
    /\ indexOnDisk = <<>>
    /\ data = [u \in Byte |-> NoByte]
    /\ mValid = "OK"

Size == 1 .. DataSize
Locked(f) == f \in DOMAIN mFileBlocks /\ mFileBlocks[f].locks > 0

\* Callers do not set a size below that of the data, LL_ERRS, and LLVFile seeks
\* no further than the end.  A file is not renamed to itself or to a name that
\* somebody has open, LL_ERRS.
SetMaxSizeResults(f) ==
    LET sizes == {Rounded(f, asked) : asked \in Size}
    IN  UNION {SetMaxSizeOf(Now, f, size) : size \in
                    {n \in sizes : f \in HasData(Now) => n >= mFileBlocks[f].size}}

RenameResults(f, g) ==
    IF f \in DOMAIN mFileBlocks /\ f # g /\ ~Locked(g)
    THEN {Renamed(Now, f, g)} ELSE {}

RemoveResults(f) ==
    IF f \in DOMAIN mFileBlocks THEN {RemoveFileBlock(Now, f)} ELSE {}

StoreResults(f) ==
    IF f \in DOMAIN mFileBlocks
    THEN {Stored(Now, f, location, length) :
            location \in 0 .. mFileBlocks[f].size, length \in Size}
    ELSE {}

SetMaxSize(f) == mValid = "OK" /\ \E s \in SetMaxSizeResults(f) : Ends(s)
RenameFile(f, g) == mValid = "OK" /\ \E s \in RenameResults(f, g) : Ends(s)
RemoveFile(f) == mValid = "OK" /\ \E s \in RemoveResults(f) : Ends(s)
StoreData(f) == mValid = "OK" /\ \E s \in StoreResults(f) : Ends(s)

\* getExists, getSize, getMaxSize and getData.
GetData(f) ==
    /\ mValid = "OK" /\ f \in HasData(Now)
    /\ Ends(Accessed(Now, f))

\* A file that is not there is locked by a dummy.
IncLock(f) ==
    LET block == IF f \in DOMAIN mFileBlocks THEN mFileBlocks[f] ELSE Dummy(0)
    IN  /\ mValid = "OK" /\ block.locks < MaxLocks
        /\ mFileBlocks' = [g \in DOMAIN mFileBlocks \cup {f} |->
                IF g = f THEN [block EXCEPT !.locks = @ + 1] ELSE mFileBlocks[g]]
        /\ UNCHANGED <<mFreeBlocksByLocation, mFreeBlocksByLength, mIndexHoles, index,
                       indexOnDisk, data, mValid>>

DecLock(f) ==
    /\ mValid = "OK" /\ Locked(f)
    /\ mFileBlocks' = [mFileBlocks EXCEPT ![f].locks = @ - 1]
    /\ UNCHANGED <<mFreeBlocksByLocation, mFreeBlocksByLength, mIndexHoles, index,
                   indexOnDisk, data, mValid>>

\* The operations that write more than one entry.
Results(f) == SetMaxSizeResults(f) \cup UNION {RenameResults(f, g) : g \in Files}

\* What the index may be when the viewer crashes, between operations or in the
\* middle of one that writes more than one entry.
OnDisk == {index, indexOnDisk}
            \cup UNION {ToSet(Front(s.written)) : s \in UNION {Results(f) : f \in Files}}

\* The constructor.  A corrupt cache is deleted; LLAppViewer starts with another.
Load(idx, contents) ==
    LET found == {idx[i].file : i \in Valid(idx)}
    IN  IF Sound(idx)
        THEN /\ \E times \in Bijection(found, 1 .. Cardinality(found)) :
                    Becomes(Loaded(idx, contents, times))
             /\ indexOnDisk' = index'
             /\ UNCHANGED mValid
        ELSE /\ mValid' = "BAD_CORRUPT"
             /\ UNCHANGED <<mFileBlocks, mFreeBlocksByLocation, mFreeBlocksByLength,
                            mIndexHoles, index, indexOnDisk, data>>

\* The viewer ends, which closes the files, and starts again.
Restart == mValid = "OK" /\ Load(index, data)

\* It crashes and starts again.
Crash == mValid = "OK" /\ \E idx \in OnDisk : Load(idx, AsFound(idx))

Next ==
    \/ \E f \in Files : SetMaxSize(f) \/ RemoveFile(f) \/ StoreData(f) \/ GetData(f)
                        \/ IncLock(f) \/ DecLock(f)
    \/ \E f, g \in Files : RenameFile(f, g)
    \/ Restart
    \/ Crash

Spec == Init /\ [][Next]_vars
-----------------------------------------------------------------------------
(* Properties *)

WithData == {f \in DOMAIN mFileBlocks : mFileBlocks[f].length > 0}
BlockOf(f) == Bytes(mFileBlocks[f].location, mFileBlocks[f].length)
FreeBlock(b) == Bytes(b, mFreeBlocksByLocation[b])

\* Blocks lie in the data file, so that no operation writes past the block it was
\* given; every byte belongs to one file or to one free block; free
\* blocks that touch are merged (addFreeBlock, useFreeSpace, the load); and the
\* map by length holds the blocks of the map by location, at the lengths they
\* have now, so that eraseBlockLength's LL_ERRS never fires.
SpaceIsExact ==
    /\ \A f \in WithData : BlockOf(f) \subseteq Byte /\ mFileBlocks[f].size <= mFileBlocks[f].length
    /\ \A b \in DOMAIN mFreeBlocksByLocation : FreeBlock(b) \subseteq Byte
    /\ \A u \in Byte :
        Cardinality({f \in WithData : u \in BlockOf(f)})
            + Cardinality({b \in DOMAIN mFreeBlocksByLocation : u \in FreeBlock(b)}) = 1
    /\ \A b \in DOMAIN mFreeBlocksByLocation :
        b + mFreeBlocksByLocation[b] \notin DOMAIN mFreeBlocksByLocation
    /\ mFreeBlocksByLength =
        {<<mFreeBlocksByLocation[b], b>> : b \in DOMAIN mFreeBlocksByLocation}

\* What audit() and checkMem() look for: the index has the entry of every file
\* with data at its place, and of no other; the rest of it is the holes, each once.
IndexMatches ==
    LET places == {mFileBlocks[f].index : f \in WithData}
    IN  /\ \A f \in WithData : /\ mFileBlocks[f].index \in DOMAIN index
                                   /\ index[mFileBlocks[f].index] = Entry(Now, f)
        /\ Cardinality(places) = Cardinality(WithData)
        /\ ToSet(mIndexHoles) = DOMAIN index \ places
        /\ IsInjective(mIndexHoles)
        /\ Valid(index) \subseteq places

\* A file reads back what was last stored in it, also when the viewer has ended
\* and started since, or what it had after a crash, whatever moved, grew, shrank
\* or was thrown away since.
ContentsKept ==
    \A f \in WithData : \A o \in 0 .. mFileBlocks[f].size - 1 :
        data[mFileBlocks[f].location + o] = <<f, o>>

\* The index on disk is never one the next start takes for corrupt, whenever
\* the viewer ends or crashes, though the last write may be lost ("we need to do
\* this constantly to avoid corruption on viewer crash", sync).
NeverCorrupt == mValid = "OK"

\* A file that somebody locked, and did not rename, loses its data or any part
\* of it to its removal only: never to another file's need of space.
LockedKept ==
    [][\A f \in Files : Locked(f) /\ Locked(f)' /\ f \in WithData =>
            (f \in WithData' /\ mFileBlocks'[f].size >= mFileBlocks[f].size) \/ RemoveFile(f)]_vars

=============================================================================
