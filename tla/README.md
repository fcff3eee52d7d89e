# A verification project for the Meerkat viewer

Meerkat is a Second Life viewer: a client of about 700 000 lines of C++ under
`src/indra`. Most of it draws, decodes and shows; what is hard to get right and
hard to test is the machinery underneath, where two hosts or two threads disagree
about what has happened. This directory holds TLA+ models of that machinery,
TLC configurations that check them on small instances, and TLAPS proofs for
every instance. Paths below are relative to `src/indra`.

Seven subsystems are modelled:

| subsystem | code | modules |
|---|---|---|
| reliable circuits over UDP | `llmessage/llcircuit.cpp`, `message.cpp`, `llpacketack.cpp` | `PacketIds`, `Circuit`, `ReliableDelivery`, `MCCircuit`, `Circuit_proofs`, `CircuitDelivery_proofs` |
| queued threads | `llcommon/llqueuedthread.cpp`, `llthread.cpp` | `QueuedThread`, `MCQueuedThread`, `QueuedThread_proofs` |
| worker threads | `llcommon/llworkerthread.cpp` | `WorkerThread` (on top of `QueuedThread`), `MCWorkerThread`, `WorkerThread_proofs` |
| xfers | `llmessage/llxfermanager.cpp`, `llxfer.cpp`, `llxfer_file.cpp` | `Xfer`, `MCXfer`, `Xfer_proofs` |
| the file cache | `llvfs/llvfs.cpp` | `VFS`, `MCVFS`, `VFS_proofs` |
| transfers | `llmessage/lltransfermanager.cpp`, `lltransfersourceasset.cpp`, `lltransfertargetvfile.cpp` | `TransferService`, `Transfer`, `MCTransfer`, `Transfer_proofs` |
| asset storage | `llmessage/llassetstorage.cpp`, `newview/llviewerassetstorage.cpp` | `AssetStorage`, `MCAssetStorage`, `AssetStorage_proofs` |

They are layers. A circuit carries the messages of the other protocols; `Transfer`
takes from it that a reliable message arrives after any delay, maybe twice, or its
sender is told that it did not. `AssetStorage` takes from `Transfer` that a transfer
calls back once, and may leave nothing although it succeeded (`TransferService`), and
from `VFS` that a file nobody holds open may go at any time. `WorkerThread` contains
`QueuedThread`.

## 1. Inventory

`PROJECT.json` lists every component with its source files and the reason when it
is not modelled. In short, with the state each keeps, how it interacts, and what
would make it correct:

* **Circuits** (`LLCircuitData`, `LLCircuit`). Per peer: the id of the last packet
  sent, packets to resend (`mUnackedPackets`) and packets that only wait for their
  last ack (`mFinalRetryPackets`), their count, the acks owed (`mAcks`), the ids
  received lately, ping ids and timers. Per host: the maps of circuits that have
  something to resend or to ack. Operations: send, resend, ack, ping, remove.
  Driven by the message system once a frame and once per packet; answers go to the
  callers' callbacks. Hard: loss, reordering, a circuit removed from inside a
  handler, three ways for one packet to be answered. Correct: each callback once,
  success only if the peer handled the message, bookkeeping exact.
* **Message system** (`LLMessageSystem`). Reads packets, finds the circuit, applies
  acks, drops duplicates, runs the handler, collects the ack; trust handshake and
  circuit codes; message templates. Modelled as far as it touches a circuit.
* **Queued threads** (`LLQueuedThread`, `LLThread`). A priority queue and a hash of
  requests shared by the main thread and one worker, a run condition, a status.
  Base of the worker threads, the VFS thread and the local file thread. Hard: lost
  wakeups, priority changes of queued requests, abort and completion at the same
  time, shutdown. Correct: every request is finished once, in priority order, and
  nothing is used after it was freed.
* **Worker threads** (`LLWorkerThread`, `LLWorkerClass`). Objects that give the
  thread one piece of work at a time; a word of flags written by both threads; a
  list of objects to delete. Base of the texture fetch, the texture cache and the
  image decoder. Correct: an object is deleted only when its work is done, and then
  it is.
* **Xfer manager** (`LLXferManager`, `LLXfer`). A list of xfers received and one of
  xfers sent, each xfer with a status, a packet number and a retry count; counts of
  active xfers by host; a queue of confirmations held back. Files go one packet at a
  time over unreliable messages. Hard: loss and repeats of packets, confirmations and
  aborts, limited slots, disks that fail at either end, circuits that die. Correct:
  success only for packets in order up to the last, each callback once, slots in use while
  something waits.
* **Transfer manager** (`LLTransferManager`). Per circuit and channel: sources, in a
  map by priority, and targets with the packets that came too early. Correct: packets
  are written in order and once, each transfer is answered once, nothing is left over.
* **Asset storage** (`LLAssetStorage`). Lists of pending downloads and uploads; a
  download may wait for the transfer another one started. Correct: each callback
  once, with its asset, and of a success only when the file is there.
* **Pump, chains, HTTP client**. Chains of pipes run by a pump, with timeouts and
  locks, above libcurl.
* **VFS** (`LLVFS`). A map of files to blocks of one data file, the free blocks in two
  maps, an index file with the holes in it, locks by file. Used by any thread under one
  mutex. Hard: splitting and merging of blocks, eviction while files are locked, the
  index after a crash. Correct: every byte has one owner, a file reads back what was
  stored, the index never reads as corrupt. `LLVFSThread` runs without a thread in the
  viewer (`newview/llappviewer.cpp:1477`).
* **Texture fetch and cache**. State machines of worker objects, with mutexes of
  their own, network and cache results coming back on other threads.
* **Login, teleport, event poll, regions**. State machines of the main thread driven
  by messages and timeouts.
* **Packet ring and throttles, templates and LLSD messages, name cache, ciphers,
  LLSD and strings, inventory, groups, object cache, import and export, RLV, user
  interface, rendering, audio, windows, LSL compiler, crash loggers**: sequential
  data structures, conversions, wrappers and user interface; see the notes in
  `PROJECT.json`.

The hazards in this code, each at its line and with the properties that would
catch it, are the list `hazards` of `PROJECT.json`. The ones without a property
say what they wait for.

## 2. Circuits

`PacketIds` holds the arithmetic on packet ids: the next id (`nextPacketOutID`),
the highest received id (`checkPacketInID`), the oldest pending id that a ping
reports (`updateWatchDogTimers`) and the ids a ping lets the receiver forget
(`clearDuplicateList`), all with the modulus as a constant and with the branches
that decide what is on the other side of the wrap.

`Circuit` runs two hosts against each other. Variables carry the names of the
members they stand for; a variable is a function of the host. `net` holds the
packets in flight, and `callbacks` and `handled` are history: what each callback
was told, and how often the peer handled a packet.

| action | code |
|---|---|
| `SendReliable`, `SendUnreliable` | `sendReliable`, `sendMessage`, `addReliablePacket` |
| `RemoveCircuit` | `disableCircuit`, `removeCircuitData`, `~LLCircuitData` |
| `Frame` (`ProcessAcks`, `ResendUnackedPackets`) | `processAcks`: ping, resends, final wait, `sendAcks` |
| `ReceiveDuplicateResend` | `checkMessages`, the branch that acks and discards |
| `ReceiveData`, `ReceiveClosingData` | the handler ran; in the latter it disabled the circuit |
| `ReceiveReply`, `ReceiveStartPingCheck` | `process_packet_ack`, `process_complete_ping_check`, `process_start_ping_check` |
| `ReceiveOffCircuit`, `Lose` | a packet without a circuit; the network |

One frame, and one packet with its handler, is one step: the main thread does
nothing else meanwhile. Abstracted: the clock (any packet may have expired, any
ping may be due), the contents of messages (only whether the handler disables the
circuit matters), the throttle (a resend pass may be cut short), how many acks fit
in a packet. `BeforeWrap`, `MaxReliable`, `MaxUnreliableID`, `MaxPings` and
`MaxInFlight` are the bounds; a packet over `MaxInFlight` is lost, which UDP may do.

`ReliableDelivery` says in a page what `sendReliable` promises: a message is
pending, then answered once, and success means the peer handled it. The run
`circuit_lossy` checks that `Circuit` implements it under the mapping at the end of
`Circuit` (status from `callbacks`, handled from `handled`), and `CircuitDelivery_proofs`
proves it for every value of the constants.

| run | instance | shows |
|---|---|---|
| `circuit_lossy` | two reliable messages of the viewer, with no or one retry; loss and reordering both ways; any message may close the circuit; fair frames | the count, the lists and the maps agree; every message is answered; no callback is forgotten or repeated, and success means handled (refinement) |
| `circuit_fifo` | two messages of the viewer, with acks and pings, an unreliable message of the simulator; what the viewer receives may be reordered and duplicated, what the simulator receives is only lost | a ping never makes the receiver forget an id that may be resent: nothing is handled twice; types |

Why these sizes: two messages with one retry visit both lists, the move from one
to the other, a full and a partial ack, and a circuit removed with one packet on
each list; two packets in flight let a resend cross an ack, a ping its answer. With a
modulus of 8 or less the model stops before ids wrap (`BeforeWrap`).

`HandledAtMostOnce` needs the receiver of the reliable messages to get packets in
order: a resend that overtakes its original is handled, and then so is the original,
which is not looked up because it does not carry the resent flag (`message.cpp:667`).
`Reorder` and `Duplicate` are therefore sets of receiving hosts. It also needs the sender
to have used no more than half of its ids: a packet that waits for its ack while more than
that go out is resent with an id that looks as if it had wrapped (`llcircuit.cpp:658`), the
receiver's highest id drops to it, and the ids above are then forgotten as old ones although
they may still be resent. TLC finds this with a modulus of 12 and eight unreliable packets
between two reliable ones; with the modulus of the code it takes 2^23 packets within the
life of one resend. In `circuit_fifo` the viewer uses four ids of eight at most, so that the
condition always holds there.

Fairness: `FairSpec` asks for weak fairness of the frame in which everything that
waits has expired. The main loop calls `processAcks` every frame and clocks go on;
nothing is asked of the network. `CHECK_DEADLOCK FALSE`: when the bounds are used
up, or both circuits are gone, nothing happens any more.

## 3. Queued threads

`QueuedThread` has two actors. The main thread's calls are split where it releases
the lock and the worker can come between (`AddRequest` then `IncQueue`; the
assignment in `unpause` then its `wake`; each round of `waitForResult` and
`waitOnPending`; the steps of `shutdown`), and the worker's loop at each of
`checkPause`, `isQuitting`, the locked sections of `processNextRequest`,
`getPending` and the assignments of `mIdleThread`. The worker calls `finishRequest`,
which may do anything, with the lock held, so the lock is held across steps there
(`Locked`); elsewhere a locked section is one step. A wait of the condition can end
without a signal.

| action | code |
|---|---|
| `AddRequest`, `IncQueue` | `generateHandle`, `addRequest`, `incQueue` |
| `SetPriority`, `SetFlags`, `CompleteRequest` | the same, and `abortRequest` |
| `Pause`, `UpdateQueue`, `Wake` | `pause`, `update`, `unpause`, `wake` |
| `WaitForResult`, `ResultFound`, `ResultAwaited` | `waitForResult` |
| `WaitOnPending`, `PendingDone`, `PendingAwaited` | `waitOnPending` |
| `SetQuitting`, `QuitUnpause`, `FreeAll` | `shutdown`, `setQuitting` |
| `StaticRun`, `CheckPause`, `Run`, `Quit`, `End` | `staticRun`, `run`, `checkPause` |
| `TakeNone`, `TakeAborted`, `TakeRequest`, `FinishAborted`, `Complete`, `FinishComplete`, `Requeue`, `Count`, `Idle` | `processNextRequest` |

`request[h]` is the object behind a handle; it stays there after it is freed, with
status DELETE, so that a use of a freed request can be seen. `finished` is history.
`GivesUp` chooses what is said of time in `shutdown`: FALSE means the worker has
started by then and stops within the ten seconds, TRUE that it need not.

| run | instance | shows |
|---|---|---|
| `thread_requests` | three requests of two priorities, any of them AUTO_COMPLETE or aborted, pauses, shutdown | `QueueMatchesStatus`, `FinishedOnce`, `HighestFirst`, `NoneFreedInProgress` |
| `thread_wakeups` | two requests, fair scheduling | no lost wakeup, `waitForResult` and `shutdown` return |
| `thread_gives_up` | one request | *violation*, see below |

Why these sizes: two requests give every order of two entries of the queue, with a
third that arrives while one is taken and one is queued; priorities matter only by
comparison, so two values give less, equal and greater. The priority of a request
in the queue, in progress, and put back is changed in every position.

Fairness: both threads are scheduled (`WF` of the worker and of calls begun); the
main loop comes back to `update` (`SF`: it is repeatedly, not continuously,
possible, since the main thread may be in another call and the lock may be taken);
and `processRequest` of a request does not return false for ever (`SF` of
`Complete`). Without the last a request that is always queued again starves those
below it, which the code accepts. A run with pauses keeps `update` going, which
unpauses; `thread_wakeups` leaves pauses out except the one of `waitForResult`.

`waitOnPending` returns as soon as `mIdleThread` is TRUE, which it still is when a
request was queued and the worker has not woken up. It is modelled so; nothing in
the repository calls it, and no property is about it.

`WaitEnds` excepts aborted requests: `waitForResult` tests for COMPLETE only, and
goes on for ever for a request that was aborted and not auto-completed. No caller
in the repository waits for a request after aborting it.

## 4. Worker threads

`WorkerThread` INSTANCEs `QueuedThread` (two priorities, no flag at creation, ABORT
later) and adds the objects: their flags, handle, and the list of those to delete.
`setFlags` reads `mWorkFlags` and then writes it. The main thread does so with the
object's `mMutex` locked; `finishRequest` on the worker does so inside `lockData`
and *without* `mMutex`. The model keeps both halves apart where they can meet
(`ScheduleDelete` and `ReadFlags` then `WriteFlags`; `FinishRequest` then
`FinishDone`) and in one step where the mutex or the protocol excludes a meeting
(`addWork` when no work is pending, `checkWork` after the request is done,
`setWorking`). `Hasty` are the objects whose owners may schedule a deletion before
`checkWork` has reported the end of the work, as `LLTextureFetch` does.

| run | instance | shows |
|---|---|---|
| `worker_work` | two objects, one of them hasty, three pieces of work, fair scheduling | `WorkingMeansInWork`, `HandleFindsRequest`, `EndedWhenDone`; the object that is not hasty is deleted, with the flag its destructor asserts (`PatientDeletedOnRequest`, `EventuallyDeleted`) |
| `worker_assert` | one hasty object | *violation*, see below |

Two objects suffice because objects share nothing but the thread; the third piece
of work lets an object be used again.

The same lost update has another outcome that no run shows: a WCF_WORK_FINISHED that
`finishRequest` sets between the two halves of `scheduleDelete` or `abortWork` is
lost, and `update`, which waits for it (`llworkerthread.cpp:78`), never deletes the
object. `EventuallyDeleted` is about objects that are not hasty for that reason.

Fairness is that of `QueuedThread`; `update` walks the whole list of objects to
delete, hence strong fairness for the deletion or abort of each.

## 5. Xfers

`Xfer` has the managers of all hosts; an xfer of the model is one call of
`requestFile`, with one `LLXfer` object at its requester (`receive`) and one at its
source (`send`). `toRequester` and `toSource` are the messages about it on their way.
`received` and `answers` are history.

| action | code |
|---|---|
| `RequestFile` | `requestFile`, `requestVFile`, `addToList`, `startPendingDownloads`, `startDownload` |
| `ProcessFileRequest`, `ProcessConfirmation`, `IgnoreAbort` | the source's handlers, with `sendNextPacket` and `sendPacket` |
| `ProcessReceiveData`, `ReconfirmData`, `ProcessAbort` | the requester's handlers, with `processEOF`, `removeXfer` and `startPendingDownloads` |
| `Timer` | `retransmitUnackedPackets`: dead circuits, resends, drops, pending sends, throttled confirmations |
| `Lose`, `CircuitDies` | the network |

A packet is as much as fills the buffers of both ends: it is read when it is sent, and each
one but the first writes the one before. A disk (`DiskOK`) says which files are missing, what
reading each packet gives (`Read`: all of it, a part, nothing or a failure, and whether
`feof` is then set), how often the temp file can be opened, and which packets are written
short; a packet that is sent again is read as before. What the code makes of them:

* a short write is only warned about (`llxfer_file.cpp:293-296`) or not looked at
  (`llxfer_vfile.cpp:271-283`), and the callback is told of success; only a temp file that
  cannot be opened is reported (`EOFResult`);
* a read that falls short but has data is sent as it is; one without data sends nothing and
  waits for no ack, but sets the status all the same (`llxfer_file.cpp:249-276`,
  `llxfer.cpp:199-267`). Such a sender falls silent (`FallsSilent`): nobody is told, and
  the download keeps its slot until the circuit dies;
* only a read that fails aborts: that of an `LLXfer_VFile`, or any past the buffer. A file
  that is a multiple of the buffer comes to this, since `feof` is not set by a read that
  just reaches the end: no packet of it is the last, and the sender goes on past them.

A rename that fails at the end is logged and left out. The clock (which packets have waited
long enough) and the ack throttle (how many confirmations leave) are choices. `MaxInFlight` bounds resends.
`RequestXfer` is reliable and arrives at most once; on the `fifo` network nothing is
lost or reordered, on the `lossy` one anything of the other three may be.

`xfer_downloads`: a file of three packets and one of one, one slot, one retry (the
limit is compared with `>`), six disks, both networks, a throttling viewer. One disk works;
on the others files are missing, reads fail, fall short or find nothing, temp files cannot
be opened or are written short, and a file ends where the buffer does. Three
packets are the fewest with one that is neither first nor last; one slot makes the
second download wait. `SuccessMeansWhole` is the subtle one, since the sender does not
look at the number that a confirmation carries: a repeated confirmation lets it run
ahead of the receiver, and only the receiver's check keeps the file in order. It promises
each packet once, in order, up to the one that the source took for the last; that is the
whole file if every read and write gave all (`Intact`), and the code promises no more.
`SenderForgetsNobody` says that a sender that runs ahead never strands the receiver on a
network in order; it excepts senders that fall silent.

Fairness: `Timer` in every frame with all waits over (`processAcks` calls it, clocks go
on), and delivery on the `fifo` network. `EventuallyAnswered` is about that network:
`AbortXfer` is sent once, and if it is lost the requester waits until its circuit dies.
It also excepts temp files that cannot be opened: such an xfer
is aborted and removed without its callback (`llxfermanager.cpp:664`); and senders that
fall silent.

## 6. The file cache

`VFS` treats the program's state as a record (`Now`), so that each operation is put
together from the functions it calls as the code does (`AddFreeBlock`, `UseFreeSpace`,
`Sync`, `RemoveFileBlock`, `MakeRoom`, ...); `Becomes` makes the result the next state.
Each operation holds `mDataMutex` throughout and is one action. A clean end, which closes
the files, is followed by a start from `index` and `data` (`Restart`).

The viewer may also crash, between operations or in the middle of one: `written` are the
contents that the index had on the way. The calls of `fflush` are comments
(`llvfs.cpp:1177`, `llvfs.cpp:1523`), so a crash may lose what the C library has not
written out. Every write follows an `fseek`, which writes out the one before: the last
write to the index may be missing after a crash, and no other. `indexOnDisk` is the index
without it, `Ends` keeps it, and `Crash` starts from any of `OnDisk`. The viewer passes
`remove_after_crash` as false (`llappviewer.cpp:2908`), so the cache is not thrown away.

A byte of `data` names the file and the offset it was written for, which is what
`ContentsKept` compares. Nothing ties the data file to the index on disk, so after a crash
a file may find anything in its bytes, and the code makes no claim about them: what it
finds counts as stored (`AsFound`), and must be kept from then on. `mAccessTime` counts by its
order only. `MakeRoom` is the loop of `findFreeBlock` one removal at a time: `left` is what
is still to be cleaned up of the batch it set out to remove.

Reads and writes of the two files give all that they should. The code notices one that
falls short, of a block that moves (`llvfs.cpp:866-875`), of stored data
(`llvfs.cpp:1172-1176`) or of an index entry (`llvfs.cpp:1517-1520`), only to warn of it, and
goes on as if it had not: what `ContentsKept` and `IndexMatches` say does not hold of a disk
that does so.

`vfs_cache`: three files, two of them textures (whose sizes are not rounded, and which are
interchangeable: `SYMMETRY`), three bytes, blocks of two, a clean-up of three, which is
more than most calls need: files of one and two bytes and the whole cache, which
split, fill and merge free blocks on either side, files that do not all fit, moves into a
free block before or behind, and locks on any. Longer blocks only lengthen the three
kinds of run (before, of and behind a file); `VFS_proofs` has every size. `CHECK_DEADLOCK FALSE` covers the state
after a corrupt index, which is never reached. No fairness: nothing is promised to
happen.

## 7. Transfers

| action | code |
|---|---|
| `RequestTransfer` | `requestTransfer`, `sendTransferRequest` |
| `ProcessTransferRequest`, `Respond` | the source's handler; the answer of the asset system, `sendTransferStatus` |
| `UpdateTransfers` | `updateTransfers` with `dataCallback` of the source |
| `ProcessTransferInfo`, `ProcessTransferPacket`, `ProcessTransferAbort` | the handlers, with `dataCallback` and `completionCallback` of the target |
| `Acknowledged`, `GiveUp` | `reliablePacketCallback` |
| `Lose`, `Cut`, `Evict` | messages without a callback that run out of retries; `cleanupConnection`; the cache |
| `Exit` | the viewer's exit: `LLAppViewer::cleanup`, `end_messaging_system` |

A packet is its number; `file` is what was appended to the temporary file, `asset` what
it was renamed to. `PlayBack` is the loop that exists twice in the code. What is lost
with nobody told is recorded in `forsaken`: the last packet of a transfer, whose source
is deleted when it was sent, and every message without a callback.

The info of an inventory item may name no asset: `unpackParams` fails
(`lltransfertargetvfile.cpp:69-91`) and the transfer is aborted (`BadParams`). Params that are
too big to unpack (`lltransfermanager.cpp:323-328`) are left out: no source of this code packs
any. A packet that runs out of retries aborts whatever source of its transfer is there, one
that was started anew and still asks for its file too (`GiveUp`).

The viewer exits at any time. It deletes `gAssetStorage` (`llappviewer.cpp:1160-1172`, where
the cleanup of the transfers is under `#if 0`) before `end_messaging_system` aborts the
targets, and `completionCallback` returns at once without it
(`lltransfertargetvfile.cpp:161-165`). Those targets go without their callback, and their
temporary files stay in the cache: they are `Dropped`, and `AnsweredOnce` and `TempFilesGone`
except them. No other target goes without an answer (`ExitOK` of the proofs).

`TransferService` says what a transfer promises: it is answered at most once, and its
file is whole or not there; it may be missing after a success. `transfer_assets` checks that `Transfer`
implements it (`Service`), for two assets of one and two packets, the later with a higher
priority and a message that arrives twice, `LL_MAX_DELAYED_PACKETS = 0` (the map holds one
packet then, and the second to be delayed aborts). Two packets and a status in three
orders reach every branch of the two loops. The urgent one is an item; the messages of the
later one are those that may be lost or arrive twice (`Unlucky`), which suffices since transfers
share nothing but the order in which the source serves them.

Fairness: `MainLoop`, which is the frame: it serves sources, handles what arrived,
answers requests and lets retries run out. `EventuallyAnswered` excepts `forsaken`
transfers, and is about the time before the exit.

## 8. Asset storage

`memory` is a function from addresses to requests, since a transfer refers to the request
that started it by its address and nothing keeps that request alive. The lists are sets:
downloads are appended as they are made, so their order is that of the calls, and the order
of uploads makes no difference. `calls` is history:
every call with the answers its callback got.

| action | code |
|---|---|
| `GetAssetData` | `getAssetData` and `_queueDataRequest` |
| `GetInvItemAsset`, `GetEstateAsset` | the functions of these names; `Fetch` is what they have in common |
| `TransferDone` | `downloadCompleteCallback`; `downloadInvItemCompleteCallback`, `downloadEstateAssetCompleteCallback` |
| `CheckForTimeouts`, `Shutdown` | `_cleanupRequests` |
| `StoreAssetData`, `UploadComplete` | `storeAssetData` of the viewer, `processUploadComplete` |
| `SetUpstream`, `Evict`, `WriteFile` | `setUpstream`; the cache |

A fetch asks the simulator of the object, which the caller may name (`object_sim`), or the
viewer's; it waits in no list. An item may be asked for without its asset's id (`NullKey`),
and whatever was asked for, the simulator says which asset the item has
(`lltransfertargetvfile.cpp:71-80`): `FileIds` are the ids that the callback may be told and
under which the file is then stored. The id of an estate asset does not change, and
without one `getEstateAsset` answers at once. So does `getAssetData` (`llassetstorage.cpp:415-424`);
that call reads and changes no state and is left out.

`asset_requests`: three calls, one of them at most a fetch (`MaxFetches`; it shares
nothing with the others but the cache), two assets, two callers, two addresses, so that a call
may wait for another's transfer, outlive it, and get its address. A freed request that is
read holds anything. Calls that a transfer answered whose own request was gone are in
`outlived`, and `NamesItsAsset` and `SuccessIsThere` except them. `NamesItsAsset` excepts items
too (`Renamed`), whose callbacks are told what the simulator named; `SuccessIsThere` holds of
them, since it looks for the file under the asset that the callback is told. Without the
exception for `outlived` calls
(`AllNameTheirAsset`) the run `asset_dangling` finds a counterexample. Fairness:
`CheckForTimeouts`, which the main loop calls every frame.

## 9. Proofs

`Circuit_proofs`, for any id modulus, retry counts, bounds, and kind of network:

* `TypeInvariant`: `Spec => []TypeOK`. `TypeOK` is inductive by itself. The part
  that is not routine is that the id a ping reports is an id (`LowestIsMember`, from
  the well-foundedness of `<` on the naturals) and the packets of a frame.
* `SuccessMeansHandled`: `Spec => []AckedWasHandled`. The property is not
  inductive: it is strengthened to `AcksFollowHandling`, which says the same of an id
  remembered as received, of one waiting to be acked, of one travelling as an ack,
  and of every entry of the history of a callback. Each action's lemma is named
  after it.

`CircuitDelivery_proofs`, for the same:

* `Accounting` (`UnackedAccounting`), `NoneStranded` (`NothingStranded`) and `OneAnswer`:
  the properties are not inductive one by one. `Accounts` joins `BooksKept` (a packet is
  on at most one list, the count is the size of the first, a callback has been answered
  exactly when its packet is on neither list, and no id on them was not yet given out,
  so that a new packet cannot take the place of an old one), the maps of the message system
  (`UnackedVisited`, `AcksVisited`, `VisitedOpen`) and `Registered` (a packet that may be
  resent has a callback). A circuit's lists are changed by four operators (an ack, an
  abort, a resend pass, a new packet); each has a lemma.
* `Delivers`: `Spec => ImplementsDelivery`. Every step is a step of `ReliableDelivery` or
  none: from `Accounts` a callback that is answered was pending, and from
  `AcksFollowHandling` one that is told of success belongs to a message that was handled.
* `OnceHandled` (`HandledAtMostOnce`): `OnceInOrder` says of a host that gets its packets in
  order what its queue looks like and what it remembers. The first copy of a packet comes
  before its resends and was not handled yet; the id a ping reports is not above one that was
  pending when it was sent, or that goes out after it; no remembered id is above the
  highest; and of a message that was handled and is pending or still travels, the id is
  remembered. The forgetting after a ping is where the three meet. Losses and arrivals
  leave a subqueue of the queue, and whatever a host sends in one call is appended in one
  order, so that `SenderOrder` and `OrderStays` cover most of the actions.

`QueuedThread_proofs`, for any number of requests, any priorities and flags, with
pauses, and for both values of `GivesUp` except where stated:

* `TypeInvariant`, `QueueInvariant` (`QueueMatchesStatus`) and `FinishInvariant`
  (`FinishedOnce`) come from one inductive invariant, `Inv`: the types; that queue,
  hash, status and worker agree request by request (`QueueAgrees`, `HashAgrees`,
  `OnlyWorkerProcesses`); what the worker has in hand (`HeldByWorker`); that handles
  are given out in order (`CreatedInOrder`, without which a new request could hit an
  old one); and when the thread is STOPPED (`StopsOnce`). `HeldByWorker` is what
  lets the main thread free a request that is COMPLETE: it cannot be the one whose
  `finishRequest` is running, because the lock is free.
* `StartsHighest` (`HighestFirst`): `QueueOrdered` relates the queue to the requests alone,
  so that it goes on to hold when `shutdown` gave up on the thread. That a queue has a
  first request at all (`FirstIsFirst`) is an induction over the handles (`FirstOfSome`).
* `NotFreedInProgress`: if `~GivesUp`, then `Spec => NoneFreedInProgress`.
  `thread_gives_up` shows that the hypothesis is needed.

`WorkerThread_proofs`, for any objects, any of them hasty, and any number of requests:

* `WorkingFlag` (`WorkingMeansInWork`), `HandleFinds` (`HandleFindsRequest`) and
  `EndedDone` (`EndedWhenDone`), from one invariant: that of
  `QueuedThread_proofs`, which holds here because every step is one of the queue
  (`QueueStep`, `QueueKept`), and a part for each of the three that touch an object, its
  handle and lists (`ObjectsOK`), the worker (`WorkOK`), and the operation of the main thread
  that is under way (`JobOK`). Flags that are written back from an old reading may have
  lost others, but agree with the present ones on HAVE_WORK and WORKING: nothing
  gives an object work or takes it away in between, and `setWorking` waits for `mMutex`. And
  WORK_FINISHED, wherever it was read, says that the request is done, which it stays.
* `PatientDeleted` (`PatientDeletedOnRequest`), from the same and `PatientOK`: an object that
  is not hasty has no request from `scheduleDelete` on, and `finishRequest` none of its flags.

`Xfer_proofs`, for any hosts, xfers, files, disks, slots, retry limits and both networks:

* `SuccessIsWhole` (`SuccessMeansWhole`), `CallbackOnce` (`AnsweredOnce`) and `TypeCorrect`
  come from one invariant with a part for each place an xfer is in. `SendOK`: none of the
  packets before the sender's was taken for the last, though a repeated confirmation moves it
  on, and it waits for an ack only of a packet that had data (`Sender`). `WireOK`: a data
  message on its way is a packet of the file, marked as the last and as whole as its read
  was. `ReceiveOK`: the receiver has been given the packets before the one it waits for, as
  they were read and written (`Chunks`), the callback has run at most once and not while the
  object is there, and an answer of success means the packets up to the last (`ToTheEnd`).
  If the file is `Intact` these are all of it. The three are proved apart, since a
  handler touches one end and the messages.
* `SlotsInUse` (`SlotsUsed`), from `ListsOK`: the receive list of a host has each of its
  xfers that have an object, once, no more of them in progress than there are slots, and
  none pending beside a free slot while all circuits live. `startPendingDownloads` goes from
  the tail of the list to its head and stops when the slots are full: `TakenFromTail` says
  that it then has taken as many as were free.
* `NobodyForgotten` (`SenderForgetsNobody`), for the network in order, from `FlowOK`, which
  is about senders that do not fall silent: before
  the source has heard of the request nothing is under way; of the packets on the way
  none comes before its predecessor; the packet the sender is at was received or is on the way;
  and when the source is gone or done, the last message on the way is the last packet or an
  abort, which is what a repeated confirmation that runs ahead must not break. `QueuesOK`
  says what is in the queues.

`Transfer_proofs`, for any transfers, assets, priorities and bounds on the map of packets:

* `PlayedBack` (`NothingHeldBack`), `NoFileLeft` (`TempFilesGone`), `CallbackOnce` and
  `TypeCorrect`, from `IInv`: the temporary file holds the packets before the next one;
  what is in the map of early packets came from the source, only the last packet carries
  DONE, and a target that is gone was answered, its temporary file with it (`Answered`), or
  was left by the exit (`LeftBehind`, which `ExitOK` allows only without asset storage). So
  the callback runs once, and no temporary file stays, but for the exit. `EndOfPlayback` shows
  that the loop over the packets that are there has an end (the library's well-founded
  order on the naturals), and `ContentsInOrder` what it writes.
* `Refinement`: `Spec => ImplementsService`, the exit included. A transfer that is answered with success has
  reached its last packet, and so has a whole file or none.

`AssetStorage_proofs`, for any assets, callers, addresses and number of calls:

* `CallbackOnce` (`AnsweredOnce`), `TransferUnderWay` (`NobodyWaitsInVain`), `RightAsset`
  (`NamesItsAsset`, so not of items) and `SuccessMeansThere` (`SuccessIsThere`, of the asset
  that the callback is told), from one invariant: a request
  in memory is in one list and belongs to one call of its kind (`ListsOK`), the transfer of an
  item or estate asset is the only one of its call (`ItemsOK`), and a transfer whose request is still there is for the
  asset of that request, the first in the list to wait for it (`StartersOK`). The last is
  what the reverse order of the callbacks and the exception for `outlived` calls rest on.
  Answers are given by one operator, and `AnswerKeeps` is proved once for all its uses.

`VFS_proofs`, for any files, any size of the data file and of its blocks, any clean-up size
and any number of locks:

* `Space` (`SpaceIsExact`), `IndexAgrees` (`IndexMatches`), `Contents` (`ContentsKept`) and
  `AlwaysLoads` (`NeverCorrupt`) come from one invariant of the state as a record, `Good`:
  the free blocks are apart, with something between any two, and the map by length has the
  same ones (`FreeOK`); the files lie in the data file and do not overlap, and what has no
  data is a dummy without a place in the index (`FilesOK`); what is not free is in a file
  (`Exact`); the index has the entries of the files, and holes (`IndexBut`); and the
  bytes are what was stored (`KeepsContents`). None of the properties is inductive alone:
  a block is written only inside free space because that is exact, and an entry is
  cleared in the right place because no two files share one.
* In the middle of an operation `Good` holds but for the file in hand: `Replaced` says how
  far a block that is moved, grown, shrunk or renamed may be from its index entry
  before `Sync`, and `ReplacedFacts` that `Sync` puts that right. Each call of the code
  has its lemma (`AddFreeFacts`, `UseFreeFacts`, `SyncFacts`, `RemoveFacts`,
  `MakeRoomFacts`, ...), and each operation one made of them.
* `AlwaysLoads` rests on `OnDiskFacts`: all that an operation writes to the index before its
  last write only clears entries (`Cleared`), so that the index on disk, which lags behind
  by one write, can always be loaded (`SoundIndex`, a conjunct of the invariant: no file
  has two entries, and no byte). Such an index is not taken for corrupt
  (`SoundIndexIsSound`) and is loaded to a state that is `Good` again (`LoadedFacts`),
  from the data as it was after a clean end (`DataFacts`), as found after a crash
  (`AsFoundFacts`).
* `LocksKept` (`LockedKept`), from the same: the loop of `MakeRoom` removes only files of
  `LRUList`, and everything else keeps its block (`Roomier`).

What recursive functions return for any number of steps (`MakeRoom`'s loop, the list of
holes) is proved by induction over sets of naturals: `Induction`, which follows from
`LeastElement`, and that from the library's well-founded order.

The assumptions are those of the modules' ASSUMEs, which only give the constants
their types (and say that the two hosts of a circuit differ, and that the sets of things
there are, files and so on, are finite where they are counted). Checked by TLC only: liveness, which like everything that needs ENABLED is out of
the prover's reach. Every safety property that a run expects to hold is a theorem.

## 10. Findings

Runs that TLC ends with a counterexample, each against a line of the repository:

* `thread_gives_up`: `shutdown` frees all requests after at most ten seconds, or at
  once if the thread had not yet started, and so a request in progress, which
  `llqueuedthread.cpp:539` asserts against.
* `worker_assert`: the update of `mWorkFlags` by `finishRequest` is not protected by the
  object's mutex. A WCF_DELETE_REQUESTED may be lost, and the destructor's assertion
  fails. With deletion after `checkWork` it does not happen (`PatientDeletedOnRequest`).
* `asset_dangling`: `downloadCompleteCallback` takes the address of the request that
  started its transfer for that request. It was deleted by a timeout; a request for
  another asset made since at the same address is given the transfer's asset and called
  back with it, and the request that waits for that asset under its own name is answered
  as well. The comments around `llassetstorage.cpp:550` expect a request that is not found.

Two more disagreements that no run shows, since no property of the models is about them:
`circuit_fifo`'s restriction to receivers in order (above), and a dead circuit, which ends
its downloads without `startPendingDownloads` (`llxfermanager.cpp:1009`), so that a free
slot may stay free until something else is requested or ends. And two that the properties
except, with the lines above: what an exit leaves of transfers (section 7), and xfers that
fall short, which end in success or not at all (section 5).

## 11. What is not modelled

Of the modelled subsystems: the opening and re-opening of circuits, ids across the
wrap, ping ids and the blocked flag, the count of lost packets, statistics; the
unthreaded form of queued threads, the wrap of handles; `setPriority` and `yield` of
worker objects, calls from other threads than the main one; registered buffers of the
xfer manager and the deletion of files after an xfer; file transfers other than of
assets; the HTTP asset storage; `LLVFile` and the VFS thread; duplicate entries of an
index, entries that a crash tears, which bytes of the data file it loses, reads and writes
of the cache that fall short; a rename of a temp file that fails; transfer params that are
too big; `getAssetData` without an id. Undefined behaviour that follows a failed assertion is not followed. What a
callback of the viewer does is not modelled: it records its answer, and a new request
from it is an action of its own, later.

Whole components without a model, in the order in which they would be worth one:

1. `CircuitWrap`: `PacketIds` across the wrap, against a reference definition of "older";
   circuits that die, come back and get packets of their former life; U8 ping ids.
2. The texture fetch and cache as worker objects over `WorkerThread`, with their network
   and cache results on other threads.
3. The event poll, teleport and login states; the pump and its chains; the name cache.
4. `RequestLifecycle`, an abstract specification of one request, implemented by
   `QueuedThread`.

The rest of the tree draws, converts, parses or wraps libraries; most of it by volume is
the user interface, rendering, the script compiler, and vendored headers, libraries and
assets. It keeps no protocol a model checker would say something about, and the notes in
`PROJECT.json` say so component by component.

## 12. Running

    tlc -config QueuedThread_requests.cfg MCQueuedThread.tla
    tlapm QueuedThread_proofs.tla

`PROJECT.json` names, for each run, the module, the configuration and the expected
outcome; for each property a mutated definition (marked "Fault:" in the modules)
under which TLC finds it violated; and for each definition the lines it models.
