------------------------ MODULE QueuedThread_proofs ------------------------
(***************************************************************************)
(* Theorems about QueuedThread, for any number of requests, any priorities *)
(* and flags, with pauses, and for a shutdown that waits as well as for    *)
(* one that gives up (except NotFreedInProgress, which is about the        *)
(* former).  The argument is one inductive invariant, Inv, and for the     *)
(* order in which requests are started QueueOrdered, which goes on to hold *)
(* when shutdown gave up on the thread.                                    *)
(***************************************************************************)
EXTENDS QueuedThread, TLAPS, WellFoundedInduction

\* The first part of QueueMatchesStatus, request by request.
QueueAgrees ==
    main # "gone" =>
        \A p \in Nat, h \in Handle :
            <<p, h>> \in mRequestQueue <=>
                StatusOf(h) = "QUEUED" /\ request[h].mPriority = p

HashAgrees ==
    main # "gone" =>
        \A h \in Handle : h \in mRequestHash <=> StatusOf(h) \notin {"UNKNOWN", "DELETE"}

OnlyWorkerProcesses ==
    main # "gone" =>
        \A h \in Handle :
            StatusOf(h) = "INPROGRESS" <=> worker = "processing" /\ held = h

\* What relates the queue, the hash, the requests and the worker.
Ledger ==
    /\ QueueAgrees
    /\ HashAgrees
    /\ OnlyWorkerProcesses
    /\ FinishedOnce
    /\ HeldByWorker
    /\ CreatedInOrder

Inv == TypeOK /\ Ledger /\ StopsOnce

USE QueuedThreadAssumption DEF QueuedThreadAssumption
-----------------------------------------------------------------------------
LEMMA CallingType ==
    \A op \in {"update", "waitForResult", "waitOnPending", "shutdown"} : Calling(op) \in Call
  BY DEF Calling, Call

LEMMA InitType == Init => TypeOK
<1> SUFFICES ASSUME Init PROVE TypeOK
  OBVIOUS
<1>1. [mStatus |-> "UNKNOWN", mPriority |-> 0, mFlags |-> {}] \in QueuedRequest
  BY DEF QueuedRequest, RequestStatus
<1>2. request \in [Handle -> QueuedRequest]
  BY <1>1 DEF Init
<1>3. finished \in [Handle -> 0 .. 2]
  BY DEF Init
<1>4. call \in Call
  BY CallingType DEF Init
<1>5. mNextHandle \in 1 .. MaxRequests + 1
  BY DEF Init
<1>6. mRequestQueue \subseteq Nat \X Handle /\ mRequestHash \subseteq Handle
  BY DEF Init
<1> QED
  BY <1>2, <1>3, <1>4, <1>5, <1>6 DEF Init, TypeOK, nullHandle, ThreadStatus, WorkerState, Locked,
     MainState

\* A request whose status, priority or flags change stays a request.
LEMMA RequestUpdate ==
    ASSUME NEW r \in QueuedRequest
    PROVE  /\ \A status \in RequestStatus : [r EXCEPT !.mStatus = status] \in QueuedRequest
           /\ \A p \in Nat : [r EXCEPT !.mPriority = p] \in QueuedRequest
           /\ \A flags \in SUBSET Flag :
                    [r EXCEPT !.mFlags = r.mFlags \cup flags] \in QueuedRequest
<1>1. \A status \in RequestStatus : [r EXCEPT !.mStatus = status] \in QueuedRequest
  BY DEF QueuedRequest
<1>2. \A p \in Nat : [r EXCEPT !.mPriority = p] \in QueuedRequest
  BY DEF QueuedRequest
<1>3. ASSUME NEW flags \in SUBSET Flag
      PROVE  [r EXCEPT !.mFlags = r.mFlags \cup flags] \in QueuedRequest
  <2>1. r.mFlags \cup flags \in SUBSET Flag
    BY DEF QueuedRequest
  <2> QED
    BY <2>1 DEF QueuedRequest
<1> QED
  BY <1>1, <1>2, <1>3

LEMMA StatusUpdate ==
    ASSUME request \in [Handle -> QueuedRequest],
           NEW h \in Handle, NEW status \in RequestStatus,
           request' = [request EXCEPT ![h].mStatus = status]
    PROVE  request' \in [Handle -> QueuedRequest]
<1>1. [request[h] EXCEPT !.mStatus = status] \in QueuedRequest
  BY RequestUpdate
<1> QED
  BY <1>1

\* Free leaves the hash and the requests of their types.
LEMMA FreeType ==
    ASSUME TypeOK, NEW h \in Handle, Free(h)
    PROVE  /\ mRequestHash' \subseteq Handle
           /\ request' \in [Handle -> QueuedRequest]
<1>1. request' \in [Handle -> QueuedRequest]
  BY StatusUpdate DEF TypeOK, Free, RequestStatus
<1> QED
  BY <1>1 DEF TypeOK, Free

LEMMA MainType == TypeOK /\ MainThread => TypeOK'
<1> SUFFICES ASSUME TypeOK, MainThread PROVE TypeOK'
  OBVIOUS
<1> USE DEF TypeOK, nullHandle, ThreadStatus, WorkerState, Locked, MainState,
        threadVars, requestVars
<1>1. ASSUME NEW p \in Priorities, NEW flags \in NewFlags, AddRequest(p, flags)
      PROVE  TypeOK'
  <2>1. [mStatus |-> "QUEUED", mPriority |-> p, mFlags |-> flags] \in QueuedRequest
    BY DEF QueuedRequest, RequestStatus
  <2>2. request' \in [Handle -> QueuedRequest]
    BY <1>1, <2>1 DEF AddRequest
  <2>3. mNextHandle' \in 1 .. MaxRequests + 1
    BY <1>1 DEF AddRequest, Handle
  <2>4. p \in Nat /\ mNextHandle \in Handle
    BY <1>1 DEF AddRequest
  <2>5. mRequestQueue' \subseteq Nat \X Handle
    BY <1>1, <2>4 DEF AddRequest
  <2> QED
    BY <1>1, <2>2, <2>3, <2>4, <2>5 DEF AddRequest
<1>2. ASSUME NEW h \in Asked, NEW p \in Priorities, SetPriority(h, p)
      PROVE  TypeOK'
  <2>1. h \in Handle /\ p \in Nat
    BY <1>2 DEF SetPriority
  <2>2. request' \in [Handle -> QueuedRequest]
    BY <1>2, <2>1, RequestUpdate DEF SetPriority
  <2>3. mRequestQueue' \subseteq Nat \X Handle
    BY <1>2, <2>1 DEF SetPriority, Moved
  <2> QED
    BY <1>2, <2>2, <2>3 DEF SetPriority
<1>3. ASSUME NEW h \in Asked, NEW flags \in LateFlags, SetFlags(h, flags)
      PROVE  TypeOK'
  <2>1. h \in Handle /\ flags \in SUBSET Flag
    BY <1>3 DEF SetFlags
  <2>2. request' \in [Handle -> QueuedRequest]
    BY <1>3, <2>1, RequestUpdate DEF SetFlags
  <2> QED
    BY <1>3, <2>2 DEF SetFlags
<1>4. ASSUME NEW h \in Asked, CompleteRequest(h)
      PROVE  TypeOK'
  <2>1. mRequestHash' \subseteq Handle /\ request' \in [Handle -> QueuedRequest]
    BY <1>4, FreeType DEF CompleteRequest
  <2> QED
    BY <1>4, <2>1 DEF CompleteRequest
<1>5. ASSUME NEW h \in Asked, NEW complete \in BOOLEAN, WaitForResult(h, complete)
      PROVE  TypeOK'
  <2>1. h \in Handle
    BY DEF Asked, Handle
  <2>2. call' \in Call
    BY <1>5, <2>1 DEF WaitForResult, Call, isPaused
  <2> QED
    BY <1>5, <2>2 DEF WaitForResult, Update
<1>6. CASE Pause
  BY <1>6 DEF Pause
<1>7. CASE UpdateQueue
  BY <1>7, CallingType DEF UpdateQueue, Update
<1>8. CASE WaitOnPending
  BY <1>8, CallingType DEF WaitOnPending, Update
<1>9. CASE SetQuitting
  BY <1>9 DEF SetQuitting
<1>10. CASE IncQueue
  BY <1>10 DEF IncQueue, Woken
<1>11. CASE Wake
  BY <1>11 DEF Wake, Woken
<1>12. CASE ResultFound
  <2>1. mRequestHash' \subseteq Handle /\ request' \in [Handle -> QueuedRequest]
    BY <1>12, FreeType DEF ResultFound
  <2> QED
    BY <1>12, <2>1, CallingType DEF ResultFound
<1>13. CASE ResultAwaited
  BY <1>13 DEF ResultAwaited, Update
<1>14. CASE PendingDone
  BY <1>14, CallingType DEF PendingDone
<1>15. CASE PendingAwaited
  BY <1>15 DEF PendingAwaited, Update
<1>16. CASE QuitUnpause
  BY <1>16, CallingType DEF QuitUnpause, Woken
<1>17. CASE FreeAll
  <2>1. \A h \in Handle : [request[h] EXCEPT !.mStatus = "DELETE"] \in QueuedRequest
    BY RequestUpdate DEF RequestStatus
  <2>2. request' \in [Handle -> QueuedRequest]
    BY <1>17, <2>1 DEF FreeAll
  <2> QED
    BY <1>17, <2>2 DEF FreeAll
<1> QED
  BY <1>1, <1>2, <1>3, <1>4, <1>5, <1>6, <1>7, <1>8, <1>9, <1>10, <1>11, <1>12, <1>13,
     <1>14, <1>15, <1>16, <1>17 DEF MainThread, MainContinues

LEMMA WorkerType == TypeOK /\ HeldByWorker /\ WorkerThread => TypeOK'
<1> SUFFICES ASSUME TypeOK, HeldByWorker, WorkerThread PROVE TypeOK'
  OBVIOUS
<1> USE DEF TypeOK, nullHandle, ThreadStatus, WorkerState, Locked, MainState,
        threadVars, requestVars
<1>1. CASE StaticRun
  BY <1>1 DEF StaticRun
<1>2. CASE CheckPause
  BY <1>2 DEF CheckPause
<1>3. CASE Quit
  BY <1>3 DEF Quit
<1>4. CASE End
  BY <1>4 DEF End
<1>5. CASE Run
  BY <1>5 DEF Run
<1>6. CASE TakeNone
  BY <1>6 DEF TakeNone
<1>7. ASSUME NEW k \in mRequestQueue, TakeAborted(k)
      PROVE  TypeOK'
  <2>1. k[2] \in Handle
    OBVIOUS
  <2>2. request' \in [Handle -> QueuedRequest]
    BY <1>7, <2>1, StatusUpdate DEF TakeAborted, Take, RequestStatus
  <2> QED
    BY <1>7, <2>1, <2>2 DEF TakeAborted, Take
<1>8. ASSUME NEW k \in mRequestQueue, TakeRequest(k)
      PROVE  TypeOK'
  <2>1. k[2] \in Handle
    OBVIOUS
  <2>2. request' \in [Handle -> QueuedRequest]
    BY <1>8, <2>1, StatusUpdate DEF TakeRequest, Take, RequestStatus
  <2> QED
    BY <1>8, <2>1, <2>2 DEF TakeRequest, Take
<1>9. CASE Complete
  <2>1. held \in Handle
    BY <1>9 DEF Complete, HeldByWorker
  <2>2. request' \in [Handle -> QueuedRequest]
    BY <1>9, <2>1, StatusUpdate DEF Complete, RequestStatus
  <2> QED
    BY <1>9, <2>2 DEF Complete
<1>10. CASE Requeue
  <2>1. held \in Handle
    BY <1>10 DEF Requeue, HeldByWorker
  <2>2. request' \in [Handle -> QueuedRequest]
    BY <1>10, <2>1, StatusUpdate DEF Requeue, RequestStatus
  <2>3. Key(held) \in Nat \X Handle
    BY <2>1 DEF Key, QueuedRequest
  <2> QED
    BY <1>10, <2>2, <2>3 DEF Requeue
<1>11. ASSUME NEW next \in {"taking", "counting"}, Finish(next), held \in Handle
       PROVE  TypeOK'
  <2>1. mRequestHash' \subseteq Handle /\ request' \in [Handle -> QueuedRequest]
    BY <1>11, FreeType DEF Finish
  <2>2. finished' \in [Handle -> 0 .. 2]
    BY <1>11 DEF Finish, OnceMore
  <2> QED
    BY <1>11, <2>1, <2>2 DEF Finish
<1>12. CASE FinishAborted
  BY <1>11, <1>12 DEF FinishAborted, HeldByWorker
<1>13. CASE FinishComplete
  BY <1>11, <1>13 DEF FinishComplete, HeldByWorker
<1>14. CASE Count
  BY <1>14 DEF Count
<1>15. CASE Idle
  BY <1>15 DEF Idle
<1> QED
  BY <1>1, <1>2, <1>3, <1>4, <1>5, <1>6, <1>7, <1>8, <1>9, <1>10, <1>12, <1>13, <1>14, <1>15
     DEF WorkerThread
-----------------------------------------------------------------------------
(* The ledger *)

LEMMA InitLedger == Init => Ledger
<1> SUFFICES ASSUME Init PROVE Ledger
  OBVIOUS
<1>1. \A h \in Handle : StatusOf(h) = "UNKNOWN" /\ finished[h] = 0 /\ h >= mNextHandle
  BY DEF Init, StatusOf, Handle
<1>2. mRequestQueue = {} /\ mRequestHash = {} /\ held = nullHandle /\ worker = "unborn"
  BY DEF Init
<1> QED
  BY <1>1, <1>2 DEF Ledger, QueueAgrees, HashAgrees, OnlyWorkerProcesses, FinishedOnce,
     HeldByWorker, CreatedInOrder

\* A step that leaves the requests alone and neither takes one in hand nor lets
\* one go.
Quiet ==
    /\ UNCHANGED <<mRequestQueue, mRequestHash, mNextHandle, request, finished, held>>
    /\ main' = "gone" <=> main = "gone"
    /\ \/ worker' = worker
       \/ {worker, worker'} \cap {"processing", "aborting", "finishing"} = {}

LEMMA QuietLedger == Ledger /\ Quiet => Ledger'
<1> SUFFICES ASSUME Ledger, Quiet PROVE Ledger'
  OBVIOUS
<1> USE DEF Ledger, Quiet, StatusOf
<1>1. QueueAgrees' /\ HashAgrees' /\ CreatedInOrder'
  BY DEF QueueAgrees, HashAgrees, CreatedInOrder
<1>2. OnlyWorkerProcesses' /\ FinishedOnce' /\ HeldByWorker'
  BY DEF OnlyWorkerProcesses, FinishedOnce, HeldByWorker
<1> QED
  BY <1>1, <1>2

LEMMA QuietSteps ==
    ASSUME \/ IncQueue \/ Pause \/ UpdateQueue \/ WaitOnPending \/ SetQuitting \/ Wake
           \/ \E h \in Asked, complete \in BOOLEAN : WaitForResult(h, complete)
           \/ ResultAwaited \/ PendingDone \/ PendingAwaited \/ QuitUnpause
           \/ StaticRun \/ CheckPause \/ SpuriousWakeup \/ Quit \/ End \/ Run
           \/ TakeNone \/ Count \/ Idle
    PROVE  Quiet
<1> USE DEF Quiet, requestVars, threadVars
<1>1. CASE IncQueue \/ Pause \/ SetQuitting \/ Wake
  BY <1>1 DEF IncQueue, Pause, SetQuitting, Wake, Woken
<1>2. CASE \/ UpdateQueue \/ WaitOnPending \/ ResultAwaited \/ PendingAwaited
           \/ \E h \in Asked, complete \in BOOLEAN : WaitForResult(h, complete)
  BY <1>2 DEF UpdateQueue, WaitOnPending, ResultAwaited, PendingAwaited, WaitForResult,
     Update
<1>3. CASE PendingDone \/ QuitUnpause
  BY <1>3 DEF PendingDone, QuitUnpause, Woken
<1>4. CASE StaticRun \/ CheckPause \/ SpuriousWakeup \/ Quit \/ End \/ Run
  BY <1>4 DEF StaticRun, CheckPause, SpuriousWakeup, Quit, End, Run
<1>5. CASE TakeNone \/ Count \/ Idle
  BY <1>5 DEF TakeNone, Count, Idle
<1> QED
  BY <1>1, <1>2, <1>3, <1>4, <1>5

\* Freeing a request that was finished and is in nobody's hand.
LEMMA FreeLedger ==
    ASSUME TypeOK, Ledger, main # "gone", NEW h \in Handle,
           StatusOf(h) \in {"COMPLETE", "ABORTED"}, h # held, Free(h),
           UNCHANGED <<mRequestQueue, mNextHandle, finished, worker, held>>
    PROVE  Ledger'
<1>1. /\ StatusOf(h)' = "DELETE"
      /\ \A g \in Handle \ {h} : StatusOf(g)' = StatusOf(g)
      /\ \A g \in Handle : request'[g].mPriority = request[g].mPriority
      /\ \A g \in Handle : g \in mRequestHash' <=> g # h /\ g \in mRequestHash
  BY DEF Free, StatusOf, TypeOK, QueuedRequest
<1> HIDE DEF StatusOf
<1> USE <1>1 DEF Ledger
<1>2. QueueAgrees' /\ HashAgrees' /\ CreatedInOrder'
  BY DEF QueueAgrees, HashAgrees, CreatedInOrder, StatusOf
<1>3. OnlyWorkerProcesses'
  BY DEF OnlyWorkerProcesses
<1>4. FinishedOnce'
  BY DEF FinishedOnce
<1>5. HeldByWorker'
  BY DEF HeldByWorker, TypeOK
<1> QED
  BY <1>2, <1>3, <1>4, <1>5

\* What the assignment of one request's status changes.
LEMMA OneStatusChanges ==
    ASSUME TypeOK, NEW h \in Handle, NEW status \in RequestStatus,
           request' = [request EXCEPT ![h].mStatus = status]
    PROVE  /\ StatusOf(h)' = status
           /\ \A g \in Handle \ {h} : StatusOf(g)' = StatusOf(g)
           /\ \A g \in Handle : request'[g].mPriority = request[g].mPriority
  BY DEF StatusOf, TypeOK, QueuedRequest

\* A request may be completed once the worker has let it go.
LEMMA NotHeld ==
    ASSUME TypeOK, Ledger, main # "gone", Unlocked, NEW h \in Handle,
           StatusOf(h) \in {"COMPLETE", "ABORTED"}
    PROVE  h # held
<1> SUFFICES ASSUME h = held PROVE FALSE
  OBVIOUS
<1>1. held # nullHandle
  BY DEF Handle, nullHandle
<1>2. worker = "processing"
  BY <1>1 DEF Ledger, HeldByWorker, Unlocked, Locked
<1> QED
  BY <1>2 DEF Ledger, OnlyWorkerProcesses

LEMMA MainLedger == TypeOK /\ Ledger /\ main # "gone" /\ MainThread => Ledger'
<1> SUFFICES ASSUME TypeOK, Ledger, main # "gone", MainThread PROVE Ledger'
  OBVIOUS
<1> USE DEF threadVars, requestVars
<1>1. ASSUME NEW p \in Priorities, NEW flags \in NewFlags, AddRequest(p, flags)
      PROVE  Ledger'
  <2>0. PICK h \in Handle : h = mNextHandle
    BY <1>1 DEF AddRequest
  <2>1. h \in Nat /\ p \in Nat
    BY DEF Handle
  <2>2. /\ StatusOf(h)' = "QUEUED" /\ request'[h].mPriority = p
        /\ \A g \in Handle \ {h} : request'[g] = request[g]
    BY <1>1, <2>0 DEF AddRequest, StatusOf, TypeOK
  <2>3. StatusOf(h) = "UNKNOWN" /\ finished[h] = 0
    BY <2>0, <2>1 DEF Ledger, CreatedInOrder, FinishedOnce
  <2>4. /\ mRequestQueue' = mRequestQueue \cup {<<p, h>>}
        /\ mRequestHash' = mRequestHash \cup {h}
        /\ mNextHandle' = h + 1
        /\ UNCHANGED <<worker, held, finished>>
    BY <1>1, <2>0 DEF AddRequest
  <2>5. \A g \in Handle \ {h} : StatusOf(g)' = StatusOf(g)
    BY <2>2 DEF StatusOf
  <2>6. h # held
    <3> SUFFICES ASSUME h = held PROVE FALSE
      OBVIOUS
    <3>1. worker \in {"processing", "aborting", "finishing"}
      BY <2>1 DEF Ledger, HeldByWorker, Handle, nullHandle
    <3> QED
      BY <2>1, <2>3, <3>1 DEF Ledger, HeldByWorker, OnlyWorkerProcesses
  <2>7. QueueAgrees'
    BY <2>1, <2>2, <2>3, <2>4, <2>5 DEF Ledger, QueueAgrees
  <2>8. HashAgrees'
    BY <2>2, <2>4, <2>5 DEF Ledger, HashAgrees
  <2>9. OnlyWorkerProcesses'
    BY <2>2, <2>3, <2>4, <2>5, <2>6 DEF Ledger, OnlyWorkerProcesses
  <2>10. FinishedOnce'
    BY <2>2, <2>3, <2>4, <2>5 DEF Ledger, FinishedOnce
  <2>11. HeldByWorker'
    BY <2>4, <2>5, <2>6 DEF Ledger, HeldByWorker, TypeOK, nullHandle
  <2>12. CreatedInOrder'
    BY <2>0, <2>1, <2>2, <2>4, <2>5 DEF Ledger, CreatedInOrder, Handle
  <2> QED
    BY <2>7, <2>8, <2>9, <2>10, <2>11, <2>12 DEF Ledger
<1>2. ASSUME NEW h \in Asked, NEW p \in Priorities, SetPriority(h, p)
      PROVE  Ledger'
  <2>1. h \in Handle /\ p \in Nat
    BY <1>2 DEF SetPriority, TypeOK
  <2>2. /\ \A g \in Handle : StatusOf(g)' = StatusOf(g)
        /\ \A g \in Handle \ {h} : request'[g].mPriority = request[g].mPriority
        /\ request'[h].mPriority = p
    BY <1>2, <2>1 DEF SetPriority, StatusOf, TypeOK, QueuedRequest
  <2>3. /\ mRequestQueue' = IF StatusOf(h) = "QUEUED"
                            THEN (mRequestQueue \ {<<request[h].mPriority, h>>}) \cup {<<p, h>>}
                            ELSE mRequestQueue
        /\ UNCHANGED <<mRequestHash, mNextHandle, finished, worker, held>>
    BY <1>2 DEF SetPriority, Moved, Key
  <2>4. QueueAgrees'
    BY <2>1, <2>2, <2>3 DEF Ledger, QueueAgrees
  <2>5. HashAgrees' /\ OnlyWorkerProcesses' /\ FinishedOnce' /\ CreatedInOrder'
    BY <2>2, <2>3 DEF Ledger, HashAgrees, OnlyWorkerProcesses, FinishedOnce, CreatedInOrder
  <2>6. HeldByWorker'
    BY <2>2, <2>3 DEF Ledger, HeldByWorker, TypeOK, nullHandle
  <2> QED
    BY <2>4, <2>5, <2>6 DEF Ledger
<1>3. ASSUME NEW h \in Asked, NEW flags \in LateFlags, SetFlags(h, flags)
      PROVE  Ledger'
  <2>1. h \in Handle
    BY <1>3 DEF SetFlags, TypeOK
  <2>2. \A g \in Handle : /\ StatusOf(g)' = StatusOf(g)
                          /\ request'[g].mPriority = request[g].mPriority
    BY <1>3, <2>1 DEF SetFlags, StatusOf, TypeOK, QueuedRequest
  <2>3. UNCHANGED <<mRequestQueue, mRequestHash, mNextHandle, finished, worker, held>>
    BY <1>3 DEF SetFlags
  <2>4. QueueAgrees'
    BY <2>2, <2>3 DEF Ledger, QueueAgrees
  <2>5. HashAgrees' /\ OnlyWorkerProcesses' /\ FinishedOnce' /\ CreatedInOrder'
    BY <2>2, <2>3 DEF Ledger, HashAgrees, OnlyWorkerProcesses, FinishedOnce, CreatedInOrder
  <2>6. HeldByWorker'
    BY <2>2, <2>3 DEF Ledger, HeldByWorker, TypeOK, nullHandle
  <2> QED
    BY <2>4, <2>5, <2>6 DEF Ledger
<1>4. ASSUME NEW h \in Asked, CompleteRequest(h)
      PROVE  Ledger'
  <2>1. h \in Handle
    BY <1>4 DEF CompleteRequest, TypeOK
  <2>2. StatusOf(h) \in RequestStatus
    BY <2>1 DEF StatusOf, TypeOK, QueuedRequest
  <2>3. StatusOf(h) \in {"COMPLETE", "ABORTED"}
    BY <1>4, <2>1, <2>2 DEF CompleteRequest, MayComplete, Ledger, HashAgrees, RequestStatus
  <2>4. h # held
    BY <1>4, <2>1, <2>3, NotHeld DEF CompleteRequest
  <2> QED
    BY <1>4, <2>1, <2>3, <2>4, FreeLedger DEF CompleteRequest
<1>5. CASE ResultFound
  <2>1. CASE call.handle \in mRequestHash /\ call.complete
    <3>1. call.handle \in Handle /\ StatusOf(call.handle) = "COMPLETE"
      BY <1>5, <2>1 DEF ResultFound, TypeOK
    <3>2. call.handle # held
      BY <1>5, <3>1, NotHeld DEF ResultFound
    <3> QED
      BY <1>5, <2>1, <3>1, <3>2, FreeLedger DEF ResultFound
  <2>2. CASE ~(call.handle \in mRequestHash /\ call.complete)
    <3>1. Quiet
      BY <1>5, <2>2 DEF ResultFound, Quiet
    <3> QED
      BY <3>1, QuietLedger
  <2> QED
    BY <2>1, <2>2
<1>6. CASE FreeAll
  BY <1>6 DEF FreeAll, Ledger, QueueAgrees, HashAgrees, OnlyWorkerProcesses, FinishedOnce,
     HeldByWorker, CreatedInOrder
<1>7. CASE \/ IncQueue \/ Pause \/ UpdateQueue \/ WaitOnPending \/ SetQuitting \/ Wake
           \/ \E h \in Asked, complete \in BOOLEAN : WaitForResult(h, complete)
           \/ ResultAwaited \/ PendingDone \/ PendingAwaited \/ QuitUnpause
  BY <1>7, QuietSteps, QuietLedger
<1> QED
  BY <1>1, <1>2, <1>3, <1>4, <1>5, <1>6, <1>7 DEF MainThread, MainContinues

\* The worker takes the first request k of the queue in hand.
LEMMA TakeLedger ==
    ASSUME TypeOK, Ledger, NEW k \in mRequestQueue,
           \/ TakeAborted(k)
           \/ TakeRequest(k)
    PROVE  Ledger'
<1> USE DEF threadVars, requestVars
<1>1. PICK status \in {"ABORTED", "INPROGRESS"}, next \in {"aborting", "processing"} :
        /\ Take(k, status, next)
        /\ status = "ABORTED" <=> next = "aborting"
  BY DEF TakeAborted, TakeRequest
<1>2. PICK p \in Nat, h \in Handle : k = <<p, h>>
  BY DEF TypeOK
<1>3. /\ mRequestQueue' = mRequestQueue \ {<<p, h>>}
      /\ request' = [request EXCEPT ![h].mStatus = status]
      /\ held' = h /\ worker' = next /\ worker \in {"locking", "taking"}
      /\ UNCHANGED <<mRequestHash, mNextHandle, finished, main>>
  BY <1>1, <1>2 DEF Take
<1>4. /\ StatusOf(h)' = status
      /\ \A g \in Handle \ {h} : StatusOf(g)' = StatusOf(g)
      /\ \A g \in Handle : request'[g].mPriority = request[g].mPriority
  BY <1>3, OneStatusChanges DEF RequestStatus
<1>5. held = nullHandle /\ h # nullHandle
  BY <1>3 DEF Ledger, HeldByWorker, Handle, nullHandle
<1>6. HeldByWorker'
  BY <1>1, <1>3, <1>4, <1>5 DEF HeldByWorker, nullHandle
<1>7. ASSUME main # "gone"
      PROVE  Ledger'
  <2>1. StatusOf(h) = "QUEUED" /\ request[h].mPriority = p
    BY <1>2, <1>7 DEF Ledger, QueueAgrees
  <2>2. QueueAgrees'
    BY <1>3, <1>4, <1>7, <2>1 DEF Ledger, QueueAgrees
  <2>3. HashAgrees'
    BY <1>3, <1>4, <1>7, <2>1 DEF Ledger, HashAgrees
  <2>4. OnlyWorkerProcesses'
    BY <1>1, <1>3, <1>4, <1>5, <1>7, <2>1 DEF Ledger, OnlyWorkerProcesses
  <2>5. FinishedOnce'
    BY <1>3, <1>4, <1>5, <1>7, <2>1 DEF Ledger, FinishedOnce, nullHandle, Handle
  <2>6. CreatedInOrder'
    BY <1>3, <1>4, <1>7, <2>1 DEF Ledger, CreatedInOrder
  <2> QED
    BY <1>6, <2>2, <2>3, <2>4, <2>5, <2>6 DEF Ledger
<1>8. CASE main = "gone"
  BY <1>3, <1>6, <1>8 DEF Ledger, QueueAgrees, HashAgrees, OnlyWorkerProcesses, FinishedOnce,
     CreatedInOrder
<1> QED
  BY <1>7, <1>8

\* processRequest returns.
LEMMA ProcessedLedger ==
    ASSUME TypeOK, Ledger, Complete \/ Requeue
    PROVE  Ledger'
<1> USE DEF threadVars, requestVars
<1>1. worker = "processing"
  BY DEF Complete, Requeue
<1>2. PICK h \in Handle : h = held
  BY <1>1 DEF Ledger, HeldByWorker, TypeOK
<1>3. h # nullHandle
  BY DEF Handle, nullHandle
<1>4. PICK status \in {"COMPLETE", "QUEUED"} :
        /\ request' = [request EXCEPT ![h].mStatus = status]
        /\ IF status = "COMPLETE"
           THEN worker' = "finishing" /\ held' = h /\ mRequestQueue' = mRequestQueue
           ELSE /\ worker' = "counting" /\ held' = nullHandle
                /\ mRequestQueue' = mRequestQueue \cup {<<request[h].mPriority, h>>}
  BY <1>2 DEF Complete, Requeue, Key
<1>5. UNCHANGED <<mRequestHash, mNextHandle, finished, main>>
  BY DEF Complete, Requeue
<1>6. /\ StatusOf(h)' = status
      /\ \A g \in Handle \ {h} : StatusOf(g)' = StatusOf(g)
      /\ \A g \in Handle : request'[g].mPriority = request[g].mPriority
  BY <1>4, OneStatusChanges DEF RequestStatus
<1>7. HeldByWorker'
  BY <1>3, <1>4, <1>6 DEF HeldByWorker, nullHandle
<1>8. ASSUME main # "gone"
      PROVE  Ledger'
  <2>1. StatusOf(h) = "INPROGRESS"
    BY <1>1, <1>2, <1>8 DEF Ledger, OnlyWorkerProcesses
  <2>2. QueueAgrees'
    <3>1. CASE status = "COMPLETE"
      BY <1>4, <1>6, <1>8, <2>1, <3>1 DEF Ledger, QueueAgrees
    <3>2. ASSUME status = "QUEUED", NEW g \in Handle, NEW p \in Nat
          PROVE  <<p, g>> \in mRequestQueue' <=>
                    StatusOf(g)' = "QUEUED" /\ request'[g].mPriority = p
      <4>1. /\ StatusOf(h)' = "QUEUED"
            /\ mRequestQueue' = mRequestQueue \cup {<<request[h].mPriority, h>>}
        BY <1>4, <1>6, <3>2
      <4>2. <<p, h>> \notin mRequestQueue
        BY <1>8, <2>1 DEF Ledger, QueueAgrees
      <4>3. CASE g = h
        BY <1>6, <4>1, <4>2, <4>3
      <4>4. CASE g # h
        BY <1>6, <1>8, <4>1, <4>4 DEF Ledger, QueueAgrees
      <4> QED
        BY <4>3, <4>4
    <3> QED
      BY <1>4, <3>1, <3>2 DEF QueueAgrees
  <2>3. HashAgrees'
    BY <1>5, <1>6, <1>8, <2>1 DEF Ledger, HashAgrees
  <2>4. OnlyWorkerProcesses'
    <3>1. worker' # "processing" \/ held' = nullHandle
      BY <1>4
    <3>2. \A g \in Handle \ {h} : StatusOf(g) # "INPROGRESS"
      BY <1>2, <1>8 DEF Ledger, OnlyWorkerProcesses
    <3>3. \A g \in Handle : StatusOf(g)' # "INPROGRESS" /\ g # nullHandle
      BY <1>6, <3>2 DEF Handle, nullHandle
    <3> QED
      BY <3>1, <3>3 DEF OnlyWorkerProcesses
  <2>5. FinishedOnce'
    <3>1. \A g \in Handle \ {h} : g # held /\ g # held'
      BY <1>2, <1>4 DEF Handle, nullHandle
    <3>2. finished[h] = 0 /\ finished' = finished /\ main' = main
      BY <1>5, <1>8, <2>1 DEF Ledger, FinishedOnce
    <3>3. StatusOf(h)' = "QUEUED" \/ (StatusOf(h)' = "COMPLETE" /\ h = held')
      BY <1>4, <1>6
    <3> QED
      BY <1>6, <1>8, <3>1, <3>2, <3>3 DEF Ledger, FinishedOnce
  <2>6. CreatedInOrder'
    BY <1>5, <1>6, <1>8, <2>1 DEF Ledger, CreatedInOrder
  <2> QED
    BY <1>7, <2>2, <2>3, <2>4, <2>5, <2>6 DEF Ledger
<1>9. CASE main = "gone"
  BY <1>5, <1>7, <1>9 DEF Ledger, QueueAgrees, HashAgrees, OnlyWorkerProcesses, FinishedOnce,
     CreatedInOrder
<1> QED
  BY <1>8, <1>9

\* finishRequest returned.
LEMMA FinishLedger ==
    ASSUME TypeOK, Ledger, FinishAborted \/ FinishComplete
    PROVE  Ledger'
<1> USE DEF threadVars, requestVars
<1>1. PICK next \in {"taking", "counting"} : Finish(next)
  BY DEF FinishAborted, FinishComplete
<1>2. worker \in {"aborting", "finishing"}
  BY DEF FinishAborted, FinishComplete
<1>3. PICK h \in Handle : h = held
  BY <1>2 DEF Ledger, HeldByWorker, TypeOK
<1>4. /\ finished' = [finished EXCEPT ![h] = OnceMore(finished[h])]
      /\ Free(h) \/ UNCHANGED <<mRequestHash, request>>
      /\ held' = nullHandle /\ worker' \in {"taking", "counting"}
      /\ UNCHANGED <<mRequestQueue, mNextHandle, main>>
  BY <1>1, <1>3 DEF Finish
<1>5. HeldByWorker'
  BY <1>4 DEF HeldByWorker
<1>6. ASSUME main # "gone"
      PROVE  Ledger'
  <2>1. StatusOf(h) \in {"COMPLETE", "ABORTED"}
    BY <1>2, <1>3, <1>6 DEF Ledger, HeldByWorker
  <2>2. finished[h] = 0
    BY <1>3, <1>6, <2>1 DEF Ledger, FinishedOnce
  <2>3. finished'[h] = 1 /\ \A g \in Handle \ {h} : finished'[g] = finished[g]
    BY <1>4, <2>2 DEF OnceMore, TypeOK
  <2>4. /\ StatusOf(h)' \in {"DELETE", StatusOf(h)}
        /\ \A g \in Handle \ {h} : StatusOf(g)' = StatusOf(g)
        /\ \A g \in Handle : request'[g].mPriority = request[g].mPriority
    <3>1. CASE Free(h)
      BY <3>1, OneStatusChanges DEF Free, RequestStatus
    <3>2. CASE UNCHANGED <<mRequestHash, request>>
      BY <3>2 DEF StatusOf
    <3> QED
      BY <1>4, <3>1, <3>2
  <2>5. \A g \in Handle : g \in mRequestHash' <=>
            g \in mRequestHash /\ (g # h \/ StatusOf(h)' # "DELETE")
    <3>1. CASE Free(h)
      BY <3>1, OneStatusChanges DEF Free, RequestStatus
    <3>2. CASE UNCHANGED <<mRequestHash, request>>
      BY <2>1, <3>2 DEF StatusOf
    <3> QED
      BY <1>4, <3>1, <3>2
  <2>6. QueueAgrees'
    BY <1>4, <1>6, <2>1, <2>4 DEF Ledger, QueueAgrees
  <2>7. HashAgrees'
    BY <1>4, <1>6, <2>1, <2>4, <2>5 DEF Ledger, HashAgrees
  <2>8. OnlyWorkerProcesses'
    BY <1>2, <1>4, <1>6, <2>1, <2>4 DEF Ledger, OnlyWorkerProcesses
  <2>9. FinishedOnce'
    <3>1. \A g \in Handle : g # held'
      BY <1>4 DEF Handle, nullHandle
    <3> QED
      BY <1>3, <1>6, <2>1, <2>3, <2>4, <3>1 DEF Ledger, FinishedOnce
  <2>10. CreatedInOrder'
    BY <1>4, <1>6, <2>1, <2>4 DEF Ledger, CreatedInOrder
  <2> QED
    BY <1>5, <2>6, <2>7, <2>8, <2>9, <2>10 DEF Ledger
<1>7. CASE main = "gone"
  BY <1>4, <1>5, <1>7 DEF Ledger, QueueAgrees, HashAgrees, OnlyWorkerProcesses, FinishedOnce,
     CreatedInOrder
<1> QED
  BY <1>6, <1>7

LEMMA NextLedger == TypeOK /\ Ledger /\ [Next]_vars => Ledger'
<1> SUFFICES ASSUME TypeOK, Ledger, [Next]_vars PROVE Ledger'
  OBVIOUS
<1>1. CASE MainThread
  <2>1. main # "gone"
    BY <1>1 DEF MainThread, MainContinues, AddRequest, SetPriority, SetFlags,
       CompleteRequest, WaitForResult, Pause, UpdateQueue, WaitOnPending, SetQuitting,
       IncQueue, Wake, ResultFound, ResultAwaited, PendingDone, PendingAwaited,
       QuitUnpause, FreeAll
  <2> QED
    BY <1>1, <2>1, MainLedger
<1>2. CASE WorkerThread \/ SpuriousWakeup
  <2>1. CASE \/ StaticRun \/ CheckPause \/ SpuriousWakeup \/ Quit \/ End \/ Run
             \/ TakeNone \/ Count \/ Idle
    BY <2>1, QuietSteps, QuietLedger
  <2>2. CASE \E k \in mRequestQueue : TakeAborted(k) \/ TakeRequest(k)
    BY <2>2, TakeLedger
  <2>3. CASE Complete \/ Requeue \/ FinishAborted \/ FinishComplete
    BY <2>3, ProcessedLedger, FinishLedger
  <2> QED
    BY <1>2, <2>1, <2>2, <2>3 DEF WorkerThread
<1>3. CASE Terminated \/ UNCHANGED vars
  <2>1. Quiet
    BY <1>3 DEF Terminated, vars, requestVars, threadVars, Quiet
  <2> QED
    BY <2>1, QuietLedger
<1> QED
  BY <1>1, <1>2, <1>3 DEF Next
-----------------------------------------------------------------------------
(* When the thread is STOPPED *)

LEMMA InitStopsOnce == Init => StopsOnce
  BY DEF Init, StopsOnce, Calling

LEMMA NextStopsOnce == TypeOK /\ StopsOnce /\ [Next]_vars => StopsOnce'
<1> SUFFICES ASSUME TypeOK, StopsOnce, [Next]_vars PROVE StopsOnce'
  OBVIOUS
<1> USE DEF StopsOnce, threadVars, requestVars
\* The steps that change neither the status of the thread nor its worker state,
\* and those that begin nothing that shutdown waits for.
<1>1. ASSUME UNCHANGED <<mStatus, worker>>, main' \in {"free", "queued", "look"}
      PROVE  StopsOnce'
  BY <1>1
<1>2. ASSUME UNCHANGED <<mStatus, worker>>, main' = "unpaused", call'.op # "shutdown"
      PROVE  StopsOnce'
  BY <1>2
<1>3. CASE \E p \in Priorities, flags \in NewFlags : AddRequest(p, flags)
  BY <1>1, <1>3 DEF AddRequest
<1>4. CASE \E h \in Asked, p \in Priorities : SetPriority(h, p)
  BY <1>1, <1>4 DEF SetPriority
<1>5. CASE \E h \in Asked, flags \in LateFlags : SetFlags(h, flags)
  BY <1>1, <1>5 DEF SetFlags
<1>6. CASE \E h \in Asked : CompleteRequest(h)
  BY <1>1, <1>6 DEF CompleteRequest
<1>7. CASE \E h \in Asked, complete \in BOOLEAN : WaitForResult(h, complete)
  <2>1. call'.op = "waitForResult"
    BY <1>7 DEF WaitForResult
  <2> QED
    BY <1>2, <1>7, <2>1 DEF WaitForResult, Update
<1>8. CASE Pause
  BY <1>1, <1>8 DEF Pause
<1>9. CASE UpdateQueue
  BY <1>2, <1>9 DEF UpdateQueue, Update, Calling
<1>10. CASE WaitOnPending
  BY <1>2, <1>10 DEF WaitOnPending, Update, Calling
<1>11. CASE SetQuitting
  BY <1>11 DEF SetQuitting
<1>12. CASE IncQueue
  BY <1>12 DEF IncQueue, Woken
<1>13. CASE Wake
  BY <1>13 DEF Wake, Woken
<1>14. CASE ResultFound
  BY <1>1, <1>14 DEF ResultFound
<1>15. CASE ResultAwaited
  BY <1>2, <1>15 DEF ResultAwaited, Update
<1>16. CASE PendingDone
  BY <1>1, <1>16 DEF PendingDone
<1>17. CASE PendingAwaited
  BY <1>2, <1>17 DEF PendingAwaited, Update
<1>18. CASE QuitUnpause
  BY <1>18 DEF QuitUnpause, Woken
<1>19. CASE FreeAll
  BY <1>19 DEF FreeAll
<1>20. CASE WorkerThread \/ SpuriousWakeup
  <2>1. UNCHANGED <<main, call>>
    BY <1>20 DEF WorkerThread, SpuriousWakeup, StaticRun, CheckPause, Quit, End, Run,
       TakeNone, TakeAborted, TakeRequest, Take, Complete, Requeue, FinishAborted,
       FinishComplete, Finish, Count, Idle
  <2>2. worker \notin {"ended"} /\ worker' # "unborn"
    BY <1>20 DEF WorkerThread, SpuriousWakeup, StaticRun, CheckPause, Quit, End, Run,
       TakeNone, TakeAborted, TakeRequest, Take, Complete, Requeue, FinishAborted,
       FinishComplete, Finish, Count, Idle
  <2>3. (mStatus' = "STOPPED") <=> worker' = "ended"
    <3>1. CASE StaticRun \/ End
      BY <3>1 DEF StaticRun, End
    <3>2. CASE ~(StaticRun \/ End)
      <4>1. mStatus' = mStatus /\ worker # "unborn" /\ worker' # "ended"
        BY <1>20, <3>2 DEF WorkerThread, SpuriousWakeup, CheckPause, Quit, Run, TakeNone,
           TakeAborted, TakeRequest, Take, Complete, Requeue, FinishAborted,
           FinishComplete, Finish, Count, Idle
      <4> QED
        BY <2>2, <4>1
    <3> QED
      BY <3>1, <3>2
  <2> QED
    BY <2>1, <2>2, <2>3
<1>21. CASE Terminated \/ UNCHANGED vars
  BY <1>21 DEF Terminated, vars
<1> QED
  BY <1>3, <1>4, <1>5, <1>6, <1>7, <1>8, <1>9, <1>10, <1>11, <1>12, <1>13, <1>14, <1>15,
     <1>16, <1>17, <1>18, <1>19, <1>20, <1>21 DEF Next, MainThread, MainContinues
-----------------------------------------------------------------------------
(* The theorems *)

LEMMA NextType == TypeOK /\ HeldByWorker /\ [Next]_vars => TypeOK'
<1> SUFFICES ASSUME TypeOK, HeldByWorker, [Next]_vars PROVE TypeOK'
  OBVIOUS
<1>1. CASE SpuriousWakeup
  BY <1>1 DEF SpuriousWakeup, TypeOK, WorkerState, threadVars, requestVars
<1>2. CASE Terminated \/ UNCHANGED vars
  BY <1>2 DEF Terminated, vars, threadVars, requestVars, TypeOK
<1> QED
  BY <1>1, <1>2, MainType, WorkerType DEF Next

LEMMA Invariance == Spec => []Inv
<1>1. Init => Inv
  BY InitType, InitLedger, InitStopsOnce DEF Inv
<1>2. Inv /\ [Next]_vars => Inv'
  BY NextType, NextLedger, NextStopsOnce DEF Inv, Ledger
<1> QED
  BY <1>1, <1>2, PTL DEF Spec

\* The queue, the hash and the statuses agree as sets when they agree request
\* by request.
LEMMA LedgerMatches == TypeOK /\ Ledger => QueueMatchesStatus
<1> SUFFICES ASSUME TypeOK, Ledger, main # "gone"
             PROVE  /\ mRequestQueue =
                            {Key(h) : h \in {g \in Handle : StatusOf(g) = "QUEUED"}}
                    /\ mRequestHash =
                            {h \in Handle : StatusOf(h) \notin {"UNKNOWN", "DELETE"}}
  BY DEF QueueMatchesStatus, Ledger, OnlyWorkerProcesses
<1>1. ASSUME NEW k \in mRequestQueue
      PROVE  \E h \in Handle : StatusOf(h) = "QUEUED" /\ k = Key(h)
  <2>1. PICK p \in Nat, h \in Handle : k = <<p, h>>
    BY DEF TypeOK
  <2> QED
    BY <2>1 DEF Ledger, QueueAgrees, Key
<1>2. ASSUME NEW h \in Handle, StatusOf(h) = "QUEUED"
      PROVE  Key(h) \in mRequestQueue
  <2>1. request[h].mPriority \in Nat
    BY DEF TypeOK, QueuedRequest
  <2> QED
    BY <1>2, <2>1 DEF Ledger, QueueAgrees, Key
<1> QED
  BY <1>1, <1>2 DEF Ledger, HashAgrees, TypeOK

\* Every variable keeps its type, and with them the statuses and flags that the
\* switch statements and assertions of llqueuedthread.cpp expect.
THEOREM TypeInvariant == Spec => []TypeOK
  BY Invariance, PTL DEF Inv

\* The priority queue, the hash and the status of every request agree in every
\* state before the thread is gone, whatever the main thread asks and whenever
\* it interrupts: no assertion of processNextRequest fails, setPriority always
\* finds the request it moves, and no freed request is in the queue.
THEOREM QueueInvariant == Spec => []QueueMatchesStatus
<1>1. Inv => QueueMatchesStatus
  BY LedgerMatches DEF Inv
<1> QED
  BY <1>1, Invariance, PTL

\* finishRequest runs once for every request that completes or is aborted, and
\* always before the request is freed.
THEOREM FinishInvariant == Spec => []FinishedOnce
<1>1. Inv => FinishedOnce
  BY DEF Inv, Ledger
<1> QED
  BY <1>1, Invariance, PTL

\* The assertion of deleteRequest never fails when shutdown finds a thread that
\* has started and waits until it stops: no request in progress is freed.
THEOREM NotFreedInProgress == ~GivesUp => (Spec => NoneFreedInProgress)
<1> SUFFICES ASSUME ~GivesUp PROVE Spec => NoneFreedInProgress
  OBVIOUS
<1>1. Inv /\ [Next]_vars =>
        [\A h \in Handle : StatusOf(h) = "INPROGRESS" => request'[h].mStatus # "DELETE"]_vars
  <2> SUFFICES ASSUME Inv, Next, NEW h \in Handle, StatusOf(h) = "INPROGRESS",
                      request'[h].mStatus = "DELETE"
               PROVE  FALSE
    OBVIOUS
  <2> USE DEF threadVars, requestVars
  <2>1. request'[h] # request[h]
    BY DEF StatusOf
  <2>2. request \in [Handle -> QueuedRequest]
    BY DEF Inv, TypeOK
  <2>3. ASSUME NEW g \in Handle, NEW status \in RequestStatus,
               request' = [request EXCEPT ![g].mStatus = status]
        PROVE  g = h /\ status = "DELETE"
    BY <2>1, <2>3, OneStatusChanges DEF StatusOf, Inv
  <2>4. CASE main = "gone"
    <3>1. worker = "ended"
      BY <2>4 DEF Inv, StopsOnce
    <3> QED
      BY <2>1, <2>4, <3>1 DEF Next, MainThread, MainContinues, AddRequest, SetPriority,
         SetFlags, CompleteRequest, WaitForResult, Pause, UpdateQueue, WaitOnPending,
         SetQuitting, IncQueue, Wake, ResultFound, ResultAwaited, PendingDone,
         PendingAwaited, QuitUnpause, FreeAll, WorkerThread, SpuriousWakeup, Terminated,
         vars, StaticRun, CheckPause, Quit, End, Run, TakeNone, TakeAborted, TakeRequest,
         Take, Complete, Requeue, FinishAborted, FinishComplete, Finish, Count, Idle
  <2>5. CASE main # "gone"
    <3>1. worker = "processing" /\ held = h
      BY <2>5 DEF Inv, Ledger, OnlyWorkerProcesses
    <3>2. CASE MainThread
      <4>1. ASSUME NEW p \in Priorities, NEW flags \in NewFlags, AddRequest(p, flags)
            PROVE  FALSE
        <5>1. StatusOf(mNextHandle) = "UNKNOWN" /\ mNextHandle \in Handle
          BY <2>5, <4>1 DEF AddRequest, Inv, Ledger, CreatedInOrder, Handle
        <5> QED
          BY <2>1, <4>1, <5>1 DEF AddRequest, StatusOf
      <4>2. ASSUME NEW g \in Asked, NEW p \in Priorities, SetPriority(g, p)
            PROVE  FALSE
        BY <2>2, <4>2 DEF SetPriority, StatusOf, QueuedRequest
      <4>3. ASSUME NEW g \in Asked, NEW flags \in LateFlags, SetFlags(g, flags)
            PROVE  FALSE
        BY <2>2, <4>3 DEF SetFlags, StatusOf, QueuedRequest
      <4>4. ASSUME NEW g \in Asked, CompleteRequest(g)
            PROVE  FALSE
        <5>1. g \in Handle
          BY <4>4 DEF CompleteRequest, Inv, TypeOK
        <5> QED
          BY <2>3, <4>4, <5>1 DEF CompleteRequest, MayComplete, Free, RequestStatus
      <4>5. CASE ResultFound
        <5>1. call.handle \in mRequestHash /\ call.handle \in Handle
          BY <2>1, <4>5 DEF ResultFound, Inv, TypeOK
        <5> QED
          BY <2>1, <2>3, <4>5, <5>1 DEF ResultFound, Free, RequestStatus
      <4>6. CASE FreeAll
        <5>1. worker = "ended"
          BY <4>6 DEF FreeAll, Inv, StopsOnce
        <5> QED
          BY <3>1, <5>1
      <4>7. CASE \/ IncQueue \/ Pause \/ UpdateQueue \/ WaitOnPending \/ SetQuitting
                 \/ \E g \in Asked, complete \in BOOLEAN : WaitForResult(g, complete)
                 \/ Wake \/ ResultAwaited \/ PendingDone \/ PendingAwaited \/ QuitUnpause
        BY <2>1, <4>7, QuietSteps DEF Quiet
      <4> QED
        BY <3>2, <4>1, <4>2, <4>3, <4>4, <4>5, <4>6, <4>7 DEF MainThread, MainContinues
    <3>3. CASE WorkerThread \/ SpuriousWakeup
      <4>1. Complete \/ Requeue
        BY <3>1, <3>3 DEF WorkerThread, SpuriousWakeup, StaticRun, CheckPause, Quit, End,
           Run, TakeNone, TakeAborted, TakeRequest, Take, FinishAborted, FinishComplete,
           Count, Idle
      <4> QED
        BY <2>3, <3>1, <4>1 DEF Complete, Requeue, RequestStatus
    <3>4. CASE Terminated
      BY <2>1, <3>4 DEF Terminated, vars
    <3> QED
      BY <3>2, <3>3, <3>4 DEF Next
  <2> QED
    BY <2>4, <2>5
<1> QED
  BY <1>1, Invariance, PTL DEF Spec, NoneFreedInProgress
-----------------------------------------------------------------------------
(* The order of the queue *)

\* A set of naturals that is not empty has a least element.
LEMMA LeastElement ==
    ASSUME NEW S \in SUBSET Nat, S # {}
    PROVE  \E i \in S : \A j \in S : i <= j
<1> DEFINE R == OpToRel(<, Nat)
<1>1. \A j, k \in Nat : ~ (<<j, k>> \in R) => ~ (j < k)
  BY Zenon DEF OpToRel
<1>2. IsWellFoundedOn(R, Nat)
  BY NatLessThanWellFounded
<1> HIDE DEF R
<1>3. PICK i \in S : \A j \in S : ~ (<<j, i>> \in R)
  BY <1>2, WFMin
<1>4. ASSUME NEW j \in S
      PROVE  i <= j
  <2>1. i \in Nat /\ j \in Nat
    OBVIOUS
  <2>2. ~ (j < i)
    BY <1>1, <1>3, <2>1, Zenon
  <2> QED
    BY <2>1, <2>2
<1> QED
  BY <1>4

\* Of some requests up to n, whatever their priorities, one comes before all
\* the others.
Foremost(n, S, h, priority) ==
    /\ h \in S /\ h <= n
    /\ \A g \in S \ {h} :
            g <= n => HigherPriority(<<priority[h], h>>, <<priority[g], g>>)

LEMMA FirstOfSome ==
    ASSUME NEW S \in SUBSET Nat, NEW priority \in [S -> Nat], NEW n \in Nat,
           \E g \in S : g <= n
    PROVE  \E h \in S : Foremost(n, S, h, priority)
<1> DEFINE Has(m) == \E g \in S : g <= m
           Good(m) == \E h \in S : Foremost(m, S, h, priority)
           Bad == {m \in Nat : Has(m) /\ ~Good(m)}
<1> SUFFICES ASSUME Bad # {} PROVE FALSE
  OBVIOUS
<1>1. PICK m \in Bad : \A k \in Bad : m <= k
  BY LeastElement
<1>2. m \in Nat /\ Has(m) /\ ~Good(m)
  OBVIOUS
<1>3. ASSUME NEW k \in Nat, k < m, Has(k)
      PROVE  Good(k)
  <2>1. k \notin Bad
    BY <1>1, <1>2, <1>3
  <2> QED
    BY <1>3, <2>1
<1>4. m \in S
  <2> SUFFICES ASSUME m \notin S PROVE FALSE
    OBVIOUS
  <2>1. PICK g \in S : g <= m
    BY <1>2
  <2>2. m # 0 /\ m - 1 \in Nat /\ m - 1 < m /\ g <= m - 1
    BY <1>2, <2>1
  <2>3. PICK h \in S : Foremost(m - 1, S, h, priority)
    BY <1>3, <2>2
  <2>4. \A l \in S : l <= m => l <= m - 1
    BY <1>2
  <2>5. h <= m /\ h \in S
    BY <1>2, <2>3 DEF Foremost
  <2>6. Foremost(m, S, h, priority)
    BY <2>3, <2>4, <2>5 DEF Foremost
  <2> QED
    BY <1>2, <2>6
<1>5. CASE \A g \in S : g <= m => g = m
  <2>1. Foremost(m, S, m, priority)
    BY <1>4, <1>5 DEF Foremost
  <2> QED
    BY <1>2, <1>4, <2>1
<1>6. CASE \E g \in S : g <= m /\ g # m
  <2>1. PICK g \in S : g <= m /\ g # m
    BY <1>6
  <2>2. m # 0 /\ m - 1 \in Nat /\ m - 1 < m /\ g <= m - 1
    BY <1>2, <2>1
  <2>3. PICK h \in S : Foremost(m - 1, S, h, priority)
    BY <1>3, <2>2
  <2>4. \A l \in S : l <= m => l = m \/ l <= m - 1
    BY <1>2
  <2>5. CASE priority[m] > priority[h]
    <3>1. ASSUME NEW l \in S \ {m}, l <= m
          PROVE  HigherPriority(<<priority[m], m>>, <<priority[l], l>>)
      <4>1. l = h \/ HigherPriority(<<priority[h], h>>, <<priority[l], l>>)
        BY <2>3, <2>4, <3>1 DEF Foremost
      <4>2. priority[l] \in Nat /\ priority[h] \in Nat /\ priority[m] \in Nat
        BY <1>4
      <4> QED
        BY <2>5, <4>1, <4>2 DEF HigherPriority
    <3>2. m <= m
      BY <1>2
    <3>3. Foremost(m, S, m, priority)
      BY <1>4, <3>1, <3>2 DEF Foremost
    <3> QED
      BY <1>2, <1>4, <3>3
  <2>6. CASE ~(priority[m] > priority[h])
    <3>1. h # m /\ h <= m
      BY <1>2, <2>3 DEF Foremost
    <3>2. HigherPriority(<<priority[h], h>>, <<priority[m], m>>)
      <4>1. priority[h] \in Nat /\ priority[m] \in Nat /\ h \in Nat
        BY <1>4
      <4>2. h < m
        BY <1>2, <3>1, <4>1
      <4> QED
        BY <2>6, <4>1, <4>2 DEF HigherPriority
    <3>3. Foremost(m, S, h, priority)
      BY <2>3, <2>4, <3>1, <3>2 DEF Foremost
    <3> QED
      BY <1>2, <3>3
  <2> QED
    BY <2>5, <2>6
<1> QED
  BY <1>5, <1>6

\* The queue holds every queued request at its priority, and everything in it
\* is at its priority: this goes on when shutdown gave up on the thread.
QueueOrdered ==
    /\ \A k \in mRequestQueue : k = Key(k[2])
    /\ \A h \in Handle : StatusOf(h) = "QUEUED" => Key(h) \in mRequestQueue

\* The queue's first request comes before every other one in it.
LEMMA FirstIsFirst ==
    ASSUME TypeOK, QueueOrdered, mRequestQueue # {}
    PROVE  /\ First(mRequestQueue) \in mRequestQueue
           /\ \A l \in mRequestQueue \ {First(mRequestQueue)} :
                    HigherPriority(First(mRequestQueue), l)
<1> DEFINE S == {h \in Handle : Key(h) \in mRequestQueue}
           priority == [h \in S |-> request[h].mPriority]
<1>1. \A k \in mRequestQueue : k[2] \in S /\ k = <<priority[k[2]], k[2]>>
  BY DEF TypeOK, QueueOrdered, Key
<1>2. \A h \in S : <<priority[h], h>> \in mRequestQueue /\ h <= MaxRequests
  BY DEF Key, Handle
<1>3. S \in SUBSET Nat /\ priority \in [S -> Nat]
  BY DEF Handle, TypeOK, QueuedRequest
<1> HIDE DEF S, priority
<1>4. \E g \in S : g <= MaxRequests
  BY <1>1, <1>2
<1>5. PICK h \in S : Foremost(MaxRequests, S, h, priority)
  <2>1. MaxRequests \in Nat
    OBVIOUS
  <2> QED
    BY <1>3, <1>4, <2>1, FirstOfSome
<1> DEFINE k == <<priority[h], h>>
<1>6. k \in mRequestQueue
  BY <1>2
<1>7. ASSUME NEW l \in mRequestQueue \ {k}
      PROVE  HigherPriority(k, l)
  <2>1. l[2] \in S /\ l = <<priority[l[2]], l[2]>> /\ l[2] <= MaxRequests
    BY <1>1, <1>2
  <2>2. l[2] # h
    BY <2>1
  <2> QED
    BY <1>5, <2>1, <2>2 DEF Foremost
<1>8. \E m \in mRequestQueue : \A l \in mRequestQueue \ {m} : HigherPriority(m, l)
  BY <1>6, <1>7
<1> QED
  BY <1>8, Zenon DEF First

\* The steps after which shutdown has let the thread go.
LEMMA OrderedWhenGone ==
    ASSUME TypeOK, Ledger, QueueOrdered, [Next]_vars, main' = "gone"
    PROVE  QueueOrdered'
<1> USE DEF threadVars, requestVars
<1>1. request \in [Handle -> QueuedRequest]
  BY DEF TypeOK
<1>2. ASSUME NEW h \in Handle, NEW status \in RequestStatus \ {"QUEUED"},
             request' = [request EXCEPT ![h].mStatus = status],
             mRequestQueue' = mRequestQueue \/ mRequestQueue' = mRequestQueue \ {Key(h)}
      PROVE  QueueOrdered'
  <2>1. /\ StatusOf(h)' = status
        /\ \A g \in Handle \ {h} : StatusOf(g)' = StatusOf(g)
        /\ \A g \in Handle : request'[g].mPriority = request[g].mPriority
    BY <1>2, OneStatusChanges
  <2>2. \A g \in Handle : Key(g)' = Key(g)
    BY <2>1 DEF Key
  <2>3. \A k \in mRequestQueue' : k = Key(k[2])'
    BY <1>2, <2>2 DEF QueueOrdered, TypeOK
  <2>4. \A g \in Handle : StatusOf(g)' = "QUEUED" => Key(g)' \in mRequestQueue'
    BY <1>2, <2>1, <2>2 DEF QueueOrdered, Key
  <2> QED
    BY <2>3, <2>4 DEF QueueOrdered
<1>3. ASSUME UNCHANGED <<mRequestQueue, request>>
      PROVE  QueueOrdered'
  BY <1>3 DEF QueueOrdered, Key, StatusOf
<1>4. CASE MainThread
  <2>1. FreeAll
    BY <1>4 DEF MainThread, MainContinues, AddRequest, SetPriority, SetFlags,
       CompleteRequest, WaitForResult, Pause, UpdateQueue, WaitOnPending, SetQuitting,
       IncQueue, Wake, ResultFound, ResultAwaited, PendingDone, PendingAwaited,
       QuitUnpause, Update
  <2>2. /\ mRequestQueue' = mRequestQueue
        /\ request' = [h \in Handle |-> IF h \in mRequestHash
                        THEN [request[h] EXCEPT !.mStatus = "DELETE"] ELSE request[h]]
    BY <2>1 DEF FreeAll
  <2>3. \A h \in Handle : /\ request'[h].mPriority = request[h].mPriority
                          /\ request'[h].mStatus \in {request[h].mStatus, "DELETE"}
    BY <1>1, <2>2 DEF QueuedRequest
  <2>4. \A h \in Handle : Key(h)' = Key(h) /\ (StatusOf(h)' = "QUEUED" => StatusOf(h) = "QUEUED")
    BY <2>3 DEF Key, StatusOf
  <2> QED
    BY <2>2, <2>4 DEF QueueOrdered, TypeOK
<1>5. CASE WorkerThread \/ SpuriousWakeup
  <2>1. CASE \/ StaticRun \/ CheckPause \/ SpuriousWakeup \/ Quit \/ End \/ Run
             \/ TakeNone \/ Count \/ Idle
    BY <1>3, <2>1, QuietSteps DEF Quiet
  <2>2. CASE \E k \in mRequestQueue : TakeAborted(k) \/ TakeRequest(k)
    <3>1. PICK k \in mRequestQueue : TakeAborted(k) \/ TakeRequest(k)
      BY <2>2
    <3>2. k[2] \in Handle /\ k = Key(k[2])
      BY DEF TypeOK, QueueOrdered
    <3>3. PICK status \in {"ABORTED", "INPROGRESS"} :
            /\ request' = [request EXCEPT ![k[2]].mStatus = status]
            /\ mRequestQueue' = mRequestQueue \ {k}
      BY <3>1 DEF TakeAborted, TakeRequest, Take
    <3> QED
      BY <1>2, <3>2, <3>3 DEF RequestStatus
  <2>3. CASE Complete
    BY <1>2, <2>3 DEF Complete, Ledger, HeldByWorker, RequestStatus, TypeOK
  <2>4. CASE Requeue
    <3>1. /\ held \in Handle
          /\ request' = [request EXCEPT ![held].mStatus = "QUEUED"]
          /\ mRequestQueue' = mRequestQueue \cup {Key(held)}
      BY <2>4 DEF Requeue, Ledger, HeldByWorker, TypeOK
    <3>2. /\ \A g \in Handle \ {held} : StatusOf(g)' = StatusOf(g)
          /\ \A g \in Handle : request'[g].mPriority = request[g].mPriority
      BY <3>1, OneStatusChanges DEF RequestStatus
    <3>3. \A g \in Handle : Key(g)' = Key(g)
      BY <3>2 DEF Key
    <3>4. Key(held)[2] = held
      BY DEF Key
    <3>5. \A k \in mRequestQueue' : k = Key(k[2])'
      BY <3>1, <3>3, <3>4 DEF QueueOrdered, TypeOK
    <3>6. \A g \in Handle : StatusOf(g)' = "QUEUED" => Key(g)' \in mRequestQueue'
      BY <3>1, <3>2, <3>3 DEF QueueOrdered
    <3> QED
      BY <3>5, <3>6 DEF QueueOrdered
  <2>5. ASSUME NEW next, Finish(next), held \in Handle
        PROVE  QueueOrdered'
    <3>1. mRequestQueue' = mRequestQueue
      BY <2>5 DEF Finish
    <3>2. CASE request' = [request EXCEPT ![held].mStatus = "DELETE"]
      BY <1>2, <2>5, <3>1, <3>2 DEF RequestStatus
    <3>3. CASE request' = request
      BY <1>3, <3>1, <3>3
    <3> QED
      BY <2>5, <3>2, <3>3 DEF Finish, Free
  <2>6. CASE FinishAborted \/ FinishComplete
    <3>1. held \in Handle
      BY <2>6 DEF FinishAborted, FinishComplete, Ledger, HeldByWorker, TypeOK
    <3> QED
      BY <2>5, <2>6, <3>1 DEF FinishAborted, FinishComplete
  <2> QED
    BY <1>5, <2>1, <2>2, <2>3, <2>4, <2>6 DEF WorkerThread
<1>6. CASE Terminated \/ UNCHANGED vars
  BY <1>3, <1>6 DEF Terminated, vars
<1> QED
  BY <1>4, <1>5, <1>6 DEF Next

LEMMA QueueOrderInvariance == Spec => []QueueOrdered
<1>1. TypeOK /\ Ledger /\ main # "gone" => QueueOrdered
  <2> SUFFICES ASSUME TypeOK, Ledger, main # "gone" PROVE QueueOrdered
    OBVIOUS
  <2>1. \A k \in mRequestQueue : k \in Nat \X Handle /\ k = <<k[1], k[2]>>
    BY DEF TypeOK
  <2>2. \A k \in mRequestQueue : k[1] = request[k[2]].mPriority
    BY <2>1 DEF Ledger, QueueAgrees
  <2>3. \A h \in Handle : request[h].mPriority \in Nat
    BY DEF TypeOK, QueuedRequest
  <2> QED
    BY <2>1, <2>2, <2>3 DEF QueueOrdered, Key, Ledger, QueueAgrees
<1>2. Inv /\ Init => QueueOrdered
  BY <1>1 DEF Init, Inv
<1>3. Inv /\ Inv' /\ QueueOrdered /\ [Next]_vars => QueueOrdered'
  <2>1. Inv' /\ main' # "gone" => QueueOrdered'
    <3>1. (TypeOK /\ Ledger /\ main # "gone" => QueueOrdered)'
      BY <1>1, PTL
    <3> QED
      BY <3>1 DEF Inv
  <2> QED
    BY <2>1, OrderedWhenGone DEF Inv
<1> QED
  BY <1>2, <1>3, Invariance, PTL DEF Spec

\* Whatever the priorities are set to while requests wait, and even after
\* shutdown gave up on the thread, processNextRequest starts the request of the
\* highest priority in the queue, the oldest of those that are equal.
THEOREM StartsHighest == Spec => HighestFirst
<1>1. Inv /\ QueueOrdered /\ [Next]_vars =>
        [\A h \in Handle :
            StatusOf(h) = "QUEUED" /\ request'[h].mStatus = "INPROGRESS" =>
                \A g \in Handle \ {h} :
                    StatusOf(g) = "QUEUED" => HigherPriority(Key(h), Key(g))]_vars
  <2> SUFFICES ASSUME Inv, QueueOrdered, Next, NEW h \in Handle, StatusOf(h) = "QUEUED",
                      request'[h].mStatus = "INPROGRESS",
                      NEW g \in Handle \ {h}, StatusOf(g) = "QUEUED"
               PROVE  HigherPriority(Key(h), Key(g))
    OBVIOUS
  <2> USE DEF threadVars, requestVars
  <2>1. request \in [Handle -> QueuedRequest] /\ TypeOK /\ Ledger
    BY DEF Inv, TypeOK
  <2>2. request'[h].mStatus # request[h].mStatus
    BY DEF StatusOf
  <2>3. ASSUME NEW f \in Handle, NEW status \in RequestStatus,
               request' = [request EXCEPT ![f].mStatus = status]
        PROVE  f = h /\ status = "INPROGRESS"
    BY <2>1, <2>2, <2>3, OneStatusChanges DEF StatusOf
  <2>4. CASE MainThread
    <3>1. ASSUME NEW p \in Priorities, NEW flags \in NewFlags, AddRequest(p, flags)
          PROVE  FALSE
      BY <2>1, <2>2, <3>1 DEF AddRequest
    <3>2. ASSUME NEW f \in Asked, NEW p \in Priorities, SetPriority(f, p)
          PROVE  FALSE
      BY <2>1, <2>2, <3>2 DEF SetPriority, QueuedRequest
    <3>3. ASSUME NEW f \in Asked, NEW flags \in LateFlags, SetFlags(f, flags)
          PROVE  FALSE
      BY <2>1, <2>2, <3>3 DEF SetFlags, QueuedRequest
    <3>4. ASSUME NEW f \in Asked, CompleteRequest(f)
          PROVE  FALSE
      <4>1. f \in Handle
        BY <2>1, <3>4 DEF CompleteRequest, TypeOK
      <4> QED
        BY <2>3, <3>4, <4>1 DEF CompleteRequest, Free, RequestStatus
    <3>5. CASE ResultFound
      <4>1. call.handle \in mRequestHash /\ call.handle \in Handle
        BY <2>1, <2>2, <3>5 DEF ResultFound, TypeOK
      <4> QED
        BY <2>2, <2>3, <3>5, <4>1 DEF ResultFound, Free, RequestStatus
    <3>6. CASE FreeAll
      BY <2>1, <2>2, <3>6 DEF FreeAll, QueuedRequest
    <3>7. CASE \/ IncQueue \/ Pause \/ UpdateQueue \/ WaitOnPending \/ SetQuitting
               \/ \E f \in Asked, complete \in BOOLEAN : WaitForResult(f, complete)
               \/ Wake \/ ResultAwaited \/ PendingDone \/ PendingAwaited \/ QuitUnpause
      BY <2>2, <3>7, QuietSteps DEF Quiet
    <3> QED
      BY <2>4, <3>1, <3>2, <3>3, <3>4, <3>5, <3>6, <3>7 DEF MainThread, MainContinues
  <2>5. CASE WorkerThread \/ SpuriousWakeup
    <3>1. CASE \/ StaticRun \/ CheckPause \/ SpuriousWakeup \/ Quit \/ End \/ Run
               \/ TakeNone \/ Count \/ Idle
      BY <2>2, <3>1, QuietSteps DEF Quiet
    <3>2. CASE \E k \in mRequestQueue : TakeAborted(k) \/ TakeRequest(k)
      <4>1. PICK k \in mRequestQueue : TakeAborted(k) \/ TakeRequest(k)
        BY <3>2
      <4>2. PICK status \in {"ABORTED", "INPROGRESS"} :
            /\ request' = [request EXCEPT ![k[2]].mStatus = status]
            /\ k = First(mRequestQueue)
        BY <4>1 DEF TakeAborted, TakeRequest, Take
      <4>3. k[2] \in Handle /\ k = Key(k[2])
        BY <2>1 DEF TypeOK, QueueOrdered
      <4>4. k = Key(h)
        BY <2>3, <4>2, <4>3 DEF RequestStatus
      <4>5. Key(g) \in mRequestQueue /\ Key(g) # k
        BY <4>4 DEF QueueOrdered, Key
      <4>6. \A l \in mRequestQueue \ {k} : HigherPriority(k, l)
        BY <2>1, <4>2, FirstIsFirst
      <4> QED
        BY <4>4, <4>5, <4>6
    <3>3. CASE Complete \/ Requeue
      <4>1. held \in Handle
        BY <2>1, <3>3 DEF Complete, Requeue, Ledger, HeldByWorker, TypeOK
      <4> QED
        BY <2>3, <3>3, <4>1 DEF Complete, Requeue, RequestStatus
    <3>4. CASE FinishAborted \/ FinishComplete
      <4>1. held \in Handle
        BY <2>1, <3>4 DEF FinishAborted, FinishComplete, Ledger, HeldByWorker, TypeOK
      <4> QED
        BY <2>2, <2>3, <3>4, <4>1
           DEF FinishAborted, FinishComplete, Finish, Free, RequestStatus
    <3> QED
      BY <2>5, <3>1, <3>2, <3>3, <3>4 DEF WorkerThread
  <2>6. CASE Terminated
    BY <2>2, <2>6 DEF Terminated, vars
  <2> QED
    BY <2>4, <2>5, <2>6 DEF Next
<1> QED
  BY <1>1, Invariance, QueueOrderInvariance, PTL DEF Spec, HighestFirst
=============================================================================
