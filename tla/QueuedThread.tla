---------------------------- MODULE QueuedThread ----------------------------
(***************************************************************************)
(* LLQueuedThread and the LLThread under it (llcommon/llqueuedthread.cpp,  *)
(* llcommon/llthread.cpp), the threaded form: the main thread queues       *)
(* requests, changes their priority, aborts them, waits for them and shuts *)
(* the thread down; the worker takes them by priority and finishes each.   *)
(*                                                                         *)
(* A section under lockData() is one step of the main thread.  The worker  *)
(* calls finishRequest, which belongs to a subclass, with the lock held,   *)
(* and so holds it from one step to the next in the states of `Locked'.    *)
(***************************************************************************)
EXTENDS Integers, FiniteSets

CONSTANTS
    MaxRequests,    \* bound: requests made over the thread's life
    Priorities,     \* the priorities callers pass
    NewFlags,       \* the flags requests are created with
    LateFlags,      \* the flags passed to setFlags and abortRequest
    Pausing,        \* does the main thread pause the worker?
    GivesUp         \* may shutdown come before the thread runs, or not wait until it stops?

Flag == {"AUTO_COMPLETE", "ABORT"}

ASSUME QueuedThreadAssumption ==
    /\ MaxRequests \in Nat
    /\ Priorities \subseteq Nat
    /\ NewFlags \subseteq SUBSET Flag
    /\ LateFlags \subseteq SUBSET Flag
    /\ Pausing \in BOOLEAN
    /\ GivesUp \in BOOLEAN

VARIABLES
    mStatus,        \* of the thread: STOPPED, RUNNING or QUITTING
    mPaused,
    mIdleThread,
    mRequestQueue,  \* <<priority, handle>>: the set that begin() reads in order
    mRequestHash,   \* the handles that can be found
    mNextHandle,
    request,        \* handle -> its mStatus, mPriority and mFlags
    worker,         \* where the worker is
    held,           \* the request the worker took from the queue, or none
    main,           \* where the main thread is
    call,           \* the call of the main thread that is not done in one step
    finished        \* history: how often finishRequest ran for a handle, up to 2

threadVars  == <<mStatus, mPaused, mIdleThread>>
requestVars == <<mRequestQueue, mRequestHash, mNextHandle, request, finished>>
vars == <<threadVars, requestVars, worker, held, main, call>>
-----------------------------------------------------------------------------
Handle == 1 .. MaxRequests
nullHandle == 0

ThreadStatus == {"STOPPED", "RUNNING", "QUITTING"}

\* UNKNOWN: not created yet.  DELETE: freed.
RequestStatus == {"UNKNOWN", "QUEUED", "INPROGRESS", "COMPLETE", "ABORTED", "DELETE"}
QueuedRequest == [mStatus : RequestStatus, mPriority : Nat, mFlags : SUBSET Flag]

\* unborn: before staticRun; run: run() is about to test isQuitting; locking: in
\* processNextRequest, before lockData.  The worker holds the lock while it
\* takes requests and inside the two calls of finishRequest.
Locked == {"taking", "aborting", "finishing"}
WorkerState == Locked \cup {"unborn", "checkPause", "asleep", "run", "locking",
                            "processing", "counting", "idle", "ending", "ended"}

\* queued: addRequest before incQueue; unpaused: updateQueue before wake; look:
\* a loop that just called update; quitting, stopping, gone: shutdown.
MainState == {"free", "queued", "unpaused", "look", "quitting", "stopping", "gone"}

Call == [op : {"update", "waitForResult", "waitOnPending", "shutdown"},
         handle : Handle \cup {nullHandle}, complete : BOOLEAN, waspaused : BOOLEAN]
Calling(op) == [op |-> op, handle |-> nullHandle, complete |-> FALSE, waspaused |-> FALSE]

StatusOf(h) == request[h].mStatus
Key(h) == <<request[h].mPriority, h>>

\* QueuedRequest::higherPriority: equal priorities go by handle.
HigherPriority(k, l) == k[1] > l[1] \/ (k[1] = l[1] /\ k[2] < l[2])

\* Fault: the queue is first in, first out.
Oldest(queue) == CHOOSE k \in queue : \A l \in queue : k[2] <= l[2]

First(queue) == CHOOSE k \in queue : \A l \in queue \ {k} : HigherPriority(k, l)

isPaused == mStatus = "STOPPED" \/ mPaused

\* Fault: the thread sleeps whenever it is idle, without a look at the queue.
NotIdle == ~mIdleThread

\* LLQueuedThread::runCondition
RunCondition == ~(mRequestQueue = {} /\ mIdleThread)

\* Fault: a thread that was told to quit sleeps like a running one.
SleepsThroughQuit == isPaused \/ ~RunCondition

ShouldSleep == mStatus = "RUNNING" /\ (isPaused \/ ~RunCondition)

\* LLThread::wake: signals the condition if the thread should run.
Woken == IF worker = "asleep" /\ ~ShouldSleep THEN "checkPause" ELSE worker

Unlocked == worker \notin Locked

\* Bound: the history tells once from more than once and counts no further.
OnceMore(times) == IF times < 2 THEN times + 1 ELSE times
-----------------------------------------------------------------------------
Init ==
    /\ mStatus = "STOPPED"
    /\ mPaused = FALSE
    /\ mIdleThread = TRUE
    /\ mRequestQueue = {}
    /\ mRequestHash = {}
    /\ mNextHandle = 1
    /\ request = [h \in Handle |->
                    [mStatus |-> "UNKNOWN", mPriority |-> 0, mFlags |-> {}]]
    /\ finished = [h \in Handle |-> 0]
    /\ worker = "unborn"
    /\ held = nullHandle
    /\ main = "free"
    /\ call = Calling("update")
-----------------------------------------------------------------------------
(* Main thread *)

\* generateHandle and addRequest, which refuses once the thread is quitting.
\* incQueue is the next step.
AddRequest(priority, flags) ==
    /\ main = "free"
    /\ mStatus # "QUITTING"
    /\ Unlocked
    /\ mNextHandle \in Handle
    /\ mNextHandle' = mNextHandle + 1
    /\ request' = [request EXCEPT ![mNextHandle] =
            [mStatus |-> "QUEUED", mPriority |-> priority, mFlags |-> flags]]
    /\ mRequestQueue' = mRequestQueue \cup {<<priority, mNextHandle>>}
    /\ mRequestHash' = mRequestHash \cup {mNextHandle}
    /\ main' = "queued"
    /\ UNCHANGED <<threadVars, worker, held, call, finished>>

\* incQueue
IncQueue ==
    /\ main = "queued"
    /\ ~isPaused => Unlocked
    /\ worker' = IF isPaused THEN worker ELSE Woken
    /\ main' = "free"
    /\ UNCHANGED <<threadVars, requestVars, held, call>>

\* setFlags, and abortRequest, which sets ABORT and may set AUTO_COMPLETE.
SetFlags(h, flags) ==
    /\ main = "free"
    /\ Unlocked
    /\ h \in mRequestHash
    /\ request' = [request EXCEPT ![h].mFlags = @ \cup flags]
    /\ UNCHANGED <<threadVars, mRequestQueue, mRequestHash, mNextHandle, finished,
                   worker, held, main, call>>

\* Fault: the queue keeps a request at the place of its former priority.
NotMoved(h, priority) == mRequestQueue

\* The queue once a request that is in it has moved to its new place.
Moved(h, priority) == (mRequestQueue \ {Key(h)}) \cup {<<priority, h>>}

\* setPriority: a queued request moves, one in progress only remembers.
SetPriority(h, priority) ==
    /\ main = "free"
    /\ Unlocked
    /\ h \in mRequestHash
    /\ StatusOf(h) \in {"QUEUED", "INPROGRESS"}
    /\ mRequestQueue' = IF StatusOf(h) = "QUEUED" THEN Moved(h, priority)
                        ELSE mRequestQueue
    /\ request' = [request EXCEPT ![h].mPriority = priority]
    /\ UNCHANGED <<threadVars, mRequestHash, mNextHandle, finished,
                   worker, held, main, call>>

\* Erased from the hash and freed by deleteRequest.
Free(h) ==
    /\ mRequestHash' = mRequestHash \ {h}
    /\ request' = [request EXCEPT ![h].mStatus = "DELETE"]

\* Fault: only queued requests are refused.
NotQueued(h) == StatusOf(h) # "QUEUED"

\* What completeRequest asserts: the request is not queued or in progress.
MayComplete(h) == StatusOf(h) \notin {"QUEUED", "INPROGRESS"}

CompleteRequest(h) ==
    /\ main = "free"
    /\ Unlocked
    /\ h \in mRequestHash
    /\ MayComplete(h)
    /\ Free(h)
    /\ UNCHANGED <<threadVars, mRequestQueue, mNextHandle, finished,
                   worker, held, main, call>>

Pause ==
    /\ Pausing
    /\ main = "free"
    /\ mPaused' = TRUE
    /\ UNCHANGED <<mStatus, mIdleThread, requestVars, worker, held, main, call>>

\* Fault: update does not unpause.
UpdatePaused ==
    /\ Unlocked
    /\ main' = "unpaused"
    /\ UNCHANGED <<threadVars, requestVars, worker, held>>

\* A call of update, alone or in the loop of waitForResult or waitOnPending:
\* getPending and the assignment of unpause, whose wake is the next step.
Update ==
    /\ Unlocked
    /\ mPaused' = FALSE
    /\ main' = "unpaused"
    /\ UNCHANGED <<mStatus, mIdleThread, requestVars, worker, held>>

UpdateQueue == main = "free" /\ call' = Calling("update") /\ Update

WaitForResult(h, complete) ==
    /\ main = "free"
    /\ call' = [op |-> "waitForResult", handle |-> h, complete |-> complete,
                waspaused |-> isPaused]
    /\ Update

WaitOnPending == main = "free" /\ call' = Calling("waitOnPending") /\ Update

Wake ==
    /\ main = "unpaused"
    /\ Unlocked
    /\ worker' = Woken
    /\ main' = CASE call.op = "update" -> "free"
                 [] call.op = "shutdown" -> "stopping"
                 [] OTHER -> "look"
    /\ UNCHANGED <<threadVars, requestVars, held, call>>

\* The loop of waitForResult, after update: done when the request is gone or
\* complete, else around again.
ResultFound ==
    /\ main = "look"
    /\ call.op = "waitForResult"
    /\ Unlocked
    /\ call.handle \in mRequestHash => StatusOf(call.handle) = "COMPLETE"
    /\ IF call.handle \in mRequestHash /\ call.complete THEN Free(call.handle)
       ELSE UNCHANGED <<mRequestHash, request>>
    /\ mPaused' = (mPaused \/ call.waspaused)
    /\ main' = "free"
    /\ call' = Calling("update")
    /\ UNCHANGED <<mStatus, mIdleThread, mRequestQueue, mNextHandle, finished,
                   worker, held>>

ResultAwaited ==
    /\ main = "look"
    /\ call.op = "waitForResult"
    /\ call.handle \in mRequestHash
    /\ StatusOf(call.handle) # "COMPLETE"
    /\ UNCHANGED call
    /\ Update

\* The loop of waitOnPending ends when the thread says it is idle.
PendingDone ==
    /\ main = "look"
    /\ call.op = "waitOnPending"
    /\ mIdleThread
    /\ main' = "free"
    /\ call' = Calling("update")
    /\ UNCHANGED <<threadVars, requestVars, worker, held>>

PendingAwaited ==
    /\ main = "look"
    /\ call.op = "waitOnPending"
    /\ ~mIdleThread
    /\ UNCHANGED call
    /\ Update

\* shutdown, as far as the assignment in setQuitting, which is ignored by a
\* thread that is not running yet.
SetQuitting ==
    /\ main = "free"
    /\ Unlocked
    /\ mStatus = "STOPPED" => GivesUp
    /\ mStatus' = IF mStatus = "RUNNING" THEN "QUITTING" ELSE mStatus
    /\ main' = "quitting"
    /\ UNCHANGED <<mPaused, mIdleThread, requestVars, worker, held, call>>

\* The wake of setQuitting and the assignment of unpause; unpause wakes again.
QuitUnpause ==
    /\ main = "quitting"
    /\ Unlocked
    /\ worker' = Woken
    /\ mPaused' = FALSE
    /\ main' = "unpaused"
    /\ call' = Calling("shutdown")
    /\ UNCHANGED <<mStatus, mIdleThread, requestVars, held>>

\* shutdown waits ten seconds for the thread to stop, then frees every request
\* it finds, whether or not it did, without the lock.
FreeAll ==
    /\ main = "stopping"
    /\ mStatus = "STOPPED" \/ GivesUp
    /\ mRequestHash' = {}
    /\ request' = [h \in Handle |-> IF h \in mRequestHash
                        THEN [request[h] EXCEPT !.mStatus = "DELETE"] ELSE request[h]]
    /\ main' = "gone"
    /\ UNCHANGED <<threadVars, mRequestQueue, mNextHandle, finished, worker, held, call>>
-----------------------------------------------------------------------------
(* Worker thread *)

\* staticRun enters run().
StaticRun ==
    /\ worker = "unborn"
    /\ mStatus' = "RUNNING"
    /\ worker' = "checkPause"
    /\ UNCHANGED <<mPaused, mIdleThread, requestVars, held, main, call>>

\* checkPause
CheckPause ==
    /\ worker = "checkPause"
    /\ worker' = IF ShouldSleep THEN "asleep" ELSE "run"
    /\ UNCHANGED <<threadVars, requestVars, held, main, call>>

\* The pthread API allows a wait to return without a signal.
SpuriousWakeup ==
    /\ worker = "asleep"
    /\ worker' = "checkPause"
    /\ UNCHANGED <<threadVars, requestVars, held, main, call>>

Quit ==
    /\ worker = "run"
    /\ mStatus = "QUITTING"
    /\ worker' = "ending"
    /\ UNCHANGED <<threadVars, requestVars, held, main, call>>

End ==
    /\ worker = "ending"
    /\ mStatus' = "STOPPED"
    /\ worker' = "ended"
    /\ UNCHANGED <<mPaused, mIdleThread, requestVars, held, main, call>>

Run ==
    /\ worker = "run"
    /\ mStatus # "QUITTING"
    /\ mIdleThread' = FALSE
    /\ worker' = "locking"
    /\ UNCHANGED <<mStatus, mPaused, requestVars, held, main, call>>

MustAbort(h) == "ABORT" \in request[h].mFlags \/ mStatus = "QUITTING"

\* processNextRequest up to the end of its first locked section, one request of
\* its loop at a time.
TakeNone ==
    /\ worker \in {"locking", "taking"}
    /\ mRequestQueue = {}
    /\ worker' = "counting"
    /\ UNCHANGED <<threadVars, requestVars, held, main, call>>

Take(k, status, next) ==
    /\ worker \in {"locking", "taking"}
    /\ mRequestQueue # {}
    /\ k = First(mRequestQueue)
    /\ mRequestQueue' = mRequestQueue \ {k}
    /\ request' = [request EXCEPT ![k[2]].mStatus = status]
    /\ held' = k[2]
    /\ worker' = next
    /\ UNCHANGED <<threadVars, mRequestHash, mNextHandle, finished, main, call>>

TakeAborted(k) == MustAbort(k[2]) /\ Take(k, "ABORTED", "aborting")
TakeRequest(k) == ~MustAbort(k[2]) /\ Take(k, "INPROGRESS", "processing")

\* Fault: a request with AUTO_COMPLETE goes away without finishRequest.
FinishOthers(next) ==
    /\ IF "AUTO_COMPLETE" \in request[held].mFlags
       THEN Free(held) /\ UNCHANGED finished
       ELSE /\ finished' = [finished EXCEPT ![held] = OnceMore(@)]
            /\ UNCHANGED <<mRequestHash, request>>
    /\ held' = nullHandle
    /\ worker' = next
    /\ UNCHANGED <<threadVars, mRequestQueue, mNextHandle, main, call>>

\* finishRequest returned: a request with AUTO_COMPLETE goes away.
Finish(next) ==
    /\ finished' = [finished EXCEPT ![held] = OnceMore(@)]
    /\ IF "AUTO_COMPLETE" \in request[held].mFlags THEN Free(held)
       ELSE UNCHANGED <<mRequestHash, request>>
    /\ held' = nullHandle
    /\ worker' = next
    /\ UNCHANGED <<threadVars, mRequestQueue, mNextHandle, main, call>>

FinishAborted == worker = "aborting" /\ Finish("taking")

\* processRequest returned true, or false: then the request is queued again.
Complete ==
    /\ worker = "processing"
    /\ request' = [request EXCEPT ![held].mStatus = "COMPLETE"]
    /\ worker' = "finishing"
    /\ UNCHANGED <<threadVars, mRequestQueue, mRequestHash, mNextHandle, finished,
                   held, main, call>>

FinishComplete == worker = "finishing" /\ Finish("counting")

Requeue ==
    /\ worker = "processing"
    /\ request' = [request EXCEPT ![held].mStatus = "QUEUED"]
    /\ mRequestQueue' = mRequestQueue \cup {Key(held)}
    /\ held' = nullHandle
    /\ worker' = "counting"
    /\ UNCHANGED <<threadVars, mRequestHash, mNextHandle, finished, main, call>>

\* getPending, at the end of processNextRequest.
Count ==
    /\ worker = "counting"
    /\ worker' = IF mRequestQueue = {} THEN "idle" ELSE "checkPause"
    /\ UNCHANGED <<threadVars, requestVars, held, main, call>>

Idle ==
    /\ worker = "idle"
    /\ mIdleThread' = TRUE
    /\ worker' = "checkPause"
    /\ UNCHANGED <<mStatus, mPaused, requestVars, held, main, call>>
-----------------------------------------------------------------------------
Asked == 1 .. mNextHandle - 1

\* The steps in which the main thread goes on with a call it has begun.
MainContinues ==
    \/ IncQueue \/ Wake
    \/ ResultFound \/ ResultAwaited
    \/ PendingDone \/ PendingAwaited
    \/ QuitUnpause \/ FreeAll

MainThread ==
    \/ \E p \in Priorities : \/ \E flags \in NewFlags : AddRequest(p, flags)
                             \/ \E h \in Asked : SetPriority(h, p)
    \/ \E h \in Asked :
            \/ \E flags \in LateFlags : SetFlags(h, flags)
            \/ CompleteRequest(h)
            \/ \E complete \in BOOLEAN : WaitForResult(h, complete)
    \/ Pause
    \/ UpdateQueue
    \/ WaitOnPending
    \/ SetQuitting
    \/ MainContinues

WorkerThread ==
    \/ StaticRun \/ CheckPause \/ Quit \/ End \/ Run
    \/ TakeNone
    \/ \E k \in mRequestQueue : TakeAborted(k) \/ TakeRequest(k)
    \/ Complete \/ Requeue
    \/ FinishAborted \/ FinishComplete
    \/ Count \/ Idle

\* Both threads are done.
Terminated == main = "gone" /\ worker = "ended" /\ UNCHANGED vars

Next == MainThread \/ WorkerThread \/ SpuriousWakeup \/ Terminated

Spec == Init /\ [][Next]_vars

\* The operating system runs both threads, the main loop comes back to update,
\* and no request asks for ever to be processed again.
FairSpec ==
    /\ Spec
    /\ WF_vars(MainContinues)
    /\ SF_vars(UpdateQueue)
    /\ WF_vars(WorkerThread)
    /\ \A h \in Handle : SF_vars(held = h /\ Complete)
-----------------------------------------------------------------------------
(* Properties *)

\* Every variable holds a value of its type.
TypeOK ==
    /\ mStatus \in ThreadStatus
    /\ mPaused \in BOOLEAN
    /\ mIdleThread \in BOOLEAN
    /\ mRequestQueue \subseteq Nat \X Handle
    /\ mRequestHash \subseteq Handle
    /\ mNextHandle \in 1 .. MaxRequests + 1
    /\ request \in [Handle -> QueuedRequest]
    /\ worker \in WorkerState
    /\ held \in Handle \cup {nullHandle}
    /\ main \in MainState
    /\ call \in Call
    /\ finished \in [Handle -> 0 .. 2]

\* Until shutdown frees everything, the queue, the hash, the status of every
\* request and the worker agree: the queue holds the queued requests, each at
\* the place of its present priority (the erase in setPriority relies on it),
\* the hash finds what was created and not freed, and a request is in progress
\* exactly while the worker is processing it (so that none of the assertions of
\* processNextRequest and deleteRequest fails and no freed request is used).
QueueMatchesStatus ==
    main # "gone" =>
        /\ mRequestQueue = {Key(h) : h \in {g \in Handle : StatusOf(g) = "QUEUED"}}
        /\ mRequestHash = {h \in Handle : StatusOf(h) \notin {"UNKNOWN", "DELETE"}}
        /\ \A h \in Handle :
                StatusOf(h) = "INPROGRESS" <=> worker = "processing" /\ held = h

\* finishRequest is "always called from thread after request has completed or
\* aborted": once, before the request can be freed, whatever flags are set
\* meanwhile (the locks that a VFS request takes depend on it).
FinishedOnce ==
    main # "gone" =>
        \A h \in Handle :
            finished[h] = IF \/ StatusOf(h) = "DELETE"
                             \/ StatusOf(h) \in {"COMPLETE", "ABORTED"} /\ held # h
                          THEN 1 ELSE 0

\* What the invariants above need to be inductive: the worker has a request in
\* hand exactly in three of its states, with the status it gave it; handles are
\* given out in order; the thread is STOPPED exactly before it starts and after
\* it ends; and shutdown, unless it gives up, found a thread that had started.
HeldByWorker ==
    /\ (held # nullHandle) <=> worker \in {"processing", "aborting", "finishing"}
    /\ main # "gone" => /\ worker = "aborting" => StatusOf(held) = "ABORTED"
                        /\ worker = "finishing" => StatusOf(held) = "COMPLETE"

CreatedInOrder ==
    main # "gone" =>
        \A h \in Handle : StatusOf(h) = "UNKNOWN" <=> h >= mNextHandle

StopsOnce ==
    /\ (mStatus = "STOPPED") <=> worker \in {"unborn", "ended"}
    /\ ~GivesUp =>
        /\ main \in {"quitting", "stopping"} => worker # "unborn"
        /\ main = "unpaused" /\ call.op = "shutdown" => worker # "unborn"
        /\ main = "gone" => worker = "ended"

\* The worker starts a request only if no request queued at that moment has a
\* higher priority, however priorities changed while they waited.
HighestFirst ==
    [][\A h \in Handle :
        StatusOf(h) = "QUEUED" /\ request'[h].mStatus = "INPROGRESS" =>
            \A g \in Handle \ {h} :
                StatusOf(g) = "QUEUED" => HigherPriority(Key(h), Key(g))]_vars

\* deleteRequest asserts that a request in progress is not freed.
NoneFreedInProgress ==
    [][\A h \in Handle :
        StatusOf(h) = "INPROGRESS" => request'[h].mStatus # "DELETE"]_vars

\* No wakeup is lost: a queued request is finished, or freed by shutdown.
EventuallyFinished ==
    \A h \in Handle : StatusOf(h) = "QUEUED" ~>
        StatusOf(h) \in {"COMPLETE", "ABORTED", "DELETE"}

\* waitForResult returns, unless the request it waits for was aborted.
WaitEnds ==
    \A h \in Handle :
        (main = "look" /\ call.op = "waitForResult" /\ call.handle = h)
            ~> (main = "free" \/ StatusOf(h) = "ABORTED")

\* shutdown returns: a thread told to quit wakes up and stops.
ShutdownEnds == (main = "quitting") ~> (main = "gone")
=============================================================================
