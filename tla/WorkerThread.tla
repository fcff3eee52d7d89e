---------------------------- MODULE WorkerThread ----------------------------
(***************************************************************************)
(* LLWorkerThread and LLWorkerClass (llcommon/llworkerthread.cpp) on top   *)
(* of LLQueuedThread: a worker object gives the thread one piece of work   *)
(* at a time, and is deleted by update once scheduleDelete was called and  *)
(* its work is finished or aborted.                                        *)
(*                                                                         *)
(* mWorkFlags is read and then written by setFlags; the main thread does   *)
(* so with the object's mMutex locked, finishRequest on the worker thread  *)
(* does so with lockData locked, and neither has the other's lock.         *)
(***************************************************************************)
EXTENDS Integers, FiniteSets

CONSTANTS
    Object,         \* the objects of class LLWorkerClass
    MaxRequests,    \* bound: requests made over the thread's life
    Hasty           \* those whose owner may call scheduleDelete before the work
                    \* was checked

ASSUME WorkerThreadAssumption == MaxRequests \in Nat /\ Hasty \subseteq Object

Normal == 1     \* PRIORITY_NORMAL
Immediate == 2  \* PRIORITY_IMMEDIATE

VARIABLES
    mStatus, mPaused, mIdleThread, mRequestQueue, mRequestHash, mNextHandle,
    request, worker, held, main, call, finished,    \* of the queued thread
    mWorkerClass,   \* handle -> the object a request was made for
    mWorkFlags,     \* object -> its flags, without the prefix WCF_
    mRequestHandle, \* object -> its request, or none
    mDeleteList,    \* the objects scheduled for deletion
    deleted,        \* the objects deleted
    work,           \* how far processRequest is, or finishRequest
    seen,           \* flags that finishRequest has read and not written back
    job             \* the operation of the main thread that is under way

queueVars == <<mStatus, mPaused, mIdleThread, mRequestQueue, mRequestHash,
               mNextHandle, request, worker, held, main, call, finished>>
objectVars == <<mWorkFlags, mRequestHandle, mDeleteList, deleted>>
vars == <<queueVars, mWorkerClass, objectVars, work, seen, job>>

Queue == INSTANCE QueuedThread WITH
    Priorities <- {Normal, Immediate}, NewFlags <- {{}}, LateFlags <- {{"ABORT"}},
    Pausing <- FALSE, GivesUp <- FALSE
-----------------------------------------------------------------------------
Flag == {"HAVE_WORK", "WORKING", "WORK_FINISHED", "WORK_ABORTED",
         "DELETE_REQUESTED", "ABORT_REQUESTED"}

\* begin: setWorking(true) is next; doing: in doWork; done: after
\* setWorking(false); finish: finishRequest has read the flags.
Work == {"begin", "doing", "done", "finish"}

\* none, or an operation and where it is.  adding: addWork called addRequest;
\* found: checkWork has the request; ended: checkWork called endWork; aborting,
\* raising, flagging: abortWork before its three calls; setting: setFlags has
\* read `flags' and will add `flag'; deleting: update found the work finished.
Operation == {"none", "adding", "found", "ended", "aborting", "raising",
              "flagging", "setting", "deleting"}

NoJob == [op |-> "none"]
Doing(op, w) == [op |-> op, object |-> w]
Setting(w, flag) == [op |-> "setting", object |-> w, flag |-> flag,
                     flags |-> mWorkFlags[w]]
Nobody == "nobody"

HasRequest(w) == mRequestHandle[w] # Queue!nullHandle
Request(w) == mRequestHandle[w]
Present(w) == w \notin deleted /\ w \notin mDeleteList

Init ==
    /\ Queue!Init
    /\ mWorkerClass = [h \in Queue!Handle |-> Nobody]
    /\ mWorkFlags = [w \in Object |-> {}]
    /\ mRequestHandle = [w \in Object |-> Queue!nullHandle]
    /\ mDeleteList = {}
    /\ deleted = {}
    /\ work = "begin"
    /\ seen = {}
    /\ job = NoJob
-----------------------------------------------------------------------------
(* Main thread *)

Free == job = NoJob /\ main = "free"

\* addWork, of an object without work.  Nobody else touches its flags then.
AddWork(w) ==
    /\ Free
    /\ Present(w)
    /\ "HAVE_WORK" \notin mWorkFlags[w]
    /\ mWorkFlags' = [mWorkFlags EXCEPT ![w] =
            (@ \ {"WORK_FINISHED", "WORK_ABORTED"}) \cup {"HAVE_WORK"}]
    /\ Queue!AddRequest(Normal, {})
    /\ mRequestHandle' = [mRequestHandle EXCEPT ![w] = mNextHandle]
    /\ mWorkerClass' = [mWorkerClass EXCEPT ![mNextHandle] = w]
    /\ job' = Doing("adding", w)
    /\ UNCHANGED <<mDeleteList, deleted, work, seen>>

AddWorkDone ==
    /\ job.op = "adding"
    /\ Queue!IncQueue
    /\ job' = NoJob
    /\ UNCHANGED <<mWorkerClass, objectVars, work, seen>>

\* checkWork: getRequest, then the status, read without lockData.
CheckWork(w) ==
    /\ Free
    /\ Present(w)
    /\ HasRequest(w)
    /\ Queue!Unlocked
    /\ job' = Doing("found", w)
    /\ UNCHANGED <<queueVars, mWorkerClass, objectVars, work, seen>>

CheckStatus ==
    /\ job.op = "found"
    /\ job' = IF request[Request(job.object)].mStatus \in {"ABORTED", "COMPLETE"}
              THEN Doing("ended", job.object) ELSE NoJob
    /\ UNCHANGED <<queueVars, mWorkerClass, objectVars, work, seen>>

\* Fault: WCF_HAVE_WORK is not cleared.
DropButHaveWork(w) ==
    /\ Queue!CompleteRequest(Request(w))
    /\ mRequestHandle' = [mRequestHandle EXCEPT ![w] = Queue!nullHandle]
    /\ UNCHANGED mWorkFlags

\* completeRequest, and the object has no work.
DropRequest(w) ==
    /\ Queue!CompleteRequest(Request(w))
    /\ mRequestHandle' = [mRequestHandle EXCEPT ![w] = Queue!nullHandle]
    /\ mWorkFlags' = [mWorkFlags EXCEPT ![w] = @ \ {"HAVE_WORK"}]

EndWork ==
    /\ job.op = "ended"
    /\ DropRequest(job.object)
    /\ job' = NoJob
    /\ UNCHANGED <<mWorkerClass, mDeleteList, deleted, work, seen>>

\* scheduleDelete.  Owners give an object work as soon as they make it, and
\* delete it when checkWork says it is done or, early, when they lose interest.
ScheduleDelete(w) ==
    /\ Free
    /\ Present(w)
    /\ HasRequest(w) => w \in Hasty
    /\ \E h \in Queue!Handle : mWorkerClass[h] = w
    /\ "DELETE_REQUESTED" \notin mWorkFlags[w]
    /\ job' = Setting(w, "DELETE_REQUESTED")
    /\ UNCHANGED <<queueVars, mWorkerClass, objectVars, work, seen>>

\* Fault: setFlags writes back what it read.
WithoutFlag == job.flags

\* Fault: setFlags assigns the flag instead of adding it.
FlagAlone == {job.flag}

WithFlag == job.flags \cup {job.flag}

\* setFlags writes; then scheduleDelete calls deleteWorker.
WriteFlags ==
    /\ job.op = "setting"
    /\ mWorkFlags' = [mWorkFlags EXCEPT ![job.object] = WithFlag]
    /\ mDeleteList' = IF job.flag = "DELETE_REQUESTED"
                      THEN mDeleteList \cup {job.object} ELSE mDeleteList
    /\ job' = NoJob
    /\ UNCHANGED <<queueVars, mWorkerClass, mRequestHandle, deleted, work, seen>>

\* LLQueuedThread::update, then the list of objects to delete, one at a time:
\* finished ones are deleted, the others aborted once.
UpdateQueue ==
    /\ job = NoJob
    /\ Queue!UpdateQueue \/ Queue!Wake
    /\ UNCHANGED <<mWorkerClass, objectVars, work, seen, job>>

\* Fault: update deletes an object that was aborted, finished or not.
AbortedOrFinished(w) ==
    mWorkFlags[w] \cap {"WORK_FINISHED", "ABORT_REQUESTED"} # {}

MayDelete(w) == "WORK_FINISHED" \in mWorkFlags[w]

UpdateDelete(w) ==
    /\ Free
    /\ w \in mDeleteList
    /\ MayDelete(w)
    /\ mDeleteList' = mDeleteList \ {w}
    /\ job' = Doing("deleting", w)
    /\ UNCHANGED <<queueVars, mWorkerClass, mWorkFlags, mRequestHandle, deleted,
                   work, seen>>

UpdateAbort(w) ==
    /\ Free
    /\ w \in mDeleteList
    /\ ~MayDelete(w)
    /\ "ABORT_REQUESTED" \notin mWorkFlags[w]
    /\ HasRequest(w)
    /\ job' = Doing("aborting", w)
    /\ UNCHANGED <<queueVars, mWorkerClass, objectVars, work, seen>>

\* abortWork(false): abortRequest, setPriority, setFlags
AbortRequest ==
    /\ job.op = "aborting"
    /\ Queue!SetFlags(Request(job.object), {"ABORT"})
    /\ job' = Doing("raising", job.object)
    /\ UNCHANGED <<mWorkerClass, objectVars, work, seen>>

RaisePriority ==
    /\ job.op = "raising"
    /\ Queue!Unlocked
    /\ \/ Queue!SetPriority(Request(job.object), Immediate)
       \/ /\ request[Request(job.object)].mStatus \notin {"QUEUED", "INPROGRESS"}
          /\ UNCHANGED queueVars
    /\ job' = Doing("flagging", job.object)
    /\ UNCHANGED <<mWorkerClass, objectVars, work, seen>>

ReadFlags ==
    /\ job.op = "flagging"
    /\ job' = Setting(job.object, "ABORT_REQUESTED")
    /\ UNCHANGED <<queueVars, mWorkerClass, objectVars, work, seen>>

\* "Finished but not completed" objects are completed first.
Delete ==
    /\ job.op = "deleting"
    /\ IF HasRequest(job.object) THEN DropRequest(job.object)
       ELSE UNCHANGED <<queueVars, mRequestHandle, mWorkFlags>>
    /\ deleted' = deleted \cup {job.object}
    /\ job' = NoJob
    /\ UNCHANGED <<mWorkerClass, mDeleteList, work, seen>>
-----------------------------------------------------------------------------
(* Worker thread *)

\* The steps of LLQueuedThread that call nothing of a WorkRequest.
RunQueue ==
    /\ \/ Queue!StaticRun \/ Queue!CheckPause \/ Queue!Run
       \/ Queue!TakeNone \/ Queue!Count \/ Queue!Idle
       \/ \E k \in mRequestQueue : Queue!TakeAborted(k) \/ Queue!TakeRequest(k)
    /\ UNCHANGED <<mWorkerClass, objectVars, work, seen, job>>

SpuriousWakeup ==
    /\ Queue!SpuriousWakeup
    /\ UNCHANGED <<mWorkerClass, objectVars, work, seen, job>>

\* Fault: setWorking does without mMutex.
NotMutexed(w) == FALSE

\* mMutex of an object: addWork, abortWork, checkWork and scheduleDelete hold it
\* from begin to end, and setWorking needs it.
Mutexed(w) == job.op \notin {"none", "deleting"} /\ job.object = w

\* setWorking(true), doWork, setWorking(false)
SetWorking(from, to, flags) ==
    /\ worker = "processing"
    /\ work = from
    /\ ~Mutexed(mWorkerClass[held])
    /\ mWorkFlags' = [mWorkFlags EXCEPT ![mWorkerClass[held]] = flags]
    /\ work' = to
    /\ UNCHANGED <<queueVars, mWorkerClass, mRequestHandle, mDeleteList, deleted,
                   seen, job>>

BeginWork == SetWorking("begin", "doing", mWorkFlags[mWorkerClass[held]] \cup {"WORKING"})
DoneWork == SetWorking("doing", "done", mWorkFlags[mWorkerClass[held]] \ {"WORKING"})

ProcessRequest ==
    /\ work = "done"
    /\ Queue!Complete \/ Queue!Requeue
    /\ work' = "begin"
    /\ UNCHANGED <<mWorkerClass, objectVars, seen, job>>

\* finishRequest: finishWork, and setFlags reads and later writes.
FinishRequest ==
    /\ worker \in {"aborting", "finishing"}
    /\ work = "begin"
    /\ seen' = mWorkFlags[mWorkerClass[held]]
    /\ work' = "finish"
    /\ UNCHANGED <<queueVars, mWorkerClass, objectVars, job>>

FinishFlags ==
    seen \cup {"WORK_FINISHED"} \cup (IF worker = "aborting" THEN {"WORK_ABORTED"} ELSE {})

FinishDone ==
    /\ work = "finish"
    /\ Queue!FinishAborted \/ Queue!FinishComplete
    /\ mWorkFlags' = [mWorkFlags EXCEPT ![mWorkerClass[held]] = FinishFlags]
    /\ seen' = {}
    /\ work' = "begin"
    /\ UNCHANGED <<mWorkerClass, mRequestHandle, mDeleteList, deleted, job>>
-----------------------------------------------------------------------------
MainContinues ==
    \/ AddWorkDone \/ CheckStatus \/ EndWork \/ WriteFlags
    \/ AbortRequest \/ RaisePriority \/ ReadFlags \/ Delete
    \/ job = NoJob /\ Queue!Wake /\ UNCHANGED <<mWorkerClass, objectVars, work, seen, job>>

MainThread ==
    \/ UpdateQueue
    \/ \E w \in Object : \/ AddWork(w) \/ CheckWork(w) \/ ScheduleDelete(w)
                         \/ UpdateDelete(w) \/ UpdateAbort(w)
    \/ MainContinues

Thread == RunQueue \/ BeginWork \/ DoneWork \/ ProcessRequest \/ FinishRequest \/ FinishDone

Next == MainThread \/ Thread \/ SpuriousWakeup

Spec == Init /\ [][Next]_vars

\* Both threads run, the main loop comes back to update and its list, and no
\* work asks for ever to be continued.
FairSpec ==
    /\ Spec
    /\ WF_vars(MainContinues)
    /\ WF_vars(Thread)
    /\ SF_vars(UpdateQueue)
    /\ \A w \in Object : SF_vars(UpdateDelete(w)) /\ SF_vars(UpdateAbort(w))
    /\ \A h \in Queue!Handle : SF_vars(held = h /\ worker' = "finishing" /\ ProcessRequest)
-----------------------------------------------------------------------------
(* Properties *)

\* WCF_WORKING is set exactly while the thread is in doWork of the object, as
\* both assertions of setWorking say, although the other flags of the word are
\* written by the main thread.
WorkingMeansInWork ==
    \A w \in Object :
        "WORKING" \in mWorkFlags[w] <=>
            worker = "processing" /\ work = "doing" /\ mWorkerClass[held] = w

\* An object's handle finds its own request, and only an object with a handle
\* says it has work: the checks that addWork, checkWork and the destructor make
\* ("stale work handle", "add work with active worker") never fail.
HandleFindsRequest ==
    \A w \in Object :
        /\ HasRequest(w) => /\ Request(w) \in mRequestHash
                           /\ mWorkerClass[Request(w)] = w
        /\ HasRequest(w) <=> "HAVE_WORK" \in mWorkFlags[w]

\* Work is ended, and an object deleted, only when its request is done: the
\* assertions of completeRequest and of the destructor ("destroyed with active
\* worker") hold, although checkWork read the status and update read the flags
\* without lockData, and no request of a deleted object is left to run.
EndedWhenDone ==
    /\ job.op \in {"ended", "deleting"} /\ HasRequest(job.object) =>
            request[Request(job.object)].mStatus \in {"COMPLETE", "ABORTED"}
    /\ \A h \in mRequestHash : mWorkerClass[h] \notin deleted

\* The destructor asserts that deletion was requested.
DeletedOnRequest ==
    \A w \in deleted : "DELETE_REQUESTED" \in mWorkFlags[w]

\* It was, of the objects whose owner waits for their work: no flag that the
\* main thread sets is lost to the one that finishRequest writes.
PatientDeletedOnRequest ==
    \A w \in deleted \ Hasty : "DELETE_REQUESTED" \in mWorkFlags[w]

\* scheduleDelete "schedules deletion once aborted or completed": it comes, if
\* the owner waited.
EventuallyDeleted ==
    \A w \in Object \ Hasty : w \in mDeleteList ~> w \in deleted
=============================================================================
