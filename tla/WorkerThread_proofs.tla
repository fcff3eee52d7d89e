------------------------- MODULE WorkerThread_proofs -------------------------
(***************************************************************************)
(* Proofs about WorkerThread, for any objects, any of them hasty, and any  *)
(* number of requests: the assertions on a worker object's flags and       *)
(* handle hold.                                                            *)
(*                                                                         *)
(* The invariant joins the one of QueuedThread_proofs to a part for each   *)
(* of the three that read and write an object: the lists and handles       *)
(* (ObjectsOK), the worker thread (WorkOK), and the operation of the main  *)
(* thread that is under way (JobOK).  Flags written back from an old       *)
(* reading (job.flags, seen) may have lost others, but never those that    *)
(* say that there is work and that it is being done; and work that is      *)
(* finished is of a request that stays complete or aborted until it is     *)
(* dropped.                                                                *)
(***************************************************************************)
EXTENDS WorkerThread, TLAPS

QP == INSTANCE QueuedThread_proofs WITH
    Priorities <- {Normal, Immediate}, NewFlags <- {{}}, LateFlags <- {{"ABORT"}},
    Pausing <- FALSE, GivesUp <- FALSE

Done(h) == request[h].mStatus \in {"COMPLETE", "ABORTED"}

\* The main thread's part of the queued thread: requests are added and updates
\* made, and nothing else of more than one step.
MainOK ==
    /\ main \in {"free", "queued", "unpaused"}
    /\ main = "queued" <=> job.op = "adding"
    /\ main = "unpaused" => call.op = "update"

\* No request is made or becomes one that completes by itself.
NoneAutomatic == \A h \in 1 .. MaxRequests : "AUTO_COMPLETE" \notin request[h].mFlags

ObjectsOK ==
    /\ mWorkFlags \in [Object -> SUBSET Flag]
    /\ mRequestHandle \in [Object -> 0 .. MaxRequests]
    /\ mWorkerClass = [h \in 1 .. MaxRequests |-> mWorkerClass[h]]
    /\ mDeleteList \subseteq Object /\ deleted \subseteq Object
    /\ mDeleteList \cap deleted = {}
    /\ \A h \in mRequestHash :
            mWorkerClass[h] \in Object /\ mRequestHandle[mWorkerClass[h]] = h
    /\ HandleFindsRequest
    /\ \A w \in deleted : ~HasRequest(w)
    /\ \A w \in Object :
            "WORK_FINISHED" \in mWorkFlags[w] /\ HasRequest(w) => Done(Request(w))

WorkOK ==
    /\ work \in Work
    /\ work \in {"doing", "done"} => worker = "processing"
    /\ work = "finish" => /\ worker \in {"aborting", "finishing"}
                          /\ seen \subseteq Flag
                          /\ "HAVE_WORK" \in seen /\ "WORKING" \notin seen
    /\ WorkingMeansInWork

\* What an operation knows about its object from the step before.
JobOK ==
    \/ job = NoJob
    \/ \E w \in Object :
        /\ w \notin deleted
        /\ \/ job = Doing("adding", w)
           \/ /\ \E op \in {"found", "aborting", "raising", "flagging"} : job = Doing(op, w)
              /\ HasRequest(w)
           \/ job = Doing("ended", w) /\ HasRequest(w) /\ Done(Request(w))
           \/ /\ job = Doing("deleting", w) /\ w \notin mDeleteList
              /\ HasRequest(w) => Done(Request(w))
           \/ \E flag \in {"DELETE_REQUESTED", "ABORT_REQUESTED"}, flags \in SUBSET Flag :
                /\ job = [op |-> "setting", object |-> w, flag |-> flag, flags |-> flags]
                /\ "HAVE_WORK" \in flags <=> HasRequest(w)
                /\ "WORKING" \in flags <=> "WORKING" \in mWorkFlags[w]
                /\ "WORK_FINISHED" \in flags /\ HasRequest(w) => Done(Request(w))

WInv == MainOK /\ NoneAutomatic /\ ObjectsOK /\ WorkOK /\ JobOK
IInv == QP!Inv /\ WInv
-----------------------------------------------------------------------------
(* The queue                                                               *)

LEMMA QueueAssumption == QP!QueuedThreadAssumption
  BY WorkerThreadAssumption DEF QP!QueuedThreadAssumption, Normal, Immediate, QP!Flag

\* What the invariant of the queue says in the terms of this module.
LEMMA QueueFacts ==
    ASSUME IInv
    PROVE  /\ mRequestHash \subseteq 1 .. MaxRequests /\ MaxRequests \in Nat
           /\ mNextHandle \in Nat \ {0} /\ mNextHandle \notin mRequestHash
           /\ \A h \in mRequestHash : h < mNextHandle
           /\ worker \in {"processing", "aborting", "finishing"} => held \in mRequestHash
           /\ worker = "processing" => request[held].mStatus = "INPROGRESS"
           /\ worker \in {"aborting", "finishing"} => Done(held)
           /\ request \in [1 .. MaxRequests -> QP!QueuedRequest]
           /\ main # "gone"
  <1> USE DEF QP!Handle, QP!nullHandle, QP!StatusOf
  <1>1. main # "gone"  BY DEF IInv, WInv, MainOK
  <1>2. /\ mRequestHash \subseteq 1 .. MaxRequests /\ MaxRequests \in Nat
        /\ mNextHandle \in 1 .. MaxRequests + 1 /\ held \in (1 .. MaxRequests) \cup {0}
        /\ request \in [1 .. MaxRequests -> QP!QueuedRequest]
    BY WorkerThreadAssumption DEF IInv, QP!Inv, QP!TypeOK
  <1>3. \A h \in 1 .. MaxRequests :
            /\ h \in mRequestHash <=> request[h].mStatus \notin {"UNKNOWN", "DELETE"}
            /\ request[h].mStatus = "UNKNOWN" <=> h >= mNextHandle
            /\ request[h].mStatus = "INPROGRESS" <=> worker = "processing" /\ held = h
    BY <1>1 DEF IInv, QP!Inv, QP!Ledger, QP!HashAgrees, QP!CreatedInOrder, QP!OnlyWorkerProcesses
  <1>4. /\ (held # 0) <=> worker \in {"processing", "aborting", "finishing"}
        /\ worker = "aborting" => request[held].mStatus = "ABORTED"
        /\ worker = "finishing" => request[held].mStatus = "COMPLETE"
    BY <1>1 DEF IInv, QP!Inv, QP!Ledger, QP!HeldByWorker
  <1> QED  BY <1>1, <1>2, <1>3, <1>4 DEF Done

LEMMA InitIInv == Init => IInv
  <1> SUFFICES ASSUME Init  PROVE IInv
    OBVIOUS
  <1>1. QP!Init
    BY DEF Init, Queue!Init, QP!Init, Queue!Handle, QP!Handle, Queue!Calling, QP!Calling,
       Queue!nullHandle, QP!nullHandle
  <1>2. QP!Inv
    BY <1>1, QueueAssumption, QP!InitType, QP!InitLedger, QP!InitStopsOnce DEF QP!Inv
  <1>3. MainOK /\ NoneAutomatic
    BY DEF Init, Queue!Init, Queue!Handle, Queue!Calling, MainOK, NoneAutomatic, NoJob
  <1>4. ObjectsOK
    BY WorkerThreadAssumption DEF Init, Queue!Init, Queue!Handle, Queue!nullHandle, ObjectsOK,
       HandleFindsRequest, HasRequest
  <1>5. WorkOK /\ JobOK
    BY DEF Init, Queue!Init, WorkOK, JobOK, Work, WorkingMeansInWork
  <1> QED  BY <1>2, <1>3, <1>4, <1>5 DEF IInv, WInv

\* An object's request is in the hash.
LEMMA RequestFacts ==
    ASSUME IInv, NEW w \in Object, HasRequest(w)
    PROVE  /\ Request(w) \in mRequestHash /\ Request(w) \in 1 .. MaxRequests
           /\ mWorkerClass[Request(w)] = w /\ "HAVE_WORK" \in mWorkFlags[w]
           /\ Request(w) \in Queue!Asked
  <1>1. /\ Request(w) \in mRequestHash /\ mWorkerClass[Request(w)] = w
        /\ "HAVE_WORK" \in mWorkFlags[w]
    BY DEF IInv, WInv, ObjectsOK, HandleFindsRequest
  <1> QED  BY <1>1, QueueFacts DEF Queue!Asked

LEMMA HeldFacts ==
    ASSUME IInv, worker \in {"processing", "aborting", "finishing"}
    PROVE  /\ held \in mRequestHash /\ held \in 1 .. MaxRequests
           /\ mWorkerClass[held] \in Object
           /\ HasRequest(mWorkerClass[held]) /\ Request(mWorkerClass[held]) = held
  <1>1. held \in mRequestHash /\ held \in 1 .. MaxRequests  BY QueueFacts
  <1>2. mWorkerClass[held] \in Object /\ mRequestHandle[mWorkerClass[held]] = held
    BY <1>1 DEF IInv, WInv, ObjectsOK
  <1> QED  BY <1>1, <1>2 DEF HasRequest, Request, Queue!nullHandle
-----------------------------------------------------------------------------
(* What a step leaves as it was                                            *)

\* Requests that are done stay so, and none is added or goes.
DoneStays ==
    /\ mRequestHash' = mRequestHash
    /\ \A h \in mRequestHash : Done(h) => Done(h)'

LEMMA ObjectsKept ==
    ASSUME IInv, DoneStays, UNCHANGED <<mWorkerClass, mRequestHandle, deleted>>,
           mDeleteList' \subseteq Object, mDeleteList' \cap deleted = {},
           mWorkFlags' \in [Object -> SUBSET Flag],
           \A w \in Object :
                /\ "HAVE_WORK" \in mWorkFlags'[w] <=> "HAVE_WORK" \in mWorkFlags[w]
                /\ "WORK_FINISHED" \in mWorkFlags'[w] /\ HasRequest(w) =>
                        Done(Request(w)) \/ "WORK_FINISHED" \in mWorkFlags[w]
    PROVE  ObjectsOK'
  <1>1. \A w \in Object : HasRequest(w)' <=> HasRequest(w)  BY DEF HasRequest
  <1>2. \A w \in Object : HasRequest(w) /\ Done(Request(w)) => Done(Request(w))'
    BY RequestFacts DEF DoneStays, Done, Request
  <1>3. HandleFindsRequest'
    <2> SUFFICES ASSUME NEW w \in Object
                 PROVE  /\ HasRequest(w)' => /\ Request(w)' \in mRequestHash'
                                             /\ mWorkerClass'[Request(w)'] = w
                        /\ HasRequest(w)' <=> "HAVE_WORK" \in mWorkFlags'[w]
      BY DEF HandleFindsRequest
    <2>1. /\ HasRequest(w) => Request(w) \in mRequestHash /\ mWorkerClass[Request(w)] = w
          /\ HasRequest(w) <=> "HAVE_WORK" \in mWorkFlags[w]
      BY DEF IInv, WInv, ObjectsOK, HandleFindsRequest
    <2> QED  BY <1>1, <2>1 DEF DoneStays, Request
  <1>4. \A w \in Object : "WORK_FINISHED" \in mWorkFlags'[w] /\ HasRequest(w)' => Done(Request(w))'
    BY <1>1, <1>2 DEF IInv, WInv, ObjectsOK
  <1>5. /\ mRequestHandle' \in [Object -> 0 .. MaxRequests]
        /\ mWorkerClass' = [h \in 1 .. MaxRequests |-> mWorkerClass'[h]]
        /\ deleted' \subseteq Object /\ mDeleteList' \cap deleted' = {}
        /\ \A h \in mRequestHash' :
                mWorkerClass'[h] \in Object /\ mRequestHandle'[mWorkerClass'[h]] = h
        /\ \A w \in deleted' : ~HasRequest(w)'
    BY <1>1 DEF IInv, WInv, ObjectsOK, DoneStays
  <1> QED  BY <1>3, <1>4, <1>5 DEF ObjectsOK

\* The worker is where it was, as far as an object can tell.
WorkerStays ==
    /\ held' = held
    /\ worker' = worker \/ (worker = "asleep" /\ worker' = "checkPause")

LEMMA WorkKept ==
    ASSUME IInv, WorkerStays, UNCHANGED <<work, seen>>,
           worker \in {"processing", "aborting", "finishing"} =>
                mWorkerClass'[held] = mWorkerClass[held],
           \A w \in Object : "WORKING" \in mWorkFlags'[w] <=> "WORKING" \in mWorkFlags[w]
    PROVE  WorkOK'
  BY DEF IInv, WInv, WorkOK, WorkerStays, WorkingMeansInWork

LEMMA JobKept ==
    ASSUME IInv, DoneStays, UNCHANGED <<job, mRequestHandle, deleted, mDeleteList>>,
           \A w \in Object : job.op = "setting" /\ job.object = w =>
                ("WORKING" \in mWorkFlags'[w] <=> "WORKING" \in mWorkFlags[w])
    PROVE  JobOK'
  <1>1. CASE job = NoJob  BY <1>1 DEF JobOK, NoJob
  <1>2. CASE job # NoJob
    <2>1. PICK w \in Object :
        /\ w \notin deleted
        /\ \/ job = Doing("adding", w)
           \/ /\ \E op \in {"found", "aborting", "raising", "flagging"} : job = Doing(op, w)
              /\ HasRequest(w)
           \/ job = Doing("ended", w) /\ HasRequest(w) /\ Done(Request(w))
           \/ /\ job = Doing("deleting", w) /\ w \notin mDeleteList
              /\ HasRequest(w) => Done(Request(w))
           \/ \E flag \in {"DELETE_REQUESTED", "ABORT_REQUESTED"}, flags \in SUBSET Flag :
                /\ job = [op |-> "setting", object |-> w, flag |-> flag, flags |-> flags]
                /\ "HAVE_WORK" \in flags <=> HasRequest(w)
                /\ "WORKING" \in flags <=> "WORKING" \in mWorkFlags[w]
                /\ "WORK_FINISHED" \in flags /\ HasRequest(w) => Done(Request(w))
      BY <1>2 DEF IInv, WInv, JobOK
    <2>2. HasRequest(w)' <=> HasRequest(w)  BY DEF HasRequest
    <2>3. HasRequest(w) /\ Done(Request(w)) => Done(Request(w))'
      BY RequestFacts DEF DoneStays, Done, Request
    <2>4. w \notin deleted' /\ job' = job /\ mDeleteList' = mDeleteList  BY <2>1
    <2>5. CASE job = Doing("adding", w)
      BY <2>1, <2>4, <2>5 DEF JobOK, Doing
    <2>6. CASE /\ \E op \in {"found", "aborting", "raising", "flagging"} : job = Doing(op, w)
               /\ HasRequest(w)
      BY <2>1, <2>2, <2>4, <2>6 DEF JobOK, Doing
    <2>7. CASE job = Doing("ended", w) /\ HasRequest(w) /\ Done(Request(w))
      BY <2>1, <2>2, <2>3, <2>4, <2>7 DEF JobOK, Doing
    <2>8. CASE /\ job = Doing("deleting", w) /\ w \notin mDeleteList
               /\ HasRequest(w) => Done(Request(w))
      BY <2>1, <2>2, <2>3, <2>4, <2>8 DEF JobOK, Doing
    <2>9. ASSUME NEW flag \in {"DELETE_REQUESTED", "ABORT_REQUESTED"}, NEW flags \in SUBSET Flag,
                 job = [op |-> "setting", object |-> w, flag |-> flag, flags |-> flags],
                 "HAVE_WORK" \in flags <=> HasRequest(w),
                 "WORKING" \in flags <=> "WORKING" \in mWorkFlags[w],
                 "WORK_FINISHED" \in flags /\ HasRequest(w) => Done(Request(w))
          PROVE  JobOK'
      <3>1. "WORKING" \in mWorkFlags'[w] <=> "WORKING" \in mWorkFlags[w]  BY <2>9
      <3> QED  BY <2>1, <2>2, <2>3, <2>4, <2>9, <3>1 DEF JobOK
    <2> QED  BY <2>1, <2>5, <2>6, <2>7, <2>8, <2>9
  <1> QED  BY <1>1, <1>2
-----------------------------------------------------------------------------
(* What the steps of the queue do to requests and the worker               *)

\* Of the steps of the main thread, those that neither add nor drop a request.
Gentle ==
    /\ mRequestHash' = mRequestHash
    /\ \A h \in 1 .. MaxRequests :
        /\ request'[h].mStatus = request[h].mStatus
        /\ "AUTO_COMPLETE" \notin request'[h].mFlags
    /\ WorkerStays

LEMMA GentleSteps ==
    ASSUME IInv,
           \/ Queue!IncQueue \/ Queue!UpdateQueue \/ Queue!Wake \/ UNCHANGED queueVars
           \/ \E h \in 1 .. MaxRequests :
                Queue!SetFlags(h, {"ABORT"}) \/ Queue!SetPriority(h, Immediate)
    PROVE  Gentle
  <1>1. NoneAutomatic  BY DEF IInv, WInv
  <1>2. CASE UNCHANGED queueVars
    BY <1>1, <1>2 DEF queueVars, Gentle, WorkerStays, NoneAutomatic
  <1>3. CASE Queue!IncQueue \/ Queue!UpdateQueue \/ Queue!Wake
    BY <1>1, <1>3 DEF Queue!IncQueue, Queue!UpdateQueue, Queue!Wake, Queue!Update,
       Queue!requestVars, Queue!threadVars, Queue!Woken, Gentle, WorkerStays, NoneAutomatic
  <1>4. ASSUME NEW h \in 1 .. MaxRequests,
               Queue!SetFlags(h, {"ABORT"}) \/ Queue!SetPriority(h, Immediate)
        PROVE  Gentle
    <2>1. request \in [1 .. MaxRequests -> QP!QueuedRequest]  BY QueueFacts
    <2>2. UNCHANGED <<mRequestHash, worker, held>>
      BY <1>4 DEF Queue!SetFlags, Queue!SetPriority
    <2>3. \A g \in 1 .. MaxRequests :
            /\ request'[g].mStatus = request[g].mStatus
            /\ "AUTO_COMPLETE" \notin request'[g].mFlags
      <3>1. CASE Queue!SetFlags(h, {"ABORT"})
        <4>1. request' = [request EXCEPT ![h].mFlags = @ \cup {"ABORT"}]
          BY <3>1 DEF Queue!SetFlags
        <4> QED  BY <1>1, <2>1, <4>1 DEF QP!QueuedRequest, NoneAutomatic
      <3>2. CASE Queue!SetPriority(h, Immediate)
        <4>1. request' = [request EXCEPT ![h].mPriority = Immediate]
          BY <3>2 DEF Queue!SetPriority
        <4> QED  BY <1>1, <2>1, <4>1 DEF QP!QueuedRequest, NoneAutomatic
      <3> QED  BY <1>4, <3>1, <3>2
    <2> QED  BY <2>2, <2>3 DEF Gentle, WorkerStays
  <1> QED  BY <1>2, <1>3, <1>4

LEMMA GentleKeeps ==
    ASSUME IInv, Gentle, UNCHANGED <<mWorkerClass, mWorkFlags, mRequestHandle, deleted, work, seen>>,
           mDeleteList' \subseteq Object, mDeleteList' \cap deleted = {}
    PROVE  DoneStays /\ NoneAutomatic' /\ ObjectsOK' /\ WorkOK'
  <1>1. DoneStays  BY QueueFacts DEF Gentle, DoneStays, Done
  <1>2. NoneAutomatic'  BY DEF Gentle, NoneAutomatic
  <1>3. mWorkFlags \in [Object -> SUBSET Flag]  BY DEF IInv, WInv, ObjectsOK
  <1>4. ObjectsOK'  BY <1>1, <1>3, ObjectsKept
  <1>5. WorkOK'  BY WorkKept DEF Gentle
  <1> QED  BY <1>1, <1>2, <1>4, <1>5

\* Of the steps of the worker thread: none changes what is done.
LEMMA WorkerSteps ==
    ASSUME IInv,
           \/ Queue!StaticRun \/ Queue!CheckPause \/ Queue!Run \/ Queue!SpuriousWakeup
           \/ Queue!TakeNone \/ Queue!Count \/ Queue!Idle
           \/ \E k \in mRequestQueue : Queue!TakeAborted(k) \/ Queue!TakeRequest(k)
           \/ Queue!Complete \/ Queue!Requeue
           \/ Queue!FinishAborted \/ Queue!FinishComplete
    PROVE  DoneStays /\ NoneAutomatic' /\ UNCHANGED <<main, call>>
  <1>1. /\ request \in [1 .. MaxRequests -> QP!QueuedRequest]
        /\ mRequestHash \subseteq 1 .. MaxRequests
    BY QueueFacts
  <1>2. NoneAutomatic  BY DEF IInv, WInv
  <1>3. ASSUME UNCHANGED <<mRequestHash, request, main, call>>
        PROVE  DoneStays /\ NoneAutomatic' /\ UNCHANGED <<main, call>>
    BY <1>2, <1>3 DEF DoneStays, Done, NoneAutomatic
  <1>4. CASE \/ Queue!StaticRun \/ Queue!CheckPause \/ Queue!Run \/ Queue!SpuriousWakeup
             \/ Queue!TakeNone \/ Queue!Count \/ Queue!Idle
    <2>1. UNCHANGED <<mRequestHash, request, main, call>>
      BY <1>4 DEF Queue!StaticRun, Queue!CheckPause, Queue!Run, Queue!SpuriousWakeup,
         Queue!TakeNone, Queue!Count, Queue!Idle, Queue!requestVars
    <2> QED  BY <1>3, <2>1
  <1>5. ASSUME NEW h \in 1 .. MaxRequests, NEW status,
               request' = [request EXCEPT ![h].mStatus = status],
               Done(h) => status \in {"COMPLETE", "ABORTED"},
               UNCHANGED <<mRequestHash, main, call>>
        PROVE  DoneStays /\ NoneAutomatic' /\ UNCHANGED <<main, call>>
    BY <1>1, <1>2, <1>5 DEF DoneStays, Done, NoneAutomatic, QP!QueuedRequest
  <1>6. ASSUME NEW k \in mRequestQueue, Queue!TakeAborted(k) \/ Queue!TakeRequest(k)
        PROVE  DoneStays /\ NoneAutomatic' /\ UNCHANGED <<main, call>>
    <2>1. k \in Nat \X (1 .. MaxRequests) /\ request[k[2]].mStatus = "QUEUED"
      <3>1. k \in Nat \X (1 .. MaxRequests)
        BY DEF IInv, QP!Inv, QP!TypeOK, QP!Handle
      <3>2. k = <<k[1], k[2]>>  BY <3>1
      <3> QED  BY <3>1, <3>2, QueueFacts
            DEF IInv, QP!Inv, QP!Ledger, QP!QueueAgrees, QP!Handle, QP!StatusOf
    <2>2. PICK status : /\ request' = [request EXCEPT ![k[2]].mStatus = status]
                        /\ UNCHANGED <<mRequestHash, main, call>>
      BY <1>6 DEF Queue!TakeAborted, Queue!TakeRequest, Queue!Take
    <2>3. k[2] \in 1 .. MaxRequests /\ ~Done(k[2])  BY <2>1 DEF Done
    <2> QED  BY <1>5, <2>2, <2>3
  <1>7. CASE Queue!Complete \/ Queue!Requeue
    <2>1. worker = "processing"  BY <1>7 DEF Queue!Complete, Queue!Requeue
    <2>2. held \in 1 .. MaxRequests /\ ~Done(held)
      BY <2>1, QueueFacts, HeldFacts DEF Done
    <2>3. PICK status : /\ request' = [request EXCEPT ![held].mStatus = status]
                        /\ UNCHANGED <<mRequestHash, main, call>>
      BY <1>7 DEF Queue!Complete, Queue!Requeue
    <2> QED  BY <1>5, <2>2, <2>3
  <1>8. CASE Queue!FinishAborted \/ Queue!FinishComplete
    <2>1. worker \in {"aborting", "finishing"}
      BY <1>8 DEF Queue!FinishAborted, Queue!FinishComplete
    <2>2. "AUTO_COMPLETE" \notin request[held].mFlags
      BY <1>2, <2>1, HeldFacts DEF NoneAutomatic
    <2>3. UNCHANGED <<mRequestHash, request, main, call>>
      BY <1>8, <2>2 DEF Queue!FinishAborted, Queue!FinishComplete, Queue!Finish
    <2> QED  BY <1>3, <2>3
  <1> QED  BY <1>4, <1>6, <1>7, <1>8
-----------------------------------------------------------------------------
(* Every step is one of the queue                                          *)

\* The two instances of the queued thread are one.
LEMMA SameQueue == [Queue!Next]_(Queue!vars) => [QP!Next]_(QP!vars)
  BY DEF
     Queue!Next, QP!Next, Queue!MainThread, QP!MainThread, Queue!WorkerThread,
     QP!WorkerThread, Queue!SpuriousWakeup, QP!SpuriousWakeup, Queue!Terminated,
     QP!Terminated, Queue!MainContinues, QP!MainContinues, Queue!AddRequest,
     QP!AddRequest, Queue!IncQueue, QP!IncQueue, Queue!SetFlags, QP!SetFlags,
     Queue!Moved, QP!Moved, Queue!SetPriority, QP!SetPriority, Queue!Free,
     QP!Free, Queue!MayComplete, QP!MayComplete, Queue!CompleteRequest,
     QP!CompleteRequest, Queue!Pause, QP!Pause, Queue!Update, QP!Update,
     Queue!UpdateQueue, QP!UpdateQueue, Queue!WaitForResult, QP!WaitForResult,
     Queue!WaitOnPending, QP!WaitOnPending, Queue!Wake, QP!Wake,
     Queue!ResultFound, QP!ResultFound, Queue!ResultAwaited, QP!ResultAwaited,
     Queue!PendingDone, QP!PendingDone, Queue!PendingAwaited, QP!PendingAwaited,
     Queue!SetQuitting, QP!SetQuitting, Queue!QuitUnpause, QP!QuitUnpause,
     Queue!FreeAll, QP!FreeAll, Queue!StaticRun, QP!StaticRun, Queue!CheckPause,
     QP!CheckPause, Queue!Quit, QP!Quit, Queue!End, QP!End, Queue!Run, QP!Run,
     Queue!MustAbort, QP!MustAbort, Queue!TakeNone, QP!TakeNone, Queue!Take,
     QP!Take, Queue!TakeAborted, QP!TakeAborted, Queue!TakeRequest,
     QP!TakeRequest, Queue!Finish, QP!Finish, Queue!FinishAborted,
     QP!FinishAborted, Queue!Complete, QP!Complete, Queue!FinishComplete,
     QP!FinishComplete, Queue!Requeue, QP!Requeue, Queue!Count, QP!Count,
     Queue!Idle, QP!Idle, Queue!Asked, QP!Asked, Queue!Handle, QP!Handle,
     Queue!nullHandle, QP!nullHandle, Queue!Locked, QP!Locked, Queue!Calling,
     QP!Calling, Queue!StatusOf, QP!StatusOf, Queue!Key, QP!Key,
     Queue!HigherPriority, QP!HigherPriority, Queue!First, QP!First,
     Queue!isPaused, QP!isPaused, Queue!RunCondition, QP!RunCondition,
     Queue!ShouldSleep, QP!ShouldSleep, Queue!Woken, QP!Woken, Queue!Unlocked,
     QP!Unlocked, Queue!OnceMore, QP!OnceMore, Queue!threadVars, QP!threadVars,
     Queue!requestVars, QP!requestVars, Queue!vars, QP!vars

LEMMA QueueKept == QP!Inv /\ [Queue!Next]_(Queue!vars) => QP!Inv'
  <1> SUFFICES ASSUME QP!Inv, [Queue!Next]_(Queue!vars)  PROVE QP!Inv'
    OBVIOUS
  <1>1. [QP!Next]_(QP!vars)  BY SameQueue
  <1>2. QP!TypeOK /\ QP!Ledger /\ QP!StopsOnce /\ QP!HeldByWorker  BY DEF QP!Inv, QP!Ledger
  <1>3. QP!TypeOK'  BY <1>1, <1>2, QueueAssumption, QP!NextType
  <1>4. QP!Ledger'  BY <1>1, <1>2, QueueAssumption, QP!NextLedger
  <1>5. QP!StopsOnce'  BY <1>1, <1>2, QueueAssumption, QP!NextStopsOnce
  <1> QED  BY <1>3, <1>4, <1>5 DEF QP!Inv

\* The actions of the worker objects are put together from those of the queue, so
\* that its invariant carries over.
LEMMA QueueStep ==
    ASSUME IInv, [Next]_vars
    PROVE  [Queue!Next]_(Queue!vars)
  <1>1. ASSUME UNCHANGED queueVars  PROVE [Queue!Next]_(Queue!vars)
    BY <1>1 DEF queueVars, Queue!vars, Queue!threadVars, Queue!requestVars
  <1>2. ASSUME Queue!IncQueue \/ Queue!Wake \/ Queue!UpdateQueue
        PROVE  [Queue!Next]_(Queue!vars)
    BY <1>2 DEF Queue!Next, Queue!MainThread, Queue!MainContinues
  <1>3. ASSUME NEW h \in Queue!Asked,
               \/ Queue!SetFlags(h, {"ABORT"}) \/ Queue!CompleteRequest(h)
               \/ Queue!SetPriority(h, Immediate)
        PROVE  [Queue!Next]_(Queue!vars)
    BY <1>3 DEF Queue!Next, Queue!MainThread
  <1>4. ASSUME Queue!AddRequest(Normal, {})  PROVE [Queue!Next]_(Queue!vars)
    BY <1>4 DEF Queue!Next, Queue!MainThread
  <1>5. ASSUME Queue!WorkerThread \/ Queue!SpuriousWakeup  PROVE [Queue!Next]_(Queue!vars)
    BY <1>5 DEF Queue!Next
  <1>6. \A w \in Object : HasRequest(w) => Request(w) \in Queue!Asked  BY RequestFacts
  <1>7. CASE \/ \E w \in Object : CheckWork(w) \/ ScheduleDelete(w) \/ UpdateDelete(w) \/ UpdateAbort(w)
             \/ CheckStatus \/ WriteFlags \/ ReadFlags
             \/ BeginWork \/ DoneWork \/ FinishRequest \/ UNCHANGED vars
    BY <1>1, <1>7 DEF CheckWork, ScheduleDelete, UpdateDelete, UpdateAbort, CheckStatus, WriteFlags,
       ReadFlags, BeginWork, DoneWork, SetWorking, FinishRequest, vars
  <1>8. CASE \E w \in Object : AddWork(w)
    BY <1>4, <1>8 DEF AddWork
  <1>9. CASE AddWorkDone \/ UpdateQueue \/ (job = NoJob /\ Queue!Wake)
    BY <1>2, <1>9 DEF AddWorkDone, UpdateQueue
  <1>10. CASE EndWork \/ AbortRequest \/ RaisePriority \/ Delete
    <2>1. ASSUME NEW w \in Object, job.object = w, HasRequest(w),
                 EndWork \/ AbortRequest \/ RaisePriority
          PROVE  [Queue!Next]_(Queue!vars)
      BY <1>1, <1>3, <1>6, <2>1 DEF EndWork, DropRequest, AbortRequest, RaisePriority
    <2>2. ASSUME NEW w \in Object, job.object = w, Delete
          PROVE  [Queue!Next]_(Queue!vars)
      BY <1>1, <1>3, <1>6, <2>2 DEF DropRequest, Delete
    <2>3. job \notin {NoJob}
      BY <1>10 DEF EndWork, AbortRequest, RaisePriority, Delete, NoJob
    <2>4. \E w \in Object :
            job.object = w /\ (job.op \in {"ended", "aborting", "raising"} => HasRequest(w))
      BY <2>3 DEF IInv, WInv, JobOK, Doing
    <2> QED
      BY <1>10, <2>1, <2>2, <2>4 DEF EndWork, AbortRequest, RaisePriority, Delete
  <1>11. CASE RunQueue \/ SpuriousWakeup \/ ProcessRequest \/ FinishDone
    <2>1. Queue!WorkerThread \/ Queue!SpuriousWakeup
      BY <1>11 DEF RunQueue, SpuriousWakeup, ProcessRequest, FinishDone, Queue!WorkerThread
    <2> QED  BY <1>5, <2>1
  <1> QED
    BY <1>7, <1>8, <1>9, <1>10, <1>11 DEF Next, MainThread, MainContinues, Thread
-----------------------------------------------------------------------------
(* The main thread                                                         *)

\* The operation that is under way, of an object w.
JobOf(w) ==
    /\ w \notin deleted
    /\ \/ job = Doing("adding", w)
       \/ /\ \E op \in {"found", "aborting", "raising", "flagging"} : job = Doing(op, w)
          /\ HasRequest(w)
       \/ job = Doing("ended", w) /\ HasRequest(w) /\ Done(Request(w))
       \/ /\ job = Doing("deleting", w) /\ w \notin mDeleteList
          /\ HasRequest(w) => Done(Request(w))
       \/ \E flag \in {"DELETE_REQUESTED", "ABORT_REQUESTED"}, flags \in SUBSET Flag :
            /\ job = [op |-> "setting", object |-> w, flag |-> flag, flags |-> flags]
            /\ "HAVE_WORK" \in flags <=> HasRequest(w)
            /\ "WORKING" \in flags <=> "WORKING" \in mWorkFlags[w]
            /\ "WORK_FINISHED" \in flags /\ HasRequest(w) => Done(Request(w))

LEMMA JobFacts ==
    ASSUME IInv, job # NoJob
    PROVE  \E w \in Object : JobOf(w) /\ job.object = w
  <1>1. PICK w \in Object : JobOf(w)  BY DEF IInv, WInv, JobOK, JobOf
  <1> QED  BY <1>1 DEF JobOf, Doing

\* A new request, of an object that had none.
LEMMA AddWorkInv == ASSUME IInv, NEW w \in Object, AddWork(w)  PROVE WInv'
  <1> DEFINE k == mNextHandle
             r == [mStatus |-> "QUEUED", mPriority |-> Normal, mFlags |-> {}]
  <1>1. /\ k \in 1 .. MaxRequests
        /\ request' = [request EXCEPT ![k] = r]
        /\ mRequestHash' = mRequestHash \cup {k}
        /\ main' = "queued" /\ UNCHANGED <<worker, held, call>>
    BY DEF AddWork, Queue!AddRequest, Queue!Handle
  <1>2. /\ mWorkFlags' = [mWorkFlags EXCEPT ![w] =
                (@ \ {"WORK_FINISHED", "WORK_ABORTED"}) \cup {"HAVE_WORK"}]
        /\ mRequestHandle' = [mRequestHandle EXCEPT ![w] = k]
        /\ mWorkerClass' = [mWorkerClass EXCEPT ![k] = w]
        /\ job' = Doing("adding", w)
        /\ UNCHANGED <<mDeleteList, deleted, work, seen>>
        /\ w \notin deleted /\ "HAVE_WORK" \notin mWorkFlags[w]
    BY DEF AddWork, Present
  <1>3. k \notin mRequestHash /\ k # 0 /\ mRequestHash \subseteq 1 .. MaxRequests
        /\ request \in [1 .. MaxRequests -> QP!QueuedRequest]
    BY QueueFacts
  <1>4. ObjectsOK  BY DEF IInv, WInv
  <1>5. /\ mWorkFlags \in [Object -> SUBSET Flag]
        /\ mRequestHandle \in [Object -> 0 .. MaxRequests]
        /\ mWorkerClass = [h \in 1 .. MaxRequests |-> mWorkerClass[h]]
        /\ \A h \in mRequestHash :
                mWorkerClass[h] \in Object /\ mRequestHandle[mWorkerClass[h]] = h
        /\ mDeleteList \subseteq Object /\ deleted \subseteq Object
        /\ mDeleteList \cap deleted = {}
    BY <1>4 DEF ObjectsOK
  <1>6. ~HasRequest(w)  BY <1>2, <1>4 DEF ObjectsOK, HandleFindsRequest
  <1>7. \A v \in Object \ {w} :
            /\ mWorkFlags'[v] = mWorkFlags[v] /\ mRequestHandle'[v] = mRequestHandle[v]
            /\ HasRequest(v)' <=> HasRequest(v)
            /\ HasRequest(v) => Request(v) \in mRequestHash /\ Request(v) # k
    BY <1>2, <1>3, <1>5, RequestFacts DEF HasRequest, Request
  <1>8. /\ mRequestHandle'[w] = k /\ HasRequest(w)' /\ Request(w)' = k
        /\ mWorkFlags'[w] = (mWorkFlags[w] \ {"WORK_FINISHED", "WORK_ABORTED"}) \cup {"HAVE_WORK"}
    BY <1>2, <1>3, <1>5 DEF HasRequest, Request, Queue!nullHandle
  <1>9. /\ \A h \in (1 .. MaxRequests) \ {k} :
                request'[h] = request[h] /\ mWorkerClass'[h] = mWorkerClass[h]
        /\ mWorkerClass'[k] = w /\ request'[k] = r
    BY <1>1, <1>2, <1>3, <1>5
  <1>10. \A h \in mRequestHash : mWorkerClass[h] # w
    BY <1>3, <1>5, <1>6 DEF HasRequest, Queue!nullHandle
  <1>11. MainOK'
    BY <1>1, <1>2 DEF MainOK, Doing
  <1>12. NoneAutomatic'
    BY <1>9 DEF IInv, WInv, NoneAutomatic
  <1>13. ObjectsOK'
    <2>1. mWorkFlags' \in [Object -> SUBSET Flag]  BY <1>2, <1>5 DEF Flag
    <2>2. mRequestHandle' \in [Object -> 0 .. MaxRequests]  BY <1>1, <1>2, <1>5
    <2>3. mWorkerClass' = [h \in 1 .. MaxRequests |-> mWorkerClass'[h]]  BY <1>2, <1>5
    <2>4. \A h \in mRequestHash' :
                mWorkerClass'[h] \in Object /\ mRequestHandle'[mWorkerClass'[h]] = h
      <3>1. ASSUME NEW h \in mRequestHash
            PROVE  mWorkerClass'[h] \in Object /\ mRequestHandle'[mWorkerClass'[h]] = h
        <4>1. h # k /\ mWorkerClass'[h] = mWorkerClass[h]  BY <1>3, <1>9
        <4>2. mWorkerClass[h] \in Object \ {w} /\ mRequestHandle[mWorkerClass[h]] = h
          BY <1>5, <1>10
        <4> QED  BY <1>7, <4>1, <4>2
      <3>2. mWorkerClass'[k] \in Object /\ mRequestHandle'[mWorkerClass'[k]] = k
        BY <1>8, <1>9
      <3> QED  BY <1>1, <3>1, <3>2
    <2>5. HandleFindsRequest'
      <3>1. \A v \in Object \ {w} :
                /\ HasRequest(v) => Request(v) \in mRequestHash /\ mWorkerClass[Request(v)] = v
                /\ HasRequest(v) <=> "HAVE_WORK" \in mWorkFlags[v]
        BY <1>4 DEF ObjectsOK, HandleFindsRequest
      <3>2. \A v \in Object \ {w} :
                /\ HasRequest(v)' => Request(v)' \in mRequestHash' /\ mWorkerClass'[Request(v)'] = v
                /\ HasRequest(v)' <=> "HAVE_WORK" \in mWorkFlags'[v]
        <4> SUFFICES ASSUME NEW v \in Object \ {w}
                     PROVE  /\ HasRequest(v)' => /\ Request(v)' \in mRequestHash'
                                                 /\ mWorkerClass'[Request(v)'] = v
                            /\ HasRequest(v)' <=> "HAVE_WORK" \in mWorkFlags'[v]
          OBVIOUS
        <4>1. mWorkFlags'[v] = mWorkFlags[v] /\ Request(v)' = Request(v)
          BY <1>7 DEF Request
        <4>2. HasRequest(v) => Request(v) \in mRequestHash /\ mWorkerClass'[Request(v)] = v
          <5>1. ASSUME HasRequest(v)
                PROVE  Request(v) \in mRequestHash /\ Request(v) # k /\ mWorkerClass[Request(v)] = v
            BY <1>7, <3>1, <5>1
          <5> QED  BY <1>3, <1>9, <5>1
        <4> QED  BY <1>1, <1>7, <3>1, <4>1, <4>2
      <3>3. /\ HasRequest(w)' /\ Request(w)' \in mRequestHash' /\ mWorkerClass'[Request(w)'] = w
            /\ "HAVE_WORK" \in mWorkFlags'[w]
        BY <1>1, <1>8, <1>9
      <3> QED  BY <3>2, <3>3 DEF HandleFindsRequest
    <2>6. \A v \in deleted' : ~HasRequest(v)'
      BY <1>2, <1>4, <1>7 DEF ObjectsOK
    <2>7. \A v \in Object :
            "WORK_FINISHED" \in mWorkFlags'[v] /\ HasRequest(v)' => Done(Request(v))'
      BY <1>3, <1>4, <1>7, <1>8, <1>9 DEF ObjectsOK, Done, Request
    <2> QED  BY <1>2, <1>5, <2>1, <2>2, <2>3, <2>4, <2>5, <2>6, <2>7 DEF ObjectsOK
  <1>14. WorkOK'
    <2>1. worker \in {"processing", "aborting", "finishing"} => mWorkerClass'[held] = mWorkerClass[held]
      BY <1>3, <1>9, HeldFacts
    <2>2. \A v \in Object : "WORKING" \in mWorkFlags'[v] <=> "WORKING" \in mWorkFlags[v]
      BY <1>7, <1>8
    <2> QED  BY <1>1, <1>2, <2>1, <2>2, WorkKept DEF WorkerStays
  <1>15. JobOK'  BY <1>2 DEF JobOK
  <1> QED  BY <1>11, <1>12, <1>13, <1>14, <1>15 DEF WInv

\* The operations that change neither an object's flags nor its handle.
LEMMA GentleInv ==
    ASSUME IInv,
           \/ AddWorkDone \/ CheckStatus \/ AbortRequest \/ RaisePriority \/ ReadFlags
           \/ UpdateQueue \/ (job = NoJob /\ Queue!Wake /\ UNCHANGED <<mWorkerClass, objectVars, work, seen, job>>)
           \/ \E w \in Object : CheckWork(w) \/ ScheduleDelete(w) \/ UpdateDelete(w) \/ UpdateAbort(w)
    PROVE  WInv'
  <1> USE DEF objectVars
  <1>1. WInv  BY DEF IInv
  <1>2. Gentle
    <2>1. ASSUME job.op \in {"aborting", "raising"}, job # NoJob
          PROVE  job.object \in Object /\ Request(job.object) \in 1 .. MaxRequests
      BY <2>1, JobFacts, RequestFacts DEF JobOf, Doing
    <2>2. CASE AbortRequest \/ RaisePriority
      BY <2>1, <2>2, GentleSteps DEF AbortRequest, RaisePriority, NoJob
    <2>3. CASE AddWorkDone \/ UpdateQueue \/ Queue!Wake
      BY <2>3, GentleSteps DEF AddWorkDone, UpdateQueue
    <2>4. CASE \/ CheckStatus \/ ReadFlags
               \/ \E w \in Object : CheckWork(w) \/ ScheduleDelete(w) \/ UpdateDelete(w) \/ UpdateAbort(w)
      BY <2>4, GentleSteps DEF CheckStatus, ReadFlags, CheckWork, ScheduleDelete, UpdateDelete, UpdateAbort
    <2> QED  BY <2>2, <2>3, <2>4
  <1>3. UNCHANGED <<mWorkerClass, mWorkFlags, mRequestHandle, deleted, work, seen>>
    BY DEF AddWorkDone, CheckStatus, AbortRequest, RaisePriority, ReadFlags, UpdateQueue, CheckWork,
       ScheduleDelete, UpdateDelete, UpdateAbort
  <1>4. mDeleteList' \subseteq mDeleteList
    BY DEF AddWorkDone, CheckStatus, AbortRequest, RaisePriority, ReadFlags, UpdateQueue, CheckWork,
       ScheduleDelete, UpdateDelete, UpdateAbort
  <1>5. DoneStays /\ NoneAutomatic' /\ ObjectsOK' /\ WorkOK'
    BY <1>1, <1>2, <1>3, <1>4, GentleKeeps DEF WInv, ObjectsOK
  <1>6. MainOK'
    <2>1. MainOK  BY <1>1 DEF WInv
    <2>2. CASE AddWorkDone
      BY <2>2 DEF AddWorkDone, Queue!IncQueue, MainOK, NoJob
    <2>3. CASE UpdateQueue \/ (job = NoJob /\ Queue!Wake /\ job' = job)
      BY <2>1, <2>3 DEF UpdateQueue, Queue!UpdateQueue, Queue!Update, Queue!Wake, Queue!Calling, MainOK, NoJob
    <2>4. ASSUME main' = main, call' = call, job.op # "adding", job'.op # "adding"
          PROVE  MainOK'
      BY <2>1, <2>4 DEF MainOK
    <2>5. CASE CheckStatus \/ ReadFlags \/ AbortRequest \/ RaisePriority
      BY <2>4, <2>5 DEF CheckStatus, ReadFlags, AbortRequest, RaisePriority, queueVars, Doing, Setting,
         NoJob, Queue!SetFlags, Queue!SetPriority
    <2>6. CASE \E w \in Object : CheckWork(w) \/ ScheduleDelete(w) \/ UpdateDelete(w) \/ UpdateAbort(w)
      BY <2>4, <2>6 DEF CheckWork, ScheduleDelete, UpdateDelete, UpdateAbort, Free, queueVars, Doing,
         Setting, NoJob
    <2> QED  BY <2>2, <2>3, <2>5, <2>6 DEF UpdateQueue
  <1>7. JobOK'
    <2>1. \A w \in Object : /\ HasRequest(w)' <=> HasRequest(w)
                            /\ HasRequest(w) /\ Done(Request(w)) => Done(Request(w))'
      BY <1>3, <1>5, RequestFacts DEF HasRequest, Request, DoneStays, Done
    <2>2. CASE AddWorkDone  BY <2>2 DEF AddWorkDone, JobOK
    <2>3. CASE UpdateQueue \/ (job = NoJob /\ Queue!Wake /\ job' = job)
      BY <2>3 DEF UpdateQueue, JobOK
    <2>4. CASE CheckStatus \/ AbortRequest \/ RaisePriority \/ ReadFlags
      <3>1. job.op \in {"found", "aborting", "raising", "flagging"} /\ job # NoJob
        BY <2>4 DEF CheckStatus, AbortRequest, RaisePriority, ReadFlags, NoJob
      <3>2. PICK w \in Object : job.object = w /\ HasRequest(w) /\ w \notin deleted
        BY <3>1, JobFacts DEF JobOf, Doing
      <3>3. HasRequest(w)' /\ w \notin deleted'  BY <1>3, <2>1, <3>2
      <3>4. CASE AbortRequest \/ RaisePriority
        <4>1. \E op \in {"found", "aborting", "raising", "flagging"} : job' = Doing(op, w)
          BY <3>2, <3>4 DEF AbortRequest, RaisePriority
        <4> QED  BY <3>3, <4>1 DEF JobOK, Doing
      <3>5. CASE CheckStatus
        <4>1. job' = NoJob \/ (job' = Doing("ended", w) /\ Done(Request(w)))
          BY <3>2, <3>5 DEF CheckStatus, Done
        <4> QED  BY <2>1, <3>2, <3>3, <4>1 DEF JobOK, Doing
      <3>6. CASE ReadFlags
        <4>1. job' = [op |-> "setting", object |-> w, flag |-> "ABORT_REQUESTED", flags |-> mWorkFlags[w]]
          BY <3>2, <3>6 DEF ReadFlags, Setting
        <4>2. /\ mWorkFlags[w] \in SUBSET Flag
              /\ "HAVE_WORK" \in mWorkFlags[w] <=> HasRequest(w)
              /\ "WORK_FINISHED" \in mWorkFlags[w] /\ HasRequest(w) => Done(Request(w))
          BY <1>1 DEF WInv, ObjectsOK, HandleFindsRequest
        <4> QED  BY <1>3, <2>1, <3>3, <4>1, <4>2 DEF JobOK
      <3> QED  BY <2>4, <3>4, <3>5, <3>6
    <2>5. ASSUME NEW w \in Object, CheckWork(w) \/ UpdateAbort(w)  PROVE JobOK'
      <3>1. HasRequest(w)  BY <2>5 DEF CheckWork, UpdateAbort
      <3>2. w \notin deleted
        BY <1>1, <2>5 DEF WInv, ObjectsOK, CheckWork, Present, UpdateAbort
      <3>3. \E op \in {"found", "aborting", "raising", "flagging"} : job' = Doing(op, w)
        BY <2>5 DEF CheckWork, UpdateAbort
      <3> QED  BY <1>3, <2>1, <3>1, <3>2, <3>3 DEF JobOK, Doing
    <2>6. ASSUME NEW w \in Object, ScheduleDelete(w)  PROVE JobOK'
      <3>1. job' = [op |-> "setting", object |-> w, flag |-> "DELETE_REQUESTED", flags |-> mWorkFlags[w]]
        BY <2>6 DEF ScheduleDelete, Setting
      <3>2. /\ mWorkFlags[w] \in SUBSET Flag
            /\ "HAVE_WORK" \in mWorkFlags[w] <=> HasRequest(w)
            /\ "WORK_FINISHED" \in mWorkFlags[w] /\ HasRequest(w) => Done(Request(w))
        BY <1>1 DEF WInv, ObjectsOK, HandleFindsRequest
      <3>3. w \notin deleted'  BY <1>3, <2>6 DEF ScheduleDelete, Present
      <3> QED  BY <1>3, <2>1, <3>1, <3>2, <3>3 DEF JobOK
    <2>7. ASSUME NEW w \in Object, UpdateDelete(w)  PROVE JobOK'
      <3>1. job' = Doing("deleting", w) /\ w \notin mDeleteList'  BY <2>7 DEF UpdateDelete
      <3>2. HasRequest(w) => Done(Request(w))
        BY <1>1, <2>7 DEF WInv, ObjectsOK, UpdateDelete, MayDelete
      <3>3. w \notin deleted'
        BY <1>1, <1>3, <2>7 DEF WInv, ObjectsOK, UpdateDelete
      <3> QED  BY <2>1, <3>1, <3>2, <3>3 DEF JobOK, Doing
    <2> QED  BY <2>2, <2>3, <2>4, <2>5, <2>6, <2>7 DEF UpdateQueue
  <1> QED  BY <1>5, <1>6, <1>7 DEF WInv

\* The flags that are written were read when the object had the work it has now.
LEMMA WriteFlagsInv == ASSUME IInv, WriteFlags  PROVE WInv'
  <1>1. job # NoJob /\ job.op = "setting"  BY DEF WriteFlags, NoJob
  <1>2. PICK w \in Object : JobOf(w) /\ job.object = w  BY <1>1, JobFacts
  <1>3. PICK flag \in {"DELETE_REQUESTED", "ABORT_REQUESTED"}, flags \in SUBSET Flag :
            /\ job = [op |-> "setting", object |-> w, flag |-> flag, flags |-> flags]
            /\ "HAVE_WORK" \in flags <=> HasRequest(w)
            /\ "WORKING" \in flags <=> "WORKING" \in mWorkFlags[w]
            /\ "WORK_FINISHED" \in flags /\ HasRequest(w) => Done(Request(w))
    BY <1>1, <1>2 DEF JobOf, Doing
  <1>4. /\ mWorkFlags' = [mWorkFlags EXCEPT ![w] = flags \cup {flag}]
        /\ mDeleteList' \subseteq mDeleteList \cup {w}
        /\ job' = NoJob
        /\ UNCHANGED <<queueVars, mWorkerClass, mRequestHandle, deleted, work, seen>>
    BY <1>3 DEF WriteFlags, WithFlag
  <1>5. w \notin deleted  BY <1>2 DEF JobOf
  <1>6. ObjectsOK /\ MainOK /\ NoneAutomatic  BY DEF IInv, WInv
  <1>7. /\ mWorkFlags \in [Object -> SUBSET Flag]
        /\ "HAVE_WORK" \in mWorkFlags[w] <=> HasRequest(w)
        /\ mDeleteList \subseteq Object /\ mDeleteList \cap deleted = {}
    BY <1>6 DEF ObjectsOK, HandleFindsRequest
  <1>8. /\ mWorkFlags'[w] = flags \cup {flag}
        /\ \A v \in Object \ {w} : mWorkFlags'[v] = mWorkFlags[v]
    BY <1>4, <1>7
  <1>9. MainOK'
    BY <1>1, <1>4, <1>6 DEF MainOK, queueVars, NoJob
  <1>10. DoneStays /\ NoneAutomatic'
    BY <1>4, <1>6 DEF queueVars, DoneStays, Done, NoneAutomatic
  <1>11. ObjectsOK'
    <2>1. mWorkFlags' \in [Object -> SUBSET Flag]  BY <1>4, <1>7 DEF Flag
    <2>2. \A v \in Object :
            /\ "HAVE_WORK" \in mWorkFlags'[v] <=> "HAVE_WORK" \in mWorkFlags[v]
            /\ "WORK_FINISHED" \in mWorkFlags'[v] /\ HasRequest(v) =>
                    Done(Request(v)) \/ "WORK_FINISHED" \in mWorkFlags[v]
      BY <1>3, <1>7, <1>8
    <2>3. mDeleteList' \subseteq Object /\ mDeleteList' \cap deleted = {}  BY <1>4, <1>5, <1>7
    <2>4. UNCHANGED <<mWorkerClass, mRequestHandle, deleted>>  BY <1>4
    <2> QED  BY <1>10, <2>1, <2>2, <2>3, <2>4, ObjectsKept
  <1>12. WorkOK'
    <2>1. \A v \in Object : "WORKING" \in mWorkFlags'[v] <=> "WORKING" \in mWorkFlags[v]
      BY <1>3, <1>8
    <2>2. WorkerStays  BY <1>4 DEF queueVars, WorkerStays
    <2>3. UNCHANGED <<mWorkerClass, work, seen>>  BY <1>4
    <2> QED  BY <2>1, <2>2, <2>3, WorkKept
  <1>13. JobOK'  BY <1>4 DEF JobOK
  <1> QED  BY <1>9, <1>10, <1>11, <1>12, <1>13 DEF WInv

\* A request is dropped that is not the one the worker has.
LEMMA DropInv ==
    ASSUME IInv, NEW w \in Object, HasRequest(w), DropRequest(w),
           deleted' \subseteq deleted \cup {w}, mDeleteList' = mDeleteList,
           mDeleteList \cap deleted' = {}, job' = NoJob,
           UNCHANGED <<mWorkerClass, work, seen>>
    PROVE  WInv'
  <1>1. PICK h \in 1 .. MaxRequests : h = Request(w)  BY RequestFacts
  <1>2. /\ main = "free" /\ UNCHANGED <<main, call, worker, held>>
        /\ worker \notin {"taking", "aborting", "finishing"}
        /\ request[h].mStatus \notin {"QUEUED", "INPROGRESS"}
        /\ mRequestHash' = mRequestHash \ {h}
        /\ request' = [request EXCEPT ![h].mStatus = "DELETE"]
        /\ mRequestHandle' = [mRequestHandle EXCEPT ![w] = 0]
        /\ mWorkFlags' = [mWorkFlags EXCEPT ![w] = @ \ {"HAVE_WORK"}]
    BY <1>1 DEF DropRequest, Queue!CompleteRequest, Queue!Unlocked, Queue!Locked,
       Queue!MayComplete, Queue!StatusOf, Queue!Free, Queue!nullHandle
  <1>3. /\ request \in [1 .. MaxRequests -> QP!QueuedRequest]
        /\ mRequestHash \subseteq 1 .. MaxRequests
        /\ worker = "processing" => held # h
    BY <1>2, QueueFacts
  <1>4. WInv  BY DEF IInv
  <1>5. /\ mWorkFlags \in [Object -> SUBSET Flag]
        /\ mRequestHandle \in [Object -> 0 .. MaxRequests]
        /\ \A g \in mRequestHash :
                mWorkerClass[g] \in Object /\ mRequestHandle[mWorkerClass[g]] = g
        /\ \A v \in Object : HasRequest(v) => /\ Request(v) \in mRequestHash
                                              /\ mWorkerClass[Request(v)] = v
        /\ \A v \in Object : HasRequest(v) <=> "HAVE_WORK" \in mWorkFlags[v]
        /\ \A v \in deleted : ~HasRequest(v)
        /\ \A v \in Object :
                "WORK_FINISHED" \in mWorkFlags[v] /\ HasRequest(v) => Done(Request(v))
    BY <1>4 DEF WInv, ObjectsOK, HandleFindsRequest
  <1>6. /\ mRequestHandle'[w] = 0 /\ ~HasRequest(w)'
        /\ mWorkFlags'[w] = mWorkFlags[w] \ {"HAVE_WORK"}
    BY <1>2, <1>5 DEF HasRequest, Queue!nullHandle
  <1>7. \A v \in Object \ {w} :
            /\ mRequestHandle'[v] = mRequestHandle[v] /\ mWorkFlags'[v] = mWorkFlags[v]
            /\ HasRequest(v)' <=> HasRequest(v)
            /\ Request(v)' = Request(v)
            /\ HasRequest(v) => Request(v) # h
    BY <1>1, <1>2, <1>5 DEF HasRequest, Request
  <1>8. \A g \in (1 .. MaxRequests) \ {h} : request'[g] = request[g]  BY <1>2, <1>3
  <1>9. MainOK'  BY <1>2 DEF MainOK, NoJob
  <1>10. NoneAutomatic'
    <2>1. request'[h].mFlags = request[h].mFlags  BY <1>2, <1>3 DEF QP!QueuedRequest
    <2> QED  BY <1>4, <1>8, <2>1 DEF WInv, NoneAutomatic
  <1>11. ObjectsOK'
    <2>1. mWorkFlags' \in [Object -> SUBSET Flag]  BY <1>2, <1>5
    <2>2. mRequestHandle' \in [Object -> 0 .. MaxRequests]
      BY <1>2, <1>5, WorkerThreadAssumption
    <2>3. \A g \in mRequestHash' :
            mWorkerClass'[g] \in Object /\ mRequestHandle'[mWorkerClass'[g]] = g
      <3> SUFFICES ASSUME NEW g \in mRequestHash, g # h
                   PROVE  mWorkerClass[g] \in Object /\ mRequestHandle'[mWorkerClass[g]] = g
        BY <1>2
      <3>1. mWorkerClass[g] \in Object /\ mRequestHandle[mWorkerClass[g]] = g  BY <1>5
      <3>2. mWorkerClass[g] # w  BY <1>1, <3>1 DEF Request
      <3> QED  BY <1>7, <3>1, <3>2
    <2>4. HandleFindsRequest'
      <3> SUFFICES ASSUME NEW v \in Object
                   PROVE  /\ HasRequest(v)' => /\ Request(v)' \in mRequestHash'
                                               /\ mWorkerClass'[Request(v)'] = v
                          /\ HasRequest(v)' <=> "HAVE_WORK" \in mWorkFlags'[v]
        BY DEF HandleFindsRequest
      <3>1. CASE v = w  BY <1>6, <3>1
      <3>2. CASE v # w  BY <1>2, <1>5, <1>7, <3>2
      <3> QED  BY <3>1, <3>2
    <2>5. \A v \in deleted' : ~HasRequest(v)'
      BY <1>4, <1>5, <1>6, <1>7 DEF WInv, ObjectsOK
    <2>6. \A v \in Object :
            "WORK_FINISHED" \in mWorkFlags'[v] /\ HasRequest(v)' => Done(Request(v))'
      <3> SUFFICES ASSUME NEW v \in Object, "WORK_FINISHED" \in mWorkFlags'[v], HasRequest(v)'
                   PROVE  Done(Request(v))'
        OBVIOUS
      <3>1. v # w  BY <1>6
      <3>2. Done(Request(v)) /\ Request(v) # h /\ Request(v)' = Request(v)
            /\ Request(v) \in 1 .. MaxRequests
        BY <1>3, <1>5, <1>7, <3>1
      <3> QED  BY <1>8, <3>2 DEF Done
    <2>7. /\ mWorkerClass' = [g \in 1 .. MaxRequests |-> mWorkerClass'[g]]
          /\ mDeleteList' \subseteq Object /\ deleted' \subseteq Object
          /\ mDeleteList' \cap deleted' = {}
      BY <1>4 DEF WInv, ObjectsOK
    <2> QED  BY <2>1, <2>2, <2>3, <2>4, <2>5, <2>6, <2>7 DEF ObjectsOK
  <1>12. WorkOK'
    <2>1. \A v \in Object : "WORKING" \in mWorkFlags'[v] <=> "WORKING" \in mWorkFlags[v]
      BY <1>6, <1>7
    <2> QED  BY <1>2, <2>1, WorkKept DEF WorkerStays
  <1>13. JobOK'  BY DEF JobOK
  <1> QED  BY <1>9, <1>10, <1>11, <1>12, <1>13 DEF WInv

LEMMA EndInv == ASSUME IInv, EndWork \/ Delete  PROVE WInv'
  <1>1. job # NoJob /\ job.op \in {"ended", "deleting"}  BY DEF EndWork, Delete, NoJob
  <1>2. PICK w \in Object : JobOf(w) /\ job.object = w  BY <1>1, JobFacts
  <1>3. ObjectsOK /\ WorkOK /\ MainOK /\ NoneAutomatic  BY DEF IInv, WInv
  <1>4. CASE EndWork
    <2>1. HasRequest(w)  BY <1>2, <1>4 DEF JobOf, EndWork, Doing
    <2>2. /\ DropRequest(w) /\ job' = NoJob /\ mDeleteList' = mDeleteList
          /\ UNCHANGED <<mWorkerClass, work, seen>> /\ deleted' = deleted
      BY <1>2, <1>4 DEF EndWork
    <2>3. deleted' \subseteq deleted \cup {w} /\ mDeleteList \cap deleted' = {}
      BY <1>3, <2>2 DEF ObjectsOK
    <2> QED  BY <2>1, <2>2, <2>3, DropInv
  <1>5. CASE Delete
    <2>1. w \notin mDeleteList  BY <1>2, <1>5 DEF JobOf, Delete, Doing
    <2>2. /\ deleted' = deleted \cup {w} /\ job' = NoJob /\ mDeleteList' = mDeleteList
          /\ UNCHANGED <<mWorkerClass, work, seen>>
          /\ IF HasRequest(w) THEN DropRequest(w)
             ELSE UNCHANGED <<queueVars, mRequestHandle, mWorkFlags>>
      BY <1>2, <1>5 DEF Delete
    <2>3. deleted' \subseteq deleted \cup {w} /\ mDeleteList \cap deleted' = {}
      BY <1>3, <2>1, <2>2 DEF ObjectsOK
    <2>4. CASE HasRequest(w)  BY <2>2, <2>3, <2>4, DropInv
    <2>5. CASE ~HasRequest(w)
      <3>1. UNCHANGED <<queueVars, mRequestHandle, mWorkFlags>>  BY <2>2, <2>5
      <3>2. MainOK' /\ NoneAutomatic'
        BY <1>1, <1>3, <2>2, <3>1 DEF MainOK, NoneAutomatic, queueVars, NoJob
      <3>3. ObjectsOK'
        BY <1>3, <2>2, <2>3, <2>5, <3>1
           DEF ObjectsOK, HandleFindsRequest, HasRequest, Request, Done, queueVars
      <3>4. WorkOK'  BY <1>3, <2>2, <3>1 DEF WorkOK, WorkingMeansInWork, queueVars
      <3>5. JobOK'  BY <2>2 DEF JobOK
      <3> QED  BY <3>2, <3>3, <3>4, <3>5 DEF WInv
    <2> QED  BY <2>4, <2>5
  <1> QED  BY <1>4, <1>5
-----------------------------------------------------------------------------
(* The worker thread                                                       *)

\* What the steps of the worker thread that write no flags have in common.
LEMMA WorkerKeeps ==
    ASSUME IInv, DoneStays, NoneAutomatic', UNCHANGED <<main, call>>,
           UNCHANGED <<mWorkerClass, objectVars, job>>
    PROVE  MainOK' /\ NoneAutomatic' /\ ObjectsOK' /\ JobOK'
  <1>1. UNCHANGED <<mWorkFlags, mRequestHandle, mDeleteList, deleted>>  BY DEF objectVars
  <1>2. MainOK'  BY DEF IInv, WInv, MainOK
  <1>3. /\ mDeleteList' \subseteq Object /\ mDeleteList' \cap deleted = {}
        /\ mWorkFlags' \in [Object -> SUBSET Flag]
    BY <1>1 DEF IInv, WInv, ObjectsOK
  <1>4. ObjectsOK'  BY <1>1, <1>3, ObjectsKept
  <1>5. JobOK'  BY <1>1, JobKept
  <1> QED  BY <1>2, <1>4, <1>5

\* It begins nothing and ends nothing, or takes a request and is about to begin.
LEMMA RunInv == ASSUME IInv, RunQueue \/ SpuriousWakeup  PROVE WInv'
  <1>1. UNCHANGED <<mWorkerClass, objectVars, work, seen, job>>  BY DEF RunQueue, SpuriousWakeup
  <1>2. DoneStays /\ NoneAutomatic' /\ UNCHANGED <<main, call>>
    BY WorkerSteps DEF RunQueue, SpuriousWakeup
  <1>3. worker \notin {"processing", "aborting", "finishing"}
    BY DEF RunQueue, SpuriousWakeup, Queue!StaticRun, Queue!CheckPause, Queue!Run,
       Queue!SpuriousWakeup, Queue!TakeNone, Queue!Count, Queue!Idle, Queue!TakeAborted,
       Queue!TakeRequest, Queue!Take
  <1>4. work = "begin" /\ \A w \in Object : "WORKING" \notin mWorkFlags[w]
    BY <1>3 DEF IInv, WInv, WorkOK, Work, WorkingMeansInWork
  <1>5. WorkOK'
    BY <1>1, <1>4 DEF objectVars, WorkOK, Work, WorkingMeansInWork
  <1> QED  BY <1>1, <1>2, <1>5, WorkerKeeps DEF WInv

\* mMutex keeps the main thread from writing back a WCF_WORKING that it read
\* before.
LEMMA SetWorkingInv == ASSUME IInv, BeginWork \/ DoneWork  PROVE WInv'
  <1>1. worker = "processing"  BY DEF BeginWork, DoneWork, SetWorking
  <1>2. PICK w \in Object : w = mWorkerClass[held]  BY <1>1, HeldFacts
  <1>3. PICK flags \in {mWorkFlags[w] \cup {"WORKING"}, mWorkFlags[w] \ {"WORKING"}} :
            /\ ~Mutexed(w)
            /\ mWorkFlags' = [mWorkFlags EXCEPT ![w] = flags]
            /\ \/ work = "begin" /\ work' = "doing" /\ "WORKING" \in flags
               \/ work = "doing" /\ work' = "done" /\ "WORKING" \notin flags
            /\ UNCHANGED <<queueVars, mWorkerClass, mRequestHandle, mDeleteList, deleted, seen, job>>
    BY <1>2 DEF BeginWork, DoneWork, SetWorking
  <1>4. MainOK /\ NoneAutomatic /\ ObjectsOK /\ WorkOK  BY DEF IInv, WInv
  <1>5. mWorkFlags \in [Object -> SUBSET Flag]  BY <1>4 DEF ObjectsOK
  <1>6. /\ mWorkFlags'[w] = flags
        /\ \A v \in Object \ {w} : mWorkFlags'[v] = mWorkFlags[v]
    BY <1>3, <1>5
  <1>7. UNCHANGED queueVars  BY <1>3
  <1>8. DoneStays /\ NoneAutomatic' /\ MainOK'
    BY <1>3, <1>4, <1>7 DEF queueVars, DoneStays, Done, NoneAutomatic, MainOK
  <1>9. ObjectsOK'
    <2>1. mWorkFlags' \in [Object -> SUBSET Flag]  BY <1>3, <1>5 DEF Flag
    <2>2. \A v \in Object :
            /\ "HAVE_WORK" \in mWorkFlags'[v] <=> "HAVE_WORK" \in mWorkFlags[v]
            /\ "WORK_FINISHED" \in mWorkFlags'[v] /\ HasRequest(v) =>
                    Done(Request(v)) \/ "WORK_FINISHED" \in mWorkFlags[v]
      BY <1>6
    <2>3. /\ UNCHANGED <<mWorkerClass, mRequestHandle, deleted>>
          /\ mDeleteList' \subseteq Object /\ mDeleteList' \cap deleted = {}
      BY <1>3, <1>4 DEF ObjectsOK
    <2> QED  BY <1>8, <2>1, <2>2, <2>3, ObjectsKept
  <1>10. WorkOK'
    BY <1>1, <1>2, <1>3, <1>4, <1>6, <1>7 DEF queueVars, WorkOK, Work, WorkingMeansInWork
  <1>11. JobOK'
    <2>1. \A v \in Object : job.op = "setting" /\ job.object = v =>
                ("WORKING" \in mWorkFlags'[v] <=> "WORKING" \in mWorkFlags[v])
      BY <1>3, <1>6 DEF Mutexed
    <2>2. UNCHANGED <<job, mRequestHandle, deleted, mDeleteList>>  BY <1>3
    <2> QED  BY <1>8, <2>1, <2>2, JobKept
  <1> QED  BY <1>8, <1>9, <1>10, <1>11 DEF WInv

LEMMA ProcessInv == ASSUME IInv, ProcessRequest  PROVE WInv'
  <1>1. /\ work = "done" /\ work' = "begin"
        /\ UNCHANGED <<mWorkerClass, objectVars, seen, job>>
    BY DEF ProcessRequest
  <1>2. DoneStays /\ NoneAutomatic' /\ UNCHANGED <<main, call>>
    BY WorkerSteps DEF ProcessRequest
  <1>3. WorkOK'
    BY <1>1 DEF IInv, WInv, objectVars, WorkOK, Work, WorkingMeansInWork
  <1> QED  BY <1>1, <1>2, <1>3, WorkerKeeps DEF WInv

\* finishRequest reads the flags of an object that has a request and is not
\* being worked on.
LEMMA FinishRequestInv == ASSUME IInv, FinishRequest  PROVE WInv'
  <1>1. worker \in {"aborting", "finishing"}  BY DEF FinishRequest
  <1>2. PICK w \in Object : w = mWorkerClass[held] /\ HasRequest(w)  BY <1>1, HeldFacts
  <1>3. /\ seen' = mWorkFlags[w] /\ work' = "finish"
        /\ UNCHANGED <<queueVars, mWorkerClass, objectVars, job>>
    BY <1>2 DEF FinishRequest
  <1>4. ObjectsOK /\ WorkOK /\ NoneAutomatic  BY DEF IInv, WInv
  <1>5. mWorkFlags[w] \subseteq Flag /\ "HAVE_WORK" \in mWorkFlags[w] /\ "WORKING" \notin mWorkFlags[w]
    BY <1>1, <1>2, <1>4 DEF ObjectsOK, HandleFindsRequest, WorkOK, WorkingMeansInWork
  <1>6. WorkOK'
    BY <1>1, <1>3, <1>4, <1>5 DEF queueVars, objectVars, WorkOK, Work, WorkingMeansInWork
  <1>7. DoneStays /\ NoneAutomatic' /\ UNCHANGED <<main, call>>
    BY <1>3, <1>4 DEF queueVars, DoneStays, Done, NoneAutomatic
  <1> QED  BY <1>3, <1>6, <1>7, WorkerKeeps DEF WInv

LEMMA FinishDoneInv == ASSUME IInv, FinishDone  PROVE WInv'
  <1>1. worker \in {"aborting", "finishing"}
    BY DEF FinishDone, Queue!FinishAborted, Queue!FinishComplete
  <1>2. PICK w \in Object : w = mWorkerClass[held] /\ HasRequest(w) /\ Request(w) = held
    BY <1>1, HeldFacts
  <1>3. ObjectsOK /\ WorkOK /\ MainOK  BY DEF IInv, WInv
  <1>4. PICK flags \in SUBSET Flag :
            /\ mWorkFlags' = [mWorkFlags EXCEPT ![w] = flags]
            /\ "HAVE_WORK" \in flags /\ "WORKING" \notin flags
    <2>1. seen \subseteq Flag /\ "HAVE_WORK" \in seen /\ "WORKING" \notin seen
      BY <1>3 DEF WorkOK, FinishDone
    <2>2. FinishFlags \in SUBSET Flag /\ "HAVE_WORK" \in FinishFlags /\ "WORKING" \notin FinishFlags
      BY <2>1 DEF FinishFlags, Flag
    <2> QED  BY <1>2, <2>2 DEF FinishDone
  <1>5. /\ work' = "begin" /\ seen' = {}
        /\ UNCHANGED <<mWorkerClass, mRequestHandle, mDeleteList, deleted, job>>
    BY DEF FinishDone
  <1>6. worker' \in {"taking", "counting"}
    BY DEF FinishDone, Queue!FinishAborted, Queue!FinishComplete, Queue!Finish
  <1>7. DoneStays /\ NoneAutomatic' /\ UNCHANGED <<main, call>>
    BY WorkerSteps DEF FinishDone
  <1>8. mWorkFlags \in [Object -> SUBSET Flag]  BY <1>3 DEF ObjectsOK
  <1>9. /\ mWorkFlags'[w] = flags
        /\ \A v \in Object \ {w} : mWorkFlags'[v] = mWorkFlags[v]
    BY <1>4, <1>8
  <1>10. \A v \in Object : "WORKING" \notin mWorkFlags[v] /\ "WORKING" \notin mWorkFlags'[v]
    BY <1>1, <1>3, <1>4, <1>9 DEF WorkOK, WorkingMeansInWork
  <1>11. Done(Request(w)) /\ "HAVE_WORK" \in mWorkFlags[w]
    BY <1>1, <1>2, <1>3, QueueFacts DEF ObjectsOK, HandleFindsRequest
  <1>12. ObjectsOK'
    <2>1. mWorkFlags' \in [Object -> SUBSET Flag]  BY <1>4, <1>8
    <2>2. \A v \in Object :
            /\ "HAVE_WORK" \in mWorkFlags'[v] <=> "HAVE_WORK" \in mWorkFlags[v]
            /\ "WORK_FINISHED" \in mWorkFlags'[v] /\ HasRequest(v) =>
                    Done(Request(v)) \/ "WORK_FINISHED" \in mWorkFlags[v]
      BY <1>4, <1>9, <1>11
    <2>3. /\ UNCHANGED <<mWorkerClass, mRequestHandle, deleted>>
          /\ mDeleteList' \subseteq Object /\ mDeleteList' \cap deleted = {}
      BY <1>3, <1>5 DEF ObjectsOK
    <2> QED  BY <1>7, <2>1, <2>2, <2>3, ObjectsKept
  <1>13. WorkOK'
    BY <1>5, <1>6, <1>10 DEF WorkOK, Work, WorkingMeansInWork
  <1>14. JobOK'
    <2>1. UNCHANGED <<job, mRequestHandle, deleted, mDeleteList>>  BY <1>5
    <2> QED  BY <1>7, <1>10, <2>1, JobKept
  <1>15. MainOK'  BY <1>3, <1>5, <1>7 DEF MainOK
  <1> QED  BY <1>7, <1>12, <1>13, <1>14, <1>15 DEF WInv
-----------------------------------------------------------------------------
(* The invariant and the theorems                                          *)

LEMMA NextWInv == ASSUME IInv, [Next]_vars  PROVE WInv'
  <1>1. CASE \E w \in Object : AddWork(w)
    BY <1>1, AddWorkInv
  <1>2. CASE \/ AddWorkDone \/ CheckStatus \/ AbortRequest \/ RaisePriority \/ ReadFlags
             \/ UpdateQueue
             \/ (job = NoJob /\ Queue!Wake /\ UNCHANGED <<mWorkerClass, objectVars, work, seen, job>>)
             \/ \E w \in Object : CheckWork(w) \/ ScheduleDelete(w) \/ UpdateDelete(w) \/ UpdateAbort(w)
    BY <1>2, GentleInv
  <1>3. CASE WriteFlags  BY <1>3, WriteFlagsInv
  <1>4. CASE EndWork \/ Delete  BY <1>4, EndInv
  <1>5. CASE RunQueue \/ SpuriousWakeup  BY <1>5, RunInv
  <1>6. CASE BeginWork \/ DoneWork  BY <1>6, SetWorkingInv
  <1>7. CASE ProcessRequest  BY <1>7, ProcessInv
  <1>8. CASE FinishRequest  BY <1>8, FinishRequestInv
  <1>9. CASE FinishDone  BY <1>9, FinishDoneInv
  <1>10. CASE UNCHANGED vars
    <2>1. UNCHANGED <<main, call, request, mRequestHash, worker, held, mWorkerClass, mWorkFlags,
                      mRequestHandle, mDeleteList, deleted, work, seen, job>>
      BY <1>10 DEF vars, queueVars, objectVars
    <2>2. DoneStays /\ NoneAutomatic'
      BY <2>1 DEF DoneStays, Done, IInv, WInv, NoneAutomatic
    <2>3. MainOK' /\ ObjectsOK' /\ JobOK'  BY <2>1, <2>2, WorkerKeeps DEF objectVars
    <2>4. WorkOK'  BY <2>1 DEF IInv, WInv, WorkOK, WorkingMeansInWork
    <2> QED  BY <2>2, <2>3, <2>4 DEF WInv
  <1> QED
    BY <1>1, <1>2, <1>3, <1>4, <1>5, <1>6, <1>7, <1>8, <1>9, <1>10
       DEF Next, MainThread, MainContinues, Thread

LEMMA NextIInv == IInv /\ [Next]_vars => IInv'
  BY NextWInv, QueueStep, QueueKept DEF IInv

LEMMA Invariance == Spec => []IInv
  BY InitIInv, NextIInv, PTL DEF Spec

\* WCF_WORKING is set exactly while doWork runs: the assertions of setWorking
\* hold for any number of objects, whatever flags the main thread writes back.
THEOREM WorkingFlag == Spec => []WorkingMeansInWork
  <1>1. IInv => WorkingMeansInWork  BY DEF IInv, WInv, WorkOK
  <1> QED  BY <1>1, Invariance, PTL

\* An object's handle finds its request, and it has one exactly if it says that
\* it has work: no handle is stale when addWork, checkWork, abortWork or the
\* destructor looks it up.
THEOREM HandleFinds == Spec => []HandleFindsRequest
  <1>1. IInv => HandleFindsRequest  BY DEF IInv, WInv, ObjectsOK
  <1> QED  BY <1>1, Invariance, PTL

\* No work is ended and no object deleted before its request is done, and no
\* deleted object has a request that could still run, although status and flags
\* are read without the lock that the other thread writes them with.
THEOREM EndedDone == Spec => []EndedWhenDone
  <1>1. IInv => EndedWhenDone
    <2> SUFFICES ASSUME IInv  PROVE EndedWhenDone
      OBVIOUS
    <2>1. ASSUME job.op \in {"ended", "deleting"}, HasRequest(job.object)
          PROVE  Done(Request(job.object))
      <3>1. job # NoJob  BY <2>1 DEF NoJob
      <3> QED  BY <2>1, <3>1, JobFacts DEF JobOf, Doing
    <2>2. \A h \in mRequestHash : mWorkerClass[h] \notin deleted
      <3>1. \A h \in mRequestHash :
                mWorkerClass[h] \in Object /\ mRequestHandle[mWorkerClass[h]] = h /\ h # 0
        <4>1. \A h \in mRequestHash : h # 0  BY QueueFacts
        <4> QED  BY <4>1 DEF IInv, WInv, ObjectsOK
      <3>2. \A h \in mRequestHash : HasRequest(mWorkerClass[h])
        BY <3>1 DEF HasRequest, Queue!nullHandle
      <3> QED  BY <3>2 DEF IInv, WInv, ObjectsOK
    <2> QED  BY <2>1, <2>2 DEF EndedWhenDone, Done
  <1> QED  BY <1>1, Invariance, PTL
-----------------------------------------------------------------------------
(* Objects whose owner waits                                               *)

\* An owner that waits schedules the deletion of an object when it has no
\* request, so that no finishRequest can have read its flags before.
PatientOK ==
    /\ \A w \in Object \ Hasty :
            w \in mDeleteList \/ w \in deleted \/ job = Doing("deleting", w) =>
                ~HasRequest(w) /\ "DELETE_REQUESTED" \in mWorkFlags[w]
    /\ job.op \in {"aborting", "raising", "flagging"} => job.object \in Hasty
    /\ job.op = "setting" /\ job.object \notin Hasty =>
            job.flag = "DELETE_REQUESTED" /\ ~HasRequest(job.object)

LEMMA NextPatient == ASSUME IInv, PatientOK, [Next]_vars  PROVE PatientOK'
  <1> USE DEF objectVars
  <1>1. ObjectsOK  BY DEF IInv, WInv
  <1>2. /\ mWorkFlags \in [Object -> SUBSET Flag]
        /\ mRequestHandle \in [Object -> 0 .. MaxRequests]
        /\ deleted \subseteq Object /\ mDeleteList \subseteq Object
    BY <1>1 DEF ObjectsOK
  <1>3. ASSUME UNCHANGED <<mWorkFlags, mRequestHandle, mDeleteList, deleted>>,
               \/ job' = NoJob \/ job' = job
               \/ \E w \in Object : job' = Doing("found", w) \/ job' = Doing("ended", w)
        PROVE  PatientOK'
    BY <1>3 DEF PatientOK, HasRequest, NoJob, Doing
  <1>4. CASE \/ AddWorkDone \/ CheckStatus \/ UpdateQueue
             \/ (job = NoJob /\ Queue!Wake /\ UNCHANGED <<mWorkerClass, objectVars, work, seen, job>>)
             \/ RunQueue \/ SpuriousWakeup \/ ProcessRequest \/ FinishRequest \/ UNCHANGED vars
             \/ \E w \in Object : CheckWork(w)
    <2>1. CASE CheckStatus
      <3>1. job # NoJob  BY <2>1 DEF CheckStatus, NoJob
      <3>2. job.object \in Object  BY <3>1, JobFacts
      <3> QED  BY <1>3, <2>1, <3>2 DEF CheckStatus
    <2> QED
      BY <1>3, <1>4, <2>1 DEF AddWorkDone, UpdateQueue, RunQueue, SpuriousWakeup, ProcessRequest,
         FinishRequest, vars, CheckWork
  <1>5. ASSUME NEW w \in Object, AddWork(w)  PROVE PatientOK'
    <2>1. /\ w \notin mDeleteList /\ w \notin deleted /\ job' = Doing("adding", w)
          /\ mRequestHandle' = [mRequestHandle EXCEPT ![w] = mNextHandle]
          /\ \A v \in Object \ {w} : mWorkFlags'[v] = mWorkFlags[v]
          /\ UNCHANGED <<mDeleteList, deleted>>
      BY <1>2, <1>5 DEF AddWork, Present
    <2>2. \A v \in Object \ {w} : HasRequest(v)' <=> HasRequest(v)
      BY <1>2, <2>1 DEF HasRequest
    <2> QED  BY <2>1, <2>2 DEF PatientOK, Doing
  <1>6. ASSUME NEW w \in Object, UpdateDelete(w)  PROVE PatientOK'
    <2>1. /\ w \in mDeleteList /\ job' = Doing("deleting", w) /\ mDeleteList' = mDeleteList \ {w}
          /\ UNCHANGED <<mWorkFlags, mRequestHandle, deleted>>
      BY <1>6 DEF UpdateDelete
    <2> QED  BY <2>1 DEF PatientOK, Doing, HasRequest
  <1>7. ASSUME NEW w \in Object, UpdateAbort(w)  PROVE PatientOK'
    <2>1. /\ w \in mDeleteList /\ HasRequest(w) /\ job' = Doing("aborting", w)
          /\ UNCHANGED <<mWorkFlags, mRequestHandle, mDeleteList, deleted>>
      BY <1>7 DEF UpdateAbort
    <2>2. w \in Hasty  BY <2>1 DEF PatientOK
    <2> QED  BY <2>1, <2>2 DEF PatientOK, Doing, HasRequest
  <1>8. ASSUME NEW w \in Object, ScheduleDelete(w)  PROVE PatientOK'
    <2>1. /\ HasRequest(w) => w \in Hasty
          /\ job' = [op |-> "setting", object |-> w, flag |-> "DELETE_REQUESTED", flags |-> mWorkFlags[w]]
          /\ UNCHANGED <<mWorkFlags, mRequestHandle, mDeleteList, deleted>>
      BY <1>8 DEF ScheduleDelete, Setting
    <2> QED  BY <2>1 DEF PatientOK, HasRequest, Doing
  <1>9. CASE AbortRequest \/ RaisePriority \/ ReadFlags
    <2>1. job.object \in Hasty
      BY <1>9 DEF PatientOK, AbortRequest, RaisePriority, ReadFlags
    <2>2. /\ UNCHANGED <<mWorkFlags, mRequestHandle, mDeleteList, deleted>>
          /\ \/ job' \in {Doing("raising", job.object), Doing("flagging", job.object)}
             \/ job' = [op |-> "setting", object |-> job.object, flag |-> "ABORT_REQUESTED",
                        flags |-> mWorkFlags[job.object]]
      BY <1>9 DEF AbortRequest, RaisePriority, ReadFlags, Setting
    <2> QED  BY <2>1, <2>2 DEF PatientOK, HasRequest, Doing
  <1>10. CASE WriteFlags
    <2>1. /\ mWorkFlags' = [mWorkFlags EXCEPT ![job.object] = job.flags \cup {job.flag}]
          /\ mDeleteList' \subseteq mDeleteList \cup {job.object}
          /\ job' = NoJob /\ job.op = "setting"
          /\ UNCHANGED <<mRequestHandle, deleted>>
      BY <1>10 DEF WriteFlags, WithFlag
    <2>2. \A v \in Object : v # job.object => mWorkFlags'[v] = mWorkFlags[v]
      BY <1>2, <2>1
    <2>3. job.object \in Object \ Hasty =>
            "DELETE_REQUESTED" \in mWorkFlags'[job.object] /\ ~HasRequest(job.object)
      BY <1>2, <2>1 DEF PatientOK
    <2> QED  BY <2>1, <2>2, <2>3 DEF PatientOK, HasRequest, NoJob, Doing
  <1>11. CASE EndWork \/ Delete
    <2>1. job # NoJob /\ job.op \in {"ended", "deleting"}
      BY <1>11 DEF EndWork, Delete, NoJob
    <2>2. PICK w \in Object : job.object = w /\ JobOf(w)  BY <2>1, JobFacts
    <2>3. /\ job' = NoJob /\ mDeleteList' = mDeleteList
          /\ \/ deleted' = deleted
             \/ job = Doing("deleting", w) /\ deleted' = deleted \cup {w}
      BY <1>11, <2>2 DEF EndWork, Delete, JobOf, Doing
    <2>4. \/ UNCHANGED <<mRequestHandle, mWorkFlags>>
          \/ /\ mRequestHandle' = [mRequestHandle EXCEPT ![w] = Queue!nullHandle]
             /\ mWorkFlags' = [mWorkFlags EXCEPT ![w] = @ \ {"HAVE_WORK"}]
      BY <1>11, <2>2 DEF EndWork, Delete, DropRequest
    <2>5. \A v \in Object :
            /\ ~HasRequest(v) => ~HasRequest(v)'
            /\ "DELETE_REQUESTED" \in mWorkFlags[v] => "DELETE_REQUESTED" \in mWorkFlags'[v]
      BY <1>2, <2>4 DEF HasRequest
    <2> QED  BY <2>3, <2>5 DEF PatientOK, NoJob, Doing
  <1>12. CASE BeginWork \/ DoneWork \/ FinishDone
    <2>1. worker \in {"processing", "aborting", "finishing"}
      BY <1>12 DEF BeginWork, DoneWork, SetWorking, FinishDone, Queue!FinishAborted, Queue!FinishComplete
    <2>2. HasRequest(mWorkerClass[held])  BY <2>1, HeldFacts
    <2>3. /\ \A v \in Object : v # mWorkerClass[held] => mWorkFlags'[v] = mWorkFlags[v]
          /\ UNCHANGED <<mRequestHandle, mDeleteList, deleted, job>>
      BY <1>2, <1>12 DEF BeginWork, DoneWork, SetWorking, FinishDone
    <2> QED  BY <2>2, <2>3 DEF PatientOK, HasRequest
  <1> QED
    BY <1>4, <1>5, <1>6, <1>7, <1>8, <1>9, <1>10, <1>11, <1>12
       DEF Next, MainThread, MainContinues, Thread

\* An object whose owner waited for its work is deleted only with the deletion
\* requested, as its destructor asserts: no flag of it is lost to the word that
\* finishRequest writes back.
THEOREM PatientDeleted == Spec => []PatientDeletedOnRequest
  <1>1. Init => PatientOK  BY DEF Init, PatientOK, NoJob, Doing
  <1>2. IInv /\ PatientOK /\ [Next]_vars => PatientOK'  BY NextPatient
  <1>3. IInv /\ PatientOK => PatientDeletedOnRequest
    BY DEF IInv, WInv, ObjectsOK, PatientOK, PatientDeletedOnRequest
  <1> QED  BY <1>1, <1>2, <1>3, Invariance, PTL DEF Spec
=============================================================================
