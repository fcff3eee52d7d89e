---------------------------- MODULE AssetStorage ----------------------------
(***************************************************************************)
(* Asset storage (llmessage/llassetstorage.cpp and its viewer part,        *)
(* newview/llviewerassetstorage.cpp): callers ask for assets, which are in *)
(* the cache or come in a transfer (module Transfer), and store assets,    *)
(* which the simulator confirms.  Requests that wait are in lists; a       *)
(* transfer knows the address of the request that started it.              *)
(*                                                                         *)
(* An asset stands for an id and its type, a caller for a callback and its *)
(* user data.  Error codes are one, "FAILED".  Memory that is freed is     *)
(* reused at will, and may hold anything when it is read.  A callback that *)
(* asks for more is an action of its own, after the one that called it.    *)
(*                                                                         *)
(* A list of requests is a set.  Downloads are put at the end of theirs    *)
(* when they are made, so its order is that of the calls (Earlier); the    *)
(* order of the uploads makes no difference.                               *)
(***************************************************************************)
EXTENDS Naturals, Sequences, FiniteSets

CONSTANTS
    Asset, Caller,
    Address,        \* bound: where a request can be in memory
    MaxCalls,       \* bound: requests in a run
    MaxFetches      \* bound: how many of them are for items or estate assets

ASSUME AssetStorageAssumption ==
    /\ IsFiniteSet(Asset) /\ IsFiniteSet(Caller) /\ IsFiniteSet(Address)
    /\ MaxCalls \in Nat /\ MaxFetches \in Nat

VARIABLES
    mUpstreamHost,      \* a simulator is known
    gAssetStorage,      \* it has not been deleted
    vfs,                \* asset -> what the cache has of it
    memory,             \* address -> the LLAssetRequest there, or Freed
    mPendingDownloads,  \* a set of addresses
    mPendingUploads,    \* another one
    transfers,          \* the transfers under way
    uploading,          \* asset -> the upload requests the simulator has
    calls,              \* history: the calls in their order, with their answers
    outlived            \* history: calls that a transfer answered whose own
                        \* request was gone

vars == <<mUpstreamHost, gAssetStorage, vfs, memory, mPendingDownloads, mPendingUploads,
          transfers, uploading, calls, outlived>>
-----------------------------------------------------------------------------
NoCaller == "nobody"
NullKey == "no asset"
Key == Asset \cup {NullKey}
Freed == [asset |-> "freed", call |-> 0, caller |-> NoCaller]
Request(a, c) == [asset |-> a, call |-> Len(calls) + 1, caller |-> c]
Pending == mPendingDownloads \cup mPendingUploads
Waiting(a) == {r \in mPendingDownloads : memory[r].asset = a}
Earlier(q, r) == memory[q].call < memory[r].call

Init ==
    /\ mUpstreamHost = FALSE /\ gAssetStorage = TRUE
    /\ vfs \in [Asset -> {"none", "empty"}]
    /\ memory = [r \in Address |-> Freed]
    /\ mPendingDownloads = {} /\ mPendingUploads = {}
    /\ transfers = {} /\ uploading = [a \in Asset |-> 0]
    /\ calls = <<>> /\ outlived = {}

\* A call that begins now, with the answers it has got already.
Called(kind, a, results) ==
    /\ gAssetStorage /\ Len(calls) < MaxCalls
    /\ calls' = Append(calls, [kind |-> kind, asset |-> a,
                    answers |-> [i \in 1 .. Len(results) |-> [result |-> results[i], asset |-> a]]])

\* setUpstream, when the viewer is in a region.
SetUpstream ==
    /\ gAssetStorage /\ mUpstreamHost' = TRUE
    /\ UNCHANGED <<gAssetStorage, vfs, memory, mPendingDownloads, mPendingUploads, transfers,
                   uploading, calls, outlived>>

\* The cache gives up a file, or has one from elsewhere that is to be stored.
Evict(a) ==
    /\ vfs[a] # "none" /\ vfs' = [vfs EXCEPT ![a] = "none"]
    /\ UNCHANGED <<mUpstreamHost, gAssetStorage, memory, mPendingDownloads, mPendingUploads,
                   transfers, uploading, calls, outlived>>

WriteFile(a) ==
    /\ vfs[a] = "none" /\ vfs' = [vfs EXCEPT ![a] = "whole"]
    /\ UNCHANGED <<mUpstreamHost, gAssetStorage, memory, mPendingDownloads, mPendingUploads,
                   transfers, uploading, calls, outlived>>
-----------------------------------------------------------------------------
(* Downloads *)

Duplicate(a) == Waiting(a) # {}

\* getAssetData and _queueDataRequest.  What is in the cache is answered at
\* once, and a file with no data is removed.  The same request by the same
\* caller is discarded; another one for the asset waits for the same transfer.
GetAssetData(a, c) ==
    \/ /\ vfs[a] = "whole" /\ Called("download", a, <<"NOERR">>)
       /\ UNCHANGED <<vfs, memory, mPendingDownloads, transfers>>
    \/ /\ vfs[a] # "whole" /\ mUpstreamHost
       /\ \A r \in Waiting(a) : memory[r].caller # c
       /\ Called("download", a, <<>>)
       /\ vfs' = [vfs EXCEPT ![a] = "none"]
       /\ \E r \in Address :
            /\ memory[r] = Freed /\ memory' = [memory EXCEPT ![r] = Request(a, c)]
            /\ mPendingDownloads' = mPendingDownloads \cup {r}
            /\ transfers' = IF Duplicate(a) THEN transfers
                            ELSE transfers \cup {[call |-> Len(calls) + 1, asset |-> a, req |-> {r}]}
    \/ /\ vfs[a] # "whole" /\ ~mUpstreamHost /\ Called("download", a, <<"FAILED">>)
       /\ vfs' = [vfs EXCEPT ![a] = "none"]
       /\ UNCHANGED <<memory, mPendingDownloads, transfers>>

\* What getInvItemAsset and getEstateAsset have in common: each request has a
\* transfer of its own, from the object's simulator or the viewer's, and is in
\* no list.
Fetch(kind, a) ==
    LET cached == a \in Asset /\ vfs[a] = "whole" IN
    \E object_sim \in BOOLEAN :
        \/ /\ cached /\ Called(kind, a, <<"NOERR">>)
           /\ UNCHANGED <<vfs, transfers>>
        \/ /\ ~cached /\ (object_sim \/ mUpstreamHost) /\ Called(kind, a, <<>>)
           /\ vfs' = [b \in Asset |-> IF b = a THEN "none" ELSE vfs[b]]
           /\ transfers' = transfers \cup {[call |-> Len(calls) + 1, asset |-> a, req |-> {}]}
        \/ /\ ~cached /\ ~object_sim /\ ~mUpstreamHost /\ Called(kind, a, <<"FAILED">>)
           /\ vfs' = [b \in Asset |-> IF b = a THEN "none" ELSE vfs[b]]
           /\ UNCHANGED transfers

\* An item may be asked for whose asset the viewer does not know.
GetInvItemAsset(a) == a \in Key /\ Fetch("item", a)

GetEstateAsset(a) ==
    \/ a \in Asset /\ Fetch("estate", a)
    \/ a = NullKey /\ Called("estate", a, <<"FAILED">>) /\ UNCHANGED <<vfs, transfers>>

Fetches == {k \in DOMAIN calls : calls[k].kind \in {"item", "estate"}}

Get(a) ==
    /\ \/ a \in Asset /\ \E c \in Caller : GetAssetData(a, c)
       \/ /\ Cardinality(Fetches) < MaxFetches
          /\ GetInvItemAsset(a) \/ GetEstateAsset(a)
          /\ UNCHANGED <<memory, mPendingDownloads>>
    /\ UNCHANGED <<mUpstreamHost, gAssetStorage, mPendingUploads, uploading, outlived>>

\* What a transfer leaves in the cache: its file if it succeeded, unless the
\* temporary one went away.
Left(a, result) ==
    IF result = "NOERR" THEN {[vfs EXCEPT ![a] = "whole"], [vfs EXCEPT ![a] = "empty"], vfs}
    ELSE {vfs}

\* Fault: a file with no data will do.
Exists(cache, a) == cache[a] # "none"

\* The check for a zero-size file.
Present(cache, a) == cache[a] = "whole"

\* Fault: callbacks run in the order of the requests.
RunsInOrder(q, r) == Earlier(r, q)

\* Callbacks run in the reverse order of the requests: q's after r's.
RunsAfter(q, r) == Earlier(q, r)

\* Calls back with a result and the name of an asset, and deletes the request.
Answer(named, result) ==
    /\ calls' = [k \in DOMAIN calls |->
            IF \E r \in DOMAIN named : memory[r].call = k
            THEN [calls[k] EXCEPT !.answers = Append(@, [result |-> result,
                    asset |-> named[CHOOSE r \in DOMAIN named : memory[r].call = k]])]
            ELSE calls[k]]
    /\ memory' = [r \in Address |-> IF r \in DOMAIN named THEN Freed ELSE memory[r]]

\* downloadCompleteCallback: the request that is found at the address gets the
\* asset of the transfer, and if none is found what is read there is anything.
\* The callbacks are told the asset that this request has, which is deleted as
\* one of them.
DownloadComplete(t, r, result) ==
    \E cache \in Left(t.asset, result), after \in Asset :
    \E uuid \in IF r \in mPendingDownloads THEN {t.asset} ELSE Asset :
        LET found == r \in mPendingDownloads
            good  == result = "NOERR" /\ Present(cache, uuid)
            mine  == Waiting(t.asset) \cup ({r} \cap mPendingDownloads)
            named == [q \in mine |-> IF found /\ RunsAfter(q, r) THEN after ELSE uuid]
        IN  /\ vfs' = IF result = "NOERR" /\ ~good THEN [cache EXCEPT ![uuid] = "none"] ELSE cache
            /\ Answer(named, IF good THEN "NOERR" ELSE "FAILED")
            /\ mPendingDownloads' = mPendingDownloads \ mine
            /\ outlived' = IF memory[r].call = t.call THEN outlived
                           ELSE outlived \cup {memory[q].call : q \in mine}

\* The asset that the target of a transfer names at its end.  The info for an item
\* brings the key of its asset, a new one perhaps; without a key it fails.
FileIds(t, result) ==
    CASE calls[t.call].kind # "item" -> {t.asset}
      [] calls[t.call].kind = "item" /\ result = "NOERR" -> Asset
      [] OTHER -> Key

\* downloadInvItemCompleteCallback and downloadEstateAssetCompleteCallback: the
\* callback is told the asset that the transfer named, and the request is never
\* deleted.
ItemComplete(t, result) ==
    \E file_id \in FileIds(t, result) :
    \E cache \in Left(file_id, result) :
        LET good == result = "NOERR" /\ Present(cache, file_id) IN
        /\ vfs' = IF result = "NOERR" /\ ~good THEN [cache EXCEPT ![file_id] = "none"] ELSE cache
        /\ calls' = [calls EXCEPT ![t.call].answers = Append(@,
                [result |-> IF good THEN "NOERR" ELSE "FAILED", asset |-> file_id])]
        /\ UNCHANGED <<memory, mPendingDownloads, outlived>>

TransferDone(t, result) ==
    /\ gAssetStorage /\ transfers' = transfers \ {t}
    /\ \/ \E r \in t.req : DownloadComplete(t, r, result)
       \/ t.req = {} /\ ItemComplete(t, result)
    /\ UNCHANGED <<mUpstreamHost, gAssetStorage, mPendingUploads, uploading>>

\* The requests that are older than LL_ASSET_STORAGE_TIMEOUT: the first n calls.
Old(n) == {r \in mPendingDownloads : memory[r].call <= n}

\* Fault: a transfer ends with the request that started it.
TimeoutsEndTransfers ==
    \E n \in 1 .. MaxCalls :
        /\ gAssetStorage /\ Old(n) # {}
        /\ mPendingDownloads' = mPendingDownloads \ Old(n)
        /\ Answer([r \in Old(n) |-> memory[r].asset], "FAILED")
        /\ transfers' = {t \in transfers : t.req \cap Old(n) = {}}
        /\ UNCHANGED <<mUpstreamHost, gAssetStorage, vfs, mPendingUploads, uploading, outlived>>

\* Fault: the last request of the list is left.
TimeoutsButLast ==
    \E n \in 1 .. MaxCalls :
        /\ gAssetStorage /\ Old(n) # {} /\ Old(n) # mPendingDownloads
        /\ mPendingDownloads' = mPendingDownloads \ Old(n)
        /\ Answer([r \in Old(n) |-> memory[r].asset], "FAILED")
        /\ UNCHANGED <<mUpstreamHost, gAssetStorage, vfs, mPendingUploads, transfers, uploading,
                       outlived>>

\* checkForTimeouts: the old requests are answered; their transfers go on.
CheckForTimeouts ==
    \E n \in 1 .. MaxCalls :
        /\ gAssetStorage /\ Old(n) # {}
        /\ mPendingDownloads' = mPendingDownloads \ Old(n)
        /\ Answer([r \in Old(n) |-> memory[r].asset], "FAILED")
        /\ UNCHANGED <<mUpstreamHost, gAssetStorage, vfs, mPendingUploads, transfers, uploading,
                       outlived>>
-----------------------------------------------------------------------------
(* Uploads *)

\* storeAssetData of the viewer.  A small file is read into the request, and if
\* that fails the caller is told but the request stays in the list.
StoreAssetData(a) ==
    /\ \/ /\ ~mUpstreamHost \/ vfs[a] # "whole"
          /\ Called("upload", a, <<"FAILED">>)
          /\ UNCHANGED <<memory, mPendingUploads, uploading>>
       \/ /\ mUpstreamHost /\ vfs[a] = "whole"
          /\ \E r \in Address :
                /\ memory[r] = Freed /\ memory' = [memory EXCEPT ![r] = Request(a, NoCaller)]
                /\ mPendingUploads' = mPendingUploads \cup {r}
          /\ \/ Called("upload", a, <<>>) /\ uploading' = [uploading EXCEPT ![a] = @ + 1]
             \/ Called("unreadable", a, <<"FAILED">>) /\ UNCHANGED uploading
    /\ UNCHANGED <<mUpstreamHost, gAssetStorage, vfs, mPendingDownloads, transfers, outlived>>

\* processUploadComplete and _callUploadCallbacks.
UploadComplete(a, result) ==
    /\ gAssetStorage /\ uploading[a] > 0
    /\ uploading' = [uploading EXCEPT ![a] = @ - 1]
    /\ LET mine == {r \in mPendingUploads : memory[r].asset = a} IN
        /\ Answer([r \in mine |-> a], result)
        /\ mPendingUploads' = mPendingUploads \ mine
    /\ UNCHANGED <<mUpstreamHost, gAssetStorage, vfs, mPendingDownloads, transfers, outlived>>

\* Fault: uploads are not answered.
ShutdownDownloads ==
    /\ gAssetStorage /\ gAssetStorage' = FALSE
    /\ Answer([r \in mPendingDownloads |-> memory[r].asset], "FAILED")
    /\ mPendingDownloads' = {} /\ mPendingUploads' = {}
    /\ UNCHANGED <<mUpstreamHost, vfs, transfers, uploading, outlived>>

\* The destructor answers all that is in a list.
Shutdown ==
    /\ gAssetStorage /\ gAssetStorage' = FALSE
    /\ Answer([r \in Pending |-> memory[r].asset], "FAILED")
    /\ mPendingDownloads' = {} /\ mPendingUploads' = {}
    /\ UNCHANGED <<mUpstreamHost, vfs, transfers, uploading, outlived>>

Next ==
    \/ SetUpstream \/ CheckForTimeouts \/ Shutdown
    \/ \E a \in Asset : Evict(a) \/ WriteFile(a) \/ StoreAssetData(a)
    \/ \E a \in Key : Get(a)
    \/ \E result \in {"NOERR", "FAILED"} :
        \/ \E t \in transfers : TransferDone(t, result)
        \/ \E a \in Asset : UploadComplete(a, result)

Spec == Init /\ [][Next]_vars

\* The viewer checks for timeouts in every frame.
FairSpec == Spec /\ WF_vars(CheckForTimeouts)
-----------------------------------------------------------------------------
(* Properties *)

\* Whatever times out, fails or is shut down, and whichever transfer answers,
\* every callback runs exactly once: not while its request waits, and not again.
\* A file that could not be read is the exception, and those whose transfer
\* ended after the shutdown are not called.
InList(k) ==
    \/ \E r \in Pending : memory[r].call = k
    \/ \E t \in transfers : t.req = {} /\ t.call = k

AnsweredOnce ==
    \A k \in DOMAIN calls :
        calls[k].kind # "unreadable" =>
            Len(calls[k].answers) = IF InList(k) THEN 0 ELSE 1

\* Who waits for an asset waits for a transfer of it, though another request
\* may have started the transfer and be gone.
NobodyWaitsInVain ==
    \A r \in mPendingDownloads :
        \E t \in transfers : t.req # {} /\ t.asset = memory[r].asset

\* The calls whose callbacks may be told of another asset than they asked for: the
\* simulator says which asset an item has.
Renamed == {k \in DOMAIN calls : calls[k].kind = "item"}

\* A callback is told of the asset it was called for, if it is the transfer of a
\* request that still waits.  It matters for this that callbacks run in the
\* reverse order: the request whose asset they are told is the first for it and
\* goes last.
NamesItsAsset ==
    \A k \in DOMAIN calls \ (outlived \cup Renamed) :
        \A i \in DOMAIN calls[k].answers : calls[k].answers[i].asset = calls[k].asset

\* The comment of the search for the callbacks: they are those of the requests
\* for this asset.
AllNameTheirAsset ==
    \A k \in DOMAIN calls \ Renamed :
        \A i \in DOMAIN calls[k].answers : calls[k].answers[i].asset = calls[k].asset

\* A success that a callback hears of is a file in the cache at that moment,
\* under the asset that it is told.
HearsSuccess(k) ==
    LET n == Len(calls'[k].answers) IN
    /\ n > (IF k \in DOMAIN calls THEN Len(calls[k].answers) ELSE 0)
    /\ calls'[k].answers[n].result = "NOERR"

SuccessWithFile ==
    \A k \in DOMAIN calls' \ outlived' :
        HearsSuccess(k) /\ calls'[k].kind \in {"download", "item", "estate"} =>
            vfs'[calls'[k].answers[Len(calls'[k].answers)].asset] = "whole"

SuccessIsThere == [][SuccessWithFile]_vars

\* A download is always answered, at the latest by the timeout.
Unanswered(k) ==
    k \in DOMAIN calls /\ calls[k].kind = "download" /\ calls[k].answers = <<>>

DownloadsEnd == \A k \in 1 .. MaxCalls : Unanswered(k) ~> ~Unanswered(k)
=============================================================================
