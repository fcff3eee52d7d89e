------------------------- MODULE AssetStorage_proofs -------------------------
(***************************************************************************)
(* Proofs about AssetStorage, for any assets, callers, addresses and       *)
(* number of calls.                                                        *)
(*                                                                         *)
(* The invariant says of every call where its answer is to come from: a    *)
(* request in a list, which no other call shares, or a transfer of its own *)
(* (ListsOK, ItemsOK).  A transfer that was started by a request that is   *)
(* still there is for the asset of that request, which is the first in the *)
(* list to wait for it (StartersOK); this is what a transfer can no longer *)
(* be sure of once its request is gone and the address used again.         *)
(***************************************************************************)
EXTENDS AssetStorage, TLAPS

Result == {"NOERR", "FAILED"}
Content == {"none", "empty", "whole"}
Kind == {"download", "item", "estate", "upload", "unreadable"}
AnswerType == [result : Result, asset : Key]

TransferType == [call : Nat, asset : Key, req : SUBSET Address]
CallType == [kind : Kind, asset : Key, answers : Seq(AnswerType)]

Types ==
    /\ vfs \in [Asset -> Content]
    /\ transfers \subseteq TransferType
    /\ calls \in Seq(CallType)

\* A request in memory is in one list, belongs to a call of its kind and asset,
\* and to no other request's.
ListsOK ==
    /\ memory = [r \in Address |-> memory[r]]
    /\ mPendingDownloads \subseteq Address /\ mPendingUploads \subseteq Address
    /\ mPendingDownloads \cap mPendingUploads = {}
    /\ \A r \in Address : r \notin Pending => memory[r] = Freed
    /\ \A r \in Pending :
        /\ memory[r].call \in DOMAIN calls
        /\ memory[r].asset = calls[memory[r].call].asset /\ memory[r].asset \in Asset
        /\ calls[memory[r].call].kind \in
                IF r \in mPendingDownloads THEN {"download"} ELSE {"upload", "unreadable"}
        /\ \A q \in Pending : memory[q].call = memory[r].call => q = r

ItemsOK ==
    \A t \in transfers :
        /\ t.call \in DOMAIN calls /\ calls[t.call].asset = t.asset
        /\ calls[t.call].kind \in IF t.req = {} THEN {"item", "estate"} ELSE {"download"}
        /\ calls[t.call].kind # "item" => t.asset \in Asset
        /\ \A u \in transfers : u.req = {} /\ t.req = {} /\ u.call = t.call => u = t

StartersOK ==
    \A t \in transfers : \A r \in t.req :
        memory[r].call = t.call => \A q \in Waiting(t.asset) : ~Earlier(q, r)

IInv ==
    /\ Types /\ ListsOK /\ ItemsOK /\ StartersOK
    /\ AnsweredOnce /\ NobodyWaitsInVain /\ NamesItsAsset
-----------------------------------------------------------------------------
LEMMA InitIInv == Init => IInv
  BY DEF Init, IInv, Types, CallType, ListsOK, ItemsOK, StartersOK, AnsweredOnce, NobodyWaitsInVain,
         NamesItsAsset, Pending, Waiting, Content, Freed

\* What the invariant says of a call and the request that waits for it.
LEMMA CallParts ==
    ASSUME IInv, NEW k \in DOMAIN calls
    PROVE  /\ calls[k] \in CallType /\ k \in Nat \ {0}
           /\ calls[k].answers \in Seq(AnswerType)
  <1>1. calls \in Seq(CallType)  BY DEF IInv, Types
  <1>2. DOMAIN calls = 1 .. Len(calls) /\ Len(calls) \in Nat  BY <1>1
  <1>3. calls[k] \in CallType  BY <1>1, <1>2
  <1> QED  BY <1>2, <1>3 DEF CallType

LEMMA RequestParts ==
    ASSUME IInv, NEW r \in Pending
    PROVE  /\ r \in Address /\ memory[r].call \in DOMAIN calls /\ memory[r].asset \in Asset
           /\ memory[r].asset = calls[memory[r].call].asset
           /\ calls[memory[r].call].kind \in {"download", "upload", "unreadable"}
           /\ \A q \in Pending : memory[q].call = memory[r].call => q = r
  <1>1. memory[r].call \in DOMAIN calls  BY DEF IInv, ListsOK
  <1>2. calls[memory[r].call] \in CallType  BY <1>1, CallParts
  <1> QED  BY <1>1, <1>2 DEF IInv, ListsOK, Pending, CallType

\* What an answer does to a call.
LEMMA AnswerCalls ==
    ASSUME IInv, NEW named, NEW result \in Result, DOMAIN named \subseteq Pending,
           \A r \in DOMAIN named : named[r] \in Asset, Answer(named, result)
    PROVE  /\ calls' \in Seq(CallType) /\ DOMAIN calls' = DOMAIN calls
           /\ \A k \in DOMAIN calls :
                /\ calls'[k].kind = calls[k].kind /\ calls'[k].asset = calls[k].asset
                /\ calls'[k] # calls[k] => \E r \in DOMAIN named : memory[r].call = k
           /\ \A r \in DOMAIN named :
                calls'[memory[r].call].answers = Append(calls[memory[r].call].answers,
                                            [result |-> result, asset |-> named[r]])
  <1> DEFINE New(k) == IF \E r \in DOMAIN named : memory[r].call = k
            THEN [calls[k] EXCEPT !.answers = Append(@, [result |-> result,
                    asset |-> named[CHOOSE r \in DOMAIN named : memory[r].call = k]])]
            ELSE calls[k]
  <1>1. calls' = [k \in DOMAIN calls |-> New(k)]  BY DEF Answer
  <1>2. ASSUME NEW k \in DOMAIN calls
        PROVE  /\ New(k) \in CallType /\ New(k).kind = calls[k].kind /\ New(k).asset = calls[k].asset
               /\ New(k) # calls[k] => \E r \in DOMAIN named : memory[r].call = k
    <2>1. calls[k] \in CallType  BY CallParts
    <2>2. CASE \E r \in DOMAIN named : memory[r].call = k
      <3> DEFINE c == CHOOSE r \in DOMAIN named : memory[r].call = k
      <3>1. c \in DOMAIN named  BY <2>2
      <3>2. named[c] \in Asset  BY <3>1
      <3> HIDE DEF c
      <3>3. [result |-> result, asset |-> named[c]] \in AnswerType
        BY <3>2 DEF AnswerType, Key
      <3>4. New(k) = [calls[k] EXCEPT !.answers = Append(@, [result |-> result, asset |-> named[c]])]
        BY <2>2 DEF c
      <3>5. calls[k].answers \in Seq(AnswerType)  BY <2>1 DEF CallType
      <3>6. Append(calls[k].answers, [result |-> result, asset |-> named[c]])
                \in Seq(AnswerType)
        BY <3>3, <3>5
      <3> QED  BY <2>1, <2>2, <3>4, <3>6 DEF CallType
    <2>3. CASE ~ \E r \in DOMAIN named : memory[r].call = k
      BY <2>1, <2>3
    <2> QED  BY <2>2, <2>3
  <1>3. ASSUME NEW r \in DOMAIN named
        PROVE  New(memory[r].call).answers = Append(calls[memory[r].call].answers,
                                            [result |-> result, asset |-> named[r]])
    <2> DEFINE c == CHOOSE q \in DOMAIN named : memory[q].call = memory[r].call
    <2>1. c \in DOMAIN named /\ memory[c].call = memory[r].call  OBVIOUS
    <2>2. c = r  BY <2>1, RequestParts
    <2>3. calls[memory[r].call] \in CallType  BY RequestParts, CallParts
    <2>4. New(memory[r].call) = [calls[memory[r].call] EXCEPT !.answers =
                Append(@, [result |-> result, asset |-> named[c]])]
      OBVIOUS
    <2> HIDE DEF c, New
    <2> QED  BY <2>2, <2>3, <2>4 DEF CallType
  <1> HIDE DEF New
  <1>4. DOMAIN calls = 1 .. Len(calls) /\ Len(calls) \in Nat  BY DEF IInv, Types
  <1>5. calls' \in Seq(CallType)  BY <1>1, <1>2, <1>4
  <1>6. \A r \in DOMAIN named : memory[r].call \in DOMAIN calls  BY RequestParts
  <1> QED  BY <1>1, <1>2, <1>3, <1>5, <1>6
-----------------------------------------------------------------------------
(* A step that answers the requests of DOMAIN named and no other           *)

Answers(named, result) ==
    /\ DOMAIN named \subseteq Pending
    /\ \A r \in DOMAIN named : named[r] \in Asset
    /\ Answer(named, result)
    /\ mPendingDownloads' = mPendingDownloads \ DOMAIN named
    /\ mPendingUploads' = mPendingUploads \ DOMAIN named

\* The transfers that go away are of assets that nobody waits for any more.
Ends ==
    /\ transfers' \subseteq transfers
    /\ \A t \in transfers \ transfers' :
        t.req # {} /\ \A r \in mPendingDownloads' : memory[r].asset # t.asset

LEMMA AnswerLists ==
    ASSUME IInv, NEW named, NEW result \in Result, Answers(named, result)
    PROVE  /\ ListsOK'
           /\ \A r \in Address \ DOMAIN named : memory'[r] = memory[r]
           /\ \A r \in DOMAIN named : memory'[r] = Freed
           /\ Pending' = Pending \ DOMAIN named
  <1>1. /\ DOMAIN calls' = DOMAIN calls
        /\ \A k \in DOMAIN calls : calls'[k].kind = calls[k].kind /\ calls'[k].asset = calls[k].asset
    BY AnswerCalls DEF Answers
  <1>2. memory' = [r \in Address |-> IF r \in DOMAIN named THEN Freed ELSE memory[r]]
    BY DEF Answers, Answer
  <1>3. Pending' = Pending \ DOMAIN named  BY DEF Pending, Answers
  <1>4. DOMAIN named \subseteq Address  BY RequestParts DEF Answers
  <1>5. ASSUME NEW r \in Pending'
        PROVE  /\ memory'[r].call \in DOMAIN calls'
               /\ memory'[r].asset = calls'[memory'[r].call].asset /\ memory'[r].asset \in Asset
               /\ calls'[memory'[r].call].kind \in
                    IF r \in mPendingDownloads' THEN {"download"} ELSE {"upload", "unreadable"}
               /\ \A q \in Pending' : memory'[q].call = memory'[r].call => q = r
    <2>1. r \in Pending /\ r \notin DOMAIN named  BY <1>3
    <2>2. \A q \in Pending' : q \in Pending /\ memory'[q] = memory[q]
      BY <1>2, <1>3, RequestParts
    <2>3. r \in mPendingDownloads' <=> r \in mPendingDownloads  BY <2>1 DEF Answers
    <2> QED  BY <1>1, <2>1, <2>2, <2>3 DEF IInv, ListsOK
  <1>6. \A r \in Address : r \notin Pending' => memory'[r] = Freed
    BY <1>2, <1>3 DEF IInv, ListsOK
  <1>7. memory' = [r \in Address |-> memory'[r]]  BY <1>2
  <1>8. /\ mPendingDownloads' \subseteq Address /\ mPendingUploads' \subseteq Address
        /\ mPendingDownloads' \cap mPendingUploads' = {}
    BY DEF IInv, ListsOK, Answers
  <1>9. ListsOK'  BY <1>5, <1>6, <1>7, <1>8 DEF ListsOK
  <1> QED  BY <1>2, <1>3, <1>4, <1>9

LEMMA AnswerOnce ==
    ASSUME IInv, NEW named, NEW result \in Result, Answers(named, result), Ends
    PROVE  AnsweredOnce'
  <1> SUFFICES ASSUME NEW k \in DOMAIN calls', calls'[k].kind # "unreadable"
               PROVE  Len(calls'[k].answers) = IF InList(k)' THEN 0 ELSE 1
    BY DEF AnsweredOnce
  <1>1. /\ k \in DOMAIN calls /\ calls'[k].kind = calls[k].kind
        /\ calls'[k] # calls[k] => \E r \in DOMAIN named : memory[r].call = k
    BY AnswerCalls DEF Answers
  <1>0. \A r \in DOMAIN named :
            calls'[memory[r].call].answers = Append(calls[memory[r].call].answers,
                                        [result |-> result, asset |-> named[r]])
    BY AnswerCalls DEF Answers
  <1>2. Len(calls[k].answers) = IF InList(k) THEN 0 ELSE 1  BY <1>1 DEF IInv, AnsweredOnce
  <1>3. /\ \A r \in Pending' : r \in Pending /\ r \notin DOMAIN named /\ memory'[r] = memory[r]
        /\ \A r \in Pending : r \in DOMAIN named \/ r \in Pending'
    BY AnswerLists, RequestParts
  <1>4. \A t \in transfers : t.req = {} => t \in transfers'  BY DEF Ends
  <1>5. CASE \E r \in DOMAIN named : memory[r].call = k
    <2>1. PICK r \in DOMAIN named : memory[r].call = k  BY <1>5
    <2>2. r \in Pending /\ calls[k].kind \notin {"item", "estate"} /\ \A q \in Pending : memory[q].call = k => q = r
      BY <2>1, RequestParts DEF Answers
    <2>3. \A t \in transfers : t.req = {} => t.call # k  BY <2>2 DEF IInv, ItemsOK
    <2>4. ~InList(k)'  BY <1>3, <2>1, <2>2, <2>3 DEF InList, Ends
    <2>5. InList(k)  BY <2>1, <2>2 DEF InList
    <2>6. calls'[k].answers = Append(calls[k].answers, [result |-> result, asset |-> named[r]])
      BY <1>0, <2>1
    <2>7. calls[k].answers \in Seq(AnswerType)  BY <1>1, CallParts
    <2>8. Len(calls'[k].answers) = Len(calls[k].answers) + 1  BY <2>6, <2>7
    <2> QED  BY <1>2, <2>4, <2>5, <2>8
  <1>6. CASE ~ \E r \in DOMAIN named : memory[r].call = k
    <2>1. calls'[k] = calls[k]  BY <1>1, <1>6
    <2>2. InList(k)' <=> InList(k)  BY <1>3, <1>4, <1>6 DEF InList, Ends
    <2> QED  BY <1>2, <2>1, <2>2
  <1> QED  BY <1>5, <1>6

LEMMA AnswerNames ==
    ASSUME IInv, NEW named, NEW result \in Result, Answers(named, result),
           outlived \subseteq outlived',
           \A r \in DOMAIN named : memory[r].call \in outlived' \/ named[r] = memory[r].asset
    PROVE  NamesItsAsset'
  <1> SUFFICES ASSUME NEW k \in DOMAIN calls' \ outlived', calls'[k].kind # "item",
                      NEW i \in DOMAIN calls'[k].answers
               PROVE  calls'[k].answers[i].asset = calls'[k].asset
    BY DEF NamesItsAsset, Renamed
  <1>1. /\ k \in DOMAIN calls \ outlived /\ calls[k].kind # "item" /\ calls'[k].asset = calls[k].asset
        /\ calls'[k] # calls[k] => \E r \in DOMAIN named : memory[r].call = k
    BY AnswerCalls DEF Answers
  <1>0. \A r \in DOMAIN named :
            calls'[memory[r].call].answers = Append(calls[memory[r].call].answers,
                                        [result |-> result, asset |-> named[r]])
    BY AnswerCalls DEF Answers
  <1>2. \A j \in DOMAIN calls[k].answers : calls[k].answers[j].asset = calls[k].asset
    BY <1>1 DEF IInv, NamesItsAsset, Renamed
  <1>3. CASE \E r \in DOMAIN named : memory[r].call = k
    <2>1. PICK r \in DOMAIN named : memory[r].call = k  BY <1>3
    <2>2. named[r] = calls[k].asset  BY <2>1, RequestParts DEF Answers
    <2>3. calls'[k].answers = Append(calls[k].answers, [result |-> result, asset |-> named[r]])
      BY <1>0, <2>1
    <2>4. calls[k].answers \in Seq(AnswerType)  BY <1>1, CallParts
    <2>5. \/ i \in DOMAIN calls[k].answers /\ calls'[k].answers[i] = calls[k].answers[i]
          \/ calls'[k].answers[i] = [result |-> result, asset |-> named[r]]
      BY <2>3, <2>4
    <2> QED  BY <1>1, <1>2, <2>2, <2>5
  <1>4. CASE ~ \E r \in DOMAIN named : memory[r].call = k
    BY <1>1, <1>2, <1>4
  <1> QED  BY <1>3, <1>4

LEMMA AnswerKeeps ==
    ASSUME IInv, NEW named, NEW result \in Result, Answers(named, result), Ends,
           vfs' \in [Asset -> Content], outlived \subseteq outlived',
           \A r \in DOMAIN named : memory[r].call \in outlived' \/ named[r] = memory[r].asset
    PROVE  IInv'
  <1>1. ListsOK' /\ AnsweredOnce' /\ NamesItsAsset'
    BY AnswerLists, AnswerOnce, AnswerNames
  <1>2. Types'  BY AnswerCalls DEF IInv, Types, Answers, Ends
  <1>3. ItemsOK'  BY AnswerCalls DEF IInv, ItemsOK, Answers, Ends
  <1>4. /\ \A r \in mPendingDownloads' : r \in mPendingDownloads /\ memory'[r] = memory[r]
        /\ \A r \in Address : memory'[r] = memory[r] \/ memory'[r].call = 0
    BY AnswerLists, RequestParts DEF Answers, Pending, Freed
  <1>5. StartersOK'
    <2> SUFFICES ASSUME NEW t \in transfers', NEW r \in t.req, memory'[r].call = t.call,
                        NEW q \in mPendingDownloads', memory'[q].asset = t.asset
                 PROVE  ~Earlier(q, r)'
      BY DEF StartersOK, Waiting
    <2>1. t \in transfers /\ t.call # 0 /\ r \in Address
      <3>1. t \in transfers /\ t.call \in DOMAIN calls  BY DEF Ends, IInv, ItemsOK
      <3>2. t \in TransferType  BY <3>1 DEF IInv, Types
      <3> QED  BY <3>1, <3>2, CallParts DEF TransferType
    <2>2. memory'[r] = memory[r]  BY <1>4, <2>1
    <2>3. q \in Waiting(t.asset)  BY <1>4 DEF Waiting
    <2> QED  BY <1>4, <2>1, <2>2, <2>3 DEF IInv, StartersOK, Earlier
  <1>6. NobodyWaitsInVain'
    BY <1>4 DEF IInv, NobodyWaitsInVain, Ends
  <1> QED  BY <1>1, <1>2, <1>3, <1>5, <1>6 DEF IInv
-----------------------------------------------------------------------------
(* A step that begins a call                                               *)

NewCall == Len(calls) + 1

LEMMA CalledCalls ==
    ASSUME IInv, NEW kind \in Kind, NEW a \in Key,
           NEW results \in {<<>>, <<"NOERR">>, <<"FAILED">>}, Called(kind, a, results)
    PROVE  /\ NewCall \in Nat \ {0} /\ \A k \in DOMAIN calls : k < NewCall
           /\ calls' \in Seq(CallType) /\ DOMAIN calls' = DOMAIN calls \cup {NewCall}
           /\ \A k \in DOMAIN calls : calls'[k] = calls[k]
           /\ calls'[NewCall].kind = kind /\ calls'[NewCall].asset = a
           /\ Len(calls'[NewCall].answers) = Len(results)
           /\ \A i \in DOMAIN calls'[NewCall].answers :
                /\ calls'[NewCall].answers[i].asset = a
                /\ calls'[NewCall].answers[i].result = results[i]
  <1> DEFINE Given == [i \in 1 .. Len(results) |-> [result |-> results[i], asset |-> a]]
             c == [kind |-> kind, asset |-> a, answers |-> Given]
  <1>1. calls \in Seq(CallType)  BY DEF IInv, Types
  <1>2. calls' = Append(calls, c)  BY DEF Called
  <1>3. Len(results) \in 0 .. 1 /\ \A i \in 1 .. Len(results) : results[i] \in Result
    BY DEF Result
  <1>4. Given \in Seq(AnswerType) /\ Len(Given) = Len(results)
        /\ \A i \in DOMAIN Given : Given[i].asset = a /\ Given[i].result = results[i]
    <2>1. \A i \in 1 .. Len(results) :
            [result |-> results[i], asset |-> a] \in AnswerType
      BY <1>3 DEF AnswerType
    <2> QED  BY <1>3, <2>1
  <1> HIDE DEF Given
  <1>5. c \in CallType /\ c.kind = kind /\ c.asset = a /\ c.answers = Given
    BY <1>4 DEF CallType
  <1> HIDE DEF c
  <1>6. /\ calls' \in Seq(CallType) /\ DOMAIN calls' = 1 .. Len(calls) + 1
        /\ \A k \in 1 .. Len(calls) : calls'[k] = calls[k]
        /\ calls'[Len(calls) + 1] = c
        /\ Len(calls) \in Nat /\ DOMAIN calls = 1 .. Len(calls)
    BY <1>1, <1>2, <1>5
  <1> QED  BY <1>4, <1>5, <1>6 DEF NewCall

\* The parts that do not depend on what else the call does.
LEMMA CalledKeeps ==
    ASSUME IInv, NEW kind \in Kind, NEW a \in Key,
           NEW results \in {<<>>, <<"NOERR">>, <<"FAILED">>}, Called(kind, a, results),
           vfs' \in [Asset -> Content], outlived' = outlived, transfers' \subseteq TransferType
    PROVE  Types' /\ NamesItsAsset'
  BY CalledCalls DEF IInv, Types, NamesItsAsset, Renamed

\* A call that is answered at once.
LEMMA AnsweredAtOnce ==
    ASSUME IInv, NEW kind \in Kind, NEW a \in Key,
           NEW results \in {<<"NOERR">>, <<"FAILED">>}, Called(kind, a, results),
           vfs' \in [Asset -> Content],
           UNCHANGED <<memory, mPendingDownloads, mPendingUploads, transfers, outlived>>
    PROVE  IInv'
  <1>1. Types' /\ NamesItsAsset'  BY CalledKeeps DEF IInv, Types
  <1>2. /\ \A k \in DOMAIN calls : k < NewCall /\ calls'[k] = calls[k]
        /\ DOMAIN calls' = DOMAIN calls \cup {NewCall} /\ Len(calls'[NewCall].answers) = 1
        /\ NewCall \notin DOMAIN calls
    <2>1. Len(results) = 1  OBVIOUS
    <2>2. results \in {<<>>, <<"NOERR">>, <<"FAILED">>}  OBVIOUS
    <2>3. /\ NewCall \in Nat \ {0} /\ \A k \in DOMAIN calls : k < NewCall /\ calls'[k] = calls[k]
          /\ DOMAIN calls' = DOMAIN calls \cup {NewCall}
          /\ Len(calls'[NewCall].answers) = Len(results)
      BY <2>2, CalledCalls
    <2> QED  BY <2>1, <2>3
  <1>3. ListsOK'  BY <1>2 DEF IInv, ListsOK, Pending
  <1>4. ItemsOK'  BY <1>2 DEF IInv, ItemsOK
  <1>5. StartersOK' /\ NobodyWaitsInVain'
    BY DEF IInv, StartersOK, NobodyWaitsInVain, Waiting, Earlier
  <1>6. AnsweredOnce'
    <2>1. ~InList(NewCall)
      BY <1>2, RequestParts DEF InList, IInv, ItemsOK
    <2>2. \A k : InList(k)' <=> InList(k)  BY DEF InList, Pending
    <2> QED  BY <1>2, <2>1, <2>2 DEF IInv, AnsweredOnce
  <1> QED  BY <1>1, <1>3, <1>4, <1>5, <1>6 DEF IInv

\* A call that puts a request into memory.
NewRequest(r, a, c) == r \in Address /\ memory[r] = Freed /\ memory' = [memory EXCEPT ![r] = Request(a, c)]

LEMMA RequestKeeps ==
    ASSUME IInv, NEW kind \in {"download", "upload", "unreadable"}, NEW a \in Asset, NEW c, NEW r,
           NEW results \in {<<>>, <<"NOERR">>, <<"FAILED">>}, Called(kind, a, results),
           kind # "unreadable" => results = <<>>,
           NewRequest(r, a, c),
           mPendingDownloads' = mPendingDownloads \cup IF kind = "download" THEN {r} ELSE {},
           mPendingUploads' = mPendingUploads \cup IF kind = "download" THEN {} ELSE {r},
           transfers \subseteq transfers',
           \A t \in transfers' \ transfers : t.req # {}
    PROVE  /\ ListsOK' /\ AnsweredOnce'
           /\ r \notin Pending /\ Pending' = Pending \cup {r}
           /\ memory'[r].call = NewCall /\ memory'[r].asset = a
           /\ \A q \in Address : q # r => memory'[q] = memory[q]
  <1>1. /\ \A k \in DOMAIN calls : k < NewCall /\ calls'[k] = calls[k]
        /\ DOMAIN calls' = DOMAIN calls \cup {NewCall} /\ calls'[NewCall].kind = kind
        /\ calls'[NewCall].asset = a /\ NewCall \notin DOMAIN calls
        /\ Len(calls'[NewCall].answers) = Len(results)
    <2>1. kind \in Kind /\ a \in Key  BY DEF Kind, Key
    <2>2. /\ NewCall \in Nat \ {0} /\ \A k \in DOMAIN calls : k < NewCall /\ calls'[k] = calls[k]
          /\ DOMAIN calls' = DOMAIN calls \cup {NewCall} /\ calls'[NewCall].kind = kind
          /\ calls'[NewCall].asset = a /\ Len(calls'[NewCall].answers) = Len(results)
      BY <2>1, CalledCalls
    <2> QED  BY <2>2
  <1>2. r \notin Pending
    <2>1. memory[r].call = 0  BY DEF NewRequest, Freed
    <2> QED  BY <2>1, RequestParts, CallParts
  <1>3. Pending' = Pending \cup {r}  BY DEF Pending
  <1>4. /\ memory'[r].call = NewCall /\ memory'[r].asset = a
        /\ \A q \in Address : q # r => memory'[q] = memory[q]
        /\ memory' = [q \in Address |-> memory'[q]]
    BY DEF NewRequest, Request, NewCall, IInv, ListsOK
  <1>5. ASSUME NEW q \in Pending'
        PROVE  /\ memory'[q].call \in DOMAIN calls'
               /\ memory'[q].asset = calls'[memory'[q].call].asset /\ memory'[q].asset \in Asset
               /\ calls'[memory'[q].call].kind \in
                    IF q \in mPendingDownloads' THEN {"download"} ELSE {"upload", "unreadable"}
               /\ \A p \in Pending' : memory'[p].call = memory'[q].call => p = q
    <2>1. \A p \in Pending : p \in Address /\ memory'[p] = memory[p] /\ memory[p].call \in DOMAIN calls
      BY <1>2, <1>4, RequestParts
    <2>2. CASE q = r
      <3>1. q \in mPendingDownloads' <=> kind = "download"  BY <1>2, <2>2 DEF Pending
      <3> QED  BY <1>1, <1>3, <1>4, <2>1, <2>2, <3>1
    <2>3. CASE q \in Pending
      <3>1. q \in mPendingDownloads' <=> q \in mPendingDownloads  BY <1>2, <2>3 DEF Pending
      <3>2. \A p \in Pending' : memory'[p].call = memory'[q].call => p = q
        BY <1>1, <1>3, <1>4, <2>1, <2>3, RequestParts
      <3> QED  BY <1>1, <2>1, <2>3, <3>1, <3>2 DEF IInv, ListsOK
    <2> QED  BY <1>3, <2>2, <2>3
  <1>6. \A q \in Address : q \notin Pending' => memory'[q] = Freed
    BY <1>3, <1>4 DEF IInv, ListsOK
  <1>7. /\ mPendingDownloads' \subseteq Address /\ mPendingUploads' \subseteq Address
        /\ mPendingDownloads' \cap mPendingUploads' = {}
    BY <1>2 DEF IInv, ListsOK, NewRequest, Pending
  <1>8. ListsOK'  BY <1>4, <1>5, <1>6, <1>7 DEF ListsOK
  <1>9. AnsweredOnce'
    <2>1. \A k \in DOMAIN calls : InList(k)' <=> InList(k)
      BY <1>1, <1>2, <1>3, <1>4, RequestParts DEF InList
    <2>2. \A k : k = NewCall => InList(k)'  BY <1>3, <1>4 DEF InList
    <2>3. kind # "unreadable" => Len(calls'[NewCall].answers) = 0  BY <1>1
    <2>4. \A k \in DOMAIN calls : calls'[k].kind # "unreadable" =>
                Len(calls'[k].answers) = IF InList(k)' THEN 0 ELSE 1
      BY <1>1, <2>1 DEF IInv, AnsweredOnce
    <2>5. \A k : k = NewCall => (calls'[k].kind # "unreadable" =>
                Len(calls'[k].answers) = IF InList(k)' THEN 0 ELSE 1)
      BY <1>1, <2>2, <2>3
    <2> QED  BY <1>1, <2>4, <2>5 DEF AnsweredOnce
  <1> QED  BY <1>2, <1>3, <1>4, <1>8, <1>9
-----------------------------------------------------------------------------
(* The steps                                                               *)

LEMMA QuietKeeps ==
    ASSUME IInv, vfs' \in [Asset -> Content],
           UNCHANGED <<memory, mPendingDownloads, mPendingUploads, transfers, calls, outlived>>
    PROVE  IInv'
  <1>1. Types' /\ ItemsOK' /\ NamesItsAsset'
    BY DEF IInv, Types, ItemsOK, NamesItsAsset, Renamed
  <1>2. ListsOK'  BY DEF IInv, ListsOK, Pending
  <1>3. StartersOK' /\ NobodyWaitsInVain'
    BY DEF IInv, StartersOK, NobodyWaitsInVain, Waiting, Earlier
  <1>4. AnsweredOnce'
    <2>1. \A k : InList(k)' <=> InList(k)  BY DEF InList, Pending
    <2> QED  BY <2>1 DEF IInv, AnsweredOnce
  <1> QED  BY <1>1, <1>2, <1>3, <1>4 DEF IInv

LEMMA CacheType ==
    ASSUME IInv, NEW a, NEW c \in Content
    PROVE  /\ vfs \in [Asset -> Content] /\ [vfs EXCEPT ![a] = c] \in [Asset -> Content]
           /\ [b \in Asset |-> IF b = a THEN c ELSE vfs[b]] \in [Asset -> Content]
  BY DEF IInv, Types

LEMMA NewDownloadKeeps ==
    ASSUME IInv, NEW a \in Asset, NEW c, NEW r, Called("download", a, <<>>),
           NewRequest(r, a, c), vfs' \in [Asset -> Content],
           mPendingDownloads' = mPendingDownloads \cup {r},
           transfers' = IF Duplicate(a) THEN transfers
                        ELSE transfers \cup {[call |-> NewCall, asset |-> a, req |-> {r}]},
           UNCHANGED <<mPendingUploads, outlived>>
    PROVE  IInv'
  <1> DEFINE new == [call |-> NewCall, asset |-> a, req |-> {r}]
  <1>1. /\ \A k \in DOMAIN calls : k \in Nat /\ k < NewCall /\ calls'[k] = calls[k]
        /\ DOMAIN calls' = DOMAIN calls \cup {NewCall} /\ calls'[NewCall].kind = "download"
        /\ calls'[NewCall].asset = a /\ NewCall \in Nat \ {0}
    <2>1. "download" \in Kind /\ a \in Key  BY DEF Kind, Key
    <2> QED  BY <2>1, CalledCalls, CallParts
  <1>2. r \in Address /\ a \in Key  BY DEF NewRequest, Key
  <1>3. new \in TransferType  BY <1>1, <1>2 DEF TransferType
  <1>4. /\ transfers \subseteq transfers' /\ transfers' \subseteq transfers \cup {new}
        /\ ~Duplicate(a) => new \in transfers'
    OBVIOUS
  <1>5. new.req # {} /\ new.call = NewCall /\ new.asset = a /\ new.req = {r}  OBVIOUS
  <1> HIDE DEF new
  <1>6. Types' /\ NamesItsAsset'
    <2>1. transfers' \subseteq TransferType  BY <1>3, <1>4 DEF IInv, Types
    <2>2. "download" \in Kind  BY DEF Kind
    <2> QED  BY <1>2, <2>1, <2>2, CalledKeeps
  <1>7. /\ ListsOK' /\ AnsweredOnce'
        /\ r \notin Pending /\ Pending' = Pending \cup {r}
        /\ memory'[r].call = NewCall /\ memory'[r].asset = a
        /\ \A q \in Address : q # r => memory'[q] = memory[q]
    <2>1. mPendingUploads' = mPendingUploads \cup {}  OBVIOUS
    <2>2. \A t \in transfers' \ transfers : t.req # {}  BY <1>4, <1>5
    <2> QED  BY <1>4, <2>1, <2>2, RequestKeeps
  <1>8. \A t \in transfers : t.call \in DOMAIN calls /\ t.req \subseteq Address
    BY DEF IInv, ItemsOK, Types, TransferType
  <1>9. \A q \in mPendingDownloads' :
            \/ q = r
            \/ q \in mPendingDownloads /\ memory'[q] = memory[q] /\ q \in Address
    BY <1>7 DEF IInv, ListsOK
  <1>10. ItemsOK'  BY <1>1, <1>4, <1>5, <1>8 DEF IInv, ItemsOK
  <1>11. StartersOK'
    <2> SUFFICES ASSUME NEW t \in transfers', NEW p \in t.req, memory'[p].call = t.call,
                        NEW q \in mPendingDownloads', memory'[q].asset = t.asset
                 PROVE  ~Earlier(q, p)'
      BY DEF StartersOK, Waiting
    <2>1. CASE t \in transfers
      <3>1. p # r /\ p \in Address /\ memory'[p] = memory[p]  BY <1>1, <1>7, <1>8, <2>1
      <3>2. CASE q = r
        BY <1>1, <1>7, <1>8, <2>1, <3>2 DEF Earlier
      <3>3. CASE q \in mPendingDownloads /\ memory'[q] = memory[q]
        BY <2>1, <3>1, <3>3 DEF IInv, StartersOK, Waiting, Earlier
      <3> QED  BY <1>9, <3>2, <3>3
    <2>2. CASE t = new /\ ~Duplicate(a)
      <3>1. p = r /\ t.asset = a  BY <1>5, <2>2
      <3>2. q = r  BY <1>9, <2>2, <3>1 DEF Duplicate, Waiting
      <3> QED  BY <1>1, <1>7, <3>1, <3>2 DEF Earlier
    <2> QED  BY <1>4, <2>1, <2>2
  <1>12. NobodyWaitsInVain'
    <2>1. \E t \in transfers' : t.req # {} /\ t.asset = a
      <3>1. CASE Duplicate(a)
        BY <1>4, <3>1 DEF Duplicate, Waiting, IInv, NobodyWaitsInVain
      <3> QED  BY <1>4, <1>5, <3>1
    <2> QED  BY <1>4, <1>7, <1>9, <2>1 DEF IInv, NobodyWaitsInVain
  <1> QED  BY <1>6, <1>7, <1>10, <1>11, <1>12 DEF IInv

LEMMA NewItemKeeps ==
    ASSUME IInv, NEW kind \in {"item", "estate"}, NEW a \in Key, kind # "item" => a \in Asset,
           Called(kind, a, <<>>), vfs' \in [Asset -> Content],
           transfers' = transfers \cup {[call |-> NewCall, asset |-> a, req |-> {}]},
           UNCHANGED <<memory, mPendingDownloads, mPendingUploads, outlived>>
    PROVE  IInv'
  <1> DEFINE new == [call |-> NewCall, asset |-> a, req |-> {}]
  <1>1. kind \in Kind  BY DEF Kind
  <1>2. /\ \A k \in DOMAIN calls : k \in Nat /\ k < NewCall /\ calls'[k] = calls[k]
        /\ DOMAIN calls' = DOMAIN calls \cup {NewCall} /\ calls'[NewCall].kind = kind
        /\ calls'[NewCall].asset = a /\ NewCall \in Nat \ {0}
        /\ Len(calls'[NewCall].answers) = 0
    BY <1>1, CalledCalls, CallParts
  <1>3. new \in TransferType /\ new.call = NewCall /\ new.asset = a /\ new.req = {}
    BY <1>2 DEF TransferType
  <1>4. transfers' = transfers \cup {new}  OBVIOUS
  <1> HIDE DEF new
  <1>5. Types' /\ NamesItsAsset'
    <2>1. transfers' \subseteq TransferType  BY <1>3, <1>4 DEF IInv, Types
    <2> QED  BY <1>1, <2>1, CalledKeeps
  <1>6. ListsOK'  BY <1>2 DEF IInv, ListsOK, Pending
  <1>7. ItemsOK'
    <2>1. \A t \in transfers : t.call \in DOMAIN calls /\ t.call # NewCall
      BY <1>2 DEF IInv, ItemsOK
    <2> QED  BY <1>2, <1>3, <1>4, <2>1 DEF IInv, ItemsOK
  <1>8. StartersOK' /\ NobodyWaitsInVain'
    BY <1>3, <1>4 DEF IInv, StartersOK, NobodyWaitsInVain, Waiting, Earlier
  <1>9. AnsweredOnce'
    <2>1. \A k \in DOMAIN calls : InList(k)' <=> InList(k)
      BY <1>2, <1>3, <1>4 DEF InList, Pending
    <2>2. \A k : k = NewCall => InList(k)'  BY <1>3, <1>4 DEF InList
    <2>3. \A k \in DOMAIN calls : calls'[k].kind # "unreadable" =>
                Len(calls'[k].answers) = IF InList(k)' THEN 0 ELSE 1
      BY <1>2, <2>1 DEF IInv, AnsweredOnce
    <2>4. \A k : k = NewCall => Len(calls'[k].answers) = IF InList(k)' THEN 0 ELSE 1
      BY <1>2, <2>2
    <2> QED  BY <1>2, <2>3, <2>4 DEF AnsweredOnce
  <1> QED  BY <1>5, <1>6, <1>7, <1>8, <1>9 DEF IInv

LEMMA NewUploadKeeps ==
    ASSUME IInv, NEW a \in Asset, NEW kind \in {"upload", "unreadable"}, NEW r,
           NEW results \in {<<>>, <<"FAILED">>}, kind # "unreadable" => results = <<>>,
           Called(kind, a, results), NewRequest(r, a, NoCaller),
           mPendingUploads' = mPendingUploads \cup {r},
           UNCHANGED <<vfs, mPendingDownloads, transfers, outlived>>
    PROVE  IInv'
  <1>1. kind \in Kind /\ results \in {<<>>, <<"NOERR">>, <<"FAILED">>} /\ a \in Key
    BY DEF Kind, Key
  <1>2. \A k \in DOMAIN calls : k \in Nat /\ k < NewCall /\ calls'[k] = calls[k] /\ k \in DOMAIN calls'
    BY <1>1, CalledCalls, CallParts
  <1>3. Types' /\ NamesItsAsset'
    BY <1>1, CalledKeeps DEF IInv, Types
  <1>4. /\ ListsOK' /\ AnsweredOnce' /\ r \notin Pending
        /\ memory'[r].call = NewCall
        /\ \A q \in Address : q # r => memory'[q] = memory[q]
    <2>1. /\ kind \in {"download", "upload", "unreadable"} /\ kind # "download"
          /\ mPendingDownloads' = mPendingDownloads \cup {}
          /\ \A t \in transfers' \ transfers : t.req # {}
      OBVIOUS
    <2> QED  BY <1>1, <2>1, RequestKeeps
  <1>5. \A q \in mPendingDownloads : memory'[q] = memory[q]
    BY <1>4 DEF Pending, IInv, ListsOK
  <1>6. ItemsOK'  BY <1>2 DEF IInv, ItemsOK
  <1>7. NobodyWaitsInVain'  BY <1>5 DEF IInv, NobodyWaitsInVain
  <1>8. StartersOK'
    <2> SUFFICES ASSUME NEW t \in transfers, NEW p \in t.req, memory'[p].call = t.call,
                        NEW q \in mPendingDownloads, memory'[q].asset = t.asset
                 PROVE  ~Earlier(q, p)'
      BY DEF StartersOK, Waiting
    <2>1. t.call \in DOMAIN calls /\ p \in Address  BY DEF IInv, ItemsOK, Types, TransferType
    <2>2. memory'[p] = memory[p]  BY <1>1, <1>2, <1>4, <2>1, CalledCalls
    <2> QED  BY <1>5, <2>2 DEF IInv, StartersOK, Waiting, Earlier
  <1> QED  BY <1>3, <1>4, <1>6, <1>7, <1>8 DEF IInv

\* A transfer whose request is still there answers those who wait for its asset
\* and names it to them.
LEMMA DownloadNames ==
    ASSUME IInv, NEW t \in transfers, NEW r \in t.req, memory[r].call = t.call
    PROVE  /\ r \in mPendingDownloads /\ memory[r].asset = t.asset
           /\ \A q \in Waiting(t.asset) : ~Earlier(q, r)
  <1>1. /\ t.call \in DOMAIN calls /\ calls[t.call].kind = "download"
        /\ calls[t.call].asset = t.asset
    BY DEF IInv, ItemsOK
  <1>2. r \in Address  BY DEF IInv, Types, TransferType
  <1>3. r \in Pending
    <2>1. t.call # 0  BY <1>1, CallParts
    <2> QED  BY <1>2, <2>1 DEF IInv, ListsOK, Freed
  <1> QED  BY <1>1, <1>3 DEF IInv, ListsOK, StartersOK

LEMMA LeftType ==
    ASSUME IInv, NEW a, NEW result, NEW cache \in Left(a, result), NEW uuid
    PROVE  cache \in [Asset -> Content] /\ [cache EXCEPT ![uuid] = "none"] \in [Asset -> Content]
  BY DEF Left, IInv, Types, Content

LEMMA DownloadCompleteKeeps ==
    ASSUME IInv, NEW t \in transfers, NEW r \in t.req, NEW result \in Result,
           DownloadComplete(t, r, result), transfers' = transfers \ {t},
           UNCHANGED mPendingUploads
    PROVE  IInv'
  <1> DEFINE found == r \in mPendingDownloads
             mine == Waiting(t.asset) \cup ({r} \cap mPendingDownloads)
             named(after, uuid) ==
                [q \in mine |-> IF found /\ RunsAfter(q, r) THEN after ELSE uuid]
             good(cache, uuid) == result = "NOERR" /\ Present(cache, uuid)
             answer(cache, uuid) == IF good(cache, uuid) THEN "NOERR" ELSE "FAILED"
  <1>1. PICK cache \in Left(t.asset, result), after \in Asset,
             uuid \in IF r \in mPendingDownloads THEN {t.asset} ELSE Asset :
            /\ vfs' = IF result = "NOERR" /\ ~good(cache, uuid)
                      THEN [cache EXCEPT ![uuid] = "none"] ELSE cache
            /\ Answer(named(after, uuid), answer(cache, uuid))
            /\ mPendingDownloads' = mPendingDownloads \ mine
            /\ outlived' = IF memory[r].call = t.call THEN outlived
                           ELSE outlived \cup {memory[q].call : q \in mine}
    BY DEF DownloadComplete
  <1> DEFINE n == named(after, uuid)
  <1>2. t.asset \in Asset /\ uuid \in Asset /\ t.req # {}
    BY DEF IInv, ItemsOK
  <1>3. /\ mine \subseteq mPendingDownloads /\ mine \subseteq Pending
        /\ mine \cap mPendingUploads = {} /\ DOMAIN n = mine
        /\ \A q \in mine : n[q] \in Asset
    BY <1>2 DEF Waiting, Pending, IInv, ListsOK
  <1>4. vfs' \in [Asset -> Content]  BY <1>1, <1>2, LeftType
  <1>5. \A q \in mine : memory[q].call \in outlived' \/ n[q] = memory[q].asset
    <2>1. CASE memory[r].call = t.call
      <3>1. /\ found /\ memory[r].asset = t.asset
            /\ \A q \in Waiting(t.asset) : ~Earlier(q, r)
        BY <2>1, DownloadNames
      <3>2. ASSUME NEW q \in mine  PROVE n[q] = memory[q].asset
        <4>1. q \in Waiting(t.asset)  BY <3>1 DEF Waiting
        <4> QED  BY <3>1, <4>1 DEF Waiting, RunsAfter
      <3> QED  BY <3>2
    <2>2. CASE memory[r].call # t.call
      BY <1>1, <2>2
    <2> QED  BY <2>1, <2>2
  <1>6. outlived \subseteq outlived'  BY <1>1
  <1>7. answer(cache, uuid) \in Result  BY DEF Result
  <1>8. Ends
    BY <1>1, <1>2 DEF Ends, Waiting
  <1>9. Answers(n, answer(cache, uuid))
    BY <1>1, <1>3 DEF Answers
  <1> HIDE DEF n, mine, answer, good, named
  <1>10. \A q \in DOMAIN n : memory[q].call \in outlived' \/ n[q] = memory[q].asset
    BY <1>3, <1>5
  <1> QED  BY <1>4, <1>6, <1>7, <1>8, <1>9, <1>10, AnswerKeeps

LEMMA ItemCompleteKeeps ==
    ASSUME IInv, NEW t \in transfers, t.req = {}, NEW result \in Result,
           ItemComplete(t, result), transfers' = transfers \ {t}, UNCHANGED mPendingUploads
    PROVE  IInv'
  <1>file. PICK file_id \in FileIds(t, result) :
            \E cache \in Left(file_id, result), answer \in Result :
                /\ vfs' \in {cache, [cache EXCEPT ![file_id] = "none"]}
                /\ calls' = [calls EXCEPT ![t.call].answers =
                                Append(@, [result |-> answer, asset |-> file_id])]
                /\ UNCHANGED <<memory, mPendingDownloads, outlived>>
    BY DEF ItemComplete, Result
  <1>1. PICK cache \in Left(file_id, result), answer \in Result :
            /\ vfs' \in {cache, [cache EXCEPT ![file_id] = "none"]}
            /\ calls' = [calls EXCEPT ![t.call].answers =
                            Append(@, [result |-> answer, asset |-> file_id])]
            /\ UNCHANGED <<memory, mPendingDownloads, outlived>>
    BY <1>file
  <1>2. t.asset \in Key  BY DEF IInv, Types, TransferType
  <1>3. vfs' \in [Asset -> Content]  BY <1>1, LeftType
  <1>4. /\ t.call \in DOMAIN calls /\ calls[t.call].asset = t.asset
        /\ calls[t.call].kind \in {"item", "estate"} /\ calls[t.call] \in CallType
    BY CallParts DEF IInv, ItemsOK
  <1>0. file_id \in Key /\ (calls[t.call].kind # "item" => file_id = t.asset)
    BY <1>2 DEF FileIds, Key
  <1> DEFINE a == [result |-> answer, asset |-> file_id]
             more == Append(calls[t.call].answers, a)
             c == [calls[t.call] EXCEPT !.answers = more]
  <1>5. /\ more \in Seq(AnswerType)
        /\ Len(more) = Len(calls[t.call].answers) + 1
        /\ \A i \in DOMAIN more :
            \/ i \in DOMAIN calls[t.call].answers /\ more[i] = calls[t.call].answers[i]
            \/ more[i] = a
    <2>1. a \in AnswerType  BY <1>0 DEF AnswerType
    <2>2. calls[t.call].answers \in Seq(AnswerType)  BY <1>4, CallParts
    <2> HIDE DEF a
    <2> QED  BY <2>1, <2>2
  <1> HIDE DEF more
  <1>6. c \in CallType /\ c.kind = calls[t.call].kind /\ c.asset = t.asset /\ c.answers = more
    BY <1>4, <1>5 DEF CallType
  <1>7. calls' = [calls EXCEPT ![t.call] = c]  BY <1>1 DEF more
  <1> HIDE DEF c
  <1>8. calls' \in Seq(CallType) /\ DOMAIN calls' = DOMAIN calls
    <2>1. calls \in Seq(CallType)  BY DEF IInv, Types
    <2>2. DOMAIN calls = 1 .. Len(calls) /\ Len(calls) \in Nat
          /\ calls \in [1 .. Len(calls) -> CallType]
      BY <2>1
    <2>3. calls' \in [1 .. Len(calls) -> CallType]  BY <1>6, <1>7, <2>2
    <2> QED  BY <2>2, <2>3
  <1>9. /\ \A k \in DOMAIN calls : k # t.call => calls'[k] = calls[k]
        /\ calls'[t.call] = c
        /\ \A k \in DOMAIN calls : calls'[k].kind = calls[k].kind /\ calls'[k].asset = calls[k].asset
    BY <1>4, <1>6, <1>7
  <1>10. Types'  BY <1>3, <1>8 DEF IInv, Types
  <1>11. ListsOK'
    <2>1. \A r \in Pending : calls'[memory[r].call].kind = calls[memory[r].call].kind
                            /\ calls'[memory[r].call].asset = calls[memory[r].call].asset
      BY <1>9, RequestParts
    <2>2. Pending' = Pending  BY <1>1 DEF Pending
    <2>3. UNCHANGED <<memory, mPendingDownloads, mPendingUploads>>  BY <1>1
    <2> HIDE DEF a
    <2>4. ASSUME NEW r \in Pending
          PROVE  /\ memory[r].call \in DOMAIN calls'
                 /\ memory[r].asset = calls'[memory[r].call].asset /\ memory[r].asset \in Asset
                 /\ calls'[memory[r].call].kind \in
                        IF r \in mPendingDownloads THEN {"download"} ELSE {"upload", "unreadable"}
      BY <1>8, <2>1 DEF IInv, ListsOK
    <2> QED  BY <2>2, <2>3, <2>4 DEF IInv, ListsOK
  <1>12. ItemsOK'  BY <1>8, <1>9 DEF IInv, ItemsOK
  <1>13. StartersOK' /\ NobodyWaitsInVain'
    BY <1>1 DEF IInv, StartersOK, NobodyWaitsInVain, Waiting, Earlier
  <1>14. NamesItsAsset'
    <2>1. \A i \in DOMAIN more :
            t.call \notin outlived /\ calls[t.call].kind # "item" => more[i].asset = t.asset
      BY <1>0, <1>4, <1>5 DEF IInv, NamesItsAsset, Renamed
    <2> SUFFICES ASSUME NEW k \in DOMAIN calls' \ outlived', calls'[k].kind # "item",
                        NEW i \in DOMAIN calls'[k].answers
                 PROVE  calls'[k].answers[i].asset = calls'[k].asset
      BY DEF NamesItsAsset, Renamed
    <2>2. k \in DOMAIN calls \ outlived /\ calls[k].kind # "item"  BY <1>1, <1>8, <1>9
    <2>3. CASE k = t.call  BY <1>6, <1>9, <2>1, <2>2, <2>3
    <2>4. CASE k # t.call
      <3>1. calls'[k] = calls[k]  BY <1>9, <2>2, <2>4
      <3> QED  BY <2>2, <3>1 DEF IInv, NamesItsAsset, Renamed
    <2> QED  BY <2>3, <2>4
  <1>15. AnsweredOnce'
    <2>1. \A k \in DOMAIN calls : k # t.call => (InList(k)' <=> InList(k))
      BY <1>1 DEF InList, Pending
    <2>2. \A k : k = t.call => ~InList(k)'
      <3>1. \A r \in Pending : memory[r].call # t.call  BY <1>4, RequestParts
      <3>2. \A u \in transfers : u.req = {} /\ u.call = t.call => u = t
        BY DEF IInv, ItemsOK
      <3>3. Pending' = Pending /\ memory' = memory  BY <1>1 DEF Pending
      <3> QED  BY <3>1, <3>2, <3>3 DEF InList
    <2>3. Len(calls[t.call].answers) = 0
      BY <1>4 DEF IInv, AnsweredOnce, InList
    <2>4. \A k \in DOMAIN calls : calls'[k].kind # "unreadable" =>
                Len(calls'[k].answers) = IF InList(k)' THEN 0 ELSE 1
      <3> TAKE k \in DOMAIN calls
      <3>1. CASE k = t.call
        <4>1. Len(calls'[k].answers) = 1  BY <1>5, <1>6, <1>9, <2>3, <3>1
        <4>2. ~InList(k)'  BY <2>2, <3>1
        <4> QED  BY <4>1, <4>2
      <3>2. CASE k # t.call  BY <1>9, <2>1, <3>2 DEF IInv, AnsweredOnce
      <3> QED  BY <3>1, <3>2
    <2> QED  BY <1>8, <2>4 DEF AnsweredOnce
  <1> QED  BY <1>10, <1>11, <1>12, <1>13, <1>14, <1>15 DEF IInv

LEMMA TransferDoneKeeps ==
    ASSUME IInv, NEW t \in transfers, NEW result \in Result, TransferDone(t, result)
    PROVE  IInv'
  BY DownloadCompleteKeeps, ItemCompleteKeeps DEF TransferDone

LEMMA FetchKeeps ==
    ASSUME IInv, NEW kind \in {"item", "estate"}, NEW a \in Key, kind # "item" => a \in Asset,
           Fetch(kind, a), UNCHANGED <<memory, mPendingDownloads, mPendingUploads, outlived>>
    PROVE  IInv'
  <1> DEFINE removed == [b \in Asset |-> IF b = a THEN "none" ELSE vfs[b]]
  <1>1. vfs \in [Asset -> Content] /\ removed \in [Asset -> Content] /\ kind \in Kind
    BY CacheType DEF Content, Kind
  <1>2. CASE Called(kind, a, <<"NOERR">>) /\ UNCHANGED <<vfs, transfers>>
    BY <1>1, <1>2, AnsweredAtOnce
  <1>3. CASE Called(kind, a, <<"FAILED">>) /\ vfs' = removed /\ UNCHANGED transfers
    BY <1>1, <1>3, AnsweredAtOnce
  <1>4. CASE /\ Called(kind, a, <<>>) /\ vfs' = removed
             /\ transfers' = transfers \cup {[call |-> NewCall, asset |-> a, req |-> {}]}
    BY <1>1, <1>4, NewItemKeeps
  <1> QED  BY <1>2, <1>3, <1>4 DEF Fetch, NewCall

LEMMA GetKeeps ==
    ASSUME IInv, NEW a \in Key, Get(a)
    PROVE  IInv'
  <1>1. /\ vfs \in [Asset -> Content] /\ [vfs EXCEPT ![a] = "none"] \in [Asset -> Content]
        /\ {"download", "item", "estate"} \subseteq Kind
    BY CacheType DEF Content, Kind
  <1>2. UNCHANGED <<mPendingUploads, outlived>>  BY DEF Get
  <1>3. CASE GetInvItemAsset(a) /\ UNCHANGED <<memory, mPendingDownloads>>
    BY <1>2, <1>3, FetchKeeps DEF GetInvItemAsset
  <1>5. CASE GetEstateAsset(a) /\ UNCHANGED <<memory, mPendingDownloads>>
    <2>1. CASE a \in Asset /\ Fetch("estate", a)
      BY <1>2, <1>5, <2>1, FetchKeeps
    <2>2. CASE Called("estate", a, <<"FAILED">>) /\ UNCHANGED <<vfs, transfers>>
      BY <1>1, <1>2, <1>5, <2>2, AnsweredAtOnce
    <2> QED  BY <1>5, <2>1, <2>2 DEF GetEstateAsset
  <1>4. ASSUME NEW c \in Caller, GetAssetData(a, c), a \in Asset  PROVE IInv'
    <2>1. CASE /\ Called("download", a, <<"NOERR">>)
               /\ UNCHANGED <<vfs, memory, mPendingDownloads, transfers>>
      BY <1>1, <1>2, <2>1, AnsweredAtOnce
    <2>2. CASE /\ Called("download", a, <<"FAILED">>) /\ vfs' = [vfs EXCEPT ![a] = "none"]
               /\ UNCHANGED <<memory, mPendingDownloads, transfers>>
      BY <1>1, <1>2, <2>2, AnsweredAtOnce
    <2>3. ASSUME NEW r, Called("download", a, <<>>), vfs' = [vfs EXCEPT ![a] = "none"],
                 NewRequest(r, a, c), mPendingDownloads' = mPendingDownloads \cup {r},
                 transfers' = IF Duplicate(a) THEN transfers
                        ELSE transfers \cup {[call |-> NewCall, asset |-> a, req |-> {r}]}
          PROVE  IInv'
      BY <1>1, <1>2, <1>4, <2>3, NewDownloadKeeps
    <2> QED  BY <1>4, <2>1, <2>2, <2>3 DEF GetAssetData, NewCall, NewRequest
  <1> QED  BY <1>3, <1>4, <1>5 DEF Get

LEMMA StoreKeeps ==
    ASSUME IInv, NEW a \in Asset, StoreAssetData(a)
    PROVE  IInv'
  <1>1. /\ vfs \in [Asset -> Content]
        /\ "upload" \in Kind /\ a \in Key
        /\ UNCHANGED <<vfs, mPendingDownloads, transfers, outlived>>
    BY DEF StoreAssetData, Kind, Key, IInv, Types
  <1>2. CASE Called("upload", a, <<"FAILED">>) /\ UNCHANGED <<memory, mPendingUploads>>
    BY <1>1, <1>2, AnsweredAtOnce
  <1>3. ASSUME NEW r, NewRequest(r, a, NoCaller), mPendingUploads' = mPendingUploads \cup {r},
               Called("upload", a, <<>>) \/ Called("unreadable", a, <<"FAILED">>)
        PROVE  IInv'
    <2>1. CASE Called("upload", a, <<>>)  BY <1>1, <1>3, <2>1, NewUploadKeeps
    <2>2. CASE Called("unreadable", a, <<"FAILED">>)  BY <1>1, <1>3, <2>2, NewUploadKeeps
    <2> QED  BY <1>3, <2>1, <2>2
  <1> QED  BY <1>2, <1>3 DEF StoreAssetData, NewRequest

\* The steps that answer requests under the names of their own assets.
LEMMA OwnNamesKeep ==
    ASSUME IInv, NEW named, NEW result \in Result, Answers(named, result),
           \A r \in DOMAIN named : named[r] = memory[r].asset,
           UNCHANGED <<vfs, transfers, outlived>>
    PROVE  IInv'
  <1>1. Ends  BY DEF Ends
  <1>2. vfs' \in [Asset -> Content]  BY DEF IInv, Types
  <1> QED  BY <1>1, <1>2, AnswerKeeps

LEMMA TimeoutsKeep ==
    ASSUME IInv, CheckForTimeouts
    PROVE  IInv'
  <1>1. PICK n \in 1 .. MaxCalls :
            /\ mPendingDownloads' = mPendingDownloads \ Old(n)
            /\ Answer([r \in Old(n) |-> memory[r].asset], "FAILED")
            /\ UNCHANGED <<vfs, mPendingUploads, transfers, outlived>>
    BY DEF CheckForTimeouts
  <1> DEFINE named == [r \in Old(n) |-> memory[r].asset]
  <1>2. Old(n) \subseteq Pending /\ Old(n) \cap mPendingUploads = {}
    BY DEF Old, Pending, IInv, ListsOK
  <1>3. \A r \in Old(n) : memory[r].asset \in Asset  BY <1>2, RequestParts
  <1>4. Answers(named, "FAILED")  BY <1>1, <1>2, <1>3 DEF Answers
  <1>5. \A r \in DOMAIN named : named[r] = memory[r].asset  OBVIOUS
  <1> HIDE DEF named
  <1>6. "FAILED" \in Result  BY DEF Result
  <1> QED  BY <1>1, <1>4, <1>5, <1>6, OwnNamesKeep

LEMMA ShutdownKeeps ==
    ASSUME IInv, Shutdown
    PROVE  IInv'
  <1> DEFINE named == [r \in Pending |-> memory[r].asset]
  <1>1. \A r \in Pending : memory[r].asset \in Asset  BY RequestParts
  <1>2. Answers(named, "FAILED")  BY <1>1 DEF Answers, Shutdown, Pending
  <1>3. \A r \in DOMAIN named : named[r] = memory[r].asset  OBVIOUS
  <1> HIDE DEF named
  <1>4. "FAILED" \in Result  BY DEF Result
  <1>5. UNCHANGED <<vfs, transfers, outlived>>  BY DEF Shutdown
  <1> QED  BY <1>2, <1>3, <1>4, <1>5, OwnNamesKeep

LEMMA UploadCompleteKeeps ==
    ASSUME IInv, NEW a \in Asset, NEW result \in Result, UploadComplete(a, result)
    PROVE  IInv'
  <1> DEFINE mine == {r \in mPendingUploads : memory[r].asset = a}
             named == [r \in mine |-> a]
  <1>1. mine \subseteq Pending /\ mine \cap mPendingDownloads = {}
    BY DEF Pending, IInv, ListsOK
  <1>2. Answers(named, result)  BY <1>1 DEF Answers, UploadComplete
  <1>3. \A r \in DOMAIN named : named[r] = memory[r].asset  OBVIOUS
  <1> HIDE DEF named
  <1>4. UNCHANGED <<vfs, transfers, outlived>>  BY DEF UploadComplete
  <1> QED  BY <1>2, <1>3, <1>4, OwnNamesKeep

LEMMA NextKeeps == IInv /\ [Next]_vars => IInv'
  <1> SUFFICES ASSUME IInv, [Next]_vars  PROVE IInv'
    OBVIOUS
  <1>0. Result = {"NOERR", "FAILED"} /\ {"none", "whole"} \subseteq Content
    BY DEF Result, Content
  <1>1. CASE SetUpstream
    <2>1. vfs' \in [Asset -> Content]  BY <1>1 DEF SetUpstream, IInv, Types
    <2> QED  BY <1>1, <2>1, QuietKeeps DEF SetUpstream
  <1>2. ASSUME NEW a \in Asset, Evict(a)  PROVE IInv'
    <2>1. vfs' \in [Asset -> Content]  BY <1>0, <1>2, CacheType DEF Evict
    <2> QED  BY <1>2, <2>1, QuietKeeps DEF Evict
  <1>3. ASSUME NEW a \in Asset, WriteFile(a)  PROVE IInv'
    <2>1. vfs' \in [Asset -> Content]  BY <1>0, <1>3, CacheType DEF WriteFile
    <2> QED  BY <1>3, <2>1, QuietKeeps DEF WriteFile
  <1>4. CASE UNCHANGED vars
    <2>1. vfs' \in [Asset -> Content]  BY <1>4 DEF vars, IInv, Types
    <2> QED  BY <1>4, <2>1, QuietKeeps DEF vars
  <1>5. CASE CheckForTimeouts  BY <1>5, TimeoutsKeep
  <1>6. CASE Shutdown  BY <1>6, ShutdownKeeps
  <1>7. ASSUME NEW a \in Key, Get(a)  PROVE IInv'
    BY <1>7, GetKeeps
  <1>10. ASSUME NEW a \in Asset, StoreAssetData(a)  PROVE IInv'
    BY <1>10, StoreKeeps
  <1>8. ASSUME NEW t \in transfers, NEW result \in Result, TransferDone(t, result)  PROVE IInv'
    BY <1>8, TransferDoneKeeps
  <1>9. ASSUME NEW a \in Asset, NEW result \in Result, UploadComplete(a, result)  PROVE IInv'
    BY <1>9, UploadCompleteKeeps
  <1> QED  BY <1>0, <1>1, <1>2, <1>3, <1>4, <1>5, <1>6, <1>7, <1>8, <1>9, <1>10 DEF Next
-----------------------------------------------------------------------------
(* Success                                                                 *)

\* The calls that a step answers with success, if it adds an answer to some.
LEMMA AnsweredCalls ==
    ASSUME IInv, NEW named, NEW result \in Result, Answers(named, result),
           NEW k \in DOMAIN calls', HearsSuccess(k)
    PROVE  /\ result = "NOERR"
           /\ \E r \in DOMAIN named :
                memory[r].call = k /\ calls'[k].answers[Len(calls'[k].answers)].asset = named[r]
           /\ k \in DOMAIN calls /\ calls'[k].kind = calls[k].kind
  <1>1. /\ k \in DOMAIN calls /\ calls'[k].kind = calls[k].kind
        /\ calls'[k].asset = calls[k].asset
        /\ calls'[k] # calls[k] => \E r \in DOMAIN named : memory[r].call = k
    BY AnswerCalls DEF Answers
  <1>2. calls[k].answers \in Seq(AnswerType)  BY <1>1, CallParts
  <1>3. calls'[k] # calls[k]  BY <1>1, <1>2 DEF HearsSuccess
  <1>4. PICK r \in DOMAIN named : memory[r].call = k  BY <1>1, <1>3
  <1>5. \A q \in DOMAIN named :
            calls'[memory[q].call].answers = Append(calls[memory[q].call].answers,
                                        [result |-> result, asset |-> named[q]])
    BY AnswerCalls DEF Answers
  <1>6. calls'[k].answers = Append(calls[k].answers, [result |-> result, asset |-> named[r]])
    BY <1>4, <1>5
  <1>7. calls'[k].answers[Len(calls'[k].answers)] = [result |-> result, asset |-> named[r]]
    BY <1>2, <1>6
  <1> QED  BY <1>1, <1>4, <1>7 DEF HearsSuccess

\* A call is answered as it begins only with a file in the cache.
LEMMA CalledSuccess ==
    ASSUME IInv, NEW kind \in Kind, NEW a \in Key,
           NEW results \in {<<>>, <<"NOERR">>, <<"FAILED">>}, Called(kind, a, results),
           results = <<"NOERR">> => vfs'[a] = "whole"
    PROVE  SuccessWithFile
  <1>1. /\ DOMAIN calls' = DOMAIN calls \cup {NewCall}
        /\ \A j \in DOMAIN calls : calls'[j] = calls[j]
        /\ calls'[NewCall].asset = a /\ Len(calls'[NewCall].answers) = Len(results)
        /\ calls' \in Seq(CallType)
        /\ \A i \in DOMAIN calls'[NewCall].answers :
                /\ calls'[NewCall].answers[i].result = results[i]
                /\ calls'[NewCall].answers[i].asset = a
    <2>1. DOMAIN calls' = DOMAIN calls \cup {NewCall} /\ calls' \in Seq(CallType)  BY CalledCalls
    <2>2. \A j \in DOMAIN calls : calls'[j] = calls[j]  BY CalledCalls
    <2>3. calls'[NewCall].asset = a /\ Len(calls'[NewCall].answers) = Len(results)  BY CalledCalls
    <2>4. \A i \in DOMAIN calls'[NewCall].answers :
            /\ calls'[NewCall].answers[i].result = results[i]
            /\ calls'[NewCall].answers[i].asset = a
      BY CalledCalls
    <2> QED  BY <2>1, <2>2, <2>3, <2>4
  <1> SUFFICES ASSUME NEW k \in DOMAIN calls' \ outlived', HearsSuccess(k)
               PROVE  vfs'[calls'[k].answers[Len(calls'[k].answers)].asset] = "whole"
    BY DEF SuccessWithFile
  <1>2. k \notin DOMAIN calls
    <2> SUFFICES ASSUME k \in DOMAIN calls  PROVE FALSE
      OBVIOUS
    <2>1. calls'[k].answers = calls[k].answers  BY <1>1
    <2>2. calls[k].answers \in Seq(AnswerType)  BY CallParts
    <2> QED  BY <2>1, <2>2 DEF HearsSuccess
  <1>3. k = NewCall  BY <1>1, <1>2
  <1> DEFINE new == calls'[NewCall]
  <1>4. new.answers \in Seq(AnswerType)
    <2>0. calls' \in Seq(CallType) /\ NewCall \in DOMAIN calls'  BY <1>1
    <2>1. calls' \in [1 .. Len(calls') -> CallType]  BY <2>0
    <2>2. new \in CallType  BY <2>0, <2>1
    <2> QED  BY <2>2 DEF CallType
  <1>5. Len(results) > 0 /\ new.answers[Len(results)].result = "NOERR"
    BY <1>1, <1>2, <1>3 DEF HearsSuccess
  <1>6. Len(results) \in Nat  OBVIOUS
  <1>7. /\ new.answers[Len(results)].result = results[Len(results)]
        /\ new.answers[Len(results)].asset = a
    BY <1>1, <1>4, <1>5, <1>6
  <1>8. results = <<"NOERR">>
    <2>1. CASE results = <<>>  BY <1>5, <2>1
    <2>2. CASE results = <<"FAILED">>  BY <1>5, <1>7, <2>2
    <2> QED  BY <2>1, <2>2
  <1> QED  BY <1>1, <1>3, <1>7, <1>8

LEMMA DownloadSuccess ==
    ASSUME IInv, NEW t \in transfers, NEW r \in t.req, NEW result \in Result,
           DownloadComplete(t, r, result), UNCHANGED mPendingUploads
    PROVE  SuccessWithFile
  <1> DEFINE found == r \in mPendingDownloads
             mine == Waiting(t.asset) \cup ({r} \cap mPendingDownloads)
             named(after, uuid) ==
                [q \in mine |-> IF found /\ RunsAfter(q, r) THEN after ELSE uuid]
             good(cache, uuid) == result = "NOERR" /\ Present(cache, uuid)
             answer(cache, uuid) == IF good(cache, uuid) THEN "NOERR" ELSE "FAILED"
  <1>1. PICK cache \in Left(t.asset, result), after \in Asset,
             uuid \in IF r \in mPendingDownloads THEN {t.asset} ELSE Asset :
            /\ vfs' = IF result = "NOERR" /\ ~good(cache, uuid)
                      THEN [cache EXCEPT ![uuid] = "none"] ELSE cache
            /\ Answer(named(after, uuid), answer(cache, uuid))
            /\ mPendingDownloads' = mPendingDownloads \ mine
            /\ outlived' = IF memory[r].call = t.call THEN outlived
                           ELSE outlived \cup {memory[q].call : q \in mine}
    BY DEF DownloadComplete
  <1> DEFINE n == named(after, uuid)
  <1>2. uuid \in Asset
    BY DEF IInv, ItemsOK
  <1>3. /\ mine \subseteq mPendingDownloads /\ mine \subseteq Pending
        /\ mine \cap mPendingUploads = {} /\ DOMAIN n = mine
        /\ \A q \in mine : n[q] \in Asset
    BY <1>2 DEF Waiting, Pending, IInv, ListsOK
  <1>4. answer(cache, uuid) \in Result  BY DEF Result
  <1>5. Answers(n, answer(cache, uuid))
    BY <1>1, <1>3 DEF Answers
  <1> SUFFICES ASSUME NEW k \in DOMAIN calls' \ outlived', HearsSuccess(k)
               PROVE  vfs'[calls'[k].answers[Len(calls'[k].answers)].asset] = "whole"
    BY DEF SuccessWithFile
  <1>6. \A q \in mine : memory[r].call = t.call => n[q] = t.asset
    <2> SUFFICES ASSUME NEW q \in mine, memory[r].call = t.call  PROVE n[q] = t.asset
      OBVIOUS
    <2>1. /\ r \in mPendingDownloads /\ memory[r].asset = t.asset
          /\ \A p \in Waiting(t.asset) : ~Earlier(p, r)
      BY DownloadNames
    <2>2. uuid = t.asset /\ q \in Waiting(t.asset)  BY <2>1 DEF Waiting
    <2> QED  BY <2>1, <2>2 DEF RunsAfter
  <1> HIDE DEF n
  <1>7. PICK q \in mine : memory[q].call = k /\ answer(cache, uuid) = "NOERR"
                          /\ calls'[k].answers[Len(calls'[k].answers)].asset = n[q]
    BY <1>3, <1>4, <1>5, AnsweredCalls
  <1>8. memory[r].call = t.call  BY <1>1, <1>7
  <1>9. uuid = t.asset  BY <1>8, DownloadNames
  <1>10. good(cache, uuid) /\ vfs' = cache  BY <1>1, <1>7
  <1> QED  BY <1>6, <1>7, <1>8, <1>9, <1>10 DEF Present

LEMMA ItemSuccess ==
    ASSUME IInv, NEW t \in transfers, NEW result \in Result, ItemComplete(t, result)
    PROVE  SuccessWithFile
  <1>file. PICK file_id \in FileIds(t, result) :
            \E cache \in Left(file_id, result), answer \in Result :
                /\ answer = "NOERR" => Present(cache, file_id) /\ vfs' = cache
                /\ calls' = [calls EXCEPT ![t.call].answers =
                                Append(@, [result |-> answer, asset |-> file_id])]
    BY DEF ItemComplete, Result
  <1>1. PICK cache \in Left(file_id, result), answer \in Result :
            /\ answer = "NOERR" => Present(cache, file_id) /\ vfs' = cache
            /\ calls' = [calls EXCEPT ![t.call].answers =
                            Append(@, [result |-> answer, asset |-> file_id])]
    BY <1>file
  <1>2. t.call \in DOMAIN calls /\ calls[t.call] \in CallType
    BY CallParts DEF IInv, ItemsOK
  <1>3. calls \in Seq(CallType)  BY DEF IInv, Types
  <1>4. /\ DOMAIN calls' = DOMAIN calls
        /\ \A j \in DOMAIN calls : j # t.call => calls'[j] = calls[j]
        /\ calls'[t.call].answers =
                Append(calls[t.call].answers, [result |-> answer, asset |-> file_id])
    BY <1>1, <1>2 DEF CallType
  <1> SUFFICES ASSUME NEW k \in DOMAIN calls' \ outlived', HearsSuccess(k)
               PROVE  vfs'[calls'[k].answers[Len(calls'[k].answers)].asset] = "whole"
    BY DEF SuccessWithFile
  <1>5. calls[k].answers \in Seq(AnswerType)  BY <1>4, CallParts
  <1>6. k = t.call  BY <1>4, <1>5 DEF HearsSuccess
  <1>7. calls'[k].answers[Len(calls'[k].answers)] = [result |-> answer, asset |-> file_id]
    BY <1>4, <1>5, <1>6
  <1>8. answer = "NOERR"  BY <1>7 DEF HearsSuccess
  <1> QED  BY <1>1, <1>7, <1>8 DEF Present

LEMMA FailedSuccess ==
    ASSUME IInv, NEW named, Answers(named, "FAILED")
    PROVE  SuccessWithFile
  <1>1. "FAILED" \in Result  BY DEF Result
  <1> QED  BY <1>1, AnsweredCalls DEF SuccessWithFile

LEMMA UploadSuccess ==
    ASSUME IInv, NEW a \in Asset, NEW result \in Result, UploadComplete(a, result)
    PROVE  SuccessWithFile
  <1> DEFINE mine == {r \in mPendingUploads : memory[r].asset = a}
             named == [r \in mine |-> a]
  <1>1. mine \subseteq Pending /\ mine \cap mPendingDownloads = {}
    BY DEF Pending, IInv, ListsOK
  <1>2. Answers(named, result)  BY <1>1 DEF Answers, UploadComplete
  <1>3. DOMAIN named = mine  OBVIOUS
  <1> HIDE DEF named
  <1>4. ASSUME NEW k \in DOMAIN calls', HearsSuccess(k)
        PROVE  calls'[k].kind \in {"upload", "unreadable"}
    <2>1. calls'[k].kind = calls[k].kind /\ \E r \in DOMAIN named : memory[r].call = k
      BY <1>2, <1>4, AnsweredCalls
    <2>2. PICK r \in mine : memory[r].call = k  BY <1>3, <2>1
    <2> QED  BY <1>1, <2>1, <2>2 DEF IInv, ListsOK
  <1> QED  BY <1>4 DEF SuccessWithFile

LEMMA GetSuccess ==
    ASSUME IInv, NEW a \in Key, Get(a)
    PROVE  SuccessWithFile
  <1>1. {"download", "item", "estate"} \subseteq Kind  BY DEF Kind
  <1>2. PICK kind \in {"download", "item", "estate"},
             results \in {<<>>, <<"NOERR">>, <<"FAILED">>} :
            Called(kind, a, results) /\ (results = <<"NOERR">> => vfs'[a] = "whole")
    BY DEF Get, Fetch, GetInvItemAsset, GetEstateAsset, GetAssetData
  <1> QED  BY <1>1, <1>2, CalledSuccess

LEMMA StoreSuccess ==
    ASSUME IInv, NEW a \in Asset, StoreAssetData(a)
    PROVE  SuccessWithFile
  <1>1. "upload" \in Kind /\ "unreadable" \in Kind /\ a \in Key  BY DEF Kind, Key
  <1>2. PICK kind \in {"upload", "unreadable"}, results \in {<<>>, <<"FAILED">>} :
            Called(kind, a, results)
    BY DEF StoreAssetData
  <1> QED  BY <1>1, <1>2, CalledSuccess

LEMMA SameCallsSuccess ==
    ASSUME IInv, UNCHANGED calls
    PROVE  SuccessWithFile
  <1>1. \A k \in DOMAIN calls : Len(calls[k].answers) \in Nat  BY CallParts
  <1> QED  BY <1>1 DEF SuccessWithFile, HearsSuccess

LEMMA NextSuccess == IInv /\ [Next]_vars => [SuccessWithFile]_vars
  <1> SUFFICES ASSUME IInv, Next  PROVE SuccessWithFile
    OBVIOUS
  <1>0. Result = {"NOERR", "FAILED"}  BY DEF Result
  <1>1. CASE SetUpstream \/ \E a \in Asset : Evict(a) \/ WriteFile(a)
    <2>1. UNCHANGED calls  BY <1>1 DEF SetUpstream, Evict, WriteFile
    <2> QED  BY <2>1, SameCallsSuccess
  <1>2. CASE CheckForTimeouts \/ Shutdown
    <2>1. PICK named : Answers(named, "FAILED")
      <3>1. CASE CheckForTimeouts
        <4>1. PICK n \in 1 .. MaxCalls :
                /\ mPendingDownloads' = mPendingDownloads \ Old(n)
                /\ Answer([r \in Old(n) |-> memory[r].asset], "FAILED")
                /\ UNCHANGED mPendingUploads
          BY <3>1 DEF CheckForTimeouts
        <4>2. Old(n) \subseteq Pending /\ Old(n) \cap mPendingUploads = {}
          BY DEF Old, Pending, IInv, ListsOK
        <4>3. \A r \in Old(n) : memory[r].asset \in Asset  BY <4>2, RequestParts
        <4>4. Answers([r \in Old(n) |-> memory[r].asset], "FAILED")
          BY <4>1, <4>2, <4>3 DEF Answers
        <4> QED  BY <4>4
      <3>2. CASE Shutdown
        <4>1. \A r \in Pending : memory[r].asset \in Asset  BY RequestParts
        <4>2. Answers([r \in Pending |-> memory[r].asset], "FAILED")
          BY <3>2, <4>1 DEF Answers, Shutdown, Pending
        <4> QED  BY <4>2
      <3> QED  BY <1>2, <3>1, <3>2
    <2> QED  BY <2>1, FailedSuccess
  <1>3. ASSUME NEW a \in Key, Get(a)  PROVE SuccessWithFile
    BY <1>3, GetSuccess
  <1>6. ASSUME NEW a \in Asset, StoreAssetData(a)  PROVE SuccessWithFile
    BY <1>6, StoreSuccess
  <1>4. ASSUME NEW t \in transfers, NEW result \in Result, TransferDone(t, result)
        PROVE  SuccessWithFile
    BY <1>4, DownloadSuccess, ItemSuccess DEF TransferDone
  <1>5. ASSUME NEW a \in Asset, NEW result \in Result, UploadComplete(a, result)
        PROVE  SuccessWithFile
    BY <1>5, UploadSuccess
  <1> QED  BY <1>0, <1>1, <1>2, <1>3, <1>4, <1>5, <1>6 DEF Next
-----------------------------------------------------------------------------
\* The inductive invariant holds.
THEOREM InductiveInvariant == Spec => []IInv
  BY InitIInv, NextKeeps, PTL DEF Spec

\* Whatever times out, fails, is shut down or is answered by a transfer of
\* another request: a callback runs once, and not while its request waits.
THEOREM CallbackOnce == Spec => []AnsweredOnce
  <1>1. IInv => AnsweredOnce  BY DEF IInv
  <1> QED  BY <1>1, InductiveInvariant, PTL

\* A request that waits has a transfer that will answer it, its own or another's.
THEOREM TransferUnderWay == Spec => []NobodyWaitsInVain
  <1>1. IInv => NobodyWaitsInVain  BY DEF IInv
  <1> QED  BY <1>1, InductiveInvariant, PTL

\* A callback is told of the asset that was asked for, unless it asked for an
\* item, whose asset the simulator names, or a transfer answered it whose own
\* request was gone.
THEOREM RightAsset == Spec => []NamesItsAsset
  <1>1. IInv => NamesItsAsset  BY DEF IInv
  <1> QED  BY <1>1, InductiveInvariant, PTL

\* A callback hears of success only while the file of the asset that it is told
\* is there, unless a transfer answered it whose own request was gone.
THEOREM SuccessMeansThere == Spec => SuccessIsThere
  BY InductiveInvariant, NextSuccess, PTL DEF Spec, SuccessIsThere
=============================================================================
