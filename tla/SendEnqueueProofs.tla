--------------------------- MODULE SendEnqueueProofs ---------------------------
(***************************************************************************)
(* Machine-checked proofs about SendEnqueue, for any set of requests, any  *)
(* lifetime of the Idempotency-Key that is twice the function's timeout or *)
(* more, and however answers are lost and steps interleave.                *)
(***************************************************************************)
EXTENDS SendEnqueue, TLAPS

Answer == [code : {"none", "ok", "409", "error"}, msg : Requests \cup {{}}]

RequestState ==
    [pc : PC, at : Nat, tries : Nat, why : {"none", "error", "keyExists"}, answer : Answer]

KeyRow == [msg : Requests, hash : Bodies, expires : Nat \ {0}]

TypeOK ==
    /\ now \in Nat
    /\ key \in KeyRow \cup {NoKey}
    /\ committed \in SUBSET Requests
    /\ settled \in SUBSET committed
    /\ bucket \in [Requests -> SUBSET Objects]
    /\ req \in [Requests -> RequestState]
    /\ leaky \in SUBSET Requests

\* A request under way is not older than its function's timeout.
Clock(r) ==
    /\ req[r].at <= now
    /\ Running(r) => now <= req[r].at + Timeout

\* What is true of a request where it is: what it may have committed, why it
\* discards, and whether it has answered.
Stage(r) ==
    LET q == req[r] IN
    /\ r \in committed => q.pc \in {"committing", "discardSpec", "discardParts", "replaying", "done"}
    /\ q.pc \in {"start", "uploadParts", "uploadSpec", "storeContent", "committing"} => q.why = "none"
    /\ q.pc \in {"discardSpec", "discardParts"} => q.why # "none"
    /\ q.pc = "replaying" => q.why = "keyExists"
    /\ q.why = "keyExists" => r \in Keyed
    /\ q.answer.code = "ok" => q.pc = "done"

\* What of a request's uploads is there, where it is.
Stored(r) ==
    LET q == req[r] IN
    /\ q.pc \in {"start", "uploadParts"} => bucket[r] = {}
    /\ q.pc = "uploadSpec" => bucket[r] = {"parts"}
    /\ q.pc \in {"storeContent", "committing"} /\ r \notin settled => bucket[r] = Objects
    /\ q.pc = "discardParts" /\ r \notin leaky => "spec" \notin bucket[r]
    /\ q.pc = "replaying" /\ r \notin leaky => bucket[r] = {}
    /\ r \in committed \ settled /\ q.why = "none" => bucket[r] = Objects
    /\ q.pc = "done" /\ r \notin committed \cup leaky => bucket[r] = {}

\* The key row is that of a committed send.
KeyIsTrue ==
    key # NoKey => /\ key.msg \in committed \cap Keyed
                   /\ key.hash = Body[key.msg]
                   /\ key.expires = req[key.msg].at + KeyTtl

\* A keyed send whose row is gone has outlived it.
RowsLast ==
    \A r \in committed \cap Keyed : (key # NoKey /\ key.msg = r) \/ req[r].at + KeyTtl < now

\* Between a request under way and a send committed under the key: the send's row
\* had expired when the request looked, or outlasts the request.
Apart ==
    \A r \in Keyed, c \in committed \cap Keyed :
       Running(r) /\ r # c => \/ req[c].at + KeyTtl < req[r].at
                              \/ req[r].at + Timeout <= req[c].at + KeyTtl

KeyInv == KeyIsTrue /\ RowsLast /\ Apart /\ OneSendPerKeyLifetime

\* AnswersAreTrue, of one request.
AnswerIsTrue(r) ==
    LET answer == req[r].answer IN
    answer.code = "ok" =>
       /\ answer.msg \in committed
       /\ Body[answer.msg] = Body[r]
       /\ answer.msg # r => {r, answer.msg} \subseteq Keyed /\ r \notin committed

Holds(r) == Stage(r) /\ Stored(r) /\ AnswerIsTrue(r)

\* The inductive invariant.
EnqueueInv ==
    /\ TypeOK
    /\ \A r \in Requests : Clock(r)
    /\ \A r \in Requests : Holds(r)
    /\ KeyInv

-----------------------------------------------------------------------------
(***************************************************************************)
(* A request's record and its answers.                                     *)
(***************************************************************************)

LEMMA AnswerTypes ==
    /\ \A m \in Requests : Accepted(m) \in Answer /\ Accepted(m).code = "ok" /\ Accepted(m).msg = m
    /\ Conflict \in Answer /\ Conflict.code = "409"
    /\ Error \in Answer /\ Error.code = "error"
    /\ NoAnswer \in Answer /\ NoAnswer.code = "none"
BY DEF Accepted, Conflict, Error, NoAnswer, Answer

\* A row is not the absent one: it expires after the epoch.
LEMMA RowIsARow ==
    ASSUME NEW k \in KeyRow
    PROVE  k # NoKey
BY DEF KeyRow, NoKey

\* replay_key answers with the row's message, or not at all.
LEMMA ReplayFacts ==
    ASSUME TypeOK, NEW r \in Requests
    PROVE  /\ ReplayKey(r) \in Answer
           /\ ReplayKey(r) = NoAnswer => key = NoKey \/ key.expires < now
           /\ ReplayKey(r).code = "ok" =>
                 key # NoKey /\ key.expires >= now /\ key.hash = Body[r] /\ ReplayKey(r).msg = key.msg
<1>1. CASE key = NoKey \/ key.expires < now
  <2>1. ~(key # NoKey /\ key.expires >= now /\ key.hash = Body[r])
    BY <1>1 DEF TypeOK, KeyRow
  <2>2. ReplayKey(r) = NoAnswer
    BY <1>1, <2>1 DEF ReplayKey
  <2> QED BY <1>1, <2>2, AnswerTypes
<1>2. CASE ~(key = NoKey \/ key.expires < now) /\ key.hash = Body[r]
  <2>1. key # NoKey /\ key \in KeyRow
    BY <1>2 DEF TypeOK
  <2>2. key.expires >= now /\ key.msg \in Requests
    BY <1>2, <2>1 DEF TypeOK, KeyRow
  <2>3. ReplayKey(r) = Accepted(key.msg)
    BY <1>2, <2>1, <2>2 DEF ReplayKey
  <2>4. Accepted(key.msg) \in Answer /\ Accepted(key.msg).msg = key.msg /\ Accepted(key.msg).code = "ok"
    BY <2>2, AnswerTypes
  <2>5. Accepted(key.msg) # NoAnswer
    BY <2>4, AnswerTypes
  <2> QED BY <1>2, <2>1, <2>2, <2>3, <2>4, <2>5
<1>3. CASE ~(key = NoKey \/ key.expires < now) /\ key.hash # Body[r]
  <2>1. ReplayKey(r) = Conflict
    BY <1>3 DEF ReplayKey
  <2>2. Conflict # NoAnswer
    BY AnswerTypes
  <2> QED BY <2>1, <2>2, AnswerTypes
<1> QED BY <1>1, <1>2, <1>3

-----------------------------------------------------------------------------
(***************************************************************************)
(* What a step of one request leaves alone.                                *)
(***************************************************************************)

\* As long as nothing is committed and no time passes, the key's facts stand.
LEMMA SameTimesKeep ==
    ASSUME EnqueueInv, UNCHANGED <<now, key, committed>>,
           \A x \in Requests : req'[x].at = req[x].at /\ (Running(x)' => Running(x))
    PROVE  KeyInv' /\ \A x \in Requests : Clock(x)'
<1>1. Keyed \subseteq Requests /\ committed \subseteq Requests
  BY RequestsAssumption DEF EnqueueInv, TypeOK
<1>2. KeyIsTrue'
  BY <1>1 DEF EnqueueInv, KeyInv, KeyIsTrue
<1>3. RowsLast'
  BY <1>1 DEF EnqueueInv, KeyInv, RowsLast
<1>4. Apart'
  BY <1>1 DEF EnqueueInv, KeyInv, Apart
<1>5. OneSendPerKeyLifetime'
  BY <1>1 DEF EnqueueInv, KeyInv, OneSendPerKeyLifetime
<1>6. \A x \in Requests : Clock(x)'
  BY DEF EnqueueInv, Clock
<1> QED BY <1>2, <1>3, <1>4, <1>5, <1>6 DEF KeyInv

\* Other requests keep what holds of them.
LEMMA OthersKeep ==
    ASSUME EnqueueInv, NEW r \in Requests, NEW x \in Requests, x # r,
           req'[x] = req[x], bucket'[x] = bucket[x],
           committed \subseteq committed', committed' \subseteq committed \cup {r},
           settled \subseteq settled', settled' \subseteq settled \cup {r},
           leaky \subseteq leaky', leaky' \subseteq leaky \cup {r}
    PROVE  Holds(x)'
<1>1. Holds(x)
  BY DEF EnqueueInv
<1>2. (x \in committed' <=> x \in committed) /\ (x \in settled' <=> x \in settled)
        /\ (x \in leaky' <=> x \in leaky)
  OBVIOUS
<1>3. Stage(x)'
  BY <1>1, <1>2 DEF Holds, Stage
<1>4. Stored(x)'
  BY <1>1, <1>2 DEF Holds, Stored
<1>5. AnswerIsTrue(x)'
  BY <1>1, <1>2 DEF Holds, AnswerIsTrue
<1> QED BY <1>3, <1>4, <1>5 DEF Holds

\* A step of r that commits nothing keeps the invariant if it keeps r's part.
LEMMA QuietKeeps ==
    ASSUME EnqueueInv, NEW r \in Requests, NEW q \in RequestState,
           req' = [req EXCEPT ![r] = q],
           q.at = req[r].at, Running(r) \/ q.pc = "done",
           UNCHANGED <<now, key, committed, settled>>,
           bucket' \in [Requests -> SUBSET Objects],
           \A x \in Requests \ {r} : bucket'[x] = bucket[x],
           leaky \subseteq leaky', leaky' \subseteq leaky \cup {r},
           Holds(r)'
    PROVE  EnqueueInv'
<1>1. TypeOK
  BY DEF EnqueueInv
<1>2. req'[r] = q /\ \A x \in Requests \ {r} : req'[x] = req[x]
  BY <1>1 DEF TypeOK
<1>3. TypeOK'
  <2>1. req' \in [Requests -> RequestState]
    BY <1>1 DEF TypeOK
  <2>2. leaky' \in SUBSET Requests
    BY <1>1 DEF TypeOK
  <2> QED BY <1>1, <2>1, <2>2 DEF TypeOK
<1>4. \A x \in Requests : req'[x].at = req[x].at /\ (Running(x)' => Running(x))
  BY <1>2 DEF Running
<1>5. KeyInv' /\ \A x \in Requests : Clock(x)'
  BY <1>4, SameTimesKeep
<1>6. \A x \in Requests : Holds(x)'
  BY <1>2, OthersKeep
<1> QED BY <1>3, <1>5, <1>6 DEF EnqueueInv

-----------------------------------------------------------------------------
(***************************************************************************)
(* The steps of a request that commit nothing.                             *)
(***************************************************************************)

LEMMA RequestTyped ==
    ASSUME EnqueueInv, NEW r \in Requests
    PROVE  /\ req[r] \in RequestState /\ TypeOK /\ Holds(r)
           /\ bucket \in [Requests -> SUBSET Objects]
BY DEF EnqueueInv, TypeOK

\* The request answers with an error, from a place where it has left nothing.
LEMMA RefusesKeeps ==
    ASSUME EnqueueInv, NEW r \in Requests, Refuses(r)
    PROVE  EnqueueInv'
<1> DEFINE q == [req[r] EXCEPT !.pc = "done", !.answer = Error]
<1>0. req[r] \in RequestState
  BY RequestTyped
<1>1. q \in RequestState /\ q.pc = "done" /\ q.at = req[r].at /\ q.why = req[r].why /\ q.answer = Error
  BY <1>0, AnswerTypes DEF RequestState, PC
<1>2. req' = [req EXCEPT ![r] = q]
  BY DEF Refuses, Answers
<1> HIDE DEF q
<1>3. req'[r] = q
  BY <1>2, RequestTyped DEF TypeOK
<1>4. Holds(r)'
  BY <1>1, <1>3, RequestTyped, AnswerTypes DEF Refuses, Holds, Stage, Stored, AnswerIsTrue
<1> QED BY <1>1, <1>2, <1>4, RequestTyped, QuietKeeps DEF Refuses

\* The request stops where it is, to discard what it uploaded.
LEMMA DiscardKeeps ==
    ASSUME EnqueueInv, NEW r \in Requests, NEW why \in {"error", "keyExists"},
           Running(r), req[r].pc # "done", why = "keyExists" => r \in Keyed,
           req' = [req EXCEPT ![r].pc = "discardSpec", ![r].why = why],
           UNCHANGED <<now, key, committed, settled, leaky>>,
           bucket' \in [Requests -> SUBSET Objects],
           \A x \in Requests \ {r} : bucket'[x] = bucket[x]
    PROVE  EnqueueInv'
<1> DEFINE q == [req[r] EXCEPT !.pc = "discardSpec", !.why = why]
<1>0. req[r] \in RequestState
  BY RequestTyped
<1>1. q \in RequestState /\ q.pc = "discardSpec" /\ q.at = req[r].at /\ q.why = why /\ q.answer = req[r].answer
  BY <1>0 DEF RequestState, PC
<1>2. req' = [req EXCEPT ![r] = q]
  OBVIOUS
<1> HIDE DEF q
<1>3. req'[r] = q
  BY <1>2, RequestTyped DEF TypeOK
<1>4. Holds(r)'
  BY <1>1, <1>3, RequestTyped DEF Holds, Stage, Stored, AnswerIsTrue
<1> QED BY <1>1, <1>2, <1>4, QuietKeeps

\* The request goes on from where it has committed nothing.
LEMMA GoesKeeps ==
    ASSUME EnqueueInv, NEW r \in Requests, NEW pc \in PC \ {"start"},
           Running(r), Goes(r, pc),
           UNCHANGED <<now, key, committed, settled>>,
           bucket' \in [Requests -> SUBSET Objects],
           \A x \in Requests \ {r} : bucket'[x] = bucket[x],
           leaky \subseteq leaky', leaky' \subseteq leaky \cup {r},
           Stage(r)', Stored(r)'
    PROVE  EnqueueInv'
<1> DEFINE q == [req[r] EXCEPT !.pc = pc]
<1>0. req[r] \in RequestState
  BY RequestTyped
<1>1. q \in RequestState /\ q.pc = pc /\ q.at = req[r].at /\ q.why = req[r].why /\ q.answer = req[r].answer
  BY <1>0 DEF RequestState, PC
<1>2. req' = [req EXCEPT ![r] = q]
  BY DEF Goes
<1> HIDE DEF q
<1>3. req'[r] = q
  BY <1>2, RequestTyped DEF TypeOK
<1>4. Holds(r)'
  BY <1>1, <1>3, RequestTyped DEF Holds, AnswerIsTrue
<1> QED BY <1>1, <1>2, <1>4, QuietKeeps

\* What a request that goes on holds where it arrives.
LEMMA GoneTo ==
    ASSUME EnqueueInv, NEW r \in Requests, NEW pc \in PC, Goes(r, pc)
    PROVE  /\ req'[r].pc = pc
           /\ req'[r].why = req[r].why
           /\ req'[r].answer = req[r].answer
<1> DEFINE q == [req[r] EXCEPT !.pc = pc]
<1>0. req[r] \in RequestState
  BY RequestTyped
<1>1. q.pc = pc /\ q.why = req[r].why /\ q.answer = req[r].answer
  BY <1>0 DEF RequestState, PC
<1>2. req' = [req EXCEPT ![r] = q]
  BY DEF Goes
<1> HIDE DEF q
<1> QED BY <1>1, <1>2, RequestTyped DEF TypeOK

LEMMA UploadsPartsKeeps ==
    ASSUME EnqueueInv, NEW r \in Requests, UploadsParts(r)
    PROVE  EnqueueInv'
<1>1. /\ req[r].pc = "uploadParts" /\ Running(r)
      /\ UNCHANGED <<now, key, committed, settled, leaky>>
  BY DEF UploadsParts, Uploads, Running
<1>2. bucket' = [bucket EXCEPT ![r] = @ \cup {"parts"}] \/ bucket' = bucket
  BY DEF UploadsParts, Uploads
<1>3. bucket' \in [Requests -> SUBSET Objects] /\ \A x \in Requests \ {r} : bucket'[x] = bucket[x]
  BY <1>2, RequestTyped DEF Objects
<1>4. CASE DiscardAndFail(r)
  BY <1>1, <1>3, <1>4, DiscardKeeps DEF DiscardAndFail
<1>5. CASE Goes(r, "uploadSpec") /\ bucket' = [bucket EXCEPT ![r] = @ \cup {"parts"}]
  <2>1. bucket'[r] = {"parts"}
    BY <1>1, <1>5, RequestTyped DEF Holds, Stored
  <2>2. "uploadSpec" \in PC \ {"start"}
    BY DEF PC
  <2>3. Stage(r)' /\ Stored(r)'
    BY <1>1, <1>5, <2>1, <2>2, GoneTo, RequestTyped DEF Holds, Stage, Stored
  <2> QED BY <1>1, <1>3, <1>5, <2>2, <2>3, GoesKeeps
<1> QED BY <1>4, <1>5 DEF UploadsParts, Uploads

LEMMA UploadsSpecKeeps ==
    ASSUME EnqueueInv, NEW r \in Requests, UploadsSpec(r)
    PROVE  EnqueueInv'
<1>1. /\ req[r].pc = "uploadSpec" /\ Running(r)
      /\ UNCHANGED <<now, key, committed, settled, leaky>>
  BY DEF UploadsSpec, Uploads, Running
<1>2. bucket' = [bucket EXCEPT ![r] = @ \cup {"spec"}] \/ bucket' = bucket
  BY DEF UploadsSpec, Uploads
<1>3. bucket' \in [Requests -> SUBSET Objects] /\ \A x \in Requests \ {r} : bucket'[x] = bucket[x]
  BY <1>2, RequestTyped DEF Objects
<1>4. CASE DiscardAndFail(r)
  BY <1>1, <1>3, <1>4, DiscardKeeps DEF DiscardAndFail
<1>5. CASE Goes(r, "storeContent") /\ bucket' = [bucket EXCEPT ![r] = @ \cup {"spec"}]
  <2>1. bucket'[r] = Objects
    BY <1>1, <1>5, RequestTyped DEF Holds, Stored, Objects
  <2>2. "storeContent" \in PC \ {"start"}
    BY DEF PC
  <2>3. Stage(r)' /\ Stored(r)'
    BY <1>1, <1>5, <2>1, <2>2, GoneTo, RequestTyped DEF Holds, Stage, Stored
  <2> QED BY <1>1, <1>3, <1>5, <2>2, <2>3, GoesKeeps
<1> QED BY <1>4, <1>5 DEF UploadsSpec, Uploads

LEMMA StoresContentKeeps ==
    ASSUME EnqueueInv, NEW r \in Requests, StoresContent(r)
    PROVE  EnqueueInv'
<1>1. /\ req[r].pc = "storeContent" /\ Running(r)
      /\ UNCHANGED <<now, key, committed, settled, bucket, leaky>>
  BY DEF StoresContent, Running
<1>2. CASE DiscardAndFail(r)
  BY <1>1, <1>2, RequestTyped, DiscardKeeps DEF DiscardAndFail
<1>3. CASE Goes(r, "committing")
  <2>1. "committing" \in PC \ {"start"}
    BY DEF PC
  <2>2. Stage(r)' /\ Stored(r)'
    BY <1>1, <1>3, <2>1, GoneTo, RequestTyped DEF Holds, Stage, Stored
  <2> QED BY <1>1, <1>3, <2>1, <2>2, RequestTyped, GoesKeeps
<1> QED BY <1>2, <1>3 DEF StoresContent

\* The transaction is tried again, or given up.
LEMMA RetriesKeeps ==
    ASSUME EnqueueInv, NEW r \in Requests, MayCommit(r), Retries(r),
           UNCHANGED <<now, key, committed, settled, bucket, leaky>>
    PROVE  EnqueueInv'
<1>1. Running(r) /\ req[r].pc # "done"
  BY DEF MayCommit, Running
<1>2. CASE DiscardAndFail(r)
  BY <1>1, <1>2, RequestTyped, DiscardKeeps DEF DiscardAndFail
<1>3. CASE req' = [req EXCEPT ![r].tries = @ + 1]
  <2> DEFINE q == [req[r] EXCEPT !.tries = req[r].tries + 1]
  <2>0. req[r] \in RequestState
    BY RequestTyped
  <2>1. q \in RequestState /\ q.pc = req[r].pc /\ q.at = req[r].at /\ q.why = req[r].why /\ q.answer = req[r].answer
    BY <2>0 DEF RequestState
  <2>2. req' = [req EXCEPT ![r] = q]
    BY <1>3
  <2> HIDE DEF q
  <2>3. req'[r] = q
    BY <2>2, RequestTyped DEF TypeOK
  <2>4. Holds(r)'
    BY <2>1, <2>3, RequestTyped DEF Holds, Stage, Stored, AnswerIsTrue
  <2> QED BY <1>1, <2>1, <2>2, <2>4, RequestTyped, QuietKeeps
<1> QED BY <1>2, <1>3 DEF Retries

\* The request ends with an answer, its uploads committed or leaked.
LEMMA AnswersKeeps ==
    ASSUME EnqueueInv, NEW r \in Requests, NEW a \in Answer,
           Running(r), Answers(r, a),
           UNCHANGED <<now, key, committed, settled, bucket>>,
           leaky \subseteq leaky', leaky' \subseteq leaky \cup {r},
           r \in committed \cup leaky' \/ bucket[r] = {},
           AnswerIsTrue(r)'
    PROVE  EnqueueInv'
<1> DEFINE q == [req[r] EXCEPT !.pc = "done", !.answer = a]
<1>0. req[r] \in RequestState
  BY RequestTyped
<1>1. q \in RequestState /\ q.pc = "done" /\ q.at = req[r].at /\ q.why = req[r].why /\ q.answer = a
  BY <1>0 DEF RequestState, PC
<1>2. req' = [req EXCEPT ![r] = q]
  BY DEF Answers
<1> HIDE DEF q
<1>3. req'[r] = q
  BY <1>2, RequestTyped DEF TypeOK
<1>4. Stage(r)' /\ Stored(r)'
  BY <1>1, <1>3, RequestTyped DEF Holds, Stage, Stored
<1> QED BY <1>1, <1>2, <1>4, RequestTyped, QuietKeeps DEF Holds

LEMMA AnsweredWith ==
    ASSUME EnqueueInv, NEW r \in Requests, NEW a \in Answer, Answers(r, a)
    PROVE  req'[r].answer = a
<1> DEFINE q == [req[r] EXCEPT !.pc = "done", !.answer = a]
<1>0. req[r] \in RequestState
  BY RequestTyped
<1>1. q.answer = a
  BY <1>0 DEF RequestState, PC
<1>2. req' = [req EXCEPT ![r] = q]
  BY DEF Answers
<1> HIDE DEF q
<1> QED BY <1>1, <1>2, RequestTyped DEF TypeOK

LEMMA AlreadyQueuedKeeps ==
    ASSUME EnqueueInv, NEW r \in Requests, AlreadyQueued(r)
    PROVE  EnqueueInv'
<1>1. Accepted(r) \in Answer /\ Accepted(r).msg = r
  BY AnswerTypes
<1>2. req'[r].answer = Accepted(r)
  BY <1>1, AnsweredWith DEF AlreadyQueued
<1>3. AnswerIsTrue(r)'
  BY <1>1, <1>2 DEF AlreadyQueued, AnswerIsTrue
<1> QED BY <1>1, <1>3, AnswersKeeps DEF AlreadyQueued, MayCommit, Running

LEMMA KilledKeeps ==
    ASSUME EnqueueInv, NEW r \in Requests, Killed(r)
    PROVE  EnqueueInv'
<1>1. req'[r].answer = NoAnswer
  BY AnswerTypes, AnsweredWith DEF Killed
<1>2. AnswerIsTrue(r)'
  BY <1>1, AnswerTypes DEF AnswerIsTrue
<1> QED BY <1>2, AnswerTypes, AnswersKeeps DEF Killed, Running

\* While a request is under way, its own row is the key's.
LEMMA OwnRowStands ==
    ASSUME EnqueueInv, NEW r \in committed \cap Keyed, Running(r)
    PROVE  key # NoKey /\ key.msg = r
<1>1. r \in Requests /\ req[r] \in RequestState /\ now \in Nat
  BY RequestsAssumption DEF EnqueueInv, TypeOK
<1>2. req[r].at \in Nat /\ now <= req[r].at + Timeout
  BY <1>1 DEF EnqueueInv, Clock, RequestState
<1>3. ~(req[r].at + KeyTtl < now)
  BY <1>1, <1>2, TimesAssumption
<1> QED BY <1>3 DEF EnqueueInv, KeyInv, RowsLast

LEMMA ReplaysKeeps ==
    ASSUME EnqueueInv, NEW r \in Requests, Replays(r)
    PROVE  EnqueueInv'
<1>1. /\ req[r].pc = "replaying" /\ Running(r) /\ r \in Keyed
      /\ UNCHANGED <<now, key, committed, settled, bucket, leaky>>
  BY RequestTyped DEF Replays, Running, Holds, Stage
<1>2. r \in leaky \/ bucket[r] = {}
  BY <1>1, RequestTyped DEF Holds, Stored
<1>3. ASSUME NEW a \in Answer, Answers(r, a), a.code = "ok" => a = ReplayKey(r)
      PROVE  EnqueueInv'
  <2>1. req'[r].answer = a
    BY <1>3, AnsweredWith
  <2>2. AnswerIsTrue(r)'
    <3>1. CASE a.code # "ok"
      BY <2>1, <3>1 DEF AnswerIsTrue
    <3>2. CASE a.code = "ok"
      <4>1. key # NoKey /\ key.hash = Body[r] /\ a.msg = key.msg
        BY <1>3, <3>2, ReplayFacts, RequestTyped
      <4>2. key.msg \in committed \cap Keyed /\ key.hash = Body[key.msg]
        BY <4>1 DEF EnqueueInv, KeyInv, KeyIsTrue
      <4>3. key.msg # r => r \notin committed
        BY <1>1, OwnRowStands
      <4> QED BY <1>1, <2>1, <4>1, <4>2, <4>3 DEF AnswerIsTrue
    <3> QED BY <3>1, <3>2
  <2> QED BY <1>1, <1>2, <1>3, <2>2, AnswersKeeps
<1>4. PICK a : Answers(r, a) /\ a \in {Error, Conflict, ReplayKey(r)}
  BY DEF Replays
<1>5. a \in Answer
  BY <1>4, AnswerTypes, ReplayFacts, RequestTyped
<1>6. a.code = "ok" => a = ReplayKey(r)
  BY <1>4, AnswerTypes
<1> QED BY <1>3, <1>4, <1>5, <1>6

LEMMA DiscardsSpecKeeps ==
    ASSUME EnqueueInv, NEW r \in Requests, DiscardsSpec(r)
    PROVE  EnqueueInv'
<1>1. /\ req[r].pc = "discardSpec" /\ Running(r) /\ Goes(r, "discardParts")
      /\ UNCHANGED <<now, key, committed, settled>>
      /\ \/ bucket' = [bucket EXCEPT ![r] = @ \ {"spec"}] /\ UNCHANGED leaky
         \/ leaky' = leaky \cup {r} /\ UNCHANGED bucket
  BY DEF DiscardsSpec, Discards, Running, Goes
<1>2. /\ bucket' \in [Requests -> SUBSET Objects]
      /\ \A x \in Requests \ {r} : bucket'[x] = bucket[x]
      /\ r \in leaky' \/ "spec" \notin bucket'[r]
      /\ leaky \subseteq leaky' /\ leaky' \subseteq leaky \cup {r}
  BY <1>1, RequestTyped
<1>3. "discardParts" \in PC \ {"start"}
  BY DEF PC
<1>4. Stage(r)'
  BY <1>1, <1>3, GoneTo, RequestTyped DEF Holds, Stage
<1>5. Stored(r)'
  BY <1>1, <1>2, <1>3, GoneTo, RequestTyped DEF Holds, Stage, Stored
<1> QED BY <1>1, <1>2, <1>3, <1>4, <1>5, GoesKeeps

LEMMA DiscardsPartsKeeps ==
    ASSUME EnqueueInv, NEW r \in Requests, DiscardsParts(r)
    PROVE  EnqueueInv'
<1>1. /\ req[r].pc = "discardParts" /\ Running(r)
      /\ UNCHANGED <<now, key, committed, settled>>
      /\ \/ bucket' = [bucket EXCEPT ![r] = @ \ {"parts"}] /\ UNCHANGED leaky
         \/ leaky' = leaky \cup {r} /\ UNCHANGED bucket
  BY DEF DiscardsParts, Discards, Running
<1>2. /\ bucket' \in [Requests -> SUBSET Objects]
      /\ \A x \in Requests \ {r} : bucket'[x] = bucket[x]
      /\ leaky \subseteq leaky' /\ leaky' \subseteq leaky \cup {r}
      /\ r \in leaky' \/ bucket'[r] = {}
  BY <1>1, RequestTyped DEF Holds, Stored, Objects
<1>3. CASE req[r].why = "keyExists" /\ Goes(r, "replaying")
  <2>1. "replaying" \in PC \ {"start"}
    BY DEF PC
  <2>2. Stage(r)' /\ Stored(r)'
    BY <1>1, <1>2, <1>3, <2>1, GoneTo, RequestTyped DEF Holds, Stage, Stored
  <2> QED BY <1>1, <1>2, <1>3, <2>1, <2>2, GoesKeeps
<1>4. CASE Answers(r, Error)
  <2> DEFINE q == [req[r] EXCEPT !.pc = "done", !.answer = Error]
  <2>0. req[r] \in RequestState
    BY RequestTyped
  <2>1. q \in RequestState /\ q.pc = "done" /\ q.at = req[r].at /\ q.why = req[r].why /\ q.answer = Error
    BY <2>0, AnswerTypes DEF RequestState, PC
  <2>2. req' = [req EXCEPT ![r] = q]
    BY <1>4 DEF Answers
  <2> HIDE DEF q
  <2>3. req'[r] = q
    BY <2>2, RequestTyped DEF TypeOK
  <2>4. Holds(r)'
    BY <1>1, <1>2, <2>1, <2>3, AnswerTypes, RequestTyped DEF Holds, Stage, Stored, AnswerIsTrue
  <2> QED BY <1>1, <1>2, <2>1, <2>2, <2>4, QuietKeeps
<1> QED BY <1>3, <1>4 DEF DiscardsParts, Discards, Goes, Answers

-----------------------------------------------------------------------------
(***************************************************************************)
(* Looking the key up, and committing.                                     *)
(***************************************************************************)

\* A request that goes on from its lookup found every earlier row expired.
LEMMA LooksKeeps ==
    ASSUME EnqueueInv, NEW r \in Requests, Looks(r)
    PROVE  EnqueueInv'
<1> DEFINE answer == IF r \in Keyed THEN ReplayKey(r) ELSE NoAnswer
           pc == IF answer = NoAnswer THEN "uploadParts" ELSE "done"
           q == [req[r] EXCEPT !.pc = pc, !.at = now, !.answer = answer]
<1>0. req[r] \in RequestState /\ TypeOK
  BY RequestTyped
<1>1. /\ answer \in Answer
      /\ answer.code = "ok" =>
            r \in Keyed /\ key # NoKey /\ key.hash = Body[r] /\ answer.msg = key.msg
      /\ answer = NoAnswer /\ r \in Keyed => key = NoKey \/ key.expires < now
  BY <1>0, AnswerTypes, ReplayFacts
<1>2. /\ req[r].pc = "start" /\ r \notin committed
      /\ UNCHANGED <<now, key, committed, settled, bucket, leaky>>
  BY RequestTyped DEF Looks, Holds, Stage
<1>3. req' = [req EXCEPT ![r] = q]
  BY DEF Looks
<1>4. pc \in {"uploadParts", "done"} /\ (pc = "uploadParts" => answer = NoAnswer)
  OBVIOUS
<1> HIDE DEF answer, pc
<1>5. q \in RequestState /\ q.pc = pc /\ q.at = now /\ q.why = req[r].why /\ q.answer = answer
  BY <1>0, <1>1, <1>4 DEF RequestState, PC, TypeOK
<1> HIDE DEF q
<1>6. req'[r] = q /\ \A x \in Requests \ {r} : req'[x] = req[x]
  BY <1>0, <1>3 DEF TypeOK
<1>7. TypeOK'
  BY <1>0, <1>2, <1>3, <1>5 DEF TypeOK
<1>8. KeyIsTrue
  BY DEF EnqueueInv, KeyInv
<1>9. Holds(r)'
  <2>1. Stage(r)' /\ Stored(r)'
    BY <1>2, <1>4, <1>5, <1>6, AnswerTypes, RequestTyped DEF Holds, Stage, Stored
  <2>2. AnswerIsTrue(r)'
    BY <1>1, <1>2, <1>5, <1>6, <1>8 DEF AnswerIsTrue, KeyIsTrue
  <2> QED BY <2>1, <2>2 DEF Holds
<1>10. \A x \in Requests : Holds(x)'
  BY <1>2, <1>6, <1>9, OthersKeep
<1>11. \A x \in Requests : Clock(x)'
  BY <1>0, <1>2, <1>5, <1>6, TimesAssumption DEF EnqueueInv, Clock, Running, TypeOK
<1>12. \A c \in committed : req'[c] = req[c] /\ c \in Requests
  BY <1>0, <1>2, <1>6 DEF TypeOK
<1>13. KeyIsTrue' /\ RowsLast' /\ OneSendPerKeyLifetime'
  BY <1>2, <1>12 DEF EnqueueInv, KeyInv, KeyIsTrue, RowsLast, OneSendPerKeyLifetime
<1>14. Apart'
  <2>1. SUFFICES ASSUME NEW x \in Keyed, NEW c \in committed \cap Keyed, Running(x)', x # c
        PROVE  \/ req[c].at + KeyTtl < req'[x].at
               \/ req'[x].at + Timeout <= req[c].at + KeyTtl
    BY <1>2, <1>12 DEF Apart
  <2>2. CASE x = r
    <3>1. answer = NoAnswer
      BY <1>4, <1>5, <1>6, <2>1, <2>2 DEF Running
    <3>2. key = NoKey \/ key.expires < now
      BY <1>1, <2>1, <2>2, <3>1
    <3>3. req[c].at + KeyTtl < now
      BY <1>8, <2>1, <3>2 DEF EnqueueInv, KeyInv, RowsLast, KeyIsTrue
    <3> QED BY <1>5, <1>6, <2>2, <3>3
  <2>3. CASE x # r
    BY <1>6, <2>1, <2>3, RequestsAssumption DEF EnqueueInv, KeyInv, Apart, Running
  <2> QED BY <2>2, <2>3
<1> QED BY <1>7, <1>10, <1>11, <1>13, <1>14 DEF EnqueueInv, KeyInv

\* plan_enqueue's condition lets a request commit only when no send committed
\* under the key is within the row's lifetime of it.
LEMMA FreeKeyMeansApart ==
    ASSUME EnqueueInv, NEW r \in Requests \cap Keyed, Running(r), KeyFree(r),
           NEW c \in committed \cap Keyed, c # r
    PROVE  req[c].at + KeyTtl < req[r].at
<1>1. TypeOK /\ c \in Requests
  BY DEF EnqueueInv, TypeOK
<1>2. /\ req[r].at \in Nat /\ req[c].at \in Nat /\ now \in Nat
      /\ KeyTtl \in Nat /\ Timeout \in Nat
  BY <1>1, TimesAssumption DEF TypeOK, RequestState
<1>3. now <= req[r].at + Timeout
  BY DEF EnqueueInv, Clock
<1>4. CASE req[r].at + Timeout <= req[c].at + KeyTtl
  <2>1. ~(req[c].at + KeyTtl < now)
    BY <1>2, <1>3, <1>4
  <2>2. key # NoKey /\ key.msg = c
    BY <2>1 DEF EnqueueInv, KeyInv, RowsLast
  <2>3. key.expires = req[c].at + KeyTtl
    BY <2>2 DEF EnqueueInv, KeyInv, KeyIsTrue
  <2> QED BY <2>2, <2>3 DEF KeyFree
<1> QED BY <1>4 DEF EnqueueInv, KeyInv, Apart

\* A commit, whatever the request is told of it.
LEMMA CommitKeeps ==
    ASSUME EnqueueInv, NEW r \in Requests, MayCommit(r), CommitWrites(r),
           NEW q \in RequestState, req' = [req EXCEPT ![r] = q],
           q.at = req[r].at,
           q.pc \in {"committing", "discardSpec", "done"},
           q.pc = "discardSpec" => q.why = "error",
           q.pc # "discardSpec" => q.why = "none",
           q.answer.code = "ok" => q.pc = "done" /\ q.answer.msg = r,
           UNCHANGED <<now, settled, bucket, leaky>>
    PROVE  EnqueueInv'
<1>1. /\ TypeOK /\ KeyFree(r) /\ r \notin committed /\ req[r].pc = "committing" /\ Running(r)
      /\ committed' = committed \cup {r}
      /\ r \in Keyed => key' = [msg |-> r, hash |-> Body[r], expires |-> req[r].at + KeyTtl]
      /\ r \notin Keyed => key' = key
  BY DEF EnqueueInv, CommitWrites, CommitHolds, MayCommit, Running
<1>2. req'[r] = q /\ \A x \in Requests \ {r} : req'[x] = req[x]
  BY <1>1 DEF TypeOK
<1>3. /\ now \in Nat /\ KeyTtl \in Nat \ {0} /\ Timeout \in Nat /\ 2 * Timeout <= KeyTtl
      /\ \A x \in Requests : req[x].at \in Nat /\ req[x].at <= now
      /\ committed \subseteq Requests
  BY <1>1, TimesAssumption DEF EnqueueInv, TypeOK, RequestState, Clock
<1>4. r \in Keyed => key' \in KeyRow
  BY <1>1, <1>3 DEF KeyRow, Bodies
<1>5. TypeOK'
  BY <1>1, <1>4 DEF TypeOK
<1>6. \A x \in Requests : req'[x].at = req[x].at
  BY <1>2
<1>7. \A x \in Requests : Running(x)' => Running(x)
  BY <1>1, <1>2 DEF Running
<1>8. \A x \in Requests : Clock(x)'
  BY <1>6, <1>7 DEF EnqueueInv, Clock
<1>9. Holds(r)'
  <2>1. r \notin settled /\ bucket[r] = Objects
    BY <1>1, RequestTyped DEF TypeOK, Holds, Stored
  <2>2. Stage(r)'
    BY <1>1, <1>2 DEF Stage
  <2>3. Stored(r)'
    BY <1>1, <1>2, <2>1 DEF Stored
  <2>4. AnswerIsTrue(r)'
    BY <1>1, <1>2 DEF AnswerIsTrue
  <2> QED BY <2>2, <2>3, <2>4 DEF Holds
<1>10. \A x \in Requests : Holds(x)'
  BY <1>1, <1>2, <1>9, OthersKeep
<1>11. KeyIsTrue'
  <2>1. CASE r \in Keyed
    BY <1>1, <1>6, <2>1 DEF KeyIsTrue
  <2>2. CASE r \notin Keyed
    BY <1>1, <1>3, <1>6, <2>2 DEF EnqueueInv, KeyInv, KeyIsTrue
  <2> QED BY <2>1, <2>2
<1>12. r \in Keyed => \A c \in committed \cap Keyed : req[c].at + KeyTtl < req[r].at
  BY <1>1, FreeKeyMeansApart
<1>13. RowsLast'
  <2>1. CASE r \in Keyed
    <3>1. key' # NoKey /\ key'.msg = r
      BY <1>1, <1>4, <2>1, RowIsARow
    <3>2. \A c \in committed \cap Keyed : req[c].at + KeyTtl < now
      BY <1>3, <1>12, <2>1
    <3> QED BY <1>1, <1>3, <1>6, <3>1, <3>2 DEF RowsLast
  <2>2. CASE r \notin Keyed
    BY <1>1, <1>3, <1>6, <2>2 DEF EnqueueInv, KeyInv, RowsLast
  <2> QED BY <2>1, <2>2
<1>14. Apart'
  <2>1. SUFFICES ASSUME NEW x \in Keyed, NEW c \in committed' \cap Keyed, Running(x), x # c
        PROVE  \/ req[c].at + KeyTtl < req[x].at
               \/ req[x].at + Timeout <= req[c].at + KeyTtl
    BY <1>1, <1>3, <1>6, <1>7, RequestsAssumption DEF Apart
  <2>2. CASE c \in committed
    BY <2>1, <2>2 DEF EnqueueInv, KeyInv, Apart
  <2>3. CASE c = r
    <3>1. now <= req[r].at + Timeout /\ x \in Requests
      BY <1>1, RequestsAssumption DEF EnqueueInv, Clock
    <3> QED BY <1>3, <2>3, <3>1
  <2> QED BY <1>1, <2>1, <2>2, <2>3
<1>15. OneSendPerKeyLifetime'
  <2>1. SUFFICES ASSUME NEW r1 \in committed' \cap Keyed, NEW r2 \in committed' \cap Keyed, r1 # r2
        PROVE  req[r1].at > req[r2].at + KeyTtl \/ req[r2].at > req[r1].at + KeyTtl
    BY <1>1, <1>3, <1>6 DEF OneSendPerKeyLifetime
  <2>2. CASE r1 \in committed /\ r2 \in committed
    BY <2>1, <2>2 DEF EnqueueInv, KeyInv, OneSendPerKeyLifetime
  <2>3. CASE r1 = r
    BY <1>1, <1>3, <1>12, <2>1, <2>3
  <2>4. CASE r2 = r
    BY <1>1, <1>3, <1>12, <2>1, <2>4
  <2> QED BY <1>1, <2>1, <2>2, <2>3, <2>4
<1> QED BY <1>5, <1>8, <1>10, <1>11, <1>13, <1>14, <1>15 DEF EnqueueInv, KeyInv

\* What the request is told of its commit: that, an error, or to try again.
LEMMA CommitsKeep ==
    ASSUME EnqueueInv, NEW r \in Requests, Commits(r) \/ CommitsUnseen(r)
    PROVE  EnqueueInv'
<1>0. req[r] \in RequestState
  BY RequestTyped
<1>1. /\ MayCommit(r) /\ CommitWrites(r) /\ UNCHANGED <<now, settled, bucket, leaky>>
      /\ Answers(r, Accepted(r)) \/ DiscardAndFail(r) \/ Retries(r)
  BY DEF Commits, CommitsUnseen
<1>2. /\ req[r].pc = "committing" /\ req[r].why = "none" /\ req[r].answer.code # "ok"
  BY <1>1, RequestTyped DEF MayCommit, Holds, Stage
<1>3. CASE Answers(r, Accepted(r))
  <2> DEFINE q == [req[r] EXCEPT !.pc = "done", !.answer = Accepted(r)]
  <2>1. q \in RequestState /\ q.pc = "done" /\ q.at = req[r].at /\ q.why = req[r].why /\ q.answer = Accepted(r)
    BY <1>0, AnswerTypes DEF RequestState, PC
  <2>2. req' = [req EXCEPT ![r] = q]
    BY <1>3 DEF Answers
  <2> HIDE DEF q
  <2> QED BY <1>1, <1>2, <2>1, <2>2, AnswerTypes, CommitKeeps
<1>4. CASE DiscardAndFail(r)
  <2> DEFINE q == [req[r] EXCEPT !.pc = "discardSpec", !.why = "error"]
  <2>1. q \in RequestState /\ q.pc = "discardSpec" /\ q.at = req[r].at /\ q.why = "error" /\ q.answer = req[r].answer
    BY <1>0 DEF RequestState, PC
  <2>2. req' = [req EXCEPT ![r] = q]
    BY <1>4 DEF DiscardAndFail
  <2> HIDE DEF q
  <2> QED BY <1>1, <1>2, <2>1, <2>2, CommitKeeps
<1>5. CASE req' = [req EXCEPT ![r].tries = @ + 1]
  <2> DEFINE q == [req[r] EXCEPT !.tries = req[r].tries + 1]
  <2>1. q \in RequestState /\ q.pc = req[r].pc /\ q.at = req[r].at /\ q.why = req[r].why /\ q.answer = req[r].answer
    BY <1>0 DEF RequestState
  <2>2. req' = [req EXCEPT ![r] = q]
    BY <1>5
  <2> HIDE DEF q
  <2> QED BY <1>1, <1>2, <2>1, <2>2, CommitKeeps
<1> QED BY <1>1, <1>3, <1>4, <1>5 DEF Retries

\* A transaction that writes nothing.
LEMMA CommitFailsKeep ==
    ASSUME EnqueueInv, NEW r \in Requests,
           CommitCancelled(r) \/ CommitErrs(r) \/ CommitFindsKey(r)
    PROVE  EnqueueInv'
<1>1. Running(r) /\ req[r].pc # "done" /\ UNCHANGED <<now, key, committed, settled, bucket, leaky>>
  BY DEF CommitCancelled, CommitErrs, CommitFindsKey, MayCommit, Running
<1>2. CASE CommitCancelled(r)
  BY <1>1, <1>2, RetriesKeeps DEF CommitCancelled
<1>3. CASE CommitErrs(r)
  BY <1>1, <1>3, RequestTyped, DiscardKeeps DEF CommitErrs, DiscardAndFail
<1>4. CASE CommitFindsKey(r)
  <2>1. r \in Keyed
    BY <1>4 DEF CommitFindsKey, KeyFree
  <2> QED BY <1>1, <1>4, <2>1, RequestTyped, DiscardKeeps DEF CommitFindsKey
<1> QED BY <1>2, <1>3, <1>4

-----------------------------------------------------------------------------
(***************************************************************************)
(* The surroundings, and the theorems.                                     *)
(***************************************************************************)

LEMMA SenderSettlesKeeps ==
    ASSUME EnqueueInv, NEW r \in Requests, SenderSettles(r)
    PROVE  EnqueueInv'
<1>1. /\ r \in committed /\ settled' = settled \cup {r}
      /\ bucket' = [bucket EXCEPT ![r] = {}]
      /\ UNCHANGED <<now, key, committed, req, leaky>>
  BY DEF SenderSettles
<1>2. bucket' \in [Requests -> SUBSET Objects] /\ bucket'[r] = {}
         /\ \A x \in Requests \ {r} : bucket'[x] = bucket[x]
  BY <1>1, RequestTyped
<1>3. TypeOK'
  BY <1>1, <1>2 DEF EnqueueInv, TypeOK
<1>4. KeyInv' /\ \A x \in Requests : Clock(x)'
  BY <1>1, SameTimesKeep DEF Running
<1>5. Holds(r)'
  BY <1>1, <1>2, RequestTyped DEF Holds, Stage, Stored, AnswerIsTrue
<1>6. \A x \in Requests : Holds(x)'
  BY <1>1, <1>2, <1>5, OthersKeep
<1> QED BY <1>3, <1>4, <1>6 DEF EnqueueInv

\* Time passes, or the row is reaped, and every request is where it was.
LEMMA HoldsStands ==
    ASSUME EnqueueInv, UNCHANGED <<committed, settled, bucket, req, leaky>>
    PROVE  \A x \in Requests : Holds(x)'
<1>1. \A x \in Requests : Stage(x)' /\ Stored(x)' /\ AnswerIsTrue(x)'
  BY DEF EnqueueInv, Holds, Stage, Stored, AnswerIsTrue
<1> QED BY <1>1 DEF Holds

LEMMA TickKeeps ==
    ASSUME EnqueueInv, Tick
    PROVE  EnqueueInv'
<1>1. /\ now' = now + 1 /\ \A r \in Requests : Running(r) => now < req[r].at + Timeout
      /\ UNCHANGED <<key, committed, settled, bucket, req, leaky>>
  BY DEF Tick
<1>2. /\ now \in Nat /\ Timeout \in Nat /\ KeyTtl \in Nat /\ TypeOK /\ committed \subseteq Requests
      /\ \A x \in Requests : req[x].at \in Nat
  BY TimesAssumption DEF EnqueueInv, TypeOK, RequestState
<1>3. TypeOK'
  BY <1>1, <1>2 DEF TypeOK
<1>4. \A x \in Requests : Clock(x)'
  BY <1>1, <1>2 DEF EnqueueInv, Clock, Running
<1>5. KeyIsTrue' /\ Apart' /\ OneSendPerKeyLifetime'
  BY <1>1 DEF EnqueueInv, KeyInv, KeyIsTrue, Apart, OneSendPerKeyLifetime, Running
<1>6. RowsLast'
  BY <1>1, <1>2 DEF EnqueueInv, KeyInv, RowsLast
<1> QED BY <1>1, <1>3, <1>4, <1>5, <1>6, HoldsStands DEF EnqueueInv, KeyInv

LEMMA ReapsKeeps ==
    ASSUME EnqueueInv, Reaps
    PROVE  EnqueueInv'
<1>1. /\ key # NoKey /\ key.expires < now /\ key' = NoKey
      /\ UNCHANGED <<now, committed, settled, bucket, req, leaky>>
  BY DEF Reaps
<1>2. TypeOK'
  BY <1>1 DEF EnqueueInv, TypeOK
<1>3. \A x \in Requests : Clock(x)'
  BY <1>1 DEF EnqueueInv, Clock, Running
<1>4. KeyIsTrue' /\ Apart' /\ OneSendPerKeyLifetime'
  BY <1>1 DEF EnqueueInv, KeyInv, KeyIsTrue, Apart, OneSendPerKeyLifetime, Running
<1>5. RowsLast'
  BY <1>1 DEF EnqueueInv, KeyInv, KeyIsTrue, RowsLast
<1> QED BY <1>1, <1>2, <1>3, <1>4, <1>5, HoldsStands DEF EnqueueInv, KeyInv

LEMMA StutterKeeps ==
    ASSUME EnqueueInv, UNCHANGED vars
    PROVE  EnqueueInv'
<1>1. UNCHANGED <<now, key, committed, settled, bucket, req, leaky>>
  BY DEF vars
<1>2. TypeOK'
  BY <1>1 DEF EnqueueInv, TypeOK
<1>3. KeyInv' /\ \A x \in Requests : Clock(x)'
  BY <1>1, SameTimesKeep DEF Running
<1> QED BY <1>1, <1>2, <1>3, HoldsStands DEF EnqueueInv

LEMMA InitHolds ==
    ASSUME Init
    PROVE  EnqueueInv
<1>1. Started \in RequestState
  BY AnswerTypes DEF Started, RequestState, PC
<1>2. TypeOK
  BY <1>1 DEF Init, TypeOK
<1>3. \A r \in Requests : req[r] = Started
  BY DEF Init
<1>4. \A r \in Requests : Clock(r) /\ Holds(r)
  BY <1>3, AnswerTypes DEF Init, Started, Clock, Running, Holds, Stage, Stored, AnswerIsTrue
<1>5. KeyInv
  BY DEF Init, KeyInv, KeyIsTrue, RowsLast, Apart, OneSendPerKeyLifetime
<1> QED BY <1>2, <1>4, <1>5 DEF EnqueueInv

\* enqueue and what surrounds it: the inductive invariant holds throughout.
THEOREM EnqueueIsSafe == Spec => []EnqueueInv
<1>1. Init => EnqueueInv
  BY InitHolds
<1>2. ASSUME EnqueueInv, Next PROVE EnqueueInv'
  <2>1. ASSUME NEW r \in Requests, Step(r) PROVE EnqueueInv'
    BY <1>2, <2>1, RefusesKeeps, LooksKeeps, UploadsPartsKeeps, UploadsSpecKeeps,
       StoresContentKeeps, CommitsKeep, CommitFailsKeep, AlreadyQueuedKeeps,
       DiscardsSpecKeeps, DiscardsPartsKeeps, ReplaysKeeps, KilledKeeps, SenderSettlesKeeps
    DEF Step
  <2> QED BY <1>2, <2>1, TickKeeps, ReapsKeeps DEF Next
<1>3. EnqueueInv /\ [Next]_vars => EnqueueInv'
  BY <1>2, StutterKeeps
<1> QED BY <1>1, <1>3, PTL DEF Spec

\* "Same key, same request: returns the original ids" (docs/mailbox/api.md):
\* requests that race, retry or find the row half expired never commit two sends
\* within one lifetime of the key.
THEOREM OneSendPerLifetime == Spec => []OneSendPerKeyLifetime
BY EnqueueIsSafe, PTL DEF EnqueueInv, KeyInv

\* replay_key: an accepted request is told of a committed message that asks for
\* what it asked for, and of another's only under the key.
THEOREM AnswersStayTrue == Spec => []AnswersAreTrue
<1>1. EnqueueInv => AnswersAreTrue
  BY DEF EnqueueInv, Holds, AnswerIsTrue, AnswersAreTrue
<1> QED BY <1>1, EnqueueIsSafe, PTL

\* upload_spec before enqueue_send, discard_uploads after it: a queued send can be
\* built, and a request that queued nothing leaves nothing under outbox/.
THEOREM UploadsFollow == Spec => []UploadsFollowSends
<1>1. EnqueueInv => UploadsFollowSends
  <2>1. SUFFICES ASSUME EnqueueInv PROVE UploadsFollowSends
    OBVIOUS
  <2>2. \A r \in Requests : Stored(r)
    BY <2>1 DEF EnqueueInv, Holds
  <2>3. committed \subseteq Requests
    BY <2>1 DEF EnqueueInv, TypeOK
  <2> QED BY <2>2, <2>3 DEF Stored, UploadsFollowSends, QueuedSendsCanBeBuilt, NoOrphanUploads
<1> QED BY <1>1, EnqueueIsSafe, PTL
================================================================================
