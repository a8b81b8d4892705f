---------------------------- MODULE KeyCacheProofs ----------------------------
(***************************************************************************)
(* Machine-checked proofs about KeyCache, for any set of keys, documents   *)
(* and concurrent requests, and any intervals.                             *)
(***************************************************************************)
EXTENDS KeyCache, TLAPS

Loaded == [keys : SUBSET Keys, readAt : Nat]

RequestState ==
    [pc : {"waiting", "fetch", "apply", "match", "rematch"}, key : SUBSET Keys, at : Nat,
     hashes : Loaded \cup {NoHashes}, why : {"none", "scheduled", "miss"},
     got : Loaded \cup {NoHashes, Failed}]

CacheState == [hashes : Loaded \cup {NoHashes}, loadedAt : Int, missAt : Int]

LastTimes == [miss : Int, failed : Int, outage : Int]

TypeOK ==
    /\ now \in Nat
    /\ document \in SUBSET Keys
    /\ changes \in Nat
    /\ steady \in SUBSET document
    /\ cache \in CacheState
    /\ req \in [Requests -> RequestState]
    /\ last \in LastTimes

\* How far behind the parameter a request or the cache may have fallen, by the
\* time t: a read is within the span, or a failure within the backoff.
Fresh(readAt, t, span, backoff) == t <= readAt + span \/ t <= last.failed + backoff

\* What holds of the cache: every key valid all along is in it, its load time
\* tells of a read or of a failure not long before, and a failure has moved that
\* time on.
CacheKnows ==
    /\ ColdCacheStaysCold
    /\ cache.hashes # NoHashes =>
          /\ steady \subseteq cache.hashes.keys
          /\ Never < cache.loadedAt
          /\ Fresh(cache.hashes.readAt, cache.loadedAt, Timeout,
                   Timeout - (RefreshInterval - FailureBackoff))
          /\ last.outage <= cache.loadedAt + (RefreshInterval - FailureBackoff)
    /\ Never <= last.outage /\ last.outage <= now /\ last.failed <= now

\* What holds of a request under way.
Knows(r) ==
    LET q == req[r] IN
    Running(r) =>
       /\ q.at <= now /\ now <= q.at + Timeout
       /\ q.key # {}
       /\ q.hashes # NoHashes => steady \subseteq q.hashes.keys /\ cache.hashes # NoHashes
       /\ q.pc = "apply" =>
             /\ q.got # NoHashes
             /\ q.got # Failed => steady \subseteq q.got.keys /\ q.at <= q.got.readAt
             /\ q.got = Failed => q.at <= last.failed
       /\ q.why = "miss" \/ q.pc = "rematch" => q.hashes # NoHashes
       /\ q.pc \in {"match", "rematch"} /\ q.hashes # NoHashes =>
             Fresh(q.hashes.readAt, q.at, RefreshInterval + Timeout, FailureBackoff + Timeout)

\* A request that claimed a read on a miss has yet to do it.
Claimed(r) == req[r].pc = "fetch" /\ req[r].why = "miss"

\* Claims are a floor apart; reads trail them by a request's life at most.
MissKnows ==
    /\ last.miss <= now
    /\ Never <= last.miss /\ Never <= cache.missAt /\ cache.missAt <= now
    /\ last.miss <= cache.missAt + Timeout
    /\ \A r \in Requests : Claimed(r) =>
          /\ req[r].at <= cache.missAt
          /\ MissRefreshFloor <= Timeout \/ last.miss <= cache.missAt - MissRefreshFloor + Timeout
    /\ \A r1, r2 \in Requests :
          Claimed(r1) /\ Claimed(r2) /\ r1 # r2 => MissRefreshFloor <= Timeout

AnswerIsFair == ValidKeysNeverDenied /\ AllowedOnRecentDocument

\* The inductive invariant.
KeyInv ==
    /\ TypeOK
    /\ CacheKnows
    /\ \A r \in Requests : Knows(r)
    /\ MissKnows
    /\ AnswerIsFair

-----------------------------------------------------------------------------
(***************************************************************************)
(* The times, and what a step leaves alone.                                *)
(***************************************************************************)

LEMMA Times ==
    /\ RefreshInterval \in Nat /\ MissRefreshFloor \in Nat /\ FailureBackoff \in Nat
    /\ Timeout \in Nat /\ FailureBackoff < RefreshInterval
    /\ Never \in Int
    /\ Never < 0 /\ Never < -MissRefreshFloor /\ Never < -FailureBackoff
    /\ Never < -(RefreshInterval - FailureBackoff)
BY CacheAssumption DEF Never

LEMMA Absent ==
    /\ NoHashes \notin Loaded /\ Failed \notin Loaded /\ Failed # NoHashes
    /\ NoHashes.readAt = Never
BY Times DEF NoHashes, Failed, Loaded

LEMMA FieldTypes ==
    ASSUME TypeOK
    PROVE  /\ now \in Nat
           /\ cache.loadedAt \in Int /\ cache.missAt \in Int
           /\ cache.hashes \in Loaded \cup {NoHashes} /\ cache.hashes.readAt \in Int
           /\ last.miss \in Int /\ last.failed \in Int /\ last.outage \in Int
           /\ \A r \in Requests :
                 req[r].at \in Nat /\ req[r].hashes \in Loaded \cup {NoHashes} /\ req[r].hashes.readAt \in Int
BY Times, Absent DEF TypeOK, CacheState, LastTimes, RequestState, Loaded

\* What a request knows outlives the steps of the others.
LEMMA OthersKnow ==
    ASSUME TypeOK, TypeOK', NEW x \in Requests, Knows(x), req'[x] = req[x], now' = now,
           steady' \subseteq steady, cache.hashes # NoHashes => cache'.hashes # NoHashes,
           last.failed <= last'.failed
    PROVE  Knows(x)'
<1>1. CASE ~Running(x)
  BY <1>1 DEF Knows, Running
<1>2. CASE Running(x)
  <2>1. last.failed \in Int /\ last'.failed \in Int /\ req[x].at \in Nat
    BY FieldTypes DEF TypeOK, LastTimes
  <2>2. \A readAt \in Int : 
           Fresh(readAt, req[x].at, RefreshInterval + Timeout, FailureBackoff + Timeout)
              => Fresh(readAt, req[x].at, RefreshInterval + Timeout, FailureBackoff + Timeout)'
    BY <2>1, Times DEF Fresh
  <2> QED BY <1>2, <2>1, <2>2, FieldTypes DEF Knows
<1> QED BY <1>1, <1>2

\* The cache's facts stand while it is left alone.
LEMMA CacheStands ==
    ASSUME TypeOK, TypeOK', CacheKnows,
           cache'.hashes = cache.hashes, cache'.loadedAt = cache.loadedAt,
           now <= now', steady' \subseteq steady,
           last.failed <= last'.failed, last'.failed <= now', last'.outage = last.outage
    PROVE  CacheKnows'
<1>1. /\ last.failed \in Int /\ last'.failed \in Int /\ cache.loadedAt \in Int /\ last.outage \in Int
      /\ now \in Nat /\ now' \in Nat /\ cache.hashes.readAt \in Int
  BY FieldTypes DEF TypeOK, LastTimes
<1>2. Fresh(cache.hashes.readAt, cache.loadedAt, Timeout, Timeout - (RefreshInterval - FailureBackoff))
        => Fresh(cache.hashes.readAt, cache.loadedAt, Timeout, Timeout - (RefreshInterval - FailureBackoff))'
  BY <1>1, Times DEF Fresh
<1>3. ColdCacheStaysCold'
  BY DEF CacheKnows, ColdCacheStaysCold
<1> QED BY <1>1, <1>2, <1>3 DEF CacheKnows

\* So do those about reads on a miss, while none is claimed or done.
LEMMA MissStands ==
    ASSUME TypeOK, TypeOK', MissKnows,
           last'.miss = last.miss, cache'.missAt = cache.missAt, now <= now',
           \A x \in Requests : Claimed(x)' => Claimed(x) /\ req'[x].at = req[x].at
    PROVE  MissKnows'
<1>1. last.miss \in Int /\ cache.missAt \in Int /\ now \in Nat /\ now' \in Nat
  BY FieldTypes DEF TypeOK
<1> QED BY <1>1 DEF MissKnows

\* A step of r keeps the invariant if it keeps r's part, the cache's and the
\* verdict's.
LEMMA StepKeeps ==
    ASSUME KeyInv, NEW r \in Requests, NEW q \in RequestState,
           req' = [req EXCEPT ![r] = q],
           UNCHANGED <<now, document, changes, steady>>,
           cache' \in CacheState, last' \in LastTimes,
           cache.hashes # NoHashes => cache'.hashes # NoHashes,
           last.failed <= last'.failed,
           TypeOK' => CacheKnows' /\ MissKnows' /\ Knows(r)' /\ AnswerIsFair'
    PROVE  KeyInv'
<1>1. TypeOK'
  BY DEF KeyInv, TypeOK
<1>2. \A x \in Requests \ {r} : req'[x] = req[x]
  BY DEF KeyInv, TypeOK
<1>3. \A x \in Requests : Knows(x)'
  BY <1>1, <1>2, OthersKnow DEF KeyInv
<1> QED BY <1>1, <1>3 DEF KeyInv

\* No verdict is a fair one.
LEMMA SilenceIsFair ==
    ASSUME answer' = NoAnswer
    PROVE  AnswerIsFair'
BY DEF AnswerIsFair, NoAnswer, ValidKeysNeverDenied, AllowedOnRecentDocument

LEMMA RequestTyped ==
    ASSUME KeyInv, NEW r \in Requests
    PROVE  req[r] \in RequestState /\ TypeOK /\ CacheKnows /\ MissKnows /\ Knows(r)
BY DEF KeyInv, TypeOK

-----------------------------------------------------------------------------
(***************************************************************************)
(* verify, step by step.                                                   *)
(***************************************************************************)

\* A request that finds the cache fresh relies on a read or a failure not long
\* before.
LEMMA SnapshotsKeeps ==
    ASSUME KeyInv, NEW r \in Requests, NEW k \in Keys, Snapshots(r, k)
    PROVE  KeyInv'
<1> DEFINE pc == IF cache.hashes = NoHashes \/ IsStale THEN "fetch" ELSE "match"
           q == [Waiting EXCEPT !.key = {k}, !.at = now, !.hashes = cache.hashes,
                                !.pc = pc, !.why = "scheduled"]
<1>1. TypeOK /\ CacheKnows /\ MissKnows
  BY RequestTyped
<1>2. /\ req[r].pc = "waiting" /\ req' = [req EXCEPT ![r] = q] /\ answer' = NoAnswer
      /\ UNCHANGED <<now, document, changes, steady, cache, last>>
  BY DEF Snapshots, Proceeds
<1>3. pc \in {"fetch", "match"} /\ (pc = "match" => ~IsStale)
  OBVIOUS
<1> HIDE DEF pc
<1>4. /\ q \in RequestState /\ q.key = {k} /\ q.at = now /\ q.hashes = cache.hashes
      /\ q.pc = pc /\ q.why = "scheduled"
  BY <1>1, <1>3, FieldTypes DEF RequestState, Waiting
<1> HIDE DEF q
<1>5. req'[r] = q /\ \A x \in Requests \ {r} : req'[x] = req[x]
  BY <1>1, <1>2 DEF TypeOK
<1>6. now \in Nat /\ last.failed \in Int /\ cache.loadedAt \in Int /\ cache.hashes.readAt \in Int
  BY <1>1, FieldTypes
<1>7. pc = "match" /\ cache.hashes # NoHashes =>
         Fresh(cache.hashes.readAt, now, RefreshInterval + Timeout, FailureBackoff + Timeout)
  BY <1>1, <1>3, <1>6, Times DEF CacheKnows, Fresh, IsStale
<1>8. Knows(r)'
  <2>1. /\ now' = now /\ cache' = cache /\ steady' = steady /\ last' = last
        /\ req'[r].pc = pc /\ req'[r].key # {} /\ req'[r].at = now
        /\ req'[r].hashes = cache.hashes /\ req'[r].why = "scheduled"
    BY <1>2, <1>4, <1>5
  <2>2. cache.hashes # NoHashes => steady \subseteq cache.hashes.keys
    BY <1>1 DEF CacheKnows
  <2>3. pc = "match" /\ cache.hashes # NoHashes =>
           Fresh(cache.hashes.readAt, now, RefreshInterval + Timeout, FailureBackoff + Timeout)'
    BY <1>7, <2>1 DEF Fresh
  <2> QED BY <1>3, <1>6, <2>1, <2>2, <2>3, Times DEF Knows, Fresh
<1>9. TypeOK' => CacheKnows'
  BY <1>1, <1>2, <1>6, CacheStands DEF CacheKnows
<1>10. TypeOK' => MissKnows'
  BY <1>1, <1>2, <1>4, <1>5, <1>6, MissStands DEF Claimed
<1>11. /\ cache' \in CacheState /\ last' \in LastTimes
       /\ cache' = cache /\ last.failed <= last'.failed
  BY <1>1, <1>2, <1>6 DEF TypeOK
<1> QED BY <1>2, <1>4, <1>8, <1>9, <1>10, <1>11, SilenceIsFair, StepKeeps

\* The parameter is read, as it is now, or cannot be.
LEMMA FetchesKeeps ==
    ASSUME KeyInv, NEW r \in Requests, Fetches(r)
    PROVE  KeyInv'
<1>1. TypeOK /\ CacheKnows /\ MissKnows /\ Knows(r) /\ req[r] \in RequestState
  BY RequestTyped
<1>2. PICK got \in {[keys |-> document, readAt |-> now], Failed} :
         /\ req[r].pc = "fetch" /\ answer' = NoAnswer
         /\ req' = [req EXCEPT ![r].pc = "apply", ![r].got = got]
         /\ last' = [miss |-> IF req[r].why = "miss" THEN now ELSE last.miss,
                     failed |-> IF got = Failed THEN now ELSE last.failed,
                     outage |-> last.outage]
         /\ UNCHANGED <<now, document, changes, steady, cache>>
  BY DEF Fetches, Proceeds
<1>3. got \in Loaded \cup {Failed} /\ (got # Failed => got.keys = document /\ got.readAt = now)
  BY <1>1 DEF TypeOK, Loaded
<1> DEFINE q == [req[r] EXCEPT !.pc = "apply", !.got = got]
<1>4. req' = [req EXCEPT ![r] = q]
  BY <1>2
<1>5. /\ q \in RequestState /\ q.pc = "apply" /\ q.got = got /\ q.key = req[r].key
      /\ q.at = req[r].at /\ q.hashes = req[r].hashes /\ q.why = req[r].why
  BY <1>1, <1>3 DEF RequestState
<1> HIDE DEF q
<1>6. req'[r] = q /\ \A x \in Requests \ {r} : req'[x] = req[x]
  BY <1>1, <1>4 DEF TypeOK
<1>7. /\ now \in Nat /\ last.failed \in Int /\ last.miss \in Int /\ last.outage \in Int
      /\ cache.missAt \in Int /\ req[r].at \in Nat
  BY <1>1, FieldTypes
<1>8. /\ last' \in LastTimes /\ last.failed <= last'.failed /\ last'.failed <= now
      /\ last'.outage = last.outage
      /\ last'.miss = (IF req[r].why = "miss" THEN now ELSE last.miss)
      /\ got = Failed => last'.failed = now
  BY <1>1, <1>2, <1>7 DEF LastTimes, CacheKnows
<1>9. Running(r)
  BY <1>2 DEF Running
<1>10. Knows(r)'
  BY <1>1, <1>2, <1>3, <1>5, <1>6, <1>7, <1>8, <1>9, Absent DEF Knows, TypeOK
<1>11. TypeOK' => CacheKnows'
  BY <1>1, <1>2, <1>7, <1>8, CacheStands
<1>12. \A x \in Requests : Claimed(x)' => Claimed(x) /\ req'[x].at = req[x].at /\ x # r
  BY <1>5, <1>6 DEF Claimed
<1>13. TypeOK' => MissKnows'
  <2>1. CASE req[r].why # "miss"
    <3>1. last'.miss = last.miss /\ cache'.missAt = cache.missAt /\ now <= now'
      BY <1>2, <1>7, <1>8, <2>1
    <3> QED BY <1>1, <1>12, <3>1, MissStands
  <2>2. CASE req[r].why = "miss"
    <3>1. Claimed(r)
      BY <1>2, <2>2 DEF Claimed
    <3>2. last'.miss = now /\ now <= cache.missAt + Timeout
      BY <1>1, <1>7, <1>8, <1>9, <2>2, <3>1, Times DEF MissKnows, Knows
    <3>3. \A x \in Requests : Claimed(x)' => MissRefreshFloor <= Timeout
      BY <1>1, <1>12, <3>1 DEF MissKnows
    <3>4. /\ last'.miss <= now' /\ Never <= last'.miss /\ Never <= cache'.missAt /\ cache'.missAt <= now'
          /\ last'.miss <= cache'.missAt + Timeout
      BY <1>1, <1>2, <1>7, <3>2, Times DEF MissKnows
    <3>5. \A x \in Requests : Claimed(x)' => req'[x].at <= cache'.missAt
      BY <1>1, <1>2, <1>12 DEF MissKnows
    <3> QED BY <3>3, <3>4, <3>5 DEF MissKnows
  <2> QED BY <2>1, <2>2
<1>14. cache' \in CacheState /\ cache' = cache
  BY <1>1, <1>2 DEF TypeOK
<1> QED BY <1>2, <1>4, <1>5, <1>8, <1>10, <1>11, <1>13, <1>14, SilenceIsFair, StepKeeps

\* refresh after the await.  What it did is known to be recent, as the request
\* has not outlived its timeout.
LEMMA AppliesKeeps ==
    ASSUME KeyInv, NEW r \in Requests, Applies(r)
    PROVE  KeyInv'
<1>1. TypeOK /\ CacheKnows /\ MissKnows /\ Knows(r) /\ req[r] \in RequestState
  BY RequestTyped
<1>2. /\ req[r].pc = "apply" /\ Running(r)
      /\ IF req[r].got = Failed THEN RefreshFails(r) ELSE RefreshSucceeds(r)
      /\ last' = [last EXCEPT !.outage = IF req[r].got = Failed /\ req[r].hashes # NoHashes
                                         THEN now ELSE @]
      /\ UNCHANGED <<now, document, changes, steady>>
  BY DEF Applies, Running
<1>3. AfterRefresh(r) \in {"match", "rematch"}
         /\ (AfterRefresh(r) = "rematch" => req[r].why = "miss")
  BY DEF AfterRefresh
<1>4. /\ now \in Nat /\ last.failed \in Int /\ last.miss \in Int /\ last.outage \in Int
      /\ cache.missAt \in Int /\ cache.loadedAt \in Int /\ req[r].at \in Nat
  BY <1>1, FieldTypes
<1>5. /\ last' \in LastTimes /\ last'.failed = last.failed /\ last'.miss = last.miss
      /\ last'.outage = IF req[r].got = Failed /\ req[r].hashes # NoHashes THEN now ELSE last.outage
  BY <1>1, <1>2, <1>4 DEF TypeOK, LastTimes
<1>6. /\ req[r].at <= now /\ now <= req[r].at + Timeout
      /\ req[r].got # NoHashes /\ req[r].got \in Loaded \cup {NoHashes, Failed}
  BY <1>1, <1>2 DEF Knows, RequestState
<1>7. CASE req[r].got = Failed
  <2> DEFINE q == [req[r] EXCEPT !.pc = AfterRefresh(r)]
             rewound == now - (RefreshInterval - FailureBackoff)
             rearmed == IF req[r].hashes # NoHashes /\ cache.loadedAt <= rewound
                        THEN rewound ELSE cache.loadedAt
  <2>1. /\ req' = [req EXCEPT ![r] = q] /\ answer' = NoAnswer
        /\ cache' = [cache EXCEPT !.loadedAt = rearmed]
    BY <1>2, <1>7 DEF RefreshFails, Proceeds
  <2>2. /\ q \in RequestState /\ q.pc = AfterRefresh(r) /\ q.key = req[r].key
        /\ q.at = req[r].at /\ q.hashes = req[r].hashes /\ q.why = req[r].why
    BY <1>1, <1>3 DEF RequestState
  <2> HIDE DEF q
  <2>3. req'[r] = q /\ \A x \in Requests \ {r} : req'[x] = req[x]
    BY <1>1, <2>1 DEF TypeOK
  <2>4. rearmed \in Int
    BY <1>4, Times
  <2>5. /\ req[r].hashes # NoHashes => Never < rewound /\ rewound <= rearmed
        /\ rearmed # cache.loadedAt =>
              rearmed = rewound /\ req[r].hashes # NoHashes
        /\ rewound + (RefreshInterval - FailureBackoff) = now /\ rewound \in Int
        /\ cache.loadedAt <= rearmed
    BY <1>4, Times
  <2> HIDE DEF rearmed, rewound
  <2>6. /\ cache' \in CacheState /\ cache'.loadedAt = rearmed /\ cache'.hashes = cache.hashes
        /\ cache'.missAt = cache.missAt
    BY <1>1, <2>1, <2>4 DEF TypeOK, CacheState
  <2>7. req[r].at <= last.failed
    BY <1>1, <1>2, <1>7 DEF Knows
  <2>8. Knows(r)'
    BY <1>1, <1>2, <1>3, <1>4, <1>5, <2>2, <2>3, <2>6, <2>7, Times DEF Knows, Fresh
  <2>9. CacheKnows'
    <3>1. req[r].hashes # NoHashes => cache.hashes # NoHashes
      BY <1>1, <1>2 DEF Knows
    <3>2. ColdCacheStaysCold'
      BY <1>1, <2>4, <2>5, <2>6, <3>1, Times DEF CacheKnows, ColdCacheStaysCold
    <3>3. SUFFICES ASSUME cache.hashes # NoHashes
          PROVE  /\ Never < rearmed
                 /\ Fresh(cache.hashes.readAt, rearmed, Timeout,
                          Timeout - (RefreshInterval - FailureBackoff))
                 /\ last'.outage <= rearmed + (RefreshInterval - FailureBackoff)
      BY <1>1, <1>2, <1>4, <1>5, <2>6, <3>2, Times DEF CacheKnows, Fresh
    <3>4. Never < rearmed
      BY <1>1, <1>4, <2>4, <2>5, <3>3, Times DEF CacheKnows
    <3>5. Fresh(cache.hashes.readAt, rearmed, Timeout, Timeout - (RefreshInterval - FailureBackoff))
      <4>1. CASE rearmed = cache.loadedAt
        BY <1>1, <3>3, <4>1 DEF CacheKnows
      <4>2. CASE rearmed = rewound
        BY <1>4, <1>6, <2>5, <2>7, <4>2, Times DEF Fresh
      <4> QED BY <2>5, <4>1, <4>2
    <3>6. last'.outage <= rearmed + (RefreshInterval - FailureBackoff)
      <4>1. CASE req[r].hashes # NoHashes
        BY <1>4, <1>5, <1>7, <2>4, <2>5, <4>1, Times
      <4>2. CASE req[r].hashes = NoHashes
        BY <1>1, <1>4, <1>5, <2>4, <2>5, <3>3, <4>2, Times DEF CacheKnows
      <4> QED BY <4>1, <4>2
    <3> QED BY <3>4, <3>5, <3>6
  <2>10. TypeOK' => MissKnows'
    BY <1>1, <1>2, <1>3, <1>4, <1>5, <2>2, <2>3, <2>6, MissStands DEF Claimed
  <2>11. last.failed <= last'.failed /\ (cache.hashes # NoHashes => cache'.hashes # NoHashes)
    BY <1>4, <1>5, <2>6
  <2> QED BY <1>2, <1>5, <2>1, <2>2, <2>6, <2>8, <2>9, <2>10, <2>11, SilenceIsFair, StepKeeps
<1>8. CASE req[r].got # Failed
  <2> DEFINE got == req[r].got
             q == [req[r] EXCEPT !.pc = AfterRefresh(r), !.hashes = got]
  <2>1. /\ req' = [req EXCEPT ![r] = q] /\ answer' = NoAnswer
        /\ cache' = [cache EXCEPT !.hashes = got, !.loadedAt = now]
    BY <1>2, <1>8 DEF RefreshSucceeds, Proceeds
  <2>2. got \in Loaded /\ got # NoHashes /\ got.readAt \in Nat
    BY <1>6, <1>8, Absent DEF Loaded
  <2>3. steady \subseteq got.keys /\ req[r].at <= got.readAt
    BY <1>1, <1>2, <1>8 DEF Knows
  <2> HIDE DEF got
  <2>4. /\ q \in RequestState /\ q.pc = AfterRefresh(r) /\ q.key = req[r].key
        /\ q.at = req[r].at /\ q.hashes = got /\ q.why = req[r].why
    BY <1>1, <1>3, <2>2 DEF RequestState
  <2> HIDE DEF q
  <2>5. req'[r] = q /\ \A x \in Requests \ {r} : req'[x] = req[x]
    BY <1>1, <2>1 DEF TypeOK
  <2>6. /\ cache' \in CacheState /\ cache'.loadedAt = now /\ cache'.hashes = got
        /\ cache'.missAt = cache.missAt
    <3>1. cache \in CacheState /\ got \in Loaded \cup {NoHashes} /\ now \in Int
      BY <1>1, <1>4, <2>2 DEF TypeOK
    <3>2. cache' = [cache EXCEPT !.hashes = got, !.loadedAt = now]
      BY <2>1
    <3> QED BY <3>1, <3>2 DEF CacheState
  <2>7. last'.outage = last.outage
    BY <1>5, <1>8
  <2>8. Knows(r)'
    BY <1>1, <1>2, <1>3, <1>4, <1>5, <2>2, <2>3, <2>4, <2>5, <2>6, Times DEF Knows, Fresh
  <2>9. CacheKnows'
    BY <1>1, <1>2, <1>4, <1>5, <1>6, <2>2, <2>3, <2>6, <2>7, Times
       DEF CacheKnows, ColdCacheStaysCold, Fresh
  <2>10. TypeOK' => MissKnows'
    BY <1>1, <1>2, <1>3, <1>4, <1>5, <2>4, <2>5, <2>6, MissStands DEF Claimed
  <2>11. last.failed <= last'.failed /\ cache'.hashes # NoHashes
    BY <1>4, <1>5, <2>2, <2>6
  <2> QED BY <1>2, <1>5, <2>1, <2>4, <2>6, <2>8, <2>9, <2>10, <2>11, SilenceIsFair, StepKeeps
<1> QED BY <1>7, <1>8

\* A verdict on a key that is judged by hashes, or for want of them.
LEMMA VerdictKeeps ==
    ASSUME KeyInv, NEW r \in Requests, Running(r), NEW v \in {"Allowed", "Denied", "Unavailable"},
           Verdict(r, v), UNCHANGED <<now, document, changes, steady, cache, last>>,
           v = "Denied" => req[r].hashes # NoHashes /\ ~MatchKey(r),
           v = "Allowed" => req[r].pc \in {"match", "rematch"} /\ MatchKey(r)
    PROVE  KeyInv'
<1>1. TypeOK /\ CacheKnows /\ MissKnows /\ Knows(r) /\ req[r] \in RequestState
  BY RequestTyped
<1>2. /\ req' = [req EXCEPT ![r] = Waiting]
      /\ answer' = [verdict |-> v, key |-> req[r].key, readAt |-> req[r].hashes.readAt]
  BY DEF Verdict
<1>3. Waiting \in RequestState /\ Waiting.pc = "waiting"
  BY DEF Waiting, RequestState
<1>4. req'[r] = Waiting /\ \A x \in Requests \ {r} : req'[x] = req[x]
  BY <1>1, <1>2 DEF TypeOK
<1>5. /\ now \in Nat /\ last.failed \in Int /\ req[r].at \in Nat /\ req[r].hashes.readAt \in Int
  BY <1>1, FieldTypes
<1>6. Knows(r)'
  BY <1>3, <1>4 DEF Knows, Running
<1>7. TypeOK' => CacheKnows'
  BY <1>1, <1>5, CacheStands DEF CacheKnows
<1>8. TypeOK' => MissKnows'
  BY <1>1, <1>3, <1>4, <1>5, MissStands DEF Claimed
<1>9. /\ answer'.verdict = v /\ answer'.key = req[r].key /\ answer'.readAt = req[r].hashes.readAt
  BY <1>2
<1>10. ValidKeysNeverDenied'
  BY <1>1, <1>9 DEF ValidKeysNeverDenied, Knows, MatchKey
<1>11. AllowedOnRecentDocument'
  <2>1. SUFFICES ASSUME v = "Allowed"
        PROVE  \/ now - req[r].hashes.readAt <= RefreshInterval + 2 * Timeout
               \/ now - last.failed <= FailureBackoff + 2 * Timeout
    BY <1>9 DEF AllowedOnRecentDocument
  <2>2. req[r].hashes # NoHashes
    BY <1>1, <2>1 DEF Knows, MatchKey, NoHashes
  <2>3. /\ Fresh(req[r].hashes.readAt, req[r].at, RefreshInterval + Timeout, FailureBackoff + Timeout)
        /\ now <= req[r].at + Timeout
    BY <1>1, <2>1, <2>2 DEF Knows
  <2> QED BY <1>5, <2>3, Times DEF Fresh
<1>12. cache' \in CacheState /\ cache' = cache /\ last' \in LastTimes /\ last.failed <= last'.failed
  BY <1>1, <1>5 DEF TypeOK
<1> QED BY <1>2, <1>3, <1>6, <1>7, <1>8, <1>10, <1>11, <1>12, StepKeeps DEF AnswerIsFair

\* The request claims a read: the claim before it was a floor earlier, and if a
\* request still had that one to use, the floor is not longer than its life.
LEMMA ClaimKeeps ==
    ASSUME KeyInv, NEW r \in Requests, req[r].pc = "match", req[r].hashes # NoHashes,
           MissSlotFree, StampsMiss,
           Proceeds([req EXCEPT ![r].pc = "fetch", ![r].why = "miss"]),
           UNCHANGED <<now, document, changes, steady, last>>
    PROVE  KeyInv'
<1> DEFINE q == [req[r] EXCEPT !.pc = "fetch", !.why = "miss"]
<1>1. TypeOK /\ CacheKnows /\ MissKnows /\ Knows(r) /\ req[r] \in RequestState /\ Running(r)
  BY RequestTyped DEF Running
<1>2. req' = [req EXCEPT ![r] = q] /\ answer' = NoAnswer
  BY DEF Proceeds
<1>3. /\ q \in RequestState /\ q.pc = "fetch" /\ q.key = req[r].key
      /\ q.at = req[r].at /\ q.hashes = req[r].hashes /\ q.why = "miss"
  BY <1>1 DEF RequestState
<1> HIDE DEF q
<1>4. req'[r] = q /\ \A x \in Requests \ {r} : req'[x] = req[x]
  BY <1>1, <1>2 DEF TypeOK
<1>5. /\ now \in Nat /\ last.failed \in Int /\ last.miss \in Int /\ cache.missAt \in Int
      /\ \A x \in Requests : req[x].at \in Nat
  BY <1>1, FieldTypes
<1>6. /\ cache' \in CacheState /\ cache'.missAt = now /\ cache'.hashes = cache.hashes
      /\ cache'.loadedAt = cache.loadedAt
  <2>1. cache \in CacheState /\ now \in Int /\ cache' = [cache EXCEPT !.missAt = now]
    BY <1>1, <1>5 DEF TypeOK, StampsMiss
  <2> QED BY <2>1 DEF CacheState
<1>7. Knows(r)'
  BY <1>1, <1>3, <1>4, <1>6 DEF Knows, Running
<1>8. TypeOK' => CacheKnows'
  BY <1>1, <1>5, <1>6, CacheStands DEF CacheKnows
<1>9. \A x \in Requests : Claimed(x)' => x = r \/ (Claimed(x) /\ req'[x].at = req[x].at)
  BY <1>4 DEF Claimed
<1>10. last.miss <= now - MissRefreshFloor + Timeout
  BY <1>1, <1>5, Times DEF MissKnows, MissSlotFree
<1>11. ASSUME NEW x \in Requests, Claimed(x) PROVE MissRefreshFloor <= Timeout
  <2>1. req[x].at <= cache.missAt
    BY <1>1, <1>11 DEF MissKnows
  <2>2. now <= req[x].at + Timeout
    BY <1>11 DEF KeyInv, Knows, Claimed, Running
  <2>3. cache.missAt # Never
    BY <1>5, <2>1, Times
  <2> QED BY <1>5, <2>1, <2>2, <2>3, Times DEF MissSlotFree
<1>12. MissKnows'
  <2>1. /\ last'.miss <= now' /\ Never <= last'.miss /\ Never <= cache'.missAt /\ cache'.missAt <= now'
        /\ last'.miss <= cache'.missAt + Timeout
    BY <1>1, <1>5, <1>6, Times DEF MissKnows
  <2>2. \A x \in Requests : req[x].at <= now \/ ~Claimed(x)
    BY DEF KeyInv, Knows, Claimed, Running
  <2>3. req[r].at <= now
    BY <1>1 DEF Knows
  <2>4. \A x \in Requests : Claimed(x)' =>
           /\ req'[x].at <= cache'.missAt
           /\ MissRefreshFloor <= Timeout \/ last'.miss <= cache'.missAt - MissRefreshFloor + Timeout
    BY <1>3, <1>4, <1>6, <1>9, <1>10, <2>2, <2>3
  <2>5. \A r1, r2 \in Requests :
           Claimed(r1)' /\ Claimed(r2)' /\ r1 # r2 => MissRefreshFloor <= Timeout
    BY <1>9, <1>11
  <2> QED BY <2>1, <2>4, <2>5 DEF MissKnows
<1>13. last' \in LastTimes /\ last.failed <= last'.failed
  BY <1>1, <1>5 DEF TypeOK
<1> QED BY <1>2, <1>3, <1>6, <1>7, <1>8, <1>12, <1>13, SilenceIsFair, StepKeeps

LEMMA DecidesKeeps ==
    ASSUME KeyInv, NEW r \in Requests, Decides(r)
    PROVE  KeyInv'
<1>1. /\ req[r].pc = "match" /\ Running(r) /\ UNCHANGED <<now, document, changes, steady, last>>
  BY DEF Decides, Running
<1>2. CASE req[r].hashes = NoHashes
  <2>1. Verdict(r, "Unavailable") /\ UNCHANGED cache
    BY <1>2 DEF Decides
  <2> QED BY <1>1, <2>1, VerdictKeeps
<1>3. CASE req[r].hashes # NoHashes /\ MatchKey(r)
  <2>1. Verdict(r, "Allowed") /\ UNCHANGED cache
    BY <1>3 DEF Decides
  <2> QED BY <1>1, <1>3, <2>1, VerdictKeeps
<1>4. CASE req[r].hashes # NoHashes /\ ~MatchKey(r) /\ MissSlotFree
  <2>1. Proceeds([req EXCEPT ![r].pc = "fetch", ![r].why = "miss"]) /\ StampsMiss
    BY <1>4 DEF Decides
  <2> QED BY <1>1, <1>4, <2>1, ClaimKeeps
<1>5. CASE req[r].hashes # NoHashes /\ ~MatchKey(r) /\ ~MissSlotFree
  <2>1. Verdict(r, "Denied") /\ UNCHANGED cache
    BY <1>5 DEF Decides
  <2> QED BY <1>1, <1>5, <2>1, VerdictKeeps
<1> QED BY <1>2, <1>3, <1>4, <1>5

LEMMA DecidesAgainKeeps ==
    ASSUME KeyInv, NEW r \in Requests, DecidesAgain(r)
    PROVE  KeyInv'
<1>1. req[r].pc = "rematch" /\ Running(r) /\ UNCHANGED <<now, document, changes, steady, cache, last>>
  BY DEF DecidesAgain, Running
<1>2. req[r].hashes # NoHashes
  BY <1>1 DEF KeyInv, Knows
<1>3. CASE MatchKey(r)
  BY <1>1, <1>3, VerdictKeeps DEF DecidesAgain
<1>4. CASE ~MatchKey(r)
  BY <1>1, <1>2, <1>4, VerdictKeeps DEF DecidesAgain
<1> QED BY <1>3, <1>4

-----------------------------------------------------------------------------
(***************************************************************************)
(* The operator and the clock, and the theorems.                           *)
(***************************************************************************)

LEMMA RotatesKeeps ==
    ASSUME KeyInv, NEW d \in Documents, Rotates(d)
    PROVE  KeyInv'
<1>1. /\ document' = d /\ changes' = changes + 1 /\ steady' = steady \cap d
      /\ answer' = NoAnswer /\ UNCHANGED <<now, cache, req, last>>
  BY DEF Rotates
<1>2. now \in Nat /\ last.failed \in Int /\ TypeOK /\ CacheKnows /\ MissKnows
  BY FieldTypes DEF KeyInv
<1>3. TypeOK'
  BY <1>1, <1>2, CacheAssumption DEF TypeOK
<1>4. \A x \in Requests : Knows(x)'
  BY <1>1, <1>2, <1>3, OthersKnow DEF KeyInv
<1>5. CacheKnows'
  BY <1>1, <1>2, <1>3, CacheStands DEF CacheKnows
<1>6. MissKnows'
  BY <1>1, <1>2, <1>3, MissStands DEF Claimed
<1> QED BY <1>1, <1>3, <1>4, <1>5, <1>6, SilenceIsFair DEF KeyInv

LEMMA TickKeeps ==
    ASSUME KeyInv, Tick
    PROVE  KeyInv'
<1>1. /\ now' = now + 1 /\ answer' = NoAnswer
      /\ \A r \in Requests : Running(r) => now < req[r].at + Timeout
      /\ UNCHANGED <<document, changes, steady, cache, req, last>>
  BY DEF Tick
<1>2. /\ now \in Nat /\ last.failed \in Int /\ last.outage \in Int
      /\ TypeOK /\ CacheKnows /\ MissKnows /\ \A x \in Requests : req[x].at \in Nat
  BY FieldTypes DEF KeyInv
<1>3. TypeOK'
  BY <1>1, <1>2 DEF TypeOK
<1>4. \A x \in Requests : Knows(x)'
  BY <1>1, <1>2, Times DEF KeyInv, Knows, Running, Fresh
<1>5. CacheKnows'
  BY <1>1, <1>2, <1>3, CacheStands DEF CacheKnows
<1>6. MissKnows'
  BY <1>1, <1>2, <1>3, MissStands DEF Claimed
<1> QED BY <1>1, <1>3, <1>4, <1>5, <1>6, SilenceIsFair DEF KeyInv

LEMMA StutterKeeps ==
    ASSUME KeyInv, UNCHANGED keyVars
    PROVE  KeyInv'
<1>1. UNCHANGED <<now, document, changes, steady, cache, req, last, answer>>
  BY DEF keyVars
<1>2. now \in Nat /\ last.failed \in Int /\ TypeOK /\ CacheKnows /\ MissKnows
  BY FieldTypes DEF KeyInv
<1>3. TypeOK'
  BY <1>1, <1>2 DEF TypeOK
<1>4. \A x \in Requests : Knows(x)'
  BY <1>1, <1>2, <1>3, OthersKnow DEF KeyInv
<1>5. CacheKnows'
  BY <1>1, <1>2, <1>3, CacheStands DEF CacheKnows
<1>6. MissKnows'
  BY <1>1, <1>2, <1>3, MissStands DEF Claimed
<1>7. AnswerIsFair'
  BY <1>1 DEF KeyInv, AnswerIsFair, ValidKeysNeverDenied, AllowedOnRecentDocument
<1> QED BY <1>3, <1>4, <1>5, <1>6, <1>7 DEF KeyInv

LEMMA InitHolds ==
    ASSUME KeyInit
    PROVE  KeyInv
<1>1. Waiting \in RequestState /\ Waiting.pc = "waiting"
  BY DEF Waiting, RequestState
<1>2. /\ now = 0 /\ changes = 0 /\ document \in Documents /\ steady = document
      /\ cache = [hashes |-> NoHashes, loadedAt |-> Never, missAt |-> Never]
      /\ req = [r \in Requests |-> Waiting]
      /\ last = [miss |-> Never, failed |-> Never, outage |-> Never]
      /\ answer = NoAnswer
  BY DEF KeyInit
<1>3. TypeOK
  BY <1>1, <1>2, Times, CacheAssumption DEF TypeOK, CacheState, LastTimes
<1>4. \A r \in Requests : ~Running(r) /\ ~Claimed(r)
  BY <1>1, <1>2 DEF Running, Claimed
<1>5. CacheKnows
  BY <1>2, Times DEF CacheKnows, ColdCacheStaysCold
<1>6. MissKnows
  BY <1>2, <1>4, Times DEF MissKnows
<1>7. AnswerIsFair
  BY <1>2 DEF AnswerIsFair, NoAnswer, ValidKeysNeverDenied, AllowedOnRecentDocument
<1> QED BY <1>3, <1>4, <1>5, <1>6, <1>7 DEF KeyInv, Knows

\* verify, for requests that interleave between its awaits: the inductive
\* invariant holds throughout.
THEOREM KeyCacheIsSafe == KeySpec => []KeyInv
<1>1. KeyInit => KeyInv
  BY InitHolds
<1>2. KeyInv /\ KeyNext => KeyInv'
  BY SnapshotsKeeps, FetchesKeeps, AppliesKeeps, DecidesKeeps, DecidesAgainKeeps,
     RotatesKeeps, TickKeeps DEF KeyNext
<1>3. KeyInv /\ [KeyNext]_keyVars => KeyInv'
  BY <1>2, StutterKeeps
<1> QED BY <1>1, <1>3, PTL DEF KeySpec

\* keys.rs, "the outage must not look like a bad key": a cold cache is never taken
\* for a loaded one, a key valid all along is never denied, and one is allowed only
\* on a document read, or found unreadable, not long before.
THEOREM JudgedFairly == KeySpec => []KeysAreJudgedFairly
<1>1. KeyInv => KeysAreJudgedFairly
  BY DEF KeyInv, CacheKnows, AnswerIsFair, KeysAreJudgedFairly
<1> QED BY <1>1, KeyCacheIsSafe, PTL

\* A request starts with its snapshot, and with a scheduled read only if that is due.
LEMMA OnlySnapshotsStart ==
    ASSUME TypeOK, KeyNext, NEW r \in Requests, ~Running(r), Running(r)'
    PROVE  \E k \in Keys : Snapshots(r, k)
<1>1. ASSUME NEW x \in Requests, x # r,
             Fetches(x) \/ Applies(x) \/ Decides(x) \/ DecidesAgain(x) \/ \E k \in Keys : Snapshots(x, k)
      PROVE  req'[r] = req[r]
  BY <1>1 DEF TypeOK, Fetches, Applies, RefreshFails, RefreshSucceeds, Decides, DecidesAgain,
              Snapshots, Verdict, Proceeds
<1>2. ~(Fetches(r) \/ Applies(r) \/ Decides(r) \/ DecidesAgain(r))
  BY DEF Fetches, Applies, Decides, DecidesAgain, Running
<1>3. ASSUME Tick \/ \E d \in Documents : Rotates(d) PROVE req' = req
  BY <1>3 DEF Tick, Rotates
<1> QED BY <1>1, <1>2, <1>3 DEF KeyNext, Running

LEMMA StartsStale ==
    ASSUME TypeOK, NEW r \in Requests, NEW k \in Keys, Snapshots(r, k),
           req'[r].pc = "fetch", cache.hashes # NoHashes
    PROVE  IsStale
<1> DEFINE pc == IF cache.hashes = NoHashes \/ IsStale THEN "fetch" ELSE "match"
           q == [Waiting EXCEPT !.key = {k}, !.at = now, !.hashes = cache.hashes,
                                !.pc = pc, !.why = "scheduled"]
<1>1. req' = [req EXCEPT ![r] = q]
  BY DEF Snapshots, Proceeds
<1>2. ~IsStale => pc = "match"
  OBVIOUS
<1> HIDE DEF pc
<1>3. q.pc = pc
  BY DEF Waiting
<1> HIDE DEF q
<1> QED BY <1>1, <1>2, <1>3 DEF TypeOK

\* keys.rs, "a miss cannot drive unlimited fetches" and "an outage cannot drive
\* unlimited scheduled fetches".
THEOREM FetchesStaySpaced == KeySpec => FetchesSpaced
<1>1. ASSUME KeyInv, KeyNext, NEW r \in Requests, ReadsParameter(r, "miss")
      PROVE  now - last.miss >= MissRefreshFloor - Timeout
  <2>1. /\ now \in Nat /\ last.miss \in Int /\ cache.missAt \in Int /\ req[r].at \in Nat /\ MissKnows
    BY <1>1, FieldTypes DEF KeyInv
  <2>2. Claimed(r) /\ Running(r)
    BY <1>1 DEF ReadsParameter, Claimed, Running
  <2>3. req[r].at <= now /\ now <= req[r].at + Timeout
    BY <1>1, <2>2 DEF KeyInv, Knows
  <2>4. CASE MissRefreshFloor <= Timeout
    BY <2>1, <2>4, Times DEF MissKnows
  <2>5. CASE last.miss <= cache.missAt - MissRefreshFloor + Timeout
    BY <2>1, <2>2, <2>3, <2>5, Times DEF MissKnows
  <2> QED BY <2>1, <2>2, <2>4, <2>5 DEF MissKnows
<1>2. ASSUME KeyInv, KeyNext, NEW r \in Requests, ~Running(r), req'[r].pc = "fetch",
             cache.hashes # NoHashes
      PROVE  now - last.outage >= FailureBackoff
  <2>1. PICK k \in Keys : Snapshots(r, k)
    BY <1>2, OnlySnapshotsStart DEF KeyInv, Running
  <2>2. IsStale
    BY <1>2, <2>1, StartsStale DEF KeyInv
  <2>3. now \in Nat /\ cache.loadedAt \in Int /\ last.outage \in Int /\ CacheKnows
    BY <1>2, FieldTypes DEF KeyInv
  <2> QED BY <1>2, <2>2, <2>3, Times DEF CacheKnows, IsStale
<1>3. KeyInv /\ [KeyNext]_keyVars => [MissSpaced /\ OutageSpaced]_keyVars
  BY <1>1, <1>2 DEF MissSpaced, OutageSpaced
<1> QED BY <1>3, KeyCacheIsSafe, PTL DEF KeySpec, FetchesSpaced
================================================================================
