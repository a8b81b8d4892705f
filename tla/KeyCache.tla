------------------------------ MODULE KeyCache -------------------------------
(***************************************************************************)
(* The bearer key cache of one execution environment                       *)
(* (crates/webhook/src/api/keys.rs, behind require_bearer of api/auth.rs). *)
(*                                                                         *)
(* The cache's lock is not held while the parameter is read, so a request  *)
(* is a snapshot, a fetch, its application and a match, and requests may   *)
(* interleave between them.  A key is its own hash; the document is the    *)
(* set of valid keys.  A malformed document counts as a failed fetch.      *)
(* Time is whole ticks; a request lives at most Timeout of them.  A kill   *)
(* ends the environment and its cache with it, so it is not a step here.   *)
(***************************************************************************)
EXTENDS Integers, Sequences, FiniteSets

CONSTANTS
    Keys,               \* keys a request may present
    Documents,          \* the documents an operator may store
    Requests,           \* requests that may run at once
    RefreshInterval,    \* REFRESH_INTERVAL
    MissRefreshFloor,   \* MISS_REFRESH_FLOOR
    FailureBackoff,     \* FAILURE_BACKOFF
    Timeout,            \* the function's timeout
    MaxTime,            \* the clock stops here
    MaxChanges          \* how often the document changes

ASSUME CacheAssumption ==
    /\ \A d \in Documents : d \subseteq Keys
    /\ {MissRefreshFloor, FailureBackoff, Timeout, MaxTime, MaxChanges} \subseteq Nat
    /\ RefreshInterval \in Nat /\ FailureBackoff < RefreshInterval

VARIABLES
    now,
    document,   \* what the parameter holds
    changes,    \* how often it has changed
    steady,     \* the keys it has held all along
    cache,      \* CacheState: hashes, loaded_at, last_miss_refresh
    req,        \* where each request is
    last,       \* when the parameter was last read on a miss, was last
                \* unreadable, and was last found unreadable by a request that
                \* had hashes
    answer      \* the verdict given in the last step

keyVars == <<now, document, changes, steady, cache, req, last, answer>>

\* A time further back than any interval reaches, for an Option that is None.
Never == -(1 + RefreshInterval + MissRefreshFloor + FailureBackoff)

NoHashes == [keys |-> {}, readAt |-> Never]
Failed == [keys |-> {}, readAt |-> Never - 1]

Waiting == [pc |-> "waiting", key |-> {}, at |-> 0, hashes |-> NoHashes,
            why |-> "none", got |-> NoHashes]

NoAnswer == [verdict |-> "none", key |-> {}, readAt |-> Never]

KeyInit ==
    /\ now = 0 /\ changes = 0
    /\ document \in Documents /\ steady = document
    /\ cache = [hashes |-> NoHashes, loadedAt |-> Never, missAt |-> Never]
    /\ req = [r \in Requests |-> Waiting]
    /\ last = [miss |-> Never, failed |-> Never, outage |-> Never]
    /\ answer = NoAnswer

Running(r) == req[r].pc # "waiting"

Verdict(r, verdict) ==
    /\ req' = [req EXCEPT ![r] = Waiting]
    /\ answer' = [verdict |-> verdict, key |-> req[r].key,
                  readAt |-> req[r].hashes.readAt]

Proceeds(step) == req' = step /\ answer' = NoAnswer

-----------------------------------------------------------------------------
\* Plausible slips, used to show that the checks notice.

LoadedOnceIsFresh == cache.loadedAt = Never

FailureClearsCache(r) ==
    /\ cache' = [cache EXCEPT !.hashes = [keys |-> {}, readAt |-> now], !.loadedAt = now]
    /\ Proceeds([req EXCEPT ![r].pc = "match", ![r].hashes = [keys |-> {}, readAt |-> now]])

FailureLeavesGateOpen(r) ==
    /\ UNCHANGED cache
    /\ Proceeds([req EXCEPT ![r].pc = IF req[r].why = "miss" THEN "rematch" ELSE "match"])

FailureRearmsColdCache(r) ==
    LET rewound == now - (RefreshInterval - FailureBackoff) IN
    /\ cache' = [cache EXCEPT !.loadedAt = IF @ <= rewound THEN rewound ELSE @]
    /\ Proceeds([req EXCEPT ![r].pc = IF req[r].why = "miss" THEN "rematch" ELSE "match"])

MissUnstamped == UNCHANGED cache

-----------------------------------------------------------------------------
\* verify, step by step.

\* snapshot: whether the scheduled refresh is due.
IsStale == cache.loadedAt = Never \/ now - cache.loadedAt >= RefreshInterval

Snapshots(r, key) ==
    /\ req[r].pc = "waiting"
    /\ Proceeds([req EXCEPT ![r] =
               [Waiting EXCEPT !.key = {key}, !.at = now,
                               !.hashes = cache.hashes,
                               !.pc = IF cache.hashes = NoHashes \/ IsStale
                                      THEN "fetch" ELSE "match",
                               !.why = "scheduled"]])
    /\ UNCHANGED <<now, document, changes, steady, cache, last>>

\* refresh, up to the await: the parameter is read, or cannot be.
Fetches(r) ==
    /\ req[r].pc = "fetch"
    /\ \E got \in {[keys |-> document, readAt |-> now], Failed} :
          /\ Proceeds([req EXCEPT ![r].pc = "apply", ![r].got = got])
          /\ last' = [miss |-> IF req[r].why = "miss" THEN now ELSE last.miss,
                      failed |-> IF got = Failed THEN now ELSE last.failed,
                      outage |-> last.outage]
    /\ UNCHANGED <<now, document, changes, steady, cache>>

AfterRefresh(r) == IF req[r].why = "miss" THEN "rematch" ELSE "match"

\* refresh, after it: a success replaces whatever is cached by then.
RefreshSucceeds(r) ==
    /\ cache' = [cache EXCEPT !.hashes = req[r].got, !.loadedAt = now]
    /\ Proceeds([req EXCEPT ![r].pc = AfterRefresh(r), ![r].hashes = req[r].got])

\* A failure keeps what the request had and re-arms the gate for the backoff,
\* never moving it earlier.
RefreshFails(r) ==
    LET rewound == now - (RefreshInterval - FailureBackoff) IN
    /\ cache' = [cache EXCEPT !.loadedAt =
                   IF req[r].hashes # NoHashes /\ @ <= rewound THEN rewound ELSE @]
    /\ Proceeds([req EXCEPT ![r].pc = AfterRefresh(r)])

Applies(r) ==
    /\ req[r].pc = "apply"
    /\ IF req[r].got = Failed THEN RefreshFails(r) ELSE RefreshSucceeds(r)
    /\ last' = [last EXCEPT !.outage = IF req[r].got = Failed /\ req[r].hashes # NoHashes
                                       THEN now ELSE @]
    /\ UNCHANGED <<now, document, changes, steady>>

\* match_key
MatchKey(r) == req[r].key \subseteq req[r].hashes.keys

\* claim_miss_refresh: the slot, and the stamp taken with it.
MissSlotFree == cache.missAt = Never \/ now - cache.missAt >= MissRefreshFloor

StampsMiss == cache' = [cache EXCEPT !.missAt = now]

Decides(r) ==
    /\ req[r].pc = "match"
    /\ CASE req[r].hashes = NoHashes -> Verdict(r, "Unavailable") /\ UNCHANGED cache
         [] req[r].hashes # NoHashes /\ MatchKey(r) -> Verdict(r, "Allowed") /\ UNCHANGED cache
         [] req[r].hashes # NoHashes /\ ~MatchKey(r) /\ MissSlotFree ->
              /\ Proceeds([req EXCEPT ![r].pc = "fetch", ![r].why = "miss"])
              /\ StampsMiss
         [] OTHER -> Verdict(r, "Denied") /\ UNCHANGED cache
    /\ UNCHANGED <<now, document, changes, steady, last>>

DecidesAgain(r) ==
    /\ req[r].pc = "rematch"
    /\ Verdict(r, IF MatchKey(r) THEN "Allowed" ELSE "Denied")
    /\ UNCHANGED <<now, document, changes, steady, cache, last>>

-----------------------------------------------------------------------------
\* The operator and the clock.

Rotates(d) ==
    /\ changes < MaxChanges
    /\ d # document
    /\ document' = d
    /\ changes' = changes + 1
    /\ steady' = steady \cap d
    /\ answer' = NoAnswer
    /\ UNCHANGED <<now, cache, req, last>>

Tick ==
    /\ now < MaxTime
    /\ \A r \in Requests : Running(r) => now < req[r].at + Timeout
    /\ now' = now + 1
    /\ answer' = NoAnswer
    /\ UNCHANGED <<document, changes, steady, cache, req, last>>

KeyNext ==
    \/ \E r \in Requests :
          \/ \E key \in Keys : Snapshots(r, key)
          \/ Fetches(r)
          \/ Applies(r)
          \/ Decides(r)
          \/ DecidesAgain(r)
    \/ \E d \in Documents : Rotates(d)
    \/ Tick

KeySpec == KeyInit /\ [][KeyNext]_keyVars

-----------------------------------------------------------------------------
\* A cache without hashes has no load time to be fresh by, and one that has been
\* loaded never loses its hashes: a cold cache is never re-armed by a failure.
ColdCacheStaysCold == (cache.hashes = NoHashes) = (cache.loadedAt = Never)

ReadsParameter(r, why) ==
    req[r].pc = "fetch" /\ req[r].why = why /\ req'[r].pc = "apply"

MissSpaced ==
    (\E r \in Requests : ReadsParameter(r, "miss"))
       => now - last.miss >= MissRefreshFloor - Timeout

OutageSpaced ==
    (\E r \in Requests : ~Running(r) /\ req'[r].pc = "fetch" /\ cache.hashes # NoHashes)
       => now - last.outage >= FailureBackoff

\* keys.rs, "a miss cannot drive unlimited fetches", "concurrent misses collapse
\* into one" and "an outage cannot drive unlimited scheduled fetches": reads on a
\* miss are a floor apart, less what a request may wait between its claim and its
\* read; once a refresh has failed, no request that comes in within the backoff
\* starts a scheduled one, however refreshes overlap.
FetchesSpaced == [][MissSpaced /\ OutageSpaced]_keyVars

\* "The outage must not look like a bad key": a key that has been valid all along
\* is answered Allowed or Unavailable, whatever fails and whichever order
\* concurrent refreshes are applied in.
ValidKeysNeverDenied == answer.verdict = "Denied" => ~(answer.key \subseteq steady)

\* Revocation takes effect: an answer rests on a document read within the
\* refresh interval, or a refresh failed within the backoff; requests in flight
\* add their own lifetime.
AllowedOnRecentDocument ==
    answer.verdict = "Allowed" =>
       \/ now - answer.readAt <= RefreshInterval + 2 * Timeout
       \/ now - last.failed <= FailureBackoff + 2 * Timeout

\* Keys are judged by what the parameter holds: neither an outage nor a rotation
\* makes the cache deny a valid key or allow a long revoked one.
KeysAreJudgedFairly == ColdCacheStaysCold /\ ValidKeysNeverDenied /\ AllowedOnRecentDocument
==============================================================================
