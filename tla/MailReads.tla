------------------------------ MODULE MailReads ------------------------------
(***************************************************************************)
(* The read API's lists (crates/webhook/src/api/read.rs and pagination.rs  *)
(* over the list calls of crates/mailbox-store/src/mailbox.rs), while the  *)
(* writers of MailWrites go on.                                            *)
(*                                                                         *)
(* A client asks for a list and follows the page tokens it is given to the *)
(* end.  Lists read the table's indexes, which lag behind it: index is the *)
(* table as the last propagated writes left it.  One round of fill is one  *)
(* Query.  A query string is a sequence of parameters with abstract        *)
(* values: numbers for limit and instants (-1 does not parse), strings     *)
(* otherwise.                                                              *)
(***************************************************************************)
EXTENDS MailWrites

CONSTANTS
    Strangers,      \* requests a token may be presented with: [list, inbox, thread, query]
    MaxLimit,       \* MAX_LIMIT
    DefaultLimit,   \* DEFAULT_LIMIT
    MaxFillPages,   \* MAX_FILL_PAGES
    MaxFaults       \* bound: queries that fail

ASSUME MailReadsAssumption ==
    /\ MaxLimit \in Nat \ {0} /\ DefaultLimit \in 1..MaxLimit
    /\ MaxFillPages \in Nat \ {0} /\ MaxFaults \in Nat

\* The routes, and what a query string can be.
IsAsk(ask) ==
    /\ ask = [list |-> ask.list, inbox |-> ask.inbox, thread |-> ask.thread, query |-> ask.query]
    /\ ask.list \in {"inboxes", "messages", "threads", "thread"}
    /\ ask.query \in Seq(Range(ask.query))

ASSUME AsksAreWellFormed ==
    /\ \A ask \in Strangers : IsAsk(ask)
    /\ \A scenario \in Scenarios : \A ask \in scenario.asks : IsAsk(ask)

VARIABLES
    index,      \* what queries and eventual reads see
    walk,       \* the client's walk through a list
    faults      \* queries that have failed

readVars == <<writeVars, index, walk, faults>>

-----------------------------------------------------------------------------
\* Plausible slips, used to show that the checks notice.

FilledSkipsOvershoot(got, kept, limit, page) ==
    [got |-> SubSeq(got \o kept, 1, IF Len(got \o kept) < limit THEN Len(got \o kept) ELSE limit),
     next |-> page.next]

TokenForAnyScope(token, partition, scope) == token.key.partition = partition

AskedLabelsShowAll(acc) ==
    [acc EXCEPT !.excluded = IF acc.labels = {} THEN {l \in DOMAIN acc.include : ~acc.include[l]} ELSE {}]

-----------------------------------------------------------------------------
(* ListRequest::parse: every bad parameter is reported; the last good      *)
(* value of a scalar wins; unknown parameters are ignored.                 *)

IncludeFlags == [include_spam |-> "spam", include_blocked |-> "blocked",
                 include_unauthenticated |-> "unauthenticated", include_trash |-> "trash"]
HiddenLabels == {IncludeFlags[f] : f \in DOMAIN IncludeFlags}
TextFields == {"from", "to", "subject"}

NoRequest ==
    [errors |-> {}, limit |-> DefaultLimit, ascending |-> FALSE, before |-> {}, after |-> {},
     labels |-> {}, excluded |-> {}, needles |-> [f \in TextFields |-> {}],
     include |-> [l \in HiddenLabels |-> FALSE]]

Bad(acc, field) == [acc EXCEPT !.errors = @ \cup {field}]

IsBool(value) == value \in {"true", "false"}

ParseParameter(acc, p) ==
    CASE p[1] = "limit" ->
            IF p[2] \in 1..MaxLimit THEN [acc EXCEPT !.limit = p[2]] ELSE Bad(acc, "limit")
      [] p[1] = "ascending" ->
            IF IsBool(p[2]) THEN [acc EXCEPT !.ascending = (p[2] = "true")] ELSE Bad(acc, "ascending")
      [] p[1] \in {"before", "after"} ->
            IF p[2] \in Nat THEN [acc EXCEPT ![p[1]] = {p[2]}] ELSE Bad(acc, p[1])
      [] p[1] = "labels" -> IF p[2] = "" THEN acc ELSE [acc EXCEPT !.labels = @ \cup {p[2]}]
      [] p[1] \in TextFields ->
            IF p[2] = "" THEN acc ELSE [acc EXCEPT !.needles[p[1]] = @ \cup {p[2]}]
      [] p[1] \in DOMAIN IncludeFlags ->
            IF IsBool(p[2]) THEN [acc EXCEPT !.include[IncludeFlags[p[1]]] = (p[2] = "true")]
            ELSE Bad(acc, p[1])
      [] OTHER -> acc

CheckWindow(acc) ==
    IF \E a \in acc.after, b \in acc.before : a >= b THEN Bad(acc, "after") ELSE acc

\* An asked-for label wins over the flag that would hide it.
Exclude(acc) ==
    [acc EXCEPT !.excluded = {l \in DOMAIN acc.include : ~acc.include[l]} \ acc.labels]

ParseAll(query) ==
    LET read[n \in 0..Len(query)] ==
            IF n = 0 THEN NoRequest ELSE ParseParameter(read[n - 1], query[n])
    IN  read[Len(query)]

Parse(query) == Exclude(CheckWindow(ParseAll(query)))

\* Filters::matches_message and matches_thread: a field's text is the set of
\* needles it contains.
Matches(request, item) ==
    /\ request.excluded \cap LabelsOf(item) = {}
    /\ request.labels \subseteq LabelsOf(item)
    /\ \A f \in TextFields : request.needles[f] = {} \/ request.needles[f] \cap item.text[f] # {}

-----------------------------------------------------------------------------
(* Partitions, scopes and tokens.                                          *)

Filtered(ask) == ask.list \in {"messages", "threads"}

PartitionOf(ask) ==
    CASE ask.list = "inboxes" -> InboxesPartition
      [] ask.list = "messages" -> MessagesPartition(ask.inbox)
      [] ask.list = "threads" -> ThreadsPartition(ask.inbox)
      [] ask.list = "thread" -> ThreadMessagesPartition(ask.inbox, ask.thread)

\* The order and window a token is bound to; inbox lists and a thread's
\* messages have none.
ScopeOf(ask, request) ==
    IF Filtered(ask) THEN <<request.ascending, request.before, request.after>> ELSE <<>>

EncodePageToken(key, scope) == [key |-> key, scope |-> scope]

DecodesPageToken(token, partition, scope) ==
    token.key.partition = partition /\ token.scope = scope

\* Message ids and thread sort keys both begin with their millisecond.
Bound(instants) == {TimePrefix(ms) : ms \in instants}

QueryOf(ask, request, start) ==
    [index |-> IF ask.list = "thread" THEN "ByThread" ELSE "ByTime",
     partition |-> PartitionOf(ask),
     ascending |-> Filtered(ask) => request.ascending,
     before |-> IF Filtered(ask) THEN Bound(request.before) ELSE {},
     after |-> IF Filtered(ask) THEN Bound(request.after) ELSE {},
     start |-> start]

-----------------------------------------------------------------------------
(* The walk.  got: what the request has collected; seen: what the walk has *)
(* listed; same: every page was asked for alike; steady: the items that    *)
(* were in the list when the walk began and have not been written since.   *)

NoAsk == [list |-> "none", inbox |-> 0, thread |-> 0, query |-> <<>>]

WalkFor(ask) ==
    [pc |-> "idle", ask |-> ask, token |-> {}, request |-> NoRequest,
     start |-> {}, round |-> 0, got |-> <<>>, seen |-> <<>>, same |-> TRUE, steady |-> {}]

ReadInit ==
    \E scenario \in Scenarios :
       /\ WriteInit(scenario)
       /\ index = items /\ faults = 0
       /\ \E ask \in scenario.asks \cup (IF scenario.asks = {} THEN {NoAsk} ELSE {}) :
             walk = WalkFor(ask)

\* What a query string asks for, said without parsing it.
Given(query, name) == {query[i][2] : i \in {j \in DOMAIN query : query[j][1] = name}}
LastGiven(query, name, default) ==
    IF Given(query, name) = {} THEN default ELSE query[Max({i \in DOMAIN query : query[i][1] = name})][2]

InWindow(query, ms) ==
    /\ \A a \in Given(query, "after") : LastGiven(query, "after", a) <= ms
    /\ \A b \in Given(query, "before") : ms < LastGiven(query, "before", b)

MayShow(query, labels) ==
    \A f \in DOMAIN IncludeFlags :
       IncludeFlags[f] \in labels =>
          LastGiven(query, f, "false") = "true" \/ IncludeFlags[f] \in Given(query, "labels")

Wanted(ask, item) ==
    Filtered(ask) =>
       /\ InWindow(ask.query, IF item.kind = "thread" THEN item.timestamp ELSE MsOf(item.id))
       /\ MayShow(ask.query, LabelsOf(item))
       /\ Given(ask.query, "labels") \ {""} \subseteq LabelsOf(item)
       /\ \A f \in TextFields :
             LET needles == Given(ask.query, f) \ {""}
             IN  needles = {} \/ needles \cap item.text[f] # {}

Listed(ask) ==
    {k \in DOMAIN index : /\ \E e \in IndexKeys(index[k]) : e.partition = PartitionOf(ask)
                          /\ Wanted(ask, index[k])}

Asks ==
    /\ walk.pc = "idle" /\ walk.ask # NoAsk
    /\ \E request \in {Parse(walk.ask.query)} :
          walk' = [walk EXCEPT !.steady = Listed(walk.ask), !.request = request,
                               !.pc = IF request.errors = {} THEN "fill" ELSE "refused"]
    /\ UNCHANGED <<writeVars, index, faults>>

\* The client presents its token, with the request that gave it or another.
Follows(ask) ==
    /\ walk.pc = "page"
    /\ \E request \in {Parse(ask.query)}, token \in walk.token :
          /\ request.errors = {}
          /\ DecodesPageToken(token, PartitionOf(ask), ScopeOf(ask, request))
          /\ walk' = [walk EXCEPT !.ask = ask, !.request = request, !.start = {token.key}, !.pc = "fill", !.round = 0,
                                  !.got = <<>>, !.same = @ /\ ask = walk.ask]
    /\ UNCHANGED <<writeVars, index, faults>>

\* What a round leaves: a matching item that does not fit opens the next page.
Filled(got, kept, limit, page) ==
    IF Len(got \o kept) > limit
    THEN [got |-> SubSeq(got \o kept, 1, limit), next |-> {(got \o kept)[limit].row}]
    ELSE [got |-> got \o kept, next |-> page.next]

\* An item as it was read: its page key and the labels that could hide it.
Kept(ask, rows) ==
    [i \in DOMAIN rows |->
        [row |-> PageKey(PartitionOf(ask), rows[i].sort, rows[i].key),
         labels |-> LabelsOf(index[rows[i].key]) \cap HiddenLabels]]

\* The answer: the page, and a token when there is a continuation.
Answers(ask, request, rows, next) ==
    walk' = [walk EXCEPT
        !.seen = @ \o rows,
        !.token = {EncodePageToken(n, ScopeOf(ask, request)) : n \in next},
        !.pc = IF next = {} THEN "end" ELSE "page",
        !.got = <<>>, !.start = {}, !.round = 0]

\* fill: the first round asks for the limit, later ones for MAX_LIMIT.
FillRound ==
    /\ walk.pc = "fill" /\ Filtered(walk.ask)
    /\ \E request \in {walk.request}, query \in {QueryOf(walk.ask, walk.request, walk.start)} :
       \E page \in QueryPages(index, query, IF walk.round = 0 THEN request.limit ELSE MaxLimit) :
          LET kept == InOrder({r \in Range(page.rows) : Matches(request, index[r.key])}, query.ascending)
              filled == Filled(walk.got, Kept(walk.ask, kept), request.limit, page)
          IN  IF filled.next = {} \/ Len(filled.got) >= request.limit \/ walk.round + 1 = MaxFillPages
              THEN Answers(walk.ask, request, filled.got, filled.next)
              ELSE walk' = [walk EXCEPT !.got = filled.got, !.start = filled.next, !.round = @ + 1]
    /\ UNCHANGED <<writeVars, index, faults>>

\* list_inboxes and get_thread: one page as it comes.  A thread is read next
\* to its messages, and its absence is a 404 only if that query succeeded.
ListsPage ==
    /\ walk.pc = "fill" /\ ~Filtered(walk.ask)
    /\ \E request \in {walk.request}, query \in {QueryOf(walk.ask, walk.request, walk.start)} :
       \E page \in QueryPages(index, query, request.limit) :
          IF walk.ask.list = "thread" /\ ThreadKey(walk.ask.inbox, walk.ask.thread) \notin DOMAIN index
          THEN walk' = [walk EXCEPT !.pc = "gone"]
          ELSE Answers(walk.ask, request, Kept(walk.ask, page.rows), page.next)
    /\ UNCHANGED <<writeVars, index, faults>>

\* A failed query fails the request; the client asks for the same page again.
QueryFails ==
    /\ walk.pc = "fill" /\ faults < MaxFaults
    /\ walk' = [walk EXCEPT !.start = {t.key : t \in walk.token}, !.got = <<>>, !.round = 0]
    /\ faults' = faults + 1
    /\ UNCHANGED <<writeVars, index>>

\* A write reaches the indexes.
Propagates ==
    /\ walk.ask # NoAsk
    /\ \E k \in {k \in DOMAIN items \cup DOMAIN index :
                   \E item \in Get(items, k) \cup Get(index, k) : IndexKeys(item) # {}} :
          /\ Get(items, k) # Get(index, k)
          /\ index' = [j \in (DOMAIN index \ {k}) \cup ({k} \cap DOMAIN items) |->
                          IF j = k THEN items[k] ELSE index[j]]
          /\ walk' = [walk EXCEPT !.steady = @ \ {k}]
    /\ UNCHANGED <<writeVars, faults>>

FollowsOn == Follows(walk.ask)

Strays == \E ask \in Strangers \ {walk.ask} : Follows(ask)

ReadStep == Asks \/ FollowsOn \/ FillRound \/ ListsPage

ReadNext ==
    \/ ReadStep \/ Strays \/ QueryFails \/ Propagates
    \/ WriteNext /\ UNCHANGED <<index, walk, faults>>

ReadSpec == ReadInit /\ [][ReadNext]_readVars /\ WF_readVars(ReadStep)

-----------------------------------------------------------------------------

\* A walk to the end lists every item that was in the list throughout and
\* that nobody wrote meanwhile, exactly once: filters, short pages, filled
\* pages and failed queries skip and repeat nothing (read.rs, fill).
WalkIsComplete ==
    walk.pc = "end" /\ walk.same =>
       \A k \in walk.steady : Cardinality({i \in DOMAIN walk.seen : walk.seen[i].row.key = k}) = 1

\* Lists miss nothing: neither a client's walk nor the sweep's.
ListsMissNothing == WalkIsComplete /\ SweepSeesUnsettled

\* What a walk lists is in the asked-for order and window, across pages and
\* while items move, and an item with a hidden label only for a caller who
\* asked for it (pagination.rs).
ListedInOrder ==
    /\ \A i, j \in DOMAIN walk.seen : i < j =>
          IF walk.request.ascending \/ ~Filtered(walk.ask)
          THEN walk.seen[i].row.sort < walk.seen[j].row.sort
          ELSE walk.seen[i].row.sort > walk.seen[j].row.sort
    /\ walk.same /\ Filtered(walk.ask) => \A i \in DOMAIN walk.seen :
          /\ InWindow(walk.ask.query, MsOf(walk.seen[i].row.sort))
          /\ MayShow(walk.ask.query, walk.seen[i].labels)

\* A query is never resumed outside its own partition and bounds, which
\* DynamoDB refuses: a token only works for the list, order and window it was
\* issued for (keys.rs, decode_page_token).
StartsInRange ==
    walk.pc = "fill" =>
       \A s \in walk.start :
          LET q == QueryOf(walk.ask, walk.request, {})
          IN  s.partition = q.partition /\ Bounded(s.sort, q)

\* A page is what its request and token ask for, and nothing else.
ListedAsAsked == ListedInOrder /\ StartsInRange

\* A client that follows its tokens comes to the end of the list: every page
\* moves on, however the filter thins it out.
WalkEnds == walk.ask # NoAsk => <>(walk.pc \in {"end", "refused", "gone"})
=============================================================================
