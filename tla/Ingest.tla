------------------------------- MODULE Ingest --------------------------------
(***************************************************************************)
(* Storing one inbound message (ingest_inbound in                          *)
(* crates/webhook/src/mail/ingest.rs).                                     *)
(*                                                                         *)
(* The message's id follows from the notification, so every delivery of it *)
(* works on the same objects and item.  SNS redelivers until a 2xx, also   *)
(* while an earlier attempt still runs.  A step is one call to S3 or the   *)
(* table; parts of one chunk are put concurrently.  An attempt that fails  *)
(* transiently, runs out of its budget or is killed is not answered 2xx; a *)
(* permanent failure is logged, counted and answered 2xx.  The recipient   *)
(* is the configured inbox, and the receipt points at the mail bucket.     *)
(***************************************************************************)
EXTENDS Naturals, FiniteSets

CONSTANTS
    NParts,     \* attachment parts the message keeps
    ChunkSize,  \* parts put at once
    Attempts    \* deliveries that may be handled at once

ASSUME IngestAssumption == NParts \in Nat /\ ChunkSize \in Nat \ {0}

Parts == 1..NParts

VARIABLES
    inbox,      \* the inbox item exists
    parts,      \* attachment objects in the bucket
    content,    \* the content document is in the bucket
    item,       \* the message item exists
    att,        \* where each attempt is
    answers     \* the 2xx answers given: their outcomes

vars == <<inbox, parts, content, item, att, answers>>

\* todo: parts the attempt still has to put, in order; transient: a store error
\* met on the way; permanent: one that cannot be retried.
Resting == [pc |-> "rest", todo |-> {}, heads |-> {}, transient |-> FALSE, permanent |-> FALSE]

Init ==
    /\ inbox = FALSE /\ parts = {} /\ content = FALSE /\ item = FALSE
    /\ att = [a \in Attempts |-> Resting]
    /\ answers = {}

Goes(a, pc) == att' = [att EXCEPT ![a].pc = pc] /\ UNCHANGED answers

\* The attempt ends with a 2xx, or without one.
Answers(a, outcome) == att' = [att EXCEPT ![a] = Resting] /\ answers' = answers \cup {outcome}
Redelivered(a) == att' = [att EXCEPT ![a] = Resting] /\ UNCHANGED answers

-----------------------------------------------------------------------------
\* Plausible slips, used to show that the checks notice.

FinishForgetsTransient(a, outcome) == Answers(a, outcome)

FirstPartMeansAll(a) == att' = [att EXCEPT ![a].todo = {}, ![a].pc = "parts"] /\ UNCHANGED answers

-----------------------------------------------------------------------------
\* finish: a transient failure anywhere wins.
Finish(a, outcome) ==
    IF att[a].transient THEN Redelivered(a) ELSE Answers(a, outcome)

\* The outcome when no inbox is left to insert into.
NoTarget(a, outcome) == Finish(a, IF att[a].permanent THEN "failed" ELSE outcome)

Delivers(a) ==
    /\ att[a].pc = "rest"
    /\ Goes(a, "resolve")
    /\ UNCHANGED <<inbox, parts, content, item>>

\* resolve_recipient: get_inbox may miss a fresh inbox, ensure_inbox settles it.
Resolves(a) ==
    /\ att[a].pc = "resolve"
    /\ inbox' = TRUE
    /\ Goes(a, "exists")
    /\ UNCHANGED <<parts, content, item>>

\* record_resolution_error: the inbox drops out.
ResolveFails(a) ==
    /\ att[a].pc \in {"resolve", "exists"}
    /\ \E transient \in BOOLEAN :
          att' = [att EXCEPT ![a].pc = "none", ![a].transient = transient,
                             ![a].permanent = ~transient]
    /\ UNCHANGED <<inbox, parts, content, item, answers>>

\* fresh_targets: an eventually consistent read may miss the item, and what it
\* finds is there.
ChecksExists(a) ==
    /\ att[a].pc = "exists"
    /\ \E found \in {FALSE, item} : Goes(a, IF found THEN "none" ELSE "fetch")
    /\ UNCHANGED <<inbox, parts, content, item>>

EndsWithoutTarget(a) ==
    /\ att[a].pc = "none"
    /\ NoTarget(a, "duplicate")
    /\ UNCHANGED <<inbox, parts, content, item>>

\* fetch_parse_and_extract, up to the parts.
FetchesRaw(a) ==
    /\ att[a].pc = "fetch"
    /\ Goes(a, IF Parts = {} THEN "content" ELSE "head")
    /\ UNCHANGED <<inbox, parts, content, item>>

\* resume_filtered: every part unless the first is there already; then one HEAD
\* for each.
HeadsAll(a) ==
    /\ att' = [att EXCEPT ![a].heads = Parts, ![a].pc = "heads"]
    /\ UNCHANGED answers

HeadsFirst(a) ==
    /\ att[a].pc = "head"
    /\ IF 1 \in parts
       THEN HeadsAll(a)
       ELSE att' = [att EXCEPT ![a].todo = Parts, ![a].pc = "parts"] /\ UNCHANGED answers
    /\ UNCHANGED <<inbox, parts, content, item>>

Heads(a) ==
    /\ att[a].pc = "heads"
    /\ att[a].heads # {}
    /\ LET p == CHOOSE q \in att[a].heads : \A o \in att[a].heads : q <= o IN
       att' = [att EXCEPT ![a].heads = @ \ {p},
                          ![a].todo = IF p \in parts THEN @ ELSE @ \cup {p}]
    /\ UNCHANGED <<inbox, parts, content, item, answers>>

HeadsDone(a) ==
    /\ att[a].pc = "heads"
    /\ att[a].heads = {}
    /\ Goes(a, "parts")
    /\ UNCHANGED <<inbox, parts, content, item>>

\* put_chunk: the parts in flight are the first few left to put.
Chunk(a) == {p \in att[a].todo : Cardinality({q \in att[a].todo : q < p}) < ChunkSize}

\* put_one: the part is there afterwards, put now or by another attempt.
PutsPart(a) ==
    /\ att[a].pc = "parts"
    /\ \E p \in Chunk(a) :
          /\ parts' = parts \cup {p}
          /\ att' = [att EXCEPT ![a].todo = @ \ {p}]
    /\ UNCHANGED <<inbox, content, item, answers>>

\* The order of insert_into_inbox: the document, then the item.
AfterStep(pc) == IF pc = "parts" THEN "content" ELSE "insert"

PartsDone(a) ==
    /\ att[a].pc = "parts"
    /\ att[a].todo = {}
    /\ Goes(a, AfterStep("parts"))
    /\ UNCHANGED <<inbox, parts, content, item>>

StoresContent(a) ==
    /\ att[a].pc = "content"
    /\ content' = TRUE
    /\ Goes(a, AfterStep("content"))
    /\ UNCHANGED <<inbox, parts, item>>

\* insert_message (MailThreads); a Duplicate counts as success.
Inserts(a) ==
    /\ att[a].pc = "insert"
    /\ item' = TRUE
    /\ Finish(a, "ingested")
    /\ UNCHANGED <<inbox, parts, content>>

\* A transient failure of any call, one whose effect was not seen included, the
\* deadline, or a kill.
FailsTransiently(a) ==
    /\ att[a].pc \notin {"rest"}
    /\ \/ UNCHANGED <<parts, content, item>>
       \/ att[a].pc = "parts" /\ \E p \in Chunk(a) :
             parts' = parts \cup {p} /\ UNCHANGED <<content, item>>
       \/ att[a].pc = "content" /\ content' = TRUE /\ UNCHANGED <<parts, item>>
       \/ att[a].pc = "insert" /\ item' = TRUE /\ UNCHANGED <<parts, content>>
    /\ Redelivered(a)
    /\ UNCHANGED inbox

\* A missing or malformed message, a denied call, a cap: given up for good.
FailsPermanently(a) ==
    /\ att[a].pc \in {"fetch", "head", "heads", "parts", "content", "insert"}
    /\ Answers(a, "failed")
    /\ UNCHANGED <<inbox, parts, content, item>>

Attempt(a) ==
    \/ Resolves(a) \/ ResolveFails(a) \/ ChecksExists(a) \/ EndsWithoutTarget(a)
    \/ FetchesRaw(a) \/ HeadsFirst(a) \/ Heads(a) \/ HeadsDone(a)
    \/ PutsPart(a) \/ PartsDone(a) \/ StoresContent(a) \/ Inserts(a)
    \/ FailsTransiently(a) \/ FailsPermanently(a)

Next == \E a \in Attempts : Delivers(a) \/ Attempt(a)

Spec == Init /\ [][Next]_vars

\* SNS redelivers until it is answered, and an attempt ends within its budget.
\* The faults a redelivery can outlast do not go on for ever.
FairSpec ==
    /\ Spec
    /\ \A a \in Attempts : WF_vars(answers = {} /\ Delivers(a)) /\ WF_vars(Attempt(a))
    /\ <>[][\A a \in Attempts : ~FailsTransiently(a) /\ ~ResolveFails(a)]_vars

-----------------------------------------------------------------------------
\* insert_into_inbox, "so an item never exists without it": whenever the item can
\* be read, its document and every attachment it names are stored, whatever
\* attempts were cut short and however two of them overlap.
ItemHasItsObjects == item => content /\ parts = Parts /\ inbox

\* ingest_inbound, "a 5xx, so SNS or the async-invoke queue redelivers": once an
\* attempt is answered as ingested or as a duplicate, the message is stored;
\* only a logged failure may be answered without it.
AnsweredMeansStored == answers \cap {"ingested", "duplicate"} # {} => item

\* What is answered as stored is there, and can be read.
StoredWhole == ItemHasItsObjects /\ AnsweredMeansStored

\* ingest_inbound, "so SNS or the async-invoke queue redelivers": when the faults
\* end, redelivery ends in the stored message or in a failure that was logged,
\* and no transient failure is answered as if it were one of those.
EventuallyStored == (\E a \in Attempts : att[a].pc # "rest") ~> (item \/ "failed" \in answers)
==============================================================================
