---------------------------- MODULE InboundProofs ----------------------------
(***************************************************************************)
(* Machine-checked proofs about what comes in: about Ingest, for any number *)
(* of parts, any chunk size and any set of attempts, however their steps   *)
(* interleave; and about SnsDoor, for any messages, deliveries,            *)
(* environments, allowlists and bounds: the wildcard match of an allowlist *)
(* is the search for a placement of its segments, and what is acted on,    *)
(* cached and answered is what should be.                                  *)
(***************************************************************************)
EXTENDS Ingest, SnsDoor, WellFoundedInduction, TLAPS

(***************************************************************************)
(* Ingest.                                                                 *)
(***************************************************************************)

PC == {"rest", "resolve", "exists", "none", "fetch", "head", "heads", "parts",
       "content", "insert"}

AttemptState ==
    [pc : PC, todo : SUBSET Parts, heads : SUBSET Parts,
     transient : BOOLEAN, permanent : BOOLEAN]

TypeOK ==
    /\ inbox \in BOOLEAN
    /\ parts \in SUBSET Parts
    /\ content \in BOOLEAN
    /\ item \in BOOLEAN
    /\ att \in [Attempts -> AttemptState]
    /\ answers \in SUBSET {"ingested", "duplicate", "failed"}

\* What an attempt may rely on where it is.  A part it does not have on its list
\* is stored, by itself, by an earlier attempt or by one beside it; what it has
\* passed by is done, and it gives up on the inbox for a reason.
Knows(a) ==
    LET s == att[a] IN
    /\ s.pc \notin {"rest", "resolve", "none"} => inbox
    /\ s.pc = "heads" => Parts \ (s.todo \cup s.heads) \subseteq parts
    /\ s.pc = "parts" => Parts \ s.todo \subseteq parts
    /\ s.pc \in {"content", "insert"} => parts = Parts
    /\ s.pc = "insert" => content
    /\ s.pc = "none" => item \/ s.transient \/ s.permanent

\* The inductive invariant.
IngestInv == TypeOK /\ (\A a \in Attempts : Knows(a)) /\ StoredWhole

-----------------------------------------------------------------------------
\* What is stored stays stored, so that what an attempt knows outlives the steps
\* of the others.
LEMMA OthersKnow ==
    ASSUME TypeOK, TypeOK', NEW a \in Attempts, Knows(a),
           att'[a] = att[a],
           inbox => inbox', parts \subseteq parts', content => content', item => item'
    PROVE  Knows(a)'
BY DEF Knows, TypeOK

\* The next part to look at, resume_filtered's order, is one that is left.
LEMMA FirstIsOneOf ==
    ASSUME NEW S \in SUBSET Parts, S # {}
    PROVE  (CHOOSE q \in S : \A o \in S : q <= o) \in S
<1>1. S \subseteq Nat
  BY IngestAssumption DEF Parts
<1> DEFINE R == {ss \in Nat \X Nat : ss[1] < ss[2]}
<1>2. IsWellFoundedOn(R, Nat)
  BY NatLessThanWellFounded DEF OpToRel
<1>3. PICK x \in S : \A y \in S : ~(<<y, x>> \in R)
  <2> HIDE DEF R
  <2> QED BY <1>1, <1>2, WFMin
<1>4. \A y \in Nat : y < x => <<y, x>> \in R
  BY <1>1, <1>3
<1>5. ASSUME NEW y \in S PROVE x <= y
  <2>1. x \in Nat /\ y \in Nat
    BY <1>1, <1>3
  <2>2. ~(y < x)
    <3> HIDE DEF R
    <3> QED BY <2>1, <1>3, <1>4
  <2> QED BY <2>1, <2>2
<1> QED BY <1>5

\* An attempt with other lists of parts.
LEMMA ListsType ==
    ASSUME NEW s \in AttemptState, NEW T \in SUBSET Parts, NEW H \in SUBSET Parts
    PROVE  [s EXCEPT !.heads = H, !.todo = T] \in AttemptState
BY DEF AttemptState

\* Every step has a valid next state and keeps what is stored.
LEMMA StepType ==
    ASSUME TypeOK, NEW a \in Attempts, Delivers(a) \/ Attempt(a)
    PROVE  /\ TypeOK'
           /\ \A b \in Attempts \ {a} : att'[b] = att[b]
           /\ inbox => inbox'
           /\ parts \subseteq parts'
           /\ content => content'
           /\ item => item'
<1> USE DEF TypeOK, AttemptState, PC, Goes, Answers, Redelivered, Resting
<1>1. CASE Delivers(a)  BY <1>1 DEF Delivers
<1>2. CASE Resolves(a)  BY <1>2 DEF Resolves
<1>3. CASE ResolveFails(a)
  <2>1. \/ att' = [att EXCEPT ![a].pc = "none", ![a].transient = TRUE, ![a].permanent = FALSE]
        \/ att' = [att EXCEPT ![a].pc = "none", ![a].transient = FALSE, ![a].permanent = TRUE]
    BY <1>3, Zenon DEF ResolveFails
  <2> QED BY <1>3, <2>1 DEF ResolveFails
<1>4. CASE ChecksExists(a)  BY <1>4 DEF ChecksExists
<1>5. CASE EndsWithoutTarget(a)
  <2>1. /\ att' = [att EXCEPT ![a] = Resting]
        /\ answers' \in {answers, answers \cup {"failed"}, answers \cup {"duplicate"}}
    BY <1>5 DEF EndsWithoutTarget, NoTarget, Finish
  <2> QED BY <1>5, <2>1 DEF EndsWithoutTarget
<1>6. CASE FetchesRaw(a)  BY <1>6 DEF FetchesRaw
<1>7. CASE HeadsFirst(a)  BY <1>7 DEF HeadsFirst, HeadsAll
<1>8. CASE Heads(a)
  <2> DEFINE p == CHOOSE q \in att[a].heads : \A o \in att[a].heads : q <= o
  <2>1. p \in Parts
    BY <1>8, FirstIsOneOf DEF Heads
  <2>2. att' = [att EXCEPT ![a].heads = @ \ {p},
                           ![a].todo = IF p \in parts THEN @ ELSE @ \cup {p}]
    BY <1>8, Zenon DEF Heads
  <2> HIDE DEF p
  <2> DEFINE T == IF p \in parts THEN att[a].todo ELSE att[a].todo \cup {p}
             H == att[a].heads \ {p}
  <2>3. T \in SUBSET Parts /\ H \in SUBSET Parts
    BY <2>1
  <2>4. att' = [att EXCEPT ![a] = [@ EXCEPT !.heads = H, !.todo = T]]
    BY <2>2
  <2>5. UNCHANGED <<inbox, parts, content, item, answers>>
    BY <1>8 DEF Heads
  <2> HIDE DEF T, H, AttemptState
  <2>6. [att[a] EXCEPT !.heads = H, !.todo = T] \in AttemptState
    BY <2>3, ListsType DEF TypeOK
  <2> QED BY <2>4, <2>5, <2>6
<1>9. CASE HeadsDone(a)  BY <1>9 DEF HeadsDone
<1>10. CASE PutsPart(a)  BY <1>10 DEF PutsPart, Chunk
<1>11. CASE PartsDone(a)  BY <1>11 DEF PartsDone, AfterStep
<1>12. CASE StoresContent(a)  BY <1>12 DEF StoresContent, AfterStep
<1>13. CASE Inserts(a)
  <2>1. /\ att' = [att EXCEPT ![a] = Resting]
        /\ answers' \in {answers, answers \cup {"ingested"}}
    BY <1>13 DEF Inserts, Finish
  <2> QED BY <1>13, <2>1 DEF Inserts
<1>14. CASE FailsTransiently(a)
  <2>1. \A p \in Chunk(a) : p \in Parts
    BY DEF Chunk
  <2>2. att' = [att EXCEPT ![a] = Resting] /\ UNCHANGED <<inbox, answers>>
    BY <1>14 DEF FailsTransiently
  <2>3. CASE UNCHANGED <<parts, content, item>>  BY <2>2, <2>3
  <2>4. CASE \E p \in Chunk(a) : parts' = parts \cup {p} /\ UNCHANGED <<content, item>>
    BY <2>1, <2>2, <2>4
  <2>5. CASE content' = TRUE /\ UNCHANGED <<parts, item>>  BY <2>2, <2>5
  <2>6. CASE item' = TRUE /\ UNCHANGED <<parts, content>>  BY <2>2, <2>6
  <2> QED BY <1>14, <2>3, <2>4, <2>5, <2>6 DEF FailsTransiently
<1>15. CASE FailsPermanently(a)  BY <1>15 DEF FailsPermanently
<1> QED
  BY <1>1, <1>2, <1>3, <1>4, <1>5, <1>6, <1>7, <1>8, <1>9, <1>10, <1>11, <1>12,
     <1>13, <1>14, <1>15 DEF Attempt

-----------------------------------------------------------------------------
\* The step itself: what the attempt that takes it knows afterwards, and that
\* an item or an answer comes only from one that knew enough.
LEMMA StepKnows ==
    ASSUME IngestInv, TypeOK', NEW a \in Attempts, Delivers(a) \/ Attempt(a)
    PROVE  Knows(a)' /\ StoredWhole'
<1> USE DEF IngestInv, TypeOK, Knows, StoredWhole, ItemHasItsObjects, AnsweredMeansStored,
            Goes, Answers, Redelivered, Resting
<1>1. CASE Delivers(a)  BY <1>1 DEF Delivers
<1>2. CASE Resolves(a)  BY <1>2 DEF Resolves
<1>3. CASE ResolveFails(a)
  <2>1. \/ att' = [att EXCEPT ![a].pc = "none", ![a].transient = TRUE, ![a].permanent = FALSE]
        \/ att' = [att EXCEPT ![a].pc = "none", ![a].transient = FALSE, ![a].permanent = TRUE]
    BY <1>3, Zenon DEF ResolveFails
  <2>2. att'[a].pc = "none" /\ (att'[a].transient \/ att'[a].permanent)
    BY <2>1 DEF AttemptState
  <2> QED BY <1>3, <2>2 DEF ResolveFails
<1>4. CASE ChecksExists(a)
  <2>1. PICK found \in {FALSE, item} : att' = [att EXCEPT ![a].pc = IF found THEN "none" ELSE "fetch"]
    BY <1>4 DEF ChecksExists
  <2>2. att'[a].pc = "fetch" \/ (att'[a].pc = "none" /\ item)
    <3>1. CASE found = FALSE  BY <2>1, <3>1 DEF AttemptState
    <3>2. CASE found = item
      <4>1. CASE item  BY <2>1, <3>2, <4>1 DEF AttemptState
      <4>2. CASE ~item  BY <2>1, <3>2, <4>2 DEF AttemptState
      <4> QED BY <4>1, <4>2
    <3> QED BY <3>1, <3>2
  <2> QED BY <1>4, <2>2 DEF ChecksExists
<1>5. CASE EndsWithoutTarget(a)  BY <1>5 DEF EndsWithoutTarget, NoTarget, Finish
<1>6. CASE FetchesRaw(a)
  <2>1. Parts = {} => parts = Parts
    OBVIOUS
  <2>2. att'[a].pc = "head" \/ (att'[a].pc = "content" /\ parts = Parts)
    BY <1>6, <2>1 DEF FetchesRaw, AttemptState
  <2> QED BY <1>6, <2>2 DEF FetchesRaw
<1>7. CASE HeadsFirst(a)
  <2>1. \/ att'[a].pc = "heads" /\ att'[a].heads = Parts
        \/ att'[a].pc = "parts" /\ att'[a].todo = Parts
    BY <1>7 DEF HeadsFirst, HeadsAll, AttemptState
  <2> QED BY <1>7, <2>1 DEF HeadsFirst, HeadsAll
<1>8. CASE Heads(a)
  <2> DEFINE p == CHOOSE q \in att[a].heads : \A o \in att[a].heads : q <= o
  <2>1. att' = [att EXCEPT ![a].heads = @ \ {p},
                           ![a].todo = IF p \in parts THEN @ ELSE @ \cup {p}]
    BY <1>8, Zenon DEF Heads
  <2>2. att[a].pc = "heads" /\ UNCHANGED <<inbox, parts, content, item, answers>>
    BY <1>8 DEF Heads
  <2> HIDE DEF p
  <2>3. /\ att'[a].pc = "heads"
        /\ att'[a].heads = att[a].heads \ {p}
        /\ att'[a].todo = IF p \in parts THEN att[a].todo ELSE att[a].todo \cup {p}
    BY <2>1, <2>2 DEF AttemptState
  <2> QED BY <2>2, <2>3
<1>9. CASE HeadsDone(a)  BY <1>9 DEF HeadsDone
<1>10. CASE PutsPart(a)  BY <1>10 DEF PutsPart, Chunk
<1>11. CASE PartsDone(a)  BY <1>11 DEF PartsDone, AfterStep
<1>12. CASE StoresContent(a)  BY <1>12 DEF StoresContent, AfterStep
<1>13. CASE Inserts(a)  BY <1>13 DEF Inserts, Finish
<1>14. CASE FailsTransiently(a)
  <2>1. att'[a].pc = "rest" /\ UNCHANGED <<inbox, answers>>
    BY <1>14 DEF FailsTransiently
  <2>2. CASE UNCHANGED <<parts, content, item>>  BY <2>1, <2>2
  <2>3. CASE \E p \in Chunk(a) : parts' = parts \cup {p} /\ UNCHANGED <<content, item>>
    BY <2>1, <2>3 DEF Chunk, AttemptState
  <2>4. CASE content' = TRUE /\ UNCHANGED <<parts, item>>  BY <2>1, <2>4
  <2>5. CASE att[a].pc = "insert" /\ item' = TRUE /\ UNCHANGED <<parts, content>>
    BY <2>1, <2>5
  <2> QED BY <1>14, <2>2, <2>3, <2>4, <2>5 DEF FailsTransiently
<1>15. CASE FailsPermanently(a)  BY <1>15 DEF FailsPermanently
<1> QED
  BY <1>1, <1>2, <1>3, <1>4, <1>5, <1>6, <1>7, <1>8, <1>9, <1>10, <1>11, <1>12,
     <1>13, <1>14, <1>15 DEF Attempt

\* ingest_inbound, for any number of overlapping and repeated deliveries: the
\* inductive invariant holds throughout.
THEOREM IngestIsSafe == Spec => []IngestInv
<1>1. Init => IngestInv
  <2> SUFFICES ASSUME Init PROVE IngestInv
    OBVIOUS
  <2>1. TypeOK
    BY DEF Init, TypeOK, AttemptState, PC, Resting
  <2>2. \A a \in Attempts : Knows(a)
    BY DEF Init, Knows, Resting
  <2>3. StoredWhole
    BY DEF Init, StoredWhole, ItemHasItsObjects, AnsweredMeansStored
  <2> QED BY <2>1, <2>2, <2>3 DEF IngestInv
<1>2. IngestInv /\ [Next]_vars => IngestInv'
  <2> SUFFICES ASSUME IngestInv, [Next]_vars PROVE IngestInv'
    OBVIOUS
  <2>1. CASE UNCHANGED vars
    BY <2>1 DEF vars, IngestInv, TypeOK, Knows, StoredWhole, ItemHasItsObjects, AnsweredMeansStored
  <2>2. ASSUME NEW a \in Attempts, Delivers(a) \/ Attempt(a)
        PROVE  IngestInv'
    <3>1. /\ TypeOK'
          /\ \A b \in Attempts \ {a} : att'[b] = att[b]
          /\ (inbox => inbox') /\ parts \subseteq parts' /\ (content => content') /\ (item => item')
      BY <2>2, StepType DEF IngestInv
    <3>2. Knows(a)' /\ StoredWhole'
      BY <2>2, <3>1, StepKnows
    <3>3. \A b \in Attempts \ {a} : Knows(b)'
      BY <3>1, OthersKnow DEF IngestInv
    <3> QED BY <3>1, <3>2, <3>3 DEF IngestInv
  <2> QED BY <2>1, <2>2 DEF Next
<1> QED BY <1>1, <1>2, PTL DEF Spec

\* insert_into_inbox, "so an item never exists without it", and ingest_inbound's
\* answers: whatever attempts are cut short and however they overlap, a stored
\* item has its document and every part, and an answer that says so is true.
THEOREM StoredIsWhole == Spec => []StoredWhole
BY IngestIsSafe, PTL DEF IngestInv

-----------------------------------------------------------------------------
(***************************************************************************)
(* SnsDoor.                                                                *)
(***************************************************************************)

\* What counts up from 1 by single steps reaches every number.
LEMMA CountsUp ==
    ASSUME NEW n \in Nat, NEW S, 1 \in S,
           \A k \in 1 .. n : k + 1 \in 1 .. n /\ k \in S => k + 1 \in S
    PROVE  1 .. n \subseteq S
<1> DEFINE R == {ss \in Nat \X Nat : ss[1] < ss[2]}
           T == (1 .. n) \ S
<1>1. IsWellFoundedOn(R, Nat)
  BY NatLessThanWellFounded DEF OpToRel
<1>2. SUFFICES ASSUME T # {} PROVE FALSE
  OBVIOUS
<1>3. T \subseteq Nat
  OBVIOUS
<1>4. PICK x \in T : \A y \in T : ~(<<y, x>> \in R)
  <2> HIDE DEF R, T
  <2> QED BY <1>1, <1>2, <1>3, WFMin
<1>5. x \in 1 .. n /\ x \notin S /\ x # 1
  BY <1>4
<1>6. x - 1 \in 1 .. n /\ (x - 1) + 1 = x
  BY <1>5
<1>7. x - 1 \notin S
  BY <1>5, <1>6
<1>8. x - 1 \in T /\ <<x - 1, x>> \in R
  BY <1>5, <1>6, <1>7
<1> QED
  <2> HIDE DEF R, T
  <2> QED BY <1>4, <1>8

\* The first of a set of numbers.
LEMMA FirstIsLeast ==
    ASSUME NEW S \in SUBSET Nat, S # {}
    PROVE  LET first == CHOOSE i \in S : \A j \in S : i <= j
           IN  first \in S /\ \A j \in S : first <= j
<1> DEFINE R == {ss \in Nat \X Nat : ss[1] < ss[2]}
<1>1. IsWellFoundedOn(R, Nat)
  BY NatLessThanWellFounded DEF OpToRel
<1>2. PICK x \in S : \A y \in S : ~(<<y, x>> \in R)
  <2> HIDE DEF R
  <2> QED BY <1>1, WFMin
<1>3. ASSUME NEW y \in S PROVE x <= y
  <2>1. x \in Nat /\ y \in Nat
    BY <1>2, <1>3
  <2>2. y < x => <<y, x>> \in R
    BY <2>1
  <2>3. ~(y < x)
    <3> HIDE DEF R
    <3> QED BY <1>2, <1>3, <2>2
  <2> QED BY <2>1, <2>3
<1> QED BY <1>2, <1>3

-----------------------------------------------------------------------------
\* A pattern with a wildcard and a value, by the lengths of their segments.
IsPattern(p) == IsSequence(p) /\ p # <<>> /\ \A i \in DOMAIN p : IsSequence(p[i])

LEMMA SequenceFacts ==
    ASSUME NEW s, IsSequence(s)
    PROVE  Len(s) \in Nat /\ DOMAIN s = 1 .. Len(s) /\ SubSeq(s, 1, Len(s)) = s
BY DEF IsSequence

LEMMA PatternFacts ==
    ASSUME NEW p, IsPattern(p)
    PROVE  Len(p) \in Nat \ {0} /\ \A i \in 1 .. Len(p) : IsSequence(p[i]) /\ Len(p[i]) \in Nat
<1>1. Len(p) \in Nat /\ DOMAIN p = 1 .. Len(p)
  BY SequenceFacts DEF IsPattern
<1>2. Len(p) # 0
  BY DEF IsPattern, IsSequence
<1> QED BY <1>1, <1>2, SequenceFacts DEF IsPattern

\* EarliestEnd is past every value, or the end of an occurrence, and no occurrence
\* after `from' ends before.
LEMMA EarliestEndFacts ==
    ASSUME NEW s, IsSequence(s), NEW v, IsSequence(v), NEW from \in Nat
    PROVE  /\ EarliestEnd(s, v, from) \in Nat
           /\ EarliestEnd(s, v, from) <= Len(v) =>
                 \E i \in from .. Len(v) : IsAt(s, v, i) /\ EarliestEnd(s, v, from) = i + Len(s)
           /\ \A i \in from .. Len(v) : IsAt(s, v, i) => EarliestEnd(s, v, from) <= i + Len(s)
<1> DEFINE at == {i \in from .. Len(v) : IsAt(s, v, i)}
           first == CHOOSE i \in at : \A j \in at : i <= j
<1>1. Len(s) \in Nat /\ Len(v) \in Nat
  BY SequenceFacts
<1>2. EarliestEnd(s, v, from) = IF at = {} THEN Len(v) + 1 ELSE Len(s) + first
  BY DEF EarliestEnd
<1>3. CASE at = {}
  <2>1. EarliestEnd(s, v, from) = Len(v) + 1
    BY <1>2, <1>3
  <2> QED BY <1>1, <1>3, <2>1
<1>4. CASE at # {}
  <2>1. at \in SUBSET Nat
    BY <1>1
  <2>2. first \in at /\ \A j \in at : first <= j
    <3> HIDE DEF at
    <3> QED BY <1>4, <2>1, FirstIsLeast
  <2>3. EarliestEnd(s, v, from) = Len(s) + first
    BY <1>2, <1>4
  <2> HIDE DEF first
  <2> QED BY <1>1, <2>1, <2>2, <2>3
<1> QED BY <1>3, <1>4

\* MiddleEnd is what its recursion says: there are such ends, found one by one.
EndsOf(p, v, end) ==
    /\ end \in [1 .. Len(p) - 1 -> Nat]
    /\ \A k \in 1 .. Len(p) - 1 :
          end[k] = IF k = 1 THEN Len(p[1]) ELSE EarliestEnd(p[k], v, end[k - 1])

LEMMA MiddleEndIsRecursive ==
    ASSUME NEW p, IsPattern(p), NEW v, IsSequence(v), Len(p) > 1
    PROVE  \E end : EndsOf(p, v, end) /\ MiddleEnd(p, v) = end[Len(p) - 1]
<1> DEFINE n == Len(p) - 1
           Step(f, k) == IF k = 1 THEN Len(p[1]) ELSE EarliestEnd(p[k], v, f[k - 1])
           Upto(m) == \E f \in [1 .. m -> Nat] : \A k \in 1 .. m : f[k] = Step(f, k)
           S == {m \in 1 .. n : Upto(m)}
<1>1. n \in Nat /\ n >= 1 /\ \A k \in 1 .. n : IsSequence(p[k]) /\ Len(p[k]) \in Nat
  BY PatternFacts
<1>2. 1 \in S
  <2>1. [k \in 1 .. 1 |-> Len(p[1])] \in [1 .. 1 -> Nat]
    BY <1>1
  <2>2. \A k \in 1 .. 1 : [j \in 1 .. 1 |-> Len(p[1])][k] = Step([j \in 1 .. 1 |-> Len(p[1])], k)
    OBVIOUS
  <2>3. Upto(1)
    BY <2>1, <2>2
  <2> QED BY <1>1, <2>3
<1>3. ASSUME NEW m \in 1 .. n, m + 1 \in 1 .. n, m \in S
      PROVE  m + 1 \in S
  <2>1. PICK f \in [1 .. m -> Nat] : \A k \in 1 .. m : f[k] = Step(f, k)
    BY <1>3
  <2> DEFINE g == [k \in 1 .. m + 1 |-> IF k \in 1 .. m THEN f[k] ELSE EarliestEnd(p[k], v, f[m])]
  <2>2. f[m] \in Nat /\ IsSequence(p[m + 1])
    BY <1>1, <1>3, <2>1
  <2>3. EarliestEnd(p[m + 1], v, f[m]) \in Nat
    BY <2>2, EarliestEndFacts
  <2>4. g \in [1 .. m + 1 -> Nat]
    <3> HIDE DEF Step
    <3>1. ASSUME NEW k \in 1 .. m + 1 PROVE g[k] \in Nat
      <4>1. CASE k \in 1 .. m
        BY <2>1, <4>1
      <4>2. CASE k \notin 1 .. m
        <5>1. k = m + 1
          BY <1>3, <4>2
        <5> QED BY <4>2, <5>1, <2>3
      <4> QED BY <4>1, <4>2
    <3> QED BY <3>1
  <2>5. ASSUME NEW k \in 1 .. m + 1 PROVE g[k] = Step(g, k)
    <3>1. CASE k \in 1 .. m
      <4>1. g[k] = f[k] /\ f[k] = Step(f, k)
        BY <2>1, <3>1
      <4>2. k # 1 => k - 1 \in 1 .. m /\ k - 1 \in 1 .. m + 1
        BY <1>3, <3>1
      <4>3. k # 1 => g[k - 1] = f[k - 1]
        BY <4>2
      <4> HIDE DEF g
      <4> QED BY <4>1, <4>3
    <3>2. CASE k \notin 1 .. m
      <4>1. k = m + 1 /\ k # 1 /\ k - 1 = m /\ m \in 1 .. m
        BY <1>3, <3>2
      <4>2. g[k] = EarliestEnd(p[k], v, f[m]) /\ g[m] = f[m]
        BY <3>2, <4>1
      <4> HIDE DEF g
      <4> QED BY <4>1, <4>2
    <3> QED BY <3>1, <3>2
  <2>6. Upto(m + 1)
    <3> HIDE DEF g, Step
    <3> QED BY <2>4, <2>5
  <2> QED BY <1>3, <2>6
<1>4. n \in S
  <2> HIDE DEF S
  <2>1. 1 .. n \subseteq S
    BY <1>1, <1>2, <1>3, CountsUp
  <2> QED BY <1>1, <2>1
<1>5. PICK f \in [1 .. n -> Nat] : \A k \in 1 .. n : f[k] = Step(f, k)
  BY <1>4
<1> DEFINE Rec(e) == e = [k \in 1 .. n |-> IF k = 1 THEN Len(p[1]) ELSE EarliestEnd(p[k], v, e[k - 1])]
           end == CHOOSE e : Rec(e)
<1>6. Rec(f)
  BY <1>5
<1>7. Rec(end)
  <2> HIDE DEF Rec
  <2> QED BY <1>6
<1>8. MiddleEnd(p, v) = end[n]
  BY DEF MiddleEnd
<1> HIDE DEF end
<1>9. \A k \in 1 .. n : end[k] = Step(end, k)
  BY <1>7
<1>10. end = f
  <2>1. end = [k \in 1 .. n |-> Step(end, k)]
    BY <1>7
  <2> DEFINE E == {k \in 1 .. n : end[k] = f[k]}
  <2>2. 1 \in E
    BY <1>1, <1>5, <1>9
  <2>3. ASSUME NEW k \in 1 .. n, k + 1 \in 1 .. n, k \in E PROVE k + 1 \in E
    <3>1. k + 1 # 1 /\ (k + 1) - 1 = k /\ end[k] = f[k]
      BY <1>1, <2>3
    <3>2. end[k + 1] = Step(end, k + 1) /\ f[k + 1] = Step(f, k + 1)
      BY <1>5, <1>9, <2>3
    <3> QED BY <3>1, <3>2, <2>3
  <2>4. 1 .. n \subseteq E
    <3> HIDE DEF E
    <3> QED BY <1>1, <2>2, <2>3, CountsUp
  <2>5. \A k \in 1 .. n : end[k] = f[k]
    BY <2>4
  <2> HIDE DEF Step
  <2> QED BY <2>1, <2>5
<1> QED BY <1>5, <1>8, <1>10 DEF EndsOf

\* What the operator meant by a pattern: its segments can be placed in turn, the
\* first at the start and the last at the end of the topic.
Placed(p, v, at) ==
    /\ at \in [1 .. Len(p) -> 0 .. Len(v)]
    /\ at[1] = 0 /\ at[Len(p)] + Len(p[Len(p)]) = Len(v)
    /\ \A i \in 1 .. Len(p) : IsAt(p[i], v, at[i])
    /\ \A i \in 1 .. Len(p) - 1 : at[i] + Len(p[i]) <= at[i + 1]

LEMMA MatchIsPlaced ==
    ASSUME NEW p, IsPattern(p), NEW v, IsSequence(v), GlobMatch(p, v)
    PROVE  \E at : Placed(p, v, at)
<1>1. Len(p) \in Nat \ {0} /\ Len(v) \in Nat /\ \A k \in 1 .. Len(p) : IsSequence(p[k]) /\ Len(p[k]) \in Nat
  BY PatternFacts, SequenceFacts
<1>2. CASE Len(p) = 1
  <2>1. p[1] = v /\ SubSeq(v, 1, Len(v)) = v
    BY <1>2, SequenceFacts DEF GlobMatch
  <2>2. IsAt(p[1], v, 0)
    BY <1>1, <2>1 DEF IsAt
  <2>3. [i \in 1 .. 1 |-> 0] \in [1 .. Len(p) -> 0 .. Len(v)]
    BY <1>1, <1>2
  <2>4. Placed(p, v, [i \in 1 .. 1 |-> 0])
    <3> DEFINE at == [i \in 1 .. 1 |-> 0]
    <3>1. at[1] = 0 /\ at[1] + Len(p[1]) = Len(v)
      BY <1>1, <2>1
    <3>2. \A i \in 1 .. Len(p) : IsAt(p[i], v, at[i])
      BY <1>2, <2>2
    <3>3. \A i \in 1 .. Len(p) - 1 : at[i] + Len(p[i]) <= at[i + 1]
      BY <1>2
    <3> QED BY <1>2, <2>3, <3>1, <3>2, <3>3 DEF Placed
  <2> QED BY <2>4
<1>3. CASE Len(p) > 1
  <2> DEFINE n == Len(p) - 1
             last == p[Len(p)]
  <2>1. PICK end : EndsOf(p, v, end) /\ MiddleEnd(p, v) = end[n]
    BY <1>3, MiddleEndIsRecursive
  <2>2. /\ n \in Nat /\ n >= 1 /\ Len(last) \in Nat
        /\ IsAt(p[1], v, 0) /\ end[n] + Len(last) <= Len(v) /\ IsAt(last, v, Len(v) - Len(last))
    BY <1>1, <1>3, <2>1 DEF GlobMatch
  <2>3. end \in [1 .. n -> Nat] /\ end[1] = Len(p[1])
    BY <2>1, <2>2 DEF EndsOf
  <2>4. ASSUME NEW k \in 1 .. n, k # 1
        PROVE  /\ end[k] = EarliestEnd(p[k], v, end[k - 1])
               /\ k - 1 \in 1 .. n /\ end[k - 1] \in Nat /\ IsSequence(p[k])
    <3>1. k \in 1 .. Len(p) - 1 /\ k \in 1 .. Len(p) /\ k - 1 \in 1 .. n
      BY <1>1, <2>2, <2>4
    <3>2. end[k] = EarliestEnd(p[k], v, end[k - 1])
      BY <2>1, <2>4, <3>1 DEF EndsOf
    <3> QED BY <1>1, <2>3, <3>1, <3>2
  <2>5. \A k \in 1 .. n : end[k] <= Len(v)
    <3> DEFINE S == {j \in 1 .. n : end[(n + 1) - j] <= Len(v)}
    <3>1. 1 \in S
      BY <1>1, <2>2, <2>3
    <3>2. ASSUME NEW j \in 1 .. n, j + 1 \in 1 .. n, j \in S PROVE j + 1 \in S
      <4> DEFINE k == (n + 1) - j
      <4>1. k \in 1 .. n /\ k # 1 /\ k - 1 = (n + 1) - (j + 1) /\ end[k] <= Len(v)
        BY <2>2, <3>2
      <4>2. end[k] = EarliestEnd(p[k], v, end[k - 1]) /\ end[k - 1] \in Nat /\ IsSequence(p[k])
        BY <2>4, <4>1
      <4> HIDE DEF k
      <4>3. PICK i \in end[k - 1] .. Len(v) : IsAt(p[k], v, i)
        BY <4>1, <4>2, EarliestEndFacts
      <4>4. end[k - 1] <= Len(v)
        BY <1>1, <4>2, <4>3
      <4> QED BY <3>2, <4>1, <4>4
    <3>3. 1 .. n \subseteq S
      <4> HIDE DEF S
      <4> QED BY <2>2, <3>1, <3>2, CountsUp
    <3>4. ASSUME NEW k \in 1 .. n PROVE end[k] <= Len(v)
      <4>1. (n + 1) - k \in 1 .. n /\ (n + 1) - ((n + 1) - k) = k
        BY <2>2
      <4>2. (n + 1) - k \in S
        BY <3>3, <4>1
      <4> QED BY <4>1, <4>2
    <3> QED BY <3>4
  <2> DEFINE at == [k \in 1 .. Len(p) |-> IF k \in 1 .. n THEN end[k] - Len(p[k]) ELSE Len(v) - Len(last)]
  <2>6. ASSUME NEW k \in 1 .. n
        PROVE  /\ at[k] \in 0 .. Len(v) /\ at[k] + Len(p[k]) = end[k] /\ IsAt(p[k], v, at[k])
               /\ k # 1 => end[k - 1] <= at[k]
    <3>1. at[k] = end[k] - Len(p[k]) /\ Len(p[k]) \in Nat /\ end[k] \in Nat
      <4>1. k \in 1 .. Len(p)
        BY <1>1, <2>2
      <4> QED BY <1>1, <2>3, <4>1
    <3>2. CASE k = 1
      <4>1. at[k] = 0
        BY <2>3, <3>1, <3>2
      <4> QED BY <1>1, <2>2, <2>3, <3>2, <4>1
    <3>3. CASE k # 1
      <4>1. end[k] = EarliestEnd(p[k], v, end[k - 1]) /\ end[k - 1] \in Nat /\ IsSequence(p[k])
        BY <2>4, <3>3
      <4>2. PICK i \in end[k - 1] .. Len(v) : IsAt(p[k], v, i) /\ end[k] = i + Len(p[k])
        <5>1. EarliestEnd(p[k], v, end[k - 1]) <= Len(v)
          BY <2>5, <4>1
        <5>2. \E i \in end[k - 1] .. Len(v) :
                 IsAt(p[k], v, i) /\ EarliestEnd(p[k], v, end[k - 1]) = i + Len(p[k])
          BY <4>1, <5>1, EarliestEndFacts
        <5> QED BY <4>1, <5>2
      <4> HIDE DEF at
      <4>3. i = at[k] /\ i \in 0 .. Len(v)
        BY <1>1, <3>1, <4>1, <4>2
      <4> QED BY <1>1, <3>1, <4>1, <4>2, <4>3
    <3> QED BY <3>2, <3>3
  <2>7. /\ at[Len(p)] = Len(v) - Len(last) /\ at[Len(p)] \in 0 .. Len(v)
        /\ at[Len(p)] + Len(last) = Len(v) /\ IsAt(last, v, at[Len(p)])
        /\ end[n] <= at[Len(p)]
    <3>1. at[Len(p)] = Len(v) - Len(last)
      BY <1>1, <1>3
    <3>2. end[n] \in Nat
      BY <2>2, <2>3
    <3> HIDE DEF at, last
    <3> QED BY <1>1, <2>2, <3>1, <3>2
  <2>8. at \in [1 .. Len(p) -> 0 .. Len(v)]
    <3>1. \A k \in 1 .. Len(p) : k \in 1 .. n \/ k = Len(p)
      BY <1>1
    <3>2. \A k \in 1 .. Len(p) : at[k] \in 0 .. Len(v)
      <4> HIDE DEF at
      <4> QED BY <2>6, <2>7, <3>1
    <3> QED BY <3>2
  <2>9. \A i \in 1 .. Len(p) : IsAt(p[i], v, at[i])
    <3>1. \A k \in 1 .. Len(p) : k \in 1 .. n \/ k = Len(p)
      BY <1>1
    <3> HIDE DEF at
    <3> QED BY <2>6, <2>7, <3>1
  <2>10. ASSUME NEW i \in 1 .. Len(p) - 1 PROVE at[i] + Len(p[i]) <= at[i + 1]
    <3>1. at[i] + Len(p[i]) = end[i]
      BY <2>6
    <3>2. CASE i = n
      <4>1. i + 1 = Len(p)
        BY <1>1, <3>2
      <4> HIDE DEF at
      <4> QED BY <3>1, <3>2, <4>1, <2>7
    <3>3. CASE i # n
      <4>1. i + 1 \in 1 .. n /\ i + 1 # 1 /\ (i + 1) - 1 = i
        BY <1>1, <3>3
      <4>2. end[i] <= at[i + 1]
        <5> HIDE DEF at
        <5> QED BY <2>6, <4>1
      <4> HIDE DEF at
      <4> QED BY <3>1, <4>2
    <3> QED BY <3>2, <3>3
  <2>11. at[1] = 0
    <3>1. 1 \in 1 .. n
      BY <2>2
    <3>2. at[1] = end[1] - Len(p[1]) /\ Len(p[1]) \in Nat
      BY <1>1, <3>1
    <3> QED BY <2>3, <3>2
  <2> HIDE DEF at
  <2> QED BY <2>7, <2>8, <2>9, <2>10, <2>11 DEF Placed
<1> QED BY <1>1, <1>2, <1>3

LEMMA PlacedIsMatch ==
    ASSUME NEW p, IsPattern(p), NEW v, IsSequence(v), NEW at, Placed(p, v, at)
    PROVE  GlobMatch(p, v)
<1>1. Len(p) \in Nat \ {0} /\ Len(v) \in Nat /\ \A k \in 1 .. Len(p) : IsSequence(p[k]) /\ Len(p[k]) \in Nat
  BY PatternFacts, SequenceFacts
<1>2. CASE Len(p) = 1
  <2>1. Len(p[1]) = Len(v) /\ IsAt(p[1], v, 0)
    BY <1>1, <1>2 DEF Placed
  <2>2. SubSeq(v, 1, Len(v)) = v /\ SubSeq(v, 0 + 1, 0 + Len(p[1])) = p[1]
    BY <2>1, SequenceFacts DEF IsAt
  <2>3. p[1] = v
    BY <1>1, <2>1, <2>2
  <2> QED BY <1>2, <2>3 DEF GlobMatch
<1>3. CASE Len(p) > 1
  <2> DEFINE n == Len(p) - 1
             last == p[Len(p)]
  <2>1. PICK end : EndsOf(p, v, end) /\ MiddleEnd(p, v) = end[n]
    BY <1>3, MiddleEndIsRecursive
  <2>2. n \in Nat /\ n >= 1 /\ n + 1 = Len(p)
    BY <1>1, <1>3
  <2>3. \A k \in 1 .. n : at[k] \in 0 .. Len(v) /\ end[k] \in Nat /\ Len(p[k]) \in Nat
    <3>1. ASSUME NEW k \in 1 .. n
          PROVE  k \in 1 .. Len(p) - 1 /\ k \in 1 .. Len(p)
      BY <1>1, <2>2
    <3> QED BY <1>1, <2>1, <3>1 DEF EndsOf, Placed
  <2> DEFINE S == {k \in 1 .. n : end[k] <= at[k] + Len(p[k])}
  <2>4. 1 \in S
    <3>1. end[1] = Len(p[1]) /\ at[1] = 0
      BY <2>1, <2>2 DEF EndsOf, Placed
    <3> QED BY <1>1, <2>2, <3>1
  <2>5. ASSUME NEW k \in 1 .. n, k + 1 \in 1 .. n, k \in S PROVE k + 1 \in S
    <3>1. end[k] <= at[k] + Len(p[k]) /\ at[k] + Len(p[k]) <= at[k + 1]
      BY <2>2, <2>5 DEF Placed
    <3>2. at[k + 1] \in end[k] .. Len(v)
      BY <1>1, <2>3, <2>5, <3>1
    <3>3. k + 1 # 1 /\ (k + 1) - 1 = k /\ k + 1 \in 1 .. Len(p)
      BY <2>2, <2>5
    <3>4. end[k + 1] = EarliestEnd(p[k + 1], v, end[k]) /\ IsAt(p[k + 1], v, at[k + 1])
      BY <2>1, <2>5, <3>3 DEF EndsOf, Placed
    <3>5. end[k + 1] <= at[k + 1] + Len(p[k + 1])
      <4>1. IsSequence(p[k + 1]) /\ end[k] \in Nat
        BY <1>1, <2>3, <2>5, <3>3
      <4>2. EarliestEnd(p[k + 1], v, end[k]) <= at[k + 1] + Len(p[k + 1])
        BY <3>2, <3>4, <4>1, EarliestEndFacts
      <4> QED BY <3>4, <4>2
    <3> QED BY <2>5, <3>5
  <2>6. n \in S
    <3>1. 1 .. n \subseteq S
      <4> HIDE DEF S
      <4> QED BY <2>2, <2>4, <2>5, CountsUp
    <3> QED BY <2>2, <3>1
  <2>7. end[n] <= at[n] + Len(p[n]) /\ at[n] + Len(p[n]) <= at[n + 1]
    BY <2>2, <2>6 DEF Placed
  <2>8. at[n + 1] + Len(last) = Len(v) /\ IsAt(last, v, at[n + 1]) /\ Len(last) \in Nat /\ at[n + 1] \in 0 .. Len(v)
    BY <1>1, <2>2 DEF Placed
  <2>9. n \in 1 .. n
    BY <2>2
  <2>10. end[n] + Len(last) <= Len(v) /\ at[n + 1] = Len(v) - Len(last)
    <3>1. at[n] \in 0 .. Len(v) /\ end[n] \in Nat /\ Len(p[n]) \in Nat
      BY <2>3, <2>9
    <3>2. at[n + 1] = Len(v) - Len(last)
      <4> HIDE DEF n, last
      <4> QED BY <1>1, <2>8
    <3>3. end[n] <= at[n + 1]
      <4> HIDE DEF n
      <4> QED BY <2>7, <2>8, <3>1
    <3> HIDE DEF n, last
    <3> QED BY <1>1, <2>8, <3>1, <3>2, <3>3
  <2>11. IsAt(p[1], v, 0)
    BY <1>1 DEF Placed
  <2> QED BY <1>3, <2>1, <2>8, <2>10, <2>11 DEF GlobMatch
<1> QED BY <1>1, <1>2, <1>3

\* TopicAllowlist::allows over glob_match, "fixed segments must appear in order,
\* anchored at both ends": taking each middle segment as early as it comes lets
\* in just the topics whose segments can be placed somehow; no topic the operator
\* did not list gets in, and no listed one is kept out.
THEOREM AllowsTheListed ==
    ASSUME allowlist \in Allowlists, NEW x \in Envelopes
    PROVE  Allows(Envelope[x].topic) <=> Listed(Envelope[x].topic)
<1> DEFINE topic == Envelope[x].topic
           v == topic.arn
<1>1. IsSequence(v)
  BY PatternsAssumption
<1>2. ASSUME NEW entry \in allowlist, entry.account = "none"
      PROVE  GlobMatch(entry.glob, v) <=> \E at : Placed(entry.glob, v, at)
  <2>1. IsPattern(entry.glob)
    BY <1>2, PatternsAssumption DEF IsPattern
  <2> QED BY <1>1, <2>1, MatchIsPlaced, PlacedIsMatch
<1>3. ASSUME NEW entry \in allowlist, entry.account = "none"
      PROVE  (\E at : Placed(entry.glob, v, at)) <=>
             (LET p == entry.glob IN
              \E at \in [1 .. Len(p) -> 0 .. Len(v)] :
                 /\ at[1] = 0 /\ at[Len(p)] + Len(p[Len(p)]) = Len(v)
                 /\ \A i \in 1 .. Len(p) : IsAt(p[i], v, at[i])
                 /\ \A i \in 1 .. Len(p) - 1 : at[i] + Len(p[i]) <= at[i + 1])
  BY DEF Placed
<1> HIDE DEF topic
<1>4. Allows(topic) <=>
         \/ allowlist = {}
         \/ \E entry \in allowlist :
               \/ entry.account # "none" /\ entry.account = topic.account
               \/ entry.account = "none" /\ \E at : Placed(entry.glob, v, at)
  BY <1>2 DEF Allows
<1>5. Listed(topic) <=>
         \/ allowlist = {}
         \/ \E entry \in allowlist :
               \/ entry.account # "none" /\ entry.account = topic.account
               \/ entry.account = "none" /\ \E at : Placed(entry.glob, v, at)
  BY <1>3 DEF Listed
<1> QED BY <1>4, <1>5 DEF topic

-----------------------------------------------------------------------------
\* classify finds the family a signed notification is of, although an inbound
\* receipt has the shape of a sending notification.
Families == {"SesInbound", "Ses", "SmsInbound", "SmsDelivery"}
Signed(x) == Envelope[x].altered \cap SignedFields(x) = {}

LEMMA ClassifyIsRight ==
    ASSUME NEW x \in Envelopes, Envelope[x].type = "Notification", Signed(x)
    PROVE  Classify(Payload[x]) = Payload[x].is
<1> DEFINE p == Payload[x]
           fits == {i \in DOMAIN FamilyOrder : Parses(p, FamilyOrder[i])}
           first == CHOOSE i \in fits : \A j \in fits : i <= j
<1>1. /\ p.is = "Unknown" \/ (p.is \in Families /\ Parses(p, p.is))
      /\ \A f \in Families : Parses(p, f) => f = p.is \/ (f = "Ses" /\ p.is = "SesInbound")
  BY PayloadAssumption DEF Signed, Families
<1>2. /\ DOMAIN FamilyOrder = 1 .. 4
      /\ FamilyOrder[1] = "SesInbound" /\ FamilyOrder[2] = "Ses"
      /\ FamilyOrder[3] = "SmsInbound" /\ FamilyOrder[4] = "SmsDelivery"
  BY DEF FamilyOrder
<1>3. Classify(p) = IF fits = {} THEN "Unknown" ELSE FamilyOrder[first]
  BY DEF Classify
<1>4. \A i \in 1 .. 4 : i = 1 \/ i = 2 \/ i = 3 \/ i = 4
  OBVIOUS
<1>5. CASE fits = {}
  <2>1. \A f \in Families : ~Parses(p, f)
    BY <1>2, <1>5 DEF Families
  <2>2. p.is = "Unknown"
    BY <1>1, <2>1
  <2> QED BY <1>3, <1>5, <2>2
<1>6. CASE fits # {}
  <2>1. fits \in SUBSET Nat
    BY <1>2
  <2>2. first \in fits /\ \A j \in fits : first <= j
    <3> HIDE DEF fits
    <3> QED BY <1>6, <2>1, FirstIsLeast
  <2>3. first \in 1 .. 4 /\ Parses(p, FamilyOrder[first])
    BY <1>2, <2>2
  <2> HIDE DEF first
  <2>4. FamilyOrder[first] \in Families
    BY <1>2, <1>4, <2>3 DEF Families
  <2>5. FamilyOrder[first] = p.is \/ (FamilyOrder[first] = "Ses" /\ p.is = "SesInbound")
    <3> HIDE DEF p
    <3> QED BY <1>1, <2>3, <2>4
  <2>6. ~(FamilyOrder[first] = "Ses" /\ p.is = "SesInbound")
    <3>1. SUFFICES ASSUME FamilyOrder[first] = "Ses", p.is = "SesInbound" PROVE FALSE
      OBVIOUS
    <3>2. Parses(p, "SesInbound")
      BY <1>1, <3>1
    <3>3. 1 \in fits
      BY <1>2, <3>2
    <3>4. first <= 1
      BY <2>2, <3>3
    <3>5. first = 1
      BY <2>3, <3>4
    <3> QED BY <1>2, <3>1, <3>5
  <2> QED BY <1>3, <1>6, <2>5, <2>6
<1> QED BY <1>5, <1>6

-----------------------------------------------------------------------------
\* The inductive invariant.

Hands == [pc : {"free", "verify", "fetch", "handle", "notice", "act"},
          of : SUBSET script, left : Seq(Envelopes)]

HandsOK ==
    /\ hand \in [Environments -> Hands]
    /\ copies \in [script -> Nat] /\ failures \in [script -> Nat]
    /\ replies \in SUBSET (Envelopes \X {"200", "400", "403"})

EffectsOK ==
    /\ certs \in [Environments -> SUBSET {CacheKey(Envelope[x].cert) : x \in Envelopes}]
    /\ {visited, notices, persisted, refused} \subseteq SUBSET Envelopes
    /\ acted \in SUBSET ((Families \cup {"Unknown"}) \X Envelopes)
    /\ optedOut \in SUBSET {Payload[x].number : x \in Envelopes}
    /\ feedback \in [Tracked -> {"none", "Received", "Failed"}]

DoorTypeOK == script \in Scripts /\ allowlist \in Allowlists /\ HandsOK /\ EffectsOK

\* The messages from topics the operator listed.
ListedOnes == {x \in Envelopes : Listed(Envelope[x].topic)}

\* What holds of the record an environment is at: it is one SNS delivered; past
\* the allowlist its topic is listed; past the signature it is as SNS signed it; and
\* an action follows its persist.
Serving(e) ==
    LET h == hand[e]  x == Head(h.left) IN
    h.pc # "free" =>
       /\ h.of # {} /\ h.left # <<>> /\ \A i \in DOMAIN h.left : h.left[i] \in Sent(script)
       /\ h.pc # "verify" => x \in ListedOnes
       /\ h.pc \in {"handle", "notice", "act"} => SignatureVerdict(x) = "verified"
       /\ h.pc = "notice" => Envelope[x].type # "Notification"
       /\ h.pc = "act" => Envelope[x].type = "Notification" /\ x \in persisted

\* What is stored was a signed notification.
PersistedAreSigned ==
    \A x \in persisted : Envelope[x].type = "Notification" /\ Signed(x)

DoorInv ==
    /\ DoorTypeOK
    /\ \A e \in Environments : Serving(e)
    /\ PersistedAreSigned
    /\ ActsOnSigned
    /\ AnswersAreFinal
    /\ SmsFollowsSender

-----------------------------------------------------------------------------
\* How a record is left: answered, or moved on.

LEMMA ListedStay == ASSUME allowlist' = allowlist PROVE ListedOnes' = ListedOnes
BY DEF ListedOnes, Listed

LEMMA ListingStays ==
    ASSUME allowlist' = allowlist
    PROVE  \A y \in Envelopes : Listed(Envelope[y].topic) <=> Listed(Envelope[y].topic)'
<1>1. ListedOnes' = ListedOnes
  BY ListedStay
<1>2. /\ \A y \in Envelopes : Listed(Envelope[y].topic) <=> y \in ListedOnes
      /\ \A y \in Envelopes : Listed(Envelope[y].topic)' <=> y \in ListedOnes'
  BY DEF ListedOnes
<1> QED BY <1>1, <1>2

LEMMA VerdictsFacts ==
    /\ \A why \in {"MissingSnsHeader", "MalformedEnvelope", "InvalidCertUrl", "SubscribeUrlRejected",
                   "MissingField", "UnsupportedSignatureVersion"} : StatusOfFailure(why) = "400"
    /\ \A why \in {"TopicNotAllowed", "SignatureMismatch"} : StatusOfFailure(why) = "403"
    /\ \A why \in {"CertFetch", "CertParse", "CertValidity", "Internal"} : StatusOfFailure(why) = "500"
    /\ \A x : SignatureVerdict(x) \in {"MissingField", "UnsupportedSignatureVersion", "SignatureMismatch", "verified"}
BY DEF StatusOfFailure, SignatureVerdict

\* What another environment relies on stays.
LEMMA OthersServe ==
    ASSUME NEW e \in Environments, Serving(e), hand'[e] = hand[e],
           script' = script, allowlist' = allowlist, persisted \subseteq persisted'
    PROVE  Serving(e)'
BY ListedStay DEF Serving

\* A record in hand is one of the messages.
LEMMA CurrentIsSent ==
    ASSUME DoorTypeOK, NEW e \in Environments, Serving(e), hand[e].pc # "free"
    PROVE  Current(e) \in Envelopes /\ Current(e) \in Sent(script)
<1>1. hand[e].left \in Seq(Envelopes) /\ hand[e].left # <<>>
  BY DEF DoorTypeOK, HandsOK, Hands, Serving
<1>2. Head(hand[e].left) = hand[e].left[1] /\ 1 \in DOMAIN hand[e].left /\ Head(hand[e].left) \in Envelopes
  BY <1>1
<1> QED BY <1>2 DEF Current, Serving

LEMMA RepliesFacts ==
    ASSUME DoorTypeOK, NEW e \in Environments, Serving(e), hand[e].pc # "free",
           NEW code \in {"200", "400", "403", "500"}, Replies(e, code),
           script' = script, allowlist' = allowlist, persisted \subseteq persisted'
    PROVE  /\ HandsOK' /\ Serving(e)' /\ \A f \in Environments \ {e} : hand'[f] = hand[f]
           /\ code = "500" => replies' = replies
           /\ code # "500" => replies' = replies \cup {<<Current(e), code>>}
<1> DEFINE d == CHOOSE d \in hand[e].of : TRUE
           rest == Tail(hand[e].left)
<1>1. /\ hand \in [Environments -> Hands] /\ hand[e] \in Hands
      /\ copies \in [script -> Nat] /\ failures \in [script -> Nat]
      /\ replies \in SUBSET (Envelopes \X {"200", "400", "403"})
  BY DEF DoorTypeOK, HandsOK
<1>2. d \in script
  BY <1>1 DEF Serving, Hands
<1>3. /\ hand[e].left \in Seq(Envelopes) /\ hand[e].left # <<>>
      /\ \A i \in DOMAIN hand[e].left : hand[e].left[i] \in Sent(script)
  BY <1>1 DEF Serving, Hands
<1>4. rest \in Seq(Envelopes) /\ \A i \in DOMAIN rest : rest[i] \in Sent(script)
  <2>1. /\ rest \in Seq(Envelopes) /\ Len(rest) = Len(hand[e].left) - 1
        /\ \A i \in 1 .. Len(rest) : rest[i] = hand[e].left[i + 1] /\ i + 1 \in DOMAIN hand[e].left
    BY <1>3
  <2>2. DOMAIN rest = 1 .. Len(rest)
    BY <2>1
  <2> QED BY <1>3, <2>1, <2>2
<1>5. Served \in Hands
  BY DEF Served, Hands
<1>6. CASE code = "500"
  <2>1. /\ hand' = [hand EXCEPT ![e] = Served]
        /\ failures' = [failures EXCEPT ![d] = @ + 1]
        /\ copies' = [copies EXCEPT ![d] = IF d.via = "direct" /\ failures[d] >= AsyncRetries THEN @ ELSE @ + 1]
        /\ replies' = replies
    BY <1>6 DEF Replies
  <2>2. failures' \in [script -> Nat] /\ copies' \in [script -> Nat]
    <3> HIDE DEF d
    <3> QED BY <1>1, <1>2, <2>1
  <2>3. hand' \in [Environments -> Hands] /\ hand'[e] = Served
    BY <1>1, <1>5, <2>1
  <2>4. \A f \in Environments \ {e} : hand'[f] = hand[f]
    BY <1>1, <2>1
  <2>5. Serving(e)'
    BY <2>3 DEF Serving, Served
  <2>6. HandsOK'
    BY <1>1, <2>1, <2>2, <2>3 DEF HandsOK, Hands
  <2> QED BY <1>6, <2>1, <2>4, <2>5, <2>6
<1>7. CASE code # "500"
  <2>1. /\ hand' = [hand EXCEPT ![e] = IF rest = <<>> THEN Served ELSE [@ EXCEPT !.pc = "verify", !.left = rest]]
        /\ replies' = replies \cup {<<Current(e), code>>}
        /\ copies' = copies /\ failures' = failures
    BY <1>7 DEF Replies
  <2>2. hand'[e] = IF rest = <<>> THEN Served ELSE [hand[e] EXCEPT !.pc = "verify", !.left = rest]
    BY <1>1, <2>1
  <2>3. hand'[e] \in Hands
    <3> HIDE DEF rest
    <3> QED BY <1>1, <1>4, <1>5, <2>2 DEF Hands
  <2>4. hand' \in [Environments -> Hands] /\ \A f \in Environments \ {e} : hand'[f] = hand[f]
    BY <1>1, <2>1, <2>2, <2>3
  <2>5. Serving(e)'
    <3>1. CASE rest = <<>>
      BY <2>2, <3>1 DEF Serving, Served
    <3>2. CASE rest # <<>>
      <4>1. hand'[e].pc = "verify" /\ hand'[e].of = hand[e].of /\ hand'[e].left = rest
        <5> HIDE DEF rest
        <5> QED BY <1>1, <2>2, <3>2 DEF Hands
      <4>2. hand[e].of # {}
        BY DEF Serving
      <4> HIDE DEF rest
      <4> QED BY <1>4, <3>2, <4>1, <4>2 DEF Serving
    <3> QED BY <3>1, <3>2
  <2>6. Current(e) \in Envelopes
    BY CurrentIsSent
  <2>7. HandsOK'
    BY <1>1, <1>7, <2>1, <2>4, <2>6 DEF HandsOK, Hands
  <2> QED BY <1>7, <2>1, <2>4, <2>5, <2>7
<1> QED BY <1>6, <1>7

LEMMA MovesFacts ==
    ASSUME DoorTypeOK, NEW e \in Environments, Serving(e), hand[e].pc # "free",
           NEW pc \in {"fetch", "handle", "notice", "act"}, Moves(e, pc), script' = script
    PROVE  /\ HandsOK' /\ \A f \in Environments \ {e} : hand'[f] = hand[f]
           /\ hand'[e].pc = pc /\ hand'[e].of = hand[e].of /\ hand'[e].left = hand[e].left
           /\ replies' = replies
<1>1. /\ hand \in [Environments -> Hands] /\ hand[e] \in Hands
      /\ hand' = [hand EXCEPT ![e].pc = pc] /\ copies' = copies /\ failures' = failures /\ replies' = replies
  BY DEF DoorTypeOK, HandsOK, Moves
<1>2. hand'[e] = [hand[e] EXCEPT !.pc = pc] /\ \A f \in Environments \ {e} : hand'[f] = hand[f]
  BY <1>1
<1>3. hand'[e] \in Hands /\ hand'[e].pc = pc /\ hand'[e].of = hand[e].of /\ hand'[e].left = hand[e].left
  BY <1>1, <1>2 DEF Hands
<1>4. hand' \in [Environments -> Hands]
  BY <1>1, <1>2, <1>3
<1> QED BY <1>1, <1>2, <1>3, <1>4 DEF DoorTypeOK, HandsOK, Hands

-----------------------------------------------------------------------------
\* A step of an environment that runs no action.

\* The answer it gives, if any: none is final for a genuine message from a listed
\* topic except 200, and a notification that gets it without an action is SES's own.
QuietAnswer(e) ==
    \/ replies' = replies
    \/ \E code \in {"200", "400", "403"} :
          /\ replies' = replies \cup {<<Current(e), code>>}
          /\ code # "200" => ~(Genuine(Current(e)) /\ Current(e) \in ListedOnes)
          /\ code = "200" /\ Envelope[Current(e)].type = "Notification" =>
                Payload[Current(e)].setup /\ Signed(Current(e))

\* What it acts on is listed and signed, and so is the message whose certificate
\* it keeps.
QuietEffects ==
    /\ UNCHANGED <<acted, refused, optedOut, feedback>>
    /\ persisted \subseteq persisted'
    /\ \A x \in persisted' \ persisted : Envelope[x].type = "Notification" /\ Signed(x)
    /\ visited' \cup notices' \cup persisted' \subseteq
          visited \cup notices \cup persisted \cup {x \in ListedOnes : Signed(x)}
    /\ certs' \in [Environments -> SUBSET {CacheKey(Envelope[x].cert) : x \in Envelopes}]
    /\ \A f \in Environments :
          certs'[f] \subseteq certs[f] \cup
             {CacheKey(Envelope[x].cert) : x \in {y \in Sent(script) : Signed(y)}}

QuietStep(e) ==
    /\ script' = script /\ allowlist' = allowlist
    /\ HandsOK' /\ Serving(e)' /\ \A f \in Environments \ {e} : hand'[f] = hand[f]
    /\ QuietEffects /\ QuietAnswer(e)

LEMMA NothingIsQuiet ==
    ASSUME DoorTypeOK, UNCHANGED <<certs, visited, notices, persisted, acted, refused, optedOut, feedback>>
    PROVE  QuietEffects
BY DEF QuietEffects, DoorTypeOK, EffectsOK

LEMMA ReceivesQuietly ==
    ASSUME DoorTypeOK, NEW e \in Environments, NEW d \in script, Receives(e, d)
    PROVE  QuietStep(e)
<1>1. /\ script' = script /\ allowlist' = allowlist /\ replies' = replies /\ failures' = failures
      /\ copies[d] > 0 /\ copies' = [copies EXCEPT ![d] = @ - 1]
      /\ hand' = [hand EXCEPT ![e] = [pc |-> "verify", of |-> {d}, left |-> d.items]]
      /\ UNCHANGED <<certs, visited, notices, persisted, acted, refused, optedOut, feedback>>
  BY DEF Receives, setting, effects
<1>2. d.items \in Seq(Envelopes) /\ d.items # <<>> /\ \A i \in DOMAIN d.items : d.items[i] \in Sent(script)
  BY DoorAssumption DEF DoorTypeOK, Sent
<1>3. /\ hand \in [Environments -> Hands] /\ copies \in [script -> Nat] /\ failures \in [script -> Nat]
      /\ replies \in SUBSET (Envelopes \X {"200", "400", "403"})
  BY DEF DoorTypeOK, HandsOK
<1>4. [pc |-> "verify", of |-> {d}, left |-> d.items] \in Hands
  BY <1>2 DEF Hands
<1>5. hand' \in [Environments -> Hands] /\ copies' \in [script -> Nat]
  BY <1>1, <1>3, <1>4
<1>6. hand'[e] = [pc |-> "verify", of |-> {d}, left |-> d.items] /\ \A f \in Environments \ {e} : hand'[f] = hand[f]
  BY <1>1, <1>3
<1>7. HandsOK'
  BY <1>1, <1>3, <1>5 DEF HandsOK, Hands
<1>8. Serving(e)'
  BY <1>1, <1>2, <1>6 DEF Serving
<1>9. QuietEffects
  BY <1>1, NothingIsQuiet
<1> QED BY <1>1, <1>6, <1>7, <1>8, <1>9 DEF QuietStep, QuietAnswer

\* An answer that is given before the signature is known to be good, or after it.
LEMMA RefusesQuietly ==
    ASSUME DoorTypeOK, NEW e \in Environments, Serving(e), hand[e].pc # "free",
           NEW code \in {"200", "400", "403", "500"}, Replies(e, code),
           script' = script, allowlist' = allowlist, QuietEffects,
           code \in {"400", "403"} => ~(Genuine(Current(e)) /\ Current(e) \in ListedOnes),
           code = "200" /\ Envelope[Current(e)].type = "Notification" =>
              Payload[Current(e)].setup /\ Signed(Current(e))
    PROVE  QuietStep(e)
<1>1. persisted \subseteq persisted'
  BY DEF QuietEffects
<1>2. /\ HandsOK' /\ Serving(e)' /\ \A f \in Environments \ {e} : hand'[f] = hand[f]
      /\ code = "500" => replies' = replies
      /\ code # "500" => replies' = replies \cup {<<Current(e), code>>}
  BY <1>1, RepliesFacts
<1>3. QuietAnswer(e)
  BY <1>2 DEF QuietAnswer
<1> QED BY <1>2, <1>3 DEF QuietStep

\* What a genuine message passes.
LEMMA GenuinePasses ==
    ASSUME NEW x \in Envelopes, Genuine(x)
    PROVE  SignatureVerdict(x) = "verified"
BY GenuineAssumption DEF SignatureVerdict, Genuine

LEMMA VerifiedIsSigned ==
    ASSUME NEW x \in Envelopes, SignatureVerdict(x) = "verified"
    PROVE  Signed(x)
BY DEF SignatureVerdict, Signed

LEMMA ListedIsAllowed ==
    ASSUME DoorTypeOK, NEW x \in Envelopes
    PROVE  x \in ListedOnes <=> Allows(Envelope[x].topic)
BY AllowsTheListed DEF DoorTypeOK, ListedOnes

LEMMA VerifiesQuietly ==
    ASSUME DoorTypeOK, NEW e \in Environments, Serving(e), Verifies(e)
    PROVE  QuietStep(e)
<1> DEFINE x == Current(e)
           via == (CHOOSE d \in hand[e].of : TRUE).via
<1>1. hand[e].pc = "verify" /\ script' = script /\ allowlist' = allowlist
  BY DEF Verifies, At, setting
<1>2. QuietEffects
  BY NothingIsQuiet DEF Verifies, effects
<1>3. x \in Envelopes /\ x \in Sent(script)
  BY <1>1, CurrentIsSent
<1>4. \/ ~Envelope[x].header /\ Replies(e, StatusOfFailure("MissingSnsHeader"))
      \/ Envelope[x].type = "none" /\ Replies(e, StatusOfFailure("MalformedEnvelope"))
      \/ ~Allows(Envelope[x].topic) /\ Replies(e, StatusOfFailure("TopicNotAllowed"))
      \/ ~ValidCertUrl(Envelope[x].cert) /\ Replies(e, StatusOfFailure("InvalidCertUrl"))
      \/ Allows(Envelope[x].topic) /\ Moves(e, "fetch")
      \/ Allows(Envelope[x].topic) /\ SignatureVerdict(x) = "verified" /\ Moves(e, "handle")
      \/ SignatureVerdict(x) # "verified" /\ Replies(e, StatusOfFailure(SignatureVerdict(x)))
  BY DEF Verifies
<1>5. CASE \/ ~Envelope[x].header /\ Replies(e, StatusOfFailure("MissingSnsHeader"))
           \/ Envelope[x].type = "none" /\ Replies(e, StatusOfFailure("MalformedEnvelope"))
           \/ ~ValidCertUrl(Envelope[x].cert) /\ Replies(e, StatusOfFailure("InvalidCertUrl"))
  <2>1. Replies(e, "400")
    BY <1>5, VerdictsFacts
  <2>2. ~Genuine(x)
    BY <1>3, <1>5, GenuineAssumption
  <2> QED BY <1>1, <1>2, <2>1, <2>2, RefusesQuietly
<1>6. CASE ~Allows(Envelope[x].topic) /\ Replies(e, StatusOfFailure("TopicNotAllowed"))
  <2>1. Replies(e, "403")
    BY <1>6, VerdictsFacts
  <2>2. x \notin ListedOnes
    BY <1>3, <1>6, ListedIsAllowed
  <2> QED BY <1>1, <1>2, <2>1, <2>2, RefusesQuietly
<1>7. CASE SignatureVerdict(x) # "verified" /\ Replies(e, StatusOfFailure(SignatureVerdict(x)))
  <2>1. \E code \in {"400", "403"} : Replies(e, code)
    BY <1>7, VerdictsFacts
  <2>2. ~Genuine(x)
    BY <1>3, <1>7, GenuinePasses
  <2> QED BY <1>1, <1>2, <2>1, <2>2, RefusesQuietly
<1>8. ASSUME NEW pc \in {"fetch", "handle"}, Allows(Envelope[x].topic), Moves(e, pc),
             pc = "handle" => SignatureVerdict(x) = "verified"
      PROVE  QuietStep(e)
  <2>1. /\ HandsOK' /\ \A f \in Environments \ {e} : hand'[f] = hand[f]
        /\ hand'[e].pc = pc /\ hand'[e].of = hand[e].of /\ hand'[e].left = hand[e].left
        /\ replies' = replies
    BY <1>1, <1>8, MovesFacts
  <2>2. x \in ListedOnes /\ ListedOnes' = ListedOnes
    BY <1>1, <1>3, <1>8, ListedIsAllowed, ListedStay
  <2>3. Serving(e)'
    BY <1>1, <1>8, <2>1, <2>2 DEF Serving, Current
  <2> QED BY <1>1, <1>2, <2>1, <2>3 DEF QuietStep, QuietAnswer
<1> QED BY <1>4, <1>5, <1>6, <1>7, <1>8

LEMMA FetchesQuietly ==
    ASSUME DoorTypeOK, NEW e \in Environments, Serving(e), FetchesCert(e)
    PROVE  QuietStep(e)
<1> DEFINE x == Current(e)
<1>1. hand[e].pc = "fetch" /\ script' = script /\ allowlist' = allowlist
  BY DEF FetchesCert, At, setting
<1>2. x \in Envelopes /\ x \in Sent(script) /\ x \in ListedOnes
  BY <1>1, CurrentIsSent DEF Serving, Current
<1>3. QuietEffects
  <2>1. UNCHANGED <<visited, notices, persisted, acted, refused, optedOut, feedback>>
    BY DEF FetchesCert, effects
  <2>2. certs' = IF KeepsCert(e, x) THEN [certs EXCEPT ![e] = Inserted(@, CacheKey(Envelope[x].cert))] ELSE certs
    BY DEF FetchesCert
  <2>3. certs \in [Environments -> SUBSET {CacheKey(Envelope[y].cert) : y \in Envelopes}]
    BY DEF DoorTypeOK, EffectsOK
  <2>4. CASE certs' = certs
    BY <2>1, <2>4, NothingIsQuiet
  <2>5. CASE Signed(x) /\ certs' = [certs EXCEPT ![e] = Inserted(@, CacheKey(Envelope[x].cert))]
    <3>1. Inserted(certs[e], CacheKey(Envelope[x].cert)) \subseteq certs[e] \cup {CacheKey(Envelope[x].cert)}
      BY DEF Inserted
    <3>2. CacheKey(Envelope[x].cert) \in {CacheKey(Envelope[z].cert) : z \in {y \in Sent(script) : Signed(y)}}
      BY <1>2, <2>5
    <3>3. \A f \in Environments :
             certs'[f] = IF f = e THEN Inserted(certs[e], CacheKey(Envelope[x].cert)) ELSE certs[f]
      BY <2>3, <2>5
    <3>4. certs' \in [Environments -> SUBSET {CacheKey(Envelope[y].cert) : y \in Envelopes}]
      <4>1. Inserted(certs[e], CacheKey(Envelope[x].cert)) \in SUBSET {CacheKey(Envelope[y].cert) : y \in Envelopes}
        BY <1>2, <2>3, <3>1
      <4> HIDE DEF x
      <4> QED BY <2>3, <2>5, <4>1
    <3>5. \A f \in Environments :
             certs'[f] \subseteq certs[f] \cup {CacheKey(Envelope[z].cert) : z \in {y \in Sent(script) : Signed(y)}}
      BY <3>1, <3>2, <3>3
    <3> QED BY <2>1, <3>4, <3>5 DEF QuietEffects
  <2> QED BY <1>2, <2>2, <2>4, <2>5, VerifiedIsSigned DEF KeepsCert
<1>4. CASE SignatureVerdict(x) = "verified" /\ Moves(e, "handle")
  <2>1. /\ HandsOK' /\ \A f \in Environments \ {e} : hand'[f] = hand[f]
        /\ hand'[e].pc = "handle" /\ hand'[e].of = hand[e].of /\ hand'[e].left = hand[e].left
        /\ replies' = replies
    BY <1>1, <1>4, MovesFacts
  <2>2. Serving(e)'
    BY <1>1, <1>2, <1>4, <2>1, ListedStay DEF Serving, Current
  <2> QED BY <1>1, <1>3, <2>1, <2>2 DEF QuietStep, QuietAnswer
<1>5. CASE SignatureVerdict(x) # "verified" /\ Replies(e, StatusOfFailure(SignatureVerdict(x)))
  <2>1. \E code \in {"400", "403"} : Replies(e, code)
    BY <1>5, VerdictsFacts
  <2>2. ~Genuine(x)
    BY <1>2, <1>5, GenuinePasses
  <2> QED BY <1>1, <1>3, <2>1, <2>2, RefusesQuietly
<1> QED BY <1>4, <1>5 DEF FetchesCert

LEMMA FailsQuietly ==
    ASSUME DoorTypeOK, NEW e \in Environments, Serving(e), FetchFails(e) \/ Stops(e)
    PROVE  QuietStep(e)
<1>1. hand[e].pc # "free" /\ script' = script /\ allowlist' = allowlist
  BY DEF FetchFails, Stops, At, setting
<1>2. Replies(e, "500")
  BY VerdictsFacts DEF FetchFails, Stops
<1>3. QuietEffects
  <2>1. UNCHANGED <<visited, notices, persisted, acted, refused, optedOut, feedback>>
    BY DEF FetchFails, Stops, effects
  <2>2. certs' = certs \/ \E kept \in {certs[e], {}} : certs' = [certs EXCEPT ![e] = kept]
    BY DEF FetchFails, Stops
  <2>3. certs \in [Environments -> SUBSET {CacheKey(Envelope[y].cert) : y \in Envelopes}]
    BY DEF DoorTypeOK, EffectsOK
  <2>4. certs' \in [Environments -> SUBSET {CacheKey(Envelope[y].cert) : y \in Envelopes}]
    BY <2>2, <2>3
  <2>5. \A f \in Environments : certs'[f] \subseteq certs[f]
    BY <2>2, <2>3
  <2> QED BY <2>1, <2>4, <2>5 DEF QuietEffects
<1> QED BY <1>1, <1>2, <1>3, RefusesQuietly

LEMMA ConfirmsQuietly ==
    ASSUME DoorTypeOK, NEW e \in Environments, Serving(e), Confirms(e)
    PROVE  QuietStep(e)
<1> DEFINE x == Current(e)
           undo == Envelope[x].type = "UnsubscribeConfirmation"
<1>1. /\ hand[e].pc = "handle" /\ script' = script /\ allowlist' = allowlist
      /\ Envelope[x].type # "Notification"
  BY DEF Confirms, At, setting
<1>2. /\ x \in Envelopes /\ x \in Sent(script) /\ x \in ListedOnes
      /\ SignatureVerdict(x) = "verified" /\ Signed(x)
  BY <1>1, CurrentIsSent, VerifiedIsSigned DEF Serving, Current
<1>3. \/ Replies(e, "200") /\ UNCHANGED <<certs, effects>>
      \/ /\ ~ValidSnsUrl(Envelope[x].subscribe)
         /\ Replies(e, StatusOfFailure("SubscribeUrlRejected")) /\ UNCHANGED <<certs, effects>>
      \/ /\ Follows(e, x)
         /\ IF undo THEN Moves(e, "notice") ELSE Replies(e, "200")
      \/ Replies(e, StatusOfFailure("Internal")) /\ UNCHANGED <<certs, effects>>
  BY DEF Confirms
<1>4. ASSUME UNCHANGED <<certs, effects>> PROVE QuietEffects
  BY <1>4, NothingIsQuiet DEF effects
<1>5. CASE Replies(e, "200") /\ UNCHANGED <<certs, effects>>
  BY <1>1, <1>4, <1>5, RefusesQuietly
<1>6. CASE /\ ~ValidSnsUrl(Envelope[x].subscribe)
           /\ Replies(e, StatusOfFailure("SubscribeUrlRejected")) /\ UNCHANGED <<certs, effects>>
  <2>1. Replies(e, "400") /\ ~Genuine(x)
    BY <1>1, <1>2, <1>6, VerdictsFacts, GenuineAssumption
  <2> QED BY <1>1, <1>4, <1>6, <2>1, RefusesQuietly
<1>7. CASE Replies(e, StatusOfFailure("Internal")) /\ UNCHANGED <<certs, effects>>
  <2>1. Replies(e, "500")
    BY <1>7, VerdictsFacts
  <2> QED BY <1>1, <1>4, <1>7, <2>1, RefusesQuietly
<1>8. CASE Follows(e, x) /\ IF undo THEN Moves(e, "notice") ELSE Replies(e, "200")
  <2>1. QuietEffects
    <3>1. /\ visited' = visited \cup {x}
          /\ UNCHANGED <<certs, notices, persisted, acted, refused, optedOut, feedback>>
      BY <1>8 DEF Follows
    <3>2. x \in {y \in ListedOnes : Signed(y)}
      BY <1>2
    <3> QED BY <3>1, <3>2 DEF QuietEffects, DoorTypeOK, EffectsOK
  <2>2. CASE undo /\ Moves(e, "notice")
    <3>1. /\ HandsOK' /\ \A f \in Environments \ {e} : hand'[f] = hand[f]
          /\ hand'[e].pc = "notice" /\ hand'[e].of = hand[e].of /\ hand'[e].left = hand[e].left
          /\ replies' = replies
      BY <1>1, <2>2, MovesFacts
    <3>2. Serving(e)'
      BY <1>1, <1>2, <3>1, ListedStay DEF Serving, Current
    <3> QED BY <1>1, <2>1, <3>1, <3>2 DEF QuietStep, QuietAnswer
  <2>3. CASE Replies(e, "200")
    BY <1>1, <2>1, <2>3, RefusesQuietly
  <2> QED BY <1>8, <2>2, <2>3
<1> QED BY <1>3, <1>5, <1>6, <1>7, <1>8

LEMMA AnnouncesQuietly ==
    ASSUME DoorTypeOK, NEW e \in Environments, Serving(e), Announces(e)
    PROVE  QuietStep(e)
<1> DEFINE x == Current(e)
<1>1. /\ hand[e].pc = "notice" /\ script' = script /\ allowlist' = allowlist
      /\ Replies(e, "200")
      /\ notices' \subseteq notices \cup {x}
      /\ UNCHANGED <<certs, visited, persisted, acted, refused, optedOut, feedback>>
  BY DEF Announces, At, setting
<1>2. /\ x \in Envelopes /\ x \in ListedOnes /\ Signed(x) /\ Envelope[x].type # "Notification"
  BY <1>1, CurrentIsSent, VerifiedIsSigned DEF Serving, Current
<1>3. QuietEffects
  <2>1. x \in {y \in ListedOnes : Signed(y)}
    BY <1>2
  <2> QED BY <1>1, <2>1 DEF QuietEffects, DoorTypeOK, EffectsOK
<1> QED BY <1>1, <1>2, <1>3, RefusesQuietly

LEMMA PersistsQuietly ==
    ASSUME DoorTypeOK, NEW e \in Environments, Serving(e), PersistsNew(e)
    PROVE  QuietStep(e)
<1> DEFINE x == Current(e)
<1>1. /\ hand[e].pc = "handle" /\ script' = script /\ allowlist' = allowlist
      /\ Envelope[x].type = "Notification"
      /\ UNCHANGED <<certs, visited, notices, acted, refused, optedOut, feedback>>
  BY DEF PersistsNew, At, setting
<1>2. /\ x \in Envelopes /\ x \in ListedOnes /\ SignatureVerdict(x) = "verified" /\ Signed(x)
  BY <1>1, CurrentIsSent, VerifiedIsSigned DEF Serving, Current
<1>3. CASE IsSetup(x) /\ Replies(e, "200") /\ persisted' = persisted
  <2>1. QuietEffects
    BY <1>1, <1>3, NothingIsQuiet
  <2>2. Payload[x].setup
    BY <1>3 DEF IsSetup
  <2> QED BY <1>1, <1>2, <1>3, <2>1, <2>2, RefusesQuietly
<1>4. CASE Moves(e, "act") /\ persisted' = persisted \cup {x}
  <2>1. /\ HandsOK' /\ \A f \in Environments \ {e} : hand'[f] = hand[f]
        /\ hand'[e].pc = "act" /\ hand'[e].of = hand[e].of /\ hand'[e].left = hand[e].left
        /\ replies' = replies
    BY <1>1, <1>4, MovesFacts
  <2>2. Serving(e)'
    BY <1>1, <1>2, <1>4, <2>1, ListedStay DEF Serving, Current
  <2>3. QuietEffects
    <3>1. x \in {y \in ListedOnes : Signed(y)}
      BY <1>2
    <3> QED BY <1>1, <1>4, <3>1 DEF QuietEffects, DoorTypeOK, EffectsOK
  <2> QED BY <1>1, <2>1, <2>2, <2>3 DEF QuietStep, QuietAnswer
<1> QED BY <1>3, <1>4 DEF PersistsNew

\* What such a step leaves true.
LEMMA EffectsType ==
    ASSUME DoorTypeOK, QuietEffects
    PROVE  EffectsOK'
<1>1. visited' \cup notices' \cup persisted' \subseteq Envelopes
  BY DEF QuietEffects, DoorTypeOK, EffectsOK, ListedOnes
<1> QED BY <1>1 DEF QuietEffects, DoorTypeOK, EffectsOK

LEMMA QuietActsOnSigned ==
    ASSUME DoorInv, NEW e \in Environments, QuietStep(e)
    PROVE  ActsOnSigned' /\ PersistedAreSigned'
<1>1. ASSUME NEW x \in visited' \cup persisted' \cup notices'
      PROVE  x \in ListedOnes /\ Envelope[x].altered \cap FieldsUsed(x) = {}
  <2>1. CASE x \in visited \cup persisted \cup notices
    BY <2>1 DEF DoorInv, DoorTypeOK, EffectsOK, ActsOnSigned, ActsOnSignedFields, ListedOnes
  <2>2. CASE x \in ListedOnes /\ Signed(x)
    <3>1. FieldsUsed(x) \subseteq SignedFields(x)
      BY DEF FieldsUsed, SignedFields
    <3> QED BY <2>2, <3>1 DEF Signed
  <2> QED BY <2>1, <2>2 DEF QuietStep, QuietEffects
<1>2. ActsOnSignedFields'
  BY <1>1, ListedStay DEF QuietStep, ActsOnSignedFields, ListedOnes
<1>3. OnlyProvenCertsKept'
  BY DEF DoorInv, ActsOnSigned, OnlyProvenCertsKept, QuietStep, QuietEffects, Signed
<1>4. PersistedAreSigned'
  <2>1. ASSUME NEW x \in persisted' PROVE Envelope[x].type = "Notification" /\ Signed(x)
    <3>1. CASE x \in persisted
      BY <3>1 DEF DoorInv, PersistedAreSigned
    <3>2. CASE x \notin persisted
      BY <3>2 DEF QuietStep, QuietEffects
    <3> QED BY <3>1, <3>2
  <2> QED BY <2>1 DEF PersistedAreSigned
<1> QED BY <1>2, <1>3, <1>4 DEF ActsOnSigned

LEMMA QuietAnswersAreFinal ==
    ASSUME DoorInv, NEW e \in Environments, QuietStep(e)
    PROVE  AnswersAreFinal'
<1>1. GenuineNeverRefused /\ AnsweredMeansDone /\ replies \in SUBSET (Envelopes \X {"200", "400", "403"})
  BY DEF DoorInv, AnswersAreFinal, DoorTypeOK, HandsOK
<1>2. replies' \in SUBSET (Envelopes \X {"200", "400", "403"})
  BY DEF QuietStep, HandsOK
<1>3. ASSUME NEW r \in replies', r \notin replies
      PROVE  /\ r[2] # "200" => ~(Genuine(r[1]) /\ r[1] \in ListedOnes)
             /\ r[2] = "200" /\ Envelope[r[1]].type = "Notification" => Payload[r[1]].setup
  <2>1. PICK code \in {"200", "400", "403"} :
          /\ replies' = replies \cup {<<Current(e), code>>}
          /\ code # "200" => ~(Genuine(Current(e)) /\ Current(e) \in ListedOnes)
          /\ code = "200" /\ Envelope[Current(e)].type = "Notification" =>
                Payload[Current(e)].setup /\ Signed(Current(e))
    BY <1>3 DEF QuietStep, QuietAnswer
  <2>2. r = <<Current(e), code>>
    BY <1>3, <2>1
  <2> QED BY <2>1, <2>2
<1>4. GenuineNeverRefused'
  <2>1. ASSUME NEW r \in replies', Genuine(r[1]), r[1] \in ListedOnes PROVE r[2] = "200"
    BY <1>1, <1>3, <2>1 DEF GenuineNeverRefused, ListedOnes
  <2>2. \A r \in replies' : r[1] \in Envelopes
    BY <1>2
  <2>3. ListedOnes' = ListedOnes
    BY ListedStay DEF QuietStep
  <2> QED BY <2>1, <2>2, <2>3 DEF GenuineNeverRefused, ListedOnes
<1>5. AnsweredMeansDone'
  <2>1. persisted \subseteq persisted' /\ acted' = acted /\ refused' = refused
    BY DEF QuietStep, QuietEffects
  <2>2. ASSUME NEW r \in replies', r[2] = "200", Envelope[r[1]].type = "Notification",
               ~Payload[r[1]].setup, r[1] \notin refused'
        PROVE  r[1] \in persisted' /\ <<Payload[r[1]].is, r[1]>> \in acted'
    <3>1. r \in replies
      BY <1>3, <2>2
    <3> QED BY <1>1, <2>1, <2>2, <3>1 DEF AnsweredMeansDone
  <2> QED BY <2>2 DEF AnsweredMeansDone
<1> QED BY <1>4, <1>5 DEF AnswersAreFinal

\* The parts of SmsFollowsSender, each a set of its own.
Asked(n, what) == {x \in persisted : Payload[x].number = n /\ Payload[x].asks = what}
Done(x) == <<x, "200">> \in replies /\ x \notin refused

OptedOutAsked == \A n \in optedOut : Asked(n, "OptOut") # {}
WhoAskedIsOut ==
    \A x \in persisted :
       OptOutList /\ Payload[x].asks = "OptOut" /\ Done(x) /\ Asked(Payload[x].number, "OptIn") = {}
          => Payload[x].number \in optedOut
FeedbackIsTrue ==
    \A msg \in Tracked : feedback[msg] # "none" =>
       \E x \in persisted : /\ Payload[x].message = msg /\ Payload[x].final
                            /\ (feedback[msg] = "Received") = Payload[x].delivered

LEMMA SmsInParts == SmsFollowsSender <=> OptedOutAsked /\ WhoAskedIsOut /\ FeedbackIsTrue
BY DEF SmsFollowsSender, OptedOutAsked, WhoAskedIsOut, FeedbackIsTrue, Asked, Done

\* A notification answered 200 is SES's setup notification, or stored; a text
\* message is not the former.
LEMMA TextsAreNotSetup ==
    ASSUME NEW x \in Envelopes, Envelope[x].type = "Notification", Signed(x),
           Payload[x].asks \in {"OptOut", "OptIn"}
    PROVE  ~Payload[x].setup /\ Payload[x].is = "SmsInbound" /\ KeywordIntent(Payload[x]) = Payload[x].asks
<1> DEFINE p == Payload[x]
<1>1. /\ \A what \in {"OptOut", "OptIn"} : p.asks = what <=> p.is = "SmsInbound" /\ KeywordIntent(p) = what
      /\ p.setup => p.is = "SesInbound"
  BY PayloadAssumption DEF Signed
<1>2. p.is = "SmsInbound" /\ KeywordIntent(p) = p.asks
  BY <1>1
<1> QED BY <1>1, <1>2

LEMMA QuietSms ==
    ASSUME DoorInv, NEW e \in Environments, QuietStep(e)
    PROVE  SmsFollowsSender'
<1>1. /\ OptedOutAsked /\ WhoAskedIsOut /\ FeedbackIsTrue
      /\ persisted \subseteq persisted' /\ optedOut' = optedOut /\ feedback' = feedback /\ refused' = refused
  BY SmsInParts DEF DoorInv, QuietStep, QuietEffects
<1>2. \A n, what : Asked(n, what) \subseteq Asked(n, what)'
  BY <1>1 DEF Asked
<1>3. OptedOutAsked'
  BY <1>1, <1>2 DEF OptedOutAsked
<1>4. FeedbackIsTrue'
  BY <1>1 DEF FeedbackIsTrue
<1>5. WhoAskedIsOut'
  <2>1. SUFFICES ASSUME NEW x \in persisted', OptOutList, Payload[x].asks = "OptOut",
                        Done(x)', Asked(Payload[x].number, "OptIn")' = {}
                 PROVE  Payload[x].number \in optedOut
    BY <1>1 DEF WhoAskedIsOut
  <2>2. x \in Envelopes /\ Envelope[x].type = "Notification" /\ Signed(x)
    <3>1. PersistedAreSigned' /\ EffectsOK'
      BY QuietActsOnSigned, EffectsType DEF DoorInv, QuietStep
    <3> QED BY <2>1, <3>1 DEF PersistedAreSigned, EffectsOK
  <2>3. ~Payload[x].setup
    BY <2>1, <2>2, TextsAreNotSetup
  <2>4. <<x, "200">> \in replies
    <3>1. <<x, "200">> \in replies'
      BY <2>1 DEF Done
    <3>2. CASE replies' = replies
      BY <3>1, <3>2
    <3>3. ASSUME NEW code \in {"200", "400", "403"},
                 replies' = replies \cup {<<Current(e), code>>},
                 code = "200" /\ Envelope[Current(e)].type = "Notification" =>
                    Payload[Current(e)].setup /\ Signed(Current(e))
          PROVE  <<x, "200">> \in replies
      BY <2>2, <2>3, <3>1, <3>3
    <3> QED BY <3>2, <3>3 DEF QuietStep, QuietAnswer
  <2>5. x \notin refused
    BY <1>1, <2>1 DEF Done
  <2>6. x \in persisted
    <3>1. AnsweredMeansDone
      BY DEF DoorInv, AnswersAreFinal
    <3>2. DEFINE r == <<x, "200">>
    <3>3. r \in replies /\ r[1] = x /\ r[2] = "200"
      BY <2>4
    <3> QED BY <2>2, <2>3, <2>5, <3>1, <3>3 DEF AnsweredMeansDone
  <2>7. Asked(Payload[x].number, "OptIn") = {}
    BY <1>2, <2>1
  <2> QED BY <1>1, <2>1, <2>4, <2>5, <2>6, <2>7 DEF WhoAskedIsOut, Done
<1> QED BY <1>3, <1>4, <1>5, SmsInParts DEF OptedOutAsked, WhoAskedIsOut, FeedbackIsTrue, Asked, Done, SmsFollowsSender

-----------------------------------------------------------------------------
\* The step that runs an action.

\* What it does, in the terms of the message acted on.
LEMMA ActionFacts ==
    ASSUME DoorTypeOK, NEW x \in Envelopes, Envelope[x].type = "Notification", Signed(x), Action(x)
    PROVE  LET p == Payload[x] IN
           /\ acted' = acted \cup {<<p.is, x>>} /\ p.is \in Families \cup {"Unknown"}
           /\ \A n \in optedOut' : n \in optedOut \/ (n = p.number /\ p.asks = "OptOut")
           /\ \A n \in optedOut : n \in optedOut' \/ (n = p.number /\ p.asks = "OptIn")
           /\ OptOutList /\ p.asks = "OptOut" => p.number \in optedOut'
           /\ feedback' \in [Tracked -> {"none", "Received", "Failed"}]
           /\ \A msg \in Tracked :
                 \/ feedback'[msg] = feedback[msg]
                 \/ p.message = msg /\ p.final /\ (feedback'[msg] = "Received") = p.delivered
           /\ UNCHANGED <<visited, notices, persisted, refused>>
<1> DEFINE p == Payload[x]
<1>1. Classify(p) = p.is
  BY ClassifyIsRight
<1>2. /\ p.is = "Unknown" \/ p.is \in Families
      /\ \A what \in {"OptOut", "OptIn"} : p.asks = what <=> p.is = "SmsInbound" /\ KeywordIntent(p) = what
      /\ p.is = "SmsDelivery" /\ p.final => p.delivered = IsSuccessful(p)
      /\ p.final \in BOOLEAN /\ p.delivered \in BOOLEAN
  BY PayloadAssumption DEF Signed, Families
<1>3. /\ acted' = acted \cup {<<p.is, x>>}
      /\ UNCHANGED <<visited, notices, persisted, refused>>
  BY <1>1 DEF Action
<1>4. optedOut' = IF p.asks = "OptOut" /\ OptOutList THEN optedOut \cup {p.number}
                  ELSE IF p.asks = "OptIn" /\ OptOutList THEN optedOut \ {p.number}
                  ELSE optedOut
  <2>1. CASE p.is # "SmsInbound" \/ ~OptOutList
    <3>1. optedOut' = optedOut
      BY <1>1, <2>1 DEF Action
    <3> QED BY <1>2, <2>1, <3>1
  <2>2. CASE p.is = "SmsInbound" /\ OptOutList
    <3>1. optedOut' = CASE KeywordIntent(p) = "OptOut" -> optedOut \cup {p.number}
                        [] KeywordIntent(p) = "OptIn" -> optedOut \ {p.number}
                        [] OTHER -> optedOut
      BY <1>1, <2>2 DEF Action
    <3> QED BY <1>2, <2>2, <3>1
  <2> QED BY <2>1, <2>2
<1>5. /\ \A n \in optedOut' : n \in optedOut \/ (n = p.number /\ p.asks = "OptOut")
      /\ \A n \in optedOut : n \in optedOut' \/ (n = p.number /\ p.asks = "OptIn")
      /\ OptOutList /\ p.asks = "OptOut" => p.number \in optedOut'
  BY <1>4
<1>6. feedback \in [Tracked -> {"none", "Received", "Failed"}]
  BY DEF DoorTypeOK, EffectsOK
<1>7. CASE p.is = "SmsDelivery" /\ GivesFeedback(x)
  <2>1. feedback' = [feedback EXCEPT ![p.message] = IF IsSuccessful(p) THEN "Received" ELSE "Failed"]
    BY <1>1, <1>7 DEF Action
  <2>2. p.message \in Tracked /\ p.final /\ p.delivered = IsSuccessful(p)
    BY <1>2, <1>7 DEF GivesFeedback
  <2>3. /\ feedback' \in [Tracked -> {"none", "Received", "Failed"}]
        /\ feedback'[p.message] = IF IsSuccessful(p) THEN "Received" ELSE "Failed"
        /\ \A msg \in Tracked \ {p.message} : feedback'[msg] = feedback[msg]
    BY <1>6, <2>1, <2>2
  <2>4. (feedback'[p.message] = "Received") = p.delivered
    BY <1>2, <2>2, <2>3
  <2> QED BY <1>2, <1>3, <1>5, <2>2, <2>3, <2>4
<1>8. CASE ~(p.is = "SmsDelivery" /\ GivesFeedback(x))
  <2>1. feedback' = feedback
    BY <1>1, <1>8 DEF Action
  <2> QED BY <1>2, <1>3, <1>5, <1>6, <2>1
<1> QED BY <1>7, <1>8

LEMMA ActsKeeps ==
    ASSUME DoorInv, NEW e \in Environments, Acts(e)
    PROVE  DoorInv'
<1> DEFINE x == Current(e)
           p == Payload[x]
<1>1. DoorTypeOK /\ Serving(e)
  BY DEF DoorInv
<1>2. /\ hand[e].pc = "act" /\ script' = script /\ allowlist' = allowlist /\ certs' = certs
      /\ UNCHANGED <<visited, notices, persisted>>
  BY DEF Acts, At, setting, Action
<1>3. /\ x \in Envelopes /\ x \in persisted /\ Envelope[x].type = "Notification" /\ Signed(x)
  BY <1>1, <1>2, CurrentIsSent, VerifiedIsSigned DEF Serving, Current
<1>4. \/ Action(x) /\ Replies(e, "200")
      \/ Action(x) /\ Replies(e, "500")
      \/ Replies(e, "200") /\ refused' = refused \cup {x} /\ UNCHANGED <<acted, optedOut, feedback>>
  BY VerdictsFacts DEF Acts
<1>5. \E code \in {"200", "500"} : Replies(e, code)
  BY <1>4
<1>6. /\ HandsOK' /\ Serving(e)' /\ \A f \in Environments \ {e} : hand'[f] = hand[f]
      /\ replies' = replies \/ (Replies(e, "200") /\ replies' = replies \cup {<<x, "200">>})
  BY <1>1, <1>2, <1>5, RepliesFacts
<1>7. \A f \in Environments : Serving(f)'
  BY <1>2, <1>6, OthersServe DEF DoorInv
<1>8. /\ refused \subseteq refused' /\ refused' \subseteq refused \cup {x}
      /\ acted \subseteq acted' /\ acted' \subseteq acted \cup {<<p.is, x>>} /\ p.is \in Families \cup {"Unknown"}
      /\ \A n \in optedOut' : n \in optedOut \/ (n = p.number /\ p.asks = "OptOut")
      /\ \A n \in optedOut : n \in optedOut' \/ (n = p.number /\ p.asks = "OptIn")
      /\ feedback' \in [Tracked -> {"none", "Received", "Failed"}]
      /\ \A msg \in Tracked :
            \/ feedback'[msg] = feedback[msg]
            \/ p.message = msg /\ p.final /\ (feedback'[msg] = "Received") = p.delivered
      /\ x \notin refused' /\ Replies(e, "200") =>
            <<p.is, x>> \in acted' /\ (OptOutList /\ p.asks = "OptOut" => p.number \in optedOut')
  <2>1. CASE Action(x)
    <3> HIDE DEF x
    <3> QED BY <1>1, <1>3, <2>1, ActionFacts
  <2>2. CASE Replies(e, "200") /\ refused' = refused \cup {x} /\ UNCHANGED <<acted, optedOut, feedback>>
    <3>1. p.is \in Families \cup {"Unknown"}
      BY <1>3, PayloadAssumption DEF Signed, Families
    <3>2. feedback \in [Tracked -> {"none", "Received", "Failed"}]
      BY <1>1 DEF DoorTypeOK, EffectsOK
    <3> HIDE DEF x
    <3> QED BY <2>2, <3>1, <3>2
  <2> QED BY <1>4, <2>1, <2>2
<1> HIDE DEF x
<1>9. DoorTypeOK'
  <2>1. refused' \in SUBSET Envelopes /\ acted' \in SUBSET ((Families \cup {"Unknown"}) \X Envelopes)
    BY <1>1, <1>3, <1>8 DEF DoorTypeOK, EffectsOK
  <2>2. optedOut' \in SUBSET {Payload[y].number : y \in Envelopes}
    BY <1>1, <1>3, <1>8 DEF DoorTypeOK, EffectsOK
  <2>3. EffectsOK'
    BY <1>1, <1>2, <1>8, <2>1, <2>2 DEF DoorTypeOK, EffectsOK
  <2> QED BY <1>1, <1>2, <1>6, <2>3 DEF DoorTypeOK
<1>10. PersistedAreSigned' /\ ActsOnSigned'
  <2>1. ActsOnSignedFields'
    <3>1. visited \cup persisted \cup notices \subseteq Envelopes
      BY <1>1 DEF DoorTypeOK, EffectsOK
    <3> QED BY <1>2, <3>1, ListingStays DEF DoorInv, ActsOnSigned, ActsOnSignedFields
  <2> QED BY <1>2, <2>1 DEF DoorInv, PersistedAreSigned, ActsOnSigned, OnlyProvenCertsKept
<1>11. AnswersAreFinal'
  <2>1. GenuineNeverRefused /\ AnsweredMeansDone
    BY DEF DoorInv, AnswersAreFinal
  <2>2. GenuineNeverRefused'
    <3>1. \A r \in replies' : r \in replies \/ r[2] = "200"
      BY <1>6
    <3>2. \A r \in replies : r[1] \in Envelopes
      BY <1>1 DEF DoorTypeOK, HandsOK
    <3> QED BY <1>2, <2>1, <3>1, <3>2, ListingStays DEF GenuineNeverRefused
  <2>3. AnsweredMeansDone'
    <3>1. ASSUME NEW r \in replies', r[2] = "200", Envelope[r[1]].type = "Notification",
                 ~Payload[r[1]].setup, r[1] \notin refused'
          PROVE  r[1] \in persisted' /\ <<Payload[r[1]].is, r[1]>> \in acted'
      <4>1. CASE r \in replies
        BY <1>2, <1>8, <2>1, <3>1, <4>1 DEF AnsweredMeansDone
      <4>2. CASE r \notin replies
        <5>1. r[1] = x /\ Replies(e, "200")
          BY <1>6, <3>1, <4>2
        <5> QED BY <1>2, <1>3, <1>8, <3>1, <5>1
      <4> QED BY <4>1, <4>2
    <3> QED BY <3>1 DEF AnsweredMeansDone
  <2> QED BY <2>2, <2>3 DEF AnswersAreFinal
<1>12. SmsFollowsSender'
  <2>1. OptedOutAsked /\ WhoAskedIsOut /\ FeedbackIsTrue
    BY SmsInParts DEF DoorInv
  <2>2. \A n, what : Asked(n, what)' = Asked(n, what)
    BY <1>2 DEF Asked
  <2>3. OptedOutAsked'
    <3>1. p.asks = "OptOut" => x \in Asked(p.number, "OptOut")
      BY <1>3 DEF Asked
    <3> QED BY <1>8, <2>1, <2>2, <3>1 DEF OptedOutAsked
  <2>4. WhoAskedIsOut'
    <3>1. SUFFICES ASSUME NEW y \in persisted, OptOutList, Payload[y].asks = "OptOut",
                          Done(y)', Asked(Payload[y].number, "OptIn") = {}
                   PROVE  Payload[y].number \in optedOut'
      BY <1>2, <2>2 DEF WhoAskedIsOut
    <3>2. p.asks = "OptIn" => p.number # Payload[y].number
      BY <1>3, <3>1 DEF Asked
    <3>3. <<y, "200">> \in replies' /\ y \notin refused'
      BY <3>1 DEF Done
    <3>4. CASE <<y, "200">> \in replies
      <4>1. Payload[y].number \in optedOut
        BY <1>8, <2>1, <3>1, <3>3, <3>4 DEF WhoAskedIsOut, Done
      <4> QED BY <1>8, <3>2, <4>1
    <3>5. CASE <<y, "200">> \notin replies
      <4>1. y = x /\ Replies(e, "200")
        BY <1>6, <3>3, <3>5
      <4> QED BY <1>8, <3>1, <3>3, <4>1
    <3> QED BY <3>4, <3>5
  <2>5. FeedbackIsTrue'
    <3>1. ASSUME NEW msg \in Tracked, feedback'[msg] # "none"
          PROVE  \E y \in persisted' : /\ Payload[y].message = msg /\ Payload[y].final
                                       /\ (feedback'[msg] = "Received") = Payload[y].delivered
      <4>1. CASE feedback'[msg] = feedback[msg]
        BY <1>2, <2>1, <3>1, <4>1 DEF FeedbackIsTrue
      <4>2. CASE p.message = msg /\ p.final /\ (feedback'[msg] = "Received") = p.delivered
        BY <1>2, <1>3, <4>2
      <4> QED BY <1>8, <4>1, <4>2
    <3> QED BY <3>1 DEF FeedbackIsTrue
  <2> QED BY <2>3, <2>4, <2>5, SmsInParts
          DEF OptedOutAsked, WhoAskedIsOut, FeedbackIsTrue, Asked, Done, SmsFollowsSender
<1> QED BY <1>7, <1>9, <1>10, <1>11, <1>12 DEF DoorInv

-----------------------------------------------------------------------------
LEMMA InitHolds == DoorInit => DoorInv
<1> SUFFICES ASSUME DoorInit PROVE DoorInv
  OBVIOUS
<1>1. /\ script \in Scripts /\ allowlist \in Allowlists
      /\ certs = [e \in Environments |-> {}] /\ hand = [e \in Environments |-> Served]
      /\ visited = {} /\ notices = {} /\ persisted = {} /\ acted = {} /\ refused = {} /\ optedOut = {}
      /\ feedback = [msg \in Tracked |-> "none"] /\ replies = {}
  BY DEF DoorInit
<1>2. copies \in [script -> Nat] /\ failures \in [script -> Nat]
  BY DEF DoorInit
<1>3. Served \in Hands
  BY DEF Served, Hands
<1>4. DoorTypeOK
  BY <1>1, <1>2, <1>3 DEF DoorTypeOK, HandsOK, EffectsOK
<1>5. \A e \in Environments : Serving(e)
  BY <1>1 DEF Serving, Served
<1>6. PersistedAreSigned /\ ActsOnSigned /\ AnswersAreFinal
  BY <1>1 DEF PersistedAreSigned, ActsOnSigned, ActsOnSignedFields, OnlyProvenCertsKept,
              AnswersAreFinal, GenuineNeverRefused, AnsweredMeansDone
<1>7. SmsFollowsSender
  BY <1>1, SmsInParts DEF OptedOutAsked, WhoAskedIsOut, FeedbackIsTrue
<1> QED BY <1>4, <1>5, <1>6, <1>7 DEF DoorInv

LEMMA QuietKeeps ==
    ASSUME DoorInv, NEW e \in Environments, QuietStep(e)
    PROVE  DoorInv'
<1>1. EffectsOK'
  BY EffectsType DEF DoorInv, QuietStep
<1>2. DoorTypeOK'
  BY <1>1 DEF DoorInv, DoorTypeOK, QuietStep
<1>3. persisted \subseteq persisted'
  BY DEF QuietStep, QuietEffects
<1>4. \A f \in Environments : Serving(f)'
  BY <1>3, OthersServe DEF DoorInv, QuietStep
<1> QED BY <1>2, <1>4, QuietActsOnSigned, QuietAnswersAreFinal, QuietSms DEF DoorInv

\* Steps that touch nothing an invocation relies on: SNS's own, and none at all.
LEMMA RestKeeps ==
    ASSUME DoorInv, copies' \in [script -> Nat],
           UNCHANGED <<script, allowlist, certs, hand, failures, replies, visited, notices,
                       persisted, acted, refused, optedOut, feedback>>
    PROVE  DoorInv'
<1>1. DoorTypeOK'
  BY DEF DoorInv, DoorTypeOK, HandsOK, EffectsOK, Hands
<1>2. \A e \in Environments : Serving(e)'
  BY OthersServe DEF DoorInv
<1>3. \A y \in Envelopes : Listed(Envelope[y].topic) <=> Listed(Envelope[y].topic)'
  BY ListingStays
<1>4. ActsOnSigned'
  <2>1. visited \cup persisted \cup notices \subseteq Envelopes
    BY DEF DoorInv, DoorTypeOK, EffectsOK
  <2>2. ActsOnSignedFields'
    BY <1>3, <2>1 DEF DoorInv, ActsOnSigned, ActsOnSignedFields
  <2> QED BY <2>2 DEF DoorInv, ActsOnSigned, OnlyProvenCertsKept
<1>5. AnswersAreFinal'
  <2>1. \A r \in replies : r[1] \in Envelopes
    BY DEF DoorInv, DoorTypeOK, HandsOK
  <2>2. GenuineNeverRefused'
    BY <1>3, <2>1 DEF DoorInv, AnswersAreFinal, GenuineNeverRefused
  <2> QED BY <2>2 DEF DoorInv, AnswersAreFinal, AnsweredMeansDone
<1>6. PersistedAreSigned' /\ SmsFollowsSender'
  BY DEF DoorInv, PersistedAreSigned, SmsFollowsSender
<1> QED BY <1>1, <1>2, <1>4, <1>5, <1>6 DEF DoorInv

LEMMA SnsKeeps ==
    ASSUME DoorInv, NEW d \in script, Duplicates(d) \/ Cancels(d)
    PROVE  DoorInv'
<1>1. /\ UNCHANGED <<script, allowlist, certs, hand, failures, replies, visited, notices,
                     persisted, acted, refused, optedOut, feedback>>
      /\ \E n \in Nat : copies' = [copies EXCEPT ![d] = n]
  <2>1. copies[d] + 1 \in Nat
    BY DEF DoorInv, DoorTypeOK, HandsOK
  <2> QED BY <2>1 DEF Duplicates, Cancels, setting, effects
<1>2. copies' \in [script -> Nat]
  BY <1>1 DEF DoorInv, DoorTypeOK, HandsOK
<1> QED BY <1>1, <1>2, RestKeeps

\* What comes in at the door, however deliveries are repeated, overlap, fail or
\* are cut short, and whatever the allowlist: the inductive invariant holds
\* throughout.
THEOREM DoorIsSafe == DoorSpec => []DoorInv
<1>1. DoorInit => DoorInv
  BY InitHolds
<1>2. DoorInv /\ [DoorNext]_doorVars => DoorInv'
  <2> SUFFICES ASSUME DoorInv, [DoorNext]_doorVars PROVE DoorInv'
    OBVIOUS
  <2>1. CASE UNCHANGED doorVars
    BY <2>1, RestKeeps DEF doorVars, DoorInv, DoorTypeOK, HandsOK
  <2>2. ASSUME NEW e \in Environments
        PROVE  /\ \A d \in script : Receives(e, d) => DoorInv'
               /\ Verifies(e) => DoorInv'
               /\ FetchesCert(e) => DoorInv'
               /\ Confirms(e) => DoorInv'
               /\ Announces(e) => DoorInv'
               /\ PersistsNew(e) => DoorInv'
               /\ Acts(e) => DoorInv'
               /\ FetchFails(e) \/ Stops(e) => DoorInv'
    <3>1. DoorTypeOK /\ Serving(e)
      BY DEF DoorInv
    <3>2. \A d \in script : Receives(e, d) => DoorInv'
      BY <3>1, ReceivesQuietly, QuietKeeps
    <3>3. Verifies(e) => DoorInv'
      BY <3>1, VerifiesQuietly, QuietKeeps
    <3>4. FetchesCert(e) => DoorInv'
      BY <3>1, FetchesQuietly, QuietKeeps
    <3>5. Confirms(e) => DoorInv'
      BY <3>1, ConfirmsQuietly, QuietKeeps
    <3>6. Announces(e) => DoorInv'
      BY <3>1, AnnouncesQuietly, QuietKeeps
    <3>7. PersistsNew(e) => DoorInv'
      BY <3>1, PersistsQuietly, QuietKeeps
    <3>8. Acts(e) => DoorInv'
      BY ActsKeeps
    <3>9. FetchFails(e) \/ Stops(e) => DoorInv'
      BY <3>1, FailsQuietly, QuietKeeps
    <3> QED BY <3>2, <3>3, <3>4, <3>5, <3>6, <3>7, <3>8, <3>9
  <2>3. \A d \in script : Duplicates(d) \/ Cancels(d) => DoorInv'
    BY SnsKeeps
  <2> QED BY <2>1, <2>2, <2>3 DEF DoorNext, DoorStep
<1> QED BY <1>1, <1>2, PTL DEF DoorSpec

\* extractor.rs, "no handler can see an unverified message", and verify's "caching
\* before verification would let bad-signature envelopes fill the cache": a URL is
\* visited, an event stored and a certificate kept only on what SNS signed, for a
\* topic the operator listed.
THEOREM ActsOnWhatSnsSigned == DoorSpec => []ActsOnSigned
BY DoorIsSafe, PTL DEF DoorInv

\* verification_status, "so a correctly-signed message survives a cold-start
\* network blip", and process_notification, "preserving at-least-once for the
\* action": what SNS is told for good is so.
THEOREM FinalAnswersAreRight == DoorSpec => []AnswersAreFinal
BY DoorIsSafe, PTL DEF DoorInv

\* actions.rs: the opt-out list and the feedback say what senders and receipts
\* said, in whatever order and however often their messages came.
THEOREM OptOutsFollowSenders == DoorSpec => []SmsFollowsSender
BY DoorIsSafe, PTL DEF DoorInv
==============================================================================
