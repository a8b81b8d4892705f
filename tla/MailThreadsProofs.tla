--------------------------- MODULE MailThreadsProofs ---------------------------
(***************************************************************************)
(* Machine-checked proofs about MailThreads, for any messages, any number  *)
(* of racing calls, any label caps and any number of retries.              *)
(***************************************************************************)
EXTENDS MailThreads, FiniteSetTheorems, TLAPS

MessageItem(t) == [thread : {t}, labels : SUBSET Labels, version : Nat]

ThreadItem ==
    [version : Nat, count : Nat, labels : SUBSET Labels, labelCounts : [Labels -> Nat],
     stamp : Nat, last : Messages, stamps : [Directions -> Nat]]

TablesOK ==
    /\ DOMAIN messages \subseteq Messages /\ IsFiniteSet(DOMAIN messages)
    /\ \A m \in DOMAIN messages :
          messages[m] \in MessageItem(messages[m].thread) /\ messages[m].thread \in DOMAIN threads
    /\ DOMAIN sends \subseteq DOMAIN messages
    /\ \A m \in DOMAIN sends : sends[m] \in [version : Nat, label : SendLabels]

\* The messages of table M that are in thread t.
Members(M, t) == {m \in DOMAIN M : M[m].thread = t}

\* Thread item th is the roll-up of the messages of M in t.
RollsUp(th, M, t) ==
    LET S == Members(M, t) IN
    /\ th \in ThreadItem
    /\ th.count = Cardinality(S)
    /\ \A l \in Labels : l \in th.labels <=> \E m \in S : l \in M[m].labels
    /\ \A l \in Labels : th.labelCounts[l] = Cardinality({m \in S : l \in M[m].labels})
    /\ th.last \in S /\ Mail[th.last].stamp = th.stamp
    /\ \A m \in S : Mail[m].stamp <= th.stamp /\ Mail[m].stamp <= th.stamps[Mail[m].direction]
    /\ \A d \in Directions :
          th.stamps[d] = 0 \/ \E m \in S : Mail[m].direction = d /\ Mail[m].stamp = th.stamps[d]

ThreadsRollUp == \A t \in DOMAIN threads : RollsUp(threads[t], messages, t)

JobFields == {"pc", "tries", "taken", "thread", "found", "message", "before", "held"}
IsJob(r) == r = [x \in JobFields |-> r[x]]

\* What a call has read is what the table holds, as long as the version is the
\* same; what it works on is there.
ReadsFit(j) ==
    LET s == job[j]  m == Job[j].msg IN
    /\ IsJob(s) /\ s.held \in Nat
    /\ s.pc \in {"idle", "done", "aliases", "thread", "message", "transact", "recheck"}
    /\ s.pc = "aliases" => Job[j].op = "insert"
    /\ s.pc = "message" => ~Creates(j)
    /\ m \in DOMAIN s.message =>
          /\ m \in DOMAIN messages
          /\ s.message[m] \in MessageItem(s.message[m].thread)
          /\ s.message[m].version <= messages[m].version
          /\ s.message[m].version = messages[m].version => s.message[m] = messages[m]
    /\ s.pc = "transact" /\ s.thread \in DOMAIN s.before =>
          /\ s.thread \in DOMAIN threads
          /\ s.before[s.thread] \in ThreadItem
          /\ s.before[s.thread].version <= threads[s.thread].version
          /\ s.before[s.thread].version = threads[s.thread].version =>
                s.before[s.thread] = threads[s.thread]

\* A call on a message that exists has read it, and works on its thread.
WorksOnMessage(j) ==
    LET s == job[j]  m == Job[j].msg IN
    /\ s.pc \in {"thread", "transact"} /\ ~Creates(j) =>
          m \in DOMAIN s.message /\ s.thread = messages[m].thread
    /\ s.pc = "transact" /\ Relabels(j) => s.thread \in DOMAIN s.before

\* A mark holds a version of the send state that was queued.
HoldsQueued(j) ==
    LET s == job[j]  m == Job[j].msg IN
    s.pc \notin {"idle", "done"} /\ Job[j].op = "mark" =>
       /\ m \in DOMAIN sends /\ s.held <= sends[m].version
       /\ s.held = sends[m].version => sends[m].label = "queued"

\* The alias rows an insert found are there, the placeholders among them as they
\* were unless they have become real.
FoundFits(j) ==
    LET s == job[j] IN
    Job[j].op = "insert" =>
       /\ s.taken = {}
       /\ s.pc \in {"thread", "transact"} => \A id \in DOMAIN s.found :
             /\ id \in DOMAIN aliases
             /\ aliases[id].msg = {} => s.found[id] = aliases[id]
       /\ s.pc \in {"thread", "transact"} => s.thread = LookedUpThread(Job[j].msg, s.found)

Fits(j) == ReadsFit(j) /\ WorksOnMessage(j) /\ HoldsQueued(j) /\ FoundFits(j)

\* A message that only answers p leaves a row for p, and its own Message-ID has
\* none before it is inserted.
AnswersArePlaced ==
    \A m \in Messages : \A p \in ToSet(Candidates[m]) : OnlyAnswers(m, p) =>
       IF m \in DOMAIN messages THEN p \in DOMAIN aliases ELSE Mail[m].rfcId \notin DOMAIN aliases

TablesInv ==
    /\ TablesOK /\ ThreadsRollUp
    /\ UserLabelsCapped /\ SendLabelFollows
    /\ AliasesAreTrue /\ AnswersArePlaced /\ RepliesShareThread

JobsFit == job = [j \in Jobs |-> job[j]] /\ \A j \in Jobs : Fits(j)

\* The inductive invariant.
MailInv == TablesInv /\ JobsFit

-----------------------------------------------------------------------------
(***************************************************************************)
(* thread.rs: the roll-up follows the messages.                            *)
(***************************************************************************)

LEMMA MailFacts ==
    ASSUME NEW m \in Messages
    PROVE  /\ Mail[m].direction \in Directions
           /\ Mail[m].stamp \in Nat /\ Mail[m].stamp > 0
           /\ Mail[m].labels \subseteq Labels
           /\ Mail[m].direction = "in" => Mail[m].labels \cap UserLabels = {}
           /\ Mail[m].direction = "out" => "queued" \in Mail[m].labels
BY MailThreadsAssumption DEF MailAssumption

\* The messages of S that have label l.
With(M, S, l) == {m \in S : l \in M[m].labels}

LEMMA CountFacts ==
    ASSUME NEW M, IsFiniteSet(DOMAIN M), NEW t, NEW l
    PROVE  LET S == Members(M, t) IN
           /\ IsFiniteSet(S) /\ Cardinality(S) \in Nat
           /\ IsFiniteSet(With(M, S, l)) /\ Cardinality(With(M, S, l)) \in Nat
<1>1. IsFiniteSet(Members(M, t))
  BY FS_Subset DEF Members
<1>2. IsFiniteSet(With(M, Members(M, t), l))
  BY <1>1, FS_Subset DEF With
<1> QED BY <1>1, <1>2, FS_CardinalityType

\* Message m is added to the table.
Added(M, N, m, t) ==
    /\ m \notin DOMAIN M /\ DOMAIN N = DOMAIN M \cup {m}
    /\ \A k \in DOMAIN M : N[k] = M[k]
    /\ N[m].thread = t /\ N[m].labels = Mail[m].labels

LEMMA AddedElsewhere ==
    ASSUME NEW M, NEW N, NEW m, NEW t, Added(M, N, m, t), NEW u, u # t, NEW th, RollsUp(th, M, u)
    PROVE  RollsUp(th, N, u)
<1>1. Members(N, u) = Members(M, u)
  BY DEF Members, Added
<1>2. \A k \in Members(M, u) : N[k] = M[k]
  BY DEF Members, Added
<1>3. \A l \in Labels : {k \in Members(M, u) : l \in N[k].labels} = {k \in Members(M, u) : l \in M[k].labels}
  BY <1>2
<1> QED BY <1>1, <1>2, <1>3 DEF RollsUp

LEMMA AddedMembers ==
    ASSUME NEW M, NEW N, NEW m \in Messages, NEW t, Added(M, N, m, t), IsFiniteSet(DOMAIN M)
    PROVE  /\ m \notin Members(M, t)
           /\ Members(N, t) = Members(M, t) \cup {m}
           /\ Cardinality(Members(N, t)) = Cardinality(Members(M, t)) + 1
<1>1. m \notin Members(M, t) /\ Members(N, t) = Members(M, t) \cup {m}
  BY DEF Members, Added
<1>2. IsFiniteSet(Members(M, t)) /\ Cardinality(Members(M, t)) \in Nat
  BY CountFacts
<1>3. Cardinality(Members(N, t)) = Cardinality(Members(M, t)) + 1
  BY <1>1, <1>2, FS_AddElement
<1> QED BY <1>1, <1>3

LEMMA AddedLabel ==
    ASSUME NEW M, NEW N, NEW m \in Messages, NEW t, Added(M, N, m, t), IsFiniteSet(DOMAIN M),
           NEW l
    PROVE  Cardinality(With(N, Members(N, t), l))
             = Cardinality(With(M, Members(M, t), l)) + (IF l \in Mail[m].labels THEN 1 ELSE 0)
<1>1. m \notin Members(M, t) /\ Members(N, t) = Members(M, t) \cup {m}
  BY AddedMembers
<1>2. /\ IsFiniteSet(With(M, Members(M, t), l)) /\ m \notin With(M, Members(M, t), l)
      /\ Cardinality(With(M, Members(M, t), l)) \in Nat
  BY <1>1, CountFacts DEF With
<1>3. \A k \in Members(M, t) : N[k] = M[k]
  BY DEF Members, Added
<1>4. CASE l \in Mail[m].labels
  <2>1. With(N, Members(N, t), l) = With(M, Members(M, t), l) \cup {m}
    BY <1>1, <1>3, <1>4 DEF With, Added
  <2>2. Cardinality(With(N, Members(N, t), l)) = Cardinality(With(M, Members(M, t), l)) + 1
    BY <1>2, <2>1, FS_AddElement
  <2> QED BY <1>4, <2>2
<1>5. CASE l \notin Mail[m].labels
  <2>1. With(N, Members(N, t), l) = With(M, Members(M, t), l)
    BY <1>1, <1>3, <1>5 DEF With, Added
  <2> QED BY <1>2, <1>5, <2>1
<1> QED BY <1>4, <1>5

LEMMA NewRollsUp ==
    ASSUME NEW M, NEW N, NEW m \in Messages, NEW t, Added(M, N, m, t), IsFiniteSet(DOMAIN M),
           Members(M, t) = {}
    PROVE  RollsUp(NewThread(m), N, t)
<1> DEFINE th == NewThread(m)
<1>1. /\ th.version = 0 /\ th.count = 1 /\ th.labels = Mail[m].labels
      /\ th.labelCounts = [l \in Labels |-> IF l \in Mail[m].labels THEN 1 ELSE 0]
      /\ th.stamp = Mail[m].stamp /\ th.last = m
      /\ th.stamps = [d \in Directions |-> IF d = Mail[m].direction THEN Mail[m].stamp ELSE 0]
  BY DEF NewThread
<1>2. th.labelCounts \in [Labels -> Nat] /\ th.stamps \in [Directions -> Nat]
  BY <1>1, MailFacts
<1>3. th \in ThreadItem
  BY <1>1, <1>2, MailFacts DEF NewThread, ThreadItem
<1> HIDE DEF th
<1>4. Members(N, t) = {m} /\ Cardinality(Members(N, t)) = 1 /\ N[m].labels = Mail[m].labels
  <2>1. Cardinality({}) = 0
    BY FS_EmptySet
  <2>2. Members(N, t) = Members(M, t) \cup {m} /\ Cardinality(Members(N, t)) = Cardinality(Members(M, t)) + 1
    BY AddedMembers
  <2> QED BY <2>1, <2>2 DEF Added
<1>5. \A l \in Labels : th.labelCounts[l] = Cardinality(With(N, Members(N, t), l))
  <2>1. \A l : With(M, {}, l) = {}
    BY DEF With
  <2>2. Cardinality({}) = 0
    BY FS_EmptySet
  <2>3. ASSUME NEW l \in Labels PROVE th.labelCounts[l] = Cardinality(With(N, Members(N, t), l))
    <3>1. Cardinality(With(M, Members(M, t), l)) = 0
      BY <2>1, <2>2
    <3>2. Cardinality(With(N, Members(N, t), l))
            = Cardinality(With(M, Members(M, t), l)) + (IF l \in Mail[m].labels THEN 1 ELSE 0)
      BY AddedLabel
    <3>3. th.labelCounts[l] = IF l \in Mail[m].labels THEN 1 ELSE 0
      BY <1>1
    <3> QED BY <3>1, <3>2, <3>3
  <2> QED BY <2>3
<1>6. \A d \in Directions :
         th.stamps[d] = 0 \/ \E k \in Members(N, t) : Mail[k].direction = d /\ Mail[k].stamp = th.stamps[d]
  BY <1>1, <1>4
<1>7. \A k \in Members(N, t) : Mail[k].stamp <= th.stamp /\ Mail[k].stamp <= th.stamps[Mail[k].direction]
  BY <1>1, <1>4, MailFacts
<1>8. \A l \in Labels : l \in th.labels <=> \E k \in Members(N, t) : l \in N[k].labels
  BY <1>1, <1>4
<1>9. RollsUp(th, N, t)
  BY <1>1, <1>3, <1>4, <1>5, <1>6, <1>7, <1>8 DEF RollsUp, With
<1> QED BY <1>9 DEF th

\* apply_message
LEMMA AddRollsUp ==
    ASSUME NEW M, NEW N, NEW m \in Messages, NEW t, Added(M, N, m, t), IsFiniteSet(DOMAIN M),
           DOMAIN M \subseteq Messages, NEW old, RollsUp(old, M, t)
    PROVE  RollsUp(ApplyMessage(old, m), N, t)
<1> DEFINE th == ApplyMessage(old, m)
           dir == Mail[m].direction
           leads == Mail[m].stamp >= old.stamp
<1>1. /\ th.version = old.version + 1 /\ th.count = old.count + 1
      /\ th.labels = old.labels \cup Mail[m].labels
      /\ th.labelCounts = [l \in Labels |-> old.labelCounts[l] + IF l \in Mail[m].labels THEN 1 ELSE 0]
      /\ th.stamp = IF leads THEN Mail[m].stamp ELSE old.stamp
      /\ th.last = IF leads THEN m ELSE old.last
      /\ th.stamps = [old.stamps EXCEPT ![dir] = Newer(Mail[m].stamp, old.stamps[dir])]
  BY DEF ApplyMessage
<1>2. /\ old.version \in Nat /\ old.count \in Nat /\ old.labels \in SUBSET Labels
      /\ old.labelCounts \in [Labels -> Nat] /\ old.stamp \in Nat /\ old.last \in Messages
      /\ old.stamps \in [Directions -> Nat]
  BY DEF RollsUp, ThreadItem
<1>3. dir \in Directions /\ Mail[m].stamp \in Nat /\ Mail[m].labels \subseteq Labels
  BY MailFacts
<1>4. th.labelCounts \in [Labels -> Nat] /\ th.stamps \in [Directions -> Nat] /\ th.stamp \in Nat
         /\ th.last \in Messages
  BY <1>1, <1>2, <1>3 DEF Newer
<1>5. th \in ThreadItem
  <2>1. th = [version |-> th.version, count |-> th.count, labels |-> th.labels,
              labelCounts |-> th.labelCounts, stamp |-> th.stamp, last |-> th.last, stamps |-> th.stamps]
    BY DEF ApplyMessage
  <2>2. th.version \in Nat /\ th.count \in Nat /\ th.labels \in SUBSET Labels
    BY <1>1, <1>2, <1>3
  <2> HIDE DEF th
  <2> QED BY <1>4, <2>1, <2>2 DEF ThreadItem
<1> HIDE DEF th
<1>6. /\ Members(N, t) = Members(M, t) \cup {m} /\ m \notin Members(M, t)
      /\ N[m].labels = Mail[m].labels /\ \A k \in Members(M, t) : N[k] = M[k] /\ k \in Messages
  <2>1. Members(N, t) = Members(M, t) \cup {m} /\ m \notin Members(M, t)
    BY AddedMembers
  <2>2. N[m].labels = Mail[m].labels /\ \A k \in Members(M, t) : N[k] = M[k] /\ k \in Messages
    BY DEF Added, Members
  <2> QED BY <2>1, <2>2
<1>7. th.count = Cardinality(Members(N, t))
  <2>1. Cardinality(Members(N, t)) = Cardinality(Members(M, t)) + 1
    BY AddedMembers
  <2>2. old.count = Cardinality(Members(M, t))
    BY DEF RollsUp
  <2> QED BY <1>1, <2>1, <2>2
<1>8. ASSUME NEW l \in Labels PROVE th.labelCounts[l] = Cardinality(With(N, Members(N, t), l))
  <2>1. th.labelCounts[l] = old.labelCounts[l] + IF l \in Mail[m].labels THEN 1 ELSE 0
    BY <1>1
  <2>2. old.labelCounts[l] = Cardinality(With(M, Members(M, t), l))
    BY DEF RollsUp, With
  <2>3. Cardinality(With(N, Members(N, t), l))
          = Cardinality(With(M, Members(M, t), l)) + (IF l \in Mail[m].labels THEN 1 ELSE 0)
    BY AddedLabel
  <2> QED BY <2>1, <2>2, <2>3
<1>9. \A l \in Labels : l \in th.labels <=> \E k \in Members(N, t) : l \in N[k].labels
  <2>1. \A l \in Labels : l \in old.labels <=> \E k \in Members(M, t) : l \in M[k].labels
    BY DEF RollsUp
  <2> QED BY <1>1, <1>6, <2>1
<1>10. /\ old.last \in Members(M, t) /\ Mail[old.last].stamp = old.stamp
       /\ \A k \in Members(M, t) : Mail[k].stamp <= old.stamp /\ Mail[k].stamp <= old.stamps[Mail[k].direction]
       /\ \A d \in Directions : old.stamps[d] = 0
             \/ \E k \in Members(M, t) : Mail[k].direction = d /\ Mail[k].stamp = old.stamps[d]
  BY DEF RollsUp
<1>11. th.last \in Members(N, t) /\ Mail[th.last].stamp = th.stamp
  BY <1>1, <1>6, <1>10
<1>12. th.stamps[dir] = Newer(Mail[m].stamp, old.stamps[dir])
          /\ \A d \in Directions \ {dir} : th.stamps[d] = old.stamps[d]
  BY <1>1, <1>2, <1>3
<1>13. ASSUME NEW k \in Members(N, t)
       PROVE  Mail[k].stamp <= th.stamp /\ Mail[k].stamp <= th.stamps[Mail[k].direction]
  <2>1. Mail[k].stamp \in Nat /\ Mail[k].direction \in Directions
    BY <1>6, MailFacts
  <2>2. CASE k = m
    BY <1>1, <1>2, <1>3, <1>12, <2>2 DEF Newer
  <2>3. CASE k \in Members(M, t)
    <3>1. Mail[k].stamp <= old.stamp /\ Mail[k].stamp <= old.stamps[Mail[k].direction]
      BY <1>10, <2>3
    <3>2. Mail[k].stamp <= th.stamp
      BY <1>1, <1>2, <1>3, <2>1, <3>1
    <3>3. old.stamps[Mail[k].direction] \in Nat
      BY <1>2, <2>1
    <3> QED BY <1>3, <1>12, <2>1, <3>1, <3>2, <3>3 DEF Newer
  <2> QED BY <1>6, <2>2, <2>3
<1>14. ASSUME NEW d \in Directions
       PROVE  th.stamps[d] = 0 \/ \E k \in Members(N, t) : Mail[k].direction = d /\ Mail[k].stamp = th.stamps[d]
  <2>1. CASE d = dir /\ th.stamps[d] = Mail[m].stamp
    BY <1>6, <2>1
  <2>2. CASE th.stamps[d] = old.stamps[d]
    BY <1>6, <1>10, <2>2
  <2> QED BY <1>12, <2>1, <2>2 DEF Newer
<1>15. RollsUp(th, N, t)
  BY <1>5, <1>7, <1>8, <1>9, <1>11, <1>13, <1>14 DEF RollsUp, With
<1> QED BY <1>15 DEF th

\* The labels of message m change.
Relabelled(M, N, m, t, labels) ==
    /\ m \in DOMAIN M /\ DOMAIN N = DOMAIN M
    /\ \A k \in DOMAIN M \ {m} : N[k] = M[k]
    /\ M[m].thread = t /\ N[m].thread = t /\ N[m].labels = labels

LEMMA RelabelledElsewhere ==
    ASSUME NEW M, NEW N, NEW m, NEW t, NEW labels, Relabelled(M, N, m, t, labels),
           NEW u, u # t \/ labels = M[m].labels, NEW th, RollsUp(th, M, u)
    PROVE  RollsUp(th, N, u)
<1>1. Members(N, u) = Members(M, u)
  BY DEF Members, Relabelled
<1>2. \A k \in Members(M, u) : N[k].labels = M[k].labels
  BY DEF Members, Relabelled
<1>3. \A l \in Labels : {k \in Members(M, u) : l \in N[k].labels} = {k \in Members(M, u) : l \in M[k].labels}
  BY <1>2
<1> QED BY <1>1, <1>2, <1>3 DEF RollsUp

\* apply_label_patch
LEMMA PatchRollsUp ==
    ASSUME NEW M, NEW N, NEW m \in Messages, NEW t, NEW labels \in SUBSET Labels,
           Relabelled(M, N, m, t, labels), IsFiniteSet(DOMAIN M), M[m].labels \in SUBSET Labels,
           NEW old, RollsUp(old, M, t)
    PROVE  RollsUp(ApplyLabelPatch(old, labels \ M[m].labels, M[m].labels \ labels), N, t)
<1> DEFINE a == labels \ M[m].labels
           r == M[m].labels \ labels
           th == ApplyLabelPatch(old, a, r)
           S == Members(M, t)
           Counted(l) == old.labelCounts[l] + IF l \in a THEN 1 ELSE 0
<1>1. /\ old.version \in Nat /\ old.count \in Nat /\ old.labels \in SUBSET Labels
      /\ old.labelCounts \in [Labels -> Nat] /\ old.stamp \in Nat /\ old.last \in Messages
      /\ old.stamps \in [Directions -> Nat] /\ old \in ThreadItem
  BY DEF RollsUp, ThreadItem
<1>2. /\ th.version = old.version + 1 /\ th.count = old.count
      /\ th.labels = (old.labels \cup a) \ {l \in r : Counted(l) = 1}
      /\ th.labelCounts = [l \in Labels |-> IF l \in r /\ Counted(l) > 0 THEN Counted(l) - 1 ELSE Counted(l)]
      /\ th.stamp = old.stamp /\ th.last = old.last /\ th.stamps = old.stamps
  BY <1>1 DEF ApplyLabelPatch, ThreadItem
<1>3. a \subseteq Labels /\ r \subseteq Labels
  OBVIOUS
<1>4. \A l \in Labels : Counted(l) \in Nat
  BY <1>1
<1>5. th.labelCounts \in [Labels -> Nat]
  <2> HIDE DEF Counted, a, r, th
  <2> QED BY <1>2, <1>4
<1>6. th \in ThreadItem
  <2>1. th.version \in Nat /\ th.labels \in SUBSET Labels
    <3> HIDE DEF th, Counted, a, r
    <3>1. th.version \in Nat
      BY <1>1, <1>2
    <3>2. th.labels \subseteq old.labels \cup a
      BY <1>2
    <3> QED BY <1>1, <1>3, <3>1, <3>2
  <2>2. th = [old EXCEPT !.version = th.version, !.labels = th.labels, !.labelCounts = th.labelCounts]
    BY <1>1, <1>2 DEF ApplyLabelPatch, ThreadItem
  <2> HIDE DEF th
  <2> QED BY <1>1, <1>5, <2>1, <2>2 DEF ThreadItem
<1> HIDE DEF th
<1>7. /\ Members(N, t) = S /\ m \in S /\ N[m].labels = labels
      /\ \A k \in S \ {m} : N[k] = M[k]
  BY DEF Members, Relabelled
<1>8. \A l \in Labels : old.labelCounts[l] = Cardinality(With(M, S, l))
  BY DEF RollsUp, With
<1> HIDE DEF S
<1>9. ASSUME NEW l \in Labels
      PROVE  /\ th.labelCounts[l] = Cardinality(With(N, S, l))
             /\ l \in th.labels <=> \E k \in S : l \in N[k].labels
  <2> DEFINE W == With(M, S, l)
             V == With(N, S, l)
  <2>1. IsFiniteSet(W) /\ Cardinality(W) \in Nat /\ old.labelCounts[l] = Cardinality(W)
    BY <1>8, CountFacts DEF S
  <2>2. l \in old.labels <=> \E k \in S : l \in M[k].labels
    BY DEF RollsUp, S
  <2>3. th.labelCounts[l] = IF l \in r /\ Counted(l) > 0 THEN Counted(l) - 1 ELSE Counted(l)
    BY <1>2
  <2>4. CASE l \in a
    <3>1. l \notin r /\ V = W \cup {m} /\ m \notin W
      BY <1>7, <2>4 DEF With
    <3>2. Cardinality(V) = Cardinality(W) + 1
      BY <2>1, <3>1, FS_AddElement
    <3>3. th.labelCounts[l] = Cardinality(W) + 1
      BY <2>1, <2>3, <2>4, <3>1
    <3>4. l \in th.labels
      BY <1>2, <2>4, <3>1
    <3>5. l \in N[m].labels
      BY <1>7, <2>4
    <3> QED BY <1>7, <3>2, <3>3, <3>4, <3>5
  <2>5. CASE l \in r
    <3>1. l \notin a /\ V = W \ {m} /\ m \in W
      BY <1>7, <2>5 DEF With
    <3>2. Cardinality(V) = Cardinality(W) - 1 /\ IsFiniteSet(V)
      BY <2>1, <3>1, FS_RemoveElement
    <3>3. Cardinality(W) > 0
      <4>1. Cardinality(W) # 0
        BY <2>1, <3>1, FS_EmptySet
      <4> QED BY <2>1, <4>1
    <3>4. Counted(l) = Cardinality(W)
      BY <2>1, <3>1
    <3>5. th.labelCounts[l] = Cardinality(V)
      BY <2>3, <2>5, <3>2, <3>3, <3>4
    <3>6. l \in th.labels <=> Cardinality(W) # 1
      <4>1. l \in old.labels
        BY <2>2, <3>1 DEF With
      <4> QED BY <1>2, <2>5, <3>4, <4>1
    <3>7. V = {} <=> Cardinality(V) = 0
      BY <3>2, FS_EmptySet
    <3>8. V = {} <=> Cardinality(W) = 1
      BY <2>1, <3>2, <3>7
    <3>9. V # {} <=> \E k \in S : l \in N[k].labels
      BY DEF With
    <3> QED BY <3>5, <3>6, <3>8, <3>9
  <2>6. CASE l \notin a /\ l \notin r
    <3>1. V = W
      BY <1>7, <2>6 DEF With
    <3>2. th.labelCounts[l] = Cardinality(W)
      BY <2>1, <2>3, <2>6
    <3>3. l \in th.labels <=> l \in old.labels
      BY <1>2, <2>6
    <3>4. (\E k \in S : l \in N[k].labels) <=> (\E k \in S : l \in M[k].labels)
      BY <3>1 DEF With
    <3> QED BY <2>2, <3>1, <3>2, <3>3, <3>4
  <2> QED BY <2>4, <2>5, <2>6
<1>10. /\ old.count = Cardinality(S) /\ old.last \in S /\ Mail[old.last].stamp = old.stamp
       /\ \A k \in S : Mail[k].stamp <= old.stamp /\ Mail[k].stamp <= old.stamps[Mail[k].direction]
       /\ \A d \in Directions :
             old.stamps[d] = 0 \/ \E k \in S : Mail[k].direction = d /\ Mail[k].stamp = old.stamps[d]
  BY DEF RollsUp, S
<1> HIDE DEF Counted, a, r
<1>11. /\ th.count = Cardinality(S) /\ th.last \in S /\ Mail[th.last].stamp = th.stamp
       /\ \A k \in S : Mail[k].stamp <= th.stamp /\ Mail[k].stamp <= th.stamps[Mail[k].direction]
       /\ \A d \in Directions :
             th.stamps[d] = 0 \/ \E k \in S : Mail[k].direction = d /\ Mail[k].stamp = th.stamps[d]
  BY <1>2, <1>10
<1>12. \A l \in Labels : th.labelCounts[l] = Cardinality({k \in S : l \in N[k].labels})
  BY <1>9 DEF With
<1>13. \A l \in Labels : l \in th.labels <=> \E k \in S : l \in N[k].labels
  BY <1>9
<1>14. Members(N, t) = S
  BY <1>7
<1>15. RollsUp(th, N, t)
  BY <1>6, <1>11, <1>12, <1>13, <1>14 DEF RollsUp
<1> QED BY <1>15 DEF th, a, r
-----------------------------------------------------------------------------
(***************************************************************************)
(* What a call holds survives every change that the tables may undergo.    *)
(***************************************************************************)

\* Items stay, their versions tell them apart, a message keeps its thread and a
\* row that is a placeholder was the same one before.
TablesEvolve ==
    /\ \A m \in DOMAIN messages :
          /\ m \in DOMAIN messages' /\ messages'[m].thread = messages[m].thread
          /\ messages[m].version <= messages'[m].version
          /\ messages'[m].version = messages[m].version => messages'[m] = messages[m]
    /\ \A t \in DOMAIN threads :
          /\ t \in DOMAIN threads'
          /\ threads[t].version <= threads'[t].version
          /\ threads'[t].version = threads[t].version => threads'[t] = threads[t]
    /\ \A id \in DOMAIN aliases :
          /\ id \in DOMAIN aliases'
          /\ aliases'[id].msg = {} => aliases'[id] = aliases[id]
    /\ \A m \in DOMAIN sends :
          /\ m \in DOMAIN sends'
          /\ sends[m].version <= sends'[m].version
          /\ sends'[m].version = sends[m].version => sends'[m] = sends[m]

\* The versions of the items are numbers.
LEMMA Versions ==
    ASSUME TablesInv
    PROVE  /\ \A m \in DOMAIN messages : messages[m].version \in Nat
           /\ \A t \in DOMAIN threads : threads[t].version \in Nat
           /\ \A m \in DOMAIN sends : sends[m].version \in Nat
<1>1. \A m \in DOMAIN messages : messages[m].version \in Nat
  BY DEF TablesInv, TablesOK, MessageItem
<1>2. \A t \in DOMAIN threads : threads[t].version \in Nat
  BY DEF TablesInv, ThreadsRollUp, RollsUp, ThreadItem
<1>3. \A m \in DOMAIN sends : sends[m].version \in Nat
  BY DEF TablesInv, TablesOK
<1> QED BY <1>1, <1>2, <1>3

LEMMA UnchangedEvolves ==
    ASSUME TablesInv, UnchangedTable
    PROVE  TablesInv' /\ TablesEvolve
<1>1. TablesInv'
  BY DEF UnchangedTable, TablesInv, TablesOK, ThreadsRollUp, UserLabelsCapped, SendLabelFollows,
         AliasesAreTrue, AnswersArePlaced, RepliesShareThread
<1>2. TablesEvolve
  BY Versions DEF UnchangedTable, TablesEvolve
<1> QED BY <1>1, <1>2

LEMMA HeldStays ==
    ASSUME TablesInv, TablesInv', TablesEvolve, NEW m \in DOMAIN sends, NEW held \in Nat,
           held <= sends[m].version, held = sends[m].version => sends[m].label = "queued"
    PROVE  /\ m \in DOMAIN sends' /\ held <= sends'[m].version
           /\ held = sends'[m].version => sends'[m].label = "queued"
<1>1. m \in DOMAIN sends' /\ sends[m].version <= sends'[m].version
         /\ (sends'[m].version = sends[m].version => sends'[m] = sends[m])
  BY DEF TablesEvolve
<1>2. sends[m].version \in Nat
  BY Versions
<1>3. sends'[m].version \in Nat
  BY <1>1 DEF TablesInv, TablesOK
<1> QED BY <1>1, <1>2, <1>3

LEMMA OtherJobFits ==
    ASSUME TablesInv, TablesInv', TablesEvolve, NEW j \in Jobs, Fits(j), job'[j] = job[j]
    PROVE  Fits(j)'
<1> DEFINE s == job[j]
           m == Job[j].msg
<1>1. ASSUME m \in DOMAIN s.message
      PROVE  /\ m \in DOMAIN messages'
             /\ s.message[m].version <= messages'[m].version
             /\ s.message[m].version = messages'[m].version => s.message[m] = messages'[m]
             /\ messages'[m].thread = messages[m].thread
  <2>1. /\ m \in DOMAIN messages /\ s.message[m] \in MessageItem(s.message[m].thread)
        /\ s.message[m].version <= messages[m].version
        /\ s.message[m].version = messages[m].version => s.message[m] = messages[m]
    BY <1>1 DEF Fits, ReadsFit
  <2>2. /\ m \in DOMAIN messages' /\ messages[m].version <= messages'[m].version
        /\ messages'[m].thread = messages[m].thread
        /\ messages'[m].version = messages[m].version => messages'[m] = messages[m]
    BY <2>1 DEF TablesEvolve
  <2>3. messages[m].version \in Nat /\ messages'[m].version \in Nat
    BY <2>1, <2>2 DEF TablesInv, TablesOK, MessageItem
  <2>4. s.message[m].version \in Nat
    BY <2>1 DEF MessageItem
  <2> HIDE DEF s, m
  <2> QED BY <2>1, <2>2, <2>3, <2>4
<1>2. ASSUME s.pc = "transact", s.thread \in DOMAIN s.before
      PROVE  /\ s.thread \in DOMAIN threads'
             /\ s.before[s.thread].version <= threads'[s.thread].version
             /\ s.before[s.thread].version = threads'[s.thread].version
                  => s.before[s.thread] = threads'[s.thread]
  <2> DEFINE t == s.thread
             b == s.before[t]
  <2>1. /\ t \in DOMAIN threads /\ b \in ThreadItem
        /\ b.version <= threads[t].version
        /\ b.version = threads[t].version => b = threads[t]
    BY <1>2 DEF Fits, ReadsFit
  <2>2. /\ t \in DOMAIN threads' /\ threads[t].version <= threads'[t].version
        /\ threads'[t].version = threads[t].version => threads'[t] = threads[t]
    BY <2>1 DEF TablesEvolve
  <2>3. threads[t].version \in Nat
    BY <2>1, Versions
  <2>4. threads'[t].version \in Nat
    <3>1. RollsUp(threads'[t], messages', t)
      BY <2>2 DEF TablesInv, ThreadsRollUp
    <3> QED BY <3>1 DEF RollsUp, ThreadItem
  <2>5. b.version \in Nat
    BY <2>1 DEF ThreadItem
  <2> HIDE DEF t, b
  <2>6. t \in DOMAIN threads' /\ b.version <= threads'[t].version
          /\ (b.version = threads'[t].version => b = threads'[t])
    BY <2>1, <2>2, <2>3, <2>4, <2>5
  <2> QED BY <2>6 DEF t, b
<1>3. ReadsFit(j)'
  BY <1>1, <1>2 DEF Fits, ReadsFit, IsJob, Creates
<1>4. WorksOnMessage(j)'
  <2>1. Relabels(j)' <=> Relabels(j)
    BY DEF Relabels, LabelsAfter
  <2> QED BY <1>1, <2>1 DEF Fits, WorksOnMessage, Creates
<1>5. HoldsQueued(j)'
  <2>1. CASE s.pc \notin {"idle", "done"} /\ Job[j].op = "mark"
    <3>1. /\ m \in DOMAIN sends /\ s.held \in Nat /\ s.held <= sends[m].version
          /\ s.held = sends[m].version => sends[m].label = "queued"
      BY <2>1 DEF Fits, ReadsFit, HoldsQueued
    <3>2. /\ m \in DOMAIN sends' /\ s.held <= sends'[m].version
          /\ s.held = sends'[m].version => sends'[m].label = "queued"
      BY <3>1, HeldStays
    <3> QED BY <3>2 DEF HoldsQueued
  <2> QED BY <2>1 DEF HoldsQueued
<1>6. FoundFits(j)'
  <2>1. \A id \in DOMAIN aliases :
           id \in DOMAIN aliases' /\ (aliases'[id].msg = {} => aliases'[id] = aliases[id])
    BY DEF TablesEvolve
  <2> QED BY <2>1 DEF Fits, FoundFits
<1> QED BY <1>3, <1>4, <1>5, <1>6 DEF Fits

\* One call moves on and the others keep what they hold.
LEMMA OneCallMoves ==
    ASSUME MailInv, TablesInv', TablesEvolve, NEW j \in Jobs, NEW q, job' = [job EXCEPT ![j] = q],
           Fits(j)'
    PROVE  MailInv'
<1>1. job = [i \in Jobs |-> job[i]]
  BY DEF MailInv, JobsFit
<1>2. job' = [i \in Jobs |-> job'[i]] /\ \A i \in Jobs \ {j} : job'[i] = job[i]
  BY <1>1
<1>3. \A i \in Jobs : Fits(i)'
  BY <1>2, OtherJobFits DEF MailInv, JobsFit
<1> QED BY <1>2, <1>3 DEF MailInv, JobsFit

LEMMA IdleFields ==
    /\ IsJob(Idle) /\ Idle.pc = "idle" /\ Idle.taken = {} /\ Idle.held = 0
    /\ DOMAIN Idle.found = {} /\ DOMAIN Idle.message = {} /\ DOMAIN Idle.before = {}
BY DEF Idle, IsJob, JobFields

\* A call that is not under way holds nothing.
LEMMA RestingFits ==
    ASSUME NEW j \in Jobs, NEW pc \in {"idle", "done"}, job'[j] = [Idle EXCEPT !.pc = pc]
    PROVE  Fits(j)'
<1> DEFINE q == [Idle EXCEPT !.pc = pc]
<1>1. /\ IsJob(q) /\ q.pc = pc /\ q.taken = {} /\ q.held = 0
      /\ DOMAIN q.found = {} /\ DOMAIN q.message = {} /\ DOMAIN q.before = {}
  BY DEF Idle, IsJob, JobFields
<1> HIDE DEF q
<1>2. job'[j] = q
  BY DEF q
<1>3. q.pc \in {"idle", "done"} /\ q.held \in Nat
  BY <1>1
<1>4. ReadsFit(j)'
  BY <1>1, <1>2, <1>3 DEF ReadsFit
<1>5. WorksOnMessage(j)'
  BY <1>2, <1>3 DEF WorksOnMessage
<1>6. HoldsQueued(j)'
  BY <1>2, <1>3 DEF HoldsQueued
<1>7. FoundFits(j)'
  BY <1>1, <1>2, <1>3 DEF FoundFits
<1> QED BY <1>4, <1>5, <1>6, <1>7 DEF Fits

LEMMA EndsKeeps ==
    ASSUME MailInv, TablesInv', TablesEvolve, NEW j \in Jobs, Ends(j)
    PROVE  MailInv'
<1> DEFINE q == [Idle EXCEPT !.pc = "done"]
<1>1. job' = [job EXCEPT ![j] = q]
  BY DEF Ends
<1>2. job = [i \in Jobs |-> job[i]]
  BY DEF MailInv, JobsFit
<1>3. job'[j] = q
  BY <1>1, <1>2
<1>4. Fits(j)'
  BY <1>3, RestingFits
<1> HIDE DEF q
<1> QED BY <1>1, <1>4, OneCallMoves

\* Another turn keeps the thread and the claim on the send state.
LEMMA AgainKeeps ==
    ASSUME MailInv, TablesInv', TablesEvolve, NEW j \in Jobs, NEW taken, Again(j, taken),
           Job[j].op = "insert" => taken = {}, job[j].pc \notin {"idle", "done"}
    PROVE  MailInv'
<1> DEFINE s == job[j]
           pc == FirstRead[Job[j].op]
           tries == s.tries + 1
           q == [Idle EXCEPT !.pc = pc, !.tries = tries, !.taken = s.taken \cup taken,
                             !.thread = s.thread, !.held = s.held]
<1>1. CASE Ends(j)
  BY <1>1, EndsKeeps
<1>2. CASE job' = [job EXCEPT ![j] = q]
  <2>1. /\ IsJob(q) /\ q.pc = pc /\ q.taken = s.taken \cup taken /\ q.held = s.held
        /\ q.thread = s.thread
        /\ DOMAIN q.found = {} /\ DOMAIN q.message = {} /\ DOMAIN q.before = {}
    <3> DEFINE tk == s.taken \cup taken
               th == s.thread
               h == s.held
    <3>1. q = [Idle EXCEPT !.pc = pc, !.tries = tries, !.taken = tk, !.thread = th, !.held = h]
      OBVIOUS
    <3> HIDE DEF pc, tries, q, tk, th, h
    <3>2. /\ IsJob(q) /\ q.pc = pc /\ q.taken = tk /\ q.held = h /\ q.thread = th
          /\ DOMAIN q.found = {} /\ DOMAIN q.message = {} /\ DOMAIN q.before = {}
      <4>1. DOMAIN q = JobFields
        BY <3>1 DEF Idle, JobFields
      <4>2. q = [x \in DOMAIN q |-> q[x]]
        BY <3>1 DEF Idle
      <4>3. q.pc = pc /\ q.taken = tk /\ q.held = h /\ q.thread = th
        BY <3>1 DEF Idle
      <4>4. q.found = <<>> /\ q.message = <<>> /\ q.before = <<>>
        BY <3>1 DEF Idle
      <4>5. IsJob(q)
        BY <4>1, <4>2 DEF IsJob
      <4> QED BY <4>3, <4>4, <4>5
    <3> QED BY <3>2 DEF tk, th, h
  <2>2. Job[j].op \in {"insert", "enqueue", "mark", "patch"}
    BY MailThreadsAssumption DEF JobAssumption
  <2>3. /\ pc \in {"aliases", "thread", "message"}
        /\ pc = "thread" => Creates(j) /\ Job[j].op # "insert"
        /\ pc = "aliases" => Job[j].op = "insert"
        /\ pc = "message" => ~Creates(j)
    BY <2>2 DEF FirstRead, Creates
  <2>4. Fits(j)
    BY DEF MailInv, JobsFit
  <2>5. s.held \in Nat
    BY <2>4 DEF Fits, ReadsFit
  <2>6. Job[j].op = "insert" => s.taken \cup taken = {}
    BY <2>4 DEF Fits, FoundFits
  <2> HIDE DEF pc, q
  <2>7. job'[j] = q
    <3>1. job = [i \in Jobs |-> job[i]]
      BY DEF MailInv, JobsFit
    <3>2. j \in DOMAIN job
      BY <3>1
    <3> QED BY <1>2, <3>2
  <2>8. ReadsFit(j)'
    BY <2>1, <2>3, <2>5, <2>7 DEF ReadsFit, Creates
  <2>9. WorksOnMessage(j)'
    BY <2>1, <2>3, <2>7 DEF WorksOnMessage, Creates
  <2>10. HoldsQueued(j)'
    <3>1. CASE Job[j].op = "mark"
      <4>1. /\ Job[j].msg \in DOMAIN sends /\ s.held <= sends[Job[j].msg].version
            /\ s.held = sends[Job[j].msg].version => sends[Job[j].msg].label = "queued"
        BY <2>4, <3>1 DEF Fits, HoldsQueued
      <4>2. /\ Job[j].msg \in DOMAIN sends' /\ s.held <= sends'[Job[j].msg].version
            /\ s.held = sends'[Job[j].msg].version => sends'[Job[j].msg].label = "queued"
        BY <2>5, <4>1, HeldStays DEF MailInv
      <4> QED BY <2>1, <2>7, <4>2 DEF HoldsQueued
    <3> QED BY <3>1 DEF HoldsQueued
  <2>11. FoundFits(j)'
    BY <2>1, <2>3, <2>6, <2>7 DEF FoundFits, Creates
  <2>12. Fits(j)'
    BY <2>8, <2>9, <2>10, <2>11 DEF Fits
  <2> QED BY <1>2, <2>12, OneCallMoves
<1> QED BY <1>1, <1>2 DEF Again

LEMMA QuietStep ==
    ASSUME MailInv, UnchangedTable
    PROVE  TablesInv' /\ TablesEvolve
BY UnchangedEvolves DEF MailInv

-----------------------------------------------------------------------------
(***************************************************************************)
(* The reads.                                                              *)
(***************************************************************************)

LEMMA JobFacts ==
    ASSUME NEW j \in Jobs
    PROVE  /\ Job[j].op \in {"insert", "enqueue", "mark", "patch"}
           /\ Job[j].msg \in Messages
           /\ Job[j].op = "insert" => Mail[Job[j].msg].direction = "in"
           /\ Job[j].op = "enqueue" => Mail[Job[j].msg].direction = "out"
           /\ Job[j].outcome \in {"Sent", "Failed", "ClosedSent", "Unknown", "Released"}
BY MailThreadsAssumption DEF JobAssumption

LEMMA StartsKeeps ==
    ASSUME MailInv, NEW j \in Jobs, Starts(j)
    PROVE  MailInv'
<1> DEFINE s == job[j]
           m == Job[j].msg
           pc == FirstRead[Job[j].op]
           held == IF Job[j].op = "mark" THEN sends[m].version ELSE 0
<1>1. PICK t \in Messages :
         job' = [job EXCEPT ![j].pc = pc, ![j].thread = t, ![j].held = held]
  BY DEF Starts
<1> DEFINE q == [s EXCEPT !.pc = pc, !.thread = t, !.held = held]
<1>2. Fits(j) /\ s.pc = "idle" /\ job = [i \in Jobs |-> job[i]]
  BY DEF Starts, MailInv, JobsFit
<1>3. job' = [job EXCEPT ![j] = q]
  BY <1>1, <1>2
<1>4. IsJob(s)
  BY <1>2 DEF Fits, ReadsFit
<1>5. /\ IsJob(q) /\ q.pc = pc /\ q.taken = s.taken /\ q.held = held /\ q.thread = t
      /\ q.found = s.found /\ q.message = s.message /\ q.before = s.before
  BY <1>4 DEF IsJob, JobFields
<1>6. /\ pc \in {"aliases", "thread", "message"}
      /\ pc = "thread" => Creates(j) /\ Job[j].op # "insert"
      /\ pc = "aliases" => Job[j].op = "insert"
      /\ pc = "message" => ~Creates(j)
  BY JobFacts DEF FirstRead, Creates
<1>7. held \in Nat /\ (Job[j].op = "mark" => m \in DOMAIN sends /\ held = sends[m].version
                                              /\ sends[m].label = "queued")
  BY Versions DEF Starts, MailInv
<1>8. UnchangedTable
  BY DEF Starts
<1> HIDE DEF pc, q, held
<1>9. job'[j] = q
  BY <1>2, <1>3
<1>10. ReadsFit(j)'
  BY <1>2, <1>5, <1>6, <1>7, <1>8, <1>9 DEF Fits, ReadsFit, UnchangedTable, Creates
<1>11. WorksOnMessage(j)'
  BY <1>5, <1>6, <1>9 DEF WorksOnMessage, Creates
<1>12. HoldsQueued(j)'
  BY <1>5, <1>7, <1>8, <1>9 DEF HoldsQueued, UnchangedTable
<1>13. FoundFits(j)'
  BY <1>2, <1>5, <1>6, <1>9 DEF Fits, FoundFits, Creates
<1>14. Fits(j)'
  BY <1>10, <1>11, <1>12, <1>13 DEF Fits
<1> QED BY <1>3, <1>8, <1>14, QuietStep, OneCallMoves

LEMMA ReadsAliasesKeeps ==
    ASSUME MailInv, NEW j \in Jobs, ReadsAliases(j)
    PROVE  MailInv'
<1> DEFINE s == job[j]
           m == Job[j].msg
           found == Read(aliases, ToSet(Candidates[m]))
           t == LookedUpThread(m, found)
           q == [s EXCEPT !.pc = "thread", !.found = found, !.thread = t]
<1>1. UnchangedTable /\ s.pc = "aliases"
         /\ job' = [job EXCEPT ![j].pc = "thread", ![j].found = found, ![j].thread = t]
  BY DEF ReadsAliases
<1>2. Fits(j) /\ job = [i \in Jobs |-> job[i]]
  BY DEF MailInv, JobsFit
<1>3. job' = [job EXCEPT ![j] = q]
  BY <1>1, <1>2
<1>4. IsJob(s)
  BY <1>2 DEF Fits, ReadsFit
<1>5. /\ IsJob(q) /\ q.pc = "thread" /\ q.taken = s.taken /\ q.held = s.held /\ q.thread = t
      /\ q.found = found /\ q.message = s.message /\ q.before = s.before
  BY <1>4 DEF IsJob, JobFields
<1>6. Job[j].op = "insert"
  BY <1>1, <1>2 DEF Fits, ReadsFit
<1>7. \A id \in DOMAIN found : id \in DOMAIN aliases /\ found[id] = aliases[id]
  BY DEF Read
<1> HIDE DEF found, q, t
<1>9. job'[j] = q
  BY <1>2, <1>3
<1>10. ReadsFit(j)'
  BY <1>1, <1>2, <1>5, <1>9 DEF Fits, ReadsFit, UnchangedTable
<1>11. WorksOnMessage(j)'
  BY <1>5, <1>6, <1>9 DEF WorksOnMessage, Creates
<1>12. HoldsQueued(j)'
  BY <1>6 DEF HoldsQueued
<1>13. FoundFits(j)'
  BY <1>1, <1>2, <1>5, <1>7, <1>9 DEF Fits, FoundFits, UnchangedTable, t
<1>14. Fits(j)'
  BY <1>10, <1>11, <1>12, <1>13 DEF Fits
<1> QED BY <1>1, <1>3, <1>14, QuietStep, OneCallMoves

LEMMA ReadsMessageKeeps ==
    ASSUME MailInv, NEW j \in Jobs, ReadsMessage(j)
    PROVE  MailInv'
<1> DEFINE s == job[j]
           m == Job[j].msg
           read == Read(messages, {m})
           t == messages[m].thread
           q == [s EXCEPT !.pc = "thread", !.message = read, !.thread = t]
<1>1. UnchangedTable /\ s.pc = "message"
  BY DEF ReadsMessage
<1>2. Fits(j) /\ job = [i \in Jobs |-> job[i]]
  BY DEF MailInv, JobsFit
<1>3. CASE m \notin DOMAIN messages
  <2>1. Ends(j)
    BY <1>3 DEF ReadsMessage
  <2> QED BY <1>1, <2>1, QuietStep, EndsKeeps
<1>4. CASE m \in DOMAIN messages
  <2>1. job' = [job EXCEPT ![j].pc = "thread", ![j].message = read, ![j].thread = t]
    BY <1>4 DEF ReadsMessage
  <2>2. job' = [job EXCEPT ![j] = q]
    BY <1>2, <2>1
  <2>3. IsJob(s)
    BY <1>2 DEF Fits, ReadsFit
  <2>4. /\ IsJob(q) /\ q.pc = "thread" /\ q.taken = s.taken /\ q.held = s.held /\ q.thread = t
        /\ q.found = s.found /\ q.message = read /\ q.before = s.before
    BY <2>3 DEF IsJob, JobFields
  <2>5. ~Creates(j)
    BY <1>1, <1>2 DEF Fits, ReadsFit
  <2>6. m \in DOMAIN read /\ read[m] = messages[m]
    BY <1>4 DEF Read
  <2>7. messages[m] \in MessageItem(messages[m].thread) /\ messages[m].version \in Nat
    BY <1>4, Versions DEF MailInv, TablesInv, TablesOK
  <2> HIDE DEF q, read, t
  <2>8. job'[j] = q
    BY <1>2, <2>2
  <2>9. ReadsFit(j)'
    BY <1>1, <1>2, <1>4, <2>4, <2>6, <2>7, <2>8 DEF Fits, ReadsFit, UnchangedTable
  <2>10. WorksOnMessage(j)'
    BY <1>1, <2>4, <2>6, <2>8 DEF WorksOnMessage, UnchangedTable, t
  <2>11. HoldsQueued(j)'
    BY <1>1, <1>2, <2>4, <2>8 DEF Fits, HoldsQueued, UnchangedTable
  <2>12. FoundFits(j)'
    BY <2>5 DEF FoundFits, Creates
  <2>13. Fits(j)'
    BY <2>9, <2>10, <2>11, <2>12 DEF Fits
  <2> QED BY <1>1, <2>2, <2>13, QuietStep, OneCallMoves
<1> QED BY <1>3, <1>4

LEMMA ReadsThreadKeeps ==
    ASSUME MailInv, NEW j \in Jobs, ReadsThread(j)
    PROVE  MailInv'
<1> DEFINE s == job[j]
           m == Job[j].msg
           t == s.thread
           read == IF Job[j].op = "mark" /\ ~Relabels(j) THEN <<>> ELSE Read(threads, {t})
           q == [s EXCEPT !.pc = "transact", !.before = read]
<1>1. UnchangedTable /\ s.pc = "thread"
         /\ job' = [job EXCEPT ![j].pc = "transact", ![j].before = read]
  BY DEF ReadsThread
<1>2. Fits(j) /\ job = [i \in Jobs |-> job[i]]
  BY DEF MailInv, JobsFit
<1>3. t \in DOMAIN read => t \in DOMAIN threads /\ read[t] = threads[t]
  BY DEF Read
<1>4. Relabels(j) => t \in DOMAIN read
  <2>1. CASE Relabels(j)
    <3>1. ~Creates(j)
      BY <2>1 DEF Relabels, Creates
    <3>2. m \in DOMAIN s.message /\ t = messages[m].thread
      BY <1>1, <1>2, <3>1 DEF Fits, WorksOnMessage
    <3>3. m \in DOMAIN messages
      BY <1>2, <3>2 DEF Fits, ReadsFit
    <3>4. t \in DOMAIN threads
      BY <3>2, <3>3 DEF MailInv, TablesInv, TablesOK
    <3>5. read = Read(threads, {t})
      BY <2>1
    <3> QED BY <3>4, <3>5 DEF Read
  <2> QED BY <2>1
<1> HIDE DEF read
<1>5. job' = [job EXCEPT ![j] = q]
  BY <1>1, <1>2
<1>6. IsJob(s)
  BY <1>2 DEF Fits, ReadsFit
<1>7. /\ IsJob(q) /\ q.pc = "transact" /\ q.taken = s.taken /\ q.held = s.held /\ q.thread = t
      /\ q.found = s.found /\ q.message = s.message /\ q.before = read
  BY <1>6 DEF IsJob, JobFields
<1>8. t \in DOMAIN threads => threads[t] \in ThreadItem /\ threads[t].version \in Nat
  BY Versions DEF MailInv, TablesInv, ThreadsRollUp, RollsUp
<1> HIDE DEF q
<1>9. job'[j] = q
  BY <1>2, <1>5
<1>10. ReadsFit(j)'
  BY <1>1, <1>2, <1>3, <1>7, <1>8, <1>9 DEF Fits, ReadsFit, UnchangedTable
<1>11. Relabels(j)' <=> Relabels(j)
  BY <1>7, <1>9 DEF Relabels, LabelsAfter
<1>12. WorksOnMessage(j)'
  BY <1>1, <1>2, <1>4, <1>7, <1>9, <1>11 DEF Fits, WorksOnMessage, UnchangedTable, Creates
<1>13. HoldsQueued(j)'
  BY <1>1, <1>2, <1>7, <1>9 DEF Fits, HoldsQueued, UnchangedTable
<1>14. FoundFits(j)'
  BY <1>1, <1>2, <1>7, <1>9 DEF Fits, FoundFits, UnchangedTable
<1>15. Fits(j)'
  BY <1>10, <1>12, <1>13, <1>14 DEF Fits
<1> QED BY <1>1, <1>5, <1>15, QuietStep, OneCallMoves

LEMMA LosesVersionKeeps ==
    ASSUME MailInv, NEW j \in Jobs, NEW decision, LosesVersion(j, decision), job[j].pc = "transact"
    PROVE  MailInv'
<1> DEFINE s == job[j]
           q == [s EXCEPT !.pc = "recheck"]
<1>1. UnchangedTable
  BY DEF LosesVersion
<1>2. Fits(j) /\ job = [i \in Jobs |-> job[i]]
  BY DEF MailInv, JobsFit
<1>3. CASE Job[j].op # "mark"
  <2>1. Again(j, {})
    BY <1>3 DEF LosesVersion
  <2> QED BY <1>1, <2>1, QuietStep, AgainKeeps
<1>4. CASE Job[j].op = "mark"
  <2>1. job' = [job EXCEPT ![j].pc = "recheck"]
    BY <1>4 DEF LosesVersion
  <2>2. job' = [job EXCEPT ![j] = q]
    BY <1>2, <2>1
  <2>3. IsJob(s)
    BY <1>2 DEF Fits, ReadsFit
  <2>4. /\ IsJob(q) /\ q.pc = "recheck" /\ q.held = s.held /\ q.message = s.message
    BY <2>3 DEF IsJob, JobFields
  <2> HIDE DEF q
  <2>5. job'[j] = q
    BY <1>2, <2>2
  <2>6. ReadsFit(j)'
    BY <1>1, <1>2, <2>4, <2>5 DEF Fits, ReadsFit, UnchangedTable
  <2>7. WorksOnMessage(j)'
    BY <2>4, <2>5 DEF WorksOnMessage
  <2>8. HoldsQueued(j)'
    BY <1>1, <1>2, <2>4, <2>5 DEF Fits, HoldsQueued, UnchangedTable
  <2>9. FoundFits(j)'
    BY <1>4 DEF FoundFits
  <2>10. Fits(j)'
    BY <2>6, <2>7, <2>8, <2>9 DEF Fits
  <2> QED BY <1>1, <2>2, <2>10, QuietStep, OneCallMoves
<1> QED BY <1>3, <1>4

\* The steps that only end the call or take another turn.
LEMMA TurnsKeep ==
    ASSUME MailInv, NEW j \in Jobs, UnchangedTable,
           \/ Ends(j)
           \/ Again(j, {}) /\ job[j].pc \notin {"idle", "done"}
    PROVE  MailInv'
<1>1. TablesInv' /\ TablesEvolve
  BY QuietStep
<1>2. CASE Ends(j)
  BY <1>1, <1>2, EndsKeeps
<1>3. CASE Again(j, {}) /\ job[j].pc \notin {"idle", "done"}
  BY <1>1, <1>3, AgainKeeps
<1> QED BY <1>2, <1>3

LEMMA LosesAliasKeeps ==
    ASSUME MailInv, NEW j \in Jobs, NEW decision, LosesAlias(j, decision), job[j].pc = "transact"
    PROVE  MailInv'
<1> DEFINE tk == IF Job[j].op = "insert" THEN {} ELSE AliasesTaken(j)
<1>1. UnchangedTable /\ Again(j, tk)
  BY DEF LosesAlias
<1>2. Job[j].op = "insert" => tk = {}
  OBVIOUS
<1>3. TablesInv' /\ TablesEvolve
  BY <1>1, QuietStep
<1> HIDE DEF tk
<1> QED BY <1>1, <1>2, <1>3, AgainKeeps

-----------------------------------------------------------------------------
(***************************************************************************)
(* The alias rows of a transaction that commits.                           *)
(***************************************************************************)

\* Call j is about to commit and its conditions hold.
Passes(j) == job[j].pc = "transact" /\ MayTransact(j) /\ Decision(j) = "Committed"

LEMMA ConditionsHold ==
    ASSUME NEW j \in Jobs, Passes(j)
    PROVE  MessageUnmoved(j) /\ StateUnmoved(j) /\ ThreadUnmoved(j) /\ AliasesTaken(j) = {}
BY DEF Passes, Decision

\* The ids a call may write rows for.
OwnIds(m) == {Mail[m].rfcId} \cup Mail[m].sesIds

LEMMA RowFacts ==
    ASSUME NEW j \in Jobs, NEW rows, rows = AliasRows(j), NEW id \in DOMAIN rows
    PROVE  /\ rows[id].thread = job[j].thread
           /\ rows[id].msg \in {{}, {Job[j].msg}}
           /\ rows[id].msg # {} => id \in OwnIds(Job[j].msg)
           /\ id \in OwnIds(Job[j].msg) \cup ToSet(Candidates[Job[j].msg])
<1> DEFINE m == Job[j].msg
           found == job[j].found
           real == CASE Job[j].op = "insert" ->
                           {x \in {Mail[m].rfcId} : x \in DOMAIN found => found[x].msg = {}}
                     [] Job[j].op = "enqueue" -> {Mail[m].rfcId}
                     [] Job[j].op = "mark" /\ Job[j].outcome = "Sent" -> Mail[m].sesIds
                     [] OTHER -> {}
           referenced == IF Job[j].op = "insert"
                         THEN ToSet(Candidates[m]) \ ({Mail[m].rfcId} \cup DOMAIN found)
                         ELSE {}
<1>1. rows = [x \in (real \cup referenced) \ job[j].taken |-> AliasRow(j, x \in real)]
  BY DEF AliasRows
<1>2. real \subseteq OwnIds(m)
  BY JobFacts DEF OwnIds
<1>3. referenced \subseteq ToSet(Candidates[m])
  OBVIOUS
<1> HIDE DEF real, referenced
<1>4. id \in real \cup referenced /\ rows[id] = AliasRow(j, id \in real)
  BY <1>1
<1>5. /\ rows[id].thread = job[j].thread
      /\ id \in real => rows[id].msg = {m}
      /\ id \notin real => rows[id].msg = {}
  BY <1>4 DEF AliasRow
<1> QED BY <1>2, <1>3, <1>4, <1>5

LEMMA RowLands ==
    ASSUME NEW j \in Jobs, Passes(j), NEW rows, rows = AliasRows(j), NEW id \in DOMAIN rows,
           id \in DOMAIN aliases
    PROVE  rows[id].msg # {} /\ aliases[id].msg = {}
BY ConditionsHold DEF AliasesTaken, AliasFree

\* plan_insert leaves a row for every reference that no row maps, and none over
\* the rows it found for them.
LEMMA ReferencesGetRows ==
    ASSUME MailInv, NEW j \in Jobs, Job[j].op = "insert", NEW rows, rows = AliasRows(j),
           NEW id \in ToSet(Candidates[Job[j].msg]), id # Mail[Job[j].msg].rfcId
    PROVE  id \in DOMAIN rows <=> id \notin DOMAIN job[j].found
<1>1. job[j].taken = {}
  BY DEF MailInv, JobsFit, Fits, FoundFits
<1>2. Job[j].op # "enqueue" /\ Job[j].op # "mark"
  OBVIOUS
<1> QED BY <1>1, <1>2 DEF AliasRows

LEMMA AliasesEvolve ==
    ASSUME NEW j \in Jobs, Passes(j), aliases' = Over(AliasRows(j), aliases), NEW id \in DOMAIN aliases
    PROVE  /\ id \in DOMAIN aliases'
           /\ aliases'[id].msg = {} => aliases'[id] = aliases[id]
<1> DEFINE rows == AliasRows(j)
<1>0. rows = AliasRows(j) /\ aliases' = Over(rows, aliases)
  OBVIOUS
<1> HIDE DEF rows
<1>1. id \in DOMAIN aliases'
  BY <1>0 DEF Over
<1>2. CASE id \in DOMAIN rows
  <2>1. aliases'[id] = rows[id]
    BY <1>0, <1>2 DEF Over
  <2>2. rows[id].msg # {}
    BY <1>0, <1>2, RowLands
  <2> QED BY <1>1, <2>1, <2>2
<1>3. CASE id \notin DOMAIN rows
  <2>1. aliases'[id] = aliases[id]
    BY <1>0, <1>3 DEF Over
  <2> QED BY <1>1, <2>1
<1> QED BY <1>2, <1>3

\* A message keeps its thread, and the call's message is in the call's thread.
Settles(j) ==
    /\ Job[j].msg \in DOMAIN messages' /\ messages'[Job[j].msg].thread = job[j].thread
    /\ \A k \in DOMAIN messages : k \in DOMAIN messages' /\ messages'[k].thread = messages[k].thread
    /\ DOMAIN messages' \subseteq DOMAIN messages \cup {Job[j].msg}

LEMMA AliasesStayTrue ==
    ASSUME MailInv, NEW j \in Jobs, Passes(j), aliases' = Over(AliasRows(j), aliases), Settles(j)
    PROVE  AliasesAreTrue'
<1> DEFINE rows == AliasRows(j)
<1>0. rows = AliasRows(j) /\ aliases' = Over(rows, aliases)
  OBVIOUS
<1> HIDE DEF rows
<1>1. ASSUME NEW id \in DOMAIN aliases', NEW n \in aliases'[id].msg
      PROVE  /\ n \in DOMAIN messages' /\ id \in OwnIds(n)
             /\ aliases'[id].thread = messages'[n].thread
  <2>1. CASE id \in DOMAIN rows
    <3>1. aliases'[id] = rows[id]
      BY <1>0, <2>1 DEF Over
    <3>2. /\ rows[id].thread = job[j].thread
          /\ rows[id].msg \in {{}, {Job[j].msg}}
          /\ rows[id].msg # {} => id \in OwnIds(Job[j].msg)
      BY <1>0, <2>1, RowFacts
    <3>3. n = Job[j].msg
      BY <1>1, <3>1, <3>2
    <3> QED BY <1>1, <3>1, <3>2, <3>3 DEF Settles
  <2>2. CASE id \notin DOMAIN rows
    <3>1. id \in DOMAIN aliases /\ aliases'[id] = aliases[id]
      BY <1>0, <1>1, <2>2 DEF Over
    <3>2. n \in DOMAIN messages /\ id \in OwnIds(n) /\ aliases[id].thread = messages[n].thread
      BY <1>1, <3>1 DEF MailInv, TablesInv, AliasesAreTrue, OwnIds
    <3> QED BY <3>1, <3>2 DEF Settles
  <2> QED BY <2>1, <2>2
<1> QED BY <1>1 DEF AliasesAreTrue, OwnIds

LEMMA AnswerLookup ==
    ASSUME NEW n, NEW p, NEW found, OnlyAnswers(n, p), Mail[n].rfcId \notin DOMAIN found,
           p \in DOMAIN found
    PROVE  LookedUpThread(n, found) = found[p].thread
<1> DEFINE c == Candidates[n]
           known == {i \in DOMAIN c : c[i] \in DOMAIN found}
<1>1. c = <<Mail[n].rfcId, p>>
  BY DEF OnlyAnswers
<1>2. DOMAIN c = {1, 2} /\ c[1] = Mail[n].rfcId /\ c[2] = p
  BY <1>1
<1> HIDE DEF c
<1>3. known = {2}
  BY <1>2
<1>4. Min({2}) = 2
  BY DEF Min
<1>5. LookedUpThread(n, found) = IF known = {} THEN n ELSE found[c[Min(known)]].thread
  BY DEF LookedUpThread, c
<1> QED BY <1>2, <1>3, <1>4, <1>5

LEMMA AnswerNames ==
    ASSUME NEW n, NEW p, OnlyAnswers(n, p)
    PROVE  p \in ToSet(Candidates[n]) /\ p # Mail[n].rfcId /\ Mail[n].direction = "in"
<1>1. Candidates[n] = <<Mail[n].rfcId, p>>
  BY DEF OnlyAnswers
<1>2. DOMAIN Candidates[n] = {1, 2} /\ Candidates[n][2] = p
  BY <1>1
<1> QED BY <1>2 DEF OnlyAnswers, ToSet

\* A new message that only answers p comes from an insert, which writes a row
\* for p or has found one.
LEMMA NewAnswer ==
    ASSUME MailInv, NEW j \in Jobs, Passes(j), Creates(j), NEW p, OnlyAnswers(Job[j].msg, p),
           NEW rows, rows = AliasRows(j)
    PROVE  /\ p \in DOMAIN rows \/ p \in DOMAIN job[j].found
           /\ \A id \in DOMAIN job[j].found :
                 id \in DOMAIN aliases /\ (aliases[id].msg = {} => job[j].found[id] = aliases[id])
           /\ job[j].thread = LookedUpThread(Job[j].msg, job[j].found)
<1>1. p \in ToSet(Candidates[Job[j].msg]) /\ p # Mail[Job[j].msg].rfcId
         /\ Mail[Job[j].msg].direction = "in"
  BY AnswerNames
<1>2. Job[j].op = "insert"
  BY <1>1, JobFacts DEF Creates
<1>3. p \in DOMAIN rows <=> p \notin DOMAIN job[j].found
  BY <1>1, <1>2, ReferencesGetRows
<1>4. FoundFits(j) /\ job[j].pc = "transact"
  BY DEF MailInv, JobsFit, Fits, Passes
<1> QED BY <1>2, <1>3, <1>4 DEF FoundFits

LEMMA AnswersStayPlaced ==
    ASSUME MailInv, NEW j \in Jobs, Passes(j), aliases' = Over(AliasRows(j), aliases), Settles(j),
           Job[j].msg \notin DOMAIN messages => Creates(j)
    PROVE  AnswersArePlaced'
<1> DEFINE rows == AliasRows(j)
           m == Job[j].msg
<1>0. rows = AliasRows(j) /\ aliases' = Over(rows, aliases)
  OBVIOUS
<1> HIDE DEF rows
<1>1. DOMAIN aliases' = DOMAIN rows \cup DOMAIN aliases
  BY <1>0 DEF Over
<1>2. ASSUME NEW n \in Messages, NEW p \in ToSet(Candidates[n]), OnlyAnswers(n, p)
      PROVE  IF n \in DOMAIN messages' THEN p \in DOMAIN aliases' ELSE Mail[n].rfcId \notin DOMAIN aliases'
  <2>1. IF n \in DOMAIN messages THEN p \in DOMAIN aliases ELSE Mail[n].rfcId \notin DOMAIN aliases
    BY <1>2 DEF MailInv, TablesInv, AnswersArePlaced
  <2>2. CASE n \in DOMAIN messages
    BY <1>1, <2>1, <2>2 DEF Settles
  <2>3. CASE n \notin DOMAIN messages /\ n = m
    <3>1. p \in DOMAIN rows \/ p \in DOMAIN job[j].found
      BY <1>0, <1>2, <2>3, NewAnswer
    <3>2. \A id \in DOMAIN job[j].found : id \in DOMAIN aliases
      BY <1>0, <1>2, <2>3, NewAnswer
    <3> QED BY <1>1, <2>3, <3>1, <3>2 DEF Settles
  <2>4. CASE n \notin DOMAIN messages /\ n # m
    <3>1. n \notin DOMAIN messages'
      BY <2>4 DEF Settles
    <3>2. m \in Messages \ {n}
      BY <2>4, JobFacts
    <3>3. Mail[n].rfcId \notin OwnIds(m) \cup ToSet(Candidates[m])
      BY <1>2, <3>2 DEF OnlyAnswers, OwnIds
    <3>4. \A id \in DOMAIN rows : id \in OwnIds(m) \cup ToSet(Candidates[m])
      BY <1>0, RowFacts
    <3> QED BY <1>1, <2>1, <2>4, <3>1, <3>3, <3>4
  <2> QED BY <2>2, <2>3, <2>4
<1> QED BY <1>2 DEF AnswersArePlaced

LEMMA RepliesStayTogether ==
    ASSUME MailInv, NEW j \in Jobs, Passes(j), aliases' = Over(AliasRows(j), aliases), Settles(j),
           Job[j].msg \notin DOMAIN messages => Creates(j)
    PROVE  RepliesShareThread'
<1> DEFINE rows == AliasRows(j)
           m == Job[j].msg
           found == job[j].found
<1>0. rows = AliasRows(j) /\ aliases' = Over(rows, aliases)
  OBVIOUS
<1> HIDE DEF rows
<1>1. ASSUME NEW p \in DOMAIN aliases', aliases'[p].msg = {}, NEW n \in DOMAIN messages',
             OnlyAnswers(n, p)
      PROVE  messages'[n].thread = aliases'[p].thread
  <2>1. n \in Messages
    BY JobFacts DEF Settles, MailInv, TablesInv, TablesOK
  <2>2. p \in ToSet(Candidates[n])
    BY <1>1, AnswerNames
  <2>3. IF n \in DOMAIN messages THEN p \in DOMAIN aliases ELSE Mail[n].rfcId \notin DOMAIN aliases
    BY <1>1, <2>1, <2>2 DEF MailInv, TablesInv, AnswersArePlaced
  <2>4. p \in DOMAIN aliases => aliases'[p] = aliases[p]
    BY <1>1, AliasesEvolve
  <2>5. CASE n \in DOMAIN messages
    <3>1. p \in DOMAIN aliases /\ aliases[p].msg = {} /\ aliases'[p] = aliases[p]
      BY <1>1, <2>3, <2>4, <2>5
    <3>2. messages[n].thread = aliases[p].thread
      BY <1>1, <2>5, <3>1 DEF MailInv, TablesInv, RepliesShareThread
    <3> QED BY <2>5, <3>1, <3>2 DEF Settles
  <2>6. CASE n \notin DOMAIN messages
    <3>1. n = m /\ Creates(j) /\ messages'[n].thread = job[j].thread
      BY <2>6 DEF Settles
    <3>2. OnlyAnswers(m, p)
      BY <1>1, <3>1
    <3>3. p \in DOMAIN rows \/ p \in DOMAIN found
      BY <1>0, <3>1, <3>2, NewAnswer
    <3>4. \A id \in DOMAIN found :
             id \in DOMAIN aliases /\ (aliases[id].msg = {} => found[id] = aliases[id])
      BY <1>0, <3>1, <3>2, NewAnswer
    <3>5. job[j].thread = LookedUpThread(m, found)
      BY <1>0, <3>1, <3>2, NewAnswer
    <3> HIDE DEF m, found
    <3>6. CASE p \in DOMAIN rows
      <4>1. aliases'[p] = rows[p]
        BY <1>0, <3>6 DEF Over
      <4>2. rows[p].thread = job[j].thread
        BY <1>0, <3>6, RowFacts
      <4> QED BY <3>1, <4>1, <4>2
    <3>7. CASE p \in DOMAIN found
      <4>1. Mail[m].rfcId \notin DOMAIN found
        BY <2>3, <2>6, <3>1, <3>4
      <4>2. LookedUpThread(m, found) = found[p].thread
        BY <3>2, <3>7, <4>1, AnswerLookup
      <4>3. p \in DOMAIN aliases /\ (aliases[p].msg = {} => found[p] = aliases[p])
        BY <3>4, <3>7
      <4>4. aliases'[p] = aliases[p]
        BY <2>4, <4>3
      <4>5. found[p] = aliases[p]
        BY <1>1, <4>3, <4>4
      <4> QED BY <3>1, <3>5, <4>2, <4>4, <4>5
    <3> QED BY <3>3, <3>6, <3>7
  <2> QED BY <2>5, <2>6
<1> QED BY <1>1 DEF RepliesShareThread

-----------------------------------------------------------------------------
(***************************************************************************)
(* An insert or an enqueue commits: a message joins a thread.              *)
(***************************************************************************)

LEMMA UserCount ==
    ASSUME NEW X
    PROVE  Cardinality(X \cap UserLabels) \in Nat
<1>1. IsFiniteSet(X \cap UserLabels)
  BY MailThreadsAssumption, FS_Subset
<1> QED BY <1>1, FS_CardinalityType

LEMMA NoUserLabels ==
    ASSUME NEW X, X \cap UserLabels = {}
    PROVE  Cardinality(X \cap UserLabels) <= MessageUserLabelCap
             /\ Cardinality(X \cap UserLabels) <= ThreadUserLabelCap
BY FS_EmptySet, MailThreadsAssumption

LEMMA WithinCaps ==
    ASSUME NEW labels, NEW thread, ~OverCap(labels, thread)
    PROVE  /\ Cardinality(labels \cap UserLabels) <= MessageUserLabelCap
           /\ Cardinality(thread.labels \cap UserLabels) <= ThreadUserLabelCap
<1>1. Cardinality(labels \cap UserLabels) \in Nat /\ Cardinality(thread.labels \cap UserLabels) \in Nat
  BY UserCount
<1>2. MessageUserLabelCap \in Nat /\ ThreadUserLabelCap \in Nat
  BY MailThreadsAssumption
<1> QED BY <1>1, <1>2 DEF OverCap

\* The condition on the thread item makes what was read what is stored.
LEMMA CreatedThread ==
    ASSUME MailInv, NEW j \in Jobs, Passes(j), Creates(j)
    PROVE  LET t == job[j].thread IN
           ThreadAfter(j) = IF t \in DOMAIN threads THEN ApplyMessage(threads[t], Job[j].msg)
                                                   ELSE NewThread(Job[j].msg)
<1> DEFINE t == job[j].thread
           before == job[j].before
<1>1. IF t \in DOMAIN before
      THEN t \in DOMAIN threads /\ threads[t].version = before[t].version
      ELSE t \notin DOMAIN threads
  BY ConditionsHold DEF ThreadUnmoved, WritesThread
<1>2. CASE t \in DOMAIN before
  <2>1. before[t] = threads[t]
    BY <1>1, <1>2 DEF Passes, MailInv, JobsFit, Fits, ReadsFit
  <2> QED BY <1>1, <1>2, <2>1 DEF ThreadAfter
<1>3. CASE t \notin DOMAIN before
  BY <1>1, <1>3 DEF ThreadAfter
<1> QED BY <1>2, <1>3

LEMMA CreatedMessage ==
    ASSUME NEW j \in Jobs, Passes(j), Creates(j), Writes(j), NEW m, m = Job[j].msg
    PROVE  /\ m \in Messages /\ m \notin DOMAIN messages
           /\ DOMAIN messages' = DOMAIN messages \cup {m}
           /\ messages'[m] = [thread |-> job[j].thread, labels |-> Mail[m].labels, version |-> 0]
           /\ \A k \in DOMAIN messages : messages'[k] = messages[k]
<1> DEFINE item == [thread |-> job[j].thread, labels |-> Mail[m].labels, version |-> 0]
<1>1. m \in Messages /\ m \notin DOMAIN messages
  BY ConditionsHold, JobFacts DEF MessageUnmoved
<1>2. messages' = Over([k \in {m} |-> item], messages)
  BY DEF Writes
<1> HIDE DEF item
<1>3. /\ DOMAIN messages' = DOMAIN messages \cup {m} /\ messages'[m] = item
      /\ \A k \in DOMAIN messages : messages'[k] = messages[k]
  BY <1>1, <1>2 DEF Over
<1> QED BY <1>1, <1>3 DEF item

\* The call writes its thread and leaves the others alone.
LEMMA WrittenThread ==
    ASSUME NEW j \in Jobs, WritesThread(j), Writes(j), NEW t, t = job[j].thread
    PROVE  /\ DOMAIN threads' = DOMAIN threads \cup {t}
           /\ threads'[t] = ThreadAfter(j)
           /\ \A u \in DOMAIN threads \ {t} : threads'[u] = threads[u]
<1> DEFINE th == ThreadAfter(j)
<1>1. threads' = Over([x \in {t} |-> th], threads)
  BY DEF Writes
<1> HIDE DEF th
<1>2. /\ DOMAIN threads' = DOMAIN threads \cup {t} /\ threads'[t] = th
      /\ \A u \in DOMAIN threads \ {t} : threads'[u] = threads[u]
  BY <1>1 DEF Over
<1> QED BY <1>2 DEF th

LEMMA CreatedRollUps ==
    ASSUME MailInv, NEW j \in Jobs, Passes(j), Creates(j), Writes(j)
    PROVE  ThreadsRollUp'
<1> DEFINE m == Job[j].msg
           t == job[j].thread
<1>01. /\ m \in Messages /\ m \notin DOMAIN messages
      /\ DOMAIN messages' = DOMAIN messages \cup {m}
      /\ messages'[m] = [thread |-> t, labels |-> Mail[m].labels, version |-> 0]
      /\ \A k \in DOMAIN messages : messages'[k] = messages[k]
  BY CreatedMessage
<1>02. /\ DOMAIN threads' = DOMAIN threads \cup {t}
      /\ threads'[t] = ThreadAfter(j)
      /\ \A u \in DOMAIN threads \ {t} : threads'[u] = threads[u]
  BY WrittenThread DEF WritesThread
<1>1. Added(messages, messages', m, t) /\ m \in Messages
  BY <1>01 DEF Added
<1>2. IsFiniteSet(DOMAIN messages) /\ DOMAIN messages \subseteq Messages
  BY DEF MailInv, TablesInv, TablesOK
<1>3. \A u \in DOMAIN threads : RollsUp(threads[u], messages, u)
  BY DEF MailInv, TablesInv, ThreadsRollUp
<1>4. threads'[t] = IF t \in DOMAIN threads THEN ApplyMessage(threads[t], m) ELSE NewThread(m)
  <2>1. ThreadAfter(j) = IF t \in DOMAIN threads THEN ApplyMessage(threads[t], m) ELSE NewThread(m)
    BY CreatedThread
  <2> HIDE DEF m, t
  <2> QED BY <1>02, <2>1
<1>5. RollsUp(threads'[t], messages', t)
  <2>1. CASE t \in DOMAIN threads
    <3>1. RollsUp(threads[t], messages, t)
      BY <1>3, <2>1
    <3>2. RollsUp(ApplyMessage(threads[t], m), messages', t)
      BY <1>1, <1>2, <3>1, AddRollsUp
    <3> QED BY <1>4, <2>1, <3>2
  <2>2. CASE t \notin DOMAIN threads
    <3>1. Members(messages, t) = {}
      BY <2>2 DEF Members, MailInv, TablesInv, TablesOK
    <3>2. RollsUp(NewThread(m), messages', t)
      BY <1>1, <1>2, <3>1, NewRollsUp
    <3> QED BY <1>4, <2>2, <3>2
  <2> QED BY <2>1, <2>2
<1>6. ASSUME NEW u \in DOMAIN threads', u # t PROVE RollsUp(threads'[u], messages', u)
  <2>1. u \in DOMAIN threads /\ threads'[u] = threads[u]
    BY <1>02, <1>6
  <2>2. RollsUp(threads[u], messages', u)
    BY <1>1, <1>3, <1>6, <2>1, AddedElsewhere
  <2> QED BY <2>1, <2>2
<1> QED BY <1>5, <1>6 DEF ThreadsRollUp

LEMMA CreatedLabels ==
    ASSUME MailInv, NEW j \in Jobs, Passes(j), Creates(j), Writes(j)
    PROVE  UserLabelsCapped'
<1> DEFINE m == Job[j].msg
           t == job[j].thread
           th == ThreadAfter(j)
<1>1. /\ m \in Messages /\ m \notin DOMAIN messages
      /\ DOMAIN messages' = DOMAIN messages \cup {m}
      /\ messages'[m] = [thread |-> t, labels |-> Mail[m].labels, version |-> 0]
      /\ \A k \in DOMAIN messages : messages'[k] = messages[k]
  BY CreatedMessage
<1>2. /\ DOMAIN threads' = DOMAIN threads \cup {t}
      /\ threads'[t] = th
      /\ \A u \in DOMAIN threads \ {t} : threads'[u] = threads[u]
  BY WrittenThread DEF WritesThread
<1>3. /\ \A k \in DOMAIN messages : Cardinality(messages[k].labels \cap UserLabels) <= MessageUserLabelCap
      /\ \A u \in DOMAIN threads : Cardinality(threads[u].labels \cap UserLabels) <= ThreadUserLabelCap
  BY DEF MailInv, TablesInv, UserLabelsCapped
<1>4. /\ Cardinality(Mail[m].labels \cap UserLabels) <= MessageUserLabelCap
      /\ Cardinality(th.labels \cap UserLabels) <= ThreadUserLabelCap
  <2>1. CASE Job[j].op = "enqueue"
    <3>1. ~OverCap(Mail[m].labels, th)
      BY <2>1 DEF Passes, MayTransact, Refused
    <3> HIDE DEF m, th
    <3> QED BY <3>1, WithinCaps
  <2>2. CASE Job[j].op = "insert"
    <3>1. Mail[m].labels \cap UserLabels = {}
      BY <2>2, JobFacts, MailFacts
    <3>2. th = IF t \in DOMAIN threads THEN ApplyMessage(threads[t], m) ELSE NewThread(m)
      BY CreatedThread
    <3> HIDE DEF th, t, m
    <3>3. CASE t \in DOMAIN threads
      <4>1. th.labels = threads[t].labels \cup Mail[m].labels
        BY <3>2, <3>3 DEF ApplyMessage
      <4>2. th.labels \cap UserLabels = threads[t].labels \cap UserLabels
        BY <3>1, <4>1
      <4> QED BY <1>3, <3>1, <3>3, <4>2, NoUserLabels
    <3>4. CASE t \notin DOMAIN threads
      <4>1. th.labels = Mail[m].labels
        BY <3>2, <3>4 DEF NewThread
      <4> QED BY <3>1, <4>1, NoUserLabels
    <3> QED BY <3>3, <3>4
  <2> QED BY <2>1, <2>2 DEF Creates
<1> HIDE DEF th, t, m
<1>5. \A k \in DOMAIN messages' : Cardinality(messages'[k].labels \cap UserLabels) <= MessageUserLabelCap
  BY <1>1, <1>3, <1>4
<1>6. \A u \in DOMAIN threads' : Cardinality(threads'[u].labels \cap UserLabels) <= ThreadUserLabelCap
  BY <1>2, <1>3, <1>4
<1> QED BY <1>5, <1>6 DEF UserLabelsCapped

LEMMA CreateKeeps ==
    ASSUME MailInv, NEW j \in Jobs, Passes(j), Creates(j), Writes(j)
    PROVE  TablesInv' /\ TablesEvolve
<1> DEFINE m == Job[j].msg
           t == job[j].thread
<1>1. /\ m \in Messages /\ m \notin DOMAIN messages
      /\ DOMAIN messages' = DOMAIN messages \cup {m}
      /\ messages'[m] = [thread |-> t, labels |-> Mail[m].labels, version |-> 0]
      /\ \A k \in DOMAIN messages : messages'[k] = messages[k]
  BY CreatedMessage
<1>2. /\ DOMAIN threads' = DOMAIN threads \cup {t}
      /\ threads'[t] = ThreadAfter(j)
      /\ \A u \in DOMAIN threads \ {t} : threads'[u] = threads[u]
  BY WrittenThread DEF WritesThread
<1>3. aliases' = Over(AliasRows(j), aliases)
  BY DEF Writes
<1>4. Settles(j)
  BY <1>1 DEF Settles
<1>5. /\ DOMAIN messages \subseteq Messages /\ IsFiniteSet(DOMAIN messages)
      /\ \A k \in DOMAIN messages :
            messages[k] \in MessageItem(messages[k].thread) /\ messages[k].thread \in DOMAIN threads
      /\ DOMAIN sends \subseteq DOMAIN messages
      /\ \A k \in DOMAIN sends : sends[k] \in [version : Nat, label : SendLabels]
  BY DEF MailInv, TablesInv, TablesOK
<1>6. \/ Job[j].op = "insert" /\ sends' = sends
      \/ /\ Job[j].op = "enqueue"
         /\ DOMAIN sends' = DOMAIN sends \cup {m} /\ sends'[m] = [version |-> 0, label |-> "queued"]
         /\ \A k \in DOMAIN sends : sends'[k] = sends[k]
  <2>1. CASE Job[j].op = "insert"
    BY <2>1 DEF Writes
  <2>2. CASE Job[j].op = "enqueue"
    <3>1. sends' = Over([k \in {m} |-> [version |-> 0, label |-> "queued"]], sends)
      BY <2>2 DEF Writes
    <3>2. m \notin DOMAIN sends
      BY <1>1, <1>5
    <3> HIDE DEF m
    <3> QED BY <2>2, <3>1, <3>2 DEF Over
  <2> QED BY <2>1, <2>2 DEF Creates
<1>7. m \notin DOMAIN sends /\ Mail[m].labels \subseteq Labels
         /\ (Job[j].op = "enqueue" => "queued" \in Mail[m].labels)
  BY <1>1, <1>5, JobFacts, MailFacts
<1> HIDE DEF m, t
<1>8. TablesOK'
  <2>1. DOMAIN messages' \subseteq Messages /\ IsFiniteSet(DOMAIN messages')
    BY <1>1, <1>5, FS_AddElement
  <2>2. \A k \in DOMAIN messages' :
           messages'[k] \in MessageItem(messages'[k].thread) /\ messages'[k].thread \in DOMAIN threads'
    BY <1>1, <1>2, <1>5, <1>7 DEF MessageItem
  <2>3. DOMAIN sends' \subseteq DOMAIN messages'
    BY <1>1, <1>5, <1>6
  <2>4. \A k \in DOMAIN sends' : sends'[k] \in [version : Nat, label : SendLabels]
    BY <1>5, <1>6 DEF SendLabels
  <2> QED BY <2>1, <2>2, <2>3, <2>4 DEF TablesOK
<1>9. SendLabelFollows'
  <2>1. \A k \in DOMAIN sends :
           /\ sends[k].label \in messages[k].labels
           /\ "queued" \in messages[k].labels <=> sends[k].label = "queued"
    BY DEF MailInv, TablesInv, SendLabelFollows
  <2>2. \A k \in DOMAIN sends : sends'[k] = sends[k] /\ messages'[k] = messages[k]
    BY <1>1, <1>5, <1>6
  <2>3. Job[j].op = "enqueue" => sends'[m].label = "queued" /\ "queued" \in messages'[m].labels
    BY <1>1, <1>6, <1>7
  <2> QED BY <1>6, <2>1, <2>2, <2>3 DEF SendLabelFollows
<1>10. TablesEvolve
  <2>1. \A k \in DOMAIN messages :
           /\ k \in DOMAIN messages' /\ messages'[k] = messages[k]
           /\ messages[k].version <= messages[k].version
    BY <1>1, Versions DEF MailInv
  <2>2. \A u \in DOMAIN threads :
           /\ u \in DOMAIN threads'
           /\ threads[u].version <= threads'[u].version
           /\ threads'[u].version = threads[u].version => threads'[u] = threads[u]
    <3>1. \A u \in DOMAIN threads : threads[u].version \in Nat
      BY Versions DEF MailInv
    <3>2. t \in DOMAIN threads => threads'[t].version = threads[t].version + 1
      <4>1. CASE t \in DOMAIN threads
        <5>1. ThreadAfter(j) = ApplyMessage(threads[t], Job[j].msg)
          BY <4>1, CreatedThread DEF t
        <5> QED BY <1>2, <5>1 DEF ApplyMessage
      <4> QED BY <4>1
    <3> QED BY <1>2, <3>1, <3>2
  <2>3. \A id \in DOMAIN aliases :
           id \in DOMAIN aliases' /\ (aliases'[id].msg = {} => aliases'[id] = aliases[id])
    BY <1>3, AliasesEvolve
  <2>4. \A k \in DOMAIN sends :
           k \in DOMAIN sends' /\ sends'[k] = sends[k] /\ sends[k].version <= sends[k].version
    BY <1>6, Versions DEF MailInv
  <2> QED BY <2>1, <2>2, <2>3, <2>4 DEF TablesEvolve
<1>11. ThreadsRollUp' /\ UserLabelsCapped'
  BY CreatedRollUps, CreatedLabels
<1>12. AliasesAreTrue'
  BY <1>3, <1>4, AliasesStayTrue
<1>13. AnswersArePlaced'
  BY <1>3, <1>4, AnswersStayPlaced
<1>14. RepliesShareThread'
  BY <1>3, <1>4, RepliesStayTogether
<1> QED BY <1>8, <1>9, <1>10, <1>11, <1>12, <1>13, <1>14 DEF TablesInv

-----------------------------------------------------------------------------
(***************************************************************************)
(* A mark or a patch commits: the labels of a message change.              *)
(***************************************************************************)

\* LabelsAfter, from the labels that the message had.
Relabelling(j, labels) ==
    IF Job[j].op = "patch"
    THEN (labels \cup Job[j].add) \ Job[j].remove
    ELSE CASE Job[j].outcome \in {"Sent", "ClosedSent"} -> (labels \ {"queued"}) \cup {"sent"}
           [] Job[j].outcome = "Failed" -> (labels \ {"queued"}) \cup {"rejected"}
           [] OTHER -> labels

LEMMA PatchFacts ==
    ASSUME NEW j \in Jobs
    PROVE  /\ Job[j].add \subseteq Labels
           /\ "queued" \notin Job[j].add
           /\ Job[j].remove \cap SendLabels = {}
<1>1. /\ Job[j].add \cup Job[j].remove \subseteq UserLabels \cup {"unread"} \cup DeliveryLabels
      /\ Job[j].remove \cap DeliveryLabels = {}
      /\ UserLabels \cap SystemLabels = {}
  BY MailThreadsAssumption DEF JobAssumption
<1> QED BY <1>1 DEF DeliveryLabels, SendLabels, SystemLabels, Labels

LEMMA RelabellingFacts ==
    ASSUME NEW j \in Jobs, ~Creates(j), NEW labels \in SUBSET Labels, NEW L,
           L = Relabelling(j, labels)
    PROVE  /\ L \in SUBSET Labels
           /\ Job[j].op = "patch" => \A l \in SendLabels : l \in labels => l \in L
           /\ Job[j].op = "patch" => ("queued" \in L <=> "queued" \in labels)
           /\ Job[j].op = "mark" =>
                 /\ L \cap UserLabels = labels \cap UserLabels
                 /\ L \ labels \subseteq SystemLabels /\ labels \ L \subseteq SystemLabels
<1>1. Job[j].op \in {"mark", "patch"}
  BY JobFacts DEF Creates
<1>2. CASE Job[j].op = "patch"
  <2>1. L = (labels \cup Job[j].add) \ Job[j].remove
    BY <1>2 DEF Relabelling
  <2> QED BY <1>2, <2>1, PatchFacts DEF SendLabels
<1>3. CASE Job[j].op = "mark"
  <2>1. \/ L = labels \/ L = (labels \ {"queued"}) \cup {"sent"}
        \/ L = (labels \ {"queued"}) \cup {"rejected"}
    BY <1>3 DEF Relabelling
  <2>2. {"queued", "sent", "rejected"} \subseteq SystemLabels /\ SystemLabels \subseteq Labels
           /\ UserLabels \cap SystemLabels = {}
    BY MailThreadsAssumption DEF SystemLabels, SendLabels, Labels
  <2> QED BY <1>3, <2>1, <2>2
<1> QED BY <1>1, <1>2, <1>3

\* The version condition makes the labels that were read those that are stored.
LEMMA MarkedMessage ==
    ASSUME MailInv, NEW j \in Jobs, Passes(j), ~Creates(j), NEW m, m = Job[j].msg
    PROVE  /\ m \in Messages /\ m \in DOMAIN messages
           /\ job[j].message[m] = messages[m] /\ job[j].thread = messages[m].thread
           /\ LabelsAfter(j) = Relabelling(j, messages[m].labels)
<1>1. Fits(j) /\ job[j].pc = "transact"
  BY DEF MailInv, JobsFit, Passes
<1>2. m \in DOMAIN job[j].message /\ job[j].thread = messages[m].thread
  BY <1>1 DEF Fits, WorksOnMessage
<1>3. messages[m].version = job[j].message[m].version
  BY ConditionsHold DEF MessageUnmoved
<1>4. m \in DOMAIN messages /\ job[j].message[m] = messages[m]
  BY <1>1, <1>2, <1>3 DEF Fits, ReadsFit
<1>5. LabelsAfter(j) = Relabelling(j, messages[m].labels)
  BY <1>4 DEF LabelsAfter, Relabelling
<1> QED BY <1>2, <1>4, <1>5, JobFacts

LEMMA MarkedItems ==
    ASSUME MailInv, NEW j \in Jobs, Passes(j), ~Creates(j), Writes(j), NEW m, m = Job[j].msg
    PROVE  /\ DOMAIN messages' = DOMAIN messages
           /\ messages'[m].thread = messages[m].thread /\ messages'[m].labels = LabelsAfter(j)
           /\ messages'[m].version = messages[m].version + 1
           /\ messages'[m] \in MessageItem(messages[m].thread)
           /\ \A k \in DOMAIN messages \ {m} : messages'[k] = messages[k]
<1> DEFINE L == LabelsAfter(j)
<1>1. m \in DOMAIN messages /\ L = Relabelling(j, messages[m].labels)
  BY MarkedMessage
<1>2. messages[m] \in MessageItem(messages[m].thread)
  BY <1>1 DEF MailInv, TablesInv, TablesOK
<1>3. messages[m].labels \in SUBSET Labels
  BY <1>2 DEF MessageItem
<1>4. L \in SUBSET Labels
  BY <1>1, <1>3, RelabellingFacts
<1>5. PICK v \in Nat : v = messages[m].version + 1
  BY <1>2 DEF MessageItem
<1> DEFINE item == [messages[m] EXCEPT !.labels = L, !.version = v]
<1>6. messages' = Over([k \in {m} |-> item], messages)
  BY <1>5 DEF Writes
<1> HIDE DEF L
<1>7. /\ item.thread = messages[m].thread /\ item.labels = L /\ item.version = v
      /\ item \in MessageItem(messages[m].thread)
  BY <1>2, <1>4 DEF MessageItem
<1> HIDE DEF item
<1>8. /\ DOMAIN messages' = DOMAIN messages /\ messages'[m] = item
      /\ \A k \in DOMAIN messages \ {m} : messages'[k] = messages[k]
  BY <1>1, <1>6 DEF Over
<1> QED BY <1>5, <1>7, <1>8 DEF L

\* The condition on the thread makes what was read what is stored; a mark that
\* changes no label leaves the thread alone.
LEMMA MarkedThread ==
    ASSUME MailInv, NEW j \in Jobs, Passes(j), Relabels(j), NEW m, m = Job[j].msg,
           NEW t, t = job[j].thread
    PROVE  /\ t \in DOMAIN threads
           /\ ThreadAfter(j) = ApplyLabelPatch(threads[t], LabelsAfter(j) \ messages[m].labels,
                                                           messages[m].labels \ LabelsAfter(j))
<1>0. ~Creates(j)
  BY DEF Relabels, Creates
<1>1. Fits(j) /\ job[j].pc = "transact"
  BY DEF MailInv, JobsFit, Passes
<1>2. t \in DOMAIN job[j].before
  BY <1>1 DEF Fits, WorksOnMessage
<1>3. t \in DOMAIN threads /\ threads[t].version = job[j].before[t].version
  BY <1>2, ConditionsHold DEF ThreadUnmoved, WritesThread
<1>4. job[j].before[t] = threads[t]
  BY <1>1, <1>2, <1>3 DEF Fits, ReadsFit
<1>5. job[j].message[m] = messages[m]
  BY <1>0, MarkedMessage
<1>6. ThreadAfter(j) = ApplyLabelPatch(job[j].before[t],
                          LabelsAfter(j) \ job[j].message[m].labels,
                          job[j].message[m].labels \ LabelsAfter(j))
  BY <1>0 DEF ThreadAfter
<1> QED BY <1>3, <1>4, <1>5, <1>6

LEMMA MarkedRollUps ==
    ASSUME MailInv, NEW j \in Jobs, Passes(j), ~Creates(j), Writes(j)
    PROVE  ThreadsRollUp'
<1> DEFINE m == Job[j].msg
           t == job[j].thread
           L == LabelsAfter(j)
<1>1. /\ m \in Messages /\ m \in DOMAIN messages
      /\ job[j].message[m] = messages[m] /\ t = messages[m].thread
      /\ L = Relabelling(j, messages[m].labels)
  BY MarkedMessage
<1>2. /\ DOMAIN messages' = DOMAIN messages
      /\ messages'[m].thread = messages[m].thread /\ messages'[m].labels = L
      /\ messages'[m] \in MessageItem(messages[m].thread)
      /\ \A k \in DOMAIN messages \ {m} : messages'[k] = messages[k]
  BY MarkedItems
<1>3. Relabelled(messages, messages', m, t, L)
  BY <1>1, <1>2 DEF Relabelled
<1>4. \A u \in DOMAIN threads : RollsUp(threads[u], messages, u)
  BY DEF MailInv, TablesInv, ThreadsRollUp
<1>5. CASE ~Relabels(j)
  <2>1. L = messages[m].labels
    BY <1>1, <1>5, JobFacts DEF Relabels, Creates
  <2>2. threads' = threads
    BY <1>5 DEF Writes, WritesThread
  <2>3. \A u \in DOMAIN threads : RollsUp(threads[u], messages', u)
    BY <1>3, <1>4, <2>1, RelabelledElsewhere
  <2> QED BY <2>2, <2>3 DEF ThreadsRollUp
<1>6. CASE Relabels(j)
  <2>1. /\ DOMAIN threads' = DOMAIN threads \cup {t}
        /\ threads'[t] = ThreadAfter(j)
        /\ \A u \in DOMAIN threads \ {t} : threads'[u] = threads[u]
    BY <1>6, WrittenThread DEF WritesThread
  <2>2. /\ t \in DOMAIN threads
        /\ ThreadAfter(j) = ApplyLabelPatch(threads[t], L \ messages[m].labels, messages[m].labels \ L)
    BY <1>6, MarkedThread
  <2>3. messages[m].labels \in SUBSET Labels /\ L \in SUBSET Labels
    BY <1>1, <1>2 DEF MailInv, TablesInv, TablesOK, MessageItem
  <2>4. IsFiniteSet(DOMAIN messages)
    BY DEF MailInv, TablesInv, TablesOK
  <2>5. RollsUp(threads[t], messages, t)
    BY <1>4, <2>2
  <2> HIDE DEF m, t, L
  <2>6. RollsUp(ApplyLabelPatch(threads[t], L \ messages[m].labels, messages[m].labels \ L), messages', t)
    BY <1>1, <1>3, <2>3, <2>4, <2>5, PatchRollsUp
  <2>7. RollsUp(threads'[t], messages', t)
    BY <2>1, <2>2, <2>6
  <2>8. ASSUME NEW u \in DOMAIN threads', u # t PROVE RollsUp(threads'[u], messages', u)
    <3>1. u \in DOMAIN threads /\ threads'[u] = threads[u]
      BY <2>1, <2>8
    <3>2. RollsUp(threads[u], messages', u)
      BY <1>3, <1>4, <2>8, <3>1, RelabelledElsewhere
    <3> QED BY <3>1, <3>2
  <2> QED BY <2>7, <2>8 DEF ThreadsRollUp
<1> QED BY <1>5, <1>6

LEMMA SystemPatch ==
    ASSUME NEW th \in ThreadItem, NEW a, NEW r, a \subseteq SystemLabels, r \subseteq SystemLabels
    PROVE  ApplyLabelPatch(th, a, r).labels \cap UserLabels = th.labels \cap UserLabels
<1> DEFINE Counted(l) == th.labelCounts[l] + IF l \in a THEN 1 ELSE 0
           gone == {l \in r : Counted(l) = 1}
<1>1. ApplyLabelPatch(th, a, r).labels = (th.labels \cup a) \ gone
  BY DEF ApplyLabelPatch, ThreadItem
<1>2. gone \subseteq r
  OBVIOUS
<1>3. UserLabels \cap SystemLabels = {}
  BY MailThreadsAssumption
<1> HIDE DEF gone
<1> QED BY <1>1, <1>2, <1>3

LEMMA PatchVersion ==
    ASSUME NEW th \in ThreadItem, NEW a, NEW r
    PROVE  ApplyLabelPatch(th, a, r).version = th.version + 1
BY DEF ApplyLabelPatch, ThreadItem

LEMMA MarkedLabels ==
    ASSUME MailInv, NEW j \in Jobs, Passes(j), ~Creates(j), Writes(j)
    PROVE  UserLabelsCapped'
<1> DEFINE m == Job[j].msg
           t == job[j].thread
           L == LabelsAfter(j)
           th == ThreadAfter(j)
<1>1. /\ m \in Messages /\ m \in DOMAIN messages
      /\ job[j].message[m] = messages[m] /\ t = messages[m].thread
      /\ L = Relabelling(j, messages[m].labels)
  BY MarkedMessage
<1>2. /\ DOMAIN messages' = DOMAIN messages /\ messages'[m].labels = L
      /\ \A k \in DOMAIN messages \ {m} : messages'[k] = messages[k]
  BY MarkedItems
<1>3. /\ \A k \in DOMAIN messages : Cardinality(messages[k].labels \cap UserLabels) <= MessageUserLabelCap
      /\ \A u \in DOMAIN threads : Cardinality(threads[u].labels \cap UserLabels) <= ThreadUserLabelCap
  BY DEF MailInv, TablesInv, UserLabelsCapped
<1>4. messages[m].labels \in SUBSET Labels
  BY <1>1 DEF MailInv, TablesInv, TablesOK, MessageItem
<1>5. /\ Cardinality(L \cap UserLabels) <= MessageUserLabelCap
      /\ Relabels(j) => Cardinality(th.labels \cap UserLabels) <= ThreadUserLabelCap
  <2>1. CASE Job[j].op = "patch"
    <3>1. ~OverCap(L, th)
      BY <2>1 DEF Passes, MayTransact, Refused
    <3> HIDE DEF L, th
    <3> QED BY <3>1, WithinCaps
  <2>2. CASE Job[j].op = "mark"
    <3>1. /\ L \cap UserLabels = messages[m].labels \cap UserLabels
          /\ L \ messages[m].labels \subseteq SystemLabels /\ messages[m].labels \ L \subseteq SystemLabels
      BY <1>1, <1>4, <2>2, RelabellingFacts
    <3>2. CASE Relabels(j)
      <4>1. /\ t \in DOMAIN threads
            /\ th = ApplyLabelPatch(threads[t], L \ messages[m].labels, messages[m].labels \ L)
        BY <3>2, MarkedThread
      <4>2. threads[t] \in ThreadItem
        BY <4>1 DEF MailInv, TablesInv, ThreadsRollUp, RollsUp
      <4> HIDE DEF L, th, m, t
      <4>3. th.labels \cap UserLabels = threads[t].labels \cap UserLabels
        BY <3>1, <4>1, <4>2, SystemPatch
      <4> QED BY <1>1, <1>3, <3>1, <4>1, <4>3
    <3> QED BY <1>1, <1>3, <3>1, <3>2
  <2> QED BY <2>1, <2>2, JobFacts DEF Creates
<1>6. \/ threads' = threads
      \/ /\ Relabels(j) /\ DOMAIN threads' = DOMAIN threads \cup {t}
         /\ threads'[t] = th
         /\ \A u \in DOMAIN threads \ {t} : threads'[u] = threads[u]
  <2>1. CASE Relabels(j)
    BY <2>1, WrittenThread DEF WritesThread
  <2>2. CASE ~Relabels(j)
    BY <2>2 DEF Writes, WritesThread
  <2> QED BY <2>1, <2>2
<1> HIDE DEF L, th, m, t
<1>7. \A k \in DOMAIN messages' : Cardinality(messages'[k].labels \cap UserLabels) <= MessageUserLabelCap
  BY <1>2, <1>3, <1>5
<1>8. \A u \in DOMAIN threads' : Cardinality(threads'[u].labels \cap UserLabels) <= ThreadUserLabelCap
  BY <1>3, <1>5, <1>6
<1> QED BY <1>7, <1>8 DEF UserLabelsCapped

\* What a mark says of the send is what it writes on the message.
LEMMA MarkedSends ==
    ASSUME MailInv, NEW j \in Jobs, Passes(j), ~Creates(j), Writes(j)
    PROVE  /\ DOMAIN sends' = DOMAIN sends
           /\ \A k \in DOMAIN sends :
                 /\ sends'[k] \in [version : Nat, label : SendLabels]
                 /\ sends[k].version <= sends'[k].version
                 /\ sends'[k].version = sends[k].version => sends'[k] = sends[k]
                 /\ sends'[k].label \in messages'[k].labels
                 /\ "queued" \in messages'[k].labels <=> sends'[k].label = "queued"
<1> DEFINE m == Job[j].msg
           L == LabelsAfter(j)
<1>1. /\ m \in DOMAIN messages /\ L = Relabelling(j, messages[m].labels)
  BY MarkedMessage
<1>2. /\ messages'[m].labels = L
      /\ \A k \in DOMAIN messages \ {m} : messages'[k] = messages[k]
  BY MarkedItems
<1>3. \A k \in DOMAIN sends :
         /\ k \in DOMAIN messages
         /\ sends[k] \in [version : Nat, label : SendLabels]
         /\ sends[k].label \in messages[k].labels
         /\ "queued" \in messages[k].labels <=> sends[k].label = "queued"
  BY DEF MailInv, TablesInv, TablesOK, SendLabelFollows
<1>4. messages[m].labels \in SUBSET Labels
  BY <1>1 DEF MailInv, TablesInv, TablesOK, MessageItem
<1>5. CASE Job[j].op = "patch"
  <2>1. sends' = sends
    BY <1>5 DEF Writes
  <2>2. /\ \A l \in SendLabels : l \in messages[m].labels => l \in L
        /\ "queued" \in L <=> "queued" \in messages[m].labels
    BY <1>1, <1>4, <1>5, RelabellingFacts
  <2> HIDE DEF m, L
  <2> QED BY <1>2, <1>3, <2>1, <2>2
<1>6. CASE Job[j].op = "mark"
  <2> DEFINE label == CASE Job[j].outcome \in {"Sent", "ClosedSent"} -> "sent"
                        [] Job[j].outcome = "Failed" -> "rejected"
                        [] OTHER -> "queued"
  <2>1. /\ m \in DOMAIN sends /\ sends[m].label = "queued"
    BY <1>6, ConditionsHold DEF StateUnmoved, MailInv, JobsFit, Fits, HoldsQueued, Passes
  <2>2. PICK v \in Nat : v = sends[m].version + 1
    BY <1>3, <2>1
  <2>3. sends' = [sends EXCEPT ![m] = [version |-> v, label |-> label]]
    BY <1>6, <2>2 DEF Writes
  <2>4. /\ label \in SendLabels /\ label \in L /\ ("queued" \in L <=> label = "queued")
    <3>1. "queued" \in messages[m].labels
      BY <1>3, <2>1
    <3>2. \/ label = "queued" /\ L = messages[m].labels
          \/ label = "sent" /\ L = (messages[m].labels \ {"queued"}) \cup {"sent"}
          \/ label = "rejected" /\ L = (messages[m].labels \ {"queued"}) \cup {"rejected"}
      <4> HIDE DEF L, m
      <4> QED BY <1>1, <1>6, JobFacts DEF Relabelling
    <3> HIDE DEF L, label
    <3> QED BY <3>1, <3>2 DEF SendLabels
  <2> HIDE DEF m, L, label
  <2>5. DOMAIN sends' = DOMAIN sends /\ sends'[m] = [version |-> v, label |-> label]
          /\ \A k \in DOMAIN sends \ {m} : sends'[k] = sends[k]
    BY <2>1, <2>3
  <2>6. sends[m].version \in Nat
    BY <1>3, <2>1
  <2>7. \A k \in DOMAIN sends : sends[k].version \in Nat
    BY <1>3
  <2> QED BY <1>2, <1>3, <2>2, <2>4, <2>5, <2>6, <2>7
<1> QED BY <1>5, <1>6, JobFacts DEF Creates

LEMMA MarkKeeps ==
    ASSUME MailInv, NEW j \in Jobs, Passes(j), ~Creates(j), Writes(j)
    PROVE  TablesInv' /\ TablesEvolve
<1> DEFINE m == Job[j].msg
           t == job[j].thread
<1>1. /\ m \in DOMAIN messages /\ t = messages[m].thread
  BY MarkedMessage
<1>2. /\ DOMAIN messages' = DOMAIN messages
      /\ messages'[m].thread = messages[m].thread
      /\ messages'[m].version = messages[m].version + 1
      /\ messages'[m] \in MessageItem(messages[m].thread)
      /\ \A k \in DOMAIN messages \ {m} : messages'[k] = messages[k]
  BY MarkedItems
<1>3. aliases' = Over(AliasRows(j), aliases)
  BY DEF Writes
<1>4. Settles(j)
  BY <1>1, <1>2 DEF Settles
<1>5. /\ DOMAIN messages \subseteq Messages /\ IsFiniteSet(DOMAIN messages)
      /\ \A k \in DOMAIN messages :
            messages[k] \in MessageItem(messages[k].thread) /\ messages[k].thread \in DOMAIN threads
      /\ DOMAIN sends \subseteq DOMAIN messages
  BY DEF MailInv, TablesInv, TablesOK
<1>6. /\ DOMAIN sends' = DOMAIN sends
      /\ \A k \in DOMAIN sends :
            /\ sends'[k] \in [version : Nat, label : SendLabels]
            /\ sends[k].version <= sends'[k].version
            /\ sends'[k].version = sends[k].version => sends'[k] = sends[k]
            /\ sends'[k].label \in messages'[k].labels
            /\ "queued" \in messages'[k].labels <=> sends'[k].label = "queued"
  BY MarkedSends
<1>7. SendLabelFollows'
  BY <1>6 DEF SendLabelFollows
<1>8. /\ DOMAIN threads' = DOMAIN threads
      /\ \A u \in DOMAIN threads :
            /\ threads[u].version <= threads'[u].version
            /\ threads'[u].version = threads[u].version => threads'[u] = threads[u]
  <2>1. \A u \in DOMAIN threads : threads[u].version \in Nat
    BY Versions DEF MailInv
  <2>2. CASE ~Relabels(j)
    <3>1. threads' = threads
      BY <2>2 DEF Writes, WritesThread
    <3> QED BY <2>1, <3>1
  <2>3. CASE Relabels(j)
    <3>1. /\ DOMAIN threads' = DOMAIN threads \cup {t}
          /\ threads'[t] = ThreadAfter(j)
          /\ \A u \in DOMAIN threads \ {t} : threads'[u] = threads[u]
      BY <2>3, WrittenThread DEF WritesThread
    <3>2. /\ t \in DOMAIN threads
          /\ ThreadAfter(j) = ApplyLabelPatch(threads[t], LabelsAfter(j) \ messages[m].labels,
                                                          messages[m].labels \ LabelsAfter(j))
      BY <2>3, MarkedThread
    <3>3. threads[t] \in ThreadItem
      BY <3>2 DEF MailInv, TablesInv, ThreadsRollUp, RollsUp
    <3> HIDE DEF m, t
    <3>4. threads'[t].version = threads[t].version + 1
      BY <3>1, <3>2, <3>3, PatchVersion
    <3>5. DOMAIN threads' = DOMAIN threads
      BY <3>1, <3>2
    <3>6. ASSUME NEW u \in DOMAIN threads
          PROVE  /\ threads[u].version <= threads'[u].version
                 /\ threads'[u].version = threads[u].version => threads'[u] = threads[u]
      <4>1. threads[u].version \in Nat
        BY <2>1
      <4>2. CASE u = t
        BY <3>4, <4>1, <4>2
      <4>3. CASE u # t
        BY <3>1, <4>1, <4>3
      <4> QED BY <4>2, <4>3
    <3> QED BY <3>5, <3>6
  <2> QED BY <2>2, <2>3
<1> HIDE DEF m, t
<1>9. TablesOK'
  <2>1. \A k \in DOMAIN messages' :
           messages'[k] \in MessageItem(messages'[k].thread) /\ messages'[k].thread \in DOMAIN threads'
    BY <1>2, <1>5, <1>8
  <2> QED BY <1>2, <1>5, <1>6, <2>1 DEF TablesOK
<1>10. TablesEvolve
  <2>1. \A k \in DOMAIN messages :
           /\ k \in DOMAIN messages' /\ messages'[k].thread = messages[k].thread
           /\ messages[k].version <= messages'[k].version
           /\ messages'[k].version = messages[k].version => messages'[k] = messages[k]
    <3>1. \A k \in DOMAIN messages : messages[k].version \in Nat
      BY Versions DEF MailInv
    <3> QED BY <1>2, <3>1
  <2>2. \A id \in DOMAIN aliases :
           id \in DOMAIN aliases' /\ (aliases'[id].msg = {} => aliases'[id] = aliases[id])
    BY <1>3, AliasesEvolve
  <2> QED BY <1>6, <1>8, <2>1, <2>2 DEF TablesEvolve
<1>11. ThreadsRollUp' /\ UserLabelsCapped'
  BY MarkedRollUps, MarkedLabels
<1>12. Job[j].msg \in DOMAIN messages
  BY <1>1 DEF m
<1>13. AliasesAreTrue'
  BY <1>3, <1>4, AliasesStayTrue
<1>14. AnswersArePlaced'
  BY <1>3, <1>4, <1>12, AnswersStayPlaced
<1>15. RepliesShareThread'
  BY <1>3, <1>4, <1>12, RepliesStayTogether
<1> QED BY <1>7, <1>9, <1>10, <1>11, <1>13, <1>14, <1>15 DEF TablesInv

LEMMA TransactsKeeps ==
    ASSUME MailInv, NEW j \in Jobs, Transacts(j)
    PROVE  MailInv'
<1> DEFINE decision == Decision(j)
<1>1. /\ job[j].pc = "transact" /\ MayTransact(j)
      /\ \/ Commits(j, decision) \/ CommitsUnseen(j, decision) \/ FindsDuplicate(j, decision)
         \/ Throttled(j, decision) \/ LosesVersion(j, decision) \/ LosesAlias(j, decision)
  BY DEF Transacts
<1>2. ASSUME decision = "Committed", Writes(j) PROVE TablesInv' /\ TablesEvolve
  <2>1. Passes(j)
    BY <1>1, <1>2 DEF Passes
  <2> QED BY <1>2, <2>1, CreateKeeps, MarkKeeps
<1> HIDE DEF decision
<1>3. CASE Commits(j, decision)
  <2>1. TablesInv' /\ TablesEvolve /\ Ends(j)
    BY <1>2, <1>3 DEF Commits
  <2> QED BY <2>1, EndsKeeps
<1>4. CASE CommitsUnseen(j, decision)
  <2>1. TablesInv' /\ TablesEvolve /\ Again(j, {}) /\ job[j].pc \notin {"idle", "done"}
    BY <1>1, <1>2, <1>4 DEF CommitsUnseen
  <2> QED BY <2>1, AgainKeeps
<1>5. CASE FindsDuplicate(j, decision)
  BY <1>5, TurnsKeep DEF FindsDuplicate
<1>6. CASE Throttled(j, decision)
  BY <1>1, <1>6, TurnsKeep DEF Throttled
<1>7. CASE LosesVersion(j, decision)
  BY <1>1, <1>7, LosesVersionKeeps
<1>8. CASE LosesAlias(j, decision)
  BY <1>1, <1>8, LosesAliasKeeps
<1> QED BY <1>1, <1>3, <1>4, <1>5, <1>6, <1>7, <1>8

-----------------------------------------------------------------------------
(***************************************************************************)
(* The invariant holds for ever, and what it says of the mailbox.          *)
(***************************************************************************)

LEMMA MailStarts == Init => MailInv
<1> SUFFICES ASSUME Init PROVE MailInv
  OBVIOUS
<1>1. /\ DOMAIN messages = {} /\ DOMAIN threads = {} /\ DOMAIN aliases = {} /\ DOMAIN sends = {}
      /\ job = [j \in Jobs |-> Idle]
  BY DEF Init
<1>2. TablesInv
  <2>1. TablesOK
    BY <1>1, FS_EmptySet DEF TablesOK
  <2>2. ThreadsRollUp /\ UserLabelsCapped /\ SendLabelFollows /\ AliasesAreTrue /\ RepliesShareThread
    BY <1>1 DEF ThreadsRollUp, UserLabelsCapped, SendLabelFollows, AliasesAreTrue, RepliesShareThread
  <2>3. AnswersArePlaced
    BY <1>1 DEF AnswersArePlaced
  <2> QED BY <2>1, <2>2, <2>3 DEF TablesInv
<1>3. ASSUME NEW j \in Jobs PROVE Fits(j)
  <2>1. job[j] = Idle
    BY <1>1
  <2>2. ReadsFit(j)
    BY <2>1, IdleFields DEF ReadsFit
  <2>3. WorksOnMessage(j) /\ HoldsQueued(j)
    BY <2>1, IdleFields DEF WorksOnMessage, HoldsQueued
  <2>4. FoundFits(j)
    BY <2>1, IdleFields DEF FoundFits
  <2> QED BY <2>2, <2>3, <2>4 DEF Fits
<1>4. job = [j \in Jobs |-> job[j]]
  BY <1>1
<1> QED BY <1>2, <1>3, <1>4 DEF MailInv, JobsFit

LEMMA MailKeeps == MailInv /\ [Next]_vars => MailInv'
<1> SUFFICES ASSUME MailInv, [Next]_vars PROVE MailInv'
  OBVIOUS
<1>1. CASE UNCHANGED vars
  <2>1. UnchangedTable /\ job' = job
    BY <1>1 DEF vars, UnchangedTable
  <2>2. TablesInv' /\ TablesEvolve
    BY <2>1, QuietStep
  <2>3. \A j \in Jobs : Fits(j)'
    BY <2>1, <2>2, OtherJobFits DEF MailInv, JobsFit
  <2> QED BY <2>1, <2>2, <2>3 DEF MailInv, JobsFit
<1>2. ASSUME NEW j \in Jobs, Starts(j) PROVE MailInv'
  BY <1>2, StartsKeeps
<1>3. ASSUME NEW j \in Jobs, ReadsAliases(j) PROVE MailInv'
  BY <1>3, ReadsAliasesKeeps
<1>4. ASSUME NEW j \in Jobs, ReadsMessage(j) PROVE MailInv'
  BY <1>4, ReadsMessageKeeps
<1>5. ASSUME NEW j \in Jobs, ReadsThread(j) PROVE MailInv'
  BY <1>5, ReadsThreadKeeps
<1>6. ASSUME NEW j \in Jobs, EndsUnwritten(j) PROVE MailInv'
  BY <1>6, TurnsKeep DEF EndsUnwritten
<1>7. ASSUME NEW j \in Jobs, Transacts(j) PROVE MailInv'
  BY <1>7, TransactsKeeps
<1>8. ASSUME NEW j \in Jobs, Rechecks(j) PROVE MailInv'
  BY <1>8, TurnsKeep DEF Rechecks
<1>9. ASSUME NEW j \in Jobs, Errs(j) PROVE MailInv'
  BY <1>9, TurnsKeep DEF Errs
<1> QED BY <1>1, <1>2, <1>3, <1>4, <1>5, <1>6, <1>7, <1>8, <1>9 DEF Next

\* The inductive invariant of the four operations: what a call has read is what
\* the table holds as long as the versions agree (txn.rs), so that whatever
\* commits is planned from what is stored.
THEOREM MailIsSafe == Spec => []MailInv
BY MailStarts, MailKeeps, PTL DEF Spec

\* A stamp that is some message's, or 0 of none, and that no message exceeds is
\* the newest.
LEMMA NewestStamp ==
    ASSUME NEW ms \in SUBSET Messages, NEW x \in Nat, \A k \in ms : Mail[k].stamp <= x,
           x = 0 \/ \E k \in ms : Mail[k].stamp = x
    PROVE  MaxStamp(ms) = x
<1> DEFINE S == {0} \cup {Mail[k].stamp : k \in ms}
<1>1. x \in S /\ \A y \in S : x >= y /\ y \in Nat
  BY MailFacts
<1> HIDE DEF S
<1>2. Max(S) \in S /\ \A y \in S : Max(S) >= y
  BY <1>1 DEF Max
<1>3. PICK y \in S : y = Max(S)
  BY <1>2
<1>4. y = x
  <2>1. y \in Nat /\ x >= y
    BY <1>1
  <2>2. y >= x
    BY <1>1, <1>2, <1>3
  <2> QED BY <2>1, <2>2
<1> QED BY <1>3, <1>4 DEF MaxStamp, S

\* A thread item is the roll-up of its messages (CountsMatch, NewestLeads),
\* whichever inserts, sends, marks and patches raced.
THEOREM RollUpsStayTrue == Spec => []RollUpsMatch
<1>1. MailInv => RollUpsMatch
  <2> SUFFICES ASSUME MailInv PROVE RollUpsMatch
    OBVIOUS
  <2>1. ASSUME NEW t \in DOMAIN threads
        PROVE  /\ threads[t].count = Cardinality(Carriers(t))
               /\ threads[t].labels = UNION {messages[m].labels : m \in Carriers(t)}
               /\ \A l \in Labels :
                     threads[t].labelCounts[l] = Cardinality({m \in Carriers(t) : l \in messages[m].labels})
               /\ threads[t].stamp = MaxStamp(Carriers(t))
               /\ threads[t].last \in {m \in Carriers(t) : Mail[m].stamp = threads[t].stamp}
               /\ \A d \in Directions :
                     threads[t].stamps[d] = MaxStamp({m \in Carriers(t) : Mail[m].direction = d})
    <3> DEFINE th == threads[t]
               S == Carriers(t)
    <3>1. RollsUp(th, messages, t) /\ Members(messages, t) = S
      BY DEF MailInv, TablesInv, ThreadsRollUp, Carriers, Members
    <3>2. S \in SUBSET Messages /\ \A m \in S : messages[m].labels \in SUBSET Labels
      BY DEF Carriers, MailInv, TablesInv, TablesOK, MessageItem
    <3> HIDE DEF th, S
    <3>3. /\ th \in ThreadItem
          /\ th.count = Cardinality(S)
          /\ \A l \in Labels : l \in th.labels <=> \E m \in S : l \in messages[m].labels
          /\ \A l \in Labels : th.labelCounts[l] = Cardinality({m \in S : l \in messages[m].labels})
          /\ th.last \in S /\ Mail[th.last].stamp = th.stamp
          /\ \A m \in S : Mail[m].stamp <= th.stamp /\ Mail[m].stamp <= th.stamps[Mail[m].direction]
          /\ \A d \in Directions :
                th.stamps[d] = 0 \/ \E m \in S : Mail[m].direction = d /\ Mail[m].stamp = th.stamps[d]
      BY <3>1 DEF RollsUp
    <3>4. th.labels \in SUBSET Labels /\ th.stamp \in Nat /\ th.stamps \in [Directions -> Nat]
      BY <3>3 DEF ThreadItem
    <3>5. th.labels = UNION {messages[m].labels : m \in S}
      BY <3>2, <3>3, <3>4
    <3>6. th.stamp = MaxStamp(S)
      BY <3>2, <3>3, <3>4, NewestStamp
    <3>7. ASSUME NEW d \in Directions PROVE th.stamps[d] = MaxStamp({m \in S : Mail[m].direction = d})
      <4> DEFINE R == {m \in S : Mail[m].direction = d}
      <4>1. R \in SUBSET Messages
        BY <3>2
      <4>2. PICK x \in Nat : x = th.stamps[d]
        BY <3>4
      <4>3. \A m \in R : Mail[m].stamp <= x
        BY <3>3, <4>2
      <4>4. x = 0 \/ \E m \in R : Mail[m].stamp = x
        BY <3>3, <4>2
      <4> HIDE DEF R
      <4>5. MaxStamp(R) = x
        BY <4>1, <4>3, <4>4, NewestStamp
      <4> QED BY <4>2, <4>5 DEF R
    <3>8. th.last \in {m \in S : Mail[m].stamp = th.stamp}
      BY <3>3
    <3> QED BY <3>3, <3>5, <3>6, <3>7, <3>8 DEF th, S
  <2> QED BY <2>1 DEF RollUpsMatch, CountsMatch, NewestLeads
<1> QED BY <1>1, MailIsSafe, PTL

\* check_user_labels: no message and no thread ever holds more of the callers'
\* labels than its cap.
THEOREM LabelCapsHold == Spec => []UserLabelsCapped
<1>1. MailInv => UserLabelsCapped
  BY DEF MailInv, TablesInv
<1> QED BY <1>1, MailIsSafe, PTL

\* plan_mark: a message is labelled queued exactly as long as its send is, and
\* otherwise as the send ended.
THEOREM LabelsFollowSends == Spec => []SendLabelFollows
<1>1. MailInv => SendLabelFollows
  BY DEF MailInv, TablesInv
<1> QED BY <1>1, MailIsSafe, PTL

\* put_alias, thread_id: aliases lead to the messages they name, and replies to
\* one unknown parent are in one thread.
THEOREM ConversationsStayWhole == Spec => []ConversationsHold
<1>1. MailInv => ConversationsHold
  BY DEF MailInv, TablesInv, ConversationsHold
<1> QED BY <1>1, MailIsSafe, PTL

================================================================================
