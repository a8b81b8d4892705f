---------------------------- MODULE MCMailReads ------------------------------
(***************************************************************************)
(* Instances of MailReads.  Ids 5, 6 and 7 share millisecond 1, 9 is of    *)
(* millisecond 2 and 13 of 3.  The first scenarios race transactions, the  *)
(* others walk a list of up to five items next to one writer.              *)
(***************************************************************************)
EXTENDS MailReads, SequencesExt, TLC

W1 == "w1"
W2 == "w2"
MCWriters == {W1, W2}
MCLabels == {"unread", "trash", "queued", "sent", "rejected"}

Rfc(n) == [id |-> n, bytes |-> n]
Says(thread, labels, from, rfc, candidates, ses) ==
    [inbox |-> 1, thread |-> thread, labels |-> labels,
     text |-> [from |-> {from}, to |-> {"us"}, subject |-> {"hello"}],
     rfc |-> Rfc(rfc), candidates |-> candidates, ses |-> ses, due |-> from = "ann" /\ thread = 1]

\* 9 answers 5; 13 is sent, SES gives it id 8; 10 is its returning copy.
\* The reference 99 is too long to be a key.
MCMail ==
     5 :> Says(1, {"unread"}, "ann", 1, <<Rfc(1)>>, {})
  @@ 6 :> Says(2, {"trash"}, "bob", 2, <<Rfc(2)>>, {})
  @@ 7 :> Says(1, {"trash", "unread"}, "bob", 4, <<Rfc(4)>>, {})
  @@ 9 :> Says(3, {"unread"}, "ann", 3, <<Rfc(1), Rfc(99), Rfc(3)>>, {})
  @@ 10 :> Says(2, {}, "us", 8, <<Rfc(8)>>, {})
  @@ 11 :> Says(3, {"unread"}, "ann", 6, <<>>, {})
  @@ 14 :> Says(1, {}, "bob", 7, <<>>, {})
  @@ 13 :> Says(3, {"queued"}, "us", 5, <<>>, {Rfc(8)})

Ins(m) == [op |-> "insert", msg |-> m]
Enq(m, key) == [op |-> "enqueue", msg |-> m, key |-> key]
Claim(m) == [op |-> "claim", msg |-> m]
Mark(m, outcome) == [op |-> "mark", msg |-> m, outcome |-> outcome]
Patch(m, add, remove) == [op |-> "patch", msg |-> m, add |-> add, remove |-> remove]
Ensure(inbox) == [op |-> "ensure", inbox |-> inbox]

\* The table after these have been inserted one by one.
Inserted(ids) ==
    LET insert(table, m) ==
            LET msg == MailMessage(m, Mail[m].thread)
                before == Get(table, ThreadKey(msg.inbox, msg.thread))
            IN  Committed(table, PlanInsert(msg, before, ThreadAfter(msg, before), <<>>, <<>>))
    IN  FoldLeft(insert, <<>>, ids)

Both(a, b) == W1 :> a @@ W2 :> b
Ask(list, thread, query) == [list |-> list, inbox |-> 1, thread |-> thread, query |-> query]

Newest == <<<<"limit", 2>>, <<"include_trash", "true">>>>
Unread == <<<<"limit", 1>>, <<"labels", "unread">>, <<"ascending", "true">>>>
Zero == <<<<"limit", 0>>, <<"limit", 2>>>>
AskedTrash == <<<<"labels", "trash">>, <<"limit", 2>>, <<"colour", "red">>>>
Window == <<<<"after", 1>>, <<"before", 3>>, <<"from", "ann">>, <<"from", "">>, <<"limit", 1>>>>
Backwards == <<<<"after", 2>>, <<"before", 2>>>>
Bare == <<<<"before", 2>>>>

Races == {
    [stored |-> <<>>, script |-> Both(<<Ins(5)>>, <<Ins(9), Ins(5)>>), asks |-> {}],
    [stored |-> Inserted(<<5>>), script |-> Both(<<Enq(13, {1}), Patch(13, {"unread"}, {"queued"})>>,
                                       <<Enq(13, {1}), Claim(13)>>), asks |-> {}],
    [stored |-> Inserted(<<6>>), script |-> Both(<<Enq(13, {}), Claim(13), Mark(13, "sent")>>,
                                       <<Ins(10), Mark(13, "failed")>>), asks |-> {}]}

Walks == {
    [stored |-> Inserted(<<5, 6, 7>>), script |-> Both(<<Ins(11), Patch(7, {}, {"trash", "unread"})>>, <<>>),
     asks |-> {Ask("messages", 0, Newest), Ask("messages", 0, Unread), Ask("messages", 0, AskedTrash),
               Ask("messages", 0, Window), Ask("messages", 0, Zero), Ask("messages", 0, Backwards),
               Ask("messages", 0, Bare)}],
    [stored |-> Inserted(<<5, 6>>), script |-> Both(<<Ins(14)>>, <<>>),
     asks |-> {Ask("threads", 0, Newest), Ask("threads", 0, Unread), Ask("threads", 0, AskedTrash),
               Ask("thread", 1, <<<<"limit", 1>>>>), Ask("thread", 3, Bare)}],
    [stored |-> <<>>, script |-> Both(<<Ensure(1), Ensure(2), Ensure(1)>>, <<>>),
     asks |-> {Ask("inboxes", 0, <<<<"limit", 1>>>>)}]}

MCScenarios == Races \cup Walks

MCStrangers == {Ask("messages", 0, Unread), Ask("messages", 0, Bare), Ask("messages", 0, AskedTrash),
                Ask("threads", 0, Newest), Ask("messages", 0, <<<<"limit", -1>>>>)}
=============================================================================
