---------------------------- MODULE MCMailThreads ----------------------------
(***************************************************************************)
(* TLC instances of MailThreads.  Inbound: a parent p and two replies to   *)
(* it, r1 and r2, the second the newest.  Outbound: a send s that SES      *)
(* renames, a reply to it a, and its copy c that comes back to the inbox.  *)
(***************************************************************************)
EXTENDS MailThreads

In(rfcId, inReplyTo, references, stamp) ==
    [direction |-> "in", rfcId |-> rfcId, inReplyTo |-> inReplyTo,
     references |-> references, stamp |-> stamp, labels |-> {"received", "unread"},
     original |-> {}, sesIds |-> {}]

Out(rfcId, original, stamp, labels, sesIds) ==
    [direction |-> "out", rfcId |-> rfcId, inReplyTo |-> <<>>, references |-> <<>>,
     stamp |-> stamp, labels |-> {"queued"} \cup labels, original |-> original,
     sesIds |-> sesIds]

MailOf ==
    [p  |-> In("p", <<>>, <<>>, 1),
     r1 |-> In("r1", <<"p">>, <<"p">>, 2),
     r2 |-> In("r2", <<>>, <<"p">>, 3),
     s  |-> Out("s", {}, 2, {}, {"ses"}),
     a  |-> In("a", <<"ses">>, <<"old", "ses">>, 3),
     c  |-> In("ses", <<>>, <<>>, 2),
     b  |-> Out("b", {"p"}, 2, {"u1"}, {})]

Call(op, m) == [op |-> op, msg |-> m, add |-> {}, remove |-> {}, outcome |-> "Released"]
Mark(m, outcome) == [Call("mark", m) EXCEPT !.outcome = outcome]
Patch(m, add, remove) == [Call("patch", m) EXCEPT !.add = add, !.remove = remove]

JobOf ==
    [ip    |-> Call("insert", "p"),
     ir1   |-> Call("insert", "r1"),
     ir1x  |-> Call("insert", "r1"),
     ir2   |-> Call("insert", "r2"),
     ia    |-> Call("insert", "a"),
     ic    |-> Call("insert", "c"),
     es    |-> Call("enqueue", "s"),
     eb    |-> Call("enqueue", "b"),
     sent  |-> Mark("s", "Sent"),
     fail  |-> Mark("b", "Failed"),
     unk   |-> Mark("b", "Unknown"),
     pp    |-> Patch("p", {"u2"}, {"unread"}),
     ps    |-> Patch("s", {"u1"}, {}),
     rej   |-> Patch("s", {"rejected"}, {})]

\* Which calls are made: a parent and its replies; a parent and a reply that is
\* redelivered; a send, its outcome, its copy and a reply to it; the outcome of a
\* send against label patches; a labelled reply, relabelling of its original, and
\* its outcome or two that compete.
Cases ==
    {{"ip", "ir1", "ir2"},
     {"ip", "ir1", "ir1x"},
     {"es", "sent", "ic", "ia"},
     {"es", "sent", "ps", "rej"},
     {"ip", "eb", "pp", "fail"},
     {"ip", "eb", "unk", "fail"}}

\* The other calls failed at their first step, which changes nothing (Errs).
CasesInit ==
    \E case \in Cases :
       /\ messages = <<>> /\ threads = <<>> /\ aliases = <<>> /\ sends = <<>>
       /\ job = [j \in Jobs |-> IF j \in case THEN Idle ELSE [Idle EXCEPT !.pc = "done"]]

CasesSpec == CasesInit /\ [][Next]_vars
==============================================================================
