---------------------------- MODULE MCEventRelay -----------------------------
(***************************************************************************)
(* TLC instances of the relay.  A behaviour is about one side of it:       *)
(* EventRelay's batches next to the request path, or the announcements of  *)
(* MailRelay.                                                              *)
(***************************************************************************)
EXTENDS EventRelay, MailRelay

CONSTANTS w1

VARIABLE side   \* which of the two

KindOf == [send |-> "Send", dlv |-> "Delivery"]

Once == {[send |-> 1, dlv |-> 1]}

NoRecipients == [send |-> {}, dlv |-> {}]

Sizes(text, html, headers, refs) ==
    [text |-> text, html |-> html, headers |-> headers, references |-> refs, reply_to |-> 1, verdicts |-> 1]
Letter(carried, at, content, optional) ==
    [labels |-> carried, at |-> at, sentAt |-> 2, content |-> content, required |-> 2, optional |-> optional]

\* A cap of 10: message 1 is too large with its html, 2 with anything but what
\* is required, 3 is cut when it is stored; 4 and 5 are sent.
MCLetters == <<
    Letter({"received", "unread"}, 1, Sizes(3, 6, 2, 0), 1),
    Letter({"received", "spam", "unauthenticated"}, 1, Sizes(12, 2, 8, 0), 9),
    Letter({"received", "unauthenticated"}, 1, Sizes(4, 20, 1, 17), 0),
    Letter({"queued"}, 1, Sizes(1, 1, 0, 0), 0),
    Letter({"queued"}, 1, Sizes(1, 1, 0, 0), 0)>>

MailWriteOf(op, m) == [op |-> op, msg |-> m]
Relabel(m, add, remove) == [op |-> "label", msg |-> m, add |-> add, remove |-> remove]
Notified(kind, m, sns, object, content, payload, extra) ==
    [op |-> "event",
     record |-> [kind |-> kind, msg |-> m, sns |-> sns, at |-> 3, object |-> object,
                 sizes |-> [content |-> content, payload |-> payload, extra |-> extra, kept |-> 2]]]

MCWriteScripts == {
    <<MailWriteOf("insert", 1), Relabel(1, {}, {"unread"}), MailWriteOf("insert", 2)>>,
    <<MailWriteOf("insert", 3), Notified("other", 1, "s1", FALSE, 9, 2, 1), Notified("other", 1, "s2", FALSE, 2, 9, 1)>>,
    <<MailWriteOf("insert", 4), MailWriteOf("mark", 4), Relabel(4, {"delivered"}, {}), Relabel(4, {}, {"delivered"})>>,
    <<MailWriteOf("insert", 4), Notified("Open", 4, "s1", TRUE, 0, 2, 0), MailWriteOf("mark", 4),
      Notified("Open", 4, "s2", TRUE, 0, 2, 0), Notified("Open", 4, "s3", TRUE, 0, 2, 9)>>,
    <<MailWriteOf("insert", 5), MailWriteOf("mark", 5), Notified("Bounce", 5, "s1", FALSE, 0, 8, 9),
      Notified("Click", 5, "s2", TRUE, 0, 2, 0), Notified("Reject", 5, "s3", TRUE, 3, 3, 3)>>}
EventsSide == side = "events" /\ RelayNext /\ UNCHANGED <<side, mailRelayVars>>
MailSide == side = "mail" /\ MailRelayNext /\ UNCHANGED <<side, allVars>>

BothInit ==
    /\ RelayInit /\ MailRelayResting
    /\ \/ side = "events" /\ todo = <<>>
       \/ side = "mail" /\ todo \in WriteScripts

BothSpec ==
    /\ BothInit /\ [][EventsSide \/ MailSide]_<<side, allVars, mailRelayVars>>
    /\ WF_allVars(RelayStep /\ UNCHANGED <<vars, side, mailRelayVars>>)
==============================================================================
