---------------------------- MODULE SendContract ----------------------------
(***************************************************************************)
(* What the outbox promises about one send, without senders, stream,       *)
(* leases or versions: every authorisation to send (the enqueue, and each  *)
(* resend an operator orders) reaches SES at most once, a send is reported *)
(* as sent only if SES has it, and as failed only if SES does not have it  *)
(* and never will.  Only an operator leaves the unknown phase.             *)
(***************************************************************************)
EXTENDS Naturals

CONSTANT MaxResends     \* bound on operator resends

VARIABLES
    phase,      \* what the service says about the send
    resends,    \* authorisations given beyond the first
    accepted    \* how often SES accepted the message, per authorisation

contractVars == <<phase, resends, accepted>>

Phase == {"open", "unknown", "sent", "failed", "closed"}

Init ==
    /\ phase = "open"
    /\ resends = 0
    /\ accepted = [e \in 0..MaxResends |-> 0]

\* SES takes the message under authorisation e.  The service may already have
\* moved on to unknown, to a later authorisation or to an operator's verdict,
\* but never to a verdict of its own.
Accept(e) ==
    /\ e <= resends
    /\ e = resends => phase \in {"open", "unknown", "closed"}
    /\ accepted[e] = 0
    /\ accepted' = [accepted EXCEPT ![e] = 1]
    /\ UNCHANGED <<phase, resends>>

ReportSent ==
    /\ phase = "open"
    /\ accepted[resends] = 1
    /\ phase' = "sent"
    /\ UNCHANGED <<resends, accepted>>

ReportFailed ==
    /\ phase = "open"
    /\ accepted[resends] = 0
    /\ phase' = "failed"
    /\ UNCHANGED <<resends, accepted>>

ReportUnknown ==
    /\ phase = "open"
    /\ phase' = "unknown"
    /\ UNCHANGED <<resends, accepted>>

OperatorResend ==
    /\ phase = "unknown"
    /\ resends < MaxResends
    /\ phase' = "open"
    /\ resends' = resends + 1
    /\ UNCHANGED accepted

OperatorClose ==
    /\ phase = "unknown"
    /\ phase' = "closed"
    /\ UNCHANGED <<resends, accepted>>

Next ==
    \/ \E e \in 0..MaxResends : Accept(e)
    \/ ReportSent
    \/ ReportFailed
    \/ ReportUnknown
    \/ OperatorResend
    \/ OperatorClose

Spec == Init /\ [][Next]_contractVars
==============================================================================
