---------------------------- MODULE MCEventIntake ----------------------------
(***************************************************************************)
(* TLC instances of the webhook function at work.  A behaviour is about    *)
(* one side of it: SNS notifications of SES events (EventIntake), or       *)
(* requests that verify their keys while the parameter rotates (KeyCache). *)
(***************************************************************************)
EXTENDS EventIntake, KeyCache, TLC

CONSTANTS w1, w2, r1, r2

VARIABLE side

KindOf ==
    [send |-> "Send", dlv |-> "Delivery", bnc |-> "Bounce", cpl |-> "Complaint",
     open |-> "Open", soft |-> "SoftBounce"]

RecipientsOf ==
    [send |-> {}, dlv |-> {}, bnc |-> {"a1"}, cpl |-> {"a1", "a2"}, open |-> {},
     soft |-> {"a1"}]

\* The climb to bounced; a delivery against a complaint; opens and failing actions.
DeliveriesOf ==
    {[send |-> 1, dlv |-> 2, bnc |-> 1, cpl |-> 0, open |-> 0, soft |-> 0],
     [send |-> 0, dlv |-> 1, bnc |-> 0, cpl |-> 2, open |-> 0, soft |-> 1],
     [send |-> 0, dlv |-> 0, bnc |-> 1, cpl |-> 1, open |-> 2, soft |-> 0]}

BounceOnly == {[send |-> 0, dlv |-> 0, bnc |-> 2, cpl |-> 0, open |-> 0, soft |-> 0]}

\* k1 is valid throughout, k2 comes or goes.
DocumentsOf == {{"k1"}, {"k1", "k2"}}

KeysAsleep ==
    /\ now = 0 /\ changes = 0 /\ document = {"k1"} /\ steady = {"k1"} /\ answer = NoAnswer
    /\ cache = [hashes |-> NoHashes, loadedAt |-> Never, missAt |-> Never]
    /\ req = [r \in Requests |-> Waiting] /\ last = [miss |-> Never, failed |-> Never, outage |-> Never]
IntakeAsleep ==
    /\ events = {} /\ status = NoStatus /\ opens = 0 /\ stream = <<>> /\ inv = [w \in Workers |-> Resting]
    /\ due = [n \in Notes |-> 0] /\ acked = {} /\ marked = FALSE /\ labels = {} /\ suppressed = {} /\ refused = {}

BothInit ==
    \/ side = "events" /\ Init /\ KeysAsleep
    \/ side = "keys" /\ KeyInit /\ IntakeAsleep

BothNext ==
    \/ side = "events" /\ IntakeNext /\ UNCHANGED <<keyVars, side>>
    \/ side = "keys" /\ KeyNext /\ UNCHANGED <<vars, side>>

BothSpec == BothInit /\ [][BothNext]_<<vars, keyVars, side>>

\* The events' side alone.
EventSpec == side = "events" /\ Init /\ KeysAsleep /\ [][BothNext]_<<vars, keyVars, side>>

PairSymmetry == Permutations({w1, w2}) \cup Permutations(Requests)
==============================================================================
