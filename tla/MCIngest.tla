------------------------------ MODULE MCIngest -------------------------------
(***************************************************************************)
(* TLC instances of the ways in.  A behaviour is about one of them: SNS    *)
(* messages at the door (SnsDoor), or one inbound message being stored     *)
(* (Ingest).                                                               *)
(***************************************************************************)
EXTENDS Ingest, SnsDoor

CONSTANTS a1, a2, a3

VARIABLE side

Url(host, path, query) == [https |-> TRUE, port |-> "none", host |-> host, pem |-> TRUE, path |-> path, query |-> query]
Ours == [account |-> "111", arn |-> <<"a", "b", "a">>]
Other == [account |-> "222", arn |-> <<"a">>]

Note(topic, cert, altered) ==
    [type |-> "Notification", topic |-> topic, cert |-> cert, version |-> "2", header |-> TRUE,
     complete |-> TRUE, subscribe |-> cert, altered |-> altered]
Confirmation(kind, topic, altered) ==
    [Note(topic, Url("sns", "c1", ""), altered) EXCEPT !.type = kind, !.subscribe = Url("sns", "", "confirm")]

Blank == [fields |-> {}, is |-> "Unknown", asks |-> "none", number |-> "none", keyword |-> "absent",
          body |-> "absent", message |-> "none", final |-> FALSE, delivered |-> FALSE, eventType |-> "none",
          setup |-> FALSE]
Sms(number, keyword, body, asks) ==
    [Blank EXCEPT !.fields = {"originationNumber", "inboundMessageId"}, !.is = "SmsInbound",
                  !.asks = asks, !.number = number, !.keyword = keyword, !.body = body]
Receipt(message, type, delivered, final) ==
    [Blank EXCEPT !.fields = {"eventType", "messageId"}, !.is = "SmsDelivery", !.message = message,
                  !.eventType = type, !.delivered = delivered, !.final = final]

Named == [
    mail |-> [e |-> Note(Ours, Url("sns", "c1", ""), {}),
              p |-> [Blank EXCEPT !.fields = {"notificationType", "mail", "receipt"}, !.is = "SesInbound"]],
    setup |-> [e |-> Note(Ours, Url("sns", "c1", ""), {}),
               p |-> [Blank EXCEPT !.fields = {"notificationType", "mail", "receipt"}, !.is = "SesInbound", !.setup = TRUE]],
    ses |-> [e |-> Note(Ours, [Url("sns", "c1", "x=1") EXCEPT !.port = "443"], {}),
             p |-> [Blank EXCEPT !.fields = {"eventType", "mail"}, !.is = "Ses"]],
    junk |-> [e |-> Note(Ours, Url("sns", "c2", ""), {}), p |-> Blank],
    stop |-> [e |-> Note(Ours, Url("sns", "c1", ""), {}), p |-> Sms("n1", "absent", " stop ", "OptOut")],
    start |-> [e |-> Note(Ours, Url("sns", "c1", ""), {}), p |-> Sms("n1", "START", "STOP", "OptIn")],
    chat |-> [e |-> Note(Ours, Url("sns", "c1", ""), {}), p |-> Sms("n2", "", "STOP", "none")],
    quit |-> [e |-> Note(Ours, Url("sns", "c1", ""), {}), p |-> Sms("n2", "QUIT", "absent", "OptOut")],
    lost |-> [e |-> Note(Ours, Url("sns", "c1", ""), {}), p |-> Receipt("m1", "TEXT_CARRIER_UNREACHABLE", FALSE, FALSE)],
    got |-> [e |-> Note(Ours, Url("sns", "c1", ""), {}), p |-> Receipt("m1", "TEXT_SUCCESSFUL", TRUE, TRUE)],
    dead |-> [e |-> Note(Ours, Url("sns", "c1", ""), {}), p |-> Receipt("m2", "TEXT_BLOCKED", FALSE, TRUE)],
    sub |-> [e |-> Confirmation("SubscriptionConfirmation", Ours, {}), p |-> Blank],
    unsub |-> [e |-> Confirmation("UnsubscribeConfirmation", Ours, {}), p |-> Blank],
    moved |-> [e |-> Confirmation("SubscriptionConfirmation", Ours, {"SubscribeURL"}), p |-> Blank],
    retopic |-> [e |-> Note(Ours, Url("sns", "c3", ""), {"TopicArn"}), p |-> Sms("n3", "STOP", "absent", "none")],
    stray |-> [e |-> Note(Other, Url("sns", "c1", ""), {}), p |-> Blank],
    elsewhere |-> [e |-> Note(Ours, Url("other", "c1", ""), {"SigningCertURL"}), p |-> Blank],
    versioned |-> [e |-> [Note(Ours, Url("sns", "c1", ""), {"SignatureVersion"}) EXCEPT !.version = "3"], p |-> Blank],
    halved |-> [e |-> [Confirmation("SubscriptionConfirmation", Ours, {"Token"}) EXCEPT !.complete = FALSE], p |-> Blank],
    bare |-> [e |-> [Note(Ours, Url("sns", "c1", ""), {"header"}) EXCEPT !.header = FALSE], p |-> Blank],
    garbage |-> [e |-> [Note(Ours, Url("sns", "c1", ""), {"Type"}) EXCEPT !.type = "none"], p |-> Blank],
    oddUrl |-> [e |-> [Confirmation("SubscriptionConfirmation", Other, {"Signature"}) EXCEPT !.altered = {"UnsubscribeURL"},
                                                                       !.subscribe = Url("other", "", "")], p |-> Blank]]

MCEnvelope == [x \in DOMAIN Named |-> Named[x].e]
MCPayload == [x \in DOMAIN Named |-> Named[x].p]

By(via, items) == [via |-> via, items |-> items]

\* Those that try every allowlist, and those that try one.
ListedScripts == {
    {By("http", <<"sub">>), By("http", <<"stray">>)},
    {By("http", <<"retopic">>), By("http", <<"moved">>)}}
MCScripts == ListedScripts \cup {{},
    {By("direct", <<"mail", "setup", "ses">>)},
    {By("http", <<"junk">>), By("direct", <<"retopic", "ses">>)},
    {By("http", <<"stop">>), By("http", <<"start">>)},
    {By("direct", <<"quit", "chat", "dead">>)},
    {By("http", <<"lost">>), By("http", <<"got">>)},
    {By("http", <<"sub">>), By("cancel", <<"unsub">>)},
    {By("direct", <<"elsewhere", "versioned", "halved", "garbage">>)},
    {By("http", <<"bare">>), By("http", <<"oddUrl">>)}}

Account(a) == [account |-> a, glob |-> <<>>]
Glob(segments) == [account |-> "none", glob |-> segments]
MCAllowlists == {
    {}, {Account("111")}, {Account("333"), Glob(<<<<"a", "b">>, <<"b">>, <<>>>>)},
    {Glob(<<<<"a">>, <<"a">>>>)}, {Glob(<<<<>>, <<"b">>, <<"a">>>>)}}

DoorSide == side = "door" /\ DoorNext /\ UNCHANGED <<side, vars>>
StoreSide == side = "store" /\ Next /\ UNCHANGED <<side, doorVars>>

BothInit ==
    /\ Init /\ DoorInit
    /\ \/ side = "door" /\ script # {} /\ (allowlist = {Account("111")} \/ script \in ListedScripts)
          /\ (autoResubscribe \/ (allowlist = {Account("111")} /\ By("cancel", <<"unsub">>) \in script))
       \/ side = "store" /\ script = {} /\ allowlist = {} /\ autoResubscribe

BothSpec ==
    /\ BothInit /\ [][DoorSide \/ StoreSide]_<<side, vars, doorVars>>
    /\ WF_doorVars(DoorStep /\ side = "door" /\ UNCHANGED <<side, vars>>)
    /\ \A a \in Attempts :
          /\ WF_vars(side = "store" /\ answers = {} /\ Delivers(a) /\ UNCHANGED <<side, doorVars>>)
          /\ WF_vars(side = "store" /\ Attempt(a) /\ UNCHANGED <<side, doorVars>>)
    /\ <>[][\A a \in Attempts : ~FailsTransiently(a) /\ ~ResolveFails(a)]_vars
==============================================================================
