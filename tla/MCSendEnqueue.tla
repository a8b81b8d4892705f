---------------------------- MODULE MCSendEnqueue ----------------------------
(***************************************************************************)
(* TLC instances of the way a send is queued and built.  A behaviour is    *)
(* about one side of it: requests that race for a key (SendEnqueue), or    *)
(* one send, what it asks for and what SES is given (SendParts).           *)
(***************************************************************************)
EXTENDS SendEnqueue, SendParts

CONSTANTS r1, r2, r3, r4, a1, a2

VARIABLE side

\* r1 and r2 ask for the same thing and r3 for another, under one key; r4 carries
\* no key.
BodyOf == [r \in {r1, r2, r3, r4} |-> IF r = r3 THEN "other" ELSE "same"]

\* Either r1 and r2 race for the key through two of its lifetimes, or r1 and r3
\* do, late, beside r4.  The other requests were refused.
CasesInit ==
    \E case \in {[out |-> {r3, r4}, now |-> 0], [out |-> {r2}, now |-> MaxTime]} :
       /\ now = case.now
       /\ key = NoKey /\ committed = {} /\ settled = {} /\ leaky = {}
       /\ bucket = [r \in Requests |-> {}]
       /\ req = [r \in Requests |-> IF r \in case.out
                                     THEN [Started EXCEPT !.pc = "done", !.answer = Error]
                                     ELSE Started]

-----------------------------------------------------------------------------
Url(https, host) == [shape |-> "fine", https |-> https, userinfo |-> FALSE, port |-> "none", host |-> host]
Domain(name) == [kind |-> "domain", name |-> name, ip |-> "none"]
Literal(ip) == [kind |-> "ip", name |-> "none", ip |-> ip]
V4(a, b, c) == [v |-> "v4", s |-> <<a, b, c>>]
V6(a, b, c) == [v |-> "v6", s |-> <<a, b, c>>]
Mapped(a, b, c) == [v |-> "mapped", s |-> <<a, b, c>>]

\* The edges of the reserved blocks.
V4Edges == {V4(t[1], t[2], t[3]) : t \in
    {<<0, 0, 0>>, <<9, 255, 255>>, <<10, 0, 0>>, <<11, 0, 0>>, <<100, 63, 255>>, <<100, 64, 0>>, <<100, 127, 255>>, <<100, 128, 0>>,
     <<127, 0, 0>>, <<169, 253, 255>>, <<169, 254, 169>>, <<172, 15, 255>>, <<172, 16, 0>>, <<172, 31, 255>>, <<172, 32, 0>>,
     <<192, 0, 0>>, <<192, 0, 1>>, <<192, 0, 2>>, <<192, 88, 99>>, <<192, 168, 0>>, <<192, 169, 0>>, <<198, 17, 255>>,
     <<198, 18, 0>>, <<198, 19, 255>>, <<198, 20, 0>>, <<198, 51, 100>>, <<203, 0, 113>>, <<223, 255, 255>>, <<224, 0, 0>>,
     <<255, 255, 255>>}}
V6Edges == {V6(t[1], t[2], t[3]) : t \in
    {<<0, 0, 0>>, <<8191, 0, 0>>, <<8192, 0, 0>>, <<8193, 0, 0>>, <<8193, 1, 0>>, <<8193, 2, 0>>, <<8193, 15, 0>>, <<8193, 16, 0>>,
     <<8193, 63, 0>>, <<8193, 64, 0>>, <<8193, 3511, 0>>, <<8193, 3512, 0>>, <<8193, 3513, 0>>, <<8194, 0, 0>>, <<16382, 0, 0>>,
     <<16383, 0, 0>>, <<16384, 0, 0>>, <<64512, 0, 0>>}}

Public == V4(1, 1, 1)
Private == V4(169, 254, 169)
MCUrls == [
    cdn |-> Url(TRUE, Domain("cdn")), edges |-> Url(TRUE, Domain("edges")),
    plain |-> Url(FALSE, Domain("cdn")), inside |-> Url(TRUE, Literal(Mapped(169, 254, 169))),
    odd |-> [Url(TRUE, Domain("cdn")) EXCEPT !.port = "8443"],
    login |-> [Url(TRUE, Domain("cdn")) EXCEPT !.userinfo = TRUE],
    broken |-> [Url(TRUE, Domain("cdn")) EXCEPT !.shape = "malformed"]]
MCResolves == [cdn |-> {{}, {Public}, {Public, Private}}, edges |-> {{ip} : ip \in V4Edges \cup V6Edges}]

MCSize == [one |-> 1, two |-> 2, uno |-> 1, due |-> 2]

-----------------------------------------------------------------------------
Entry(box) == [box |-> box, named |-> FALSE, caps |-> FALSE, flaw |-> "none"]
Named(box) == [Entry(box) EXCEPT !.named = TRUE]
Caps(box) == [Entry(box) EXCEPT !.caps = TRUE]
Flawed(box, flaw) == [Entry(box) EXCEPT !.flaw = flaw]
Lists(entries, n) == UNION {[1..k -> entries] : k \in 0..n}

Plain == [to |-> Gave(<<Entry("ann")>>), cc |-> Left(<<>>), bcc |-> Left(<<>>), reply_to |-> <<>>, subject |-> "fine",
          bodies |-> {"text"}, all |-> FALSE, labels |-> <<>>, headers |-> <<>>, attachments |-> <<>>]
Unaddressed == [Plain EXCEPT !.to = Left(<<>>), !.subject = "absent"]
Nothing == [id |-> "none", from |-> Inbox, to |-> <<>>, cc |-> <<>>, bcc |-> <<>>, reply_to |-> <<>>, references |-> <<>>,
            subject |-> "fine", weights |-> [bodies |-> 0]]

Receipt == [bucket |-> "mail", key |-> TRUE, times |-> <<"t1", "none", "none">>, recipients |-> <<Entry("inbox")>>,
            spam |-> "PASS", virus |-> "PASS", spf |-> "PASS", dkim |-> "PASS", dmarc |-> "none"]
NoRaw == [shape |-> "none", from |-> <<>>, to |-> <<>>, cc |-> <<>>, bcc |-> <<>>, reply_to |-> <<>>, message_id |-> "m9",
          references |-> <<>>, subject |-> "fine", headers |-> <<>>, parts |-> <<>>, receipt |-> Receipt]
Sends(asks) == {[ask |-> a, original |-> Nothing, raw |-> NoRaw] : a \in asks}

\* Recipients: every spelling and flaw, the count at its limit, and what is absent.
Recipients ==
    {[Plain EXCEPT !.to = [given |-> TRUE, list |-> to], !.bcc = Gave(bcc), !.bodies = b] :
        to \in Lists({Entry("ann"), Named("ann"), Caps("ann"), Entry("bob")}, 2), bcc \in Lists({Entry("cyd")}, 1),
        b \in {{}, {"text", "html"}}}
    \cup {[Plain EXCEPT !.cc = Gave(<<Flawed("bob", f)>>), !.subject = s] :
             f \in {"none", "empty", "long", "newline", "syntax", "nonAscii", "notSmtp"}, s \in {"fine", "newline"}}

\* Replies: who wrote, to whom, who was copied, and what is kept of it.
Weights == [bodies : {0, 9}, references : {0, 9}, reply_to : {0}, headers : {0, 2}, verdicts : {0}]
Originals ==
    {[Nothing EXCEPT !.id = "m9", !.from = f, !.to = to, !.cc = cc, !.bcc = bcc, !.reply_to = rt] :
        f \in {Caps("inbox"), Named("ann")}, to \in Lists({Named("inbox"), Caps("ann"), Entry("bob")}, 2),
        cc \in Lists({Entry("ann"), Entry("dan")}, 1), bcc \in {<<>>, <<Entry("cyd")>>, <<Named("inbox")>>},
        rt \in {<<>>, <<Caps("inbox")>>, <<Entry("eve")>>}}
    \cup {[Nothing EXCEPT !.id = "m9", !.from = Entry("ann"), !.references = refs, !.weights = w] :
             refs \in {<<>>, <<"m1">>, <<"m1", "m9">>, <<"m1", "m2", "m3", "m4">>}, w \in Weights}
Replies ==
    {[ask |-> [Unaddressed EXCEPT !.all = all], original |-> o, raw |-> NoRaw] : all \in BOOLEAN, o \in Originals}
    \cup {[ask |-> Plain, original |-> [Nothing EXCEPT !.id = "m9"], raw |-> NoRaw]}

\* Received mail.  Names and addresses around the limit, lists over it, ids and
\* subjects at it, and every kind of part, header and receipt.
MCCut == [x \in {"", "none", "m1", "m2", "m3", "m4", "m9", "fine", "full", "newline", "file"} |-> x]
             @@ ("overlong" :> "full") @@ ("m0000000" :> "m0")
RawBox(box, size, name) == [box |-> box, size |-> size, name |-> name, flaw |-> "none"]
Mail == [NoRaw EXCEPT !.shape = "fine", !.from = <<RawBox("ann", 1, <<>>)>>]
Names == Lists({"plain", "special", "escaped", "space", "control"}, 2)
Bare(box) == RawBox(box, 2, <<>>)
Odd(box, flaw) == [RawBox(box, 2, <<"plain">>) EXCEPT !.flaw = flaw]
Part(role, kind, bytes) == [role |-> role, kind |-> kind, bytes |-> bytes, type |-> [of |-> "image/png", flaw |-> "none"],
                            filename |-> "file", disposition |-> "inline"]
PartKinds == {<<"body", "text">>, <<"body", "html">>, <<"media", "other">>, <<"attachment", "message">>, <<"container", "none">>}
BytesAt == <<"p1", "p2", "p3", "p4">>
Raws ==
    {[Mail EXCEPT !.from = <<RawBox("ann", n, name)>>] : n \in {1, 2, 3, 5, 6, 8, 9}, name \in Names}
    \cup {[Mail EXCEPT !.from = f, !.to = to, !.cc = cc, !.bcc = bcc, !.reply_to = rt] :
             f \in {<<>>, <<Bare("none"), RawBox("bob", 2, <<"special">>)>>},
             to \in Lists({Bare("inbox"), Bare("none"), RawBox("dan", 1, <<"escaped">>)}, 3),
             cc \in {<<>>, <<Bare("bob")>>}, bcc \in {<<>>, <<Bare("cyd")>>}, rt \in {<<>>, <<Bare("inbox"), Bare("eve")>>}}
    \cup {[Mail EXCEPT !.reply_to = <<Bare("eve"), Bare("fay"), Bare("guy"), Bare("hal")>>]}
    \cup {[Mail EXCEPT !.from = <<f>>, !.to = to, !.cc = cc, !.reply_to = rt] :
             f \in {Bare("inbox"), Bare("ann"), Odd("ann", "nonAscii")}, to \in Lists({Odd("bob", "notSmtp"), Bare("bob")}, 2),
             cc \in {<<>>, <<Bare("dan")>>, <<Odd("dan", "syntax")>>}, rt \in {<<>>, <<Bare("eve")>>, <<Odd("eve", "nonAscii")>>}}
    \cup {[Mail EXCEPT !.references = refs, !.message_id = id, !.subject = sub] :
             refs \in {<<>>, <<"m1", "m2", "m3", "m4">>, <<"m0000000", "m9">>}, id \in {"", "m9", "m0000000"},
             sub \in {"fine", "overlong", "full", "newline"}}
    \cup {[Mail EXCEPT !.headers = h] : h \in Lists({[name |-> n, size |-> z] : n \in {"x-a", "x-b"}, z \in {1, 3}}, 3)}
    \cup {[Mail EXCEPT !.parts = [i \in DOMAIN kinds |-> Part(kinds[i][1], kinds[i][2], BytesAt[i])]] :
             kinds \in Lists(PartKinds, 3) \cup [1..4 -> {<<"media", "other">>, <<"attachment", "message">>}]}
    \cup {[Mail EXCEPT !.parts = <<[Part("attachment", "other", "p1") EXCEPT !.type.flaw = "space", !.filename = "none"],
                                  [Part("attachment", "message", "p2") EXCEPT !.filename = "none"]>>]}
    \cup {[Mail EXCEPT !.shape = shape, !.receipt = [Receipt EXCEPT !.bucket = b, !.key = k, !.times = t, !.recipients = r]] :
             shape \in {"fine", "malformed"}, b \in {"none", "mail", "foreign"}, k \in BOOLEAN,
             t \in {<<"none", "t2", "t3">>, <<"none", "none", "none">>},
             r \in {<<Entry("ann")>>, <<Entry("ann"), Caps("inbox"), Entry("inbox")>>}}
    \cup {[Mail EXCEPT !.receipt = [Receipt EXCEPT !.spam = v[1], !.virus = v[2], !.spf = v[3], !.dkim = v[4], !.dmarc = v[5]]] :
             v \in [1..5 -> {"PASS", "FAIL"}] \cup {<<"GRAY", "none", "other", "GRAY", "none">>}}
ToReceived == {[ask |-> [Unaddressed EXCEPT !.all = all], original |-> [Nothing EXCEPT !.id = "awaited"], raw |-> raw] :
               all \in BOOLEAN, raw \in Raws}

Label(name, flaw) == [name |-> name, flaw |-> flaw]
Header(name, spelled, flaw) == [name |-> name, spelled |-> spelled, flaw |-> flaw]
Marks ==
    {[Plain EXCEPT !.labels = l] : l \in Lists({Label("mine", "none"), Label("yours", "none"), Label("theirs", "none"),
        Label("spam", "none"), Label("sent", "none"), Label("x", "empty")}, 3)}
    \cup {[Plain EXCEPT !.headers = h, !.reply_to = <<Named("ann")>>] :
             h \in Lists({Header(n, s, "none") : n \in {"from", "content-type", "x-a"}, s \in {"plain", "caps", "padded"}}
                           \cup {Header("x-b", "plain", "newline")}, 2)}

Attachment(content, url, bytes) ==
    [content |-> content, url |-> url, bytes |-> bytes, cid |-> "none", disposition |-> "none", flaw |-> "none"]
File(bytes) == Attachment("bytes", "none", bytes)
Linked(url) == Attachment("none", url, "none")
Figure(cid) == [File("one") EXCEPT !.cid = cid, !.disposition = "inline"]
Attached(list) == [Plain EXCEPT !.attachments = list, !.bodies = {"text", "html"}]
Files ==
    {Attached(l) : l \in Lists({File("one"), File("two"), Figure("c1"), Figure("c2"), Figure("none"), Figure("bad"),
        [Figure("c1") EXCEPT !.bytes = "uno"], Attachment("bytes", "cdn", "one"), Attachment("bad", "none", "one"), Attachment("none", "none", "none"),
        [File("one") EXCEPT !.disposition = "other"], [File("one") EXCEPT !.flaw = "filename"], [File("two") EXCEPT !.cid = "c1"]}, 2)}
    \cup {Attached(<<Linked(u)>>) : u \in DOMAIN MCUrls \ {"cdn"}}
    \cup {Attached(<<File("one"), File("one"), File("one"), File("one")>>)}

\* Those that two attempts work on.
Shared == {Attached(<<Linked("cdn")>>), Attached(<<File("uno"), Linked("cdn")>>), Attached(<<Linked("cdn"), File("due")>>)}

MCAsks == Sends(Recipients \cup Marks \cup Files \cup Shared) \cup Replies \cup ToReceived

-----------------------------------------------------------------------------
PartsAsleep ==
    /\ wants = [ask |-> Plain, original |-> Nothing, raw |-> NoRaw]
    /\ reply = "none" /\ spec = NoSpec /\ labels = {} /\ stored = <<>> /\ late = {}
    /\ claim = "none" /\ calls = <<>> /\ reached = {} /\ att = [a \in Attempts |-> Resting]
EnqueueAsleep ==
    /\ now = 0 /\ key = NoKey /\ committed = {} /\ settled = {} /\ leaky = {}
    /\ bucket = [r \in Requests |-> {}] /\ req = [r \in Requests |-> Started]

\* One attempt is enough for a send that fetches nothing.
MCPartsInit ==
    /\ wants \in Asks
    /\ reply = "none" /\ spec = NoSpec /\ labels = {} /\ stored = <<>> /\ late = {}
    /\ claim = "none" /\ calls = <<>> /\ reached = {}
    /\ att = [a \in Attempts |-> IF a = a2 /\ wants.ask \notin Shared THEN [Resting EXCEPT !.pc = "over"] ELSE Resting]

BothInit ==
    \/ side = "key" /\ CasesInit /\ PartsAsleep
    \/ side = "mail" /\ MCPartsInit /\ EnqueueAsleep

BothNext ==
    \/ side = "key" /\ Next /\ UNCHANGED <<partsVars, side>>
    \/ side = "mail" /\ PartsNext /\ UNCHANGED <<vars, side>>

BothSpec == BothInit /\ [][BothNext]_<<vars, partsVars, side>>

\* The key's side alone.
KeySpec == side = "key" /\ Init /\ PartsAsleep /\ [][BothNext]_<<vars, partsVars, side>>
==============================================================================
