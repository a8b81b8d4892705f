---------------------------- MODULE SendRequests -----------------------------
(***************************************************************************)
(* What a send or a reply asks for, the rules it has to pass, the spec it  *)
(* becomes and the document that is built from the spec: validate.rs,      *)
(* reply.rs and spec.rs of crates/webhook/src/api/send, labels.rs beside   *)
(* them, and address.rs, url_policy.rs, build.rs and content.rs of         *)
(* crates/mailbox/src.                                                     *)
(*                                                                         *)
(* An address entry names a mailbox in one of several spellings and has at *)
(* most one flaw; so have labels and header names.  Everything else a      *)
(* caller supplies is reduced to what the rules tell apart.  An optional   *)
(* list is [given, list]: leaving it out is not giving an empty one.       *)
(***************************************************************************)
EXTENDS Naturals, Sequences, FiniteSets, SequencesExt

CONSTANTS
    RecipientsMax,   \* OUTBOUND_RECIPIENTS_MAX
    ReferencesMax,   \* REFERENCES_MAX
    RequestLabelCap, \* MESSAGE_USER_LABEL_CAP
    HeadersMax,      \* HEADERS_BUDGET, in headers
    AttachmentsMax,  \* ATTACHMENTS_MAX
    DecodedMax,      \* MAX_OUTBOUND_DECODED_BYTES
    ContentMax,      \* MAX_CONTENT_BYTES
    Size,            \* the sizes of attachments, by their bytes
    UrlOf            \* the attachment URLs by name

ASSUME RequestLimitsAssumption ==
    /\ {RecipientsMax, ReferencesMax, RequestLabelCap, HeadersMax, AttachmentsMax, DecodedMax, ContentMax} \subseteq Nat
    /\ RecipientsMax > 0 /\ ReferencesMax > 1

\* The inbox that sends; an InboxId is a bare address in lower case.
Inbox == [box |-> "inbox", named |-> FALSE, caps |-> FALSE, flaw |-> "none"]

\* Numbers in their order, and the elements of a sequence at some places.
InOrder(S) == [k \in 1..Cardinality(S) |-> CHOOSE i \in S : Cardinality({j \in S : j < i}) = k - 1]
At(seq, places) == [k \in 1..Cardinality(places) |-> seq[InOrder(places)[k]]]
Those(seq, Test(_)) == At(seq, {i \in DOMAIN seq : Test(seq[i])})
Without(seq, Test(_)) == At(seq, {i \in DOMAIN seq : ~Test(seq[i])})
Once(seq) == At(seq, {i \in DOMAIN seq : \A j \in 1..(i - 1) : seq[j] # seq[i]})
Total(sizes) ==
    LET sum[n \in 0..Len(sizes)] == IF n = 0 THEN 0 ELSE sum[n - 1] + sizes[n] IN sum[Len(sizes)]

\* A request once its JSON is read.
Flaws == {"none", "empty", "long", "newline", "syntax", "nonAscii", "notSmtp"}
AddressEntries == [box : STRING, named : BOOLEAN, caps : BOOLEAN, flaw : Flaws]
IsOptional(l) == l = [given |-> l.given, list |-> l.list] /\ l.list \in Seq(AddressEntries) /\ (~l.given => l.list = <<>>)
RequestAttachments ==
    [content : {"none", "bytes", "bad"}, url : DOMAIN UrlOf \cup {"none"}, bytes : DOMAIN Size \cup {"none"},
     cid : STRING, disposition : STRING, flaw : STRING]
IsRequest(ask) ==
    /\ ask = [to |-> ask.to, cc |-> ask.cc, bcc |-> ask.bcc, reply_to |-> ask.reply_to, subject |-> ask.subject,
              bodies |-> ask.bodies, all |-> ask.all, labels |-> ask.labels, headers |-> ask.headers,
              attachments |-> ask.attachments]
    /\ IsOptional(ask.to) /\ IsOptional(ask.cc) /\ IsOptional(ask.bcc) /\ ask.reply_to \in Seq(AddressEntries)
    /\ ask.all \in BOOLEAN
    /\ ask.labels \in Seq([name : STRING, flaw : STRING])
    /\ ask.headers \in Seq([name : STRING, spelled : STRING, flaw : STRING])
    /\ ask.attachments \in Seq(RequestAttachments)
    /\ \A i \in DOMAIN ask.attachments : ask.attachments[i].content = "bytes" => ask.attachments[i].bytes # "none"

\* A message that was sent: its addresses passed the rules.
ContentFields == {"bodies", "references", "reply_to", "headers", "verdicts"}
SentTo == {a \in AddressEntries : a.flaw = "none"}
IsSent(o) ==
    /\ o = [id |-> o.id, from |-> o.from, to |-> o.to, cc |-> o.cc, bcc |-> o.bcc, reply_to |-> o.reply_to,
            references |-> o.references, subject |-> o.subject, weights |-> o.weights]
    /\ o.from \in SentTo
    /\ \A field \in {"to", "cc", "bcc", "reply_to"} : o[field] \in Seq(SentTo)
    /\ o.references \in Seq(STRING) /\ DOMAIN o.weights \subseteq ContentFields

-----------------------------------------------------------------------------
\* Plausible slips, used to show that the checks notice.

ComparesSpellings(a, b) == a = b
BlindCopiesInTo(original) ==
    [to |-> Without(original.to \o original.cc \o original.bcc, LAMBDA p : p.box = "inbox"), bcc |-> <<>>]
ComparesCasedName(h) == h.spelled # "caps" /\ (h.name \in {"from", "bcc", "references"} \/ h.name = "content-type")
ForgetsIdsOfOthers(list, i) == FALSE
KeepsReferencesLast == <<{}, {"headers"}, {"headers", "reply_to"}>>

-----------------------------------------------------------------------------
\* address.rs.

Parses(a) == a.flaw \in {"none", "nonAscii", "notSmtp"}

\* envelope_address: the address alone, its local part spelled as it was.
EnvelopeAddress(a) == [a EXCEPT !.named = FALSE]
HasEnvelope(a) == a.flaw = "none"

\* same_mailbox: the mailbox, however it is spelled; an entry that does not parse
\* is only equal to itself, but for case.
SameMailbox(a, b) ==
    IF Parses(a) /\ Parses(b) THEN a.box = b.box ELSE [a EXCEPT !.caps = b.caps] = b

IsInbox(a) == SameMailbox(a, Inbox)
WithoutInbox(list) == Without(list, IsInbox)

-----------------------------------------------------------------------------
\* reply.rs: what a reply leaves out is derived from the original.

\* address_reply: whom the reply is for, before reply_all.  Blind copies stay so.
DirectOfOwn(original) ==
    LET to == WithoutInbox(original.to)
        cc == WithoutInbox(original.cc)
        bcc == WithoutInbox(original.bcc)
        first == IF to # <<>> THEN to ELSE cc
    IN [to |-> IF first = <<>> /\ bcc = <<>> THEN <<original.from>> ELSE first,
        bcc |-> IF first = <<>> THEN bcc ELSE <<>>]

DirectOf(original, replyTo) ==
    IF IsInbox(original.from) THEN DirectOfOwn(original)
    ELSE [to |-> IF WithoutInbox(replyTo) = <<>> THEN <<original.from>> ELSE WithoutInbox(replyTo), bcc |-> <<>>]

\* reply_all_recipients: each mailbox where it occurs first.
ReplyAllRecipients(original, direct) ==
    LET shown == original.to \o original.cc
        seen(i) == \/ \E p \in ToSet(direct) : SameMailbox(p, shown[i])
                   \/ \E j \in 1..(i - 1) : SameMailbox(shown[j], shown[i])
    IN At(shown, {i \in DOMAIN shown : ~IsInbox(shown[i]) /\ ~seen(i)})

Left(list) == [given |-> FALSE, list |-> list]
Gave(list) == [given |-> list # <<>>, list |-> list]

AddressReply(ask, original, replyTo) ==
    LET direct == DirectOf(original, replyTo) IN
    IF direct.bcc # <<>> THEN [ask EXCEPT !.bcc = Gave(direct.bcc)]
    ELSE [ask EXCEPT !.to = Gave(direct.to),
                     !.cc = IF ask.all THEN Gave(ReplyAllRecipients(original, direct.to)) ELSE @]

\* reply_subject: with its prefix a subject at the limit is over it.
ReplySubject(subject) == IF subject = "full" THEN "long" ELSE subject

\* reply: recipients only when the caller named none at all, and the subject.
ReplyRequest(ask, original, content) ==
    LET addressed == IF ask.to.given \/ ask.cc.given \/ ask.bcc.given THEN ask
                     ELSE AddressReply(ask, original, content.reply_to)
    IN [addressed EXCEPT !.subject = IF @ = "absent" THEN ReplySubject(original.subject) ELSE @]

\* threading_references: the oldest and the latest of a chain that runs long.
ThreadingReferences(original, references) ==
    LET chain == IF Contains(references, original.id) THEN references ELSE Append(references, original.id)
    IN IF Len(chain) <= ReferencesMax THEN chain
       ELSE <<chain[1]>> \o SubSeq(chain, Len(chain) - ReferencesMax + 2, Len(chain))

-----------------------------------------------------------------------------
\* content.rs: a message's document, cut down until it can be read back.

ContentDrops == <<{}, {"bodies"}, {"bodies", "references"}, {"bodies", "references", "reply_to"},
                  {"bodies", "references", "reply_to", "headers"}, {"bodies", "references", "reply_to", "headers", "verdicts"}>>

WeightWithout(weights, dropped) ==
    LET kept == SetToSeq(DOMAIN weights \ dropped) IN Total([i \in DOMAIN kept |-> weights[kept[i]]])

\* serialize_within: the fields left out of the stored document.
SerializeWithin(weights, max) ==
    LET fits == {i \in DOMAIN ContentDrops : WeightWithout(weights, ContentDrops[i]) <= max}
    IN ContentDrops[IF fits = {} THEN Len(ContentDrops) ELSE CHOOSE i \in fits : \A j \in fits : i <= j]

ContentSize(original) == WeightWithout(original.weights, SerializeWithin(original.weights, ContentMax))

NoContent == [references |-> <<>>, reply_to |-> <<>>]
ContentOf(original) ==
    LET dropped == SerializeWithin(original.weights, ContentMax) IN
    [references |-> IF "references" \in dropped THEN <<>> ELSE original.references,
     reply_to |-> IF "reply_to" \in dropped THEN <<>> ELSE original.reply_to]

-----------------------------------------------------------------------------
\* validate.rs.  Each rule gives the fields it objects to and what it lets by.

Addresses(list) ==
    LET kept == Those(list, HasEnvelope) IN Once([i \in DOMAIN kept |-> EnvelopeAddress(kept[i])])
AddressErrors(field, list) == IF \E a \in ToSet(list) : ~HasEnvelope(a) THEN {field} ELSE {}

RecipientErrors(v) ==
    IF Len(v.to) + Len(v.cc) + Len(v.bcc) \in 1..RecipientsMax THEN {} ELSE {"recipients"}

\* normalize_labels, shared with PATCH: trimmed and in lower case first.
SettableLabels == {"unread", "spam", "trash"}
SystemLabels == SettableLabels \cup {"received", "sent", "queued", "unauthenticated", "delivered", "bounced",
                                     "complained", "rejected", "opened"}
UserLabels(labels) == labels \ SystemLabels
IsReserved(name) == name \in SystemLabels \ SettableLabels
LabelPasses(l) == l.flaw = "none" /\ ~IsReserved(l.name)
NormalizeLabels(list) == {l.name : l \in {x \in ToSet(list) : LabelPasses(x)}}
LabelErrors(list) ==
    IF \/ \E l \in ToSet(list) : ~LabelPasses(l)
       \/ Cardinality(UserLabels(NormalizeLabels(list))) > RequestLabelCap
    THEN {"labels"} ELSE {}

\* headers: the name is trimmed, and compared in lower case.
ControlledHeaders == {"from", "sender", "to", "cc", "bcc", "reply-to", "subject", "date", "message-id", "in-reply-to",
                      "references", "return-path", "mime-version"}
IsControlled(h) == h.name \in ControlledHeaders \/ h.name \in {"content-type", "content-id"}
HeaderPasses(h) == h.flaw = "none" /\ ~IsControlled(h)
TrimmedName(h) == [name |-> h.name, caps |-> h.spelled = "caps"]
PassedHeaders(list) == {TrimmedName(h) : h \in {x \in ToSet(list) : HeaderPasses(x)}}
HeaderErrors(list) ==
    IF (\E h \in ToSet(list) : ~HeaderPasses(h)) \/ Len(Those(list, HeaderPasses)) > HeadersMax
    THEN {"headers"} ELSE {}

\* url_policy.rs.  An address is [v, s]: IPv4, or mapped into IPv6, by its first
\* three octets; IPv6 by its first three segments.

IsPublicIpv4(s) ==
    LET a == s[1]
        b == s[2]
        c == s[3]
    IN ~(\/ a \in {0, 10, 127} \/ a >= 224
         \/ a = 100 /\ b \in 64..127
         \/ a = 169 /\ b = 254
         \/ a = 172 /\ b \in 16..31
         \/ a = 192 /\ (b = 168 \/ <<b, c>> \in {<<0, 0>>, <<0, 2>>, <<88, 99>>})
         \/ a = 198 /\ (b \in 18..19 \/ <<b, c>> = <<51, 100>>)
         \/ s = <<203, 0, 113>>)

\* 2000::/3, but for 6to4, Teredo, benchmarking, ORCHID and documentation.
IsPublicIpv6(s) ==
    /\ s[1] >= 8192 /\ s[1] < 16384
    /\ s[1] # 8194 /\ s[1] # 16383
    /\ s[1] = 8193 => s[2] \notin {0, 3512} \cup 16..63 /\ <<s[2], s[3]>> # <<2, 0>>

IsPublicIp(ip) == IF ip.v = "v6" THEN IsPublicIpv6(ip.s) ELSE IsPublicIpv4(ip.s)

\* parse_with, for a release build.  host.ip is the literal address, if any.
UrlPasses(name) ==
    LET url == UrlOf[name] IN
    /\ url.shape = "fine"
    /\ url.https /\ ~url.userinfo /\ url.port \in {"none", "443"}
    /\ url.host.kind = "ip" => IsPublicIp(url.host.ip)
    /\ url.host.kind # "none"

\* attachment_source: base64 content or a URL of an allowed shape, and only one.
HasSource(a) ==
    CASE a.content # "none" /\ a.url = "none" -> a.content = "bytes"
      [] a.content = "none" /\ a.url # "none" -> UrlPasses(a.url)
      [] OTHER -> FALSE
DecodedSize(a) == IF a.content = "bytes" /\ a.url = "none" THEN Size[a.bytes] ELSE 0

Disposition(a) == IF a.disposition = "none" THEN "attachment" ELSE a.disposition

\* "Two parts sharing a cid make an HTML reference ambiguous."
CidIsTaken(list, i) == \E j \in 1..(i - 1) : list[j].cid = list[i].cid

AttachmentErrs(list, i) ==
    LET a == list[i] IN
    \/ ~HasSource(a)
    \/ a.flaw # "none"
    \/ Disposition(a) \notin {"inline", "attachment"}
    \/ a.cid = "bad"
    \/ a.cid = "none" /\ Disposition(a) = "inline"
    \/ a.cid \notin {"none", "bad"} /\ CidIsTaken(list, i)

AttachmentErrors(list) ==
    IF \/ Len(list) > AttachmentsMax
       \/ \E i \in DOMAIN list : AttachmentErrs(list, i)
       \/ Total([i \in DOMAIN list |-> DecodedSize(list[i])]) > DecodedMax
    THEN {"attachments"} ELSE {}

\* validate: every objection is reported at once.
Validated(ask) ==
    [to |-> Addresses(ask.to.list), cc |-> Addresses(ask.cc.list), bcc |-> Addresses(ask.bcc.list),
     reply_to |-> Addresses(ask.reply_to), subject |-> ask.subject, bodies |-> ask.bodies,
     labels |-> NormalizeLabels(ask.labels), headers |-> PassedHeaders(ask.headers), attachments |-> ask.attachments]

ValidationErrors(ask) ==
    UNION {AddressErrors("to", ask.to.list), AddressErrors("cc", ask.cc.list), AddressErrors("bcc", ask.bcc.list),
           AddressErrors("reply_to", ask.reply_to), RecipientErrors(Validated(ask)),
           IF ask.subject \in {"absent", "fine"} THEN {} ELSE {"subject"},
           IF ask.bodies = {} THEN {"text"} ELSE {},
           LabelErrors(ask.labels), HeaderErrors(ask.headers), AttachmentErrors(ask.attachments)}

-----------------------------------------------------------------------------
\* spec.rs: what the outbox holds, and the queued message.

SpecAttachment(a) ==
    [stored |-> a.content # "none", url |-> a.url, inline |-> Disposition(a) = "inline", cid |-> a.cid, size |-> DecodedSize(a)]

\* build_spec, and the threading that enqueue gives a reply.
BuildSpec(v, inReplyTo, references) ==
    [from |-> Inbox, to |-> v.to, cc |-> v.cc, bcc |-> v.bcc, reply_to |-> v.reply_to, bodies |-> v.bodies,
     headers |-> v.headers, in_reply_to |-> inReplyTo, references |-> references,
     attachments |-> [i \in DOMAIN v.attachments |-> SpecAttachment(v.attachments[i])]]

QueuedLabels(v) == v.labels \cup {"queued"}

-----------------------------------------------------------------------------
\* build.rs: the document SES is given.  A tree is a leaf or a wrapper.

Leaf(type, cid, bytes) == [type |-> type, cid |-> cid, bytes |-> bytes, children |-> <<>>]
Wrap(type, children) == [Leaf(type, "none", "none") EXCEPT !.children = children]
Text(type) == Leaf(type, "none", "none")

\* alternative: the richer representation last.
Alternative(bodies) ==
    IF bodies = {"text", "html"} THEN Wrap("alternative", <<Text("text"), Text("html")>>)
    ELSE Text(IF "html" \in bodies THEN "html" ELSE "text")

\* Only a part shown inline gets a Content-ID, whatever the request names.
PartLeaf(spec, parts, i) ==
    Leaf("attached", IF spec.attachments[i].inline THEN spec.attachments[i].cid ELSE "none", parts[i])

\* body_part: each wrapper only when it has something to wrap.
BodyPart(spec, parts) ==
    LET those(inline) == InOrder({i \in DOMAIN spec.attachments : spec.attachments[i].inline = inline})
        leaves(inline) == [k \in DOMAIN those(inline) |-> PartLeaf(spec, parts, those(inline)[k])]
        related == IF those(TRUE) = <<>> THEN Alternative(spec.bodies)
                   ELSE Wrap("related", <<Alternative(spec.bodies)>> \o leaves(TRUE))
    IN IF those(FALSE) = <<>> THEN related ELSE Wrap("mixed", <<related>> \o leaves(FALSE))

Field(name) == [name |-> name, caps |-> FALSE]

\* What the mail-builder crate writes of itself.
BuilderFields == <<Field("date"), Field("mime-version"), Field("content-type")>>

\* build_outbound: the fields as written, and the body; never Bcc.
BuildOutbound(spec, parts) ==
    [fields |-> <<Field("from"), Field("message-id"), Field("subject")>>
                \o (IF spec.to = <<>> THEN <<>> ELSE <<Field("to")>>)
                \o (IF spec.cc = <<>> THEN <<>> ELSE <<Field("cc")>>)
                \o (IF spec.reply_to = <<>> THEN <<>> ELSE <<Field("reply-to")>>)
                \o (IF spec.in_reply_to = "none" THEN <<>> ELSE <<Field("in-reply-to")>>)
                \o (IF spec.references = <<>> THEN <<>> ELSE <<Field("references")>>)
                \o SetToSeq(spec.headers) \o BuilderFields,
     body |-> BodyPart(spec, parts)]
==============================================================================
