------------------------------ MODULE SendParts ------------------------------
(***************************************************************************)
(* One send from the request, or the mail it answers (MailParse), to the   *)
(* documents SES is given: validation (SendRequests), the outbox it fills, *)
(* and the attempts that load its parts, fetching the attachments given by *)
(* URL (load_parts in crates/webhook/src/mail/sender.rs, fetch.rs beside   *)
(* it) through an object store (aws/objects.rs).                           *)
(*                                                                         *)
(* Names resolve differently from one lookup to the next, what a URL       *)
(* serves changes, any call may fail, and a put that reports a failure may *)
(* have landed or land later.  Who may call SES is SendOutbox's subject:   *)
(* here `claim` is the attempt that may, and it is given up when that      *)
(* attempt hands back, or taken away while it is still at work.  How the   *)
(* uploads and the commit can fail is SendEnqueue's.                       *)
(***************************************************************************)
EXTENDS MailParse

CONSTANTS
    Attempts,      \* invocations of the sender, in any order
    Asks,          \* requests: [ask, original, raw]; raw is the mail answered,
                   \* if it was received, and original.id is "none" for a send
    Resolves,      \* the answers each domain may resolve to
    Served,        \* the bytes a URL may serve
    MaxRedirects,  \* MAX_REDIRECTS
    RawMax,        \* MAX_OUTBOUND_RAW_BYTES
    MaxCalls       \* bound on the calls to SES

Ips == [v : {"v4", "mapped", "v6"}, s : Nat \X Nat \X Nat]

ASSUME PartsAssumption ==
    /\ {MaxRedirects, RawMax, MaxCalls} \subseteq Nat
    /\ Size \in [DOMAIN Size -> Nat] /\ Served \subseteq DOMAIN Size \ {"none"}

\* What the JSON of a request, the mail it answers, a URL and a resolver can be.
ASSUME RequestsAreWellFormed ==
    \A w \in Asks :
       /\ w = [ask |-> w.ask, original |-> w.original, raw |-> w.raw] /\ IsRequest(w.ask)
       /\ w.original.id = "awaited" <=> w.raw.shape # "none"
       /\ IsSent(w.original)
       /\ w.raw.shape # "none" => IsMail(w.raw) /\ Cut[w.raw.message_id] \notin {"none", "awaited", "missing"}

ASSUME AddressesAreWellFormed ==
    /\ "none" \notin DOMAIN UrlOf
    /\ \A u \in DOMAIN UrlOf :
          LET host == UrlOf[u].host IN
          CASE host.kind = "ip" -> host.ip \in Ips
            [] host.kind = "domain" -> host.name \in DOMAIN Resolves
            [] OTHER -> host.kind = "none"
    /\ \A name \in DOMAIN Resolves : \A ips \in Resolves[name] : ips \subseteq Ips

VARIABLES
    wants,    \* the request and the message it answers
    reply,    \* the API's answer
    spec,     \* the stored spec, once queued
    labels,   \* the queued message's labels
    stored,   \* the parts in the outbox, by ordinal; 0 is none
    late,     \* puts that were given up and may still land
    claim,    \* the attempt that may call SES
    att,      \* where each attempt is
    calls,    \* the documents SES was given
    reached   \* the hosts that were connected to

partsVars == <<wants, reply, spec, labels, stored, late, claim, att, calls, reached>>

NoSpec == [from |-> Inbox, attachments |-> <<>>, bodies |-> {}]
Resting == [pc |-> "rest", part |-> 1, budget |-> DecodedMax, parts |-> <<>>, url |-> "none", hop |-> 0,
            pinned |-> {}, got |-> "none", absent |-> FALSE, raced |-> FALSE]
NoPart == "none"
\* part, parts, budget: load_parts' loop; url, hop, pinned, got: its fetch.  absent
\* and raced note that a part was not stored when it was looked for, but was when
\* the fetched one was put.

-----------------------------------------------------------------------------
\* Plausible slips, used to show that the checks notice.

FetchesEveryTime(i) == IF spec.attachments[i].stored THEN stored[i] ELSE NoPart
ResolvesAgain(a) == UNION Resolves[UrlOf[att[a].url].host.name]

-----------------------------------------------------------------------------
\* sdk_error.rs and aws/objects.rs: what an S3 failure is taken for.

SdkErrorIsTransient(failure) == failure \in {"timeout", "dispatch", "500", "429", "RequestTimeout"}

ClassifyObjectError(failure) ==
    CASE failure = "404" -> "notFound"
      [] failure = "403" -> "permanent"
      [] OTHER -> IF SdkErrorIsTransient(failure) THEN "transient" ELSE "permanent"

Failures == {"timeout", "403"}

\* put_if_absent_outcome.
PutOutcome(failure) == IF failure = "409" THEN "transient" ELSE ClassifyObjectError(failure)
PutFailures == Failures \cup {"409"}

\* get_object with its cap; a body over it is refused whatever its length said.
GetObject(bytes, max) ==
    IF bytes = NoPart THEN ClassifyObjectError("404")
    ELSE IF Size[bytes] > max THEN "tooLarge" ELSE "found"

\* object_load_error and fetch_error: fail for good, or hand back.
LoadErrorOf(error) == IF error = "transient" THEN "handBack" ELSE "fail"

\* ApiError of an ObjectError.
ApiErrorOf(error) ==
    CASE error = "notFound" -> "404"
      [] error = "transient" -> "502"
      [] OTHER -> "500"

-----------------------------------------------------------------------------
\* The request.

PartsInit ==
    /\ wants \in Asks
    /\ reply = "none" /\ spec = NoSpec /\ labels = {} /\ stored = <<>> /\ late = {}
    /\ claim = "none" /\ calls = <<>> /\ reached = {}
    /\ att = [a \in Attempts |-> Resting]

IsReply == wants.original.id # "none"
IsReceived == wants.raw.shape # "none"

\* Ingest: the mail that is to be answered is stored, or not.
Arrives ==
    /\ wants.original.id = "awaited"
    /\ wants' = [wants EXCEPT !.original = IF IngestOutcome(wants.raw) = "ingested" THEN ToMessage(wants.raw)
                                          ELSE [@ EXCEPT !.id = "missing"]]
    /\ UNCHANGED <<reply, spec, labels, stored, late, claim, att, calls, reached>>

\* content::load of the original: a document that is gone counts as empty.
ContentReads ==
    {[error |-> "none", content |-> NoContent]}
    \cup {IF ContentSize(wants.original) > ContentMax THEN [error |-> "tooLarge", content |-> NoContent]
          ELSE [error |-> "none", content |-> ContentOf(wants.original)]}
    \cup {[error |-> ClassifyObjectError(f), content |-> NoContent] : f \in Failures}

Asked(content) == IF IsReply THEN ReplyRequest(wants.ask, wants.original, content) ELSE wants.ask

\* send and reply, through enqueue: the parts given inline are uploaded, and the
\* spec; refused requests upload nothing.
Queues(content) ==
    LET ask == Asked(content)
        v == Validated(ask)
    IN IF ValidationErrors(ask) # {}
       THEN reply' = "400" /\ UNCHANGED <<spec, labels, stored>>
       ELSE /\ reply' = "200"
            /\ spec' = IF IsReply THEN BuildSpec(v, wants.original.id, ThreadingReferences(wants.original, content.references))
                                  ELSE BuildSpec(v, "none", <<>>)
            /\ labels' = QueuedLabels(v)
            /\ stored' = [i \in DOMAIN ask.attachments |->
                             IF ask.attachments[i].content = "none" THEN NoPart ELSE ask.attachments[i].bytes]

Submits ==
    /\ reply = "none" /\ wants.original.id # "awaited"
    /\ \E read \in IF wants.original.id = "missing" THEN {[error |-> "notFound", content |-> NoContent]}
                   ELSE IF IsReply THEN ContentReads ELSE {[error |-> "none", content |-> NoContent]} :
          IF read.error # "none" THEN reply' = ApiErrorOf(read.error) /\ UNCHANGED <<spec, labels, stored>>
          ELSE Queues(read.content)
    /\ UNCHANGED <<wants, late, claim, att, calls, reached>>

-----------------------------------------------------------------------------
\* load_parts.

Moves(a, next) == att' = [att EXCEPT ![a] = next]

\* What is left when an attempt stops: recorded as failed, or handed back.
Stops(a, how) ==
    /\ Moves(a, [Resting EXCEPT !.pc = "over"])
    /\ claim' = IF claim # a THEN claim ELSE IF how = "fail" THEN "settled" ELSE "none"

Claims(a) ==
    /\ att[a].pc = "rest" /\ claim = "none" /\ reply = "200"
    /\ claim' = a
    /\ Moves(a, [Resting EXCEPT !.pc = "part"])
    /\ UNCHANGED <<wants, reply, spec, labels, stored, late, calls, reached>>

AtPart(a) == att[a].pc = "part" /\ att[a].part <= Len(spec.attachments)

With(a, bytes, raced) ==
    Moves(a, [att[a] EXCEPT !.pc = "part", !.part = @ + 1, !.parts = Append(@, bytes), !.got = "none", !.url = "none",
                            !.pinned = {}, !.hop = 0, !.absent = FALSE, !.raced = @ \/ raced,
                            !.budget = IF Size[bytes] > @ THEN 0 ELSE @ - Size[bytes]])

\* What the outbox holds of a part: uploaded, or fetched by an earlier attempt.
Outbox(i) == stored[i]

ReadsPart(a) ==
    LET i == att[a].part
        bytes == Outbox(i)
        read == GetObject(bytes, RawMax)
        entry == spec.attachments[i]
    IN /\ AtPart(a)
       /\ CASE read = "found" -> With(a, bytes, FALSE) /\ UNCHANGED claim
            [] read = "notFound" /\ ~entry.stored /\ entry.url # "none" /\ UrlPasses(entry.url) ->
                  Moves(a, [att[a] EXCEPT !.pc = "resolve", !.url = entry.url, !.absent = stored[i] = NoPart]) /\ UNCHANGED claim
            [] OTHER -> Stops(a, LoadErrorOf(read))
       /\ UNCHANGED <<wants, reply, spec, labels, stored, late, calls, reached>>

\* A read that fails, or the time to load running out.
ReadFails(a) ==
    /\ AtPart(a)
    /\ \E f \in Failures : Stops(a, LoadErrorOf(ClassifyObjectError(f)))
    /\ UNCHANGED <<wants, reply, spec, labels, stored, late, calls, reached>>

\* addresses: every one has to be public, and they are kept for the connection.
Resolutions(url) == IF url.host.kind = "ip" THEN {{url.host.ip}} ELSE Resolves[url.host.name]

Resolve(a) ==
    /\ att[a].pc = "resolve"
    /\ \/ \E ips \in Resolutions(UrlOf[att[a].url]) :
             IF ips # {} /\ \A ip \in ips : IsPublicIp(ip)
             THEN Moves(a, [att[a] EXCEPT !.pc = "get", !.pinned = ips]) /\ UNCHANGED claim
             ELSE Stops(a, LoadErrorOf("permanent"))
       \/ Stops(a, LoadErrorOf("transient"))
    /\ UNCHANGED <<wants, reply, spec, labels, stored, late, calls, reached>>

\* client: the connection goes to the addresses that were vetted.
ConnectsTo(a) == att[a].pinned

Connects(a) ==
    /\ att[a].pc = "get"
    /\ reached' = reached \cup {[https |-> UrlOf[att[a].url].https, ip |-> ip] : ip \in ConnectsTo(a)}

\* A redirect is followed by hand: its target passes the same rules, and there
\* are only so many.
Redirected(a) ==
    /\ Connects(a)
    /\ \E next \in DOMAIN UrlOf :
          IF UrlPasses(next) /\ att[a].hop < MaxRedirects
          THEN Moves(a, [att[a] EXCEPT !.pc = "resolve", !.url = next, !.hop = @ + 1, !.pinned = {}]) /\ UNCHANGED claim
          ELSE Stops(a, LoadErrorOf("permanent"))
    /\ UNCHANGED <<wants, reply, spec, labels, stored, late, calls>>

\* The status, the encoding and the size, as announced or as read.
StatusError(status) ==
    IF status \in {"408", "429", "503", "unreachable"} THEN "transient" ELSE "permanent"

AnswersBadly(a) ==
    /\ Connects(a)
    /\ \E status \in {"503", "unreachable", "404", "encoded"} : Stops(a, LoadErrorOf(StatusError(status)))
    /\ UNCHANGED <<wants, reply, spec, labels, stored, late, calls>>

Serves(a) ==
    /\ Connects(a)
    /\ \E bytes \in Served :
          IF Size[bytes] > att[a].budget THEN Stops(a, LoadErrorOf("tooLarge"))
          ELSE Moves(a, [att[a] EXCEPT !.pc = "put", !.got = bytes]) /\ UNCHANGED claim
    /\ UNCHANGED <<wants, reply, spec, labels, stored, late, calls>>

\* put_object_if_absent: whoever comes second finds the first one's bytes there,
\* and keeps its own.
StoresPart(a) ==
    /\ att[a].pc = "put"
    /\ LET i == att[a].part IN
       /\ stored' = IF stored[i] = NoPart THEN [stored EXCEPT ![i] = att[a].got] ELSE stored
       /\ With(a, att[a].got, att[a].absent /\ stored[i] # NoPart)
    /\ UNCHANGED <<wants, reply, spec, labels, late, claim, calls, reached>>

StoreFails(a) ==
    /\ att[a].pc = "put"
    /\ \E f \in PutFailures : Stops(a, LoadErrorOf(PutOutcome(f)))
    /\ late' = late \cup {[part |-> att[a].part, bytes |-> att[a].got]}
    /\ UNCHANGED <<wants, reply, spec, labels, stored, calls, reached>>

Lands ==
    /\ \E put \in late :
          /\ late' = late \ {put}
          /\ stored' = IF stored[put.part] = NoPart THEN [stored EXCEPT ![put.part] = put.bytes] ELSE stored
    /\ UNCHANGED <<wants, reply, spec, labels, claim, att, calls, reached>>

-----------------------------------------------------------------------------
\* build, note_ses_call and the call.

Loaded(a) == att[a].pc = "part" /\ att[a].part > Len(spec.attachments)
RawSize(a) == 1 + Total([i \in DOMAIN att[a].parts |-> Size[att[a].parts[i]]])

TooLargeToSend(a) ==
    /\ Loaded(a) /\ RawSize(a) > RawMax
    /\ Stops(a, "fail")
    /\ UNCHANGED <<wants, reply, spec, labels, stored, late, calls, reached>>

\* SES answers for good, or the send is tried again: throttled and handed back, or
\* of unknown outcome and resent by an operator.
CallsSes(a) ==
    /\ Loaded(a) /\ RawSize(a) <= RawMax /\ claim = a
    /\ Len(calls) < MaxCalls
    /\ calls' = Append(calls, [mail |-> BuildOutbound(spec, att[a].parts), parts |-> att[a].parts,
                               raced |-> att[a].raced])
    /\ Moves(a, [Resting EXCEPT !.pc = "over"])
    /\ claim' \in {"settled", "none"}
    /\ UNCHANGED <<wants, reply, spec, labels, stored, late, reached>>

\* The claim moved on: nothing is sent.
ClaimIsLost(a) ==
    /\ Loaded(a) /\ RawSize(a) <= RawMax /\ claim # a
    /\ Stops(a, "skip")
    /\ UNCHANGED <<wants, reply, spec, labels, stored, late, calls, reached>>

\* The sweep takes a claim for stale.
Released ==
    /\ claim \in Attempts
    /\ claim' = "none"
    /\ UNCHANGED <<wants, reply, spec, labels, stored, late, att, calls, reached>>

Attempt(a) ==
    \/ Claims(a)
    \/ ReadsPart(a)
    \/ ReadFails(a)
    \/ Resolve(a)
    \/ Redirected(a)
    \/ AnswersBadly(a)
    \/ Serves(a)
    \/ StoresPart(a)
    \/ StoreFails(a)
    \/ TooLargeToSend(a)
    \/ CallsSes(a)
    \/ ClaimIsLost(a)

PartsNext ==
    \/ Arrives
    \/ Submits
    \/ \E a \in Attempts : Attempt(a)
    \/ Lands
    \/ Released

PartsSpec == PartsInit /\ [][PartsNext]_partsVars

-----------------------------------------------------------------------------
Boxes(list) == {a.box : a \in ToSet(list)}

\* What the mail that is answered said: as it was written, if it was received.
Addressed(list) == Those(list, LAMBDA m : m.box # "none")
FirstOf(list, n) == SubSeq(list, 1, AtMost(Len(list), n))
Said(field) ==
    IF IsReceived THEN Boxes(FirstOf(Addressed(wants.raw[field]), AddressListMax)) ELSE Boxes(wants.original[field])
Author ==
    IF ~IsReceived THEN wants.original.from.box
    ELSE IF Addressed(wants.raw.from) = <<>> THEN "none" ELSE Addressed(wants.raw.from)[1].box
Spelled(field) == ToSet(FirstOf(Addressed(wants.raw[field]), AddressListMax))
AddressesFit ==
    IsReceived => \A field \in {"from", "to", "cc", "bcc", "reply_to"} :
                     \A m \in ToSet(wants.raw[field]) : m.size <= AddressMax
AnswersWith(bodies) ==
    wants.ask = [wants.ask EXCEPT !.labels = <<>>, !.headers = <<>>, !.attachments = <<>>, !.reply_to = <<>>,
                                  !.bodies = bodies, !.subject = "absent"]

\* Whom a plain answer to received mail may be for, as the mail spells them.
OthersIn(field) == {m \in Spelled(field) : m.box # "inbox"}
AnswerMayGoTo ==
    IF Author # "inbox" THEN OthersIn("reply_to") \cup {Addressed(wants.raw.from)[1]}
    ELSE IF OthersIn("to") # {} THEN OthersIn("to")
    ELSE IF OthersIn("cc") # {} THEN OthersIn("cc") ELSE OthersIn("bcc")

\* reply.rs, "Blind copies stay blind" and "everything the caller leaves out
\* derived from the message being replied to": a reply that names nobody goes to
\* whoever wrote, or asked for the answer, or was written to; with reply_all to
\* everybody the original shows, once per list; never to the inbox itself unless
\* it wrote to itself alone; and whoever was a blind copy is shown to nobody.
\* That is said of the mail as its author wrote it, whatever names it spells and
\* however much of it is stored: format_addr, "the result has to parse back to the
\* same mailbox".  Whatever the size of its headers it can be answered, in its
\* thread; a subject that is at the limit or spans lines, more people than a send
\* may have, and an address that SES cannot deliver to (envelope_address) among
\* those the answer is for, are what a reply cannot take over.
RepliesReachTheRightPeople ==
    LET unnamed == ~(wants.ask.to.given \/ wants.ask.cc.given \/ wants.ask.bcc.given)
        shown == Boxes(spec.to \o spec.cc)
        visible == Said("to") \cup Said("cc")
        asked == IF Author = "inbox" THEN {"inbox"} ELSE Said("reply_to") \cup {Author}
    IN /\ IsReply => ContentSize(wants.original) <= ContentMax
       /\ IsReply /\ spec # NoSpec /\ unnamed /\ AddressesFit =>
          /\ shown \cup Boxes(spec.bcc) # {}
          /\ Boxes(spec.to) \cap Boxes(spec.cc) = {}
          /\ "inbox" \in shown => visible \cup Said("bcc") \cup asked \subseteq {"inbox"}
          /\ shown \cap Said("bcc") \subseteq visible \cup asked
          /\ Author # "inbox" => Boxes(spec.to) \subseteq asked
          /\ wants.ask.all => visible \ {"inbox"} \subseteq shown
          /\ ~wants.ask.all => spec.cc = <<>>
          /\ spec.in_reply_to = wants.original.id
          /\ Len(spec.references) \in 1..ReferencesMax
       /\ IsReceived /\ reply = "400" /\ unnamed /\ AddressesFit /\ Author # "none"
             /\ ~wants.ask.all /\ AnswersWith({"text"}) =>
          \/ ReplySubject(wants.original.subject) \in {"long", "newline"}
          \/ \E field \in {"to", "cc", "bcc", "reply_to"} : Cardinality(Said(field)) > RecipientsMax
          \/ \E m \in AnswerMayGoTo : m.flaw # "none"

\* classify_inbound, "Nothing is ever dropped": every part of a received mail is in a
\* body of its kind or kept as an attachment, once, unless the message says that
\* there were too many; the nearest references survive, and the header that
\* reaches the budget is the last; the labels say what SES found, and mail that
\* fails both checks is not shown as merely unauthenticated.
ReceivedMailIsKept ==
    IsReceived /\ wants.original.id \notin {"awaited", "missing"} =>
       LET m == wants.original.parsed
           labelled == wants.original.labels
           bodies == {p.bytes : p \in ToSet(m.text) \cup ToSet(m.html)}
           kept == {a.bytes : a \in ToSet(m.attachments)}
           leaves == {p \in ToSet(wants.raw.parts) : p.role # "container"}
           receipt == wants.raw.receipt
       IN /\ bodies \cap kept = {}
          /\ m.truncated \/ {p.bytes : p \in leaves} = bodies \cup kept
          /\ m.truncated => Len(m.attachments) = AttachmentsMax
          /\ bodies # {} => m.preview # "none"
          /\ wants.raw.references # <<>> => Last(m.references) = Cut[Last(wants.raw.references)]
          /\ m.headers # {} => \E h \in m.headers : wants.original.weights.headers - h.size < HeadersBudget
          /\ "spam" \in labelled <=> "FAIL" \in {receipt.spam, receipt.virus}
          /\ labelled \cap {"spam", "unauthenticated"} = {} <=>
                "FAIL" \notin {receipt.spam, receipt.virus, receipt.spf, receipt.dkim, receipt.dmarc}
          /\ Cardinality(labelled \cap {"spam", "unauthenticated"}) <= 1

Children(trees) == UNION {ToSet(t.children) : t \in trees}
Nodes(tree) == {tree} \cup Children({tree}) \cup Children(Children({tree})) \cup Children(Children(Children({tree})))

\* "a caller cannot rewrite From" and "Bcc is never written as a header": no field
\* the service or its MIME builder writes occurs twice, however a caller spells
\* one, and Bcc never; every part is in the document, no wrapper is around a single
\* one; a reference of the HTML finds the inline part it names, beside the body,
\* and no other ("two parts sharing a cid make an HTML reference ambiguous"); no label
\* records what has not happened, nor are there too many to store.
MailIsWhatTheServiceSays ==
    /\ \A c \in 1..Len(calls) :
          LET mail == calls[c].mail
              nodes == Nodes(mail.body)
              beside == Children({x \in nodes : x.type = "related"})
              found(cid) == {x \in nodes : x.cid = cid}
              count(name) == Cardinality({k \in DOMAIN mail.fields : mail.fields[k].name = name})
          IN /\ \A name \in ControlledHeaders \cup {"content-type"} : count(name) <= 1
             /\ count("from") = 1 /\ count("bcc") = 0
             /\ {n.bytes : n \in {x \in nodes : x.type = "attached"}} = ToSet(calls[c].parts)
             /\ \A i \in DOMAIN spec.attachments :
                   LET cid == spec.attachments[i].cid IN
                   spec.attachments[i].inline =>
                      found(cid) \subseteq beside /\ {x.bytes : x \in found(cid)} = {calls[c].parts[i]}
             /\ \A n \in nodes : Len(n.children) # 1
    /\ UserLabels(labels) = labels \ (SettableLabels \cup {"queued"})
    /\ Cardinality(UserLabels(labels)) <= RequestLabelCap

\* load_parts, "a URL fetched once and stored so a retry reuses it": all documents
\* SES is given for one send are the same, unless an attempt's part was stored by
\* another one while it fetched its own.
EveryAttemptSendsTheSame ==
    \A c, d \in 1..Len(calls) :
       ~calls[c].raced /\ ~calls[d].raced => calls[c] = calls[d]

\* The reserved blocks of IPv4 (by octets) and IPv6 (by segments), as prefixes:
\* base, and how many values of the last place it spans.
ReservedV4 == {[s |-> <<0>>, n |-> 1], [s |-> <<10>>, n |-> 1], [s |-> <<127>>, n |-> 1], [s |-> <<224>>, n |-> 32],
               [s |-> <<100, 64>>, n |-> 64], [s |-> <<169, 254>>, n |-> 1], [s |-> <<172, 16>>, n |-> 16],
               [s |-> <<192, 168>>, n |-> 1], [s |-> <<198, 18>>, n |-> 2], [s |-> <<192, 0, 0>>, n |-> 1],
               [s |-> <<192, 0, 2>>, n |-> 1], [s |-> <<192, 88, 99>>, n |-> 1], [s |-> <<198, 51, 100>>, n |-> 1],
               [s |-> <<203, 0, 113>>, n |-> 1]}
ReservedV6 == {[s |-> <<0>>, n |-> 8192], [s |-> <<16384>>, n |-> 49152], [s |-> <<8194>>, n |-> 1],
               [s |-> <<8193, 0>>, n |-> 1], [s |-> <<8193, 16>>, n |-> 48], [s |-> <<8193, 3512>>, n |-> 1],
               [s |-> <<16383>>, n |-> 1], [s |-> <<8193, 2, 0>>, n |-> 1]}
InBlock(ip, block) ==
    LET k == Len(block.s) IN
    /\ \A j \in 1..(k - 1) : ip.s[j] = block.s[j]
    /\ ip.s[k] \in block.s[k]..(block.s[k] + block.n - 1)

\* url_policy.rs, "fetch a public HTTPS host, and keep checking": whatever names
\* resolve to, from one moment to the next, and wherever redirects lead, no
\* connection is made but over https to an address outside the reserved blocks,
\* and what is fetched fits what the message may still hold.
FetchesStayPublic ==
    /\ \A host \in reached :
          /\ host.https
          /\ \A block \in IF host.ip.v = "v6" THEN ReservedV6 ELSE ReservedV4 : ~InBlock(host.ip, block)
    /\ \A a \in Attempts : att[a].got # "none" => Size[att[a].got] <= att[a].budget
==============================================================================
