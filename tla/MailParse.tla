------------------------------ MODULE MailParse ------------------------------
(***************************************************************************)
(* What is stored of a received mail: the receipt SES hands over           *)
(* (model/ses_inbound.rs and mail/ingest.rs of crates/webhook/src) and the *)
(* document behind it (mime.rs of crates/mailbox/src).                     *)
(*                                                                         *)
(* The mail-parser crate finds the fields and the parts; what becomes of   *)
(* them is modelled.  A mailbox has a name, given by the kinds of its      *)
(* characters, and an address of some length; `Cut` says what is left of   *)
(* an identifier or a subject that is too long.  How the objects and the   *)
(* item come to be stored is Ingest's subject.                             *)
(***************************************************************************)
EXTENDS SendRequests

CONSTANTS
    AddressMax,      \* ADDRESS_MAX_BYTES
    AddressListMax,  \* INBOUND_ADDRESS_LIST_MAX
    HeadersBudget,   \* HEADERS_BUDGET, in bytes
    Cut              \* truncate_bytes, by what is truncated

ASSUME ParseLimitsAssumption == {AddressMax, AddressListMax, HeadersBudget} \subseteq Nat /\ AddressListMax > 0

\* A mail once the parser has read it; its parts are told apart by their bytes.
NameChars == {"plain", "special", "escaped", "space", "control"}
AddressFlaws == {"none", "syntax", "nonAscii", "notSmtp"}
Mailboxes == [box : STRING, size : Nat, name : Seq(NameChars), flaw : AddressFlaws]
MailHeaders == [name : STRING, size : Nat]
MailParts ==
    [role : {"body", "media", "attachment", "container"}, kind : STRING, bytes : STRING,
     type : [of : STRING, flaw : STRING], filename : STRING, disposition : STRING]
IsMail(raw) ==
    /\ \A field \in {"from", "to", "cc", "bcc", "reply_to"} :
          /\ raw[field] \in Seq(Mailboxes)
          /\ \A m \in ToSet(raw[field]) : m.box = "inbox" => m.flaw = "none"
    /\ Cut[raw.subject] \in {"fine", "full", "newline"}
    /\ raw.references \in Seq(STRING) /\ raw.headers \in Seq(MailHeaders) /\ raw.parts \in Seq(MailParts)
    /\ \A i, j \in DOMAIN raw.parts : raw.parts[i].bytes = raw.parts[j].bytes => i = j
    /\ \A p \in ToSet(raw.parts) : p.role = "body" => p.kind \in {"text", "html"}
    /\ \A p \in ToSet(raw.parts) : p.role = "media" => p.kind \notin {"text", "html"}

AtMost(n, max) == IF n > max THEN max ELSE n

-----------------------------------------------------------------------------
\* Plausible slips, used to show that the checks notice.

CutsTheWholeString(m) ==
    [box |-> m.box, size |-> m.size, flaw |-> m.flaw, name |-> [quoted |-> FALSE, chars |-> m.name],
     kept |-> AtMost(m.size, IF Len(m.name) + 3 > AddressMax THEN 0 ELSE AddressMax - Len(m.name) - 3)]
ListedAsAttachment(part) == part.role = "attachment"

-----------------------------------------------------------------------------
\* truncate_bytes.
TruncateBytes(text) == Cut[text]

\* PHRASE_SPECIALS; two of them are escaped in a quoted string.
Specials == {"special", "escaped"}
NoName == [quoted |-> FALSE, chars |-> <<>>]

Spaced(name) == [i \in DOMAIN name |-> IF name[i] = "control" THEN "space" ELSE name[i]]
TrimEnd(name) ==
    LET ends == {i \in DOMAIN name : name[i] # "space"}
    IN SubSeq(name, 1, IF ends = {} THEN 0 ELSE CHOOSE i \in ends : \A j \in ends : j <= i)
Trim(name) == Reverse(TrimEnd(Reverse(TrimEnd(name))))
Written(chars) == Len(chars) + Cardinality({i \in DOMAIN chars : chars[i] = "escaped"})

\* display_name: as much of the name as fits, as a phrase.
DisplayName(raw, budget) ==
    LET name == Trim(Spaced(raw))
        fits == {k \in 0..Len(name) : 2 + Written(SubSeq(name, 1, k)) <= budget}
        kept == SubSeq(name, 1, IF fits = {} THEN 0 ELSE CHOOSE k \in fits : \A j \in fits : j <= k)
    IN IF ToSet(name) \cap Specials = {}
       THEN [quoted |-> FALSE, chars |-> TrimEnd(SubSeq(name, 1, AtMost(Len(name), budget)))]
       ELSE IF kept = <<>> THEN NoName ELSE [quoted |-> TRUE, chars |-> kept]

\* format_addr: the name gives way, never the address.
FormatAddr(m) ==
    LET framing == 3 + m.size
        name == IF framing > AddressMax THEN NoName ELSE DisplayName(m.name, AddressMax - framing)
    IN [box |-> m.box, size |-> m.size, flaw |-> m.flaw, name |-> name,
        kept |-> IF name = NoName THEN AtMost(m.size, AddressMax) ELSE m.size]

\* What the address parser makes of the stored string; it says what it dislikes of
\* the address itself as well, such as letters SES cannot deliver to.
ReadsBack(s) ==
    LET name == s.name
        size == s.kept + (IF name = NoName THEN 0 ELSE 3 + Written(name.chars) + (IF name.quoted THEN 2 ELSE 0))
    IN [box |-> IF s.kept < s.size THEN "another" ELSE s.box, named |-> name # NoName, caps |-> FALSE,
        flaw |-> IF size > AddressMax THEN "long"
                ELSE IF ~name.quoted /\ ToSet(name.chars) \cap (Specials \cup {"control"}) # {} THEN "syntax"
                ELSE s.flaw]

\* flatten_addresses: entries without an address are left out, and there are only
\* so many.
FlattenAddresses(list) ==
    LET addressed == Those(list, LAMBDA m : m.box # "none") IN
    [i \in 1..AtMost(Len(addressed), AddressListMax) |-> ReadsBack(FormatAddr(addressed[i]))]

\* wrap_id, id_list, and the nearest of too many references.
WrapId(id) == TruncateBytes(id)
IdList(ids) == [i \in DOMAIN ids |-> WrapId(ids[i])]
Nearest(ids) == IF Len(ids) > ReferencesMax THEN SubSeq(ids, Len(ids) - ReferencesMax + 1, Len(ids)) ELSE ids

\* collect_headers: up to the one that reaches the budget, the last of each name.
HeaderTotal(list, n) == Total([i \in 1..n |-> list[i].size])
CollectHeaders(list) ==
    LET within == {k \in DOMAIN list : HeaderTotal(list, k - 1) < HeadersBudget}
    IN {k \in within : \A m \in within : m > k => list[m].name # list[k].name}

-----------------------------------------------------------------------------
\* The parts of the message itself, as the parser sorts them: a part of a body, a
\* medium shown in both, an attachment, or a container.  A lone body is listed as
\* the other one too.

Listed(parts, kind) ==
    LET own == Those(parts, LAMBDA p : p.role = "body" /\ p.kind = kind)
        shown == Those(parts, LAMBDA p : p.role \in {"body", "media"})
    IN IF own = <<>> THEN shown ELSE own \o Those(parts, LAMBDA p : p.role = "media")

\* join_body_parts of the genuine parts of a kind.
GenuineBody(parts, kind) == Those(Listed(parts, kind), LAMBDA p : p.kind = kind)

\* preview: of the text, if there is any.
Preview(parts) ==
    IF GenuineBody(parts, "text") # <<>> THEN "text"
    ELSE IF GenuineBody(parts, "html") # <<>> THEN "html" ELSE "none"

\* attachment_parts.
IsKept(part) == part.role = "attachment" \/ part.role = "media"
AttachmentParts(parts) == Those(parts, IsKept)

\* normalize_content_type, normalized_disposition, nested_message_filename and
\* build_attachment.
NormalizeContentType(type) == IF type.flaw = "none" THEN type.of ELSE "application/octet-stream"
NormalizedDisposition(part) == IF part.disposition = "inline" THEN "inline" ELSE "attachment"
NestedMessageFilename(part) == IF part.filename = "none" THEN "message" ELSE TruncateBytes(part.filename)
BuildAttachment(part) ==
    [bytes |-> part.bytes,
     type |-> IF part.kind = "message" THEN "message/rfc822" ELSE NormalizeContentType(part.type),
     filename |-> IF part.kind = "message" THEN NestedMessageFilename(part) ELSE TruncateBytes(part.filename),
     disposition |-> NormalizedDisposition(part)]

\* Who wrote when no address says so.
Unknown == [box |-> "none", named |-> FALSE, caps |-> FALSE, flaw |-> "empty"]

\* parse_inbound.
ParseInbound(raw) ==
    LET from == FlattenAddresses(raw.from)
        kept == AttachmentParts(raw.parts)
    IN [id |-> WrapId(raw.message_id),
        from |-> IF from = <<>> THEN Unknown ELSE from[1],
        to |-> FlattenAddresses(raw.to), cc |-> FlattenAddresses(raw.cc), bcc |-> FlattenAddresses(raw.bcc),
        reply_to |-> FlattenAddresses(raw.reply_to),
        references |-> Nearest(IdList(raw.references)),
        subject |-> TruncateBytes(raw.subject),
        text |-> GenuineBody(raw.parts, "text"), html |-> GenuineBody(raw.parts, "html"), preview |-> Preview(raw.parts),
        headers |-> {raw.headers[k] : k \in CollectHeaders(raw.headers)},
        attachments |-> [i \in 1..AtMost(Len(kept), AttachmentsMax) |-> BuildAttachment(kept[i])],
        truncated |-> Len(kept) > AttachmentsMax]

-----------------------------------------------------------------------------
\* The receipt.

Failed(verdict) == verdict = "FAIL"
IsQuarantined(receipt) == Failed(receipt.spam) \/ Failed(receipt.virus)
AuthFailed(receipt) == Failed(receipt.spf) \/ Failed(receipt.dkim) \/ Failed(receipt.dmarc)

ClassifyInbound(quarantined, unproven) ==
    CASE quarantined -> {"spam"}
      [] ~quarantined /\ unproven -> {"unauthenticated"}
      [] OTHER -> {}
VerdictLabels(receipt) == {"received", "unread"} \cup ClassifyInbound(IsQuarantined(receipt), AuthFailed(receipt))

\* s3_pointer and guarded_s3_pointer: the bucket is ours, and both are given.
S3Pointer(receipt) == IF receipt.key THEN receipt.bucket ELSE "none"
GuardedS3Pointer(receipt) == S3Pointer(receipt) = "mail"

\* received_ms: never the clock, as the message's id follows from it.
ReceivedMs(receipt) ==
    LET known == Those(receipt.times, LAMBDA t : t # "none") IN IF known = <<>> THEN "none" ELSE known[1]

\* normalized_recipients: trimmed, in lower case, each once.
NormalizedRecipients(receipt) == Once([i \in DOMAIN receipt.recipients |-> receipt.recipients[i].box])

\* ingest_inbound: nothing to store, nothing that could be, or the message.
IngestOutcome(raw) ==
    IF \/ ~GuardedS3Pointer(raw.receipt) \/ ReceivedMs(raw.receipt) = "none"
       \/ ~Contains(NormalizedRecipients(raw.receipt), "inbox")
    THEN "skipped"
    ELSE IF raw.shape \in {"malformed", "oversized"} THEN "failed" ELSE "ingested"

\* to_message, and the document beside it with what its fields weigh.
ToMessage(raw) ==
    LET parsed == ParseInbound(raw)
        sizes == [k \in DOMAIN raw.headers |-> IF k \in CollectHeaders(raw.headers) THEN raw.headers[k].size ELSE 0]
    IN [id |-> parsed.id, from |-> parsed.from, to |-> parsed.to, cc |-> parsed.cc, bcc |-> parsed.bcc,
        reply_to |-> parsed.reply_to, references |-> parsed.references, subject |-> parsed.subject,
        weights |-> [bodies |-> Len(parsed.text) + Len(parsed.html), references |-> Len(parsed.references),
                     reply_to |-> Len(parsed.reply_to), headers |-> Total(sizes), verdicts |-> 1],
        at |-> ReceivedMs(raw.receipt), labels |-> VerdictLabels(raw.receipt), parsed |-> parsed]
==============================================================================
