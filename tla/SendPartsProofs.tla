--------------------------- MODULE SendPartsProofs ---------------------------
(***************************************************************************)
(* Machine-checked proofs about SendParts, for any requests and answered   *)
(* mail, any attempts however they interleave, whatever names resolve to   *)
(* and URLs serve, and any limits.                                         *)
(***************************************************************************)
EXTENDS SendParts, FiniteSetTheorems, SequenceTheorems, TLAPS

PublicIps == {ip \in Ips : IsPublicIp(ip)}

AttState ==
    [pc : {"rest", "part", "resolve", "get", "put", "over"}, part : Nat \ {0}, budget : Nat,
     parts : Seq(DOMAIN Size), url : DOMAIN UrlOf \cup {"none"}, hop : Nat, pinned : SUBSET PublicIps,
     got : DOMAIN Size \cup {"none"}, absent : BOOLEAN, raced : BOOLEAN]

SpecAttachments == [stored : BOOLEAN, url : DOMAIN UrlOf \cup {"none"}, inline : BOOLEAN, cid : STRING, size : Nat]

\* What is asked for is what was asked for; the original may still arrive.
WantsOK(w) == w = [ask |-> w.ask, original |-> w.original, raw |-> w.raw] /\ IsRequest(w.ask)

\* What was queued: headers and labels a caller may set, and the parts that were
\* given inline.
HeadersOK(headers) ==
    /\ IsFiniteSet(headers)
    /\ \A h \in headers : h.name \notin ControlledHeaders \cup {"content-type", "content-id"}

LabelsOK(own) ==
    /\ own \cap SystemLabels \subseteq SettableLabels
    /\ IsFiniteSet(own) /\ Cardinality(UserLabels(own)) <= RequestLabelCap

\* A part that the HTML refers to has a name of its own.
InlinesNamed(list) ==
    \A i \in DOMAIN list : list[i].inline =>
       list[i].cid # "none" /\ \A j \in DOMAIN list : list[j].cid = list[i].cid => j = i

SpecOK(sp, st, lb) ==
    /\ sp.attachments \in Seq(SpecAttachments) /\ InlinesNamed(sp.attachments)
    /\ st \in [DOMAIN sp.attachments -> DOMAIN Size \cup {"none"}]
    /\ HeadersOK(sp.headers)
    /\ \E own : lb = own \cup {"queued"} /\ LabelsOK(own)

Untouched ==
    /\ \A a \in Attempts : att[a].pc \in {"rest", "over"}
    /\ late = {} /\ calls = <<>> /\ reached = {} /\ labels = {}

\* What an attempt may rely on where it is, with n parts to load: what it fetches
\* passed the rules, and was missing when it was looked for; what it has loaded is
\* in the outbox, unless another attempt was faster.
Fetches(s, n) ==
    s.pc \in {"resolve", "get", "put"} =>
       s.url \in DOMAIN UrlOf /\ UrlPasses(s.url) /\ s.absent /\ s.part <= n

FitsBudget(s) ==
    /\ s.got # "none" => Size[s.got] <= s.budget
    /\ s.pc = "put" => s.got # "none"

AreStored(parts, st, n) == \A i \in 1 .. n : parts[i] = st[i] /\ st[i] # "none"

Loads(s, st, n) ==
    s.pc \in {"part", "resolve", "get", "put"} =>
       s.part <= n + 1 /\ Len(s.parts) = s.part - 1 /\ (~s.raced => AreStored(s.parts, st, s.part - 1))

AttemptOK(s, st, n) == s \in AttState /\ Fetches(s, n) /\ FitsBudget(s) /\ Loads(s, st, n)

AttemptsOK(at, st, n) == at \in [Attempts -> AttState] /\ \A a \in Attempts : AttemptOK(at[a], st, n)

LateOK(puts, n) == \A put \in puts : put.part \in 1 .. n /\ put.bytes \in DOMAIN Size \ {"none"}

CallOK(call, sp, st) ==
    /\ call = [mail |-> BuildOutbound(sp, call.parts), parts |-> call.parts, raced |-> call.raced]
    /\ call.raced \in BOOLEAN
    /\ call.parts \in Seq(DOMAIN Size) /\ Len(call.parts) = Len(sp.attachments)
    /\ ~call.raced => AreStored(call.parts, st, Len(sp.attachments))

CallsOK(cs, sp, st) == cs \in Seq({cs[c] : c \in 1 .. Len(cs)}) /\ \A c \in 1 .. Len(cs) : CallOK(cs[c], sp, st)

ReachedOK(hosts) == \A host \in hosts : host.https /\ host.ip \in PublicIps

\* The inductive invariant.
PartsInv ==
    /\ WantsOK(wants) /\ AttemptsOK(att, stored, Len(spec.attachments)) /\ LateOK(late, Len(spec.attachments))
    /\ CallsOK(calls, spec, stored) /\ ReachedOK(reached)
    /\ IF reply = "200" THEN SpecOK(spec, stored, labels) ELSE Untouched

-----------------------------------------------------------------------------
(***************************************************************************)
(* Addresses.                                                              *)
(***************************************************************************)

LEMMA V4Outside ==
    ASSUME NEW ip \in Ips, ip.v # "v6", IsPublicIp(ip)
    PROVE  \A block \in ReservedV4 : ~InBlock(ip, block)
<1> DEFINE a == ip.s[1]
           b == ip.s[2]
           c == ip.s[3]
<1>1. a \in Nat /\ b \in Nat /\ c \in Nat /\ ip.s = <<a, b, c>>
  BY DEF Ips
<1>2. /\ a \notin {0, 10, 127} /\ a < 224
      /\ ~(a = 100 /\ b \in 64 .. 127) /\ ~(a = 169 /\ b = 254) /\ ~(a = 172 /\ b \in 16 .. 31)
      /\ ~(a = 192 /\ (b = 168 \/ <<b, c>> \in {<<0, 0>>, <<0, 2>>, <<88, 99>>}))
      /\ ~(a = 198 /\ (b \in 18 .. 19 \/ <<b, c>> = <<51, 100>>))
      /\ ip.s # <<203, 0, 113>>
  BY <1>1 DEF IsPublicIp, IsPublicIpv4
<1>3. /\ ~(a = 192 /\ b = 0 /\ c \in {0, 2}) /\ ~(a = 192 /\ b = 88 /\ c = 99)
      /\ ~(a = 198 /\ b = 51 /\ c = 100) /\ ~(a = 203 /\ b = 0 /\ c = 113)
  BY <1>1, <1>2
<1>4. ASSUME NEW block \in ReservedV4, Len(block.s) = 1 PROVE ~InBlock(ip, block)
  BY <1>1, <1>2, <1>4 DEF InBlock, ReservedV4
<1>5. ASSUME NEW block \in ReservedV4, Len(block.s) = 2 PROVE ~InBlock(ip, block)
  BY <1>1, <1>2, <1>5 DEF InBlock, ReservedV4
<1>6. ASSUME NEW block \in ReservedV4, Len(block.s) = 3 PROVE ~InBlock(ip, block)
  BY <1>1, <1>3, <1>6 DEF InBlock, ReservedV4
<1>7. \A block \in ReservedV4 : Len(block.s) \in {1, 2, 3}
  BY DEF ReservedV4
<1> QED BY <1>4, <1>5, <1>6, <1>7

LEMMA V6Outside ==
    ASSUME NEW ip \in Ips, ip.v = "v6", IsPublicIp(ip)
    PROVE  \A block \in ReservedV6 : ~InBlock(ip, block)
<1> DEFINE a == ip.s[1]
           b == ip.s[2]
           c == ip.s[3]
<1>1. a \in Nat /\ b \in Nat /\ c \in Nat
  BY DEF Ips
<1>2. IsPublicIpv6(ip.s)
  BY DEF IsPublicIp
<1>3. /\ 8192 <= a /\ a < 16384 /\ a # 8194 /\ a # 16383
      /\ a = 8193 => b \notin {0, 3512} \cup 16 .. 63 /\ ~(b = 2 /\ c = 0)
  BY <1>2 DEF IsPublicIpv6
<1>4. ASSUME NEW block \in ReservedV6, InBlock(ip, block) PROVE FALSE
  <2> DEFINE x == block.s[1]
             y == block.s[2]
             n == block.n
  <2>1. CASE block \in {[s |-> <<0>>, n |-> 8192], [s |-> <<16384>>, n |-> 49152], [s |-> <<8194>>, n |-> 1],
                        [s |-> <<16383>>, n |-> 1]}
    <3>1. Len(block.s) = 1 /\ <<x, n>> \in {<<0, 8192>>, <<16384, 49152>>, <<8194, 1>>, <<16383, 1>>}
      BY <2>1
    <3>2. a \in x .. (x + n - 1)
      BY <1>4, <3>1 DEF InBlock
    <3>3. a >= x /\ a <= x + n - 1
      BY <1>1, <3>1, <3>2
    <3> HIDE DEF a, x, n
    <3> QED BY <1>1, <1>3, <3>1, <3>3
  <2>2. CASE block \in {[s |-> <<8193, 0>>, n |-> 1], [s |-> <<8193, 16>>, n |-> 48], [s |-> <<8193, 3512>>, n |-> 1]}
    <3>1. Len(block.s) = 2 /\ x = 8193 /\ <<y, n>> \in {<<0, 1>>, <<16, 48>>, <<3512, 1>>}
      BY <2>2
    <3>2. a = x /\ b \in y .. (y + n - 1)
      BY <1>4, <3>1 DEF InBlock
    <3>3. b >= y /\ b <= y + n - 1
      BY <1>1, <3>1, <3>2
    <3> HIDE DEF a, b, x, y, n
    <3> QED BY <1>1, <1>3, <3>1, <3>2, <3>3
  <2>3. CASE block = [s |-> <<8193, 2, 0>>, n |-> 1]
    <3>1. Len(block.s) = 3 /\ block.s[1] = 8193 /\ block.s[2] = 2 /\ block.s[3] = 0 /\ n = 1
      BY <2>3
    <3>2. a = 8193 /\ b = 2 /\ c \in 0 .. (0 + 1 - 1)
      BY <1>4, <3>1 DEF InBlock
    <3> HIDE DEF a, b, c
    <3> QED BY <1>1, <1>3, <3>2
  <2> QED BY <2>1, <2>2, <2>3 DEF ReservedV6
<1> QED BY <1>4

-----------------------------------------------------------------------------
(***************************************************************************)
(* The outbox only grows, and what is in it stays.                         *)
(***************************************************************************)

Grows(st, then) ==
    /\ DOMAIN then = DOMAIN st
    /\ then \in [DOMAIN st -> DOMAIN Size \cup {"none"}]
    /\ \A i \in DOMAIN st : st[i] # "none" => then[i] = st[i]

LEMMA StoredStay ==
    ASSUME NEW st, NEW then, Grows(st, then), NEW n \in Nat, DOMAIN st = 1 .. n,
           NEW parts, NEW k \in Nat, k <= n, AreStored(parts, st, k)
    PROVE  AreStored(parts, then, k)
BY DEF Grows, AreStored

LEMMA LoadsStay ==
    ASSUME NEW st, NEW then, Grows(st, then), NEW n \in Nat, DOMAIN st = 1 .. n,
           NEW s, AttemptOK(s, st, n)
    PROVE  AttemptOK(s, then, n)
<1>1. s.part \in Nat \ {0}
  BY DEF AttemptOK, AttState
<1>2. s.part <= n + 1 /\ AreStored(s.parts, st, s.part - 1) => AreStored(s.parts, then, s.part - 1)
  <2> SUFFICES ASSUME s.part <= n + 1, AreStored(s.parts, st, s.part - 1)
               PROVE  AreStored(s.parts, then, s.part - 1)
    OBVIOUS
  <2>1. s.part - 1 \in Nat /\ s.part - 1 <= n
    BY <1>1
  <2> QED BY <2>1, StoredStay
<1> QED BY <1>2 DEF AttemptOK, Loads

LEMMA CallsStay ==
    ASSUME NEW sp, NEW st, NEW then, Grows(st, then), NEW n \in Nat, n = Len(sp.attachments), DOMAIN st = 1 .. n,
           NEW cs, CallsOK(cs, sp, st)
    PROVE  CallsOK(cs, sp, then)
<1>1. ASSUME NEW c \in 1 .. Len(cs) PROVE CallOK(cs[c], sp, then)
  <2>1. CallOK(cs[c], sp, st)
    BY DEF CallsOK
  <2>2. AreStored(cs[c].parts, st, n) => AreStored(cs[c].parts, then, n)
    BY StoredStay
  <2> QED BY <2>1, <2>2 DEF CallOK
<1> QED BY <1>1 DEF CallsOK

LEMMA SpecStays ==
    ASSUME NEW sp, NEW st, NEW then, Grows(st, then), NEW lb, SpecOK(sp, st, lb)
    PROVE  SpecOK(sp, then, lb)
BY DEF SpecOK, Grows

LEMMA StoredDomain ==
    ASSUME PartsInv, reply = "200"
    PROVE  Len(spec.attachments) \in Nat /\ DOMAIN stored = 1 .. Len(spec.attachments)
           /\ DOMAIN spec.attachments = 1 .. Len(spec.attachments)
BY DEF PartsInv, SpecOK

\* What a step of an attempt leaves alone.
Settled == UNCHANGED <<wants, reply, spec, labels>>

\* An attempt's step, and what is left to show of it.
LEMMA OneMoves ==
    ASSUME PartsInv, reply = "200", Settled, NEW a \in Attempts, NEW s, Moves(a, s), Grows(stored, stored'),
           AttemptOK(s, stored', Len(spec.attachments)), LateOK(late', Len(spec.attachments)),
           CallsOK(calls', spec, stored'), ReachedOK(reached')
    PROVE  PartsInv'
<1> DEFINE n == Len(spec.attachments)
<1>1. /\ WantsOK(wants) /\ AttemptsOK(att, stored, n) /\ SpecOK(spec, stored, labels)
      /\ n \in Nat /\ DOMAIN stored = 1 .. n
  BY StoredDomain DEF PartsInv
<1>2. wants' = wants /\ reply' = reply /\ spec' = spec /\ labels' = labels
  BY DEF Settled
<1>3. AttemptsOK(att', stored', n)
  <2>1. att \in [Attempts -> AttState] /\ \A o \in Attempts : AttemptOK(att[o], stored, n)
    BY <1>1 DEF AttemptsOK
  <2>2. att' = [att EXCEPT ![a] = s] /\ s \in AttState
    BY DEF Moves, AttemptOK
  <2>3. att' \in [Attempts -> AttState] /\ \A o \in Attempts : att'[o] = s \/ att'[o] = att[o]
    BY <2>1, <2>2
  <2>4. \A o \in Attempts : AttemptOK(att[o], stored', n)
    <3> HIDE DEF n
    <3> QED BY <1>1, <2>1, LoadsStay
  <2>5. ASSUME NEW o \in Attempts PROVE AttemptOK(att'[o], stored', n)
    BY <2>3, <2>4
  <2> QED BY <2>3, <2>5 DEF AttemptsOK
<1>4. SpecOK(spec, stored', labels)
  BY <1>1, SpecStays
<1> QED BY <1>1, <1>2, <1>3, <1>4 DEF PartsInv

LEMMA NothingLands ==
    ASSUME PartsInv, reply = "200", UNCHANGED stored
    PROVE  /\ Grows(stored, stored')
           /\ UNCHANGED calls => CallsOK(calls', spec, stored')
           /\ UNCHANGED late => LateOK(late', Len(spec.attachments))
           /\ UNCHANGED reached => ReachedOK(reached')
BY DEF PartsInv, SpecOK, Grows

LEMMA OverIsOK ==
    ASSUME NEW st, NEW n \in Nat
    PROVE  AttemptOK([Resting EXCEPT !.pc = "over"], st, n)
<1>1. DecodedMax \in Nat
  BY RequestLimitsAssumption
<1>2. [Resting EXCEPT !.pc = "over"] \in AttState
  <2>1. <<>> \in Seq(DOMAIN Size)
    OBVIOUS
  <2>2. Resting \in AttState
    BY <1>1, <2>1 DEF Resting, AttState
  <2> QED BY <2>2 DEF AttState
<1> QED BY <1>2 DEF AttemptOK, Fetches, FitsBudget, Loads, Resting

\* An attempt that stops, whatever it stops for.
LEMMA StopsWell ==
    ASSUME PartsInv, reply = "200", Settled, UNCHANGED <<stored, calls>>, NEW a \in Attempts, NEW how, Stops(a, how),
           LateOK(late', Len(spec.attachments)), ReachedOK(reached')
    PROVE  PartsInv'
<1>1. Moves(a, [Resting EXCEPT !.pc = "over"])
  BY DEF Stops
<1>2. AttemptOK([Resting EXCEPT !.pc = "over"], stored', Len(spec.attachments))
  BY StoredDomain, OverIsOK
<1>3. Grows(stored, stored') /\ CallsOK(calls', spec, stored')
  BY NothingLands
<1> QED BY <1>1, <1>2, <1>3, OneMoves

-----------------------------------------------------------------------------
(***************************************************************************)
(* The request.                                                            *)
(***************************************************************************)

Replied(ask, asked) ==
    /\ asked.attachments = ask.attachments /\ asked.labels = ask.labels /\ asked.headers = ask.headers

\* Whatever a reply derives, it adds no attachment, label or header.
LEMMA AskedKeeps ==
    ASSUME WantsOK(wants), NEW content
    PROVE  Replied(wants.ask, Asked(content))
<1> DEFINE ask == wants.ask
<1>1. ask = [to |-> ask.to, cc |-> ask.cc, bcc |-> ask.bcc, reply_to |-> ask.reply_to, subject |-> ask.subject,
             bodies |-> ask.bodies, all |-> ask.all, labels |-> ask.labels, headers |-> ask.headers,
             attachments |-> ask.attachments]
  BY DEF WantsOK, IsRequest
<1>2. ASSUME NEW to, NEW cc, NEW bcc, NEW subject, NEW asked,
             asked \in {ask, [ask EXCEPT !.subject = subject], [ask EXCEPT !.bcc = bcc],
                        [[ask EXCEPT !.bcc = bcc] EXCEPT !.subject = subject],
                        [ask EXCEPT !.to = to, !.cc = cc], [[ask EXCEPT !.to = to, !.cc = cc] EXCEPT !.subject = subject]}
      PROVE  Replied(ask, asked)
  BY <1>1, <1>2 DEF Replied
<1> HIDE DEF ask
<1>3. \A to, cc, bcc, subject, asked :
         asked \in {ask, [ask EXCEPT !.subject = subject], [ask EXCEPT !.bcc = bcc],
                    [[ask EXCEPT !.bcc = bcc] EXCEPT !.subject = subject],
                    [ask EXCEPT !.to = to, !.cc = cc], [[ask EXCEPT !.to = to, !.cc = cc] EXCEPT !.subject = subject]}
            => Replied(ask, asked)
  BY <1>2
<1> QED BY <1>3 DEF Asked, ReplyRequest, AddressReply, ask

\* What a sequence lists is finite.
LEMMA ListedAreFinite ==
    ASSUME NEW n \in Nat, NEW f, f = [i \in 1 .. n |-> f[i]], NEW T, T \subseteq {f[i] : i \in 1 .. n}
    PROVE  IsFiniteSet(T)
<1> DEFINE S == {f[i] : i \in 1 .. n}
<1>1. f \in Surjection(1 .. n, S)
  BY DEF Surjection
<1>2. IsFiniteSet(S)
  BY <1>1, FS_NatSurjection DEF ExistsSurjection
<1> QED BY <1>2, FS_Subset

LEMMA NormalizedLabels ==
    ASSUME NEW list \in Seq([name : STRING, flaw : STRING]), LabelErrors(list) = {}
    PROVE  LabelsOK(NormalizeLabels(list))
<1> DEFINE own == NormalizeLabels(list)
           f == [i \in 1 .. Len(list) |-> list[i].name]
<1>1. own = {l.name : l \in {x \in ToSet(list) : LabelPasses(x)}}
  BY DEF NormalizeLabels
<1>2. own \cap SystemLabels \subseteq SettableLabels
  BY <1>1 DEF LabelPasses, IsReserved
<1>3. own \subseteq {f[i] : i \in 1 .. Len(list)}
  BY <1>1 DEF ToSet
<1>4. IsFiniteSet(own)
  <2> Len(list) \in Nat /\ f = [i \in 1 .. Len(list) |-> f[i]]
    OBVIOUS
  <2> HIDE DEF own, f
  <2> QED BY <1>3, ListedAreFinite
<1>5. ~(Cardinality(UserLabels(own)) > RequestLabelCap)
  BY DEF LabelErrors
<1>6. IsFiniteSet(UserLabels(own))
  BY <1>4, FS_Subset DEF UserLabels
<1>7. Cardinality(UserLabels(own)) \in Nat /\ RequestLabelCap \in Nat
  BY <1>6, FS_CardinalityType, RequestLimitsAssumption
<1> QED BY <1>2, <1>4, <1>5, <1>7 DEF LabelsOK

LEMMA PassedHeadersAreTheCallers ==
    ASSUME NEW list \in Seq([name : STRING, spelled : STRING, flaw : STRING])
    PROVE  HeadersOK(PassedHeaders(list))
<1> DEFINE f == [i \in 1 .. Len(list) |-> TrimmedName(list[i])]
<1>1. PassedHeaders(list) \subseteq {f[i] : i \in 1 .. Len(list)}
  BY DEF PassedHeaders, ToSet
<1>2. IsFiniteSet(PassedHeaders(list))
  <2> Len(list) \in Nat /\ f = [i \in 1 .. Len(list) |-> f[i]]
    OBVIOUS
  <2> HIDE DEF f
  <2> QED BY <1>1, ListedAreFinite
<1>3. \A h \in PassedHeaders(list) : h.name \notin ControlledHeaders \cup {"content-type", "content-id"}
  BY DEF PassedHeaders, TrimmedName, HeaderPasses, IsControlled
<1> QED BY <1>2, <1>3 DEF HeadersOK

LEMMA AcceptedInlines ==
    ASSUME NEW list \in Seq(RequestAttachments), AttachmentErrors(list) = {}
    PROVE  InlinesNamed([i \in DOMAIN list |-> SpecAttachment(list[i])])
<1> DEFINE entries == [i \in DOMAIN list |-> SpecAttachment(list[i])]
<1>1. DOMAIN list = 1 .. Len(list) /\ Len(list) \in Nat
  OBVIOUS
<1>2. \A i \in DOMAIN list : ~AttachmentErrs(list, i)
  BY DEF AttachmentErrors
<1>3. \A i \in DOMAIN list : entries[i].cid = list[i].cid /\ (entries[i].inline <=> Disposition(list[i]) = "inline")
  BY DEF SpecAttachment
<1> HIDE DEF entries
<1>4. ASSUME NEW i \in DOMAIN list, NEW j \in DOMAIN list, j < i, list[i].cid # "none" PROVE list[j].cid # list[i].cid
  <2>1. j \in 1 .. (i - 1)
    BY <1>1, <1>4
  <2>2. list[i].cid # "bad" /\ ~CidIsTaken(list, i)
    BY <1>2, <1>4 DEF AttachmentErrs
  <2> QED BY <2>1, <2>2 DEF CidIsTaken
<1>5. ASSUME NEW i \in DOMAIN list, entries[i].inline
      PROVE  list[i].cid # "none" /\ \A j \in DOMAIN list : list[j].cid = list[i].cid => j = i
  <2>1. list[i].cid # "none"
    BY <1>2, <1>3, <1>5 DEF AttachmentErrs
  <2>2. ASSUME NEW j \in DOMAIN list, list[j].cid = list[i].cid PROVE j = i
    <3>1. ~(j < i) /\ ~(i < j)
      BY <1>4, <2>1, <2>2
    <3> QED BY <1>1, <3>1
  <2> QED BY <2>1, <2>2
<1>6. DOMAIN entries = DOMAIN list
  BY DEF entries
<1> QED BY <1>3, <1>5, <1>6 DEF InlinesNamed, entries

LEMMA QueuesWell ==
    ASSUME WantsOK(wants), NEW content, Queues(content), reply' = "200"
    PROVE  SpecOK(spec', stored', labels')
<1> DEFINE ask == Asked(content)
           v == Validated(ask)
<1>1. Replied(wants.ask, ask) /\ IsRequest(wants.ask)
  BY AskedKeeps DEF WantsOK
<1>2. /\ ask.labels \in Seq([name : STRING, flaw : STRING])
      /\ ask.headers \in Seq([name : STRING, spelled : STRING, flaw : STRING])
      /\ ask.attachments \in Seq(RequestAttachments)
      /\ \A i \in DOMAIN ask.attachments : ask.attachments[i].content = "bytes" => ask.attachments[i].bytes # "none"
  BY <1>1 DEF Replied, IsRequest
<1>3. /\ ValidationErrors(ask) = {}
      /\ \E irt, refs : spec' = BuildSpec(v, irt, refs)
      /\ labels' = QueuedLabels(v)
      /\ stored' = [i \in DOMAIN ask.attachments |->
                       IF ask.attachments[i].content = "none" THEN "none" ELSE ask.attachments[i].bytes]
  BY DEF Queues, NoPart
<1>4. LabelErrors(ask.labels) = {}
  BY <1>3 DEF ValidationErrors
<1>5. v.labels = NormalizeLabels(ask.labels) /\ v.headers = PassedHeaders(ask.headers) /\ v.attachments = ask.attachments
  BY DEF Validated
<1> HIDE DEF ask, v
<1>6. PICK irt, refs : spec' = BuildSpec(v, irt, refs)
  BY <1>3
<1>7. spec'.headers = v.headers
      /\ spec'.attachments = [i \in DOMAIN ask.attachments |-> SpecAttachment(ask.attachments[i])]
  BY <1>5, <1>6 DEF BuildSpec
<1>8. spec'.attachments \in Seq(SpecAttachments) /\ DOMAIN spec'.attachments = DOMAIN ask.attachments
  <2>1. ASSUME NEW i \in DOMAIN ask.attachments PROVE SpecAttachment(ask.attachments[i]) \in SpecAttachments
    <3> DEFINE a == ask.attachments[i]
    <3>1. a \in RequestAttachments /\ (a.content = "bytes" => a.bytes # "none")
      BY <1>2
    <3> HIDE DEF a
    <3>2. a.url \in DOMAIN UrlOf \cup {"none"} /\ a.cid \in STRING /\ a.bytes \in DOMAIN Size \cup {"none"}
      BY <3>1 DEF RequestAttachments
    <3>3. DecodedSize(a) \in Nat
      BY <3>1, <3>2, PartsAssumption DEF DecodedSize
    <3> QED BY <3>2, <3>3 DEF SpecAttachment, SpecAttachments, a
  <2>2. DOMAIN ask.attachments = 1 .. Len(ask.attachments) /\ Len(ask.attachments) \in Nat
    BY <1>2
  <2> QED BY <1>7, <2>1, <2>2
<1>9. stored' \in [DOMAIN ask.attachments -> DOMAIN Size \cup {"none"}]
  <2>1. \A i \in DOMAIN ask.attachments : ask.attachments[i].bytes \in DOMAIN Size \cup {"none"}
    <3>1. \A i \in DOMAIN ask.attachments : ask.attachments[i] \in RequestAttachments
      BY <1>2
    <3> QED BY <3>1 DEF RequestAttachments
  <2> QED BY <1>3, <2>1
<1>10. HeadersOK(spec'.headers)
  BY <1>2, <1>5, <1>7, PassedHeadersAreTheCallers
<1>11. LabelsOK(v.labels) /\ labels' = v.labels \cup {"queued"}
  BY <1>2, <1>3, <1>4, <1>5, NormalizedLabels DEF QueuedLabels
<1>12. InlinesNamed(spec'.attachments)
  <2>1. AttachmentErrors(ask.attachments) = {}
    BY <1>3 DEF ValidationErrors
  <2> QED BY <1>2, <1>7, <2>1, AcceptedInlines
<1> QED BY <1>8, <1>9, <1>10, <1>11, <1>12 DEF SpecOK

-----------------------------------------------------------------------------
(***************************************************************************)
(* The steps.                                                              *)
(***************************************************************************)

LEMMA AttemptFacts ==
    ASSUME PartsInv, NEW a \in Attempts
    PROVE  /\ att[a] \in AttState /\ AttemptOK(att[a], stored, Len(spec.attachments))
           /\ att[a].pc \in {"part", "resolve", "get", "put"} => reply = "200"
BY DEF PartsInv, AttemptsOK, Untouched

\* The next part of an attempt: what it appends is what is stored, unless it came second.
NextPart(s, bytes, raced) ==
    [s EXCEPT !.pc = "part", !.part = @ + 1, !.parts = Append(@, bytes), !.got = "none", !.url = "none",
              !.pinned = {}, !.hop = 0, !.absent = FALSE, !.raced = @ \/ raced,
              !.budget = IF Size[bytes] > @ THEN 0 ELSE @ - Size[bytes]]

LEMMA NextPartIsOK ==
    ASSUME NEW st, NEW n \in Nat, NEW s, AttemptOK(s, st, n), s.pc \in {"part", "resolve", "get", "put"}, s.part <= n,
           NEW bytes \in DOMAIN Size, bytes # "none", NEW raced \in BOOLEAN, ~raced => st[s.part] = bytes
    PROVE  AttemptOK(NextPart(s, bytes, raced), st, n)
<1> DEFINE t == NextPart(s, bytes, raced)
<1>1. s \in AttState /\ Loads(s, st, n)
  BY DEF AttemptOK
<1>2. Size[bytes] \in Nat /\ s.budget \in Nat /\ s.part \in Nat \ {0} /\ s.parts \in Seq(DOMAIN Size) /\ s.raced \in BOOLEAN
  BY <1>1, PartsAssumption DEF AttState
<1>3. t \in AttState
  <2>1. (IF Size[bytes] > s.budget THEN 0 ELSE s.budget - Size[bytes]) \in Nat
    BY <1>2
  <2>2. Append(s.parts, bytes) \in Seq(DOMAIN Size)
    BY <1>2
  <2>3. s.part + 1 \in Nat \ {0}
    BY <1>2
  <2> QED BY <1>1, <2>1, <2>2, <2>3 DEF AttState, NextPart
<1>4. /\ t.pc = "part" /\ t.part = s.part + 1 /\ t.parts = Append(s.parts, bytes) /\ t.raced = (s.raced \/ raced)
      /\ t.got = "none"
  BY <1>1 DEF NextPart, AttState
<1> HIDE DEF t
<1>5. Fetches(t, n) /\ FitsBudget(t)
  BY <1>4 DEF Fetches, FitsBudget
<1>6. Len(s.parts) = s.part - 1 /\ (~s.raced => AreStored(s.parts, st, s.part - 1))
  BY <1>1 DEF Loads
<1>7. t.part <= n + 1 /\ Len(t.parts) = t.part - 1
  BY <1>2, <1>4, <1>6
<1>8. ~t.raced => AreStored(t.parts, st, t.part - 1)
  <2> SUFFICES ASSUME ~t.raced, NEW i \in 1 .. (t.part - 1) PROVE t.parts[i] = st[i] /\ st[i] # "none"
    BY DEF AreStored
  <2>1. ~s.raced /\ ~raced
    BY <1>4
  <2>2. CASE i = s.part
    <3>1. t.parts[i] = bytes
      BY <1>2, <1>4, <1>6, <2>2
    <3> QED BY <2>1, <2>2, <3>1
  <2>3. CASE i # s.part
    <3>1. i \in 1 .. (s.part - 1)
      BY <1>2, <1>4, <2>3
    <3>2. t.parts[i] = s.parts[i]
      BY <1>2, <1>4, <1>6, <3>1
    <3> QED BY <1>6, <2>1, <3>1, <3>2 DEF AreStored
  <2> QED BY <2>2, <2>3
<1> QED BY <1>3, <1>5, <1>7, <1>8 DEF AttemptOK, Loads, t

LEMMA ArrivesStep ==
    ASSUME PartsInv, Arrives
    PROVE  PartsInv'
<1>1. WantsOK(wants')
  BY DEF Arrives, PartsInv, WantsOK
<1>2. UNCHANGED <<reply, spec, labels, stored, late, claim, att, calls, reached>>
  BY DEF Arrives
<1>3. Untouched => Untouched'
  BY <1>2 DEF Untouched
<1> QED BY <1>1, <1>2, <1>3 DEF PartsInv

LEMMA SubmitsStep ==
    ASSUME PartsInv, Submits
    PROVE  PartsInv'
<1>1. /\ reply = "none" /\ UNCHANGED <<wants, late, claim, att, calls, reached>>
      /\ \/ reply' # "200" /\ UNCHANGED <<spec, labels, stored>>
         \/ \E content : Queues(content) /\ reply' = "200"
  <2>1. PICK read : IF read.error # "none" THEN reply' = ApiErrorOf(read.error) /\ UNCHANGED <<spec, labels, stored>>
                    ELSE Queues(read.content)
    BY DEF Submits
  <2>2. \A e : ApiErrorOf(e) # "200"
    BY DEF ApiErrorOf
  <2>3. ASSUME NEW content, Queues(content)
        PROVE  reply' = "200" \/ (reply' # "200" /\ UNCHANGED <<spec, labels, stored>>)
    <3>1. \/ reply' = "400" /\ UNCHANGED <<spec, labels, stored>>
          \/ reply' = "200"
      BY <2>3, Zenon DEF Queues
    <3> QED BY <3>1
  <2> QED BY <2>1, <2>2, <2>3 DEF Submits
<1>2. Untouched /\ WantsOK(wants) /\ AttemptsOK(att, stored, Len(spec.attachments)) /\ CallsOK(calls, spec, stored)
      /\ ReachedOK(reached) /\ LateOK(late, Len(spec.attachments))
  BY <1>1 DEF PartsInv
<1>3. CASE reply' # "200" /\ UNCHANGED <<spec, labels, stored>>
  <2>1. Untouched'
    BY <1>1, <1>2, <1>3 DEF Untouched
  <2> QED BY <1>1, <1>2, <1>3, <2>1 DEF PartsInv
<1>4. CASE \E content : Queues(content) /\ reply' = "200"
  <2>1. SpecOK(spec', stored', labels')
    BY <1>2, <1>4, QueuesWell
  <2>2. AttemptsOK(att', stored', Len(spec'.attachments))
    <3>1. \A a \in Attempts : att[a].pc \in {"rest", "over"} /\ AttemptOK(att[a], stored, Len(spec.attachments))
      BY <1>2 DEF Untouched, AttemptsOK
    <3>2. \A a \in Attempts : AttemptOK(att[a], stored', Len(spec'.attachments))
      BY <3>1 DEF AttemptOK, Fetches, Loads
    <3> QED BY <1>1, <1>2, <3>2 DEF AttemptsOK
  <2>3. late' = {} /\ calls' = <<>> /\ reached' = {}
    BY <1>1, <1>2 DEF Untouched
  <2>4. CallsOK(calls', spec', stored')
    BY <1>1, <1>2, <2>3 DEF CallsOK
  <2>5. LateOK(late', Len(spec'.attachments)) /\ ReachedOK(reached')
    BY <2>3 DEF LateOK, ReachedOK
  <2>6. WantsOK(wants')
    BY <1>1, <1>2
  <2> QED BY <1>4, <2>1, <2>2, <2>4, <2>5, <2>6 DEF PartsInv
<1> QED BY <1>1, <1>3, <1>4

LEMMA ClaimsStep ==
    ASSUME PartsInv, NEW a \in Attempts, Claims(a)
    PROVE  PartsInv'
<1> DEFINE s == [Resting EXCEPT !.pc = "part"]
           n == Len(spec.attachments)
<1>1. reply = "200" /\ Settled /\ UNCHANGED <<stored, late, calls, reached>> /\ Moves(a, s)
  BY DEF Claims, Settled
<1>2. n \in Nat
  BY <1>1, StoredDomain
<1>3. AttemptOK([Resting EXCEPT !.pc = "over"], stored, n)
  BY <1>2, OverIsOK
<1>4. s \in AttState
  BY <1>3 DEF AttemptOK, AttState, Resting
<1>5. s.pc = "part" /\ s.part = 1 /\ s.parts = <<>> /\ s.got = "none"
  BY DEF Resting
<1> HIDE DEF s, n
<1>6. Loads(s, stored, n)
  BY <1>2, <1>5 DEF Loads, AreStored
<1>7. AttemptOK(s, stored', n)
  BY <1>1, <1>4, <1>5, <1>6 DEF AttemptOK, Fetches, FitsBudget
<1> QED BY <1>1, <1>7, NothingLands, OneMoves DEF n

\* What the outbox says of a part.
LEMMA ReadsPartStep ==
    ASSUME PartsInv, NEW a \in Attempts, ReadsPart(a)
    PROVE  PartsInv'
<1> DEFINE i == att[a].part
           n == Len(spec.attachments)
           read == GetObject(stored[i], RawMax)
           entry == spec.attachments[i]
<1>1. /\ att[a].pc = "part" /\ i <= n /\ Settled /\ UNCHANGED <<stored, late, calls, reached>>
      /\ \/ read = "found" /\ With(a, stored[i], FALSE)
         \/ /\ read = "notFound" /\ entry.url # "none" /\ UrlPasses(entry.url)
            /\ Moves(a, [att[a] EXCEPT !.pc = "resolve", !.url = entry.url, !.absent = stored[i] = "none"])
         \/ \E how : Stops(a, how)
  BY DEF ReadsPart, AtPart, Outbox, NoPart, Settled
<1>2. att[a] \in AttState /\ AttemptOK(att[a], stored, n) /\ reply = "200"
  BY <1>1, AttemptFacts
<1>3. n \in Nat /\ i \in 1 .. n /\ SpecOK(spec, stored, labels)
  BY <1>1, <1>2, StoredDomain DEF AttState, PartsInv
<1>4. stored[i] \in DOMAIN Size \cup {"none"} /\ entry \in SpecAttachments
  BY <1>2, <1>3, StoredDomain DEF SpecOK
<1>5. CASE read = "found" /\ With(a, stored[i], FALSE)
  <2>1. stored[i] # "none"
    BY <1>5 DEF GetObject, NoPart, ClassifyObjectError
  <2>2. AttemptOK(NextPart(att[a], stored[i], FALSE), stored, n)
    BY <1>1, <1>2, <1>3, <1>4, <2>1, NextPartIsOK
  <2>3. Moves(a, NextPart(att[a], stored[i], FALSE))
    BY <1>5 DEF With, NextPart
  <2>4. AttemptOK(NextPart(att[a], stored[i], FALSE), stored', n)
    BY <1>1, <2>2
  <2> QED BY <1>1, <1>2, <2>3, <2>4, NothingLands, OneMoves
<1>6. CASE /\ read = "notFound" /\ entry.url # "none" /\ UrlPasses(entry.url)
           /\ Moves(a, [att[a] EXCEPT !.pc = "resolve", !.url = entry.url, !.absent = stored[i] = "none"])
  <2> DEFINE s == [att[a] EXCEPT !.pc = "resolve", !.url = entry.url, !.absent = stored[i] = "none"]
  <2>1. stored[i] = "none"
    BY <1>6 DEF GetObject, NoPart
  <2>2. entry.url \in DOMAIN UrlOf
    BY <1>4, <1>6 DEF SpecAttachments
  <2>3. s \in AttState
    BY <1>2, <2>2 DEF AttState
  <2>4. /\ s.pc = "resolve" /\ s.url = entry.url /\ s.absent /\ s.part = i /\ s.parts = att[a].parts
        /\ s.raced = att[a].raced /\ s.got = att[a].got /\ s.budget = att[a].budget
    BY <1>2, <2>1 DEF AttState
  <2>5. Fetches(s, n)
    BY <1>1, <1>6, <2>2, <2>4 DEF Fetches
  <2>6. FitsBudget(s) /\ Loads(s, stored, n)
    <3> HIDE DEF s, n
    <3> QED BY <1>1, <1>2, <2>4 DEF FitsBudget, Loads, AttemptOK
  <2>7. AttemptOK(s, stored', n)
    BY <1>1, <2>3, <2>5, <2>6 DEF AttemptOK
  <2>8. Moves(a, s)
    BY <1>6
  <2> HIDE DEF s
  <2> QED BY <1>1, <1>2, <2>7, <2>8, NothingLands, OneMoves
<1>7. CASE \E how : Stops(a, how)
  BY <1>1, <1>2, <1>7, NothingLands, StopsWell
<1> QED BY <1>1, <1>5, <1>6, <1>7

\* A step after which an attempt has nothing but its result.
LEMMA OnlyStopsStep ==
    ASSUME PartsInv, NEW a \in Attempts, att[a].pc \in {"part", "resolve", "get", "put"}, Settled,
           UNCHANGED <<stored, calls>>, \E how : Stops(a, how),
           LateOK(late', Len(spec.attachments)), ReachedOK(reached')
    PROVE  PartsInv'
BY AttemptFacts, StopsWell

\* Whom a vetted fetch is connected to.
LEMMA ResolutionsAreAddresses ==
    ASSUME NEW url \in DOMAIN UrlOf, UrlPasses(url), NEW ips \in Resolutions(UrlOf[url])
    PROVE  ips \subseteq Ips
<1> DEFINE host == UrlOf[url].host
<1>1. /\ host.kind = "ip" => host.ip \in Ips
      /\ host.kind \notin {"ip", "none"} => host.name \in DOMAIN Resolves
  BY AddressesAreWellFormed
<1>2. host.kind # "none"
  BY DEF UrlPasses
<1>3. CASE host.kind = "ip"
  BY <1>1, <1>3 DEF Resolutions
<1>4. CASE host.kind # "ip"
  <2>1. host.name \in DOMAIN Resolves /\ ips \in Resolves[host.name]
    BY <1>1, <1>2, <1>4 DEF Resolutions
  <2> QED BY <2>1, AddressesAreWellFormed
<1> QED BY <1>3, <1>4

LEMMA ResolveStep ==
    ASSUME PartsInv, NEW a \in Attempts, Resolve(a)
    PROVE  PartsInv'
<1> DEFINE n == Len(spec.attachments)
<1>1. /\ att[a].pc = "resolve" /\ Settled /\ UNCHANGED <<stored, late, calls, reached>>
      /\ \/ \E ips \in Resolutions(UrlOf[att[a].url]) :
               (\A ip \in ips : IsPublicIp(ip)) /\ Moves(a, [att[a] EXCEPT !.pc = "get", !.pinned = ips])
         \/ \E how : Stops(a, how)
  BY DEF Resolve, Settled
<1>2. att[a] \in AttState /\ AttemptOK(att[a], stored, n) /\ reply = "200"
  BY <1>1, AttemptFacts
<1>3. ASSUME NEW ips \in Resolutions(UrlOf[att[a].url]), \A ip \in ips : IsPublicIp(ip),
             Moves(a, [att[a] EXCEPT !.pc = "get", !.pinned = ips])
      PROVE  PartsInv'
  <2> DEFINE s == [att[a] EXCEPT !.pc = "get", !.pinned = ips]
  <2>1. ips \subseteq PublicIps
    BY <1>1, <1>2, <1>3, ResolutionsAreAddresses DEF AttemptOK, Fetches, PublicIps
  <2>2. s \in AttState
    BY <1>2, <2>1 DEF AttState
  <2>3. /\ s.pc = "get" /\ s.url = att[a].url /\ s.absent = att[a].absent /\ s.part = att[a].part
        /\ s.parts = att[a].parts /\ s.raced = att[a].raced /\ s.got = att[a].got /\ s.budget = att[a].budget
    BY <1>2 DEF AttState
  <2>4. Moves(a, s)
    BY <1>3
  <2> HIDE DEF s, n
  <2>5. AttemptOK(s, stored', n)
    BY <1>1, <1>2, <2>2, <2>3 DEF AttemptOK, Fetches, FitsBudget, Loads
  <2> QED BY <1>1, <1>2, <2>4, <2>5, NothingLands, OneMoves DEF n
<1>4. CASE \E how : Stops(a, how)
  BY <1>1, <1>2, <1>4, NothingLands, StopsWell
<1> QED BY <1>1, <1>3, <1>4

\* Every connection is over https, to an address that was vetted.
LEMMA ConnectsWell ==
    ASSUME PartsInv, NEW a \in Attempts, Connects(a)
    PROVE  ReachedOK(reached')
<1>1. att[a].pc = "get" /\ reached' = reached \cup {[https |-> UrlOf[att[a].url].https, ip |-> ip] : ip \in att[a].pinned}
  BY DEF Connects, ConnectsTo
<1>2. UrlOf[att[a].url].https /\ att[a].pinned \subseteq PublicIps
  BY <1>1, AttemptFacts DEF AttemptOK, Fetches, UrlPasses, AttState
<1>3. ReachedOK(reached)
  BY DEF PartsInv
<1> QED BY <1>1, <1>2, <1>3 DEF ReachedOK

LEMMA RedirectedStep ==
    ASSUME PartsInv, NEW a \in Attempts, Redirected(a)
    PROVE  PartsInv'
<1> DEFINE n == Len(spec.attachments)
<1>1. /\ att[a].pc = "get" /\ ReachedOK(reached') /\ Settled /\ UNCHANGED <<stored, late, calls>>
  BY ConnectsWell DEF Redirected, Connects, Settled
<1>2. \/ \E next \in DOMAIN UrlOf :
            UrlPasses(next) /\ Moves(a, [att[a] EXCEPT !.pc = "resolve", !.url = next, !.hop = @ + 1, !.pinned = {}])
      \/ \E how : Stops(a, how)
  BY DEF Redirected
<1>3. att[a] \in AttState /\ AttemptOK(att[a], stored, n) /\ reply = "200"
  BY <1>1, AttemptFacts
<1>4. ASSUME NEW next \in DOMAIN UrlOf, UrlPasses(next),
             Moves(a, [att[a] EXCEPT !.pc = "resolve", !.url = next, !.hop = @ + 1, !.pinned = {}])
      PROVE  PartsInv'
  <2> DEFINE s == [att[a] EXCEPT !.pc = "resolve", !.url = next, !.hop = @ + 1, !.pinned = {}]
  <2>1. s \in AttState
    <3>1. att[a].hop + 1 \in Nat /\ next \in DOMAIN UrlOf \cup {"none"} /\ {} \in SUBSET PublicIps
      BY <1>3 DEF AttState
    <3> QED BY <1>3, <3>1 DEF AttState
  <2>2. /\ s.pc = "resolve" /\ s.url = next /\ s.absent = att[a].absent /\ s.part = att[a].part
        /\ s.parts = att[a].parts /\ s.raced = att[a].raced /\ s.got = att[a].got /\ s.budget = att[a].budget
    BY <1>3 DEF AttState
  <2>3. Moves(a, s)
    BY <1>4
  <2> HIDE DEF s, n
  <2>4. AttemptOK(s, stored', n)
    BY <1>1, <1>3, <1>4, <2>1, <2>2 DEF AttemptOK, Fetches, FitsBudget, Loads
  <2> QED BY <1>1, <1>3, <2>3, <2>4, NothingLands, OneMoves DEF n
<1>5. CASE \E how : Stops(a, how)
  BY <1>1, <1>3, <1>5, NothingLands, StopsWell
<1> QED BY <1>2, <1>4, <1>5

LEMMA ServesStep ==
    ASSUME PartsInv, NEW a \in Attempts, Serves(a)
    PROVE  PartsInv'
<1> DEFINE n == Len(spec.attachments)
<1>1. /\ att[a].pc = "get" /\ ReachedOK(reached') /\ Settled /\ UNCHANGED <<stored, late, calls>>
  BY ConnectsWell DEF Serves, Connects, Settled
<1>2. \/ \E bytes \in Served :
            ~(Size[bytes] > att[a].budget) /\ Moves(a, [att[a] EXCEPT !.pc = "put", !.got = bytes])
      \/ \E how : Stops(a, how)
  BY DEF Serves
<1>3. att[a] \in AttState /\ AttemptOK(att[a], stored, n) /\ reply = "200"
  BY <1>1, AttemptFacts
<1>4. ASSUME NEW bytes \in Served, ~(Size[bytes] > att[a].budget),
             Moves(a, [att[a] EXCEPT !.pc = "put", !.got = bytes])
      PROVE  PartsInv'
  <2> DEFINE s == [att[a] EXCEPT !.pc = "put", !.got = bytes]
  <2>1. bytes \in DOMAIN Size /\ bytes # "none" /\ Size[bytes] \in Nat /\ att[a].budget \in Nat
    BY <1>3, PartsAssumption DEF AttState
  <2>2. s \in AttState
    BY <1>3, <2>1 DEF AttState
  <2>3. /\ s.pc = "put" /\ s.url = att[a].url /\ s.absent = att[a].absent /\ s.part = att[a].part
        /\ s.parts = att[a].parts /\ s.raced = att[a].raced /\ s.got = bytes /\ s.budget = att[a].budget
    BY <1>3 DEF AttState
  <2>4. Moves(a, s)
    BY <1>4
  <2>5. Size[bytes] <= att[a].budget
    BY <1>4, <2>1
  <2> HIDE DEF s, n
  <2>6. AttemptOK(s, stored', n)
    BY <1>1, <1>3, <2>1, <2>2, <2>3, <2>5 DEF AttemptOK, Fetches, FitsBudget, Loads
  <2> QED BY <1>1, <1>3, <2>4, <2>6, NothingLands, OneMoves DEF n
<1>5. CASE \E how : Stops(a, how)
  BY <1>1, <1>3, <1>5, NothingLands, StopsWell
<1> QED BY <1>2, <1>4, <1>5

\* Bytes that are put where there is nothing yet.
PutIfAbsent(st, i, bytes) == IF st[i] = "none" THEN [st EXCEPT ![i] = bytes] ELSE st

LEMMA PutGrows ==
    ASSUME PartsInv, reply = "200", NEW i \in 1 .. Len(spec.attachments), NEW bytes \in DOMAIN Size,
           stored' = PutIfAbsent(stored, i, bytes)
    PROVE  /\ Grows(stored, stored')
           /\ stored[i] = "none" => stored'[i] = bytes
           /\ CallsOK(calls, spec, stored')
<1>1. SpecOK(spec, stored, labels) /\ CallsOK(calls, spec, stored)
  BY DEF PartsInv
<1>2. Len(spec.attachments) \in Nat /\ DOMAIN stored = 1 .. Len(spec.attachments) /\ i \in DOMAIN stored
      /\ stored \in [DOMAIN stored -> DOMAIN Size \cup {"none"}]
  BY <1>1, StoredDomain DEF SpecOK
<1>3. Grows(stored, stored') /\ (stored[i] = "none" => stored'[i] = bytes)
  BY <1>2 DEF PutIfAbsent, Grows
<1> QED BY <1>1, <1>2, <1>3, CallsStay

LEMMA StoresPartStep ==
    ASSUME PartsInv, NEW a \in Attempts, StoresPart(a)
    PROVE  PartsInv'
<1> DEFINE n == Len(spec.attachments)
           i == att[a].part
           got == att[a].got
           raced == att[a].absent /\ stored[i] # "none"
<1>1. /\ att[a].pc = "put" /\ Settled /\ UNCHANGED <<late, calls, reached>>
      /\ stored' = PutIfAbsent(stored, i, got)
      /\ With(a, got, raced)
  BY DEF StoresPart, Settled, NoPart, PutIfAbsent
<1>2. att[a] \in AttState /\ AttemptOK(att[a], stored, n) /\ reply = "200"
  BY <1>1, AttemptFacts
<1>3. /\ n \in Nat /\ DOMAIN stored = 1 .. n /\ i \in 1 .. n /\ got \in DOMAIN Size /\ got # "none"
      /\ att[a].absent /\ LateOK(late, n) /\ ReachedOK(reached)
  BY <1>1, <1>2, StoredDomain DEF AttState, AttemptOK, Fetches, FitsBudget, PartsInv
<1>4. /\ Grows(stored, stored') /\ (stored[i] = "none" => stored'[i] = got)
      /\ CallsOK(calls, spec, stored')
  BY <1>1, <1>2, <1>3, PutGrows
<1>5. AttemptOK(att[a], stored', n)
  BY <1>2, <1>3, <1>4, LoadsStay
<1>6. ~raced => stored'[i] = got
  BY <1>3, <1>4
<1>7. raced \in BOOLEAN
  OBVIOUS
<1> HIDE DEF raced, n, got
<1>8. AttemptOK(NextPart(att[a], got, raced), stored', n)
  BY <1>1, <1>3, <1>5, <1>6, <1>7, NextPartIsOK
<1>9. Moves(a, NextPart(att[a], got, raced))
  BY <1>1 DEF With, NextPart
<1>10. CallsOK(calls', spec, stored') /\ LateOK(late', n) /\ ReachedOK(reached')
  BY <1>1, <1>3, <1>4
<1> QED BY <1>1, <1>2, <1>4, <1>8, <1>9, <1>10, OneMoves DEF n

LEMMA StoreFailsStep ==
    ASSUME PartsInv, NEW a \in Attempts, StoreFails(a)
    PROVE  PartsInv'
<1> DEFINE n == Len(spec.attachments)
<1>1. /\ att[a].pc = "put" /\ Settled /\ UNCHANGED <<stored, calls, reached>>
      /\ late' = late \cup {[part |-> att[a].part, bytes |-> att[a].got]}
      /\ \E how : Stops(a, how)
  BY DEF StoreFails, Settled
<1>2. att[a] \in AttState /\ AttemptOK(att[a], stored, n) /\ reply = "200"
  BY <1>1, AttemptFacts
<1>3. n \in Nat /\ LateOK(late, n) /\ ReachedOK(reached)
  BY <1>2, StoredDomain DEF PartsInv
<1>4. att[a].part \in 1 .. n /\ att[a].got \in DOMAIN Size \ {"none"}
  BY <1>1, <1>2, <1>3 DEF AttState, AttemptOK, Fetches, FitsBudget
<1>5. LateOK(late', n) /\ ReachedOK(reached')
  BY <1>1, <1>3, <1>4 DEF LateOK
<1> QED BY <1>1, <1>5, OnlyStopsStep

LEMMA LandsStep ==
    ASSUME PartsInv, Lands
    PROVE  PartsInv'
<1> DEFINE n == Len(spec.attachments)
<1>1. PICK put \in late : late' = late \ {put} /\ stored' = PutIfAbsent(stored, put.part, put.bytes)
  BY DEF Lands, NoPart, PutIfAbsent
<1>2. UNCHANGED <<wants, reply, spec, labels, claim, att, calls, reached>>
  BY DEF Lands
<1>3. reply = "200"
  BY <1>1 DEF PartsInv, Untouched
<1>4. WantsOK(wants) /\ LateOK(late, n) /\ SpecOK(spec, stored, labels) /\ AttemptsOK(att, stored, n) /\ ReachedOK(reached)
  BY <1>3 DEF PartsInv
<1>5. n \in Nat /\ DOMAIN stored = 1 .. n /\ put.part \in 1 .. n /\ put.bytes \in DOMAIN Size
  BY <1>1, <1>3, <1>4, StoredDomain DEF LateOK
<1>6. Grows(stored, stored') /\ CallsOK(calls, spec, stored')
  BY <1>1, <1>3, <1>5, PutGrows
<1>7. LateOK(late', n)
  BY <1>1, <1>4 DEF LateOK
<1>8. SpecOK(spec, stored', labels)
  BY <1>4, <1>6, SpecStays
<1>9. AttemptsOK(att, stored', n)
  <2> HIDE DEF n
  <2> QED BY <1>4, <1>5, <1>6, LoadsStay DEF AttemptsOK
<1> QED BY <1>2, <1>3, <1>4, <1>6, <1>7, <1>8, <1>9 DEF PartsInv

LEMMA Appended ==
    ASSUME NEW U, NEW s \in Seq(U), NEW e \in U
    PROVE  LET t == Append(s, e) IN
           /\ Len(t) = Len(s) + 1 /\ Len(s) \in Nat
           /\ \A c \in 1 .. Len(s) : t[c] = s[c]
           /\ t[Len(s) + 1] = e
           /\ t = [c \in 1 .. Len(t) |-> t[c]]
<1> DEFINE t == Append(s, e)
<1>1. t \in Seq(U) /\ Len(t) = Len(s) + 1 /\ Len(s) \in Nat
  OBVIOUS
<1>2. \A c \in 1 .. Len(s) : t[c] = s[c]
  OBVIOUS
<1>3. t[Len(s) + 1] = e
  OBVIOUS
<1>4. t = [c \in 1 .. Len(t) |-> t[c]]
  <2> HIDE DEF t
  <2> QED BY <1>1
<1> QED BY <1>1, <1>2, <1>3, <1>4

\* What SES is given is the spec and the parts that were loaded.
LEMMA CallsSesStep ==
    ASSUME PartsInv, NEW a \in Attempts, CallsSes(a)
    PROVE  PartsInv'
<1> DEFINE n == Len(spec.attachments)
           call == [mail |-> BuildOutbound(spec, att[a].parts), parts |-> att[a].parts, raced |-> att[a].raced]
<1>1. /\ att[a].pc = "part" /\ att[a].part > n /\ Settled /\ UNCHANGED <<stored, late, reached>>
      /\ calls' = Append(calls, call) /\ Moves(a, [Resting EXCEPT !.pc = "over"])
  BY DEF CallsSes, Loaded, Settled
<1>2. att[a] \in AttState /\ AttemptOK(att[a], stored, n) /\ reply = "200"
  BY <1>1, AttemptFacts
<1>3. n \in Nat /\ CallsOK(calls, spec, stored) /\ LateOK(late, n) /\ ReachedOK(reached)
  BY <1>2, StoredDomain DEF PartsInv
<1>4. /\ Len(att[a].parts) = n /\ att[a].parts \in Seq(DOMAIN Size) /\ att[a].raced \in BOOLEAN
      /\ ~att[a].raced => AreStored(att[a].parts, stored, n)
  <2>1. att[a].part = n + 1
    BY <1>1, <1>2, <1>3 DEF AttState, AttemptOK, Loads
  <2>2. att[a].part - 1 = n
    BY <1>3, <2>1
  <2> HIDE DEF n
  <2> QED BY <1>1, <1>2, <2>2 DEF AttState, AttemptOK, Loads
<1>5. CallOK(call, spec, stored)
  BY <1>4 DEF CallOK
<1> HIDE DEF call
<1>6. CallsOK(calls', spec, stored)
  <2>1. calls \in Seq({calls[c] : c \in 1 .. Len(calls)}) /\ \A c \in 1 .. Len(calls) : CallOK(calls[c], spec, stored)
    BY <1>3 DEF CallsOK
  <2>2. /\ Len(calls') = Len(calls) + 1 /\ Len(calls) \in Nat
        /\ \A c \in 1 .. Len(calls) : calls'[c] = calls[c]
        /\ calls'[Len(calls) + 1] = call
        /\ calls' = [c \in 1 .. Len(calls') |-> calls'[c]]
    <3> DEFINE U == {calls[c] : c \in 1 .. Len(calls)} \cup {call}
    <3>1. calls \in Seq(U) /\ call \in U
      BY <2>1
    <3> HIDE DEF U
    <3> QED BY <1>1, <3>1, Appended
  <2>3. calls' \in Seq({calls'[c] : c \in 1 .. Len(calls')})
    BY <2>2
  <2>4. ASSUME NEW c \in 1 .. Len(calls') PROVE CallOK(calls'[c], spec, stored)
    <3>1. c \in 1 .. Len(calls) \/ c = Len(calls) + 1
      BY <2>2
    <3> QED BY <1>5, <2>1, <2>2, <3>1
  <2> QED BY <2>3, <2>4 DEF CallsOK
<1>7. CallsOK(calls', spec, stored') /\ LateOK(late', n) /\ ReachedOK(reached') /\ Grows(stored, stored')
  BY <1>1, <1>2, <1>3, <1>6, NothingLands
<1>8. AttemptOK([Resting EXCEPT !.pc = "over"], stored', n)
  BY <1>3, OverIsOK
<1> QED BY <1>1, <1>2, <1>7, <1>8, OneMoves

LEMMA AttemptStep ==
    ASSUME PartsInv, NEW a \in Attempts, Attempt(a)
    PROVE  PartsInv'
<1>1. CASE ReadFails(a)
  <2>1. att[a].pc = "part" /\ Settled /\ UNCHANGED <<stored, late, calls, reached>> /\ \E how : Stops(a, how)
    BY <1>1 DEF ReadFails, AtPart, Settled
  <2> QED BY <2>1, OnlyStopsStep DEF PartsInv
<1>2. CASE AnswersBadly(a)
  <2>1. /\ att[a].pc = "get" /\ Settled /\ UNCHANGED <<stored, late, calls>> /\ (\E how : Stops(a, how))
        /\ ReachedOK(reached')
    BY <1>2, ConnectsWell DEF AnswersBadly, Connects, Settled
  <2> QED BY <2>1, OnlyStopsStep DEF PartsInv
<1>3. CASE TooLargeToSend(a) \/ ClaimIsLost(a)
  <2>1. att[a].pc = "part" /\ Settled /\ UNCHANGED <<stored, late, calls, reached>> /\ \E how : Stops(a, how)
    BY <1>3 DEF TooLargeToSend, ClaimIsLost, Loaded, Settled
  <2> QED BY <2>1, OnlyStopsStep DEF PartsInv
<1> QED BY <1>1, <1>2, <1>3, ClaimsStep, ReadsPartStep, ResolveStep, RedirectedStep, ServesStep, StoresPartStep,
           StoreFailsStep, CallsSesStep DEF Attempt

LEMMA InitOK == PartsInit => PartsInv
<1> SUFFICES ASSUME PartsInit PROVE PartsInv
  OBVIOUS
<1>1. WantsOK(wants)
  BY RequestsAreWellFormed DEF PartsInit, WantsOK
<1>2. Resting \in AttState
  <2>1. DecodedMax \in Nat /\ <<>> \in Seq(DOMAIN Size)
    BY RequestLimitsAssumption
  <2> QED BY <2>1 DEF Resting, AttState
<1>3. AttemptsOK(att, stored, Len(spec.attachments))
  <2>1. AttemptOK(Resting, stored, Len(spec.attachments))
    BY <1>2 DEF AttemptOK, Fetches, FitsBudget, Loads, Resting
  <2> QED BY <1>2, <2>1 DEF PartsInit, AttemptsOK
<1>4. Untouched /\ reply = "none"
  BY DEF PartsInit, Untouched, Resting
<1>5. LateOK(late, Len(spec.attachments)) /\ CallsOK(calls, spec, stored) /\ ReachedOK(reached)
  BY DEF PartsInit, LateOK, CallsOK, ReachedOK
<1> QED BY <1>1, <1>3, <1>4, <1>5 DEF PartsInv

-----------------------------------------------------------------------------
(***************************************************************************)
(* The document: its fields and its parts.                                 *)
(***************************************************************************)

Below(S, i) == {j \in S : j < i}

\* A set of numbers in their order lists all of them.
LEMMA InOrderLists ==
    ASSUME NEW S \in SUBSET Nat, IsFiniteSet(S)
    PROVE  /\ InOrder(S) \in Seq(S) /\ Len(InOrder(S)) = Cardinality(S)
           /\ ToSet(InOrder(S)) = S
           /\ \A k \in 1 .. Cardinality(S) : InOrder(S)[k] \in S /\ Cardinality(Below(S, InOrder(S)[k])) = k - 1
<1> DEFINE c == Cardinality(S)
           rank(i) == Cardinality({j \in S : j < i})
           ranks == [i \in S |-> rank(i)]
           list == InOrder(S)
<1>1. c \in Nat
  BY FS_CardinalityType
<1>2. ASSUME NEW i \in S PROVE IsFiniteSet(Below(S, i)) /\ rank(i) \in 0 .. (c - 1) /\ rank(i) = Cardinality(Below(S, i))
  <2>1. Below(S, i) \subseteq S \ {i} /\ i \in S
    BY DEF Below
  <2>2. IsFiniteSet(S \ {i}) /\ Cardinality(S \ {i}) = c - 1
    BY FS_RemoveElement
  <2>3. IsFiniteSet(Below(S, i)) /\ Cardinality(Below(S, i)) <= c - 1
    BY <2>1, <2>2, FS_Subset
  <2>4. Cardinality(Below(S, i)) \in Nat
    BY <2>3, FS_CardinalityType
  <2>5. rank(i) = Cardinality(Below(S, i))
    BY DEF Below
  <2> HIDE DEF c, rank
  <2> QED BY <1>1, <2>3, <2>4, <2>5
<1>3. ASSUME NEW i \in S, NEW j \in S, i < j PROVE rank(i) < rank(j)
  <2>1. Below(S, i) \cup {i} \subseteq Below(S, j) /\ i \notin Below(S, i)
    <3>1. \A x \in S : x \in Nat
      OBVIOUS
    <3>2. \A x \in S : x < i => x < j
      BY <1>3, <3>1
    <3>3. ~(i < i)
      BY <3>1
    <3> QED BY <1>3, <3>2, <3>3 DEF Below
  <2> HIDE DEF rank, c
  <2>2. Cardinality(Below(S, i) \cup {i}) = rank(i) + 1
    BY <1>2, <2>1, FS_AddElement
  <2>3. rank(i) + 1 <= rank(j)
    BY <1>2, <2>1, <2>2, FS_Subset
  <2> QED BY <1>1, <1>2, <2>3
<1>4. \A i, j \in S : rank(i) = rank(j) => i = j
  <2> SUFFICES ASSUME NEW i \in S, NEW j \in S, i # j PROVE rank(i) # rank(j)
    OBVIOUS
  <2>1. i < j \/ j < i
    OBVIOUS
  <2> HIDE DEF rank, c
  <2> QED BY <1>1, <1>2, <1>3, <2>1
<1>5. ranks \in Injection(S, 0 .. (c - 1))
  <2> HIDE DEF rank
  <2> QED BY <1>2, <1>4 DEF Injection, IsInjective
<1>6. IsFiniteSet(0 .. (c - 1)) /\ Cardinality(0 .. (c - 1)) = c
  <2> HIDE DEF c
  <2> QED BY <1>1, FS_Interval
<1>7. ranks \in Surjection(S, 0 .. (c - 1))
  <2> HIDE DEF ranks
  <2> QED BY <1>5, <1>6, FS_Injection
<1>8. \A r \in 0 .. (c - 1) : \E i \in S : rank(i) = r
  <2> HIDE DEF rank
  <2> QED BY <1>7 DEF Surjection
<1>9. DOMAIN list = 1 .. c /\ list = [k \in 1 .. c |-> list[k]]
  <2> DEFINE nth(k) == CHOOSE i \in S : rank(i) = k - 1
  <2>1. list = [k \in 1 .. c |-> nth(k)]
    BY DEF InOrder
  <2> HIDE DEF nth, list, c
  <2> QED BY <2>1
<1>10. ASSUME NEW k \in 1 .. c PROVE list[k] \in S /\ rank(list[k]) = k - 1
  <2>1. k - 1 \in 0 .. (c - 1)
    BY <1>1
  <2>2. \E i \in S : rank(i) = k - 1
    BY <1>8, <2>1
  <2>3. list[k] = CHOOSE i \in S : rank(i) = k - 1
    BY DEF InOrder
  <2> HIDE DEF list
  <2> QED BY <2>2, <2>3, Zenon
<1>11. ASSUME NEW i \in S PROVE \E k \in 1 .. c : list[k] = i
  <2> HIDE DEF rank, list, c
  <2> DEFINE k == rank(i) + 1
  <2>1. k \in 1 .. c /\ k - 1 = rank(i)
    BY <1>1, <1>2
  <2> HIDE DEF k
  <2>2. list[k] \in S /\ rank(list[k]) = k - 1
    BY <1>10, <2>1
  <2>3. list[k] = i
    BY <1>4, <2>1, <2>2
  <2> QED BY <2>1, <2>3
<1>14. \A k \in 1 .. c : list[k] \in S /\ Cardinality(Below(S, list[k])) = k - 1
  <2> HIDE DEF rank, list, c
  <2> QED BY <1>2, <1>10
<1> HIDE DEF list, c, rank, ranks
<1>12. list \in Seq(S) /\ Len(list) = c
  <2>1. list \in [1 .. c -> S]
    BY <1>9, <1>10
  <2> QED BY <1>1, <2>1
<1>13. ToSet(list) = S
  <2>1. ToSet(list) = {list[k] : k \in 1 .. c}
    BY <1>9 DEF ToSet
  <2> QED BY <1>10, <1>11, <2>1
<1> QED BY <1>12, <1>13, <1>14 DEF list, c

\* What the fields are called, and that no name of a set is used twice.
Names(fields) == {fields[k].name : k \in DOMAIN fields}
OnceEach(fields, C) ==
    \A j, k \in DOMAIN fields : fields[j].name \in C /\ fields[j].name = fields[k].name => j = k

LEMMA Joined ==
    ASSUME NEW U, NEW s \in Seq(U), NEW t \in Seq(U), NEW C, OnceEach(s, C), OnceEach(t, C),
           Names(s) \cap Names(t) \cap C = {}
    PROVE  s \o t \in Seq(U) /\ OnceEach(s \o t, C) /\ Names(s \o t) = Names(s) \cup Names(t)
<1> DEFINE both == s \o t
           m == Len(s)
           n == Len(t)
<1>1. /\ m \in Nat /\ n \in Nat /\ DOMAIN s = 1 .. m /\ DOMAIN t = 1 .. n
      /\ both \in Seq(U) /\ DOMAIN both = 1 .. (m + n)
  OBVIOUS
<1>2. \A k \in 1 .. m : both[k] = s[k]
  OBVIOUS
<1>3. \A k \in 1 .. n : both[m + k] = t[k]
  OBVIOUS
<1> HIDE DEF both, m, n
<1>4. \A k \in 1 .. (m + n) : k \in 1 .. m \/ (k - m \in 1 .. n /\ m + (k - m) = k)
  BY <1>1
<1>5. \A k \in 1 .. (m + n) : \/ k \in 1 .. m /\ both[k] = s[k]
                              \/ k - m \in 1 .. n /\ both[k] = t[k - m]
  BY <1>2, <1>3, <1>4
<1>6. Names(both) \subseteq Names(s) \cup Names(t)
  BY <1>1, <1>5 DEF Names
<1>7. Names(s) \subseteq Names(both)
  <2>1. \A k \in 1 .. m : k \in 1 .. (m + n)
    BY <1>1
  <2> QED BY <1>1, <1>2, <2>1 DEF Names
<1>8. Names(t) \subseteq Names(both)
  <2>1. \A k \in 1 .. n : m + k \in 1 .. (m + n)
    BY <1>1
  <2> QED BY <1>1, <1>3, <2>1 DEF Names
<1>9. OnceEach(both, C)
  <2> SUFFICES ASSUME NEW j \in 1 .. (m + n), NEW k \in 1 .. (m + n), both[j].name \in C, both[j].name = both[k].name
               PROVE  j = k
    BY <1>1 DEF OnceEach
  <2>1. CASE j \in 1 .. m /\ both[j] = s[j] /\ k \in 1 .. m /\ both[k] = s[k]
    BY <1>1, <2>1 DEF OnceEach
  <2>2. CASE j - m \in 1 .. n /\ both[j] = t[j - m] /\ k - m \in 1 .. n /\ both[k] = t[k - m]
    <3>1. j - m = k - m
      BY <1>1, <2>2 DEF OnceEach
    <3> QED BY <1>1, <3>1
  <2>3. CASE j \in 1 .. m /\ both[j] = s[j] /\ k - m \in 1 .. n /\ both[k] = t[k - m]
    BY <1>1, <2>3 DEF Names
  <2>4. CASE j - m \in 1 .. n /\ both[j] = t[j - m] /\ k \in 1 .. m /\ both[k] = s[k]
    BY <1>1, <2>4 DEF Names
  <2> QED BY <1>5, <2>1, <2>2, <2>3, <2>4
<1> QED BY <1>1, <1>6, <1>7, <1>8, <1>9 DEF both

ServiceNames == ControlledHeaders \cup {"content-type"}

\* No field the service or its MIME builder writes is written twice.
LEMMA FieldsOccurOnce ==
    ASSUME NEW sp, NEW parts, HeadersOK(sp.headers)
    PROVE  LET fields == BuildOutbound(sp, parts).fields IN
           /\ OnceEach(fields, ServiceNames) /\ IsFiniteSet(DOMAIN fields)
           /\ "from" \in Names(fields) /\ "bcc" \notin Names(fields)
<1> DEFINE C == ServiceNames
           U == sp.headers \cup {Field("from"), Field("message-id"), Field("subject"), Field("to"), Field("cc"),
                                 Field("reply-to"), Field("in-reply-to"), Field("references"), Field("date"),
                                 Field("mime-version"), Field("content-type")}
           s1 == <<Field("from"), Field("message-id"), Field("subject")>>
           s2 == IF sp.to = <<>> THEN <<>> ELSE <<Field("to")>>
           s3 == IF sp.cc = <<>> THEN <<>> ELSE <<Field("cc")>>
           s4 == IF sp.reply_to = <<>> THEN <<>> ELSE <<Field("reply-to")>>
           s5 == IF sp.in_reply_to = "none" THEN <<>> ELSE <<Field("in-reply-to")>>
           s6 == IF sp.references = <<>> THEN <<>> ELSE <<Field("references")>>
           s7 == SetToSeq(sp.headers)
           s8 == BuilderFields
<1>1. s1 \in Seq(U) /\ OnceEach(s1, C) /\ Names(s1) = {"from", "message-id", "subject"}
  BY DEF OnceEach, Names, Field
<1>2. ASSUME NEW x \in U, NEW b, NEW s, s = IF b THEN <<>> ELSE <<x>>
      PROVE  s \in Seq(U) /\ OnceEach(s, C) /\ Names(s) \subseteq {x.name}
  <2>1. CASE b
    <3>1. s = <<>>
      BY <1>2, <2>1
    <3> QED BY <3>1 DEF OnceEach, Names
  <2>2. CASE ~b
    <3>1. s = <<x>>
      BY <1>2, <2>2
    <3>2. DOMAIN s = {1} /\ s[1] = x /\ s \in Seq(U)
      BY <3>1
    <3> QED BY <3>2 DEF OnceEach, Names
  <2> QED BY <2>1, <2>2
<1>3. s7 \in Seq(U) /\ OnceEach(s7, C) /\ Names(s7) \cap C = {}
  <2> DEFINE c == Cardinality(sp.headers)
  <2>1. IsFiniteSet(sp.headers) /\ \A h \in sp.headers : h.name \notin C
    BY DEF HeadersOK, ServiceNames
  <2>2. c \in Nat /\ ExistsBijection(1 .. c, sp.headers)
    BY <2>1, FS_CardinalityType
  <2>3. \E f \in [1 .. c -> sp.headers] : IsInjective(f)
    BY <2>2 DEF ExistsBijection, Bijection, Injection
  <2>4. s7 \in [1 .. c -> sp.headers]
    BY <2>3 DEF SetToSeq
  <2> HIDE DEF s7, c
  <2>5. s7 \in Seq(sp.headers) /\ DOMAIN s7 = 1 .. c
    BY <2>2, <2>4
  <2>6. \A k \in DOMAIN s7 : s7[k].name \notin C
    BY <2>1, <2>4, <2>5
  <2> QED BY <2>5, <2>6 DEF OnceEach, Names
<1>4. s8 \in Seq(U) /\ OnceEach(s8, C) /\ Names(s8) = {"date", "mime-version", "content-type"}
  BY DEF OnceEach, Names, Field, BuilderFields
<1>5. s2 \in Seq(U) /\ OnceEach(s2, C) /\ Names(s2) \subseteq {"to"}
  <2>1. Field("to") \in U
    OBVIOUS
  <2> HIDE DEF C, U
  <2> QED BY <1>2, <2>1 DEF Field
<1>6. s3 \in Seq(U) /\ OnceEach(s3, C) /\ Names(s3) \subseteq {"cc"}
  <2>1. Field("cc") \in U
    OBVIOUS
  <2> HIDE DEF C, U
  <2> QED BY <1>2, <2>1 DEF Field
<1>7. s4 \in Seq(U) /\ OnceEach(s4, C) /\ Names(s4) \subseteq {"reply-to"}
  <2>1. Field("reply-to") \in U
    OBVIOUS
  <2> HIDE DEF C, U
  <2> QED BY <1>2, <2>1 DEF Field
<1>8. s5 \in Seq(U) /\ OnceEach(s5, C) /\ Names(s5) \subseteq {"in-reply-to"}
  <2>1. Field("in-reply-to") \in U
    OBVIOUS
  <2> HIDE DEF C, U
  <2> QED BY <1>2, <2>1 DEF Field
<1>9. s6 \in Seq(U) /\ OnceEach(s6, C) /\ Names(s6) \subseteq {"references"}
  <2>1. Field("references") \in U
    OBVIOUS
  <2> HIDE DEF C, U
  <2> QED BY <1>2, <2>1 DEF Field
<1> DEFINE t2 == s1 \o s2
           t3 == t2 \o s3
           t4 == t3 \o s4
           t5 == t4 \o s5
           t6 == t5 \o s6
           t7 == t6 \o s7
           t8 == t7 \o s8
<1>10. BuildOutbound(sp, parts).fields = t8
  BY DEF BuildOutbound
<1> HIDE DEF C, U, s1, s2, s3, s4, s5, s6, s7, s8
<1>11. t2 \in Seq(U) /\ OnceEach(t2, C) /\ Names(t2) \subseteq {"from", "message-id", "subject", "to"} /\ "from" \in Names(t2)
  BY <1>1, <1>5, Joined
<1> HIDE DEF t2
<1>12. /\ t3 \in Seq(U) /\ OnceEach(t3, C) /\ "from" \in Names(t3)
       /\ Names(t3) \subseteq {"from", "message-id", "subject", "to", "cc"}
  BY <1>11, <1>6, Joined
<1> HIDE DEF t3
<1>13. /\ t4 \in Seq(U) /\ OnceEach(t4, C) /\ "from" \in Names(t4)
       /\ Names(t4) \subseteq {"from", "message-id", "subject", "to", "cc", "reply-to"}
  BY <1>12, <1>7, Joined
<1> HIDE DEF t4
<1>14. /\ t5 \in Seq(U) /\ OnceEach(t5, C) /\ "from" \in Names(t5)
       /\ Names(t5) \subseteq {"from", "message-id", "subject", "to", "cc", "reply-to", "in-reply-to"}
  BY <1>13, <1>8, Joined
<1> HIDE DEF t5
<1>15. /\ t6 \in Seq(U) /\ OnceEach(t6, C) /\ "from" \in Names(t6)
       /\ Names(t6) \subseteq {"from", "message-id", "subject", "to", "cc", "reply-to", "in-reply-to", "references"}
  BY <1>14, <1>9, Joined
<1> HIDE DEF t6
<1>16. /\ t7 \in Seq(U) /\ OnceEach(t7, C) /\ "from" \in Names(t7)
       /\ Names(t7) \cap C \subseteq {"from", "message-id", "subject", "to", "cc", "reply-to", "in-reply-to", "references"}
  BY <1>15, <1>3, Joined
<1> HIDE DEF t7
<1>17. /\ t8 \in Seq(U) /\ OnceEach(t8, C) /\ "from" \in Names(t8)
       /\ Names(t8) \cap C \subseteq {"from", "message-id", "subject", "to", "cc", "reply-to", "in-reply-to", "references",
                                      "date", "mime-version", "content-type"}
  BY <1>16, <1>4, Joined
<1> HIDE DEF t8
<1>18. "bcc" \in C
  BY DEF C, ServiceNames, ControlledHeaders
<1>19. IsFiniteSet(DOMAIN t8)
  <2>1. DOMAIN t8 = 1 .. Len(t8) /\ Len(t8) \in Int /\ 1 \in Int
    BY <1>17
  <2> QED BY <2>1, FS_Interval
<1> QED BY <1>10, <1>17, <1>18, <1>19 DEF C

\* The tree of a document: parts in a wrapper round the text, and one round that.
Entries(sp, inline) == {i \in DOMAIN sp.attachments : sp.attachments[i].inline = inline}
PartLeaves(sp, parts, inline) == {PartLeaf(sp, parts, i) : i \in Entries(sp, inline)}
LeafList(sp, parts, inline) ==
    [k \in DOMAIN InOrder(Entries(sp, inline)) |-> PartLeaf(sp, parts, InOrder(Entries(sp, inline))[k])]

LEMMA LeavesListed ==
    ASSUME NEW sp, NEW parts, NEW inline, NEW n \in Nat, DOMAIN sp.attachments = 1 .. n
    PROVE  /\ LeafList(sp, parts, inline) \in Seq(PartLeaves(sp, parts, inline))
           /\ ToSet(LeafList(sp, parts, inline)) = PartLeaves(sp, parts, inline)
           /\ InOrder(Entries(sp, inline)) = <<>> <=> Entries(sp, inline) = {}
           /\ Len(LeafList(sp, parts, inline)) = 0 <=> Entries(sp, inline) = {}
<1> DEFINE S == Entries(sp, inline)
           those == InOrder(S)
           leaf(i) == PartLeaf(sp, parts, i)
           L == PartLeaves(sp, parts, inline)
           list == LeafList(sp, parts, inline)
<1>1. S \in SUBSET Nat /\ S \subseteq 1 .. n /\ IsFiniteSet(S)
  <2>1. IsFiniteSet(1 .. n)
    <3>1. 1 \in Int /\ n \in Int
      OBVIOUS
    <3> QED BY <3>1, FS_Interval
  <2>2. S \subseteq 1 .. n
    BY DEF Entries
  <2> QED BY <2>1, <2>2, FS_Subset
<1>2. those \in Seq(S) /\ ToSet(those) = S
  <2> HIDE DEF S
  <2> QED BY <1>1, InOrderLists
<1>3. L = {leaf(i) : i \in S} /\ list = [k \in DOMAIN those |-> leaf(those[k])]
  BY DEF PartLeaves, LeafList
<1> HIDE DEF S, those, leaf, L, list
<1>4. /\ DOMAIN those = 1 .. Len(those) /\ Len(those) \in Nat
      /\ S = {those[k] : k \in 1 .. Len(those)}
  BY <1>2 DEF ToSet
<1>5. list \in Seq(L) /\ DOMAIN list = 1 .. Len(those)
  <2>1. list \in [1 .. Len(those) -> L]
    BY <1>3, <1>4
  <2> QED BY <1>4, <2>1
<1>6. ToSet(list) = L
  <2>1. ToSet(list) = {list[k] : k \in 1 .. Len(those)}
    BY <1>5 DEF ToSet
  <2> QED BY <1>3, <1>4, <2>1
<1>7. those = <<>> <=> S = {}
  <2>1. those = <<>> <=> Len(those) = 0
    BY <1>2
  <2> QED BY <1>4, <2>1
<1>8. Len(list) = Len(those)
  BY <1>4, <1>5
<1>9. Len(those) = 0 <=> S = {}
  BY <1>4
<1> QED BY <1>5, <1>6, <1>7, <1>8, <1>9 DEF S, those, L, list

LEMMA WrapHolds ==
    ASSUME NEW U, NEW inner \in U, NEW list \in Seq(U), Len(list) # 0, NEW type,
           NEW w, w = Wrap(type, <<inner>> \o list)
    PROVE  ToSet(w.children) = {inner} \cup ToSet(list) /\ Len(w.children) # 1 /\ w.type = type
<1> DEFINE s == <<inner>> \o list
<1>1. w.children = s /\ w.type = type
  BY DEF Wrap, Leaf
<1>2. Len(s) = 1 + Len(list) /\ Len(list) \in Nat /\ DOMAIN s = 1 .. Len(s) /\ s[1] = inner /\ DOMAIN list = 1 .. Len(list)
  OBVIOUS
<1>3. \A k \in 1 .. Len(list) : s[k + 1] = list[k]
  OBVIOUS
<1> HIDE DEF s
<1>4. ToSet(s) \subseteq {inner} \cup ToSet(list)
  <2>1. ASSUME NEW k \in 1 .. Len(s), k # 1 PROVE s[k] \in ToSet(list)
    <3>1. k - 1 \in 1 .. Len(list) /\ (k - 1) + 1 = k
      BY <1>2, <2>1
    <3> QED BY <1>2, <1>3, <3>1 DEF ToSet
  <2> QED BY <1>2, <2>1 DEF ToSet
<1>5. {inner} \cup ToSet(list) \subseteq ToSet(s)
  <2>1. ASSUME NEW k \in 1 .. Len(list) PROVE list[k] \in ToSet(s)
    <3>1. k + 1 \in 1 .. Len(s)
      BY <1>2
    <3> QED BY <1>2, <1>3, <3>1 DEF ToSet
  <2>2. 1 \in DOMAIN s
    BY <1>2
  <2> QED BY <1>2, <2>1, <2>2 DEF ToSet
<1> QED BY <1>1, <1>2, <1>4, <1>5

\* A tree round another one, if there is anything to go with it.
Wraps(outer, inner, with) == (outer = inner /\ with = {}) \/ ToSet(outer.children) = {inner} \cup with
IsTree(body, rel, alt, T, LT, LF) ==
    /\ ToSet(alt.children) \subseteq T /\ Wraps(rel, alt, LT) /\ Wraps(body, rel, LF)
    /\ \A x \in T \cup LT \cup LF : ToSet(x.children) = {}

\* All of a tree is within the four levels that are looked at.
LEMMA TreeNodes ==
    ASSUME NEW alt, NEW rel, NEW body, NEW T, NEW LT, NEW LF, IsTree(body, rel, alt, T, LT, LF)
    PROVE  Nodes(body) \subseteq {body, rel, alt} \cup T \cup LT \cup LF /\ LT \cup LF \subseteq Nodes(body)
<1> DEFINE C1 == Children({body})
           C2 == Children(C1)
           C3 == Children(C2)
<1>1. Nodes(body) = {body} \cup C1 \cup C2 \cup C3
  BY DEF Nodes
<1>2. C1 = ToSet(body.children)
  BY DEF Children
<1>3. \A x : x \in C2 <=> \E t \in C1 : x \in ToSet(t.children)
  BY DEF Children
<1>4. \A x : x \in C3 <=> \E t \in C2 : x \in ToSet(t.children)
  BY DEF Children
<1> HIDE DEF C1, C2, C3
<1>0. /\ ToSet(alt.children) \subseteq T
      /\ \A x \in T \cup LT \cup LF : ToSet(x.children) = {}
      /\ (rel = alt /\ LT = {}) \/ ToSet(rel.children) = {alt} \cup LT
      /\ (body = rel /\ LF = {}) \/ ToSet(body.children) = {rel} \cup LF
  BY DEF IsTree, Wraps
<1>5. CASE body = rel /\ LF = {}
  <2>1. CASE rel = alt /\ LT = {}
    <3>1. C1 \subseteq T
      BY <1>0, <1>2, <1>5, <2>1
    <3>2. C2 = {}
      BY <1>0, <1>3, <3>1
    <3>3. C3 = {}
      BY <1>0, <1>4, <3>2
    <3> QED BY <1>1, <1>5, <2>1, <3>1, <3>2, <3>3
  <2>2. CASE ToSet(rel.children) = {alt} \cup LT
    <3>1. C1 = {alt} \cup LT
      BY <1>2, <1>5, <2>2
    <3>2. C2 \subseteq T
      BY <1>0, <1>3, <3>1
    <3>3. C3 = {}
      BY <1>0, <1>4, <3>2
    <3> QED BY <1>1, <1>5, <3>1, <3>2, <3>3
  <2> QED BY <1>0, <2>1, <2>2
<1>6. CASE ToSet(body.children) = {rel} \cup LF
  <2>0. C1 = {rel} \cup LF
    BY <1>2, <1>6
  <2>1. CASE rel = alt /\ LT = {}
    <3>2. C2 \subseteq T
      BY <1>0, <1>3, <2>0, <2>1
    <3>3. C3 = {}
      BY <1>0, <1>4, <3>2
    <3> QED BY <1>1, <2>0, <2>1, <3>2, <3>3
  <2>2. CASE ToSet(rel.children) = {alt} \cup LT
    <3>2. C2 = {alt} \cup LT
      BY <1>0, <1>3, <2>0, <2>2
    <3>3. C3 \subseteq T
      BY <1>0, <1>4, <3>2
    <3> QED BY <1>1, <2>0, <3>2, <3>3
  <2> QED BY <1>0, <2>1, <2>2
<1> QED BY <1>0, <1>5, <1>6

\* Every part is in the document once it is built, and no wrapper is round one thing.
LEMMA PartsAreInTheBody ==
    ASSUME NEW sp, NEW parts, NEW n \in Nat, DOMAIN sp.attachments = 1 .. n,
           \A i \in 1 .. n : sp.attachments[i].inline \in BOOLEAN
    PROVE  LET nodes == Nodes(BodyPart(sp, parts)) IN
           /\ {x \in nodes : x.type = "attached"} = {PartLeaf(sp, parts, i) : i \in 1 .. n}
           /\ \A x \in nodes : Len(x.children) # 1
           /\ \A x \in nodes : x.cid # "none" => x \in PartLeaves(sp, parts, TRUE)
           /\ PartLeaves(sp, parts, TRUE) \subseteq nodes \cap Children({x \in nodes : x.type = "related"})
<1> DEFINE alt == Alternative(sp.bodies)
           LT == PartLeaves(sp, parts, TRUE)
           LF == PartLeaves(sp, parts, FALSE)
           lt == LeafList(sp, parts, TRUE)
           lf == LeafList(sp, parts, FALSE)
           wr == Wrap("related", <<alt>> \o lt)
           rel == IF InOrder(Entries(sp, TRUE)) = <<>> THEN alt ELSE wr
           wm == Wrap("mixed", <<rel>> \o lf)
           body == IF InOrder(Entries(sp, FALSE)) = <<>> THEN rel ELSE wm
           T == {Text("text"), Text("html")}
<1>1. BodyPart(sp, parts) = body
  BY DEF BodyPart, Entries, LeafList
<1>2. /\ alt.type \in {"alternative", "text", "html"} /\ Len(alt.children) # 1
      /\ ToSet(alt.children) \subseteq T
  <2>1. CASE sp.bodies = {"text", "html"}
    <3>1. alt.type = "alternative" /\ alt.children = <<Text("text"), Text("html")>>
      BY <2>1 DEF Alternative, Wrap, Leaf
    <3> QED BY <3>1 DEF ToSet
  <2>2. CASE sp.bodies # {"text", "html"}
    <3>1. alt.type \in {"text", "html"} /\ alt.children = <<>>
      BY <2>2 DEF Alternative, Text, Leaf
    <3> QED BY <3>1 DEF ToSet
  <2> QED BY <2>1, <2>2
<1>3. \A x \in T : x.type \in {"text", "html"} /\ x.children = <<>>
  BY DEF Text, Leaf
<1>4. \A x \in LT \cup LF : x.type = "attached" /\ x.children = <<>>
  <2>1. \A i : PartLeaf(sp, parts, i).type = "attached" /\ PartLeaf(sp, parts, i).children = <<>>
    BY DEF PartLeaf, Leaf
  <2> QED BY <2>1 DEF PartLeaves
<1>5. /\ lt \in Seq(LT) /\ ToSet(lt) = LT /\ (Len(lt) = 0 <=> Entries(sp, TRUE) = {})
      /\ (InOrder(Entries(sp, TRUE)) = <<>> <=> Entries(sp, TRUE) = {})
  BY LeavesListed
<1>6. /\ lf \in Seq(LF) /\ ToSet(lf) = LF /\ (Len(lf) = 0 <=> Entries(sp, FALSE) = {})
      /\ (InOrder(Entries(sp, FALSE)) = <<>> <=> Entries(sp, FALSE) = {})
  BY LeavesListed
<1>7. LT \cup LF = {PartLeaf(sp, parts, i) : i \in 1 .. n}
  BY DEF PartLeaves, Entries
<1>8. (Entries(sp, TRUE) = {} => LT = {}) /\ (Entries(sp, FALSE) = {} => LF = {})
  BY DEF PartLeaves
<1>8a. alt.cid = "none" /\ rel.cid = "none" /\ body.cid = "none"
  <2>1. \A type, children : Wrap(type, children).cid = "none"
    BY DEF Wrap, Leaf
  <2>2. alt.cid = "none"
    BY <2>1 DEF Alternative, Text, Leaf
  <2> HIDE DEF alt
  <2>3. rel.cid = "none"
    BY <2>1, <2>2
  <2> HIDE DEF rel
  <2> QED BY <2>1, <2>2, <2>3
<1> HIDE DEF alt, LT, LF, lt, lf, T
<1>9. \/ rel = alt /\ LT = {}
      \/ rel.type = "related" /\ Len(rel.children) # 1 /\ ToSet(rel.children) = {alt} \cup LT
  <2>1. CASE Entries(sp, TRUE) = {}
    BY <1>5, <1>8, <2>1
  <2>2. CASE Entries(sp, TRUE) # {}
    <3>1. rel = wr /\ Len(lt) # 0
      BY <1>5, <2>2
    <3> DEFINE U == {alt} \cup LT
    <3>2. lt \in Seq(U) /\ alt \in U
      BY <1>5
    <3> HIDE DEF rel, U
    <3>3. rel = Wrap("related", <<alt>> \o lt)
      BY <3>1
    <3>4. ToSet(rel.children) = {alt} \cup ToSet(lt) /\ Len(rel.children) # 1 /\ rel.type = "related"
      BY <3>1, <3>2, <3>3, WrapHolds
    <3> QED BY <1>5, <3>4
  <2> QED BY <2>1, <2>2
<1> HIDE DEF rel
<1>10. \/ body = rel /\ LF = {}
       \/ body.type = "mixed" /\ Len(body.children) # 1 /\ ToSet(body.children) = {rel} \cup LF
  <2>1. CASE Entries(sp, FALSE) = {}
    BY <1>6, <1>8, <2>1
  <2>2. CASE Entries(sp, FALSE) # {}
    <3>1. body = wm /\ Len(lf) # 0
      BY <1>6, <2>2
    <3> DEFINE U == {rel} \cup LF
    <3>2. lf \in Seq(U) /\ rel \in U
      BY <1>6
    <3> HIDE DEF body, U
    <3>3. body = Wrap("mixed", <<rel>> \o lf)
      BY <3>1
    <3>4. ToSet(body.children) = {rel} \cup ToSet(lf) /\ Len(body.children) # 1 /\ body.type = "mixed"
      BY <3>1, <3>2, <3>3, WrapHolds
    <3> QED BY <1>6, <3>4
  <2> QED BY <2>1, <2>2
<1> HIDE DEF body
<1>11. ToSet(<<>>) = {} /\ Len(<<>>) = 0
  BY DEF ToSet
<1>12. Nodes(body) \subseteq {body, rel, alt} \cup T \cup LT \cup LF /\ LT \cup LF \subseteq Nodes(body)
  <2>1. \A x \in T \cup LT \cup LF : ToSet(x.children) = {}
    BY <1>3, <1>4, <1>11
  <2>2. Wraps(rel, alt, LT)
    BY <1>9 DEF Wraps
  <2>3. Wraps(body, rel, LF)
    BY <1>10 DEF Wraps
  <2>4. IsTree(body, rel, alt, T, LT, LF)
    BY <1>2, <2>1, <2>2, <2>3 DEF IsTree
  <2> QED BY <2>4, TreeNodes
<1>13. \A x \in {body, rel, alt} \cup T : x.type # "attached"
  BY <1>2, <1>3, <1>9, <1>10
<1>14. \A x \in {body, rel, alt} \cup T \cup LT \cup LF : Len(x.children) # 1
  BY <1>2, <1>3, <1>4, <1>9, <1>10, <1>11
<1>15. {x \in Nodes(body) : x.type = "attached"} = LT \cup LF
  BY <1>4, <1>12, <1>13
<1>16. \A x \in Nodes(body) : x.cid # "none" => x \in LT
  <2>1. \A x \in T \cup LF : x.cid = "none"
    <3>1. \A i \in Entries(sp, FALSE) : PartLeaf(sp, parts, i).cid = "none"
      BY DEF PartLeaf, Leaf, Entries
    <3>2. \A x \in LF : x.cid = "none"
      BY <3>1 DEF LF, PartLeaves
    <3>3. \A x \in T : x.cid = "none"
      BY DEF T, Text, Leaf
    <3> QED BY <3>2, <3>3
  <2> QED BY <1>8a, <1>12, <2>1
<1>17. LT \subseteq Children({x \in Nodes(body) : x.type = "related"})
  <2>1. LT # {} => rel \in Nodes(body) /\ rel.type = "related" /\ LT \subseteq ToSet(rel.children)
    <3>1. rel \in Nodes(body)
      <4>1. CASE body = rel
        BY <4>1 DEF Nodes
      <4>2. CASE ToSet(body.children) = {rel} \cup LF
        BY <4>2 DEF Nodes, Children
      <4> QED BY <1>10, <4>1, <4>2
    <3> QED BY <1>9, <3>1
  <2> QED BY <2>1 DEF Children
<1> QED BY <1>1, <1>7, <1>12, <1>14, <1>15, <1>16, <1>17 DEF LT

\* How often a name occurs among fields that use it once.
LEMMA CountOnce ==
    ASSUME NEW fields, NEW C, OnceEach(fields, C), IsFiniteSet(DOMAIN fields), NEW name \in C
    PROVE  LET count == Cardinality({k \in DOMAIN fields : fields[k].name = name}) IN
           count = IF name \in Names(fields) THEN 1 ELSE 0
<1> DEFINE K == {k \in DOMAIN fields : fields[k].name = name}
<1>1. CASE name \in Names(fields)
  <2>1. PICK k \in DOMAIN fields : fields[k].name = name
    BY <1>1 DEF Names
  <2>2. K = {k}
    BY <2>1 DEF OnceEach
  <2> QED BY <1>1, <2>2, FS_Singleton
<1>2. CASE name \notin Names(fields)
  <2>1. K = {}
    BY <1>2 DEF Names
  <2> QED BY <1>2, <2>1, FS_EmptySet
<1> QED BY <1>1, <1>2

LEMMA OwnLabels ==
    ASSUME NEW lb, NEW own, lb = own \cup {"queued"}, LabelsOK(own)
    PROVE  UserLabels(lb) = lb \ (SettableLabels \cup {"queued"}) /\ Cardinality(UserLabels(lb)) <= RequestLabelCap
<1>1. UserLabels(lb) = UserLabels(own)
  BY DEF UserLabels, SystemLabels
<1>2. UserLabels(own) = lb \ (SettableLabels \cup {"queued"})
  BY DEF UserLabels, LabelsOK, SystemLabels
<1> QED BY <1>1, <1>2 DEF LabelsOK

-----------------------------------------------------------------------------
(***************************************************************************)
(* The theorems.                                                           *)
(***************************************************************************)

\* The inductive invariant: what an attempt has loaded is what the outbox holds,
\* unless another one was faster; what it fetches was missing, over a URL that
\* passed the rules, from public addresses (load_parts, fetch.rs).
THEOREM PartsInvariant == PartsSpec => []PartsInv
<1>1. PartsInit => PartsInv
  BY InitOK
<1>2. PartsInv /\ [PartsNext]_partsVars => PartsInv'
  <2> SUFFICES ASSUME PartsInv, [PartsNext]_partsVars PROVE PartsInv'
    OBVIOUS
  <2>1. CASE Released
    <3>1. UNCHANGED <<wants, reply, spec, labels, stored, late, att, calls, reached>>
      BY <2>1 DEF Released
    <3> QED BY <3>1 DEF PartsInv, Untouched
  <2>2. CASE UNCHANGED partsVars
    BY <2>2 DEF partsVars, PartsInv, Untouched
  <2> QED BY <2>1, <2>2, ArrivesStep, SubmitsStep, AttemptStep, LandsStep DEF PartsNext
<1> QED BY <1>1, <1>2, PTL DEF PartsSpec

\* load_parts, "a URL fetched once and stored so a retry reuses it": all documents
\* SES is given for one send are the same, unless an attempt came second to the part
\* it fetched.
THEOREM RetriesSendTheSame == PartsSpec => []EveryAttemptSendsTheSame
<1>1. PartsInv => EveryAttemptSendsTheSame
  <2> SUFFICES ASSUME PartsInv, NEW c \in 1 .. Len(calls), NEW d \in 1 .. Len(calls), ~calls[c].raced, ~calls[d].raced
               PROVE  calls[c] = calls[d]
    BY DEF EveryAttemptSendsTheSame
  <2> DEFINE n == Len(spec.attachments)
  <2>1. CallOK(calls[c], spec, stored) /\ CallOK(calls[d], spec, stored)
    BY DEF PartsInv, CallsOK
  <2>2. /\ calls[c].parts \in Seq(DOMAIN Size) /\ Len(calls[c].parts) = n
        /\ calls[d].parts \in Seq(DOMAIN Size) /\ Len(calls[d].parts) = n
        /\ \A i \in 1 .. n : calls[c].parts[i] = stored[i] /\ calls[d].parts[i] = stored[i]
    BY <2>1 DEF CallOK, AreStored
  <2>3. calls[c].parts = calls[d].parts
    BY <2>2
  <2>4. calls[c].raced = calls[d].raced
    BY <2>1 DEF CallOK
  <2> QED BY <2>1, <2>3, <2>4 DEF CallOK
<1> QED BY <1>1, PartsInvariant, PTL

\* url_policy.rs, "fetch a public HTTPS host, and keep checking": whatever names
\* resolve to and wherever redirects lead, every connection is over https to an
\* address outside the reserved blocks, and what is fetched fits the message.
THEOREM FetchesArePublic == PartsSpec => []FetchesStayPublic
<1>1. PartsInv => FetchesStayPublic
  <2> SUFFICES ASSUME PartsInv PROVE FetchesStayPublic
    OBVIOUS
  <2>1. ASSUME NEW host \in reached
        PROVE  /\ host.https
               /\ \A block \in IF host.ip.v = "v6" THEN ReservedV6 ELSE ReservedV4 : ~InBlock(host.ip, block)
    <3>1. host.https /\ host.ip \in Ips /\ IsPublicIp(host.ip)
      BY DEF PartsInv, ReachedOK, PublicIps
    <3>2. CASE host.ip.v = "v6"
      BY <3>1, <3>2, V6Outside
    <3>3. CASE host.ip.v # "v6"
      BY <3>1, <3>3, V4Outside
    <3> QED BY <3>1, <3>2, <3>3
  <2>2. ASSUME NEW a \in Attempts PROVE att[a].got # "none" => Size[att[a].got] <= att[a].budget
    BY AttemptFacts DEF AttemptOK, FitsBudget
  <2> QED BY <2>1, <2>2 DEF FetchesStayPublic
<1> QED BY <1>1, PartsInvariant, PTL

\* "a caller cannot rewrite From" and "Bcc is never written as a header"
\* (validate.rs, build.rs): no field of the service or its MIME builder occurs
\* twice, Bcc never; every part is in the document, no wrapper is round a single
\* one, and a reference of the HTML finds the inline part it names and no other; no
\* label records what has not happened, nor are there too many.
THEOREM MailSaysWhatWasAsked == PartsSpec => []MailIsWhatTheServiceSays
<1>1. PartsInv => MailIsWhatTheServiceSays
  <2> SUFFICES ASSUME PartsInv PROVE MailIsWhatTheServiceSays
    OBVIOUS
  <2>1. ASSUME NEW c \in 1 .. Len(calls)
        PROVE  LET mail == calls[c].mail
                   nodes == Nodes(mail.body)
                   beside == Children({x \in nodes : x.type = "related"})
                   found(cid) == {x \in nodes : x.cid = cid}
                   count(name) == Cardinality({k \in DOMAIN mail.fields : mail.fields[k].name = name})
               IN /\ \A name \in ControlledHeaders \cup {"content-type"} : count(name) <= 1
                  /\ count("from") = 1 /\ count("bcc") = 0
                  /\ {n.bytes : n \in {x \in nodes : x.type = "attached"}} = ToSet(calls[c].parts)
                  /\ \A i \in DOMAIN spec.attachments :
                        LET cid == spec.attachments[i].cid IN
                        spec.attachments[i].inline =>
                           found(cid) \subseteq beside /\ {x.bytes : x \in found(cid)} = {calls[c].parts[i]}
                  /\ \A n \in nodes : Len(n.children) # 1
    <3> DEFINE mail == calls[c].mail
               parts == calls[c].parts
               fields == mail.fields
               nodes == Nodes(mail.body)
               beside == Children({x \in nodes : x.type = "related"})
               found(cid) == {x \in nodes : x.cid = cid}
               count(name) == Cardinality({k \in DOMAIN fields : fields[k].name = name})
               n == Len(spec.attachments)
    <3>1. CallOK(calls[c], spec, stored)
      BY DEF PartsInv, CallsOK
    <3>2. calls # <<>>
      BY DEF PartsInv, CallsOK
    <3>3. SpecOK(spec, stored, labels) /\ reply = "200"
      BY <3>2 DEF PartsInv, Untouched
    <3>4. mail = BuildOutbound(spec, parts)
      BY <3>1 DEF CallOK
    <3>5. /\ OnceEach(fields, ServiceNames) /\ IsFiniteSet(DOMAIN fields)
          /\ "from" \in Names(fields) /\ "bcc" \notin Names(fields)
      <4>1. HeadersOK(spec.headers)
        BY <3>3 DEF SpecOK
      <4> QED BY <3>4, <4>1, FieldsOccurOnce
    <3>6. n \in Nat /\ DOMAIN spec.attachments = 1 .. n /\ \A i \in 1 .. n : spec.attachments[i].inline \in BOOLEAN
      <4>1. spec.attachments \in Seq(SpecAttachments)
        BY <3>3 DEF SpecOK
      <4>2. n \in Nat /\ DOMAIN spec.attachments = 1 .. n /\ \A i \in 1 .. n : spec.attachments[i] \in SpecAttachments
        BY <4>1
      <4> QED BY <4>2 DEF SpecAttachments
    <3>7. mail.body = BodyPart(spec, parts)
      BY <3>4 DEF BuildOutbound
    <3> HIDE DEF mail, fields, n
    <3>8. \A name \in ServiceNames : count(name) = IF name \in Names(fields) THEN 1 ELSE 0
      BY <3>5, CountOnce
    <3> HIDE DEF count
    <3>9. "from" \in ServiceNames /\ "bcc" \in ServiceNames
      BY DEF ServiceNames, ControlledHeaders
    <3>10. (\A name \in ServiceNames : count(name) <= 1) /\ count("from") = 1 /\ count("bcc") = 0
      <4>1. \A name \in ServiceNames : count(name) \in {0, 1}
        BY <3>8
      <4> QED BY <3>5, <3>8, <3>9, <4>1
    <3> HIDE DEF parts
    <3>11. /\ {x \in nodes : x.type = "attached"} = {PartLeaf(spec, parts, i) : i \in 1 .. n}
           /\ \A x \in nodes : Len(x.children) # 1
           /\ \A x \in nodes : x.cid # "none" => x \in PartLeaves(spec, parts, TRUE)
           /\ PartLeaves(spec, parts, TRUE) \subseteq nodes \cap beside
      BY <3>6, <3>7, PartsAreInTheBody
    <3>12. {x.bytes : x \in {y \in nodes : y.type = "attached"}} = ToSet(parts)
      <4>1. \A i : PartLeaf(spec, parts, i).bytes = parts[i]
        BY DEF PartLeaf, Leaf
      <4>2. {x.bytes : x \in {PartLeaf(spec, parts, i) : i \in 1 .. n}} = {parts[i] : i \in 1 .. n}
        BY <4>1
      <4>3. DOMAIN parts = 1 .. n
        BY <3>1 DEF CallOK, parts, n
      <4> QED BY <3>11, <4>2, <4>3 DEF ToSet
    <3>13. ASSUME NEW i \in DOMAIN spec.attachments, spec.attachments[i].inline
           PROVE  LET cid == spec.attachments[i].cid IN
                  found(cid) \subseteq beside /\ {x.bytes : x \in found(cid)} = {parts[i]}
      <4> DEFINE cid == spec.attachments[i].cid
                 own == PartLeaf(spec, parts, i)
      <4>1. cid # "none" /\ \A j \in DOMAIN spec.attachments : spec.attachments[j].cid = cid => j = i
        BY <3>3, <3>13 DEF SpecOK, InlinesNamed
      <4>2. own \in PartLeaves(spec, parts, TRUE) /\ own.cid = cid /\ own.bytes = parts[i]
        <5>1. spec.attachments[i].inline = TRUE
          BY <3>6, <3>13
        <5> QED BY <5>1 DEF PartLeaves, Entries, PartLeaf, Leaf
      <4>3. ASSUME NEW x \in nodes, x.cid = cid PROVE x = own
        <5>1. x \in PartLeaves(spec, parts, TRUE)
          BY <3>11, <4>1, <4>3
        <5>2. PICK j \in DOMAIN spec.attachments : x = PartLeaf(spec, parts, j) /\ spec.attachments[j].inline = TRUE
          BY <5>1 DEF PartLeaves, Entries
        <5>3. spec.attachments[j].cid = cid
          BY <4>3, <5>2 DEF PartLeaf, Leaf
        <5> QED BY <4>1, <5>2, <5>3
      <4> HIDE DEF own, nodes, beside
      <4>4. found(cid) = {own}
        BY <3>11, <4>2, <4>3
      <4> QED BY <3>11, <4>2, <4>4
    <3> HIDE DEF beside, found
    <3> QED BY <3>10, <3>11, <3>12, <3>13 DEF mail, fields, count, parts, ServiceNames, beside, found
  <2>2. UserLabels(labels) = labels \ (SettableLabels \cup {"queued"}) /\ Cardinality(UserLabels(labels)) <= RequestLabelCap
    <3>1. CASE reply = "200"
      BY <3>1, OwnLabels DEF PartsInv, SpecOK
    <3>2. CASE reply # "200"
      <4>1. labels = {} /\ UserLabels(labels) = {}
        BY <3>2 DEF PartsInv, Untouched, UserLabels
      <4>2. Cardinality(UserLabels(labels)) = 0 /\ RequestLabelCap \in Nat
        BY <4>1, FS_EmptySet, RequestLimitsAssumption
      <4> QED BY <4>1, <4>2
    <3> QED BY <3>1, <3>2
  <2> QED BY <2>1, <2>2 DEF MailIsWhatTheServiceSays
<1> QED BY <1>1, PartsInvariant, PTL
\* The running sums of a list, and its Total.
IsSum(f, s) == f \in [0 .. Len(s) -> Nat] /\ f[0] = 0 /\ \A k \in 1 .. Len(s) : f[k] = f[k - 1] + s[k]

LEMMA Least ==
    ASSUME NEW S \in SUBSET Nat, S # {}
    PROVE  \E i \in S : \A j \in S : i <= j
<1> PICK n \in S : TRUE
  OBVIOUS
<1> DEFINE T == {j \in S : j <= n}
           c == Cardinality(T)
<1>1. IsFiniteSet(T) /\ T \in SUBSET Nat /\ n \in T
  <2>1. T \subseteq 0 .. n
    <3> SUFFICES ASSUME NEW j \in T PROVE j \in 0 .. n
      OBVIOUS
    <3>1. j \in Nat /\ n \in Nat /\ j <= n
      OBVIOUS
    <3> QED BY <3>1
  <2>2. IsFiniteSet(0 .. n)
    BY FS_Interval
  <2> QED BY <2>1, <2>2, FS_Subset
<1> HIDE DEF T
<1>2. c \in Nat /\ c # 0
  BY <1>1, FS_CardinalityType, FS_EmptySet
<1>3. InOrder(T)[1] \in T /\ Cardinality(Below(T, InOrder(T)[1])) = 0
  BY <1>1, <1>2, InOrderLists
<1> DEFINE least == InOrder(T)[1]
<1> HIDE DEF least
<1>4. least \in T /\ Below(T, least) = {}
  <2>1. Below(T, least) \subseteq T
    BY DEF Below
  <2>2. IsFiniteSet(Below(T, least))
    BY <1>1, <2>1, FS_Subset
  <2> QED BY <1>3, <2>2, FS_EmptySet DEF least
<1>5. \A j \in T : least <= j
  BY <1>1, <1>4 DEF Below
<1>6. \A j \in S : j \notin T => n < j
  BY DEF T
<1> QED BY <1>1, <1>4, <1>5, <1>6 DEF T

LEMMA Greatest ==
    ASSUME NEW S \in SUBSET Nat, S # {}, IsFiniteSet(S)
    PROVE  \E i \in S : \A j \in S : j <= i
<1> DEFINE c == Cardinality(S)
<1>1. c \in Nat /\ c # 0
  BY FS_CardinalityType, FS_EmptySet
<1>2. InOrder(S)[c] \in S /\ Cardinality(Below(S, InOrder(S)[c])) = c - 1
  BY <1>1, InOrderLists
<1> DEFINE last == InOrder(S)[c]
<1> HIDE DEF last
<1>3. last \in S /\ Cardinality(Below(S, last)) = c - 1
  BY <1>2 DEF last
<1>4. Below(S, last) \subseteq S \ {last}
  BY <1>3 DEF Below
<1>5. IsFiniteSet(S \ {last}) /\ Cardinality(S \ {last}) = c - 1
  BY <1>3, FS_RemoveElement
<1>6. Below(S, last) = S \ {last}
  <2> DEFINE R == S \ {last}
  <2> HIDE DEF R
  <2> QED BY <1>3, <1>4, <1>5, FS_Subset DEF R
<1>7. \A j \in S : j <= last
  BY <1>3, <1>6 DEF Below
<1> QED BY <1>3, <1>7

LEMMA AtPlaces ==
    ASSUME NEW U, NEW seq \in Seq(U), NEW P \in SUBSET DOMAIN seq
    PROVE  /\ IsFiniteSet(P) /\ At(seq, P) \in Seq(U) /\ Len(At(seq, P)) = Cardinality(P)
           /\ DOMAIN At(seq, P) = 1 .. Cardinality(P)
           /\ ToSet(At(seq, P)) = {seq[i] : i \in P}
           /\ \A k \in DOMAIN At(seq, P) : InOrder(P)[k] \in P /\ At(seq, P)[k] = seq[InOrder(P)[k]]
<1> DEFINE c == Cardinality(P)
           these == At(seq, P)
           order == InOrder(P)
<1>1. IsFiniteSet(P) /\ P \in SUBSET Nat
  <2>1. DOMAIN seq = 1 .. Len(seq) /\ Len(seq) \in Nat
    OBVIOUS
  <2>2. IsFiniteSet(1 .. Len(seq))
    BY <2>1, FS_Interval
  <2> QED BY <2>1, <2>2, FS_Subset
<1>2. order \in Seq(P) /\ Len(order) = c /\ ToSet(order) = P /\ c \in Nat
  BY <1>1, InOrderLists, FS_CardinalityType
<1>3. these = [k \in 1 .. c |-> seq[order[k]]]
  BY DEF At
<1> HIDE DEF c, these, order
<1>4. \A k \in 1 .. c : order[k] \in P /\ seq[order[k]] \in U
  BY <1>2
<1>5. these \in Seq(U) /\ Len(these) = c /\ DOMAIN these = 1 .. c
  <2>1. these \in [1 .. c -> U]
    BY <1>3, <1>4
  <2> QED BY <1>2, <2>1
<1>6. ToSet(these) = {seq[order[k]] : k \in 1 .. c}
  BY <1>3, <1>5 DEF ToSet
<1>7. P = {order[k] : k \in 1 .. c}
  BY <1>2 DEF ToSet
<1>8. ToSet(these) = {seq[i] : i \in P}
  BY <1>6, <1>7
<1> QED BY <1>1, <1>3, <1>4, <1>5, <1>8 DEF c, these, order
\* Any list of numbers has running sums, and they give its total.
LEMMA SumExists ==
    ASSUME NEW s \in Seq(Nat)
    PROVE  \E f : IsSum(f, s)
<1> DEFINE n == Len(s)
           upTo(f, m) == /\ f \in [0 .. m -> Nat] /\ f[0] = 0
                         /\ \A k \in 1 .. m : f[k] = f[k - 1] + s[k]
           bad == {m \in 0 .. n : ~\E f : upTo(f, m)}
<1>1. n \in Nat /\ \A k \in 1 .. n : s[k] \in Nat
  OBVIOUS
<1> HIDE DEF n
<1>2. ASSUME bad # {} PROVE FALSE
  <2>1. PICK m \in bad : \A j \in bad : m <= j
    <3>1. bad \in SUBSET Nat
      BY <1>1
    <3> HIDE DEF bad
    <3> QED BY <1>2, <3>1, Least
  <2>2. m \in 0 .. n
    OBVIOUS
  <2>3. m # 0
    <3> DEFINE zero == [k \in 0 .. 0 |-> 0]
    <3>1. upTo(zero, 0)
      OBVIOUS
    <3> QED BY <3>1
  <2>4. m - 1 \in 0 .. n /\ m \in 1 .. n /\ m - 1 \notin bad
    <3> HIDE DEF bad
    <3> QED BY <1>1, <2>1, <2>2, <2>3
  <2>5. PICK f : upTo(f, m - 1)
    BY <2>4
  <2> DEFINE g == [k \in 0 .. m |-> IF k = m THEN f[m - 1] + s[m] ELSE f[k]]
  <2>6. f[m - 1] \in Nat /\ s[m] \in Nat
    BY <1>1, <2>4, <2>5
  <2>7. g \in [0 .. m -> Nat] /\ g[0] = 0
    BY <2>4, <2>5, <2>6
  <2>8. ASSUME NEW k \in 1 .. m PROVE g[k] = g[k - 1] + s[k]
    <3>1. CASE k = m
      <4>1. g[m] = f[m - 1] + s[m] /\ g[m - 1] = f[m - 1]
        BY <2>4
      <4> QED BY <3>1, <4>1
    <3>2. CASE k # m
      <4>1. k \in 1 .. (m - 1) /\ k \in 0 .. m /\ k - 1 \in 0 .. m /\ k - 1 # m
        BY <2>4, <3>2
      <4>2. g[k] = f[k] /\ g[k - 1] = f[k - 1]
        BY <3>2, <4>1
      <4>3. f[k] = f[k - 1] + s[k]
        BY <2>5, <4>1
      <4> QED BY <4>2, <4>3
    <3> QED BY <3>1, <3>2
  <2> HIDE DEF g
  <2>9. upTo(g, m)
    BY <2>7, <2>8
  <2> QED BY <2>9
<1>3. n \in 0 .. n /\ n \notin bad
  <2> HIDE DEF bad
  <2> QED BY <1>1, <1>2
<1> QED BY <1>3 DEF IsSum, n

LEMMA SumIsUnique ==
    ASSUME NEW s \in Seq(Nat), NEW f, IsSum(f, s), NEW g,
           g[0] = 0, \A k \in 1 .. Len(s) : g[k] = g[k - 1] + s[k]
    PROVE  \A k \in 0 .. Len(s) : g[k] = f[k]
<1> DEFINE n == Len(s)
           bad == {m \in 0 .. n : g[m] # f[m]}
<1>1. n \in Nat
  OBVIOUS
<1> HIDE DEF n
<1>2. ASSUME bad # {} PROVE FALSE
  <2>1. PICK m \in bad : \A j \in bad : m <= j
    <3>1. bad \in SUBSET Nat
      BY <1>1
    <3> HIDE DEF bad
    <3> QED BY <1>2, <3>1, Least
  <2>2. m \in 0 .. n /\ m # 0
    BY DEF IsSum
  <2>3. m - 1 \in 0 .. n /\ m \in 1 .. n /\ m - 1 \notin bad
    BY <1>1, <2>1, <2>2
  <2>4. g[m - 1] = f[m - 1]
    BY <2>3
  <2>5. g[m] = g[m - 1] + s[m] /\ f[m] = f[m - 1] + s[m]
    BY <2>3 DEF IsSum, n
  <2> QED BY <2>4, <2>5
<1> QED BY <1>2 DEF n

LEMMA TotalIsSum ==
    ASSUME NEW s \in Seq(Nat), NEW f, IsSum(f, s)
    PROVE  Total(s) = f[Len(s)]
<1> DEFINE n == Len(s)
           sum == CHOOSE h : h = [k \in 0 .. n |-> IF k = 0 THEN 0 ELSE h[k - 1] + s[k]]
<1>1. n \in Nat
  OBVIOUS
<1>2. Total(s) = sum[n]
  BY DEF Total
<1> HIDE DEF n
<1>3. f = [k \in 0 .. n |-> IF k = 0 THEN 0 ELSE f[k - 1] + s[k]]
  <2>1. f = [k \in 0 .. n |-> f[k]]
    BY DEF IsSum, n
  <2>2. \A k \in 0 .. n : f[k] = IF k = 0 THEN 0 ELSE f[k - 1] + s[k]
    BY <1>1 DEF IsSum, n
  <2> QED BY <2>1, <2>2
<1>4. sum = [k \in 0 .. n |-> IF k = 0 THEN 0 ELSE sum[k - 1] + s[k]]
  <2> DEFINE grows(h) == h = [k \in 0 .. n |-> IF k = 0 THEN 0 ELSE h[k - 1] + s[k]]
  <2>1. grows(f)
    BY <1>3
  <2>2. sum = CHOOSE h : grows(h)
    OBVIOUS
  <2> HIDE DEF sum, grows
  <2>3. grows(sum)
    BY <2>1, <2>2, Zenon
  <2> QED BY <2>3 DEF grows
<1> HIDE DEF sum
<1>5. sum[0] = 0 /\ \A k \in 1 .. n : sum[k] = sum[k - 1] + s[k]
  <2>1. \A k \in 0 .. n : sum[k] = IF k = 0 THEN 0 ELSE sum[k - 1] + s[k]
    BY <1>4
  <2>2. 0 \in 0 .. n /\ \A k \in 1 .. n : k \in 0 .. n /\ k # 0
    BY <1>1
  <2> QED BY <2>1, <2>2
<1>6. sum[n] = f[n]
  <2>1. n \in 0 .. n
    BY <1>1
  <2> QED BY <1>5, <2>1, SumIsUnique DEF n
<1> QED BY <1>2, <1>6 DEF n
LEMMA SumsCompare ==
    ASSUME NEW s \in Seq(Nat), NEW t \in Seq(Nat), Len(s) = Len(t), \A k \in 1 .. Len(s) : s[k] <= t[k],
           NEW f, IsSum(f, s), NEW g, IsSum(g, t)
    PROVE  \A k \in 0 .. Len(s) : f[k] <= g[k]
<1> DEFINE n == Len(s)
           bad == {m \in 0 .. n : ~(f[m] <= g[m])}
<1>1. n \in Nat /\ \A k \in 1 .. n : s[k] \in Nat /\ t[k] \in Nat /\ s[k] <= t[k]
  OBVIOUS
<1>2. /\ f[0] = 0 /\ g[0] = 0 /\ \A k \in 0 .. n : f[k] \in Nat /\ g[k] \in Nat
      /\ \A k \in 1 .. n : f[k] = f[k - 1] + s[k] /\ g[k] = g[k - 1] + t[k]
  BY DEF IsSum
<1> HIDE DEF n
<1>3. ASSUME bad # {} PROVE FALSE
  <2>1. PICK m \in bad : \A j \in bad : m <= j
    <3>1. bad \in SUBSET Nat
      BY <1>1
    <3> HIDE DEF bad
    <3> QED BY <1>3, <3>1, Least
  <2>2. m \in 0 .. n /\ m # 0 /\ ~(f[m] <= g[m])
    BY <1>2
  <2>3. m - 1 \in 0 .. n /\ m \in 1 .. n /\ m - 1 \notin bad
    <3> HIDE DEF bad
    <3> QED BY <1>1, <2>1, <2>2
  <2>4. f[m - 1] <= g[m - 1]
    BY <2>3
  <2>5. f[m - 1] \in Nat /\ g[m - 1] \in Nat /\ s[m] \in Nat /\ t[m] \in Nat /\ s[m] <= t[m]
    BY <1>1, <1>2, <2>3
  <2>6. f[m] = f[m - 1] + s[m] /\ g[m] = g[m - 1] + t[m]
    BY <1>2, <2>3
  <2> HIDE DEF bad
  <2> QED BY <2>2, <2>4, <2>5, <2>6
<1> QED BY <1>3 DEF n

LEMMA SumStays ==
    ASSUME NEW s \in Seq(Nat), NEW f, IsSum(f, s), NEW from \in 0 .. Len(s),
           \A k \in 1 .. Len(s) : k > from => s[k] = 0
    PROVE  f[Len(s)] = f[from]
<1> DEFINE n == Len(s)
           bad == {m \in 0 .. n : m >= from /\ f[m] # f[from]}
<1>1. n \in Nat /\ from \in Nat /\ from \in 0 .. n
  OBVIOUS
<1>2. /\ \A k \in 0 .. n : f[k] \in Nat
      /\ \A k \in 1 .. n : f[k] = f[k - 1] + s[k] /\ (k > from => s[k] = 0)
  BY DEF IsSum
<1> HIDE DEF n
<1>3. ASSUME bad # {} PROVE FALSE
  <2>1. PICK m \in bad : \A j \in bad : m <= j
    <3>1. bad \in SUBSET Nat
      BY <1>1
    <3> HIDE DEF bad
    <3> QED BY <1>3, <3>1, Least
  <2>2. m \in 0 .. n /\ m >= from /\ f[m] # f[from]
    OBVIOUS
  <2>3. m > from
    BY <1>1, <2>2
  <2>4. m - 1 \in 0 .. n /\ m - 1 >= from /\ m \in 1 .. n /\ m - 1 \notin bad
    <3> HIDE DEF bad
    <3> QED BY <1>1, <2>1, <2>2, <2>3
  <2>5. f[m - 1] = f[from]
    BY <2>4
  <2>6. f[m] = f[m - 1] + 0 /\ f[m - 1] \in Nat
    BY <1>2, <2>3, <2>4
  <2> HIDE DEF bad
  <2> QED BY <2>2, <2>5, <2>6
<1>4. n \in 0 .. n /\ n >= from /\ n \notin bad
  <2> HIDE DEF bad
  <2> QED BY <1>1, <1>3
<1> QED BY <1>4 DEF n

\* The header that reaches the budget is the last one that is kept.
LEMMA HeadersStayInBudget ==
    ASSUME NEW list \in Seq(MailHeaders), NEW kept, kept = CollectHeaders(list), kept # {}
    PROVE  \E k \in kept :
              Total([i \in DOMAIN list |-> IF i \in kept THEN list[i].size ELSE 0]) - list[k].size < HeadersBudget
<1> DEFINE n == Len(list)
           all == [i \in DOMAIN list |-> list[i].size]
           some == [i \in DOMAIN list |-> IF i \in kept THEN list[i].size ELSE 0]
<1>1. n \in Nat /\ DOMAIN list = 1 .. n /\ \A i \in 1 .. n : list[i].size \in Nat
  <2>1. \A i \in 1 .. n : list[i] \in MailHeaders
    OBVIOUS
  <2>2. \A h \in MailHeaders : h.size \in Nat
    BY DEF MailHeaders
  <2> QED BY <2>1, <2>2
<1>2. all \in Seq(Nat) /\ Len(all) = n /\ \A i \in 1 .. n : all[i] = list[i].size
  <2>1. all \in [1 .. n -> Nat]
    BY <1>1
  <2> QED BY <1>1, <2>1
<1>3. some \in Seq(Nat) /\ Len(some) = n /\ \A i \in 1 .. n : some[i] = IF i \in kept THEN list[i].size ELSE 0
  <2>1. some \in [1 .. n -> Nat]
    BY <1>1
  <2> QED BY <1>1, <2>1
<1> HIDE DEF n, all, some
<1>4. PICK f : IsSum(f, all)
  BY <1>2, SumExists
<1>5. PICK g : IsSum(g, some)
  BY <1>3, SumExists
<1>6. ASSUME NEW m \in 0 .. n PROVE HeaderTotal(list, m) = f[m]
  <2> DEFINE part == [i \in 1 .. m |-> list[i].size]
             h == [k \in 0 .. m |-> f[k]]
  <2>1. m \in Nat /\ \A i \in 1 .. m : i \in 1 .. n
    BY <1>1
  <2>2. part \in Seq(Nat) /\ Len(part) = m /\ \A i \in 1 .. m : part[i] = all[i]
    <3>1. part \in [1 .. m -> Nat]
      BY <1>1, <2>1
    <3> QED BY <1>2, <2>1, <3>1
  <2>3. h \in [0 .. m -> Nat] /\ h[0] = 0
    <3>1. \A k \in 0 .. m : f[k] \in Nat
      BY <1>1, <1>2, <1>4 DEF IsSum
    <3>2. 0 \in 0 .. m /\ f[0] = 0
      BY <1>4, <2>1 DEF IsSum
    <3> QED BY <3>1, <3>2
  <2>4. \A k \in 1 .. m : h[k] = h[k - 1] + part[k]
    <3> SUFFICES ASSUME NEW k \in 1 .. m PROVE h[k] = h[k - 1] + part[k]
      OBVIOUS
    <3>1. k \in 0 .. m /\ k - 1 \in 0 .. m /\ k \in 1 .. n
      BY <2>1
    <3>2. h[k] = f[k] /\ h[k - 1] = f[k - 1] /\ part[k] = all[k]
      BY <2>2, <3>1
    <3>3. f[k] = f[k - 1] + all[k]
      BY <1>2, <1>4, <3>1 DEF IsSum
    <3> HIDE DEF h, part
    <3> QED BY <3>2, <3>3
  <2>5. h[m] = f[m]
    BY <2>1
  <2>6. HeaderTotal(list, m) = Total(part)
    BY DEF HeaderTotal
  <2> HIDE DEF h, part
  <2>7. Total(part) = h[m]
    <3>1. IsSum(h, part)
      BY <2>2, <2>3, <2>4 DEF IsSum
    <3> QED BY <2>2, <3>1, TotalIsSum
  <2> QED BY <2>5, <2>6, <2>7
<1>7. kept \subseteq 1 .. n /\ \A k \in kept : HeaderTotal(list, k - 1) < HeadersBudget
  BY <1>1 DEF CollectHeaders
<1>8. PICK last \in kept : \A k \in kept : k <= last
  <2>1. IsFiniteSet(1 .. n)
    BY <1>1, FS_Interval
  <2>2. kept \in SUBSET Nat /\ IsFiniteSet(kept)
    <3>1. \A k \in 1 .. n : k \in Nat
      OBVIOUS
    <3> QED BY <1>7, <2>1, <3>1, FS_Subset
  <2> QED BY <2>2, Greatest
<1>9. last \in 1 .. n /\ last \in 0 .. n /\ last - 1 \in 0 .. n
  BY <1>1, <1>7
<1>10. g[n] = g[last]
  <2>1. \A k \in 1 .. n : k > last => some[k] = 0
    <3> SUFFICES ASSUME NEW k \in 1 .. n, k > last PROVE some[k] = 0
      OBVIOUS
    <3>1. k \notin kept
      BY <1>8, <1>9
    <3> QED BY <1>3, <3>1
  <2> QED BY <1>3, <1>5, <1>9, <2>1, SumStays
<1>11. g[last] = g[last - 1] + list[last].size /\ g[last - 1] \in Nat /\ list[last].size \in Nat
  <2>1. some[last] = list[last].size
    BY <1>3, <1>8, <1>9
  <2> QED BY <1>1, <1>3, <1>5, <1>9, <2>1 DEF IsSum
<1>12. g[last - 1] <= f[last - 1]
  <2>1. \A k \in 1 .. n : some[k] <= all[k]
    BY <1>1, <1>2, <1>3
  <2> QED BY <1>2, <1>3, <1>4, <1>5, <1>9, <2>1, SumsCompare
<1>13. f[last - 1] < HeadersBudget
  BY <1>6, <1>7, <1>8, <1>9
<1>14. Total(some) = g[n]
  BY <1>3, <1>5, TotalIsSum
<1>15. Total(some) - list[last].size < HeadersBudget
  <2>1. f[last - 1] \in Nat /\ HeadersBudget \in Nat
    BY <1>2, <1>4, <1>9, ParseLimitsAssumption DEF IsSum
  <2> QED BY <1>10, <1>11, <1>12, <1>13, <1>14, <2>1
<1> QED BY <1>8, <1>15 DEF some
LEMMA ToSetJoins ==
    ASSUME NEW U, NEW s \in Seq(U), NEW t \in Seq(U)
    PROVE  s \o t \in Seq(U) /\ ToSet(s \o t) = ToSet(s) \cup ToSet(t) /\ (s \o t = <<>> <=> s = <<>> /\ t = <<>>)
<1> DEFINE both == s \o t
           m == Len(s)
           n == Len(t)
<1>1. /\ m \in Nat /\ n \in Nat /\ DOMAIN s = 1 .. m /\ DOMAIN t = 1 .. n
      /\ both \in Seq(U) /\ DOMAIN both = 1 .. (m + n) /\ Len(both) = m + n
      /\ (s = <<>> <=> m = 0) /\ (t = <<>> <=> n = 0) /\ (both = <<>> <=> Len(both) = 0)
  OBVIOUS
<1>2. \A k \in 1 .. m : both[k] = s[k]
  OBVIOUS
<1>3. \A k \in 1 .. n : both[m + k] = t[k]
  OBVIOUS
<1> HIDE DEF both, m, n
<1>4. \A k \in 1 .. (m + n) : \/ k \in 1 .. m /\ both[k] = s[k]
                              \/ k - m \in 1 .. n /\ both[k] = t[k - m]
  <2>1. \A k \in 1 .. (m + n) : k \in 1 .. m \/ (k - m \in 1 .. n /\ m + (k - m) = k)
    BY <1>1
  <2> QED BY <1>2, <1>3, <2>1
<1>5. ToSet(both) \subseteq ToSet(s) \cup ToSet(t)
  BY <1>1, <1>4 DEF ToSet
<1>6. ToSet(s) \subseteq ToSet(both)
  <2>1. \A k \in 1 .. m : k \in 1 .. (m + n)
    BY <1>1
  <2> QED BY <1>1, <1>2, <2>1 DEF ToSet
<1>7. ToSet(t) \subseteq ToSet(both)
  <2>1. \A k \in 1 .. n : m + k \in 1 .. (m + n)
    BY <1>1
  <2> QED BY <1>1, <1>3, <2>1 DEF ToSet
<1>8. both = <<>> <=> s = <<>> /\ t = <<>>
  BY <1>1
<1> QED BY <1>1, <1>5, <1>6, <1>7, <1>8 DEF both

LEMMA ToSetEmpty ==
    ASSUME NEW U, NEW s \in Seq(U)
    PROVE  ToSet(s) \subseteq U /\ (s = <<>> <=> ToSet(s) = {})
<1>1. ToSet(s) \subseteq U
  BY DEF ToSet
<1>2. s # <<>> => ToSet(s) # {}
  <2>1. s # <<>> => 1 \in DOMAIN s
    OBVIOUS
  <2> QED BY <2>1 DEF ToSet
<1>3. ToSet(<<>>) = {}
  BY DEF ToSet
<1> QED BY <1>1, <1>2, <1>3

\* A body is the parts of its kind, each of them once.
LEMMA GenuineBodies ==
    ASSUME NEW raw, IsMail(raw), NEW kind \in {"text", "html"}
    PROVE  /\ GenuineBody(raw.parts, kind) \in Seq(MailParts)
           /\ ToSet(GenuineBody(raw.parts, kind)) = {p \in ToSet(raw.parts) : p.role = "body" /\ p.kind = kind}
<1> DEFINE parts == raw.parts
           ownAt == {i \in DOMAIN parts : parts[i].role = "body" /\ parts[i].kind = kind}
           shownAt == {i \in DOMAIN parts : parts[i].role \in {"body", "media"}}
           mediaAt == {i \in DOMAIN parts : parts[i].role = "media"}
           listed == Listed(parts, kind)
           bodyAt == {i \in DOMAIN listed : listed[i].kind = kind}
           these == {p \in ToSet(parts) : p.role = "body" /\ p.kind = kind}
<1>1. /\ parts \in Seq(MailParts)
      /\ \A p \in ToSet(parts) : p.role = "body" => p.kind \in {"text", "html"}
      /\ \A p \in ToSet(parts) : p.role = "media" => p.kind \notin {"text", "html"}
  BY DEF IsMail
<1>2. ToSet(parts) = {parts[i] : i \in DOMAIN parts}
  BY DEF ToSet
<1>3. listed = IF At(parts, ownAt) = <<>> THEN At(parts, shownAt) ELSE At(parts, ownAt) \o At(parts, mediaAt)
  BY DEF Listed, Those
<1>4. GenuineBody(parts, kind) = At(listed, bodyAt)
  BY DEF GenuineBody, Those
<1>5. ownAt \in SUBSET DOMAIN parts /\ shownAt \in SUBSET DOMAIN parts /\ mediaAt \in SUBSET DOMAIN parts
  OBVIOUS
<1>6. {parts[i] : i \in ownAt} = these
  BY <1>2
<1>7. {parts[i] : i \in shownAt} = {p \in ToSet(parts) : p.role \in {"body", "media"}}
  BY <1>2
<1>8. {parts[i] : i \in mediaAt} = {p \in ToSet(parts) : p.role = "media"}
  BY <1>2
<1> HIDE DEF ownAt, shownAt, mediaAt, these, listed, parts
<1>9. /\ At(parts, ownAt) \in Seq(MailParts) /\ ToSet(At(parts, ownAt)) = these
      /\ At(parts, shownAt) \in Seq(MailParts) /\ ToSet(At(parts, shownAt)) = {p \in ToSet(parts) : p.role \in {"body", "media"}}
      /\ At(parts, mediaAt) \in Seq(MailParts) /\ ToSet(At(parts, mediaAt)) = {p \in ToSet(parts) : p.role = "media"}
  <2>1. At(parts, ownAt) \in Seq(MailParts) /\ ToSet(At(parts, ownAt)) = these
    <3>1. At(parts, ownAt) \in Seq(MailParts) /\ ToSet(At(parts, ownAt)) = {parts[i] : i \in ownAt}
      BY <1>1, <1>5, AtPlaces
    <3> QED BY <1>6, <3>1
  <2>2. /\ At(parts, shownAt) \in Seq(MailParts)
        /\ ToSet(At(parts, shownAt)) = {p \in ToSet(parts) : p.role \in {"body", "media"}}
    BY <1>1, <1>5, <1>7, AtPlaces
  <2>3. At(parts, mediaAt) \in Seq(MailParts) /\ ToSet(At(parts, mediaAt)) = {p \in ToSet(parts) : p.role = "media"}
    BY <1>1, <1>5, <1>8, AtPlaces
  <2> QED BY <2>1, <2>2, <2>3
<1>10. listed \in Seq(MailParts) /\ {p \in ToSet(listed) : p.kind = kind} = these
  <2>1. CASE At(parts, ownAt) = <<>>
    <3>1. these = {}
      BY <1>9, <2>1, ToSetEmpty
    <3>2. listed = At(parts, shownAt)
      BY <1>3, <2>1
    <3>3. \A p \in ToSet(listed) : p.kind # kind
      BY <1>1, <1>9, <3>1, <3>2 DEF these
    <3> QED BY <1>9, <3>1, <3>2, <3>3
  <2>2. CASE At(parts, ownAt) # <<>>
    <3>1. listed = At(parts, ownAt) \o At(parts, mediaAt)
      BY <1>3, <2>2
    <3>2. listed \in Seq(MailParts) /\ ToSet(listed) = these \cup {p \in ToSet(parts) : p.role = "media"}
      BY <1>9, <3>1, ToSetJoins
    <3>3. \A p \in these : p.kind = kind
      BY DEF these
    <3>4. \A p \in ToSet(parts) : p.role = "media" => p.kind # kind
      BY <1>1
    <3> QED BY <3>2, <3>3, <3>4
  <2> QED BY <2>1, <2>2
<1>11. bodyAt \in SUBSET DOMAIN listed
  OBVIOUS
<1>12. {listed[i] : i \in bodyAt} = {p \in ToSet(listed) : p.kind = kind}
  BY DEF ToSet
<1> HIDE DEF bodyAt
<1>13. At(listed, bodyAt) \in Seq(MailParts) /\ ToSet(At(listed, bodyAt)) = {listed[i] : i \in bodyAt}
  BY <1>10, <1>11, AtPlaces
<1> QED BY <1>4, <1>10, <1>12, <1>13 DEF these, parts

\* Every part that is not a container is in a body or an attachment, never in both.
AllKept(raw, m, bodies, kept) ==
    /\ bodies \cap kept = {}
    /\ m.truncated \/ {p.bytes : p \in {p \in ToSet(raw.parts) : p.role # "container"}} = bodies \cup kept
    /\ m.truncated => Len(m.attachments) = AttachmentsMax
    /\ bodies # {} => m.preview # "none"

LEMMA PartsAreKept ==
    ASSUME NEW raw, IsMail(raw), NEW m, m = ParseInbound(raw), NEW bodies, NEW kept,
           bodies = {p.bytes : p \in ToSet(m.text) \cup ToSet(m.html)}, kept = {a.bytes : a \in ToSet(m.attachments)}
    PROVE  AllKept(raw, m, bodies, kept)
<1> DEFINE parts == raw.parts
           all == ToSet(parts)
           keptAt == {i \in DOMAIN parts : IsKept(parts[i])}
           files == AttachmentParts(parts)
           count == AtMost(Len(files), AttachmentsMax)
<1>1. /\ parts \in Seq(MailParts) /\ all \subseteq MailParts
      /\ \A p, q \in all : p.bytes = q.bytes => p = q
      /\ \A p \in all : p.role = "body" => p.kind \in {"text", "html"}
  <2>1. all = {parts[i] : i \in DOMAIN parts}
    BY DEF ToSet
  <2>2. /\ parts \in Seq(MailParts) /\ \A i, j \in DOMAIN parts : parts[i].bytes = parts[j].bytes => i = j
        /\ \A p \in all : p.role = "body" => p.kind \in {"text", "html"}
    BY DEF IsMail
  <2> HIDE DEF parts, all
  <2> QED BY <2>1, <2>2
<1>2. /\ m.text = GenuineBody(parts, "text") /\ m.html = GenuineBody(parts, "html") /\ m.preview = Preview(parts)
      /\ m.attachments = [i \in 1 .. count |-> BuildAttachment(files[i])]
      /\ m.truncated = (Len(files) > AttachmentsMax)
  BY DEF ParseInbound
<1>3. /\ m.text \in Seq(MailParts) /\ ToSet(m.text) = {p \in all : p.role = "body" /\ p.kind = "text"}
      /\ m.html \in Seq(MailParts) /\ ToSet(m.html) = {p \in all : p.role = "body" /\ p.kind = "html"}
  BY <1>2, GenuineBodies
<1>4. bodies = {p.bytes : p \in {p \in all : p.role = "body"}}
  BY <1>1, <1>3
<1>5. files \in Seq(MailParts) /\ ToSet(files) = {p \in all : p.role \in {"attachment", "media"}}
  <2>1. files = At(parts, keptAt) /\ keptAt \in SUBSET DOMAIN parts
    BY DEF AttachmentParts, Those
  <2>2. {parts[i] : i \in keptAt} = {p \in all : p.role \in {"attachment", "media"}}
    BY DEF ToSet, IsKept
  <2> HIDE DEF files, keptAt, parts
  <2>3. files \in Seq(MailParts) /\ ToSet(files) = {parts[i] : i \in keptAt}
    BY <1>1, <2>1, AtPlaces
  <2> QED BY <2>2, <2>3
<1>6. /\ Len(files) \in Nat /\ count \in 0 .. Len(files) /\ (~m.truncated => count = Len(files))
      /\ (m.truncated => count = AttachmentsMax)
  <2>1. Len(files) \in Nat /\ AttachmentsMax \in Nat
    BY <1>5, RequestLimitsAssumption
  <2>2. m.truncated <=> Len(files) > AttachmentsMax
    BY <1>2
  <2>3. count = IF Len(files) > AttachmentsMax THEN AttachmentsMax ELSE Len(files)
    BY DEF AtMost
  <2> HIDE DEF files, count
  <2> QED BY <2>1, <2>2, <2>3
<1> HIDE DEF files, count
<1>7. /\ Len(m.attachments) = count /\ DOMAIN m.attachments = 1 .. count
      /\ \A i \in 1 .. count : m.attachments[i].bytes = files[i].bytes
  BY <1>2, <1>6 DEF BuildAttachment
<1>8. kept = {files[i].bytes : i \in 1 .. count}
  <2>1. ToSet(m.attachments) = {m.attachments[i] : i \in 1 .. count}
    BY <1>7 DEF ToSet
  <2> QED BY <1>7, <2>1
<1>9. ToSet(files) = {files[i] : i \in 1 .. Len(files)}
  BY <1>5 DEF ToSet
<1>10. kept \subseteq {p.bytes : p \in ToSet(files)}
  <2>1. \A i \in 1 .. count : i \in 1 .. Len(files)
    BY <1>6
  <2> QED BY <1>8, <1>9, <2>1
<1>11. ~m.truncated => kept = {p.bytes : p \in ToSet(files)}
  <2>1. {p.bytes : p \in ToSet(files)} = {files[i].bytes : i \in 1 .. Len(files)}
    BY <1>9
  <2> QED BY <1>6, <1>8, <2>1
<1>12. bodies \cap kept = {}
  <2> SUFFICES ASSUME NEW b \in bodies, b \in kept PROVE FALSE
    OBVIOUS
  <2>1. PICK p \in all : p.role = "body" /\ p.bytes = b
    BY <1>4
  <2>2. PICK q \in all : q.role \in {"attachment", "media"} /\ q.bytes = b
    BY <1>5, <1>10
  <2> QED BY <1>1, <2>1, <2>2
<1>13. m.truncated \/ {p.bytes : p \in {p \in all : p.role # "container"}} = bodies \cup kept
  <2>1. \A p \in all : p.role \in {"body", "media", "attachment", "container"}
    BY <1>1 DEF MailParts
  <2> SUFFICES ASSUME ~m.truncated
               PROVE  {p.bytes : p \in {p \in all : p.role # "container"}} = bodies \cup kept
    OBVIOUS
  <2>2. kept = {p.bytes : p \in {p \in all : p.role \in {"attachment", "media"}}}
    BY <1>5, <1>11
  <2>3. {p \in all : p.role # "container"} = {p \in all : p.role = "body"} \cup {p \in all : p.role \in {"attachment", "media"}}
    BY <2>1
  <2> HIDE DEF all
  <2> QED BY <1>4, <2>2, <2>3
<1>14. bodies # {} => m.preview # "none"
  <2>1. bodies # {} => m.text # <<>> \/ m.html # <<>>
    BY <1>3, ToSetEmpty
  <2> QED BY <1>2, <2>1 DEF Preview
<1> QED BY <1>6, <1>7, <1>12, <1>13, <1>14 DEF all, AllKept
\* The nearest reference survives, as far as an identifier is stored.
LEMMA NearestSurvives ==
    ASSUME NEW raw, IsMail(raw), raw.references # <<>>
    PROVE  Last(ParseInbound(raw).references) = Cut[Last(raw.references)]
<1> DEFINE refs == raw.references
           ids == IdList(refs)
           n == Len(refs)
<1>1. refs \in Seq(STRING) /\ refs # <<>>
  BY DEF IsMail
<1> HIDE DEF refs
<1>2. n \in Nat /\ n > 0 /\ DOMAIN refs = 1 .. n
  BY <1>1
<1> HIDE DEF n
<1>3. ids = [i \in 1 .. n |-> Cut[refs[i]]]
  BY <1>2 DEF IdList, WrapId, TruncateBytes
<1> HIDE DEF ids
<1> DEFINE U == {Cut[refs[i]] : i \in 1 .. n}
<1>4. ids \in Seq(U) /\ Len(ids) = n /\ ids[n] = Cut[refs[n]]
  <2>1. ids \in [1 .. n -> U]
    BY <1>3
  <2>2. n \in 1 .. n
    BY <1>2
  <2>3. ids[n] = Cut[refs[n]]
    BY <1>3, <2>2
  <2> HIDE DEF U
  <2> QED BY <1>2, <2>1, <2>3
<1>5. ReferencesMax \in Nat /\ ReferencesMax > 1
  BY RequestLimitsAssumption
<1>6. Last(Nearest(ids)) = ids[n]
  <2>1. CASE n > ReferencesMax
    <3> DEFINE from == n - ReferencesMax + 1
               part == SubSeq(ids, from, n)
    <3>1. from \in 1 .. n /\ n - from + 1 = ReferencesMax
      BY <1>2, <1>5, <2>1
    <3>2. Nearest(ids) = part
      BY <1>4, <2>1 DEF Nearest
    <3> HIDE DEF from
    <3>3. Len(part) = ReferencesMax /\ part[ReferencesMax] = ids[from + ReferencesMax - 1]
      BY <1>2, <1>4, <1>5, <3>1, SubSeqProperties
    <3>4. from + ReferencesMax - 1 = n
      BY <1>2, <1>5, <3>1
    <3> QED BY <3>2, <3>3, <3>4 DEF Last
  <2>2. CASE ~(n > ReferencesMax)
    BY <1>4, <2>2 DEF Nearest, Last
  <2> QED BY <2>1, <2>2
<1>7. ParseInbound(raw).references = Nearest(ids)
  BY DEF ParseInbound, ids, refs
<1> QED BY <1>4, <1>6, <1>7 DEF Last, refs, n

\* What the labels say of the receipt.
LEMMA LabelsTell ==
    ASSUME NEW receipt, NEW labelled, labelled = VerdictLabels(receipt)
    PROVE  /\ "spam" \in labelled <=> "FAIL" \in {receipt.spam, receipt.virus}
           /\ labelled \cap {"spam", "unauthenticated"} = {} <=>
                "FAIL" \notin {receipt.spam, receipt.virus, receipt.spf, receipt.dkim, receipt.dmarc}
           /\ Cardinality(labelled \cap {"spam", "unauthenticated"}) <= 1
<1> DEFINE foul == "FAIL" \in {receipt.spam, receipt.virus}
           unproven == "FAIL" \in {receipt.spf, receipt.dkim, receipt.dmarc}
           marks == labelled \cap {"spam", "unauthenticated"}
<1>1. IsQuarantined(receipt) <=> foul
  BY DEF IsQuarantined, Failed
<1>2. AuthFailed(receipt) <=> unproven
  BY DEF AuthFailed, Failed
<1>3. marks = ClassifyInbound(IsQuarantined(receipt), AuthFailed(receipt))
  BY DEF VerdictLabels, ClassifyInbound
<1>4. CASE foul
  <2>1. marks = {"spam"}
    BY <1>1, <1>3, <1>4 DEF ClassifyInbound
  <2>2. Cardinality(marks) = 1
    BY <2>1, FS_Singleton
  <2> QED BY <1>4, <2>1, <2>2
<1>5. CASE ~foul /\ unproven
  <2>1. marks = {"unauthenticated"}
    BY <1>1, <1>2, <1>3, <1>5 DEF ClassifyInbound
  <2>2. Cardinality(marks) = 1
    BY <2>1, FS_Singleton
  <2> QED BY <1>5, <2>1, <2>2
<1>6. CASE ~foul /\ ~unproven
  <2>1. marks = {}
    BY <1>1, <1>2, <1>3, <1>6 DEF ClassifyInbound
  <2>2. Cardinality(marks) = 0
    BY <2>1, FS_EmptySet
  <2> QED BY <1>6, <2>1, <2>2
<1> QED BY <1>4, <1>5, <1>6
-----------------------------------------------------------------------------
(***************************************************************************)
(* The answer: what was asked for is decided once, about a message that no *)
(* longer changes.                                                         *)
(***************************************************************************)

\* The message that is answered: sent, still to arrive, or the mail as it is stored.
OriginalOK(w) ==
    IF w.raw.shape = "none" THEN IsSent(w.original) /\ w.original.id # "awaited"
    ELSE /\ IsMail(w.raw) /\ Cut[w.raw.message_id] \notin {"none", "awaited", "missing"}
         /\ \/ IsSent(w.original) /\ w.original.id \in {"awaited", "missing"}
            \/ w.original = ToMessage(w.raw)

\* A request is accepted or refused for what it asks and what was read of the
\* original's document: all of it, or nothing.
Contents(w) == {NoContent, ContentOf(w.original)}
Accepts(w, ask, content, sp) ==
    /\ ValidationErrors(ask) = {}
    /\ sp = IF w.original.id # "none"
            THEN BuildSpec(Validated(ask), w.original.id, ThreadingReferences(w.original, content.references))
            ELSE BuildSpec(Validated(ask), "none", <<>>)

AnswerInv ==
    /\ WantsOK(wants) /\ OriginalOK(wants)
    /\ reply # "none" => wants.original.id # "awaited"
    /\ reply \in {"200", "400"} => wants.original.id # "missing"
    /\ reply = "200" => \E content \in Contents(wants) : Accepts(wants, Asked(content), content, spec)
    /\ reply = "400" => \E content \in Contents(wants) : ValidationErrors(Asked(content)) # {}
    /\ reply # "200" => spec = NoSpec

LEMMA OnlyAttempts ==
    ASSUME NEW a \in Attempts, Attempt(a)
    PROVE  UNCHANGED <<wants, reply, spec>>
<1>1. Claims(a) => UNCHANGED <<wants, reply, spec>>
  BY DEF Claims
<1>2. ReadsPart(a) => UNCHANGED <<wants, reply, spec>>
  BY DEF ReadsPart
<1>3. ReadFails(a) => UNCHANGED <<wants, reply, spec>>
  BY DEF ReadFails
<1>4. Resolve(a) => UNCHANGED <<wants, reply, spec>>
  BY DEF Resolve
<1>5. Redirected(a) => UNCHANGED <<wants, reply, spec>>
  BY DEF Redirected
<1>6. AnswersBadly(a) => UNCHANGED <<wants, reply, spec>>
  BY DEF AnswersBadly
<1>7. Serves(a) => UNCHANGED <<wants, reply, spec>>
  BY DEF Serves
<1>8. StoresPart(a) => UNCHANGED <<wants, reply, spec>>
  BY DEF StoresPart
<1>9. StoreFails(a) => UNCHANGED <<wants, reply, spec>>
  BY DEF StoreFails
<1>10. TooLargeToSend(a) => UNCHANGED <<wants, reply, spec>>
  BY DEF TooLargeToSend
<1>11. CallsSes(a) => UNCHANGED <<wants, reply, spec>>
  BY DEF CallsSes
<1>12. ClaimIsLost(a) => UNCHANGED <<wants, reply, spec>>
  BY DEF ClaimIsLost
<1> QED
  BY <1>1, <1>2, <1>3, <1>4, <1>5, <1>6, <1>7, <1>8, <1>9, <1>10, <1>11, <1>12 DEF Attempt

LEMMA ArrivesIsOriginal ==
    ASSUME AnswerInv, Arrives
    PROVE  AnswerInv'
<1>1. WantsOK(wants) /\ OriginalOK(wants) /\ wants.original.id = "awaited" /\ reply = "none" /\ spec = NoSpec
  BY DEF AnswerInv, Arrives
<1>2. UNCHANGED <<reply, spec>>
  BY DEF Arrives
<1> DEFINE missed == [wants.original EXCEPT !.id = "missing"]
<1>3. PICK original \in {ToMessage(wants.raw), missed} : wants' = [wants EXCEPT !.original = original]
  BY DEF Arrives
<1>4. wants.raw.shape # "none" /\ IsMail(wants.raw) /\ Cut[wants.raw.message_id] \notin {"none", "awaited", "missing"}
  BY <1>1 DEF OriginalOK
<1>5. wants'.ask = wants.ask /\ wants'.raw = wants.raw /\ wants'.original = original
  BY <1>1, <1>3 DEF WantsOK
<1>6. WantsOK(wants')
  BY <1>1, <1>3 DEF WantsOK
<1>7. (IsSent(missed) /\ missed.id = "missing") \/ wants.original = ToMessage(wants.raw)
  <2> SUFFICES ASSUME IsSent(wants.original) PROVE IsSent(missed) /\ missed.id = "missing"
    BY <1>1, <1>4 DEF OriginalOK
  <2> DEFINE o == wants.original
  <2>1. o = [id |-> o.id, from |-> o.from, to |-> o.to, cc |-> o.cc, bcc |-> o.bcc, reply_to |-> o.reply_to,
             references |-> o.references, subject |-> o.subject, weights |-> o.weights]
    BY DEF IsSent
  <2> HIDE DEF o
  <2> DEFINE new == [o EXCEPT !.id = "missing"]
  <2>2. /\ new.id = "missing" /\ new.from = o.from /\ new.to = o.to /\ new.cc = o.cc /\ new.bcc = o.bcc
        /\ new.reply_to = o.reply_to /\ new.references = o.references /\ new.subject = o.subject /\ new.weights = o.weights
        /\ new = [id |-> new.id, from |-> new.from, to |-> new.to, cc |-> new.cc, bcc |-> new.bcc,
                  reply_to |-> new.reply_to, references |-> new.references, subject |-> new.subject, weights |-> new.weights]
    BY <2>1
  <2>3. missed = new
    BY DEF o
  <2> HIDE DEF new, missed
  <2>4. o.from \in SentTo /\ o.references \in Seq(STRING) /\ DOMAIN o.weights \subseteq ContentFields
        /\ o.to \in Seq(SentTo) /\ o.cc \in Seq(SentTo) /\ o.bcc \in Seq(SentTo) /\ o.reply_to \in Seq(SentTo)
    BY DEF IsSent, o
  <2> QED BY <2>2, <2>3, <2>4 DEF IsSent
<1>8. OriginalOK(wants')
  <2>1. CASE original = ToMessage(wants.raw)
    BY <1>4, <1>5, <2>1 DEF OriginalOK
  <2>2. CASE original = missed /\ IsSent(missed) /\ missed.id = "missing"
    BY <1>4, <1>5, <2>2 DEF OriginalOK
  <2>3. CASE wants.original = ToMessage(wants.raw) /\ original = missed
    <3>1. ToMessage(wants.raw).id = Cut[wants.raw.message_id]
      BY DEF ToMessage, ParseInbound, WrapId, TruncateBytes
    <3> QED BY <1>1, <1>4, <2>3, <3>1
  <2> QED BY <1>3, <1>7, <2>1, <2>2, <2>3
<1> QED BY <1>1, <1>2, <1>6, <1>8 DEF AnswerInv

LEMMA SubmitsIsAnswered ==
    ASSUME AnswerInv, Submits
    PROVE  AnswerInv'
<1>1. /\ WantsOK(wants) /\ OriginalOK(wants) /\ wants.original.id # "awaited" /\ spec = NoSpec /\ reply = "none"
      /\ wants' = wants
  BY DEF AnswerInv, Submits
<1>2. /\ WantsOK(wants') /\ OriginalOK(wants') /\ wants'.original.id # "awaited"
      /\ Contents(wants') = Contents(wants) /\ \A content : Asked(content)' = Asked(content)
  BY <1>1 DEF Asked, IsReply, Contents
<1>3. PICK read \in IF wants.original.id = "missing" THEN {[error |-> "notFound", content |-> NoContent]}
                    ELSE IF IsReply THEN ContentReads ELSE {[error |-> "none", content |-> NoContent]} :
         IF read.error # "none" THEN reply' = ApiErrorOf(read.error) /\ UNCHANGED <<spec, labels, stored>>
         ELSE Queues(read.content)
  BY DEF Submits
<1>4. CASE read.error # "none"
  <2>1. reply' \notin {"200", "400"} /\ spec' = NoSpec
    BY <1>1, <1>3, <1>4 DEF ApiErrorOf
  <2> QED BY <1>2, <2>1 DEF AnswerInv
<1>5. CASE read.error = "none"
  <2> DEFINE content == read.content
             ask == Asked(content)
  <2>1. Queues(content) /\ content \in Contents(wants) /\ wants.original.id # "missing"
    <3>1. wants.original.id # "missing"
      BY <1>3, <1>5
    <3>2. read \in ContentReads \/ read = [error |-> "none", content |-> NoContent]
      BY <1>3, <3>1
    <3>3. \A f : ClassifyObjectError(f) # "none"
      BY DEF ClassifyObjectError
    <3>4. content \in {NoContent, ContentOf(wants.original)}
      BY <1>5, <3>2, <3>3 DEF ContentReads
    <3> QED BY <1>3, <1>5, <3>1, <3>4 DEF Contents
  <2> HIDE DEF content
  <2>2. CASE ValidationErrors(ask) # {}
    <3>1. reply' = "400" /\ spec' = spec
      BY <2>1, <2>2 DEF Queues
    <3> QED BY <1>1, <1>2, <2>1, <2>2, <3>1 DEF AnswerInv
  <2>3. CASE ValidationErrors(ask) = {}
    <3>1. /\ reply' = "200"
          /\ spec' = IF IsReply THEN BuildSpec(Validated(ask), wants.original.id,
                                               ThreadingReferences(wants.original, content.references))
                                ELSE BuildSpec(Validated(ask), "none", <<>>)
      BY <2>1, <2>3, Zenon DEF Queues
    <3>2. Accepts(wants, ask, content, spec')
      BY <2>3, <3>1 DEF Accepts, IsReply
    <3> HIDE DEF ask
    <3>3. Asked(content)' = ask
      BY <1>2 DEF ask
    <3>4. Accepts(wants', Asked(content)', content, spec')
      BY <1>1, <3>2, <3>3
    <3>5. \E c \in Contents(wants') : Accepts(wants', Asked(c)', c, spec')
      BY <1>2, <2>1, <3>4
    <3>6. wants'.original.id # "missing"
      BY <1>1, <2>1
    <3> QED BY <1>2, <3>1, <3>5, <3>6 DEF AnswerInv
  <2> QED BY <2>2, <2>3
<1> QED BY <1>4, <1>5

\* An answer is about what was asked and read, and the original no longer changes.
THEOREM AnswersInvariant == PartsSpec => []AnswerInv
<1>1. PartsInit => AnswerInv
  <2> SUFFICES ASSUME PartsInit PROVE AnswerInv
    OBVIOUS
  <2>1. WantsOK(wants) /\ OriginalOK(wants)
    BY RequestsAreWellFormed DEF PartsInit, WantsOK, OriginalOK
  <2> QED BY <2>1 DEF PartsInit, AnswerInv
<1>2. AnswerInv /\ [PartsNext]_partsVars => AnswerInv'
  <2> SUFFICES ASSUME AnswerInv, [PartsNext]_partsVars PROVE AnswerInv'
    OBVIOUS
  <2>1. ASSUME UNCHANGED <<wants, reply, spec>> PROVE AnswerInv'
    BY <2>1 DEF AnswerInv, Asked, IsReply
  <2>2. Lands => UNCHANGED <<wants, reply, spec>>
    BY DEF Lands
  <2>3. Released => UNCHANGED <<wants, reply, spec>>
    BY DEF Released
  <2>4. UNCHANGED partsVars => UNCHANGED <<wants, reply, spec>>
    BY DEF partsVars
  <2>5. (\E a \in Attempts : Attempt(a)) => UNCHANGED <<wants, reply, spec>>
    BY OnlyAttempts
  <2> QED BY <2>1, <2>2, <2>3, <2>4, <2>5, ArrivesIsOriginal, SubmitsIsAnswered DEF PartsNext
<1> QED BY <1>1, <1>2, PTL DEF PartsSpec

\* classify_inbound, "Nothing is ever dropped": every part of a received mail is in a
\* body or kept as an attachment, once, unless it says that there were too many; the
\* nearest reference survives, the header that reaches the budget is the last, and
\* the labels say what SES found.
THEOREM MailIsKept == PartsSpec => []ReceivedMailIsKept
<1>1. AnswerInv => ReceivedMailIsKept
  <2> SUFFICES ASSUME AnswerInv, IsReceived, wants.original.id \notin {"awaited", "missing"} PROVE ReceivedMailIsKept
    BY DEF ReceivedMailIsKept
  <2> DEFINE raw == wants.raw
             o == wants.original
             m == o.parsed
             labelled == o.labels
             bodies == {p.bytes : p \in ToSet(m.text) \cup ToSet(m.html)}
             kept == {a.bytes : a \in ToSet(m.attachments)}
             collected == CollectHeaders(raw.headers)
  <2>1. IsMail(raw) /\ o = ToMessage(raw)
    BY DEF AnswerInv, OriginalOK, IsReceived
  <2>2. m = ParseInbound(raw) /\ labelled = VerdictLabels(raw.receipt)
    BY <2>1 DEF ToMessage
  <2>3. AllKept(raw, m, bodies, kept)
    <3>1. bodies = {p.bytes : p \in ToSet(m.text) \cup ToSet(m.html)} /\ kept = {a.bytes : a \in ToSet(m.attachments)}
      OBVIOUS
    <3> HIDE DEF m, raw, bodies, kept
    <3> QED BY <2>1, <2>2, <3>1, PartsAreKept
  <2>4. raw.references # <<>> => Last(m.references) = Cut[Last(raw.references)]
    <3> HIDE DEF m, raw
    <3> QED BY <2>1, <2>2, NearestSurvives
  <2>5. m.headers # {} => \E h \in m.headers : o.weights.headers - h.size < HeadersBudget
    <3>1. m.headers = {raw.headers[k] : k \in collected}
      BY <2>2 DEF ParseInbound
    <3>2. o.weights.headers = Total([i \in DOMAIN raw.headers |-> IF i \in collected THEN raw.headers[i].size ELSE 0])
      BY <2>1 DEF ToMessage
    <3>3. raw.headers \in Seq(MailHeaders)
      BY <2>1 DEF IsMail
    <3> DEFINE list == raw.headers
    <3> HIDE DEF list, o, m, collected
    <3>4. list \in Seq(MailHeaders) /\ collected = CollectHeaders(list)
      BY <3>3 DEF list, collected
    <3>5. m.headers # {} => collected # {}
      BY <3>1
    <3>6. collected # {} => \E k \in collected :
             Total([i \in DOMAIN list |-> IF i \in collected THEN list[i].size ELSE 0]) - list[k].size < HeadersBudget
      BY <3>4, HeadersStayInBudget
    <3>7. m.headers = {list[k] : k \in collected}
          /\ o.weights.headers = Total([i \in DOMAIN list |-> IF i \in collected THEN list[i].size ELSE 0])
      BY <3>1, <3>2 DEF list
    <3> QED BY <3>5, <3>6, <3>7
  <2>6. /\ "spam" \in labelled <=> "FAIL" \in {raw.receipt.spam, raw.receipt.virus}
        /\ labelled \cap {"spam", "unauthenticated"} = {} <=>
             "FAIL" \notin {raw.receipt.spam, raw.receipt.virus, raw.receipt.spf, raw.receipt.dkim, raw.receipt.dmarc}
        /\ Cardinality(labelled \cap {"spam", "unauthenticated"}) <= 1
    <3> DEFINE receipt == raw.receipt
    <3> HIDE DEF receipt, labelled
    <3>1. labelled = VerdictLabels(receipt)
      BY <2>2 DEF receipt
    <3> QED BY <3>1, LabelsTell DEF receipt
  <2> HIDE DEF m, raw, o, labelled, bodies, kept, collected
  <2>7. /\ bodies \cap kept = {}
        /\ m.truncated \/ {p.bytes : p \in {p \in ToSet(raw.parts) : p.role # "container"}} = bodies \cup kept
        /\ m.truncated => Len(m.attachments) = AttachmentsMax
        /\ bodies # {} => m.preview # "none"
        /\ raw.references # <<>> => Last(m.references) = Cut[Last(raw.references)]
        /\ m.headers # {} => \E h \in m.headers : o.weights.headers - h.size < HeadersBudget
        /\ "spam" \in labelled <=> "FAIL" \in {raw.receipt.spam, raw.receipt.virus}
        /\ labelled \cap {"spam", "unauthenticated"} = {} <=>
             "FAIL" \notin {raw.receipt.spam, raw.receipt.virus, raw.receipt.spf, raw.receipt.dkim, raw.receipt.dmarc}
        /\ Cardinality(labelled \cap {"spam", "unauthenticated"}) <= 1
    BY <2>3, <2>4, <2>5, <2>6 DEF AllKept
  <2> QED BY <2>7, Zenon DEF ReceivedMailIsKept, m, raw, o, labelled, bodies, kept
<1>2. PartsSpec => []AnswerInv
  BY AnswersInvariant
<1> QED BY <1>1, <1>2, PTL
-----------------------------------------------------------------------------
(***************************************************************************)
(* Replies.  An address is stored so that it reads back as it was written, *)
(* and a reply's recipients follow from the mailboxes of the original.     *)
(***************************************************************************)

LEMMA TotalOfNothing == Total(<<>>) = 0
<1> DEFINE f == [k \in 0 .. 0 |-> 0]
<1>1. IsSum(f, <<>>) /\ f[0] = 0
  BY DEF IsSum
<1>2. <<>> \in Seq(Nat) /\ Len(<<>>) = 0
  OBVIOUS
<1> HIDE DEF f
<1> QED BY <1>1, <1>2, TotalIsSum

\* A document is cut down until it fits: without its fields it weighs nothing.
LEMMA DocumentsFit ==
    ASSUME NEW o, DOMAIN o.weights \subseteq ContentFields
    PROVE  ContentSize(o) <= ContentMax
<1> DEFINE w == o.weights
           fits == {i \in DOMAIN ContentDrops : WeightWithout(w, ContentDrops[i]) <= ContentMax}
<1>1. DOMAIN ContentDrops = 1 .. 6 /\ ContentDrops[6] = ContentFields
  BY DEF ContentDrops, ContentFields
<1>2. WeightWithout(w, ContentFields) = 0
  <2> DEFINE none == DOMAIN w \ ContentFields
             kept == SetToSeq(none)
             listed(f) == IsInjective(f)
  <2>1. none = {}
    OBVIOUS
  <2>2. Cardinality({}) = 0
    BY FS_EmptySet
  <2>3. DOMAIN kept = {}
    <3> DEFINE lists == [1 .. 0 -> {}]
    <3>1. <<>> \in lists /\ IsInjective(<<>>)
      BY DEF IsInjective
    <3>2. kept = CHOOSE f \in lists : IsInjective(f)
      BY <2>1, <2>2 DEF SetToSeq
    <3> HIDE DEF lists, kept
    <3>3. kept \in lists
      BY <3>1, <3>2, Zenon
    <3> QED BY <3>3 DEF lists
  <2> HIDE DEF kept
  <2> DEFINE sizes == [i \in DOMAIN kept |-> w[kept[i]]]
  <2>4. sizes = <<>>
    BY <2>3
  <2>5. WeightWithout(w, ContentFields) = Total(sizes)
    BY DEF WeightWithout, kept
  <2> QED BY <2>4, <2>5, TotalOfNothing
<1>3. 6 \in fits
  BY <1>1, <1>2, RequestLimitsAssumption
<1> DEFINE least(i) == i \in fits /\ \A j \in fits : i <= j
<1>4. \E i : least(i)
  <2>1. fits \in SUBSET Nat /\ fits # {}
    BY <1>1, <1>3
  <2> HIDE DEF fits
  <2>2. \E i \in fits : \A j \in fits : i <= j
    BY <2>1, Least
  <2> QED BY <2>2
<1> DEFINE first == CHOOSE i \in fits : \A j \in fits : i <= j
<1>5. first \in fits
  <2> HIDE DEF fits
  <2> QED BY <1>4, Zenon
<1>6. SerializeWithin(w, ContentMax) = ContentDrops[first]
  <2> HIDE DEF first
  <2>1. SerializeWithin(w, ContentMax) =
           ContentDrops[IF fits = {} THEN Len(ContentDrops) ELSE CHOOSE i \in fits : \A j \in fits : i <= j]
    BY DEF SerializeWithin
  <2> HIDE DEF fits
  <2> QED BY <1>3, <2>1 DEF first
<1> HIDE DEF first
<1>7. WeightWithout(w, ContentDrops[first]) <= ContentMax
  BY <1>5
<1> QED BY <1>6, <1>7 DEF ContentSize

LEMMA PrefixOf ==
    ASSUME NEW C, NEW s \in Seq(C), NEW n \in 0 .. Len(s)
    PROVE  SubSeq(s, 1, n) \in Seq(C) /\ Len(SubSeq(s, 1, n)) = n /\ \A i \in 1 .. n : SubSeq(s, 1, n)[i] = s[i]
<1>1. n \in Nat /\ Len(s) \in Nat /\ \A i \in 1 .. n : s[i] \in C
  OBVIOUS
<1>2. n - 1 + 1 = n /\ \A i \in 1 .. n : 1 + i - 1 = i
  BY <1>1
<1>3. SubSeq(s, 1, n) \in Seq(C)
  BY <1>1, SubSeqProperties
<1>4. Len(SubSeq(s, 1, n)) = n
  <2>1. Len(SubSeq(s, 1, n)) = IF 1 <= n THEN n - 1 + 1 ELSE 0
    BY <1>1, SubSeqProperties
  <2> QED BY <1>1, <2>1
<1>5. \A i \in 1 .. n : SubSeq(s, 1, n)[i] = s[i]
  <2>1. \A i \in 1 .. (n - 1 + 1) : SubSeq(s, 1, n)[i] = s[1 + i - 1]
    BY <1>1, SubSeqProperties
  <2> QED BY <1>2, <2>1
<1> QED BY <1>3, <1>4, <1>5

LEMMA TrimsEnd ==
    ASSUME NEW C, NEW s \in Seq(C)
    PROVE  TrimEnd(s) \in Seq(C) /\ Len(TrimEnd(s)) <= Len(s)
<1> DEFINE ends == {i \in DOMAIN s : s[i] # "space"}
           n == IF ends = {} THEN 0 ELSE CHOOSE i \in ends : \A j \in ends : j <= i
<1>1. TrimEnd(s) = SubSeq(s, 1, n)
  BY DEF TrimEnd
<1>2. Len(s) \in Nat /\ DOMAIN s = 1 .. Len(s)
  OBVIOUS
<1>3. n \in 0 .. Len(s)
  <2>1. ends \subseteq 1 .. Len(s)
    BY <1>2
  <2> HIDE DEF ends
  <2>2. CASE ends = {}
    BY <1>2, <2>2
  <2>3. CASE ends # {}
    <3>1. IsFiniteSet(ends) /\ ends \in SUBSET Nat
      <4>1. IsFiniteSet(1 .. Len(s))
        BY <1>2, FS_Interval
      <4>2. \A i \in 1 .. Len(s) : i \in Nat
        OBVIOUS
      <4> QED BY <2>1, <4>1, <4>2, FS_Subset
    <3>2. \E i \in ends : \A j \in ends : j <= i
      BY <2>3, <3>1, Greatest
    <3>3. n \in ends
      BY <2>3, <3>2, Zenon
    <3> HIDE DEF n
    <3> QED BY <1>2, <2>1, <3>3
  <2> QED BY <2>2, <2>3
<1> HIDE DEF n
<1>4. SubSeq(s, 1, n) \in Seq(C) /\ Len(SubSeq(s, 1, n)) = n
  BY <1>3, PrefixOf
<1> QED BY <1>1, <1>2, <1>3, <1>4

LEMMA Reverses ==
    ASSUME NEW C, NEW s \in Seq(C)
    PROVE  Reverse(s) \in Seq(C)
<1> DEFINE n == Len(s)
<1>1. n \in Nat /\ \A i \in 1 .. n : n - i + 1 \in 1 .. n
  OBVIOUS
<1>2. \A i \in 1 .. n : s[n - i + 1] \in C
  <2>1. \A i \in 1 .. n : s[i] \in C
    OBVIOUS
  <2> HIDE DEF n
  <2> QED BY <1>1, <2>1
<1>3. Reverse(s) = [i \in 1 .. n |-> s[n - i + 1]]
  BY DEF Reverse
<1> HIDE DEF n
<1>4. Reverse(s) \in [1 .. n -> C]
  BY <1>2, <1>3
<1> QED BY <1>1, <1>4

LEMMA Trims ==
    ASSUME NEW C, NEW s \in Seq(C)
    PROVE  Trim(s) \in Seq(C)
BY TrimsEnd, Reverses DEF Trim
LEMMA WrittenIsANumber ==
    ASSUME NEW C, NEW chars \in Seq(C)
    PROVE  Written(chars) \in Nat /\ ("escaped" \notin C => Written(chars) = Len(chars))
<1> DEFINE escaped == {i \in DOMAIN chars : chars[i] = "escaped"}
<1>1. Written(chars) = Len(chars) + Cardinality(escaped) /\ Len(chars) \in Nat
  BY DEF Written
<1>2. IsFiniteSet(DOMAIN chars) /\ escaped \subseteq DOMAIN chars
  <2>1. DOMAIN chars = 1 .. Len(chars) /\ Len(chars) \in Nat
    OBVIOUS
  <2> QED BY <2>1, FS_Interval
<1>3. Cardinality(escaped) \in Nat
  <2> HIDE DEF escaped
  <2>1. IsFiniteSet(escaped)
    BY <1>2, FS_Subset
  <2> QED BY <2>1, FS_CardinalityType
<1>4. "escaped" \notin C => Cardinality(escaped) = 0
  <2>1. "escaped" \notin C => escaped = {}
    OBVIOUS
  <2> HIDE DEF escaped
  <2> QED BY <2>1, FS_EmptySet
<1> HIDE DEF escaped
<1> QED BY <1>1, <1>3, <1>4

\* A name is stored as a phrase, and as much of it as fits.
NameFits(name, budget) ==
    \/ name = NoName
    \/ /\ name.quoted \in BOOLEAN /\ Written(name.chars) \in Nat
       /\ Written(name.chars) + (IF name.quoted THEN 2 ELSE 0) <= budget
       /\ name.quoted \/ ToSet(name.chars) \cap (Specials \cup {"control"}) = {}

LEMMA NamesFit ==
    ASSUME NEW raw \in Seq(NameChars), NEW budget \in Nat
    PROVE  NameFits(DisplayName(raw, budget), budget)
<1> DEFINE Chars == NameChars \ {"control"}
           Bare == {"plain", "space"}
           name == Trim(Spaced(raw))
           fits == {k \in 0 .. Len(name) : 2 + Written(SubSeq(name, 1, k)) <= budget}
           kept == SubSeq(name, 1, IF fits = {} THEN 0 ELSE CHOOSE k \in fits : \A j \in fits : j <= k)
           cut == SubSeq(name, 1, AtMost(Len(name), budget))
           shown == DisplayName(raw, budget)
<1>1. name \in Seq(Chars)
  <2> DEFINE spaced == Spaced(raw)
  <2>1. Len(raw) \in Nat /\ DOMAIN raw = 1 .. Len(raw) /\ \A i \in 1 .. Len(raw) : raw[i] \in NameChars
    OBVIOUS
  <2>2. spaced \in [1 .. Len(raw) -> Chars]
    BY <2>1 DEF Spaced, NameChars
  <2>3. spaced \in Seq(Chars)
    BY <2>1, <2>2
  <2> HIDE DEF spaced, Chars
  <2> QED BY <2>3, Trims DEF spaced
<1>2. shown = IF ToSet(name) \cap Specials = {} THEN [quoted |-> FALSE, chars |-> TrimEnd(cut)]
              ELSE IF kept = <<>> THEN NoName ELSE [quoted |-> TRUE, chars |-> kept]
  BY DEF DisplayName
<1> HIDE DEF shown, name
<1>3. Len(name) \in Nat /\ AtMost(Len(name), budget) \in 0 .. Len(name) /\ AtMost(Len(name), budget) <= budget
  BY <1>1 DEF AtMost
<1>4. CASE ToSet(name) \cap Specials = {}
  <2>1. name \in Seq(Bare)
    <3>1. \A i \in 1 .. Len(name) : name[i] \in Bare
      BY <1>1, <1>4 DEF ToSet, Specials, NameChars
    <3>2. name \in [1 .. Len(name) -> Bare]
      BY <1>1, <3>1
    <3> QED BY <1>3, <3>2
  <2>2. cut \in Seq(Bare) /\ Len(cut) <= budget /\ Len(cut) \in Nat
    <3> HIDE DEF Bare
    <3> DEFINE k == AtMost(Len(name), budget)
    <3>1. k \in 0 .. Len(name) /\ k <= budget
      BY <1>3
    <3> HIDE DEF k
    <3>2. SubSeq(name, 1, k) \in Seq(Bare) /\ Len(SubSeq(name, 1, k)) = k
      BY <2>1, <3>1, PrefixOf
    <3> QED BY <1>3, <3>1, <3>2 DEF k
  <2> DEFINE chars == TrimEnd(cut)
  <2> HIDE DEF cut
  <2>3. chars \in Seq(Bare) /\ Len(chars) <= Len(cut)
    <3> HIDE DEF Bare
    <3> QED BY <2>2, TrimsEnd
  <2> HIDE DEF chars
  <2>4. Written(chars) = Len(chars) /\ Len(chars) \in Nat
    <3>1. "escaped" \notin Bare
      OBVIOUS
    <3> HIDE DEF Bare
    <3> QED BY <2>3, <3>1, WrittenIsANumber
  <2>5. ToSet(chars) \cap (Specials \cup {"control"}) = {}
    BY <2>3 DEF ToSet, Specials
  <2>6. shown = [quoted |-> FALSE, chars |-> chars]
    BY <1>2, <1>4 DEF chars
  <2> QED BY <2>2, <2>3, <2>4, <2>5, <2>6 DEF NameFits, shown
<1>5. CASE ToSet(name) \cap Specials # {} /\ kept # <<>>
  <2>1. fits # {}
    <3>1. SubSeq(name, 1, 0) = <<>>
      BY SubSeqEmpty
    <3> QED BY <1>5, <3>1
  <2> DEFINE n == CHOOSE k \in fits : \A j \in fits : j <= k
  <2>2. IsFiniteSet(fits) /\ fits \in SUBSET Nat
    <3>1. fits \subseteq 0 .. Len(name)
      OBVIOUS
    <3>2. IsFiniteSet(0 .. Len(name)) /\ 0 .. Len(name) \subseteq Nat
      BY <1>3, FS_Interval
    <3> HIDE DEF fits
    <3> QED BY <3>1, <3>2, FS_Subset
  <2>3. \E k \in fits : \A j \in fits : j <= k
    <3> HIDE DEF fits
    <3> QED BY <2>1, <2>2, Greatest
  <2>4. n \in fits
    <3> HIDE DEF fits
    <3> QED BY <2>3, Zenon
  <2>5. kept = SubSeq(name, 1, n)
    BY <2>1
  <2> HIDE DEF n
  <2>6. n \in 0 .. Len(name) /\ 2 + Written(SubSeq(name, 1, n)) <= budget
    BY <2>4
  <2> HIDE DEF fits, Chars
  <2>7. SubSeq(name, 1, n) \in Seq(Chars)
    BY <1>1, <2>6, PrefixOf
  <2> HIDE DEF kept
  <2>8. Written(kept) \in Nat /\ Written(kept) + 2 <= budget
    <3>1. Written(kept) \in Nat
      BY <2>5, <2>7, WrittenIsANumber
    <3>2. 2 + Written(kept) <= budget
      BY <2>5, <2>6
    <3> QED BY <3>1, <3>2
  <2>9. shown = [quoted |-> TRUE, chars |-> kept]
    BY <1>2, <1>5
  <2> QED BY <2>8, <2>9 DEF NameFits, shown
<1>6. CASE ToSet(name) \cap Specials # {} /\ kept = <<>>
  BY <1>2, <1>6 DEF NameFits, shown
<1> QED BY <1>4, <1>5, <1>6

\* format_addr, "the result has to parse back to the same mailbox".
LEMMA ReadsBackTheSame ==
    ASSUME NEW m \in Mailboxes, m.size <= AddressMax
    PROVE  \E named \in BOOLEAN :
              ReadsBack(FormatAddr(m)) = [box |-> m.box, named |-> named, caps |-> FALSE, flaw |-> m.flaw]
<1> DEFINE framing == 3 + m.size
           s == FormatAddr(m)
           name == s.name
           budget == AddressMax - framing
           size == s.kept + (IF name = NoName THEN 0 ELSE 3 + Written(name.chars) + (IF name.quoted THEN 2 ELSE 0))
<1>1. m.size \in Nat /\ m.name \in Seq(NameChars) /\ AddressMax \in Nat
  BY ParseLimitsAssumption DEF Mailboxes
<1>2. /\ name = IF framing > AddressMax THEN NoName ELSE DisplayName(m.name, budget)
      /\ s.box = m.box /\ s.size = m.size /\ s.flaw = m.flaw
      /\ s.kept = IF name = NoName THEN AtMost(m.size, AddressMax) ELSE m.size
  BY DEF FormatAddr
<1> HIDE DEF s
<1>3. s.kept = m.size
  BY <1>1, <1>2 DEF AtMost
<1>4. name = NoName \/ (framing <= AddressMax /\ NameFits(name, budget))
  <2>1. CASE framing > AddressMax
    BY <1>2, <2>1
  <2>2. CASE ~(framing > AddressMax)
    <3>1. budget \in Nat /\ framing <= AddressMax
      BY <1>1, <2>2
    <3> HIDE DEF framing, budget
    <3>2. name = DisplayName(m.name, budget)
      BY <1>2, <2>2
    <3> QED BY <1>1, <3>1, <3>2, NamesFit
  <2> QED BY <2>1, <2>2
<1>5. size <= AddressMax /\ (name.quoted \/ ToSet(name.chars) \cap (Specials \cup {"control"}) = {})
  <2>1. CASE name = NoName
    BY <1>1, <1>3, <2>1 DEF NoName, ToSet
  <2>2. CASE name # NoName
    <3> DEFINE chars == name.chars
               quotes == IF name.quoted THEN 2 ELSE 0
    <3>1. /\ framing <= AddressMax /\ Written(chars) \in Nat /\ Written(chars) + quotes <= budget
          /\ name.quoted \/ ToSet(chars) \cap (Specials \cup {"control"}) = {}
      BY <1>4, <2>2 DEF NameFits
    <3>2. size = m.size + (3 + Written(chars) + quotes) /\ quotes \in Nat
      BY <1>3, <2>2
    <3> HIDE DEF chars, quotes, size, name
    <3> QED BY <1>1, <3>1, <3>2 DEF chars, name
  <2> QED BY <2>1, <2>2
<1>6. ReadsBack(s) = [box |-> IF s.kept < s.size THEN "another" ELSE s.box, named |-> name # NoName, caps |-> FALSE,
                      flaw |-> IF size > AddressMax THEN "long"
                               ELSE IF ~name.quoted /\ ToSet(name.chars) \cap (Specials \cup {"control"}) # {} THEN "syntax"
                               ELSE s.flaw]
  BY DEF ReadsBack
<1>7. ~(s.kept < s.size) /\ s.box = m.box /\ s.flaw = m.flaw
  BY <1>1, <1>2, <1>3
<1>8. ~(size > AddressMax)
  <2>1. size \in Nat
    <3>1. CASE name = NoName
      BY <1>1, <1>3, <3>1
    <3>2. CASE name # NoName
      <4>1. Written(name.chars) \in Nat
        BY <1>4, <3>2 DEF NameFits
      <4> DEFINE quotes == IF name.quoted THEN 2 ELSE 0
      <4>2. quotes \in Nat /\ size = m.size + (3 + Written(name.chars) + quotes)
        BY <1>3, <3>2
      <4> HIDE DEF quotes, size, name
      <4> QED BY <1>1, <4>1, <4>2
    <3> QED BY <3>1, <3>2
  <2> HIDE DEF size
  <2> QED BY <1>1, <1>5, <2>1
<1> DEFINE named == name # NoName
<1>9. ReadsBack(s) = [box |-> m.box, named |-> named, caps |-> FALSE, flaw |-> m.flaw]
  <2> HIDE DEF size, named
  <2> QED BY <1>5, <1>6, <1>7, <1>8 DEF named
<1>10. named \in BOOLEAN
  OBVIOUS
<1> HIDE DEF named
<1> QED BY <1>9, <1>10 DEF s
\* The people of a stored message, as they are read back: an address may be one SES
\* cannot deliver to, but never the inbox's own.
Participants ==
    {a \in [box : STRING, named : BOOLEAN, caps : BOOLEAN, flaw : AddressFlaws] : a.box = "inbox" => a.flaw = "none"}
ReadEntries == {a \in Participants : a.caps = FALSE}

\* Those without a flaw, as a caller spells them and as they are read back.
Flawless == [box : STRING, named : BOOLEAN, caps : BOOLEAN, flaw : {"none"}]
FineEntries == [box : STRING, named : BOOLEAN, caps : {FALSE}, flaw : {"none"}]

LEMMA SentAreFlawless == SentTo \subseteq Flawless /\ FineEntries \subseteq Flawless
<1>1. ASSUME NEW a \in SentTo PROVE a \in Flawless
  <2>1. a \in AddressEntries /\ a.flaw = "none"
    BY DEF SentTo
  <2>2. /\ a = [box |-> a.box, named |-> a.named, caps |-> a.caps, flaw |-> a.flaw]
        /\ a.box \in STRING /\ a.named \in BOOLEAN /\ a.caps \in BOOLEAN
    BY <2>1 DEF AddressEntries
  <2> QED BY <2>1, <2>2 DEF Flawless
<1>2. ASSUME NEW a \in FineEntries PROVE a \in Flawless
  <2>1. /\ a = [box |-> a.box, named |-> a.named, caps |-> a.caps, flaw |-> a.flaw]
        /\ a.box \in STRING /\ a.named \in BOOLEAN /\ a.caps = FALSE /\ a.flaw = "none"
    BY DEF FineEntries
  <2> QED BY <2>1 DEF Flawless
<1> QED BY <1>1, <1>2

LEMMA PeopleAreStored == Flawless \subseteq Participants /\ SentTo \subseteq Participants /\ ReadEntries \subseteq Participants
<1>1. ASSUME NEW a \in Flawless PROVE a \in Participants
  BY DEF Flawless, Participants, AddressFlaws
<1> QED BY <1>1, SentAreFlawless DEF ReadEntries

\* People that envelope_address lets by have no flaw.
LEMMA DeliverableAreFlawless ==
    ASSUME NEW a \in Participants, a.flaw = "none"
    PROVE  a \in Flawless /\ (a \in ReadEntries => a \in FineEntries)
<1>1. /\ a = [box |-> a.box, named |-> a.named, caps |-> a.caps, flaw |-> "none"]
      /\ a.box \in STRING /\ a.named \in BOOLEAN /\ a.caps \in BOOLEAN
  BY DEF Participants
<1>2. a \in ReadEntries => a.caps = FALSE
  BY DEF ReadEntries
<1> QED BY <1>1, <1>2 DEF Flawless, FineEntries

LEMMA PassedAreFlawless ==
    ASSUME NEW E, E \subseteq Participants, NEW list \in Seq(E), NEW field, AddressErrors(field, list) = {}
    PROVE  list \in Seq(Flawless)
<1>1. DOMAIN list = 1 .. Len(list) /\ Len(list) \in Nat
  OBVIOUS
<1>2. \A i \in 1 .. Len(list) : list[i] \in E /\ list[i] \in ToSet(list)
  BY <1>1 DEF ToSet
<1>3. \A i \in 1 .. Len(list) : HasEnvelope(list[i])
  BY <1>2 DEF AddressErrors
<1>4. \A i \in 1 .. Len(list) : list[i] \in Flawless
  BY <1>2, <1>3, DeliverableAreFlawless DEF HasEnvelope
<1>5. list \in [1 .. Len(list) -> Flawless]
  BY <1>1, <1>4
<1> QED BY <1>1, <1>5

LEMMA FirstsCover ==
    ASSUME NEW U, NEW s \in Seq(U), NEW firsts, firsts = {i \in DOMAIN s : \A j \in 1 .. (i - 1) : s[j] # s[i]}
    PROVE  \A i \in DOMAIN s : \E k \in firsts : s[k] = s[i]
<1>1. DOMAIN s = 1 .. Len(s) /\ Len(s) \in Nat
  OBVIOUS
<1> SUFFICES ASSUME NEW i \in DOMAIN s PROVE \E k \in firsts : s[k] = s[i]
  OBVIOUS
<1> DEFINE same == {j \in DOMAIN s : s[j] = s[i]}
<1>2. same \in SUBSET Nat /\ same # {}
  BY <1>1
<1>3. PICK k \in same : \A j \in same : k <= j
  <2> HIDE DEF same
  <2> QED BY <1>2, Least
<1>4. \A j \in 1 .. (k - 1) : j \in DOMAIN s /\ ~(k <= j)
  BY <1>1
<1>5. \A j \in 1 .. (k - 1) : s[j] # s[k]
  BY <1>3, <1>4
<1> QED BY <1>5

LEMMA ListedBoxes ==
    ASSUME NEW U, NEW s \in Seq(U)
    PROVE  IsFiniteSet(Boxes(s)) /\ Cardinality(Boxes(s)) \in Nat /\ (Boxes(s) = {} <=> s = <<>>)
           /\ Boxes(s) = {s[i].box : i \in DOMAIN s}
<1> DEFINE f == [i \in DOMAIN s |-> s[i].box]
           B == {s[i].box : i \in DOMAIN s}
<1>1. Boxes(s) = B
  BY DEF Boxes, ToSet
<1>2. IsFiniteSet(DOMAIN s)
  <2>1. DOMAIN s = 1 .. Len(s) /\ Len(s) \in Nat
    OBVIOUS
  <2> QED BY <2>1, FS_Interval
<1>3. f \in Surjection(DOMAIN s, B)
  BY DEF Surjection
<1> DEFINE D == DOMAIN s
<1>4. B = {} <=> s = <<>>
  <2>1. B = {} <=> DOMAIN s = {}
    OBVIOUS
  <2>2. s # <<>> => 1 \in DOMAIN s
    OBVIOUS
  <2>3. DOMAIN <<>> = {}
    OBVIOUS
  <2> QED BY <2>1, <2>2, <2>3
<1> HIDE DEF f, B, D
<1>5. IsFiniteSet(B)
  BY <1>2, <1>3, FS_Surjection DEF D
<1>6. Cardinality(B) \in Nat
  BY <1>5, FS_CardinalityType
<1> QED BY <1>1, <1>4, <1>5, <1>6 DEF B

\* The addresses a rule lets by: every mailbox of the list, each spelling once.
LEMMA AddressesKeepBoxes ==
    ASSUME NEW E, E \subseteq Flawless, NEW list \in Seq(E)
    PROVE  /\ Addresses(list) \in Seq(Flawless) /\ Boxes(Addresses(list)) = Boxes(list)
           /\ E \subseteq FineEntries => Len(Addresses(list)) <= Cardinality(Boxes(list))
<1> DEFINE keptAt == {i \in DOMAIN list : HasEnvelope(list[i])}
           kept == Those(list, HasEnvelope)
           bare == [i \in DOMAIN kept |-> EnvelopeAddress(kept[i])]
           firsts == {i \in DOMAIN bare : \A j \in 1 .. (i - 1) : bare[j] # bare[i]}
<1>1. keptAt = DOMAIN list
  <2>1. \A i \in DOMAIN list : list[i] \in Flawless
    OBVIOUS
  <2>2. \A a \in Flawless : HasEnvelope(a)
    BY DEF HasEnvelope, Flawless
  <2> QED BY <2>1, <2>2
<1>2. kept = At(list, keptAt)
  BY DEF Those
<1> HIDE DEF kept, keptAt
<1>3. kept \in Seq(E) /\ ToSet(kept) = ToSet(list)
  <2>1. kept \in Seq(E) /\ ToSet(kept) = {list[i] : i \in keptAt}
    BY <1>1, <1>2, AtPlaces
  <2> QED BY <1>1, <2>1 DEF ToSet
<1>4. \A a \in E : /\ EnvelopeAddress(a) \in Flawless /\ EnvelopeAddress(a).box = a.box
                   /\ E \subseteq FineEntries =>
                        EnvelopeAddress(a) = [box |-> a.box, named |-> FALSE, caps |-> FALSE, flaw |-> "none"]
  <2> SUFFICES ASSUME NEW a \in E
               PROVE  /\ EnvelopeAddress(a) \in Flawless /\ EnvelopeAddress(a).box = a.box
                      /\ E \subseteq FineEntries =>
                           EnvelopeAddress(a) = [box |-> a.box, named |-> FALSE, caps |-> FALSE, flaw |-> "none"]
    OBVIOUS
  <2>1. a \in Flawless
    OBVIOUS
  <2>2. EnvelopeAddress(a) = [box |-> a.box, named |-> FALSE, caps |-> a.caps, flaw |-> "none"]
    <3>1. PICK box, named, caps : a = [box |-> box, named |-> named, caps |-> caps, flaw |-> "none"]
      BY <2>1 DEF Flawless
    <3>2. a.box = box /\ a.caps = caps
      BY <3>1
    <3> DEFINE r == [box |-> box, named |-> named, caps |-> caps, flaw |-> "none"]
    <3>3. \A v : [r EXCEPT !.named = v] = [box |-> box, named |-> v, caps |-> caps, flaw |-> "none"]
      OBVIOUS
    <3>4. EnvelopeAddress(a) = [r EXCEPT !.named = FALSE]
      BY <3>1, Zenon DEF EnvelopeAddress
    <3> QED BY <3>2, <3>3, <3>4
  <2>3. a \in FineEntries => a.caps = FALSE
    BY DEF FineEntries
  <2>4. a.box \in STRING /\ a.caps \in BOOLEAN
    BY <2>1 DEF Flawless
  <2>5. EnvelopeAddress(a) \in Flawless /\ EnvelopeAddress(a).box = a.box
    BY <2>2, <2>4 DEF Flawless
  <2>6. E \subseteq FineEntries => a.caps = FALSE
    BY <2>3
  <2> QED BY <2>2, <2>5, <2>6
<1>5. /\ Len(kept) \in Nat /\ DOMAIN kept = 1 .. Len(kept) /\ \A i \in DOMAIN kept : kept[i] \in E
  BY <1>3
<1>6. bare \in Seq(Flawless) /\ DOMAIN bare = DOMAIN kept /\ \A i \in DOMAIN kept : bare[i] = EnvelopeAddress(kept[i])
  <2>1. bare \in [1 .. Len(kept) -> Flawless]
    BY <1>4, <1>5
  <2> QED BY <1>5, <2>1
<1>7. Addresses(list) = At(bare, firsts)
  BY DEF Addresses, Once, kept
<1> HIDE DEF bare
<1>8. firsts \in SUBSET DOMAIN bare
  OBVIOUS
<1>9. \A i \in DOMAIN bare : \E k \in firsts : bare[k] = bare[i]
  <2> DEFINE these == firsts
  <2>1. these = {i \in DOMAIN bare : \A j \in 1 .. (i - 1) : bare[j] # bare[i]}
    OBVIOUS
  <2> HIDE DEF these
  <2>2. \A i \in DOMAIN bare : \E k \in these : bare[k] = bare[i]
    BY <1>6, <2>1, FirstsCover
  <2> QED BY <2>2 DEF these
<1>10. ASSUME NEW i \in firsts, NEW j \in firsts, bare[i] = bare[j] PROVE i = j
  <2>1. i \in Nat /\ j \in Nat /\ i >= 1 /\ j >= 1
    BY <1>5, <1>6
  <2>2. i < j => i \in 1 .. (j - 1)
    BY <2>1
  <2>3. j < i => j \in 1 .. (i - 1)
    BY <2>1
  <2> QED BY <1>10, <2>1, <2>2, <2>3
<1> HIDE DEF firsts
<1>11. /\ At(bare, firsts) \in Seq(Flawless) /\ Len(At(bare, firsts)) = Cardinality(firsts)
       /\ ToSet(At(bare, firsts)) = {bare[i] : i \in firsts}
  BY <1>6, <1>8, AtPlaces
<1>12. {bare[i] : i \in firsts} = {bare[i] : i \in DOMAIN bare}
  BY <1>8, <1>9
<1>13. \A i \in DOMAIN bare : bare[i].box = kept[i].box
  BY <1>4, <1>5, <1>6
<1>14. Boxes(Addresses(list)) = Boxes(list)
  <2>1. Boxes(Addresses(list)) = {bare[i].box : i \in DOMAIN bare}
    <3>1. ToSet(Addresses(list)) = {bare[i] : i \in DOMAIN bare}
      BY <1>7, <1>11, <1>12
    <3> QED BY <3>1 DEF Boxes
  <2>2. {bare[i].box : i \in DOMAIN bare} = {kept[i].box : i \in DOMAIN kept}
    BY <1>6, <1>13
  <2>3. Boxes(list) = {kept[i].box : i \in DOMAIN kept}
    BY <1>3 DEF Boxes, ToSet
  <2> QED BY <2>1, <2>2, <2>3
<1>15. ASSUME E \subseteq FineEntries PROVE Cardinality(firsts) <= Cardinality(Boxes(list))
  <2> DEFINE f == [i \in firsts |-> bare[i].box]
             B == Boxes(list)
  <2>1. \A i \in firsts : bare[i].box \in B
    <3>1. \A i \in firsts : i \in DOMAIN kept /\ bare[i].box = kept[i].box
      BY <1>6, <1>8, <1>13
    <3> QED BY <1>3, <3>1 DEF Boxes, ToSet
  <2>2. \A i, j \in firsts : bare[i].box = bare[j].box => i = j
    <3> SUFFICES ASSUME NEW i \in firsts, NEW j \in firsts, bare[i].box = bare[j].box PROVE i = j
      OBVIOUS
    <3>1. i \in DOMAIN kept /\ j \in DOMAIN kept
      BY <1>6, <1>8
    <3>2. kept[i].box = kept[j].box
      BY <1>6, <1>13, <3>1
    <3>3. bare[i] = bare[j]
      BY <1>4, <1>5, <1>6, <1>15, <3>1, <3>2
    <3> QED BY <1>10, <3>3
  <2>3. f \in Injection(firsts, B)
    <3> HIDE DEF B
    <3> QED BY <2>1, <2>2 DEF Injection, IsInjective
  <2>4. IsFiniteSet(B)
    BY ListedBoxes
  <2> HIDE DEF f, B
  <2>5. Cardinality(firsts) <= Cardinality(B)
    BY <2>3, <2>4, FS_Injection
  <2> QED BY <2>5 DEF B
<1> QED BY <1>7, <1>11, <1>14, <1>15
\* People are the same mailbox only when their boxes are, and then if both have no
\* flaw.
LEMMA SameBoxes ==
    ASSUME NEW a \in Participants
    PROVE  /\ IsInbox(a) <=> a.box = "inbox"
           /\ SameMailbox(a, a)
           /\ \A b \in Participants : SameMailbox(a, b) => a.box = b.box
           /\ a \in Flawless => \A b \in Flawless : SameMailbox(a, b) <=> a.box = b.box
<1>1. \A b \in Flawless : Parses(b)
  BY DEF Flawless, Parses
<1>2. Parses(Inbox) /\ Inbox = [box |-> "inbox", named |-> FALSE, caps |-> FALSE, flaw |-> "none"]
  BY DEF Parses, Inbox
<1>3. \A p \in Participants :
         /\ p = [box |-> p.box, named |-> p.named, caps |-> p.caps, flaw |-> p.flaw]
         /\ \A caps : [p EXCEPT !.caps = caps] = [box |-> p.box, named |-> p.named, caps |-> caps, flaw |-> p.flaw]
  BY DEF Participants
<1>4. SameMailbox(a, a)
  BY <1>3 DEF SameMailbox
<1>5. ASSUME NEW b \in Participants, SameMailbox(a, b) PROVE a.box = b.box
  <2>1. CASE Parses(a) /\ Parses(b)
    BY <1>5, <2>1 DEF SameMailbox
  <2>2. CASE ~(Parses(a) /\ Parses(b))
    <3>1. [a EXCEPT !.caps = b.caps] = b
      BY <1>5, <2>2 DEF SameMailbox
    <3>2. [box |-> a.box, named |-> a.named, caps |-> b.caps, flaw |-> a.flaw] = b
      BY <1>3, <3>1
    <3> QED BY <3>2
  <2> QED BY <2>1, <2>2
<1>6. a \in Flawless => \A b \in Flawless : SameMailbox(a, b) <=> a.box = b.box
  BY <1>1 DEF SameMailbox
<1>7. IsInbox(a) => a.box = "inbox"
  <2>1. CASE Parses(a)
    BY <1>2, <2>1 DEF IsInbox, SameMailbox
  <2>2. CASE ~Parses(a)
    <3>1. IsInbox(a) => [box |-> a.box, named |-> a.named, caps |-> Inbox.caps, flaw |-> a.flaw] = Inbox
      BY <1>3, <2>2 DEF IsInbox, SameMailbox
    <3> QED BY <1>2, <3>1
  <2> QED BY <2>1, <2>2
<1>8. a.box = "inbox" => IsInbox(a)
  <2>1. a.box = "inbox" => Parses(a)
    BY DEF Participants, Parses
  <2> QED BY <1>2, <2>1 DEF IsInbox, SameMailbox
<1> QED BY <1>4, <1>5, <1>6, <1>7, <1>8

LEMMA SameThroughout ==
    ASSUME NEW a \in Participants, NEW b \in Participants, NEW c \in Participants, SameMailbox(a, b), SameMailbox(b, c)
    PROVE  SameMailbox(a, c)
<1>1. \A p \in Participants :
         /\ p = [box |-> p.box, named |-> p.named, caps |-> p.caps, flaw |-> p.flaw]
         /\ \A caps : [p EXCEPT !.caps = caps] = [box |-> p.box, named |-> p.named, caps |-> caps, flaw |-> p.flaw]
  BY DEF Participants
<1>2. ASSUME NEW p \in Participants, NEW q \in Participants, SameMailbox(p, q) PROVE Parses(p) <=> Parses(q)
  <2>1. CASE Parses(p) /\ Parses(q)
    BY <2>1
  <2>2. CASE ~(Parses(p) /\ Parses(q))
    <3>1. [box |-> p.box, named |-> p.named, caps |-> q.caps, flaw |-> p.flaw] = q
      BY <1>1, <1>2, <2>2 DEF SameMailbox
    <3>2. p.flaw = q.flaw
      BY <3>1
    <3> QED BY <3>2 DEF Parses
  <2> QED BY <2>1, <2>2
<1>3. CASE Parses(b)
  <2>1. Parses(a) /\ Parses(c)
    BY <1>2, <1>3
  <2> QED BY <1>3, <2>1 DEF SameMailbox
<1>4. CASE ~Parses(b)
  <2>1. ~Parses(a)
    BY <1>2, <1>4
  <2>2. [box |-> a.box, named |-> a.named, caps |-> b.caps, flaw |-> a.flaw] = b
    BY <1>1, <1>4 DEF SameMailbox
  <2>3. [box |-> b.box, named |-> b.named, caps |-> c.caps, flaw |-> b.flaw] = c
    BY <1>1, <1>4 DEF SameMailbox
  <2>4. [box |-> a.box, named |-> a.named, caps |-> c.caps, flaw |-> a.flaw] = c
    <3>1. b.box = a.box /\ b.named = a.named /\ b.flaw = a.flaw
      BY <2>2
    <3> QED BY <2>3, <3>1
  <2> QED BY <1>1, <2>1, <2>4 DEF SameMailbox
<1> QED BY <1>3, <1>4

LEMMA WithoutInboxKeeps ==
    ASSUME NEW E, E \subseteq Participants, NEW list \in Seq(E)
    PROVE  /\ WithoutInbox(list) \in Seq(E) /\ Boxes(WithoutInbox(list)) = Boxes(list) \ {"inbox"}
           /\ \A a \in ToSet(WithoutInbox(list)) : a \in ToSet(list) /\ a.box # "inbox"
           /\ WithoutInbox(list) = <<>> <=> Boxes(list) \ {"inbox"} = {}
<1> DEFINE others == {i \in DOMAIN list : ~IsInbox(list[i])}
           kept == WithoutInbox(list)
<1>1. kept = At(list, others) /\ others \in SUBSET DOMAIN list
  BY DEF WithoutInbox, Without
<1>2. \A i \in DOMAIN list : list[i] \in E /\ (IsInbox(list[i]) <=> list[i].box = "inbox")
  <2>1. \A i \in DOMAIN list : list[i] \in E /\ list[i] \in Participants
    OBVIOUS
  <2> QED BY <2>1, SameBoxes
<1>3. others = {i \in DOMAIN list : list[i].box # "inbox"}
  BY <1>2
<1> HIDE DEF others, kept
<1>4. kept \in Seq(E) /\ ToSet(kept) = {list[i] : i \in others}
  BY <1>1, AtPlaces
<1>5. Boxes(kept) = Boxes(list) \ {"inbox"}
  <2>1. Boxes(kept) = {list[i].box : i \in others}
    BY <1>4 DEF Boxes
  <2>2. Boxes(list) = {list[i].box : i \in DOMAIN list}
    BY DEF Boxes, ToSet
  <2> QED BY <1>3, <2>1, <2>2
<1>6. kept = <<>> <=> Boxes(kept) = {}
  BY <1>4, ListedBoxes
<1>7. \A a \in ToSet(kept) : a \in ToSet(list) /\ a.box # "inbox"
  BY <1>3, <1>4 DEF ToSet
<1> QED BY <1>4, <1>5, <1>6, <1>7 DEF kept

LEMMA OneBox ==
    ASSUME NEW a
    PROVE  Boxes(<<a>>) = {a.box} /\ Boxes(<<>>) = {}
<1>1. ToSet(<<a>>) = {a} /\ ToSet(<<>>) = {}
  BY DEF ToSet
<1> QED BY <1>1 DEF Boxes

\* The original, with its mailboxes by name; whoever wrote may have no address.
OriginalSays(o, E, to, cc, bcc, author) ==
    /\ E \subseteq Participants
    /\ o.to \in Seq(E) /\ o.cc \in Seq(E) /\ o.bcc \in Seq(E)
    /\ Boxes(o.to) = to /\ Boxes(o.cc) = cc /\ Boxes(o.bcc) = bcc
    /\ o.from.box = author /\ (o.from \in E \/ (o.from = Unknown /\ author = "none"))

LEMMA AuthorIsInbox ==
    ASSUME NEW o, NEW E, NEW to, NEW cc, NEW bcc, NEW author, OriginalSays(o, E, to, cc, bcc, author)
    PROVE  IsInbox(o.from) <=> author = "inbox"
<1>1. CASE o.from \in E
  BY <1>1, SameBoxes DEF OriginalSays
<1>2. CASE o.from = Unknown /\ author = "none"
  <2>1. ~Parses(Unknown)
    BY DEF Parses, Unknown
  <2> DEFINE other == [Unknown EXCEPT !.caps = Inbox.caps]
  <2>2. other.flaw = "empty" /\ Inbox.flaw = "none"
    BY DEF Unknown, Inbox
  <2>3. ~IsInbox(Unknown)
    BY <2>1, <2>2 DEF IsInbox, SameMailbox
  <2> QED BY <1>2, <2>3
<1> QED BY <1>1, <1>2 DEF OriginalSays

\* Whom a reply to a message of the inbox's own is for, and one to anybody else's.
OwnTo(to, cc, bcc) ==
    IF to \ {"inbox"} # {} THEN to \ {"inbox"} ELSE IF cc \ {"inbox"} # {} THEN cc \ {"inbox"}
    ELSE IF bcc \ {"inbox"} # {} THEN {} ELSE {"inbox"}
OwnBcc(to, cc, bcc) == IF to \cup cc \subseteq {"inbox"} THEN bcc \ {"inbox"} ELSE {}
Answered(asked, author) == IF asked \ {"inbox"} # {} THEN asked \ {"inbox"} ELSE {author}

LEMMA DirectOfOwnMessage ==
    ASSUME NEW o, NEW E, NEW to, NEW cc, NEW bcc, OriginalSays(o, E, to, cc, bcc, "inbox"), NEW replyTo,
           NEW direct, direct = DirectOf(o, replyTo)
    PROVE  /\ direct.to \in Seq(E) /\ direct.bcc \in Seq(E) /\ (direct.bcc # <<>> => direct.to = <<>>)
           /\ Boxes(direct.to) = OwnTo(to, cc, bcc) /\ Boxes(direct.bcc) = OwnBcc(to, cc, bcc)
<1> SUFFICES /\ direct.to \in Seq(E) /\ direct.bcc \in Seq(E) /\ (direct.bcc # <<>> => direct.to = <<>>)
             /\ Boxes(direct.to) = IF to \ {"inbox"} # {} THEN to \ {"inbox"} ELSE IF cc \ {"inbox"} # {} THEN cc \ {"inbox"}
                                   ELSE IF bcc \ {"inbox"} # {} THEN {} ELSE {"inbox"}
             /\ Boxes(direct.bcc) = IF to \cup cc \subseteq {"inbox"} THEN bcc \ {"inbox"} ELSE {}
  BY DEF OwnTo, OwnBcc
<1> DEFINE t == WithoutInbox(o.to)
           c == WithoutInbox(o.cc)
           b == WithoutInbox(o.bcc)
           first == IF t # <<>> THEN t ELSE c
<1>1. direct = [to |-> IF first = <<>> /\ b = <<>> THEN <<o.from>> ELSE first, bcc |-> IF first = <<>> THEN b ELSE <<>>]
  BY AuthorIsInbox DEF DirectOf, DirectOfOwn
<1>2. t \in Seq(E) /\ Boxes(t) = to \ {"inbox"} /\ (t = <<>> <=> to \ {"inbox"} = {})
  BY WithoutInboxKeeps DEF OriginalSays
<1>3. c \in Seq(E) /\ Boxes(c) = cc \ {"inbox"} /\ (c = <<>> <=> cc \ {"inbox"} = {})
  BY WithoutInboxKeeps DEF OriginalSays
<1>4. b \in Seq(E) /\ Boxes(b) = bcc \ {"inbox"} /\ (b = <<>> <=> bcc \ {"inbox"} = {})
  BY WithoutInboxKeeps DEF OriginalSays
<1>5. o.from \in E /\ o.from.box = "inbox"
  BY DEF OriginalSays
<1>6. Boxes(<<>>) = {} /\ Boxes(<<o.from>>) = {"inbox"} /\ <<>> \in Seq(E) /\ <<o.from>> \in Seq(E)
  BY <1>5, OneBox
<1> HIDE DEF t, c, b
<1>7. CASE t # <<>>
  BY <1>1, <1>2, <1>6, <1>7
<1>8. CASE t = <<>> /\ c # <<>>
  BY <1>1, <1>2, <1>3, <1>6, <1>8
<1>9. CASE t = <<>> /\ c = <<>> /\ b # <<>>
  BY <1>1, <1>2, <1>3, <1>4, <1>6, <1>9
<1>10. CASE t = <<>> /\ c = <<>> /\ b = <<>>
  <2>1. direct.to = <<o.from>> /\ direct.bcc = <<>>
    BY <1>1, <1>10
  <2>2. to \ {"inbox"} = {} /\ cc \ {"inbox"} = {} /\ bcc \ {"inbox"} = {}
    BY <1>2, <1>3, <1>4, <1>10
  <2>3. direct.to \in Seq(E) /\ direct.bcc \in Seq(E) /\ Boxes(direct.to) = {"inbox"} /\ Boxes(direct.bcc) = {}
    BY <1>6, <2>1
  <2> HIDE DEF first
  <2> QED BY <2>1, <2>2, <2>3
<1> QED BY <1>7, <1>8, <1>9, <1>10

LEMMA DirectOfAnother ==
    ASSUME NEW o, NEW E, NEW to, NEW cc, NEW bcc, NEW author, OriginalSays(o, E, to, cc, bcc, author), author # "inbox",
           NEW replyTo \in Seq(E), NEW direct, direct = DirectOf(o, replyTo)
    PROVE  /\ direct.bcc = <<>>
           /\ direct.to \in Seq(E) \/ direct.to = <<o.from>>
           /\ Boxes(direct.to) = Answered(Boxes(replyTo), author)
<1> SUFFICES /\ direct.bcc = <<>>
             /\ direct.to \in Seq(E) \/ direct.to = <<o.from>>
             /\ Boxes(direct.to) = IF Boxes(replyTo) \ {"inbox"} # {} THEN Boxes(replyTo) \ {"inbox"} ELSE {author}
  BY DEF Answered
<1> DEFINE r == WithoutInbox(replyTo)
<1>1. direct = [to |-> IF r = <<>> THEN <<o.from>> ELSE r, bcc |-> <<>>]
  BY AuthorIsInbox DEF DirectOf
<1>2. r \in Seq(E) /\ Boxes(r) = Boxes(replyTo) \ {"inbox"} /\ (r = <<>> <=> Boxes(replyTo) \ {"inbox"} = {})
  BY WithoutInboxKeeps DEF OriginalSays
<1>3. Boxes(<<o.from>>) = {author}
  BY OneBox DEF OriginalSays
<1> HIDE DEF r
<1>4. CASE r = <<>>
  <2>1. direct.to = <<o.from>> /\ direct.bcc = <<>>
    BY <1>1, <1>4
  <2>2. Boxes(replyTo) \ {"inbox"} = {}
    BY <1>2, <1>4
  <2>3. Boxes(direct.to) = {author}
    BY <1>3, <2>1
  <2> QED BY <2>1, <2>2, <2>3
<1>5. CASE r # <<>>
  <2>1. direct.to = r /\ direct.bcc = <<>>
    BY <1>1, <1>5
  <2>2. Boxes(replyTo) \ {"inbox"} # {}
    BY <1>2, <1>5
  <2> QED BY <1>2, <2>1, <2>2
<1> QED BY <1>4, <1>5

\* reply_all adds everybody the original shows who is not there already.
LEMMA ReplyAllAdds ==
    ASSUME NEW o, NEW E, NEW to, NEW cc, NEW bcc, NEW author, OriginalSays(o, E, to, cc, bcc, author),
           NEW direct \in Seq(E), NEW all, all = ReplyAllRecipients(o, direct)
    PROVE  /\ all \in Seq(E)
           /\ direct \in Seq(Flawless) /\ all \in Seq(Flawless) =>
                 Boxes(all) = (to \cup cc) \ ({"inbox"} \cup Boxes(direct))
<1> DEFINE shown == o.to \o o.cc
           D == Boxes(direct)
           seen(i) == \/ \E p \in ToSet(direct) : SameMailbox(p, shown[i])
                      \/ \E j \in 1 .. (i - 1) : SameMailbox(shown[j], shown[i])
           new == {i \in DOMAIN shown : ~IsInbox(shown[i]) /\ ~seen(i)}
<1>1. shown \in Seq(E) /\ ToSet(shown) = ToSet(o.to) \cup ToSet(o.cc)
  BY ToSetJoins DEF OriginalSays
<1>2. Boxes(shown) = to \cup cc
  BY <1>1 DEF Boxes, OriginalSays
<1>3. all = At(shown, new) /\ new \in SUBSET DOMAIN shown
  BY DEF ReplyAllRecipients
<1> HIDE DEF shown
<1>4. DOMAIN shown = 1 .. Len(shown) /\ Len(shown) \in Nat /\ \A i \in DOMAIN shown : shown[i] \in Participants
  <2>1. \A i \in DOMAIN shown : shown[i] \in E
    BY <1>1
  <2> QED BY <1>1, <2>1 DEF OriginalSays
<1>5. \A p \in ToSet(direct) : p \in Participants
  BY DEF ToSet, OriginalSays
<1>6. ASSUME NEW i \in DOMAIN shown, shown[i].box # "inbox", shown[i].box \notin D
      PROVE  \E k \in new : shown[k].box = shown[i].box
  <2> DEFINE same == {j \in DOMAIN shown : SameMailbox(shown[j], shown[i])}
  <2>1. same \in SUBSET Nat /\ same # {}
    BY <1>4, SameBoxes
  <2>2. PICK k \in same : \A j \in same : k <= j
    <3> HIDE DEF same
    <3> QED BY <2>1, Least
  <2>3. k \in DOMAIN shown /\ SameMailbox(shown[k], shown[i]) /\ k \in Nat
    BY <1>4
  <2>4. shown[k].box = shown[i].box
    BY <1>4, <2>3, SameBoxes
  <2>5. ~IsInbox(shown[k])
    BY <1>4, <1>6, <2>3, <2>4, SameBoxes
  <2>6. \A p \in ToSet(direct) : ~SameMailbox(p, shown[k])
    <3>1. \A p \in ToSet(direct) : p.box # shown[k].box
      BY <1>6, <2>4 DEF Boxes
    <3> QED BY <1>4, <1>5, <2>3, <3>1, SameBoxes
  <2>7. ASSUME NEW j \in 1 .. (k - 1) PROVE ~SameMailbox(shown[j], shown[k])
    <3>1. j \in DOMAIN shown /\ ~(k <= j)
      BY <1>4, <2>3
    <3>2. j \notin same
      BY <2>2, <3>1
    <3> QED BY <1>4, <2>3, <3>1, <3>2, SameThroughout
  <2>8. k \in new
    BY <2>3, <2>5, <2>6, <2>7
  <2> QED BY <2>4, <2>8
<1>7. \A i \in new : shown[i].box # "inbox" /\ \A p \in ToSet(direct) : ~SameMailbox(p, shown[i])
  BY <1>4, SameBoxes
<1> HIDE DEF seen, new
<1>8. all \in Seq(E) /\ ToSet(all) = {shown[i] : i \in new}
  BY <1>1, <1>3, AtPlaces
<1>9. ASSUME direct \in Seq(Flawless), all \in Seq(Flawless), NEW i \in new PROVE shown[i].box \notin D
  <2>1. shown[i] \in Flawless
    <3>1. shown[i] \in ToSet(all)
      BY <1>8
    <3> QED BY <1>9, <3>1 DEF ToSet
  <2>2. \A p \in ToSet(direct) : p \in Flawless
    BY <1>9 DEF ToSet
  <2>3. \A p \in ToSet(direct) : p.box # shown[i].box
    BY <1>5, <1>7, <2>1, <2>2, SameBoxes
  <2> QED BY <2>3 DEF Boxes
<1>10. Boxes(all) = {shown[i].box : i \in new}
  BY <1>8 DEF Boxes
<1>11. Boxes(shown) = {shown[i].box : i \in DOMAIN shown}
  BY DEF Boxes, ToSet
<1>12. direct \in Seq(Flawless) /\ all \in Seq(Flawless) => Boxes(all) = Boxes(shown) \ ({"inbox"} \cup D)
  <2> SUFFICES ASSUME direct \in Seq(Flawless), all \in Seq(Flawless) PROVE Boxes(all) = Boxes(shown) \ ({"inbox"} \cup D)
    OBVIOUS
  <2> HIDE DEF D
  <2> QED BY <1>3, <1>6, <1>7, <1>9, <1>10, <1>11
<1> QED BY <1>2, <1>8, <1>12 DEF D

\* The addresses of a list are those that were spelled, with what is wrong of them.
Echoes(list, spelled) == \A a \in ToSet(list) : \E m \in spelled : m.box = a.box /\ m.flaw = a.flaw

LEMMA FlattenedReadBack ==
    ASSUME NEW list \in Seq(Mailboxes), \A m \in ToSet(list) : m.size <= AddressMax,
           \A m \in ToSet(list) : m.box = "inbox" => m.flaw = "none",
           NEW flat, flat = FlattenAddresses(list), NEW those, those = Addressed(list)
    PROVE  /\ flat \in Seq(ReadEntries) /\ Boxes(flat) = Boxes(FirstOf(those, AddressListMax))
           /\ flat = <<>> <=> those = <<>>
           /\ flat # <<>> => flat[1].box = those[1].box /\ flat[1].flaw = those[1].flaw /\ flat[1] \in ReadEntries
           /\ Echoes(flat, ToSet(FirstOf(those, AddressListMax)))
<1> DEFINE places == {i \in DOMAIN list : list[i].box # "none"}
           n == AtMost(Len(those), AddressListMax)
<1>1. those = At(list, places) /\ places \in SUBSET DOMAIN list
  BY DEF Addressed, Those
<1>2. flat = [i \in 1 .. n |-> ReadsBack(FormatAddr(those[i]))]
  BY DEF FlattenAddresses, Addressed
<1> HIDE DEF places
<1>3. those \in Seq(Mailboxes) /\ ToSet(those) = {list[i] : i \in places}
  BY <1>1, AtPlaces
<1>4. Len(those) \in Nat /\ DOMAIN those = 1 .. Len(those) /\ (those = <<>> <=> Len(those) = 0)
  BY <1>3
<1>5. n \in 0 .. Len(those) /\ (n = 0 <=> Len(those) = 0)
  BY <1>4, ParseLimitsAssumption DEF AtMost
<1> HIDE DEF n
<1>6. ASSUME NEW i \in 1 .. n
      PROVE  /\ those[i] \in Mailboxes /\ ReadsBack(FormatAddr(those[i])) \in ReadEntries
             /\ ReadsBack(FormatAddr(those[i])).box = those[i].box
             /\ ReadsBack(FormatAddr(those[i])).flaw = those[i].flaw
  <2>1. i \in DOMAIN those
    BY <1>4, <1>5
  <2>2. those[i] \in Mailboxes /\ those[i] \in ToSet(those)
    BY <1>3, <2>1 DEF ToSet
  <2>3. those[i].size <= AddressMax /\ (those[i].box = "inbox" => those[i].flaw = "none")
    BY <1>1, <1>3, <2>2 DEF ToSet
  <2>4. PICK named \in BOOLEAN :
           ReadsBack(FormatAddr(those[i])) = [box |-> those[i].box, named |-> named, caps |-> FALSE, flaw |-> those[i].flaw]
    BY <2>2, <2>3, ReadsBackTheSame
  <2>5. those[i].box \in STRING /\ those[i].flaw \in AddressFlaws
    BY <2>2 DEF Mailboxes
  <2> QED BY <2>2, <2>3, <2>4, <2>5 DEF ReadEntries, Participants
<1>7. flat \in Seq(ReadEntries) /\ DOMAIN flat = 1 .. n /\ Len(flat) = n
      /\ \A i \in 1 .. n : flat[i].box = those[i].box /\ flat[i].flaw = those[i].flaw
  <2>1. flat \in [1 .. n -> ReadEntries]
    BY <1>2, <1>6
  <2>2. n \in Nat
    BY <1>4, <1>5
  <2> QED BY <1>2, <1>6, <2>1, <2>2
<1>8. Boxes(flat) = {those[i].box : i \in 1 .. n}
  <2>1. ToSet(flat) = {flat[i] : i \in 1 .. n}
    BY <1>7 DEF ToSet
  <2>2. Boxes(flat) = {flat[i].box : i \in 1 .. n}
    BY <2>1 DEF Boxes
  <2> QED BY <1>7, <2>2
<1>9. ToSet(FirstOf(those, AddressListMax)) = {those[i] : i \in 1 .. n}
  <2> DEFINE first == SubSeq(those, 1, n)
  <2>1. first \in Seq(Mailboxes) /\ Len(first) = n /\ \A i \in 1 .. n : first[i] = those[i]
    BY <1>3, <1>5, PrefixOf
  <2>2. FirstOf(those, AddressListMax) = first
    BY DEF FirstOf, n
  <2> HIDE DEF first
  <2>3. DOMAIN first = 1 .. n
    BY <2>1
  <2>4. ToSet(first) = {those[i] : i \in 1 .. n}
    BY <2>1, <2>3 DEF ToSet
  <2> QED BY <2>2, <2>4
<1>10. flat = <<>> <=> those = <<>>
  BY <1>4, <1>5, <1>7
<1>11. flat # <<>> => 1 \in 1 .. n
  BY <1>4, <1>5, <1>7
<1>12. flat # <<>> => flat[1].box = those[1].box /\ flat[1].flaw = those[1].flaw /\ flat[1] \in ReadEntries
  BY <1>7, <1>11
<1>13. Boxes(FirstOf(those, AddressListMax)) = {those[i].box : i \in 1 .. n}
  BY <1>9 DEF Boxes
<1>14. Echoes(flat, ToSet(FirstOf(those, AddressListMax)))
  <2>1. ToSet(flat) = {flat[i] : i \in 1 .. n}
    BY <1>7 DEF ToSet
  <2> QED BY <1>7, <1>9, <2>1 DEF Echoes
<1> QED BY <1>7, <1>8, <1>10, <1>12, <1>13, <1>14

\* What a received mail said, as it was written, is what the stored message says.
Wrote(raw, field) == Boxes(FirstOf(Addressed(raw[field]), AddressListMax))
WroteIt(raw) == IF Addressed(raw.from) = <<>> THEN "none" ELSE Addressed(raw.from)[1].box
Fits(raw) ==
    \A field \in {"from", "to", "cc", "bcc", "reply_to"} : \A m \in ToSet(raw[field]) : m.size <= AddressMax

EchoesAll(o, raw) ==
    /\ Echoes(o.to, ToSet(FirstOf(Addressed(raw.to), AddressListMax)))
    /\ Echoes(o.cc, ToSet(FirstOf(Addressed(raw.cc), AddressListMax)))
    /\ Echoes(o.bcc, ToSet(FirstOf(Addressed(raw.bcc), AddressListMax)))
    /\ Echoes(o.reply_to, ToSet(FirstOf(Addressed(raw.reply_to), AddressListMax)))

LEMMA ReceivedSays ==
    ASSUME NEW raw, IsMail(raw), Fits(raw), NEW o, o = ToMessage(raw)
    PROVE  /\ OriginalSays(o, ReadEntries, Wrote(raw, "to"), Wrote(raw, "cc"), Wrote(raw, "bcc"), WroteIt(raw))
           /\ o.reply_to \in Seq(ReadEntries) /\ Boxes(o.reply_to) = Wrote(raw, "reply_to")
           /\ EchoesAll(o, raw)
           /\ WroteIt(raw) # "none" => o.from.flaw = Addressed(raw.from)[1].flaw
<1> DEFINE flat(field) == FlattenAddresses(raw[field])
           those(field) == Addressed(raw[field])
<1>1. ASSUME NEW field \in {"from", "to", "cc", "bcc", "reply_to"}
      PROVE  /\ flat(field) \in Seq(ReadEntries) /\ Boxes(flat(field)) = Wrote(raw, field)
             /\ flat(field) = <<>> <=> those(field) = <<>>
             /\ flat(field) # <<>> => /\ flat(field)[1].box = those(field)[1].box /\ flat(field)[1] \in ReadEntries
                                     /\ flat(field)[1].flaw = those(field)[1].flaw
             /\ Echoes(flat(field), ToSet(FirstOf(those(field), AddressListMax)))
  <2> DEFINE list == raw[field]
  <2>1. list \in Seq(Mailboxes) /\ \A m \in ToSet(list) : m.size <= AddressMax /\ (m.box = "inbox" => m.flaw = "none")
    BY DEF IsMail, Fits
  <2> HIDE DEF list
  <2>2. /\ FlattenAddresses(list) \in Seq(ReadEntries)
        /\ Boxes(FlattenAddresses(list)) = Boxes(FirstOf(Addressed(list), AddressListMax))
        /\ FlattenAddresses(list) = <<>> <=> Addressed(list) = <<>>
        /\ FlattenAddresses(list) # <<>> =>
              /\ FlattenAddresses(list)[1].box = Addressed(list)[1].box /\ FlattenAddresses(list)[1] \in ReadEntries
              /\ FlattenAddresses(list)[1].flaw = Addressed(list)[1].flaw
        /\ Echoes(FlattenAddresses(list), ToSet(FirstOf(Addressed(list), AddressListMax)))
    BY <2>1, FlattenedReadBack
  <2> QED BY <2>2 DEF list, Wrote
<1>2. /\ o.to = flat("to") /\ o.cc = flat("cc") /\ o.bcc = flat("bcc") /\ o.reply_to = flat("reply_to")
      /\ o.from = IF flat("from") = <<>> THEN Unknown ELSE flat("from")[1]
  BY DEF ToMessage, ParseInbound
<1>4. WroteIt(raw) = IF those("from") = <<>> THEN "none" ELSE those("from")[1].box
  BY DEF WroteIt
<1>3. /\ those("to") = Addressed(raw.to) /\ those("cc") = Addressed(raw.cc) /\ those("bcc") = Addressed(raw.bcc)
      /\ those("reply_to") = Addressed(raw.reply_to) /\ those("from") = Addressed(raw.from)
  OBVIOUS
<1> HIDE DEF flat, those
<1>5. /\ o.to \in Seq(ReadEntries) /\ Boxes(o.to) = Wrote(raw, "to")
      /\ o.cc \in Seq(ReadEntries) /\ Boxes(o.cc) = Wrote(raw, "cc")
  BY <1>1, <1>2
<1>6. /\ o.bcc \in Seq(ReadEntries) /\ Boxes(o.bcc) = Wrote(raw, "bcc")
      /\ o.reply_to \in Seq(ReadEntries) /\ Boxes(o.reply_to) = Wrote(raw, "reply_to")
  BY <1>1, <1>2
<1>7. o.from.box = WroteIt(raw) /\ (o.from \in ReadEntries \/ (o.from = Unknown /\ WroteIt(raw) = "none"))
  <2>1. CASE flat("from") = <<>>
    <3>1. o.from = Unknown /\ WroteIt(raw) = "none"
      BY <1>1, <1>2, <1>4, <2>1
    <3> QED BY <3>1 DEF Unknown
  <2>2. CASE flat("from") # <<>>
    BY <1>1, <1>2, <1>4, <2>2
  <2> QED BY <2>1, <2>2
<1>8. EchoesAll(o, raw)
  BY <1>1, <1>2, <1>3 DEF EchoesAll
<1>9. WroteIt(raw) # "none" => o.from.flaw = Addressed(raw.from)[1].flaw
  BY <1>1, <1>2, <1>3, <1>4
<1> QED BY <1>5, <1>6, <1>7, <1>8, <1>9, PeopleAreStored DEF OriginalSays

LEMMA SentSays ==
    ASSUME NEW o, IsSent(o)
    PROVE  /\ OriginalSays(o, SentTo, Boxes(o.to), Boxes(o.cc), Boxes(o.bcc), o.from.box)
           /\ o.reply_to \in Seq(SentTo)
<1>1. o.to \in Seq(SentTo) /\ o.cc \in Seq(SentTo) /\ o.bcc \in Seq(SentTo) /\ o.reply_to \in Seq(SentTo) /\ o.from \in SentTo
  BY DEF IsSent
<1> QED BY <1>1, PeopleAreStored DEF OriginalSays

\* What is read of a document is its parts, or nothing.
LEMMA ReadOrEmpty ==
    ASSUME NEW o, NEW content \in {NoContent, ContentOf(o)}
    PROVE  content.reply_to \in {<<>>, o.reply_to} /\ content.references \in {<<>>, o.references}
BY DEF NoContent, ContentOf

LEMMA ReferencesFit ==
    ASSUME NEW V, NEW refs \in Seq(V), NEW o
    PROVE  Len(ThreadingReferences(o, refs)) \in 1 .. ReferencesMax
<1> DEFINE U == V \cup {o.id}
           chain == IF Contains(refs, o.id) THEN refs ELSE Append(refs, o.id)
           n == Len(chain)
<1>1. chain \in Seq(U) /\ n \in Nat /\ n > 0
  <2>1. refs \in Seq(U) /\ o.id \in U
    OBVIOUS
  <2> HIDE DEF U
  <2>2. CASE Contains(refs, o.id)
    <3>1. Len(refs) \in Nat /\ Len(refs) > 0
      BY <2>1, <2>2 DEF Contains
    <3> QED BY <2>1, <2>2, <3>1
  <2>3. CASE ~Contains(refs, o.id)
    <3>1. Append(refs, o.id) \in Seq(U) /\ Len(Append(refs, o.id)) = Len(refs) + 1 /\ Len(refs) \in Nat
      BY <2>1
    <3> QED BY <2>3, <3>1
  <2> QED BY <2>2, <2>3
<1>2. ThreadingReferences(o, refs) = IF n <= ReferencesMax THEN chain
                                     ELSE <<chain[1]>> \o SubSeq(chain, n - ReferencesMax + 2, n)
  BY DEF ThreadingReferences
<1>3. ReferencesMax \in Nat /\ ReferencesMax > 1
  BY RequestLimitsAssumption
<1> HIDE DEF U, chain, n
<1>4. CASE n <= ReferencesMax
  BY <1>1, <1>2, <1>3, <1>4 DEF n
<1>5. CASE ~(n <= ReferencesMax)
  <2> DEFINE from == n - ReferencesMax + 2
             rest == SubSeq(chain, from, n)
  <2>1. from \in 1 .. n /\ n - from + 1 = ReferencesMax - 1
    BY <1>1, <1>3, <1>5
  <2>2. \A i \in from .. n : chain[i] \in U
    BY <1>1, <2>1 DEF n
  <2>3. rest \in Seq(U) /\ Len(rest) = ReferencesMax - 1
    <3> HIDE DEF from
    <3>1. from \in Int /\ n \in Int /\ from <= n
      BY <1>1, <2>1
    <3>2. rest \in Seq(U) /\ Len(rest) = IF from <= n THEN n - from + 1 ELSE 0
      BY <2>2, <3>1, SubSeqProperties
    <3> QED BY <2>1, <3>1, <3>2
  <2>4. chain[1] \in U
    BY <1>1 DEF n
  <2>5. ThreadingReferences(o, refs) = <<chain[1]>> \o rest
    BY <1>2, <1>5
  <2> HIDE DEF rest, from
  <2>6. Len(<<chain[1]>> \o rest) = 1 + (ReferencesMax - 1)
    <3>1. <<chain[1]>> \in Seq(U) /\ Len(<<chain[1]>>) = 1
      BY <2>4
    <3>2. Len(<<chain[1]>> \o rest) = Len(<<chain[1]>>) + Len(rest)
      BY <2>3, <3>1, ConcatProperties
    <3> QED BY <2>3, <3>1, <3>2
  <2> QED BY <1>3, <2>5, <2>6
<1> QED BY <1>4, <1>5

LEMMA NearestIsAList ==
    ASSUME NEW raw, IsMail(raw)
    PROVE  \E V : ToMessage(raw).references \in Seq(V)
<1> DEFINE refs == raw.references
           n == Len(refs)
           V == {Cut[refs[i]] : i \in 1 .. n}
           ids == IdList(refs)
<1>1. refs \in Seq(STRING)
  BY DEF IsMail
<1> HIDE DEF refs
<1>2. n \in Nat /\ DOMAIN refs = 1 .. n
  BY <1>1
<1> HIDE DEF n
<1>3. ids = [i \in 1 .. n |-> Cut[refs[i]]]
  BY <1>2 DEF IdList, WrapId, TruncateBytes
<1> HIDE DEF ids
<1>4. ids \in [1 .. n -> V]
  BY <1>3
<1> HIDE DEF V
<1>5. ids \in Seq(V) /\ Len(ids) = n
  BY <1>2, <1>4
<1>6. ToMessage(raw).references = Nearest(ids)
  BY DEF ToMessage, ParseInbound, ids, refs
<1>7. CASE n > ReferencesMax
  <2> DEFINE from == n - ReferencesMax + 1
  <2>1. ReferencesMax \in Nat /\ ReferencesMax > 1
    BY RequestLimitsAssumption
  <2>2. from \in Int /\ \A i \in from .. n : ids[i] \in V
    BY <1>2, <1>5, <1>7, <2>1
  <2>3. Nearest(ids) = SubSeq(ids, from, n)
    BY <1>5, <1>7 DEF Nearest
  <2> HIDE DEF from
  <2>4. SubSeq(ids, from, n) \in Seq(V)
    BY <1>2, <2>2, SubSeqProperties
  <2> QED BY <1>6, <2>3, <2>4
<1>8. CASE ~(n > ReferencesMax)
  BY <1>5, <1>6, <1>8 DEF Nearest
<1> QED BY <1>7, <1>8

\* A reply that names nobody asks for what is derived, and for nothing else that
\* the caller did not ask for.
Unnamed(ask) == ~(ask.to.given \/ ask.cc.given \/ ask.bcc.given)
AsksFor(ask, asked, to, cc, bcc, subject) ==
    /\ asked.to.list = to /\ asked.cc.list = cc /\ asked.bcc.list = bcc /\ asked.subject = subject
    /\ asked.reply_to = ask.reply_to /\ asked.bodies = ask.bodies /\ asked.labels = ask.labels
    /\ asked.headers = ask.headers /\ asked.attachments = ask.attachments

LEMMA DerivedAsk ==
    ASSUME NEW ask, IsRequest(ask), Unnamed(ask), NEW o, NEW content, NEW direct, direct = DirectOf(o, content.reply_to)
    PROVE  AsksFor(ask, ReplyRequest(ask, o, content),
                   IF direct.bcc # <<>> THEN <<>> ELSE direct.to,
                   IF direct.bcc = <<>> /\ ask.all THEN ReplyAllRecipients(o, direct.to) ELSE <<>>,
                   direct.bcc, IF ask.subject = "absent" THEN ReplySubject(o.subject) ELSE ask.subject)
<1>1. ask = [to |-> ask.to, cc |-> ask.cc, bcc |-> ask.bcc, reply_to |-> ask.reply_to, subject |-> ask.subject,
             bodies |-> ask.bodies, all |-> ask.all, labels |-> ask.labels, headers |-> ask.headers,
             attachments |-> ask.attachments]
  BY DEF IsRequest
<1>2. ask.to.list = <<>> /\ ask.cc.list = <<>> /\ ask.bcc.list = <<>>
  BY DEF IsRequest, IsOptional, Unnamed
<1> DEFINE subject == IF ask.subject = "absent" THEN ReplySubject(o.subject) ELSE ask.subject
           everybody == ReplyAllRecipients(o, direct.to)
           addressed == AddressReply(ask, o, content.reply_to)
<1>3. \A l : Gave(l).list = l
  BY DEF Gave
<1>4. addressed = IF direct.bcc # <<>> THEN [ask EXCEPT !.bcc = Gave(direct.bcc)]
                  ELSE [ask EXCEPT !.to = Gave(direct.to), !.cc = IF ask.all THEN Gave(everybody) ELSE ask.cc]
  <2> HIDE DEF everybody
  <2>1. \A to, cc : [ask EXCEPT !.to = to, !.cc = IF ask.all THEN cc ELSE @]
                      = [ask EXCEPT !.to = to, !.cc = IF ask.all THEN cc ELSE ask.cc]
    BY <1>1
  <2>2. addressed = IF direct.bcc # <<>> THEN [ask EXCEPT !.bcc = Gave(direct.bcc)]
                    ELSE [ask EXCEPT !.to = Gave(direct.to), !.cc = IF ask.all THEN Gave(everybody) ELSE @]
    BY DEF AddressReply, everybody
  <2> QED BY <2>1, <2>2
<1> HIDE DEF addressed, everybody
<1>5. ASSUME NEW to, NEW cc, NEW bcc, NEW given,
             \/ given = [ask EXCEPT !.bcc = bcc] /\ to = ask.to /\ cc = ask.cc
             \/ given = [ask EXCEPT !.to = to, !.cc = cc] /\ bcc = ask.bcc
      PROVE  AsksFor(ask, [given EXCEPT !.subject = subject], to.list, cc.list, bcc.list, subject)
  <2> HIDE DEF subject
  <2>1. given = [ask EXCEPT !.to = to, !.cc = cc, !.bcc = bcc]
    BY <1>1, <1>5
  <2> QED BY <1>1, <2>1 DEF AsksFor
<1>6. ReplyRequest(ask, o, content) = [addressed EXCEPT !.subject = subject]
  <2>1. addressed.subject = ask.subject
    BY <1>1, <1>4
  <2>2. ReplyRequest(ask, o, content) = [addressed EXCEPT !.subject = IF @ = "absent" THEN ReplySubject(o.subject) ELSE @]
    BY DEF ReplyRequest, Unnamed, addressed
  <2>3. \A v : [addressed EXCEPT !.subject = IF @ = "absent" THEN v ELSE @]
                 = [addressed EXCEPT !.subject = IF addressed.subject = "absent" THEN v ELSE addressed.subject]
    BY <1>1, <1>4
  <2> QED BY <2>1, <2>2, <2>3
<1> HIDE DEF subject
<1>7. CASE direct.bcc # <<>>
  <2> DEFINE bcc == Gave(direct.bcc)
  <2>1. addressed = [ask EXCEPT !.bcc = bcc] /\ bcc.list = direct.bcc
    BY <1>3, <1>4, <1>7
  <2> HIDE DEF bcc
  <2>2. AsksFor(ask, [addressed EXCEPT !.subject = subject], ask.to.list, ask.cc.list, bcc.list, subject)
    BY <1>5, <2>1
  <2>3. AsksFor(ask, [addressed EXCEPT !.subject = subject], <<>>, <<>>, direct.bcc, subject)
    BY <1>2, <2>1, <2>2
  <2> QED BY <1>6, <1>7, <2>3 DEF subject
<1>8. CASE direct.bcc = <<>>
  <2> DEFINE cc == IF ask.all THEN Gave(everybody) ELSE ask.cc
  <2>1. cc.list = IF ask.all THEN everybody ELSE <<>>
    BY <1>2, <1>3
  <2>2. addressed = [ask EXCEPT !.to = Gave(direct.to), !.cc = cc]
    BY <1>4, <1>8
  <2> HIDE DEF cc
  <2>3. AsksFor(ask, [addressed EXCEPT !.subject = subject], direct.to, cc.list, direct.bcc, subject)
    BY <1>2, <1>3, <1>5, <1>8, <2>2
  <2> QED BY <1>6, <1>8, <2>1, <2>3 DEF subject, everybody
<1> QED BY <1>7, <1>8

\* Whom an accepted reply that named nobody goes to.
Reaches(v, to, cc, bcc, author, asked, all) ==
    /\ Boxes(v.to) = IF author = "inbox" THEN OwnTo(to, cc, bcc) ELSE Answered(asked, author)
    /\ Boxes(v.bcc) = IF author = "inbox" THEN OwnBcc(to, cc, bcc) ELSE {}
    /\ Boxes(v.cc) = IF all THEN (to \cup cc) \ ({"inbox"} \cup Boxes(v.to)) ELSE {}
    /\ v.to \in Seq(Flawless) /\ v.cc \in Seq(Flawless) /\ (~all => v.cc = <<>>)

LEMMA ReplyGoesTo ==
    ASSUME NEW ask, IsRequest(ask), Unnamed(ask),
           NEW o, NEW E, NEW to, NEW cc, NEW bcc, NEW author, OriginalSays(o, E, to, cc, bcc, author),
           NEW content, content.reply_to \in Seq(E), NEW asked, asked = ReplyRequest(ask, o, content),
           AddressErrors("to", asked.to.list) = {}, AddressErrors("cc", asked.cc.list) = {},
           AddressErrors("bcc", asked.bcc.list) = {}
    PROVE  Reaches(Validated(asked), to, cc, bcc, author, Boxes(content.reply_to), ask.all)
<1> DEFINE direct == DirectOf(o, content.reply_to)
           everybody == ReplyAllRecipients(o, direct.to)
           v == Validated(asked)
           replyTo == Boxes(content.reply_to)
<1>1. /\ asked.to.list = IF direct.bcc # <<>> THEN <<>> ELSE direct.to
      /\ asked.cc.list = IF direct.bcc = <<>> /\ ask.all THEN everybody ELSE <<>>
      /\ asked.bcc.list = direct.bcc
  BY DerivedAsk DEF AsksFor
<1>2. v.to = Addresses(asked.to.list) /\ v.cc = Addresses(asked.cc.list) /\ v.bcc = Addresses(asked.bcc.list)
  BY DEF Validated
<1> DEFINE these == content.reply_to
<1>0. direct = DirectOf(o, these) /\ these \in Seq(E) /\ replyTo = Boxes(these)
  OBVIOUS
<1> HIDE DEF direct, these, v, everybody, replyTo
<1>3. direct.to \in Seq(E) /\ direct.bcc \in Seq(E) /\ (direct.bcc # <<>> => direct.to = <<>>)
  <2>1. CASE author = "inbox"
    <3>1. OriginalSays(o, E, to, cc, bcc, "inbox")
      BY <2>1
    <3> QED BY <1>0, <3>1, DirectOfOwnMessage
  <2>2. CASE author # "inbox"
    <3>1. direct.bcc = <<>> /\ (direct.to \in Seq(E) \/ direct.to = <<o.from>>)
      BY <1>0, <2>2, DirectOfAnother
    <3>2. CASE direct.to = <<o.from>>
      <4>1. asked.to.list = <<o.from>>
        BY <1>1, <3>1, <3>2
      <4>2. o.from \in ToSet(<<o.from>>)
        BY DEF ToSet
      <4>3. HasEnvelope(o.from)
        BY <4>1, <4>2 DEF AddressErrors
      <4>4. o.from \in E
        BY <4>3 DEF OriginalSays, HasEnvelope, Unknown
      <4> QED BY <3>1, <3>2, <4>4
    <3> QED BY <3>1, <3>2
  <2> QED BY <2>1, <2>2
<1>4. /\ Boxes(direct.to) = IF author = "inbox" THEN OwnTo(to, cc, bcc) ELSE Answered(replyTo, author)
      /\ Boxes(direct.bcc) = IF author = "inbox" THEN OwnBcc(to, cc, bcc) ELSE {}
  <2>1. CASE author = "inbox"
    <3>1. OriginalSays(o, E, to, cc, bcc, "inbox")
      BY <2>1
    <3>2. Boxes(direct.to) = OwnTo(to, cc, bcc) /\ Boxes(direct.bcc) = OwnBcc(to, cc, bcc)
      BY <1>0, <3>1, DirectOfOwnMessage
    <3> QED BY <2>1, <3>2
  <2>2. CASE author # "inbox"
    <3>2. direct.bcc = <<>>
          /\ Boxes(direct.to) = Answered(replyTo, author)
      BY <1>0, <2>2, DirectOfAnother
    <3>3. Boxes(<<>>) = {}
      BY OneBox
    <3> QED BY <2>2, <3>2, <3>3
  <2> QED BY <2>1, <2>2
<1>5. /\ everybody \in Seq(E)
      /\ direct.to \in Seq(Flawless) /\ everybody \in Seq(Flawless) =>
            Boxes(everybody) = (to \cup cc) \ ({"inbox"} \cup Boxes(direct.to))
  BY <1>3, ReplyAllAdds DEF everybody
<1>6. E \subseteq Participants /\ Boxes(<<>>) = {} /\ <<>> \in Seq(Flawless)
  <2>1. E \subseteq Participants
    BY DEF OriginalSays
  <2>2. Boxes(<<>>) = {}
    BY OneBox
  <2> QED BY <2>1, <2>2
<1>7. v.to \in Seq(Flawless) /\ Boxes(v.to) = Boxes(direct.to) /\ direct.to \in Seq(Flawless)
  <2>1. asked.to.list = direct.to
    BY <1>1, <1>3
  <2>2. direct.to \in Seq(Flawless)
    BY <1>3, <1>6, <2>1, PassedAreFlawless
  <2> QED BY <1>2, <2>1, <2>2, AddressesKeepBoxes
<1>8. Boxes(v.bcc) = Boxes(direct.bcc)
  <2>1. direct.bcc \in Seq(Flawless)
    BY <1>1, <1>3, <1>6, PassedAreFlawless
  <2> QED BY <1>1, <1>2, <2>1, AddressesKeepBoxes
<1>9. CASE direct.bcc = <<>> /\ ask.all
  <2>1. asked.cc.list = everybody
    BY <1>1, <1>9
  <2>2. everybody \in Seq(Flawless)
    <3>1. AddressErrors("cc", everybody) = {}
      BY <2>1
    <3>2. everybody \in Seq(E)
      BY <1>5
    <3> QED BY <1>6, <3>1, <3>2, PassedAreFlawless
  <2>3. v.cc \in Seq(Flawless) /\ Boxes(v.cc) = Boxes(everybody)
    BY <1>2, <2>1, <2>2, AddressesKeepBoxes
  <2>4. Boxes(v.cc) = (to \cup cc) \ ({"inbox"} \cup Boxes(v.to))
    <3>1. Boxes(everybody) = (to \cup cc) \ ({"inbox"} \cup Boxes(direct.to))
      BY <1>5, <1>7, <2>2
    <3> QED BY <1>7, <2>3, <3>1
  <2> QED BY <1>4, <1>7, <1>8, <1>9, <2>3, <2>4 DEF Reaches, v, replyTo
<1>10. CASE ~(direct.bcc = <<>> /\ ask.all)
  <2>1. v.cc = Addresses(<<>>)
    BY <1>1, <1>2, <1>10
  <2>2. v.cc \in Seq(Flawless) /\ Boxes(v.cc) = {}
    BY <1>6, <2>1, AddressesKeepBoxes
  <2>3. v.cc = <<>>
    BY <2>2, ListedBoxes
  <2>4. ASSUME direct.bcc # <<>> PROVE to \cup cc \subseteq {"inbox"}
    <3>1. Boxes(direct.bcc) # {}
      BY <1>3, <2>4, ListedBoxes
    <3> QED BY <1>4, <3>1 DEF OwnBcc
  <2>5. ask.all => Boxes(v.cc) = (to \cup cc) \ ({"inbox"} \cup Boxes(v.to))
    BY <1>10, <2>2, <2>4
  <2>6. Boxes(v.cc) = IF ask.all THEN (to \cup cc) \ ({"inbox"} \cup Boxes(v.to)) ELSE {}
    BY <2>2, <2>5
  <2> QED BY <1>4, <1>7, <1>8, <2>2, <2>3, <2>6 DEF Reaches, v, replyTo
<1> QED BY <1>9, <1>10

Shown(v) == Boxes(v.to) \cup Boxes(v.cc)
Asking(author, said) == IF author = "inbox" THEN {"inbox"} ELSE said \cup {author}
IsRight(v, to, cc, bcc, author, all, shown, people) ==
    /\ shown \cup Boxes(v.bcc) # {}
    /\ Boxes(v.to) \cap Boxes(v.cc) = {}
    /\ "inbox" \in shown => to \cup cc \cup bcc \cup people \subseteq {"inbox"}
    /\ shown \cap bcc \subseteq to \cup cc \cup people
    /\ author # "inbox" => Boxes(v.to) \subseteq people
    /\ all => (to \cup cc) \ {"inbox"} \subseteq shown
    /\ ~all => v.cc = <<>>

LEMMA ReachedRightly ==
    ASSUME NEW v, NEW to, NEW cc, NEW bcc, NEW author, NEW said, NEW asked, asked = {} \/ asked = said, NEW all \in BOOLEAN,
           Reaches(v, to, cc, bcc, author, asked, all),
           NEW shown, shown = Shown(v), NEW people, people = Asking(author, said)
    PROVE  IsRight(v, to, cc, bcc, author, all, shown, people)
<1> DEFINE T == Boxes(v.to)
           C == Boxes(v.cc)
           B == Boxes(v.bcc)
<1>1. /\ T = IF author # "inbox" THEN (IF asked \ {"inbox"} # {} THEN asked \ {"inbox"} ELSE {author})
             ELSE IF to \ {"inbox"} # {} THEN to \ {"inbox"} ELSE IF cc \ {"inbox"} # {} THEN cc \ {"inbox"}
             ELSE IF bcc \ {"inbox"} # {} THEN {} ELSE {"inbox"}
      /\ B = IF author = "inbox" /\ to \cup cc \subseteq {"inbox"} THEN bcc \ {"inbox"} ELSE {}
      /\ C = IF all THEN (to \cup cc) \ ({"inbox"} \cup T) ELSE {}
      /\ ~all => v.cc = <<>>
  BY DEF Reaches, OwnTo, OwnBcc, Answered
<1>2. shown = T \cup C /\ people = IF author = "inbox" THEN {"inbox"} ELSE said \cup {author}
  BY DEF Shown, Asking
<1> HIDE DEF T, C, B
<1>3. shown \cup B # {} /\ ("inbox" \in shown => to \cup cc \cup bcc \cup people \subseteq {"inbox"})
  <2>1. CASE author # "inbox"
    BY <1>1, <1>2, <2>1
  <2>2. CASE author = "inbox"
    <3>1. CASE to \ {"inbox"} # {}
      BY <1>1, <1>2, <2>2, <3>1
    <3>2. CASE to \ {"inbox"} = {} /\ cc \ {"inbox"} # {}
      BY <1>1, <1>2, <2>2, <3>2
    <3>3. CASE to \ {"inbox"} = {} /\ cc \ {"inbox"} = {}
      BY <1>1, <1>2, <2>2, <3>3
    <3> QED BY <3>1, <3>2, <3>3
  <2> QED BY <2>1, <2>2
<1>4. T \cap C = {} /\ (all => (to \cup cc) \ {"inbox"} \subseteq shown)
  BY <1>1, <1>2
<1>5. shown \cap bcc \subseteq to \cup cc \cup people
  <2>1. C \subseteq to \cup cc
    BY <1>1
  <2>2. T \subseteq to \cup cc \cup people
    BY <1>1, <1>2
  <2> QED BY <1>2, <2>1, <2>2
<1>6. author # "inbox" => T \subseteq people
  BY <1>1, <1>2
<1>7. ~all => v.cc = <<>>
  BY <1>1
<1> QED BY <1>3, <1>4, <1>5, <1>6, <1>7 DEF IsRight, T, C, B

\* What is stored of the message that is answered says what the message said.
LEMMA StoredAsSaid ==
    ASSUME AnswerInv, IsReply, AddressesFit, wants.original.id \notin {"awaited", "missing"}
    PROVE  \E E, V : /\ OriginalSays(wants.original, E, Said("to"), Said("cc"), Said("bcc"), Author)
                     /\ wants.original.reply_to \in Seq(E) /\ Boxes(wants.original.reply_to) = Said("reply_to")
                     /\ wants.original.references \in Seq(V)
                     /\ IsReceived =>
                           /\ E = ReadEntries /\ EchoesAll(wants.original, wants.raw)
                           /\ Author # "none" => wants.original.from.flaw = Addressed(wants.raw.from)[1].flaw
<1> DEFINE o == wants.original
           raw == wants.raw
<1>1. OriginalOK(wants)
  BY DEF AnswerInv
<1>2. CASE ~IsReceived
  <2>1. IsSent(o)
    BY <1>1, <1>2 DEF OriginalOK, IsReceived
  <2>2. /\ Said("to") = Boxes(o.to) /\ Said("cc") = Boxes(o.cc) /\ Said("bcc") = Boxes(o.bcc)
        /\ Said("reply_to") = Boxes(o.reply_to) /\ Author = o.from.box
    BY <1>2, <2>1 DEF Said, Author, IsSent
  <2>3. o.references \in Seq(STRING)
    BY <2>1 DEF IsSent
  <2> HIDE DEF o
  <2>4. OriginalSays(o, SentTo, Said("to"), Said("cc"), Said("bcc"), Author) /\ o.reply_to \in Seq(SentTo)
    BY <2>1, <2>2, SentSays
  <2> QED BY <1>2, <2>2, <2>3, <2>4 DEF o
<1>3. CASE IsReceived
  <2>1. IsMail(raw) /\ o = ToMessage(raw)
    BY <1>1, <1>3 DEF OriginalOK, IsReceived
  <2>2. Fits(raw)
    BY <1>3 DEF AddressesFit, Fits
  <2>3. /\ Said("to") = Wrote(raw, "to") /\ Said("cc") = Wrote(raw, "cc") /\ Said("bcc") = Wrote(raw, "bcc")
        /\ Said("reply_to") = Wrote(raw, "reply_to") /\ Author = WroteIt(raw)
    BY <1>3 DEF Said, Author, Wrote, WroteIt
  <2> HIDE DEF o, raw
  <2>4. /\ OriginalSays(o, ReadEntries, Said("to"), Said("cc"), Said("bcc"), Author)
        /\ o.reply_to \in Seq(ReadEntries) /\ Boxes(o.reply_to) = Said("reply_to")
        /\ EchoesAll(o, raw) /\ (Author # "none" => o.from.flaw = Addressed(raw.from)[1].flaw)
    BY <2>1, <2>2, <2>3, ReceivedSays
  <2>5. \E V : o.references \in Seq(V)
    BY <2>1, NearestIsAList
  <2> QED BY <2>4, <2>5 DEF o, raw
<1> QED BY <1>2, <1>3

LEMMA AcceptedReplyIsRight ==
    ASSUME AnswerInv, IsReply, spec # NoSpec, Unnamed(wants.ask), AddressesFit
    PROVE  /\ IsRight(spec, Said("to"), Said("cc"), Said("bcc"), Author, wants.ask.all,
                      Boxes(spec.to \o spec.cc), Asking(Author, Said("reply_to")))
           /\ spec.in_reply_to = wants.original.id
           /\ Len(spec.references) \in 1 .. ReferencesMax
<1> DEFINE shown == Boxes(spec.to \o spec.cc)
           asked == Asking(Author, Said("reply_to"))
<1> DEFINE o == wants.original
           ask == wants.ask
<1>1. reply = "200" /\ o.id \notin {"awaited", "missing"}
  BY DEF AnswerInv
<1>2. PICK content \in Contents(wants) : Accepts(wants, Asked(content), content, spec)
  BY <1>1 DEF AnswerInv
<1> DEFINE derived == ReplyRequest(ask, o, content)
           v == Validated(derived)
<1>3. IsRequest(ask) /\ ask.all \in BOOLEAN /\ Asked(content) = derived
  BY DEF AnswerInv, WantsOK, IsRequest, Asked
<1>4. ValidationErrors(derived) = {} /\ spec = BuildSpec(v, o.id, ThreadingReferences(o, content.references))
  BY <1>2, <1>3 DEF Accepts, IsReply
<1>5. content \in {NoContent, ContentOf(o)}
  BY DEF Contents
<1> HIDE DEF o, ask
<1>6. PICK E, V : /\ OriginalSays(o, E, Said("to"), Said("cc"), Said("bcc"), Author)
                  /\ o.reply_to \in Seq(E) /\ Boxes(o.reply_to) = Said("reply_to")
                  /\ o.references \in Seq(V)
  BY <1>1, StoredAsSaid DEF o
<1>7. content.reply_to \in {<<>>, o.reply_to} /\ content.references \in {<<>>, o.references}
  BY <1>5, ReadOrEmpty
<1>8. content.reply_to \in Seq(E) /\ Boxes(content.reply_to) \in {{}, Said("reply_to")}
  <2> DEFINE r == content.reply_to
  <2>1. r \in {<<>>, o.reply_to}
    BY <1>7
  <2>2. <<>> \in Seq(E)
    OBVIOUS
  <2>4. Boxes(<<>>) = {}
    BY OneBox
  <2> HIDE DEF r
  <2>3. r \in Seq(E) /\ Boxes(r) \in {{}, Said("reply_to")}
    BY <1>6, <2>1, <2>2, <2>4
  <2> QED BY <2>3 DEF r
<1>9. Len(ThreadingReferences(o, content.references)) \in 1 .. ReferencesMax
  <2> DEFINE refs == content.references
  <2>1. refs \in {<<>>, o.references} /\ <<>> \in Seq(V)
    BY <1>7
  <2> HIDE DEF refs
  <2>2. refs \in Seq(V)
    BY <1>6, <2>1
  <2>3. Len(ThreadingReferences(o, refs)) \in 1 .. ReferencesMax
    BY <2>2, ReferencesFit
  <2> QED BY <2>3 DEF refs
<1>10. /\ AddressErrors("to", derived.to.list) = {} /\ AddressErrors("cc", derived.cc.list) = {}
       /\ AddressErrors("bcc", derived.bcc.list) = {}
  BY <1>4 DEF ValidationErrors
<1>11. /\ spec.to = v.to /\ spec.cc = v.cc /\ spec.bcc = v.bcc /\ spec.in_reply_to = o.id
       /\ spec.references = ThreadingReferences(o, content.references)
  BY <1>4 DEF BuildSpec
<1> HIDE DEF derived
<1>12. Reaches(v, Said("to"), Said("cc"), Said("bcc"), Author, Boxes(content.reply_to), ask.all)
  <2> DEFINE to == Said("to")
             cc == Said("cc")
             bcc == Said("bcc")
             author == Author
  <2>1. OriginalSays(o, E, to, cc, bcc, author)
    BY <1>6
  <2> HIDE DEF to, cc, bcc, author
  <2>2. derived = ReplyRequest(ask, o, content) /\ Unnamed(ask)
    BY DEF derived, ask
  <2>3. Reaches(Validated(derived), to, cc, bcc, author, Boxes(content.reply_to), ask.all)
    BY <1>3, <1>8, <1>10, <2>1, <2>2, ReplyGoesTo
  <2> QED BY <2>3 DEF to, cc, bcc, author
<1> HIDE DEF v
<1>13. v.to \in Seq(Flawless) /\ v.cc \in Seq(Flawless)
  BY <1>12 DEF Reaches
<1>14. shown = Shown(v)
  <2>1. ToSet(v.to \o v.cc) = ToSet(v.to) \cup ToSet(v.cc)
    BY <1>13, ToSetJoins
  <2>2. shown = Boxes(v.to \o v.cc)
    BY <1>11
  <2> QED BY <2>1, <2>2 DEF Boxes, Shown
<1>15. IsRight(v, Said("to"), Said("cc"), Said("bcc"), Author, ask.all, shown, asked)
  <2> DEFINE to == Said("to")
             cc == Said("cc")
             bcc == Said("bcc")
             said == Said("reply_to")
             those == Boxes(content.reply_to)
             author == Author
             all == ask.all
  <2>1. (those = {} \/ those = said) /\ all \in BOOLEAN /\ Reaches(v, to, cc, bcc, author, those, all)
    BY <1>3, <1>8, <1>12
  <2>2. asked = Asking(author, said)
    OBVIOUS
  <2> HIDE DEF to, cc, bcc, said, those, author, all, shown, asked
  <2>3. IsRight(v, to, cc, bcc, author, all, shown, asked)
    BY <1>14, <2>1, <2>2, ReachedRightly
  <2> QED BY <2>3 DEF to, cc, bcc, author, all
<1>16. IsRight(spec, Said("to"), Said("cc"), Said("bcc"), Author, ask.all, shown, asked)
  <2> HIDE DEF shown, asked
  <2> QED BY <1>11, <1>15 DEF IsRight
<1> HIDE DEF shown, asked
<1> QED BY <1>9, <1>11, <1>16 DEF o, ask, shown, asked

\* As many recipients as a send may have.
Sendable(S) == IsFiniteSet(S) /\ Cardinality(S) <= RecipientsMax

LEMMA SendableSets ==
    ASSUME NEW S
    PROVE  /\ \A T : Sendable(T) /\ S \subseteq T => Sendable(S)
           /\ Sendable({S}) /\ Sendable({})
<1>1. RecipientsMax \in Nat /\ RecipientsMax > 0
  BY RequestLimitsAssumption
<1>2. ASSUME NEW T, Sendable(T), S \subseteq T PROVE Sendable(S)
  <2>1. IsFiniteSet(T) /\ Cardinality(T) <= RecipientsMax
    BY <1>2 DEF Sendable
  <2>2. IsFiniteSet(S) /\ Cardinality(S) <= Cardinality(T) /\ Cardinality(T) \in Nat /\ Cardinality(S) \in Nat
    BY <1>2, <2>1, FS_Subset, FS_CardinalityType
  <2> QED BY <1>1, <2>1, <2>2 DEF Sendable
<1>3. Sendable({S})
  <2>1. IsFiniteSet({S}) /\ Cardinality({S}) = 1
    BY FS_Singleton
  <2> QED BY <1>1, <2>1 DEF Sendable
<1>4. Sendable({})
  <2>1. IsFiniteSet({}) /\ Cardinality({}) = 0
    BY FS_EmptySet
  <2> QED BY <1>1, <2>1 DEF Sendable
<1> QED BY <1>2, <1>3, <1>4

LEMMA AddressesAreAsMany ==
    ASSUME NEW list \in Seq(FineEntries), Sendable(Boxes(list))
    PROVE  /\ Len(Addresses(list)) \in 0 .. RecipientsMax /\ (Boxes(list) # {} => Len(Addresses(list)) > 0)
           /\ (Boxes(list) = {} => Len(Addresses(list)) = 0)
<1>1. FineEntries \subseteq Flawless /\ FineEntries \subseteq FineEntries
  BY SentAreFlawless
<1> DEFINE E == FineEntries
           L == Addresses(list)
<1>2. L \in Seq(Flawless) /\ Boxes(L) = Boxes(list) /\ Len(L) <= Cardinality(Boxes(list))
  <2>1. E \subseteq Flawless /\ E \subseteq FineEntries /\ list \in Seq(E)
    BY <1>1
  <2> HIDE DEF E
  <2> QED BY <2>1, AddressesKeepBoxes
<1> HIDE DEF L
<1>3. Cardinality(Boxes(list)) \in Nat
  BY ListedBoxes
<1>4. Cardinality(Boxes(list)) <= RecipientsMax /\ RecipientsMax \in Nat
  BY RequestLimitsAssumption DEF Sendable
<1>5. Boxes(L) = {} <=> L = <<>>
  BY <1>2, ListedBoxes
<1>6. Len(L) \in Nat /\ (L = <<>> <=> Len(L) = 0)
  BY <1>2
<1> HIDE DEF E
<1> QED BY <1>2, <1>3, <1>4, <1>5, <1>6 DEF L

LEMMA RecipientsAreAsMany ==
    ASSUME NEW o, NEW to, NEW cc, NEW bcc, NEW author, OriginalSays(o, ReadEntries, to, cc, bcc, author), author # "none",
           Sendable(to), Sendable(cc), Sendable(bcc), NEW replyTo \in Seq(ReadEntries), Sendable(Boxes(replyTo)),
           NEW direct, direct = DirectOf(o, replyTo)
    PROVE  /\ direct.to \in Seq(ReadEntries) /\ direct.bcc \in Seq(ReadEntries) /\ (direct.bcc # <<>> => direct.to = <<>>)
           /\ direct.to \in Seq(FineEntries) /\ direct.bcc \in Seq(FineEntries) =>
                 Len(Addresses(direct.to)) + Len(Addresses(direct.bcc)) \in 1 .. RecipientsMax
<1> DEFINE T == Boxes(direct.to)
           B == Boxes(direct.bcc)
<1>1. /\ direct.to \in Seq(ReadEntries) /\ direct.bcc \in Seq(ReadEntries) /\ (direct.bcc # <<>> => direct.to = <<>>)
      /\ \/ T = {} /\ B # {} /\ Sendable(B)
         \/ B = {} /\ T # {} /\ Sendable(T)
  <2>1. CASE author = "inbox"
    <3>1. OriginalSays(o, ReadEntries, to, cc, bcc, "inbox")
      BY <2>1
    <3>2. /\ direct.to \in Seq(ReadEntries) /\ direct.bcc \in Seq(ReadEntries) /\ (direct.bcc # <<>> => direct.to = <<>>)
          /\ T = OwnTo(to, cc, bcc) /\ B = OwnBcc(to, cc, bcc)
      BY <3>1, DirectOfOwnMessage
    <3> HIDE DEF T, B
    <3> DEFINE me == {"inbox"}
               dt == to \ me
               dc == cc \ me
               db == bcc \ me
    <3>3. Sendable(dt) /\ Sendable(dc) /\ Sendable(db) /\ Sendable(me)
      <4>1. dt \subseteq to /\ dc \subseteq cc /\ db \subseteq bcc
        OBVIOUS
      <4> HIDE DEF dt, dc, db
      <4> QED BY <4>1, SendableSets
    <3>4. /\ T = IF dt # {} THEN dt ELSE IF dc # {} THEN dc ELSE IF db # {} THEN {} ELSE me
          /\ B = IF dt = {} /\ dc = {} THEN db ELSE {}
      <4>1. to \cup cc \subseteq me <=> dt = {} /\ dc = {}
        OBVIOUS
      <4> QED BY <3>2, <4>1 DEF OwnTo, OwnBcc
    <3>5. me # {}
      OBVIOUS
    <3> HIDE DEF dt, dc, db, me
    <3> QED BY <3>2, <3>3, <3>4, <3>5
  <2>2. CASE author # "inbox"
    <3>1. /\ direct.bcc = <<>> /\ (direct.to \in Seq(ReadEntries) \/ direct.to = <<o.from>>)
          /\ T = Answered(Boxes(replyTo), author)
      BY <2>2, DirectOfAnother
    <3>2. o.from \in ReadEntries
      BY DEF OriginalSays
    <3>3. <<o.from>> \in Seq(ReadEntries) /\ <<>> \in Seq(ReadEntries)
      BY <3>2
    <3>4. B = {}
      BY <3>1, OneBox
    <3> DEFINE R == Boxes(replyTo)
               others == R \ {"inbox"}
    <3>5. Sendable(others) /\ Sendable({author}) /\ {author} # {}
      <4>1. others \subseteq R
        OBVIOUS
      <4> HIDE DEF others
      <4> QED BY <4>1, SendableSets
    <3>6. T = IF others # {} THEN others ELSE {author}
      BY <3>1 DEF Answered
    <3> HIDE DEF T, B, others
    <3> QED BY <3>1, <3>3, <3>4, <3>5, <3>6
  <2> QED BY <2>1, <2>2
<1>2. RecipientsMax \in Nat /\ Sendable({})
  BY RequestLimitsAssumption, SendableSets
<1>3. Sendable(T) /\ Sendable(B)
  BY <1>1, <1>2
<1>4. ASSUME direct.to \in Seq(FineEntries), direct.bcc \in Seq(FineEntries)
      PROVE
      /\ Len(Addresses(direct.to)) \in 0 .. RecipientsMax /\ Len(Addresses(direct.bcc)) \in 0 .. RecipientsMax
      /\ (T # {} => Len(Addresses(direct.to)) > 0) /\ (T = {} => Len(Addresses(direct.to)) = 0)
      /\ (B # {} => Len(Addresses(direct.bcc)) > 0) /\ (B = {} => Len(Addresses(direct.bcc)) = 0)
  BY <1>3, <1>4, AddressesAreAsMany
<1> HIDE DEF T, B
<1> QED BY <1>1, <1>2, <1>4

\* What is not there breaks no rule.
LEMMA NothingIsFine ==
    LabelErrors(<<>>) = {} /\ HeaderErrors(<<>>) = {} /\ AttachmentErrors(<<>>) = {}
      /\ \A field : AddressErrors(field, <<>>) = {}
<1>1. ToSet(<<>>) = {}
  BY DEF ToSet
<1>2. Cardinality({}) = 0
  BY FS_EmptySet
<1>3. {RequestLabelCap, HeadersMax, AttachmentsMax, DecodedMax} \subseteq Nat
  BY RequestLimitsAssumption
<1>4. LabelErrors(<<>>) = {}
  <2>1. NormalizeLabels(<<>>) = {}
    BY <1>1 DEF NormalizeLabels
  <2>2. UserLabels({}) = {}
    BY DEF UserLabels
  <2>3. Cardinality(UserLabels(NormalizeLabels(<<>>))) = 0
    BY <1>2, <2>1, <2>2
  <2>4. ~(0 > RequestLabelCap)
    BY <1>3
  <2>5. ~\E l \in ToSet(<<>>) : ~LabelPasses(l)
    BY <1>1
  <2> QED BY <2>3, <2>4, <2>5 DEF LabelErrors
<1>5. HeaderErrors(<<>>) = {}
  <2> DEFINE list == <<>>
             none == {i \in DOMAIN list : HeaderPasses(list[i])}
  <2>1. none = {} /\ list \in Seq(STRING) /\ none \in SUBSET DOMAIN list
    OBVIOUS
  <2>2. Those(list, HeaderPasses) = At(list, none)
    BY DEF Those
  <2> HIDE DEF none, list
  <2>3. Len(At(list, none)) = Cardinality(none)
    BY <2>1, AtPlaces
  <2>4. Len(Those(list, HeaderPasses)) = 0
    BY <1>2, <2>1, <2>2, <2>3
  <2>5. ~(0 > HeadersMax) /\ ~\E h \in ToSet(list) : ~HeaderPasses(h)
    BY <1>1, <1>3 DEF list
  <2>6. HeaderErrors(list) = {}
    BY <2>4, <2>5 DEF HeaderErrors
  <2> QED BY <2>6 DEF list
<1>6. AttachmentErrors(<<>>) = {}
  <2> DEFINE sizes == [i \in DOMAIN <<>> |-> DecodedSize(<<>>[i])]
  <2>1. sizes = <<>> /\ Len(<<>>) = 0 /\ DOMAIN <<>> = {}
    OBVIOUS
  <2> HIDE DEF sizes
  <2>2. Total(sizes) = 0
    BY <2>1, TotalOfNothing
  <2> QED BY <1>3, <2>1, <2>2 DEF AttachmentErrors, sizes
<1>7. \A field : AddressErrors(field, <<>>) = {}
  BY <1>1 DEF AddressErrors
<1> QED BY <1>4, <1>5, <1>6, <1>7

LEMMA FlawlessIsFine ==
    ASSUME NEW list \in Seq(FineEntries), NEW field
    PROVE  AddressErrors(field, list) = {}
<1>1. \A a \in ToSet(list) : a \in Flawless
  <2>1. \A a \in ToSet(list) : a \in FineEntries
    BY DEF ToSet
  <2> QED BY <2>1, SentAreFlawless
<1>2. \A a \in Flawless : HasEnvelope(a)
  BY DEF Flawless, HasEnvelope
<1> QED BY <1>1, <1>2 DEF AddressErrors

LEMMA FineByFlaw ==
    ASSUME NEW list \in Seq(ReadEntries), \A a \in ToSet(list) : a.flaw = "none"
    PROVE  list \in Seq(FineEntries)
<1>1. DOMAIN list = 1 .. Len(list) /\ Len(list) \in Nat
  OBVIOUS
<1>2. \A i \in 1 .. Len(list) : list[i] \in ReadEntries /\ list[i] \in ToSet(list)
  BY <1>1 DEF ToSet
<1>3. \A i \in 1 .. Len(list) : list[i] \in FineEntries
  BY <1>2, PeopleAreStored, DeliverableAreFlawless
<1>4. list \in [1 .. Len(list) -> FineEntries]
  BY <1>1, <1>3
<1> QED BY <1>1, <1>4

LEMMA OthersEchoed ==
    ASSUME NEW list \in Seq(ReadEntries), NEW spelled, Echoes(list, spelled),
           NEW others, others = {m \in spelled : m.box # "inbox"}, \A m \in others : m.flaw = "none"
    PROVE  \A a \in ToSet(WithoutInbox(list)) : a.flaw = "none"
<1>1. \A a \in ToSet(WithoutInbox(list)) : a \in ToSet(list) /\ a.box # "inbox"
  BY PeopleAreStored, WithoutInboxKeeps
<1> QED BY <1>1 DEF Echoes

\* Those whom a plain answer to received mail is for can be delivered to, if they
\* were when the mail was written.
LEMMA AnswersAreFine ==
    ASSUME AnswerInv, IsReply, IsReceived, AddressesFit, wants.original.id \notin {"awaited", "missing"}, Author # "none",
           \A m \in AnswerMayGoTo : m.flaw = "none",
           NEW replyTo \in {<<>>, wants.original.reply_to}, NEW direct, direct = DirectOf(wants.original, replyTo),
           direct.to \in Seq(ReadEntries), direct.bcc \in Seq(ReadEntries)
    PROVE  direct.to \in Seq(FineEntries) /\ direct.bcc \in Seq(FineEntries)
<1> DEFINE o == wants.original
           t == WithoutInbox(o.to)
           c == WithoutInbox(o.cc)
           b == WithoutInbox(o.bcc)
           r == WithoutInbox(replyTo)
           fine(list) == \A a \in ToSet(list) : a.flaw = "none"
<1>1. /\ OriginalSays(o, ReadEntries, Said("to"), Said("cc"), Said("bcc"), Author)
      /\ o.reply_to \in Seq(ReadEntries) /\ Boxes(o.reply_to) = Said("reply_to")
      /\ Echoes(o.to, Spelled("to")) /\ Echoes(o.cc, Spelled("cc")) /\ Echoes(o.bcc, Spelled("bcc"))
      /\ Echoes(o.reply_to, Spelled("reply_to")) /\ o.from.flaw = Addressed(wants.raw.from)[1].flaw
  BY StoredAsSaid DEF EchoesAll, Spelled
<1>2. /\ o.to \in Seq(ReadEntries) /\ o.cc \in Seq(ReadEntries) /\ o.bcc \in Seq(ReadEntries)
      /\ o.from.box = Author /\ o.from \in ReadEntries
  BY <1>1 DEF OriginalSays
<1> HIDE DEF o
<1>3. direct = IF Author = "inbox"
               THEN LET first == IF t # <<>> THEN t ELSE c
                    IN [to |-> IF first = <<>> /\ b = <<>> THEN <<o.from>> ELSE first, bcc |-> IF first = <<>> THEN b ELSE <<>>]
               ELSE [to |-> IF r = <<>> THEN <<o.from>> ELSE r, bcc |-> <<>>]
  <2>1. IsInbox(o.from) <=> Author = "inbox"
    BY <1>1, AuthorIsInbox
  <2> QED BY <2>1 DEF DirectOf, DirectOfOwn, o
<1>4. fine(<<>>) /\ \A a : a.flaw = "none" => fine(<<a>>)
  BY DEF ToSet
<1>5. ASSUME NEW field \in {"to", "cc", "bcc"} PROVE Said(field) = {m.box : m \in Spelled(field)}
  BY DEF Said, Spelled, Boxes
<1>6. CASE Author = "inbox"
  <2>1. (t = <<>> <=> OthersIn("to") = {}) /\ (c = <<>> <=> OthersIn("cc") = {})
    <3>1. t = <<>> <=> Said("to") \ {"inbox"} = {}
      BY <1>1, <1>2, PeopleAreStored, WithoutInboxKeeps DEF OriginalSays
    <3>2. c = <<>> <=> Said("cc") \ {"inbox"} = {}
      BY <1>1, <1>2, PeopleAreStored, WithoutInboxKeeps DEF OriginalSays
    <3> HIDE DEF t, c
    <3> QED BY <1>5, <3>1, <3>2 DEF OthersIn
  <2>2. AnswerMayGoTo = OthersIn("to") => fine(t)
    <3>1. AnswerMayGoTo = OthersIn("to") => \A m \in OthersIn("to") : m.flaw = "none"
      OBVIOUS
    <3> QED BY <1>1, <1>2, <3>1, OthersEchoed DEF OthersIn
  <2>3. AnswerMayGoTo = OthersIn("cc") => fine(c)
    <3>1. AnswerMayGoTo = OthersIn("cc") => \A m \in OthersIn("cc") : m.flaw = "none"
      OBVIOUS
    <3> QED BY <1>1, <1>2, <3>1, OthersEchoed DEF OthersIn
  <2>4. AnswerMayGoTo = OthersIn("bcc") => fine(b)
    <3>1. AnswerMayGoTo = OthersIn("bcc") => \A m \in OthersIn("bcc") : m.flaw = "none"
      OBVIOUS
    <3> QED BY <1>1, <1>2, <3>1, OthersEchoed DEF OthersIn
  <2>5. AnswerMayGoTo = IF t # <<>> THEN OthersIn("to") ELSE IF c # <<>> THEN OthersIn("cc") ELSE OthersIn("bcc")
    BY <1>6, <2>1 DEF AnswerMayGoTo
  <2>6. fine(<<o.from>>)
    <3>1. o.from.flaw = "none"
      BY <1>2, <1>6 DEF ReadEntries, Participants
    <3> QED BY <1>4, <3>1
  <2> HIDE DEF t, c, b, fine
  <2>7. fine(direct.to) /\ fine(direct.bcc)
    <3>1. CASE t # <<>>
      BY <1>3, <1>4, <1>6, <2>2, <2>5, <3>1
    <3>2. CASE t = <<>> /\ c # <<>>
      BY <1>3, <1>4, <1>6, <2>3, <2>5, <3>2
    <3>3. CASE t = <<>> /\ c = <<>>
      BY <1>3, <1>4, <1>6, <2>4, <2>5, <2>6, <3>3
    <3> QED BY <3>1, <3>2, <3>3
  <2> QED BY <2>7, FineByFlaw DEF fine
<1>7. CASE Author # "inbox"
  <2>1. AnswerMayGoTo = OthersIn("reply_to") \cup {Addressed(wants.raw.from)[1]}
    BY <1>7 DEF AnswerMayGoTo
  <2>2. fine(<<o.from>>)
    <3>1. o.from.flaw = "none"
      BY <1>1, <2>1
    <3> QED BY <1>4, <3>1
  <2>3. fine(r)
    <3>1. CASE replyTo = <<>>
      <4>1. replyTo \in Seq(ReadEntries) /\ Boxes(replyTo) = {}
        <5>1. Boxes(<<>>) = {}
          BY OneBox
        <5>2. <<>> \in Seq(ReadEntries)
          OBVIOUS
        <5> QED BY <3>1, <5>1, <5>2
      <4>2. r = <<>>
        <5>1. Boxes(replyTo) \ {"inbox"} = {}
          BY <4>1
        <5> QED BY <4>1, <5>1, PeopleAreStored, WithoutInboxKeeps
      <4> QED BY <1>4, <4>2
    <3>2. CASE replyTo = o.reply_to
      <4>1. \A m \in OthersIn("reply_to") : m.flaw = "none"
        BY <2>1
      <4>2. \A a \in ToSet(WithoutInbox(o.reply_to)) : a.flaw = "none"
        BY <1>1, <4>1, OthersEchoed DEF OthersIn
      <4> QED BY <3>2, <4>2
    <3> QED BY <3>1, <3>2 DEF o
  <2> HIDE DEF r, fine
  <2>4. fine(direct.to) /\ fine(direct.bcc)
    BY <1>3, <1>4, <1>7, <2>2, <2>3
  <2> QED BY <2>4, FineByFlaw DEF fine
<1> QED BY <1>6, <1>7

\* A plain answer to received mail is refused for its subject, for its many people,
\* or for one SES cannot deliver to.
LEMMA RefusedForAReason ==
    ASSUME AnswerInv, IsReceived, reply = "400", Unnamed(wants.ask), AddressesFit, Author # "none",
           ~wants.ask.all, AnswersWith({"text"}),
           ReplySubject(wants.original.subject) \notin {"long", "newline"},
           \A field \in {"to", "cc", "bcc", "reply_to"} : ~(Cardinality(Said(field)) > RecipientsMax),
           \A m \in AnswerMayGoTo : m.flaw = "none"
    PROVE  FALSE
<1> DEFINE o == wants.original
           ask == wants.ask
           raw == wants.raw
<1>1. o.id \notin {"awaited", "missing"} /\ OriginalOK(wants) /\ IsRequest(ask)
  BY DEF AnswerInv, WantsOK
<1>2. IsMail(raw) /\ o = ToMessage(raw) /\ Cut[raw.message_id] # "none"
  BY <1>1 DEF OriginalOK, IsReceived
<1>3. o.id = Cut[raw.message_id] /\ o.subject = Cut[raw.subject]
  BY <1>2 DEF ToMessage, ParseInbound, WrapId, TruncateBytes
<1>4. IsReply
  BY <1>2, <1>3 DEF IsReply
<1>5. PICK content \in Contents(wants) : ValidationErrors(Asked(content)) # {}
  BY DEF AnswerInv
<1> DEFINE derived == ReplyRequest(ask, o, content)
           direct == DirectOf(o, content.reply_to)
<1>6. Asked(content) = derived /\ content \in {NoContent, ContentOf(o)}
  BY <1>4 DEF Asked, Contents
<1>7. /\ ask.labels = <<>> /\ ask.headers = <<>> /\ ask.attachments = <<>> /\ ask.reply_to = <<>>
      /\ ask.bodies = {"text"} /\ ask.subject = "absent"
  <2>1. ask = [to |-> ask.to, cc |-> ask.cc, bcc |-> ask.bcc, reply_to |-> ask.reply_to, subject |-> ask.subject,
               bodies |-> ask.bodies, all |-> ask.all, labels |-> ask.labels, headers |-> ask.headers,
               attachments |-> ask.attachments]
    BY <1>1 DEF IsRequest
  <2>2. ask = [ask EXCEPT !.labels = <<>>, !.headers = <<>>, !.attachments = <<>>, !.reply_to = <<>>,
                          !.bodies = {"text"}, !.subject = "absent"]
    BY DEF AnswersWith
  <2> HIDE DEF ask
  <2> QED BY <2>1, <2>2
<1>8. o.subject \in {"fine", "full", "newline"}
  BY <1>2, <1>3 DEF IsMail
<1> DEFINE subject == ReplySubject(o.subject)
<1>9. subject = "fine"
  BY <1>8 DEF ReplySubject
<1> HIDE DEF o, ask, raw, derived, subject
<1>10. /\ OriginalSays(o, ReadEntries, Said("to"), Said("cc"), Said("bcc"), Author)
       /\ o.reply_to \in Seq(ReadEntries) /\ Boxes(o.reply_to) = Said("reply_to")
  BY <1>1, <1>4, StoredAsSaid DEF o
<1>11. Sendable(Said("to")) /\ Sendable(Said("cc")) /\ Sendable(Said("bcc")) /\ Sendable(Said("reply_to"))
  <2>1. IsFiniteSet(Said("to")) /\ IsFiniteSet(Said("cc")) /\ IsFiniteSet(Said("bcc")) /\ IsFiniteSet(Said("reply_to"))
    BY <1>10, ListedBoxes DEF OriginalSays
  <2>2. \A field \in {"to", "cc", "bcc", "reply_to"} : Cardinality(Said(field)) \in Nat
    BY <2>1, FS_CardinalityType
  <2>3. RecipientsMax \in Nat
    BY RequestLimitsAssumption
  <2>4. \A field \in {"to", "cc", "bcc", "reply_to"} : Cardinality(Said(field)) <= RecipientsMax
    BY <2>2, <2>3
  <2> QED BY <2>1, <2>4 DEF Sendable
<1> DEFINE replyTo == content.reply_to
<1>12. replyTo \in Seq(ReadEntries) /\ Sendable(Boxes(replyTo))
  <2>1. replyTo \in {<<>>, o.reply_to}
    BY <1>6, ReadOrEmpty
  <2>2. <<>> \in Seq(ReadEntries)
    OBVIOUS
  <2>3. Boxes(<<>>) = {} /\ Sendable({})
    BY OneBox, SendableSets
  <2> HIDE DEF replyTo
  <2> QED BY <1>10, <1>11, <2>1, <2>2, <2>3
<1>13. AsksFor(ask, derived, IF direct.bcc # <<>> THEN <<>> ELSE direct.to,
               IF direct.bcc = <<>> /\ ask.all THEN ReplyAllRecipients(o, direct.to) ELSE <<>>, direct.bcc,
               IF ask.subject = "absent" THEN ReplySubject(o.subject) ELSE ask.subject)
  <2>1. Unnamed(ask) /\ IsRequest(ask)
    BY <1>1 DEF ask
  <2> QED BY <2>1, DerivedAsk DEF derived
<1>14. direct = DirectOf(o, replyTo)
  OBVIOUS
<1> HIDE DEF direct, replyTo
<1>15. /\ direct.to \in Seq(FineEntries) /\ direct.bcc \in Seq(FineEntries) /\ (direct.bcc # <<>> => direct.to = <<>>)
       /\ Len(Addresses(direct.to)) + Len(Addresses(direct.bcc)) \in 1 .. RecipientsMax
  <2>1. /\ direct.to \in Seq(ReadEntries) /\ direct.bcc \in Seq(ReadEntries) /\ (direct.bcc # <<>> => direct.to = <<>>)
        /\ direct.to \in Seq(FineEntries) /\ direct.bcc \in Seq(FineEntries) =>
              Len(Addresses(direct.to)) + Len(Addresses(direct.bcc)) \in 1 .. RecipientsMax
    BY <1>10, <1>11, <1>12, <1>14, RecipientsAreAsMany
  <2>2. replyTo \in {<<>>, o.reply_to}
    BY <1>6, ReadOrEmpty DEF replyTo
  <2>3. direct.to \in Seq(FineEntries) /\ direct.bcc \in Seq(FineEntries)
    BY <1>1, <1>4, <1>14, <2>1, <2>2, AnswersAreFine DEF o
  <2> QED BY <2>1, <2>3
<1>16. /\ derived.to.list = direct.to /\ derived.cc.list = <<>> /\ derived.bcc.list = direct.bcc
       /\ derived.subject = "fine" /\ derived.bodies = {"text"} /\ derived.reply_to = <<>>
       /\ derived.labels = <<>> /\ derived.headers = <<>> /\ derived.attachments = <<>>
  <2>1. ~ask.all
    BY DEF ask
  <2> QED BY <1>7, <1>9, <1>13, <1>15, <2>1 DEF AsksFor, subject
<1>17. RecipientErrors(Validated(derived)) = {}
  <2> DEFINE v == Validated(derived)
  <2>1. v.to = Addresses(direct.to) /\ v.cc = Addresses(<<>>) /\ v.bcc = Addresses(direct.bcc)
    BY <1>16 DEF Validated
  <2>2. Len(Addresses(<<>>)) = 0
    <3>1. <<>> \in Seq(FineEntries)
      OBVIOUS
    <3>2. Boxes(<<>>) = {} /\ Sendable({})
      BY OneBox, SendableSets
    <3> QED BY <3>1, <3>2, AddressesAreAsMany
  <2> HIDE DEF v
  <2>3. Len(v.to) \in Nat /\ Len(v.bcc) \in Nat
    BY <1>15, <2>1, SentAreFlawless, AddressesKeepBoxes
  <2>4. Len(v.to) + Len(v.cc) + Len(v.bcc) \in 1 .. RecipientsMax
    BY <1>15, <2>1, <2>2, <2>3
  <2>5. RecipientErrors(v) = {}
    BY <2>4 DEF RecipientErrors
  <2> QED BY <2>5 DEF v
<1>18. /\ AddressErrors("to", derived.to.list) = {} /\ AddressErrors("cc", derived.cc.list) = {}
       /\ AddressErrors("bcc", derived.bcc.list) = {} /\ AddressErrors("reply_to", derived.reply_to) = {}
  BY <1>15, <1>16, FlawlessIsFine, NothingIsFine
<1>19. LabelErrors(derived.labels) = {} /\ HeaderErrors(derived.headers) = {} /\ AttachmentErrors(derived.attachments) = {}
  BY <1>16, NothingIsFine
<1>20. ValidationErrors(derived) = {}
  <2>1. /\ (IF derived.subject \in {"absent", "fine"} THEN {} ELSE {"subject"}) = {}
        /\ (IF derived.bodies = {} THEN {"text"} ELSE {}) = {}
    BY <1>16
  <2>2. ValidationErrors(derived) = UNION {{}}
    <3>1. ValidationErrors(derived) = UNION {{}, {}, {}, {}, {}, {}, {}, {}, {}, {}}
      BY <1>17, <1>18, <1>19, <2>1 DEF ValidationErrors
    <3> QED BY <3>1
  <2> QED BY <2>2
<1> QED BY <1>5, <1>6, <1>20

\* reply.rs, "Blind copies stay blind" and "everything the caller leaves out derived
\* from the message being replied to": a reply that names nobody goes to whoever
\* wrote, or asked for the answer, or was written to, shows nobody that was a blind
\* copy; and a plain answer to received mail whose addresses fit, which stays in its
\* thread, is refused only for the subject, for more people than a send may have, or
\* for an address among those it is for that SES cannot deliver to.
THEOREM RepliesAreRight == PartsSpec => []RepliesReachTheRightPeople
<1>1. AnswerInv => RepliesReachTheRightPeople
  <2> SUFFICES ASSUME AnswerInv PROVE RepliesReachTheRightPeople
    OBVIOUS
  <2> DEFINE unnamed == ~(wants.ask.to.given \/ wants.ask.cc.given \/ wants.ask.bcc.given)
             shown == Boxes(spec.to \o spec.cc)
             visible == Said("to") \cup Said("cc")
             asked == IF Author = "inbox" THEN {"inbox"} ELSE Said("reply_to") \cup {Author}
             o == wants.original
  <2>1. ContentSize(o) <= ContentMax
    <3>1. DOMAIN o.weights \subseteq ContentFields
      <4>1. OriginalOK(wants)
        BY DEF AnswerInv
      <4>2. CASE IsSent(o)
        BY <4>2 DEF IsSent
      <4>3. CASE o = ToMessage(wants.raw)
        BY <4>3 DEF ToMessage, ContentFields
      <4> QED BY <4>1, <4>2, <4>3 DEF OriginalOK
    <3> HIDE DEF o
    <3> QED BY <3>1, DocumentsFit
  <2>2. unnamed <=> Unnamed(wants.ask)
    BY DEF Unnamed
  <2>3. ASSUME IsReply, spec # NoSpec, unnamed, AddressesFit
        PROVE  /\ shown \cup Boxes(spec.bcc) # {}
               /\ Boxes(spec.to) \cap Boxes(spec.cc) = {}
               /\ "inbox" \in shown => visible \cup Said("bcc") \cup asked \subseteq {"inbox"}
               /\ shown \cap Said("bcc") \subseteq visible \cup asked
               /\ Author # "inbox" => Boxes(spec.to) \subseteq asked
               /\ wants.ask.all => visible \ {"inbox"} \subseteq shown
               /\ ~wants.ask.all => spec.cc = <<>>
               /\ spec.in_reply_to = wants.original.id
               /\ Len(spec.references) \in 1 .. ReferencesMax
    <3>1. /\ IsRight(spec, Said("to"), Said("cc"), Said("bcc"), Author, wants.ask.all, shown, Asking(Author, Said("reply_to")))
          /\ spec.in_reply_to = wants.original.id
          /\ Len(spec.references) \in 1 .. ReferencesMax
      BY <2>2, <2>3, AcceptedReplyIsRight
    <3>2. asked = Asking(Author, Said("reply_to"))
      BY DEF Asking
    <3> HIDE DEF shown, asked
    <3> QED BY <3>1, <3>2 DEF IsRight
  <2>4. ASSUME IsReceived, reply = "400", unnamed, AddressesFit, Author # "none", ~wants.ask.all, AnswersWith({"text"})
        PROVE  \/ ReplySubject(wants.original.subject) \in {"long", "newline"}
               \/ \E field \in {"to", "cc", "bcc", "reply_to"} : Cardinality(Said(field)) > RecipientsMax
               \/ \E m \in AnswerMayGoTo : m.flaw # "none"
    <3> SUFFICES ASSUME ReplySubject(wants.original.subject) \notin {"long", "newline"},
                        \A field \in {"to", "cc", "bcc", "reply_to"} : ~(Cardinality(Said(field)) > RecipientsMax),
                        \A m \in AnswerMayGoTo : m.flaw = "none"
                 PROVE  FALSE
      OBVIOUS
    <3> QED BY <2>2, <2>4, RefusedForAReason
  <2> HIDE DEF unnamed, shown, visible, asked, o
  <2> QED BY <2>1, <2>3, <2>4, Zenon DEF RepliesReachTheRightPeople, unnamed, shown, visible, asked, o
<1>2. PartsSpec => []AnswerInv
  BY AnswersInvariant
<1> QED BY <1>1, <1>2, PTL
==============================================================================
