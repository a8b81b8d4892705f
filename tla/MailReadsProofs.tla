--------------------------- MODULE MailReadsProofs ---------------------------
(***************************************************************************)
(* Machine-checked proofs about MailReads, for any mail, any scripts of    *)
(* any writers, any asks and tokens, page and fill limits and faults.      *)
(***************************************************************************)
EXTENDS MailReads, FiniteSetTheorems, SequenceTheorems, WellFoundedInduction, TLAPS

-----------------------------------------------------------------------------
(***************************************************************************)
(* Rows in the order of an index.                                          *)
(***************************************************************************)

LEMMA PrecedesOrders ==
    ASSUME NEW a \in Int, NEW b \in Int, NEW c \in Int, NEW ascending
    PROVE  /\ ~Precedes(a, a, ascending)
           /\ Precedes(a, b, ascending) \/ a = b \/ Precedes(b, a, ascending)
           /\ Precedes(a, b, ascending) => ~Precedes(b, a, ascending)
           /\ Precedes(a, b, ascending) /\ Precedes(b, c, ascending) => Precedes(a, c, ascending)
  BY DEF Precedes

\* Rows of an index partition: told apart by where they sort.
AreRows(rows) ==
    /\ IsFiniteSet(rows)
    /\ \A r \in rows : r.sort \in Int
    /\ \A r, o \in rows : r.sort = o.sort => r = o

Ahead(rows, r, ascending) == {o \in rows : Precedes(o.sort, r.sort, ascending)}

\* Every row of s comes before the next.
AreOrdered(s, ascending) ==
    \A i, j \in DOMAIN s : i < j => Precedes(s[i].sort, s[j].sort, ascending)

\* What InOrder does.
Lists(s, rows, ascending) ==
    /\ s \in Seq(rows) /\ Len(s) = Cardinality(rows) /\ Range(s) = rows
    /\ AreOrdered(s, ascending)

LEMMA InOrderLists ==
    ASSUME NEW rows, AreRows(rows), NEW ascending
    PROVE  Lists(InOrder(rows, ascending), rows, ascending)
<1> DEFINE c == Cardinality(rows)
           rank(r) == Cardinality({o \in rows : Precedes(o.sort, r.sort, ascending)})
           ranks == [r \in rows |-> rank(r)]
           list == InOrder(rows, ascending)
<1>0. IsFiniteSet(rows) /\ \A r \in rows : r.sort \in Int
  BY DEF AreRows
<1>1. c \in Nat
  BY <1>0, FS_CardinalityType
<1>2. ASSUME NEW r \in rows
      PROVE  /\ IsFiniteSet(Ahead(rows, r, ascending)) /\ r \notin Ahead(rows, r, ascending)
             /\ rank(r) \in 0 .. (c - 1) /\ rank(r) = Cardinality(Ahead(rows, r, ascending))
  <2>1. r \notin Ahead(rows, r, ascending)
    BY <1>0, PrecedesOrders DEF Ahead
  <2>2. Ahead(rows, r, ascending) \subseteq rows \ {r}
    BY <2>1 DEF Ahead
  <2>3. IsFiniteSet(rows \ {r}) /\ Cardinality(rows \ {r}) = c - 1
    BY <1>0, FS_RemoveElement
  <2>4. IsFiniteSet(Ahead(rows, r, ascending)) /\ Cardinality(Ahead(rows, r, ascending)) <= c - 1
    BY <2>2, <2>3, FS_Subset
  <2>5. Cardinality(Ahead(rows, r, ascending)) \in Nat
    BY <2>4, FS_CardinalityType
  <2>6. rank(r) = Cardinality(Ahead(rows, r, ascending))
    BY DEF Ahead
  <2> HIDE DEF c, rank
  <2> QED BY <1>1, <2>1, <2>4, <2>5, <2>6
<1>3. ASSUME NEW r \in rows, NEW o \in rows, Precedes(r.sort, o.sort, ascending) PROVE rank(r) < rank(o)
  <2>1. \A x \in rows : Precedes(x.sort, r.sort, ascending) => Precedes(x.sort, o.sort, ascending)
    BY <1>0, <1>3, PrecedesOrders
  <2>2. Ahead(rows, r, ascending) \cup {r} \subseteq Ahead(rows, o, ascending)
    BY <1>3, <2>1 DEF Ahead
  <2> HIDE DEF rank, c
  <2>3. Cardinality(Ahead(rows, r, ascending) \cup {r}) = rank(r) + 1
    BY <1>2, FS_AddElement
  <2>4. rank(r) + 1 <= rank(o)
    BY <1>2, <2>2, <2>3, FS_Subset
  <2> QED BY <1>1, <1>2, <2>4
<1>4. \A r, o \in rows : rank(r) = rank(o) => r = o
  <2> SUFFICES ASSUME NEW r \in rows, NEW o \in rows, r # o PROVE rank(r) # rank(o)
    OBVIOUS
  <2>1. r.sort # o.sort
    BY DEF AreRows
  <2>2. Precedes(r.sort, o.sort, ascending) \/ Precedes(o.sort, r.sort, ascending)
    BY <1>0, <2>1, PrecedesOrders
  <2> HIDE DEF rank, c
  <2> QED BY <1>1, <1>2, <1>3, <2>2
<1>5. ranks \in Injection(rows, 0 .. (c - 1))
  <2> HIDE DEF rank
  <2> QED BY <1>2, <1>4 DEF Injection, IsInjective
<1>6. IsFiniteSet(0 .. (c - 1)) /\ Cardinality(0 .. (c - 1)) = c
  <2> HIDE DEF c
  <2> QED BY <1>1, FS_Interval
<1>7. ranks \in Surjection(rows, 0 .. (c - 1))
  <2> HIDE DEF ranks
  <2> QED BY <1>0, <1>5, <1>6, FS_Injection
<1>8. \A n \in 0 .. (c - 1) : \E r \in rows : rank(r) = n
  <2> HIDE DEF rank
  <2> QED BY <1>7 DEF Surjection
<1>9. DOMAIN list = 1 .. c /\ list = [k \in 1 .. c |-> list[k]]
  <2> DEFINE nth(k) == CHOOSE r \in rows : rank(r) = k - 1
  <2>1. list = [k \in 1 .. c |-> nth(k)]
    BY DEF InOrder
  <2> HIDE DEF nth, list, c
  <2> QED BY <2>1
<1>10. ASSUME NEW k \in 1 .. c PROVE list[k] \in rows /\ rank(list[k]) = k - 1
  <2>1. k - 1 \in 0 .. (c - 1)
    BY <1>1
  <2>2. \E r \in rows : rank(r) = k - 1
    BY <1>8, <2>1
  <2>3. list[k] = CHOOSE r \in rows : rank(r) = k - 1
    BY DEF InOrder
  <2> HIDE DEF list
  <2> QED BY <2>2, <2>3, Zenon
<1>11. ASSUME NEW r \in rows PROVE \E k \in 1 .. c : list[k] = r
  <2> HIDE DEF rank, list, c
  <2> DEFINE k == rank(r) + 1
  <2>1. k \in 1 .. c /\ k - 1 = rank(r)
    BY <1>1, <1>2
  <2> HIDE DEF k
  <2>2. list[k] \in rows /\ rank(list[k]) = k - 1
    BY <1>10, <2>1
  <2>3. list[k] = r
    BY <1>4, <2>1, <2>2
  <2> QED BY <2>1, <2>3
<1>12. ASSUME NEW i \in 1 .. c, NEW j \in 1 .. c, i < j
       PROVE  Precedes(list[i].sort, list[j].sort, ascending)
  <2> HIDE DEF rank, list, c
  <2>1. /\ list[i] \in rows /\ list[j] \in rows
        /\ rank(list[i]) = i - 1 /\ rank(list[j]) = j - 1
    BY <1>10
  <2>2. ~(rank(list[j]) < rank(list[i])) /\ list[i] # list[j]
    BY <1>1, <1>12, <2>1
  <2>3. ~Precedes(list[j].sort, list[i].sort, ascending)
    BY <1>3, <2>1, <2>2
  <2>4. list[i].sort # list[j].sort
    BY <2>1, <2>2 DEF AreRows
  <2> QED BY <1>0, <2>1, <2>3, <2>4, PrecedesOrders
<1> HIDE DEF list, c, rank, ranks
<1>13. list \in Seq(rows) /\ Len(list) = c
  <2>1. list \in [1 .. c -> rows]
    BY <1>9, <1>10
  <2> QED BY <1>1, <2>1
<1>14. Range(list) = rows
  <2>1. Range(list) = {list[k] : k \in 1 .. c}
    BY <1>9 DEF Range
  <2> QED BY <1>10, <1>11, <2>1
<1>15. AreOrdered(list, ascending)
  BY <1>9, <1>12 DEF AreOrdered
<1> QED BY <1>13, <1>14, <1>15 DEF Lists, list, c

-----------------------------------------------------------------------------
(***************************************************************************)
(* What a query string asks for: Parse, parameter by parameter, against    *)
(* what was given.                                                         *)
(***************************************************************************)

\* What counts up from 1 by single steps reaches every number.
LEMMA ReachesAll ==
    ASSUME NEW n \in Nat, NEW S, 1 \in S,
           \A k \in 1 .. n : k + 1 \in 1 .. n /\ k \in S => k + 1 \in S
    PROVE  1 .. n \subseteq S
<1> DEFINE R == {ss \in Nat \X Nat : ss[1] < ss[2]}
           T == (1 .. n) \ S
<1>1. IsWellFoundedOn(R, Nat)
  BY NatLessThanWellFounded DEF OpToRel
<1>2. SUFFICES ASSUME T # {} PROVE FALSE
  OBVIOUS
<1>3. T \subseteq Nat
  OBVIOUS
<1>4. PICK x \in T : \A y \in T : ~(<<y, x>> \in R)
  <2> HIDE DEF R, T
  <2> QED BY <1>1, <1>2, <1>3, WFMin
<1>5. x \in 1 .. n /\ x \notin S /\ x # 1
  BY <1>4
<1>6. x - 1 \in 1 .. n /\ (x - 1) + 1 = x
  BY <1>5
<1>7. x - 1 \in T /\ <<x - 1, x>> \in R
  BY <1>5, <1>6
<1> QED
  <2> HIDE DEF R, T
  <2> QED BY <1>4, <1>7

RequestFields ==
    {"errors", "limit", "ascending", "before", "after", "labels", "excluded", "needles", "include"}

IsRequest(r) ==
    /\ r = [x \in RequestFields |-> r[x]]
    /\ r.needles = [f \in TextFields |-> r.needles[f]]
    /\ r.include = [l \in HiddenLabels |-> r.include[l]]

\* r is acc but for some fields.
Keeps(r, acc, but) == IsRequest(r) /\ \A x \in RequestFields : x \notin but => r[x] = acc[x]

LEMMA NoRequestIs == IsRequest(NoRequest)
  BY DEF IsRequest, NoRequest, RequestFields

\* One parameter, if it is a good one.
Reads(acc, r, name, value) ==
    /\ acc.errors = {}
    /\ r.limit = acc.limit \/ r.limit \in 1 .. MaxLimit
    /\ r.ascending = acc.ascending \/ r.ascending \in BOOLEAN
    /\ \A n \in {"before", "after"} : IF name = n THEN value \in Nat /\ r[n] = {value} ELSE r[n] = acc[n]
    /\ r.labels = acc.labels \cup (IF name = "labels" THEN {value} \ {""} ELSE {})
    /\ \A f \in TextFields :
          /\ name = f => r.needles[f] = acc.needles[f] \cup ({value} \ {""})
          /\ name # f => r.needles[f] = acc.needles[f]
    /\ \A f \in DOMAIN IncludeFlags :
          /\ name = f => (r.include[IncludeFlags[f]] <=> value = "true")
          /\ name # f => r.include[IncludeFlags[f]] = acc.include[IncludeFlags[f]]

ParameterNames ==
    {"limit", "ascending", "before", "after", "labels"} \cup TextFields \cup DOMAIN IncludeFlags

LEMMA NamesDiffer ==
    /\ DOMAIN IncludeFlags = {"include_spam", "include_blocked", "include_unauthenticated", "include_trash"}
    /\ IncludeFlags["include_spam"] = "spam" /\ IncludeFlags["include_blocked"] = "blocked"
    /\ IncludeFlags["include_unauthenticated"] = "unauthenticated" /\ IncludeFlags["include_trash"] = "trash"
    /\ HiddenLabels = {"spam", "blocked", "unauthenticated", "trash"}
  BY DEF IncludeFlags, HiddenLabels

LEMMA BadIs ==
    ASSUME NEW acc, IsRequest(acc), NEW name
    PROVE  IsRequest(Bad(acc, name)) /\ Bad(acc, name).errors # {}
  BY DEF IsRequest, RequestFields, Bad

LEMMA ParameterRead ==
    ASSUME NEW acc, IsRequest(acc), NEW p
    PROVE  LET r == ParseParameter(acc, p) IN
           IsRequest(r) /\ (r.errors = {} => Reads(acc, r, p[1], p[2]))
<1> DEFINE r == ParseParameter(acc, p)
           name == p[1]
           value == p[2]
<1> SUFFICES IsRequest(r) /\ (r.errors = {} => Reads(acc, r, name, value))
  OBVIOUS
<1>1. CASE name = "limit"
  <2>0. name \notin TextFields /\ name \notin DOMAIN IncludeFlags
    BY <1>1, NamesDiffer DEF TextFields
  <2>1. CASE value \in 1 .. MaxLimit
    <3>1. r = [acc EXCEPT !.limit = value]
      BY <1>1, <2>0, <2>1 DEF ParseParameter
    <3>2. Keeps(r, acc, {"limit"}) /\ r.limit = value
      BY <3>1 DEF IsRequest, RequestFields, Keeps
    <3> HIDE DEF r
    <3> QED BY <1>1, <2>0, <2>1, <3>2 DEF Keeps, RequestFields, Reads
  <2>2. CASE value \notin 1 .. MaxLimit
    <3>1. r = Bad(acc, "limit")
      BY <1>1, <2>0, <2>2 DEF ParseParameter
    <3> QED BY <3>1, BadIs
  <2> QED BY <2>1, <2>2
<1>2. CASE name = "ascending"
  <2>0. name \notin TextFields /\ name \notin DOMAIN IncludeFlags
    BY <1>2, NamesDiffer DEF TextFields
  <2>1. CASE IsBool(value)
    <3>1. r = [acc EXCEPT !.ascending = (value = "true")]
      BY <1>2, <2>0, <2>1 DEF ParseParameter
    <3>2. Keeps(r, acc, {"ascending"}) /\ r.ascending = (value = "true")
      BY <3>1 DEF IsRequest, RequestFields, Keeps
    <3>3. r.ascending \in BOOLEAN
      BY <3>2
    <3> HIDE DEF r
    <3> QED BY <1>2, <2>0, <3>2, <3>3 DEF Keeps, RequestFields, Reads
  <2>2. CASE ~IsBool(value)
    <3>1. r = Bad(acc, "ascending")
      BY <1>2, <2>0, <2>2 DEF ParseParameter
    <3> QED BY <3>1, BadIs
  <2> QED BY <2>1, <2>2
<1>3. CASE name \in {"before", "after"}
  <2>0. name \notin TextFields /\ name \notin DOMAIN IncludeFlags
    BY <1>3, NamesDiffer DEF TextFields
  <2>1. CASE value \in Nat
    <3>1. r = [acc EXCEPT ![name] = {value}]
      BY <1>3, <2>0, <2>1 DEF ParseParameter
    <3>2. Keeps(r, acc, {name}) /\ r[name] = {value}
      BY <1>3, <3>1 DEF IsRequest, RequestFields, Keeps
    <3> HIDE DEF r
    <3> QED BY <1>3, <2>0, <2>1, <3>2 DEF Keeps, RequestFields, Reads
  <2>2. CASE value \notin Nat
    <3>1. r = Bad(acc, name)
      BY <1>3, <2>0, <2>2 DEF ParseParameter
    <3> QED BY <3>1, BadIs
  <2> QED BY <2>1, <2>2
<1>4. CASE name = "labels"
  <2>0. name \notin TextFields /\ name \notin DOMAIN IncludeFlags
    BY <1>4, NamesDiffer DEF TextFields
  <2>1. r = acc \/ r = [acc EXCEPT !.labels = @ \cup {value}]
    BY <1>4, <2>0 DEF ParseParameter
  <2>2. value = "" => r = acc
    BY <1>4, <2>0 DEF ParseParameter
  <2>3. value # "" => r = [acc EXCEPT !.labels = @ \cup {value}]
    BY <1>4, <2>0 DEF ParseParameter
  <2>4. Keeps(r, acc, {"labels"}) /\ r.labels = acc.labels \cup ({value} \ {""})
    <3>1. CASE value = ""
      BY <2>2, <3>1 DEF IsRequest, RequestFields, Keeps
    <3>2. CASE value # ""
      <4>1. Keeps(r, acc, {"labels"}) /\ r.labels = acc.labels \cup {value}
        BY <2>3, <3>2 DEF IsRequest, RequestFields, Keeps
      <4> QED BY <3>2, <4>1
    <3> QED BY <3>1, <3>2
  <2> HIDE DEF r
  <2> QED BY <1>4, <2>0, <2>4 DEF Keeps, RequestFields, Reads
<1>5. CASE name \in TextFields
  <2>1. name \notin {"limit", "ascending", "before", "after", "labels"} /\ name \notin DOMAIN IncludeFlags
    BY <1>5, NamesDiffer DEF TextFields
  <2>2. value = "" => r = acc
    BY <1>5, <2>1 DEF ParseParameter
  <2>3. value # "" => r = [acc EXCEPT !.needles[name] = @ \cup {value}]
    BY <1>5, <2>1 DEF ParseParameter
  <2>4. /\ Keeps(r, acc, {"needles"}) /\ r.needles[name] = acc.needles[name] \cup ({value} \ {""})
        /\ \A f \in TextFields : f # name => r.needles[f] = acc.needles[f]
    <3>1. CASE value = ""
      BY <1>5, <2>2, <3>1 DEF IsRequest, RequestFields, Keeps
    <3>2. CASE value # ""
      <4>1. /\ Keeps(r, acc, {"needles"}) /\ r.needles[name] = acc.needles[name] \cup {value}
            /\ \A f \in TextFields : f # name => r.needles[f] = acc.needles[f]
        BY <1>5, <2>3, <3>2 DEF IsRequest, RequestFields, Keeps
      <4> QED BY <3>2, <4>1
    <3> QED BY <3>1, <3>2
  <2> HIDE DEF r
  <2> QED BY <1>5, <2>1, <2>4 DEF Keeps, RequestFields, Reads
<1>6. CASE name \in DOMAIN IncludeFlags
  <2>1. name \notin {"limit", "ascending", "before", "after", "labels"} /\ name \notin TextFields
    BY <1>6, NamesDiffer DEF TextFields
  <2>2. CASE IsBool(value)
    <3>1. r = [acc EXCEPT !.include[IncludeFlags[name]] = (value = "true")]
      BY <1>6, <2>1, <2>2 DEF ParseParameter
    <3>2. IncludeFlags[name] \in HiddenLabels
      BY <1>6, NamesDiffer
    <3>3. /\ Keeps(r, acc, {"include"}) /\ (r.include[IncludeFlags[name]] <=> value = "true")
          /\ \A l \in HiddenLabels : l # IncludeFlags[name] => r.include[l] = acc.include[l]
      BY <3>1, <3>2 DEF IsRequest, RequestFields, Keeps
    <3>4. \A f \in DOMAIN IncludeFlags : f # name => IncludeFlags[f] # IncludeFlags[name] /\ IncludeFlags[f] \in HiddenLabels
      BY <1>6, NamesDiffer
    <3> HIDE DEF r
    <3> QED BY <1>6, <2>1, <3>3, <3>4 DEF Keeps, RequestFields, Reads
  <2>3. CASE ~IsBool(value)
    <3>1. r = Bad(acc, name)
      BY <1>6, <2>1, <2>3 DEF ParseParameter
    <3> QED BY <3>1, BadIs
  <2> QED BY <2>2, <2>3
<1>7. CASE name \notin ParameterNames
  <2>1. /\ name \notin {"limit", "ascending", "before", "after", "labels"}
        /\ name \notin TextFields /\ name \notin DOMAIN IncludeFlags
    BY <1>7 DEF ParameterNames
  <2>2. r = acc
    BY <2>1 DEF ParseParameter
  <2> HIDE DEF r
  <2> QED BY <2>1, <2>2 DEF Reads
<1> QED BY <1>1, <1>2, <1>3, <1>4, <1>5, <1>6, <1>7 DEF ParameterNames

\* What has been given by the first k parameters, and last.
GivenBy(query, k, name) == {query[j][2] : j \in {i \in 1 .. k : query[i][1] = name}}
LastBy(query, k, name, j) ==
    j \in 1 .. k /\ query[j][1] = name /\ \A i \in 1 .. k : query[i][1] = name => i <= j
NoneBy(query, k, name) == \A i \in 1 .. k : query[i][1] # name

\* A request after the first k parameters, when all of them were good.
BoundRead(query, k, n, r) ==
    \/ NoneBy(query, k, n) /\ r[n] = {}
    \/ \E j \in 1 .. k : LastBy(query, k, n, j) /\ query[j][2] \in Nat /\ r[n] = {query[j][2]}

FlagRead(query, k, f, r) ==
    \/ NoneBy(query, k, f) /\ ~r.include[IncludeFlags[f]]
    \/ \E j \in 1 .. k : LastBy(query, k, f, j) /\ (r.include[IncludeFlags[f]] <=> query[j][2] = "true")

AllRead(query, k, r) ==
    /\ r.limit \in 1 .. MaxLimit /\ r.ascending \in BOOLEAN
    /\ \A n \in {"before", "after"} : BoundRead(query, k, n, r)
    /\ r.labels = GivenBy(query, k, "labels") \ {""}
    /\ \A f \in TextFields : r.needles[f] = GivenBy(query, k, f) \ {""}
    /\ \A f \in DOMAIN IncludeFlags : FlagRead(query, k, f, r)

ReadSoFar(query, k, r) == IsRequest(r) /\ (r.errors = {} => AllRead(query, k, r))

LEMMA NothingReadYet ==
    ASSUME NEW query
    PROVE  ReadSoFar(query, 0, NoRequest)
<1>1. \A name : NoneBy(query, 0, name) /\ GivenBy(query, 0, name) = {}
  BY DEF NoneBy, GivenBy
<1>2. /\ NoRequest.limit = DefaultLimit /\ NoRequest.ascending = FALSE /\ NoRequest.before = {}
      /\ NoRequest.after = {} /\ NoRequest.labels = {}
      /\ \A f \in TextFields : NoRequest.needles[f] = {}
      /\ \A l \in HiddenLabels : NoRequest.include[l] = FALSE
  BY DEF NoRequest
<1>3. \A f \in DOMAIN IncludeFlags : IncludeFlags[f] \in HiddenLabels
  BY NamesDiffer
<1>4. NoRequest.limit \in 1 .. MaxLimit /\ NoRequest.ascending \in BOOLEAN
  BY <1>2, MailReadsAssumption
<1>5. \A n \in {"before", "after"} : BoundRead(query, 0, n, NoRequest)
  BY <1>1, <1>2 DEF BoundRead
<1>6. \A f \in DOMAIN IncludeFlags : FlagRead(query, 0, f, NoRequest)
  BY <1>1, <1>2, <1>3 DEF FlagRead
<1> QED BY <1>1, <1>2, <1>4, <1>5, <1>6, NoRequestIs DEF ReadSoFar, AllRead

LEMMA GivenGrows ==
    ASSUME NEW query, NEW k \in Nat, NEW name
    PROVE  /\ query[k + 1][1] = name =>
                 /\ GivenBy(query, k + 1, name) = GivenBy(query, k, name) \cup {query[k + 1][2]}
                 /\ LastBy(query, k + 1, name, k + 1)
           /\ query[k + 1][1] # name =>
                 /\ GivenBy(query, k + 1, name) = GivenBy(query, k, name)
                 /\ NoneBy(query, k, name) => NoneBy(query, k + 1, name)
                 /\ \A j \in 1 .. k : LastBy(query, k, name, j) => LastBy(query, k + 1, name, j)
<1>1. 1 .. (k + 1) = (1 .. k) \cup {k + 1} /\ k + 1 \in 1 .. (k + 1) /\ \A i \in 1 .. k : i <= k + 1
  OBVIOUS
<1> DEFINE S(m) == {i \in 1 .. m : query[i][1] = name}
<1>2. ASSUME query[k + 1][1] = name PROVE S(k + 1) = S(k) \cup {k + 1}
  BY <1>1, <1>2
<1>3. ASSUME query[k + 1][1] # name PROVE S(k + 1) = S(k)
  BY <1>1, <1>3
<1>4. \A m : GivenBy(query, m, name) = {query[j][2] : j \in S(m)}
  BY DEF GivenBy
<1> HIDE DEF S
<1>5. CASE query[k + 1][1] = name
  <2>1. GivenBy(query, k + 1, name) = GivenBy(query, k, name) \cup {query[k + 1][2]}
    BY <1>2, <1>4, <1>5
  <2>2. LastBy(query, k + 1, name, k + 1)
    BY <1>1, <1>5 DEF LastBy
  <2> QED BY <1>5, <2>1, <2>2
<1>6. CASE query[k + 1][1] # name
  <2>1. GivenBy(query, k + 1, name) = GivenBy(query, k, name)
    BY <1>3, <1>4, <1>6
  <2>2. NoneBy(query, k, name) => NoneBy(query, k + 1, name)
    BY <1>1, <1>6 DEF NoneBy
  <2>3. ASSUME NEW j \in 1 .. k, LastBy(query, k, name, j) PROVE LastBy(query, k + 1, name, j)
    BY <1>1, <1>6, <2>3 DEF LastBy
  <2> QED BY <1>6, <2>1, <2>2, <2>3
<1> QED BY <1>5, <1>6

LEMMA ReadsOn ==
    ASSUME NEW query, NEW k \in Nat, NEW acc, ReadSoFar(query, k, acc)
    PROVE  ReadSoFar(query, k + 1, ParseParameter(acc, query[k + 1]))
<1> DEFINE p == query[k + 1]
           r == ParseParameter(acc, p)
<1>1. IsRequest(acc) /\ (acc.errors = {} => AllRead(query, k, acc))
  BY DEF ReadSoFar
<1>2. IsRequest(r) /\ (r.errors = {} => Reads(acc, r, p[1], p[2]))
  BY <1>1, ParameterRead
<1> SUFFICES ASSUME r.errors = {} PROVE AllRead(query, k + 1, r)
  BY <1>2 DEF ReadSoFar
<1> HIDE DEF r
<1>3. Reads(acc, r, p[1], p[2]) /\ AllRead(query, k, acc)
  BY <1>1, <1>2 DEF Reads
<1>4. r.limit \in 1 .. MaxLimit /\ r.ascending \in BOOLEAN
  BY <1>3 DEF Reads, AllRead
<1>5. ASSUME NEW n \in {"before", "after"} PROVE BoundRead(query, k + 1, n, r)
  <2>1. BoundRead(query, k, n, acc)
    BY <1>3 DEF AllRead
  <2>2. CASE p[1] = n
    <3>1. p[2] \in Nat /\ r[n] = {p[2]}
      BY <1>3, <2>2 DEF Reads
    <3>2. LastBy(query, k + 1, n, k + 1)
      BY <2>2, GivenGrows
    <3>3. k + 1 \in 1 .. (k + 1)
      OBVIOUS
    <3> QED BY <3>1, <3>2, <3>3 DEF BoundRead
  <2>3. CASE p[1] # n
    <3>1. r[n] = acc[n]
      BY <1>3, <2>3 DEF Reads
    <3>2. /\ NoneBy(query, k, n) => NoneBy(query, k + 1, n)
          /\ \A j \in 1 .. k : LastBy(query, k, n, j) => LastBy(query, k + 1, n, j)
      BY <2>3, GivenGrows
    <3>3. \A j \in 1 .. k : j \in 1 .. (k + 1)
      OBVIOUS
    <3> QED BY <2>1, <3>1, <3>2, <3>3 DEF BoundRead
  <2> QED BY <2>2, <2>3
<1>6. r.labels = GivenBy(query, k + 1, "labels") \ {""}
  <2>1. acc.labels = GivenBy(query, k, "labels") \ {""}
    BY <1>3 DEF AllRead
  <2>2. CASE p[1] = "labels"
    <3>1. r.labels = acc.labels \cup ({p[2]} \ {""})
      BY <1>3, <2>2 DEF Reads
    <3>2. GivenBy(query, k + 1, "labels") = GivenBy(query, k, "labels") \cup {p[2]}
      BY <2>2, GivenGrows
    <3> QED BY <2>1, <3>1, <3>2
  <2>3. CASE p[1] # "labels"
    <3>1. r.labels = acc.labels
      BY <1>3, <2>3 DEF Reads
    <3>2. GivenBy(query, k + 1, "labels") = GivenBy(query, k, "labels")
      BY <2>3, GivenGrows
    <3> QED BY <2>1, <3>1, <3>2
  <2> QED BY <2>2, <2>3
<1>7. ASSUME NEW f \in TextFields PROVE r.needles[f] = GivenBy(query, k + 1, f) \ {""}
  <2>1. acc.needles[f] = GivenBy(query, k, f) \ {""}
    BY <1>3 DEF AllRead
  <2>2. CASE p[1] = f
    <3>1. r.needles[f] = acc.needles[f] \cup ({p[2]} \ {""})
      BY <1>3, <2>2 DEF Reads
    <3>2. GivenBy(query, k + 1, f) = GivenBy(query, k, f) \cup {p[2]}
      BY <2>2, GivenGrows
    <3> QED BY <2>1, <3>1, <3>2
  <2>3. CASE p[1] # f
    <3>1. r.needles[f] = acc.needles[f]
      BY <1>3, <2>3 DEF Reads
    <3>2. GivenBy(query, k + 1, f) = GivenBy(query, k, f)
      BY <2>3, GivenGrows
    <3> QED BY <2>1, <3>1, <3>2
  <2> QED BY <2>2, <2>3
<1>8. ASSUME NEW f \in DOMAIN IncludeFlags PROVE FlagRead(query, k + 1, f, r)
  <2>1. FlagRead(query, k, f, acc)
    BY <1>3 DEF AllRead
  <2>2. CASE p[1] = f
    <3>1. r.include[IncludeFlags[f]] <=> p[2] = "true"
      BY <1>3, <2>2 DEF Reads
    <3>2. LastBy(query, k + 1, f, k + 1)
      BY <2>2, GivenGrows
    <3>3. k + 1 \in 1 .. (k + 1)
      OBVIOUS
    <3> QED BY <3>1, <3>2, <3>3 DEF FlagRead
  <2>3. CASE p[1] # f
    <3>1. r.include[IncludeFlags[f]] = acc.include[IncludeFlags[f]]
      BY <1>3, <2>3 DEF Reads
    <3>2. /\ NoneBy(query, k, f) => NoneBy(query, k + 1, f)
          /\ \A j \in 1 .. k : LastBy(query, k, f, j) => LastBy(query, k + 1, f, j)
      BY <2>3, GivenGrows
    <3>3. \A j \in 1 .. k : j \in 1 .. (k + 1)
      OBVIOUS
    <3> QED BY <2>1, <3>1, <3>2, <3>3 DEF FlagRead
  <2> QED BY <2>2, <2>3
<1> QED BY <1>4, <1>5, <1>6, <1>7, <1>8 DEF AllRead

\* The loop over the parameters comes to an end.
IsReading(query, f, m) ==
    f = [k \in 0 .. m |-> IF k = 0 THEN NoRequest ELSE ParseParameter(f[k - 1], query[k])]

LEMMA ReadingExists ==
    ASSUME NEW query, NEW n \in Nat
    PROVE  \E f : IsReading(query, f, n)
<1> DEFINE S == {m \in 1 .. (n + 1) : \E f : IsReading(query, f, m - 1)}
<1>1. 1 \in S
  <2> DEFINE f == [k \in 0 .. 0 |-> NoRequest]
  <2>1. f = [k \in 0 .. 0 |-> IF k = 0 THEN NoRequest ELSE ParseParameter(f[k - 1], query[k])]
    OBVIOUS
  <2>2. IsReading(query, f, 1 - 1)
    BY <2>1 DEF IsReading
  <2> HIDE DEF f
  <2> QED BY <2>2
<1>2. ASSUME NEW m \in 1 .. (n + 1), m + 1 \in 1 .. (n + 1), m \in S PROVE m + 1 \in S
  <2>1. PICK f : IsReading(query, f, m - 1)
    BY <1>2
  <2> DEFINE next == ParseParameter(f[m - 1], query[m])
             g == [k \in 0 .. m |-> IF k = m THEN next ELSE f[k]]
  <2>2. ASSUME NEW k \in 0 .. m
        PROVE  g[k] = IF k = 0 THEN NoRequest ELSE ParseParameter(g[k - 1], query[k])
    <3>1. CASE k = m
      <4>1. m - 1 \in 0 .. m /\ m - 1 # m /\ m # 0
        BY <1>2
      <4>2. g[m - 1] = f[m - 1] /\ g[k] = next
        BY <3>1, <4>1
      <4> HIDE DEF g
      <4> QED BY <3>1, <4>1, <4>2
    <3>2. CASE k # m
      <4>1. k \in 0 .. (m - 1) /\ g[k] = f[k]
        BY <1>2, <3>2
      <4>2. f[k] = IF k = 0 THEN NoRequest ELSE ParseParameter(f[k - 1], query[k])
        BY <2>1, <4>1 DEF IsReading
      <4>3. k # 0 => k - 1 \in 0 .. m /\ k - 1 # m
        BY <1>2
      <4>4. k # 0 => g[k - 1] = f[k - 1]
        BY <4>3
      <4> HIDE DEF g
      <4> QED BY <4>1, <4>2, <4>4
    <3> QED BY <3>1, <3>2
  <2>3. g = [k \in 0 .. m |-> g[k]]
    OBVIOUS
  <2> HIDE DEF g
  <2>4. IsReading(query, g, m)
    BY <2>2, <2>3 DEF IsReading
  <2>5. (m + 1) - 1 = m
    BY <1>2
  <2> QED BY <1>2, <2>4, <2>5
<1>3. n + 1 \in S
  <2> HIDE DEF S
  <2>1. 1 .. (n + 1) \subseteq S
    BY <1>1, <1>2, ReachesAll
  <2> QED BY <2>1
<1>4. (n + 1) - 1 = n
  OBVIOUS
<1> QED BY <1>3, <1>4

LEMMA AllParsed ==
    ASSUME NEW query, query \in Seq(Range(query))
    PROVE  ReadSoFar(query, Len(query), ParseAll(query))
<1> DEFINE n == Len(query)
           read == CHOOSE f : f = [k \in 0 .. n |-> IF k = 0 THEN NoRequest
                                                   ELSE ParseParameter(f[k - 1], query[k])]
<1>1. n \in Nat
  OBVIOUS
<1>2. \E f : f = [k \in 0 .. n |-> IF k = 0 THEN NoRequest ELSE ParseParameter(f[k - 1], query[k])]
  <2> HIDE DEF n
  <2> QED BY <1>1, ReadingExists DEF IsReading
<1>3. IsReading(query, read, n)
  BY <1>2 DEF IsReading
<1>4. ParseAll(query) = read[n]
  BY DEF ParseAll
<1> HIDE DEF read, n
<1> DEFINE S == {m \in 1 .. (n + 1) : ReadSoFar(query, m - 1, read[m - 1])}
<1>5. 1 \in S
  <2>1. read[0] = NoRequest /\ 1 - 1 = 0 /\ 1 \in 1 .. (n + 1)
    BY <1>1, <1>3 DEF IsReading
  <2> QED BY <2>1, NothingReadYet
<1>6. ASSUME NEW m \in 1 .. (n + 1), m + 1 \in 1 .. (n + 1), m \in S PROVE m + 1 \in S
  <2> DEFINE k == m - 1
  <2>1. k \in Nat /\ k + 1 \in 0 .. n /\ k + 1 # 0 /\ (k + 1) - 1 = k /\ (m + 1) - 1 = k + 1
    BY <1>1, <1>6
  <2>2. read[k + 1] = ParseParameter(read[k], query[k + 1])
    BY <1>3, <2>1 DEF IsReading
  <2>3. ReadSoFar(query, k, read[k])
    BY <1>6
  <2> HIDE DEF k
  <2>4. ReadSoFar(query, k + 1, read[k + 1])
    BY <2>1, <2>2, <2>3, ReadsOn
  <2> QED BY <1>6, <2>1, <2>4
<1>7. n + 1 \in S
  <2> HIDE DEF S
  <2>1. 1 .. (n + 1) \subseteq S
    BY <1>1, <1>5, <1>6, ReachesAll
  <2> QED BY <1>1, <2>1
<1>8. (n + 1) - 1 = n
  BY <1>1
<1> QED BY <1>4, <1>7, <1>8 DEF n

\* The last value given for a parameter, and all of them.
LEMMA GivenIs ==
    ASSUME NEW query, query \in Seq(Range(query)), NEW name, NEW default
    PROVE  /\ Given(query, name) = GivenBy(query, Len(query), name)
           /\ NoneBy(query, Len(query), name) => LastGiven(query, name, default) = default
           /\ \A j \in 1 .. Len(query) :
                 LastBy(query, Len(query), name, j) => LastGiven(query, name, default) = query[j][2]
<1> DEFINE places == {i \in DOMAIN query : query[i][1] = name}
<1>1. DOMAIN query = 1 .. Len(query) /\ Len(query) \in Nat
  OBVIOUS
<1>2. Given(query, name) = GivenBy(query, Len(query), name)
  BY <1>1 DEF Given, GivenBy
<1>3. ASSUME NoneBy(query, Len(query), name) PROVE LastGiven(query, name, default) = default
  <2>1. Given(query, name) = {}
    BY <1>1, <1>3 DEF Given, NoneBy
  <2> QED BY <2>1 DEF LastGiven
<1>4. ASSUME NEW j \in 1 .. Len(query), LastBy(query, Len(query), name, j)
      PROVE  LastGiven(query, name, default) = query[j][2]
  <2>1. j \in places /\ \A i \in places : i <= j /\ i \in Int
    BY <1>1, <1>4 DEF LastBy
  <2>2. query[j][2] \in Given(query, name)
    BY <2>1 DEF Given
  <2>3. LastGiven(query, name, default) = query[Max(places)][2]
    BY <2>2 DEF LastGiven
  <2> HIDE DEF places
  <2>4. j \in Int /\ \A i \in places : j >= i
    BY <1>4, <2>1
  <2>5. PICK x \in places : x = Max(places) /\ \A i \in places : x >= i
    BY <2>1, <2>4 DEF Max
  <2>6. x = j
    BY <2>1, <2>4, <2>5
  <2> QED BY <2>3, <2>5, <2>6
<1> QED BY <1>2, <1>3, <1>4

\* A request is what its query string says.
SaysWindow(query, r) ==
    \A ms \in Int : InWindow(query, ms) <=> (\A a \in r.after : a <= ms) /\ (\A b \in r.before : ms < b)

SaysHidden(query, r) == \A labels : MayShow(query, labels) <=> r.excluded \cap labels = {}

OneOrNone(numbers) == numbers = {} \/ \E n \in Nat : numbers = {n}

Understood(query, r) ==
    /\ r.limit \in 1 .. MaxLimit /\ r.ascending \in BOOLEAN
    /\ OneOrNone(r.before) /\ OneOrNone(r.after)
    /\ SaysWindow(query, r) /\ SaysHidden(query, r)
    /\ r.labels = Given(query, "labels") \ {""}
    /\ \A f \in TextFields : r.needles[f] = Given(query, f) \ {""}

LEMMA BoundGiven ==
    ASSUME NEW query, query \in Seq(Range(query)), NEW r, NEW n \in {"before", "after"},
           BoundRead(query, Len(query), n, r)
    PROVE  /\ OneOrNone(r[n])
           /\ r[n] = {} => Given(query, n) = {}
           /\ \A v : r[n] = {v} => Given(query, n) # {} /\ \A d : LastGiven(query, n, d) = v
<1>1. CASE NoneBy(query, Len(query), n) /\ r[n] = {}
  <2>1. GivenBy(query, Len(query), n) = {}
    BY <1>1 DEF NoneBy, GivenBy
  <2> QED BY <1>1, <2>1, GivenIs DEF OneOrNone
<1>2. ASSUME NEW j \in 1 .. Len(query), LastBy(query, Len(query), n, j), query[j][2] \in Nat, r[n] = {query[j][2]}
      PROVE  /\ OneOrNone(r[n])
             /\ r[n] = {} => Given(query, n) = {}
             /\ \A v : r[n] = {v} => Given(query, n) # {} /\ \A d : LastGiven(query, n, d) = v
  <2>1. query[j][2] \in GivenBy(query, Len(query), n)
    BY <1>2 DEF LastBy, GivenBy
  <2>2. \A d : LastGiven(query, n, d) = query[j][2]
    BY <1>2, GivenIs
  <2>3. Given(query, n) # {}
    BY <2>1, GivenIs
  <2> QED BY <1>2, <2>2, <2>3 DEF OneOrNone
<1> QED BY <1>1, <1>2 DEF BoundRead

LEMMA ParsedIs ==
    ASSUME NEW query, query \in Seq(Range(query)), Parse(query).errors = {}
    PROVE  Understood(query, Parse(query))
<1> DEFINE acc == ParseAll(query)
           r == Parse(query)
           n == Len(query)
<1>1. IsRequest(acc) /\ (acc.errors = {} => AllRead(query, n, acc))
  BY AllParsed DEF ReadSoFar
<1>2. IsRequest(CheckWindow(acc)) /\ (CheckWindow(acc) = acc \/ CheckWindow(acc).errors # {})
  <2> HIDE DEF acc
  <2> QED BY <1>1, BadIs DEF CheckWindow
<1>3. /\ Keeps(r, CheckWindow(acc), {"excluded"})
      /\ r.excluded = {l \in DOMAIN CheckWindow(acc).include : ~CheckWindow(acc).include[l]} \ CheckWindow(acc).labels
  <2> DEFINE c == CheckWindow(acc)
  <2>1. r = [c EXCEPT !.excluded = {l \in DOMAIN c.include : ~c.include[l]} \ c.labels]
    BY DEF Parse, Exclude
  <2> HIDE DEF c, r
  <2>2. IsRequest(c)
    BY <1>2 DEF c
  <2> QED BY <2>1, <2>2 DEF IsRequest, RequestFields, Keeps, c
<1>4. CheckWindow(acc) = acc /\ acc.errors = {}
  <2>1. r.errors = CheckWindow(acc).errors
    BY <1>3 DEF Keeps, RequestFields
  <2> QED BY <1>2, <2>1
<1>5. /\ AllRead(query, n, acc) /\ IsRequest(acc) /\ Keeps(r, acc, {"excluded"})
      /\ r.excluded = {l \in HiddenLabels : ~acc.include[l]} \ acc.labels
  <2>1. DOMAIN acc.include = HiddenLabels
    BY <1>1 DEF IsRequest
  <2> QED BY <1>1, <1>3, <1>4, <2>1
<1> HIDE DEF acc, r
<1>6. /\ r.limit = acc.limit /\ r.ascending = acc.ascending /\ r.before = acc.before /\ r.after = acc.after
      /\ r.labels = acc.labels /\ r.needles = acc.needles
  BY <1>5 DEF Keeps, RequestFields
<1>7. /\ r.limit \in 1 .. MaxLimit /\ r.ascending \in BOOLEAN
      /\ r.labels = Given(query, "labels") \ {""}
      /\ \A f \in TextFields : r.needles[f] = Given(query, f) \ {""}
  <2>1. \A name : Given(query, name) = GivenBy(query, n, name)
    BY GivenIs
  <2>2. acc.limit \in 1 .. MaxLimit /\ acc.ascending \in BOOLEAN
    BY <1>5 DEF AllRead
  <2>3. acc.labels = GivenBy(query, n, "labels") \ {""}
    BY <1>5 DEF AllRead
  <2>4. \A f \in TextFields : acc.needles[f] = GivenBy(query, n, f) \ {""}
    BY <1>5 DEF AllRead
  <2> HIDE DEF n
  <2> QED BY <1>6, <2>1, <2>2, <2>3, <2>4
<1>8. BoundRead(query, n, "before", acc) /\ BoundRead(query, n, "after", acc)
  BY <1>5 DEF AllRead
<1>9. OneOrNone(r.before) /\ OneOrNone(r.after)
  BY <1>6, <1>8, BoundGiven
<1>10. SaysWindow(query, r)
  <2> SUFFICES ASSUME NEW ms \in Int
               PROVE  InWindow(query, ms) <=> (\A a \in r.after : a <= ms) /\ (\A b \in r.before : ms < b)
    BY DEF SaysWindow
  <2>1. (\A a \in Given(query, "after") : LastGiven(query, "after", a) <= ms) <=> \A a \in r.after : a <= ms
    <3>1. CASE r.after = {}
      BY <1>6, <1>8, <3>1, BoundGiven
    <3>2. ASSUME NEW v \in Nat, r.after = {v}
          PROVE  (\A a \in Given(query, "after") : LastGiven(query, "after", a) <= ms) <=> \A a \in r.after : a <= ms
      <4>1. Given(query, "after") # {} /\ \A d : LastGiven(query, "after", d) = v
        BY <1>6, <1>8, <3>2, BoundGiven
      <4> QED BY <3>2, <4>1
    <3> QED BY <1>9, <3>1, <3>2 DEF OneOrNone
  <2>2. (\A b \in Given(query, "before") : ms < LastGiven(query, "before", b)) <=> \A b \in r.before : ms < b
    <3>1. CASE r.before = {}
      BY <1>6, <1>8, <3>1, BoundGiven
    <3>2. ASSUME NEW v \in Nat, r.before = {v}
          PROVE  (\A b \in Given(query, "before") : ms < LastGiven(query, "before", b)) <=> \A b \in r.before : ms < b
      <4>1. Given(query, "before") # {} /\ \A d : LastGiven(query, "before", d) = v
        BY <1>6, <1>8, <3>2, BoundGiven
      <4> QED BY <3>2, <4>1
    <3> QED BY <1>9, <3>1, <3>2 DEF OneOrNone
  <2> QED BY <2>1, <2>2 DEF InWindow
<1>11. SaysHidden(query, r)
  <2> SUFFICES ASSUME NEW labels PROVE MayShow(query, labels) <=> r.excluded \cap labels = {}
    BY DEF SaysHidden
  <2>1. ASSUME NEW f \in DOMAIN IncludeFlags
        PROVE  /\ acc.include[IncludeFlags[f]] <=> LastGiven(query, f, "false") = "true"
               /\ IncludeFlags[f] \in acc.labels <=> IncludeFlags[f] \in Given(query, "labels")
    <3>1. FlagRead(query, n, f, acc)
      BY <1>5 DEF AllRead
    <3>2. NoneBy(query, n, f) => LastGiven(query, f, "false") = "false"
      BY GivenIs
    <3>3. \A j \in 1 .. n : LastBy(query, n, f, j) => LastGiven(query, f, "false") = query[j][2]
      BY GivenIs
    <3>4. acc.include[IncludeFlags[f]] <=> LastGiven(query, f, "false") = "true"
      BY <3>1, <3>2, <3>3 DEF FlagRead
    <3>5. IncludeFlags[f] # ""
      BY NamesDiffer
    <3>6. acc.labels = Given(query, "labels") \ {""}
      BY <1>6, <1>7
    <3> QED BY <3>4, <3>5, <3>6
  <2>2. HiddenLabels = {IncludeFlags[f] : f \in DOMAIN IncludeFlags}
    BY DEF HiddenLabels
  <2>3. r.excluded = {l \in HiddenLabels : ~acc.include[l]} \ acc.labels
    BY <1>5
  <2>4. r.excluded \cap labels = {} <=> \A l \in HiddenLabels : l \in labels => acc.include[l] \/ l \in acc.labels
    BY <2>3
  <2>5. MayShow(query, labels) <=>
          \A f \in DOMAIN IncludeFlags : IncludeFlags[f] \in labels =>
             acc.include[IncludeFlags[f]] \/ IncludeFlags[f] \in acc.labels
    BY <2>1, Zenon DEF MayShow
  <2> QED BY <2>2, <2>4, <2>5
<1> QED BY <1>7, <1>9, <1>10, <1>11 DEF Understood, r

-----------------------------------------------------------------------------
(***************************************************************************)
(* What the tables hold: items under their own keys, whatever is written.  *)
(***************************************************************************)

\* A key says what is stored under it.
LEMMA ItemsByKey ==
    ASSUME NEW key, NEW item, IsItem(key, item)
    PROVE  /\ key[1] = "RFC" => item.thread \in ThreadIds
           /\ \A i, m : key = MessageKey(i, m) => item.kind = "message"
           /\ \A i, t : key = ThreadKey(i, t) => item.kind = "thread"
           /\ \A m : key = SendStateKey(m) => item.kind = "state"
<1>1. key[1] = "RFC" => item.thread \in ThreadIds
  BY DEF IsItem, InboxKey, MessageKey, ThreadKey, SendStateKey, SendKeyKey, SesRefKey
<1>2. ASSUME NEW i, NEW m, key = MessageKey(i, m) PROVE item.kind = "message"
  BY <1>2 DEF IsItem, InboxKey, MessageKey, ThreadKey, SendStateKey, SendKeyKey, SesRefKey
<1>3. ASSUME NEW i, NEW t, key = ThreadKey(i, t) PROVE item.kind = "thread"
  BY <1>3 DEF IsItem, InboxKey, MessageKey, ThreadKey, SendStateKey, SendKeyKey, SesRefKey
<1>4. ASSUME NEW m, key = SendStateKey(m) PROVE item.kind = "state"
  BY <1>4 DEF IsItem, InboxKey, MessageKey, ThreadKey, SendStateKey, SendKeyKey, SesRefKey
<1> QED BY <1>1, <1>2, <1>3, <1>4

\* A write that leaves an item of its key behind.
IsOp(op) ==
    \/ op.form \in {"put", "alias"} /\ IsItem(op.key, op.item)
    \/ /\ op.form = "update" /\ op.cond[1] = "VersionEquals" /\ \E i, m : op.key = MessageKey(i, m)
       /\ DOMAIN op.item \subseteq {"version", "labels", "status"} /\ op.remove \subseteq {"labels"}

IsPlan(ops) == IsFiniteSet(ops) /\ \A op \in ops : IsOp(op)

LEMMA OpLeavesItem ==
    ASSUME NEW table, IsTable(table), NEW op, IsOp(op), Holds(table, op)
    PROVE  IsItem(op.key, ApplyOp(table, op))
<1>1. CASE op.form \in {"put", "alias"} /\ IsItem(op.key, op.item)
  BY <1>1 DEF ApplyOp
<1>2. CASE /\ op.form = "update" /\ op.cond[1] = "VersionEquals" /\ \E i, m : op.key = MessageKey(i, m)
           /\ DOMAIN op.item \subseteq {"version", "labels", "status"} /\ op.remove \subseteq {"labels"}
  <2>1. EvalCond(table, op.key, op.cond)
    BY <1>2 DEF Holds
  <2>2. op.key \in DOMAIN table
    BY <1>2, <2>1 DEF EvalCond
  <2> DEFINE old == table[op.key]
             new == Updated(old, op)
  <2>3. IsItem(op.key, old)
    BY <2>2 DEF IsTable
  <2> HIDE DEF old
  <2>4. old.kind = "message"
    BY <1>2, <2>3, ItemsByKey
  <2>5. /\ op.key = MessageKey(old.inbox, old.id)
        /\ {"kind", "inbox", "id", "thread"} \subseteq DOMAIN old /\ IsId(old.id) /\ old.thread \in ThreadIds
    BY <2>3, <2>4 DEF IsItem
  <2>6. \A a \in {"kind", "inbox", "id", "thread"} : a \in DOMAIN new /\ new[a] = old[a]
    BY <1>2, <2>5 DEF Updated
  <2> HIDE DEF new
  <2>7. /\ new.kind = "message" /\ new.inbox = old.inbox /\ new.id = old.id /\ new.thread = old.thread
        /\ {"kind", "inbox", "id", "thread"} \subseteq DOMAIN new
    BY <2>4, <2>6
  <2>8. IsItem(op.key, new)
    BY <2>5, <2>7 DEF IsItem
  <2>9. ApplyOp(table, op) = new
    BY <1>2 DEF ApplyOp, new, old
  <2> QED BY <2>8, <2>9
<1> QED BY <1>1, <1>2 DEF IsOp

LEMMA ImageIsFinite ==
    ASSUME NEW S, IsFiniteSet(S), NEW f, DOMAIN f = S
    PROVE  IsFiniteSet({f[x] : x \in S})
<1> DEFINE T == {f[x] : x \in S}
           g == [x \in S |-> f[x]]
<1>1. g \in Surjection(S, T)
  BY DEF Surjection
<1> HIDE DEF g, T
<1>2. IsFiniteSet(T)
  BY <1>1, FS_Surjection
<1> QED BY <1>2 DEF T

LEMMA CommitKeepsTable ==
    ASSUME NEW table, IsTable(table), NEW ops, IsPlan(ops), CanCommit(table, ops)
    PROVE  IsTable(Committed(table, ops))
<1> DEFINE after == Committed(table, ops)
           keys == {op.key : op \in ops}
           chosen(k) == CHOOSE op \in ops : op.key = k
<1>1. /\ DOMAIN after = DOMAIN table \cup keys
      /\ \A k \in DOMAIN after : after[k] = IF \E op \in ops : op.key = k THEN ApplyOp(table, chosen(k)) ELSE table[k]
  BY DEF Committed
<1>2. IsFiniteSet(keys)
  <2> DEFINE f == [op \in ops |-> op.key]
  <2>1. IsFiniteSet(ops) /\ DOMAIN f = ops /\ keys = {f[op] : op \in ops}
    BY DEF IsPlan
  <2> HIDE DEF f, keys
  <2> QED BY <2>1, ImageIsFinite
<1>3. IsFiniteSet(DOMAIN after)
  <2>1. IsFiniteSet(DOMAIN table)
    BY DEF IsTable
  <2> HIDE DEF after, keys
  <2>2. IsFiniteSet(DOMAIN table \cup keys)
    BY <1>2, <2>1, FS_Union
  <2> QED BY <1>1, <2>2, Zenon
<1>4. ASSUME NEW k \in DOMAIN after PROVE IsItem(k, after[k])
  <2>1. CASE \E op \in ops : op.key = k
    <3>1. chosen(k) \in ops /\ chosen(k).key = k
      BY <2>1
    <3>2. IsOp(chosen(k)) /\ Holds(table, chosen(k))
      BY <3>1 DEF IsPlan, CanCommit
    <3>3. after[k] = ApplyOp(table, chosen(k))
      BY <1>1, <2>1
    <3> HIDE DEF chosen, after
    <3> QED BY <3>1, <3>2, <3>3, OpLeavesItem
  <2>2. CASE ~\E op \in ops : op.key = k
    <3>1. k \in DOMAIN table /\ after[k] = table[k]
      BY <1>1, <2>2
    <3> QED BY <3>1 DEF IsTable
  <2> QED BY <2>1, <2>2
<1> QED BY <1>3, <1>4 DEF IsTable

LEMMA PutKeepsTable ==
    ASSUME NEW table, IsTable(table), NEW inbox \in Nat
    PROVE  IsTable(PutIfAbsent(table, [kind |-> "inbox", inbox |-> inbox]))
<1> DEFINE item == [kind |-> "inbox", inbox |-> inbox]
           after == PutIfAbsent(table, item)
<1>1. KeyOf(item) = InboxKey(inbox) /\ IsItem(KeyOf(item), item)
  BY DEF KeyOf, IsItem
<1>2. CASE KeyOf(item) \in DOMAIN table
  BY <1>2 DEF PutIfAbsent
<1>3. CASE KeyOf(item) \notin DOMAIN table
  <2>1. after = [k \in DOMAIN table \cup {KeyOf(item)} |-> IF k = KeyOf(item) THEN item ELSE table[k]]
    BY <1>3 DEF PutIfAbsent
  <2> HIDE DEF item, after
  <2>2. IsFiniteSet(DOMAIN after)
    BY <2>1, FS_AddElement DEF IsTable
  <2>3. \A k \in DOMAIN after : IsItem(k, after[k])
    BY <1>1, <2>1 DEF IsTable
  <2> QED BY <2>2, <2>3 DEF IsTable, after, item
<1> QED BY <1>2, <1>3

LEMMA GotIs ==
    ASSUME NEW table, IsTable(table), NEW key, NEW item \in Get(table, key)
    PROVE  IsItem(key, item) /\ key \in DOMAIN table /\ item = table[key]
  BY DEF Get, IsTable

LEMMA GetIsSmall ==
    ASSUME NEW table, NEW key
    PROVE  IsFiniteSet(Get(table, key)) /\ (Get(table, key) # {} => Get(table, key) = {table[key]})
  BY FS_EmptySet, FS_Singleton DEF Get

-----------------------------------------------------------------------------
(* The planners write items.                                               *)

LEMMA PutIsOp ==
    ASSUME NEW role, NEW item, NEW cond, IsItem(KeyOf(item), item)
    PROVE  IsOp(Put(role, item, cond))
  BY DEF IsOp, Put

LEMMA IsPlanUnion ==
    ASSUME NEW a, NEW b, IsPlan(a), IsPlan(b)
    PROVE  IsPlan(a \cup b)
  BY FS_Union DEF IsPlan

LEMMA PlansUnite ==
    ASSUME NEW S, IsFiniteSet(S), NEW f, DOMAIN f = S, \A x \in S : IsPlan(f[x])
    PROVE  IsPlan(UNION {f[x] : x \in S})
<1>1. IsFiniteSet({f[x] : x \in S})
  BY ImageIsFinite
<1>2. \A T \in {f[x] : x \in S} : IsFiniteSet(T)
  BY DEF IsPlan
<1>3. IsFiniteSet(UNION {f[x] : x \in S})
  BY <1>1, <1>2, FS_UNION
<1>4. \A op \in UNION {f[x] : x \in S} : IsOp(op)
  BY DEF IsPlan
<1> QED BY <1>3, <1>4 DEF IsPlan

LEMMA NewMessageIs ==
    ASSUME NEW m \in DOMAIN Mail, NEW thread \in ThreadIds, NEW msg, msg = MailMessage(m, thread)
    PROVE  /\ msg.inbox = Mail[m].inbox /\ msg.id = m /\ msg.thread = thread /\ msg.kind = "message"
           /\ KeyOf(msg) = MessageKey(msg.inbox, m) /\ IsItem(KeyOf(msg), msg)
<1>1. /\ msg.inbox = Mail[m].inbox /\ msg.id = m /\ msg.thread = thread /\ msg.kind = "message"
      /\ {"kind", "inbox", "id", "thread"} \subseteq DOMAIN msg
  BY DEF MailMessage
<1>2. KeyOf(msg) = MessageKey(msg.inbox, m)
  BY <1>1 DEF KeyOf
<1>3. IsId(m)
  BY MailIsWellFormed
<1> QED BY <1>1, <1>2, <1>3 DEF IsItem

ThreadKept == {"kind", "inbox", "thread", "timestamp"}

IsThread(t) ==
    /\ t.kind = "thread" /\ ThreadKept \subseteq DOMAIN t
    /\ t.thread \in ThreadIds /\ t.timestamp \in Nat

LEMMA ThreadsAreItems ==
    ASSUME NEW t, IsThread(t)
    PROVE  t.kind = "thread" /\ KeyOf(t) = ThreadKey(t.inbox, t.thread) /\ IsItem(KeyOf(t), t)
<1>1. t.kind = "thread"
  BY DEF IsThread
<1>2. KeyOf(t) = ThreadKey(t.inbox, t.thread)
  BY <1>1 DEF KeyOf
<1> QED BY <1>1, <1>2 DEF IsItem, IsThread, ThreadKept

LEMMA GotThreads ==
    ASSUME NEW table, IsTable(table), NEW i, NEW th, NEW t \in Get(table, ThreadKey(i, th))
    PROVE  IsThread(t)
<1>1. IsItem(ThreadKey(i, th), t)
  BY GotIs
<1>2. t.kind = "thread"
  BY <1>1, ItemsByKey
<1> QED BY <1>1, <1>2 DEF IsItem, IsThread, ThreadKept

LEMMA MsOfIsNat ==
    ASSUME NEW id \in Nat
    PROVE  MsOf(id) \in Nat
  BY MailTableAssumption DEF MsOf

LEMMA ThreadAfterIs ==
    ASSUME NEW table, IsTable(table), NEW m \in DOMAIN Mail, NEW thread \in ThreadIds,
           NEW msg, msg = MailMessage(m, thread), NEW i, NEW th
    PROVE  IsThread(ThreadAfter(msg, Get(table, ThreadKey(i, th))))
<1> DEFINE before == Get(table, ThreadKey(i, th))
<1>1. msg.thread \in ThreadIds /\ MsOf(msg.id) \in Nat
  BY NewMessageIs, MailIsWellFormed, MsOfIsNat DEF IsId
<1>2. CASE before = {}
  <2>1. ThreadAfter(msg, before) = NewThread(msg)
    BY <1>2 DEF ThreadAfter
  <2> DEFINE t == NewThread(msg)
  <2>2. t.kind = "thread" /\ ThreadKept \subseteq DOMAIN t /\ t.thread = msg.thread /\ t.timestamp = MsOf(msg.id)
    BY DEF NewThread, ThreadKept
  <2> HIDE DEF t
  <2>3. IsThread(t)
    BY <1>1, <2>2 DEF IsThread
  <2> QED BY <2>1, <2>3 DEF t
<1>3. CASE before # {}
  <2> DEFINE b == CHOOSE x \in before : TRUE
             t == ApplyMessage(b, msg)
  <2>1. b \in before
    BY <1>3
  <2>2. IsThread(b)
    BY <2>1, GotThreads
  <2>3. ThreadAfter(msg, before) = t
    BY <1>3 DEF ThreadAfter
  <2> HIDE DEF b
  <2>4. DOMAIN t = DOMAIN b
    BY DEF ApplyMessage
  <2>5. t.kind = b.kind /\ t.thread = b.thread
    BY <2>2 DEF IsThread, ThreadKept, ApplyMessage
  <2>6. t.timestamp = IF MsOf(msg.id) >= b.timestamp THEN MsOf(msg.id) ELSE b.timestamp
    BY <2>2 DEF IsThread, ThreadKept, ApplyMessage
  <2> HIDE DEF t
  <2>7. t.kind = "thread" /\ t.thread \in ThreadIds /\ t.timestamp \in Nat
    BY <1>1, <2>2, <2>5, <2>6 DEF IsThread
  <2>8. ThreadKept \subseteq DOMAIN t
    BY <2>2, <2>4 DEF IsThread
  <2>9. IsThread(t)
    BY <2>7, <2>8 DEF IsThread
  <2> QED BY <2>3, <2>9
<1> QED BY <1>2, <1>3

LEMMA AliasIsPlan ==
    ASSUME NEW msg, msg.thread \in ThreadIds, NEW rfc, NEW message
    PROVE  IsPlan(PutAlias(msg, rfc, message))
<1>1. CASE rfc.bytes > MaxAliasIdBytes
  <2>1. PutAlias(msg, rfc, message) = {}
    BY <1>1 DEF PutAlias
  <2> QED BY <2>1, FS_EmptySet DEF IsPlan
<1>2. CASE ~(rfc.bytes > MaxAliasIdBytes)
  <2> DEFINE op == [role |-> "RfcAlias", form |-> "alias", key |-> RfcAliasKey(msg.inbox, rfc.id),
           item |-> [kind |-> "rfc", message |-> message, thread |-> msg.thread, due |-> msg.due],
           remove |-> {}, cond |-> <<"None">>]
  <2>1. PutAlias(msg, rfc, message) = {op}
    BY <1>2 DEF PutAlias
  <2>2. IsItem(op.key, op.item) /\ op.form = "alias"
    BY DEF IsItem, RfcAliasKey
  <2> HIDE DEF op
  <2>3. IsOp(op)
    BY <2>2 DEF IsOp
  <2> QED BY <2>1, <2>3, FS_Singleton DEF IsPlan
<1> QED BY <1>1, <1>2

LEMMA OneOpIsPlan ==
    ASSUME NEW op, IsOp(op)
    PROVE  IsPlan({op})
  BY FS_Singleton DEF IsPlan

LEMMA NoOpIsPlan == IsPlan({})
  BY FS_EmptySet DEF IsPlan

LEMMA InsertIsPlan ==
    ASSUME NEW msg, msg.thread \in ThreadIds, IsItem(KeyOf(msg), msg), NEW before,
           NEW after, IsItem(KeyOf(after), after),
           NEW candidates, IsFiniteSet(DOMAIN candidates), NEW found
    PROVE  IsPlan(PlanInsert(msg, before, after, candidates, found))
<1> DEFINE row(r) == RfcAliasKey(msg.inbox, r.id)
           unmapped == {i \in DOMAIN candidates : candidates[i] # msg.rfc /\ row(candidates[i]) \notin DOMAIN found}
           claimable == row(msg.rfc) \in DOMAIN found => found[row(msg.rfc)].message = {}
           own == IF msg.rfc.bytes > 0 /\ claimable THEN PutAlias(msg, msg.rfc, {msg.id}) ELSE {}
           f == [i \in unmapped |-> PutAlias(msg, candidates[i], {})]
           both == {PutNew("Message", msg), PutVersioned("Thread", after, before)}
<1>1. IsPlan(both)
  <2>1. IsOp(PutNew("Message", msg)) /\ IsOp(PutVersioned("Thread", after, before))
    BY PutIsOp DEF PutNew, PutVersioned
  <2>2. IsPlan({PutNew("Message", msg)}) /\ IsPlan({PutVersioned("Thread", after, before)})
    BY <2>1, OneOpIsPlan
  <2>3. IsPlan({PutNew("Message", msg)} \cup {PutVersioned("Thread", after, before)})
    BY <2>2, IsPlanUnion
  <2>4. both = {PutNew("Message", msg)} \cup {PutVersioned("Thread", after, before)}
    OBVIOUS
  <2> HIDE DEF both
  <2> QED BY <2>3, <2>4
<1>2. IsPlan(own)
  <2>1. own = {} \/ own = PutAlias(msg, msg.rfc, {msg.id})
    OBVIOUS
  <2> HIDE DEF own
  <2> QED BY <2>1, NoOpIsPlan, AliasIsPlan
<1>3. IsPlan(UNION {f[i] : i \in unmapped})
  <2>1. IsFiniteSet(unmapped) /\ DOMAIN f = unmapped
    BY FS_Subset
  <2>2. \A i \in unmapped : IsPlan(f[i])
    BY AliasIsPlan
  <2> HIDE DEF f, unmapped
  <2> QED BY <2>1, <2>2, PlansUnite
<1>4. UNION {f[i] : i \in unmapped} = UNION {PutAlias(msg, candidates[i], {}) : i \in unmapped}
  OBVIOUS
<1>5. PlanInsert(msg, before, after, candidates, found)
        = (both \cup own) \cup UNION {PutAlias(msg, candidates[i], {}) : i \in unmapped}
  BY Zenon DEF PlanInsert
<1> HIDE DEF both, own, f, unmapped
<1>6. IsPlan((both \cup own) \cup UNION {f[i] : i \in unmapped})
  BY <1>1, <1>2, <1>3, IsPlanUnion
<1> QED BY <1>4, <1>5, <1>6

LEMMA PutsArePlan ==
    ASSUME NEW S, IsFiniteSet(S), NEW f, DOMAIN f = S, \A x \in S : IsOp(f[x])
    PROVE  IsPlan({f[x] : x \in S})
  BY ImageIsFinite DEF IsPlan

IsMessage(msg) ==
    /\ msg.kind = "message" /\ {"kind", "inbox", "id", "thread"} \subseteq DOMAIN msg
    /\ IsId(msg.id) /\ msg.thread \in ThreadIds

LEMMA GotMessages ==
    ASSUME NEW table, IsTable(table), NEW i, NEW m, NEW msg \in Get(table, MessageKey(i, m))
    PROVE  IsMessage(msg)
<1>1. IsItem(MessageKey(i, m), msg)
  BY GotIs
<1>2. msg.kind = "message"
  BY <1>1, ItemsByKey
<1> QED BY <1>1, <1>2 DEF IsItem, IsMessage

LEMMA RelabelIsOp ==
    ASSUME NEW msg, IsMessage(msg), NEW labels, NEW extra, DOMAIN extra \subseteq {"status"}
    PROVE  IsOp(UpdateMessageLabels(msg, labels, extra))
<1> DEFINE set == With(extra, "version", msg.version + 1)
           item == IF labels = {} THEN set ELSE With(set, "labels", labels)
           op == UpdateMessageLabels(msg, labels, extra)
<1>1. DOMAIN set \subseteq {"version", "status"}
  BY DEF With
<1>2. DOMAIN With(set, "labels", labels) = DOMAIN set \cup {"labels"}
  <2> HIDE DEF set
  <2> QED BY DEF With
<1>3. DOMAIN item \subseteq {"version", "labels", "status"}
  <2> HIDE DEF set
  <2> QED BY <1>1, <1>2
<1>4. /\ op.form = "update" /\ op.key = KeyOf(msg) /\ op.item = item
      /\ op.remove = (IF labels = {} THEN {"labels"} ELSE {}) /\ op.cond = <<"VersionEquals", msg.version>>
  BY DEF UpdateMessageLabels
<1>5. KeyOf(msg) = MessageKey(msg.inbox, msg.id)
  BY DEF IsMessage, KeyOf
<1> HIDE DEF op, item
<1>6. op.remove \subseteq {"labels"} /\ op.cond[1] = "VersionEquals"
  BY <1>4
<1>7. op.form = "update" /\ \E i, m : op.key = MessageKey(i, m)
  BY <1>4, <1>5
<1>8. DOMAIN op.item \subseteq {"version", "labels", "status"}
  BY <1>3, <1>4
<1>9. IsOp(op)
  BY <1>6, <1>7, <1>8 DEF IsOp
<1> QED BY <1>9 DEF op

LEMMA ThreadPutIsOp ==
    ASSUME NEW t, IsThread(t), NEW before
    PROVE  IsOp(PutVersioned("Thread", t, before))
  BY ThreadsAreItems, PutIsOp DEF PutVersioned

LEMMA StatePutIsOp ==
    ASSUME NEW m, NEW s, IsItem(SendStateKey(m), s), NEW t, DOMAIN t = DOMAIN s,
           t.kind = s.kind, t.id = s.id, NEW cond
    PROVE  IsOp(Put("SendState", t, cond))
<1>1. s.kind = "state"
  BY ItemsByKey
<1>2. /\ {"kind", "id"} \subseteq DOMAIN s /\ SendStateKey(m) = SendStateKey(s.id)
  BY <1>1 DEF IsItem
<1>3. KeyOf(t) = SendStateKey(t.id)
  BY <1>1 DEF KeyOf
<1>4. IsItem(KeyOf(t), t)
  BY <1>1, <1>2, <1>3 DEF IsItem
<1> QED BY <1>4, PutIsOp

LEMMA EnqueueIsPlan ==
    ASSUME NEW msg, msg.thread \in ThreadIds, IsItem(KeyOf(msg), msg), NEW m,
           NEW state, state = [kind |-> "state", id |-> m, status |-> "queued", version |-> 0],
           NEW key, IsFiniteSet(key), \A k \in key : IsItem(KeyOf(k), k),
           NEW before, NEW after, IsThread(after), NEW now
    PROVE  IsPlan(PlanEnqueue(msg, state, key, before, after, now))
<1> DEFINE f == [k \in key |-> Put("IdempotencyKey", k, <<"NotExistsOrExpired", now>>)]
           puts == {Put("IdempotencyKey", k, <<"NotExistsOrExpired", now>>) : k \in key}
           three == {PutNew("Message", msg), PutNew("SendState", state), PutVersioned("Thread", after, before)}
           own == PutAlias(msg, msg.rfc, {msg.id})
<1>1. IsPlan(puts)
  <2>1. \A k \in key : IsOp(f[k])
    BY PutIsOp
  <2>2. puts = {f[k] : k \in key} /\ DOMAIN f = key
    OBVIOUS
  <2> HIDE DEF f, puts
  <2> QED BY <2>1, <2>2, PutsArePlan
<1>2. IsPlan(three)
  <2>1. IsOp(PutNew("Message", msg)) /\ IsOp(PutVersioned("Thread", after, before))
    BY PutIsOp, ThreadPutIsOp DEF PutNew
  <2>2. IsItem(KeyOf(state), state)
    BY DEF KeyOf, IsItem
  <2>3. IsOp(PutNew("SendState", state))
    BY <2>2, PutIsOp DEF PutNew
  <2>4. IsPlan({PutNew("Message", msg)}) /\ IsPlan({PutVersioned("Thread", after, before)}) /\ IsPlan({PutNew("SendState", state)})
    BY <2>1, <2>3, OneOpIsPlan
  <2>5. IsPlan(({PutNew("Message", msg)} \cup {PutNew("SendState", state)}) \cup {PutVersioned("Thread", after, before)})
    BY <2>4, IsPlanUnion
  <2>6. three = ({PutNew("Message", msg)} \cup {PutNew("SendState", state)}) \cup {PutVersioned("Thread", after, before)}
    OBVIOUS
  <2> HIDE DEF three
  <2> QED BY <2>5, <2>6
<1>3. IsPlan(own)
  BY AliasIsPlan
<1>4. PlanEnqueue(msg, state, key, before, after, now) = (puts \cup three) \cup own
  BY Zenon DEF PlanEnqueue
<1> HIDE DEF puts, three, own
<1> QED BY <1>1, <1>2, <1>3, <1>4, IsPlanUnion

LEMMA MarkIsPlan ==
    ASSUME NEW msg, IsMessage(msg), NEW m, NEW held, IsItem(SendStateKey(m), held), NEW status,
           NEW labels, NEW threads, IsFiniteSet(threads), \A t \in threads : IsThread(t[2]),
           NEW ses, IsFiniteSet(ses)
    PROVE  IsPlan(PlanMark(held, [held EXCEPT !.status = status, !.version = @ + 1], msg, labels, threads, ses))
<1> DEFINE after == [held EXCEPT !.status = status, !.version = @ + 1]
           one == PutVersioned("SendState", after, {held})
           two == UpdateMessageLabels(msg, labels, [status |-> after.status])
           f == [t \in threads |-> PutVersioned("Thread", t[2], {t[1]})]
           puts == {PutVersioned("Thread", t[2], {t[1]}) : t \in threads}
           g == [s \in ses |-> PutAlias(msg, s, {msg.id})]
           aliases == UNION {PutAlias(msg, s, {msg.id}) : s \in ses}
           h == [s \in ses |-> Put("SesRef", [kind |-> "ref", ses |-> s.id, message |-> msg.id], <<"None">>)]
           refs == {Put("SesRef", [kind |-> "ref", ses |-> s.id, message |-> msg.id], <<"None">>) : s \in ses}
<1>1. IsOp(one)
  <2>1. DOMAIN after = DOMAIN held /\ after.kind = held.kind /\ after.id = held.id
    <3>1. held.kind = "state"
      BY ItemsByKey
    <3>2. {"kind", "id"} \subseteq DOMAIN held
      BY <3>1 DEF IsItem
    <3> QED BY <3>2
  <2> HIDE DEF after
  <2> QED BY <2>1, StatePutIsOp DEF PutVersioned
<1>2. IsOp(two)
  <2>1. DOMAIN [status |-> after.status] \subseteq {"status"}
    OBVIOUS
  <2> HIDE DEF after
  <2> QED BY <2>1, RelabelIsOp
<1>3. IsPlan({one, two})
  <2> HIDE DEF one, two
  <2>1. IsPlan({one} \cup {two})
    BY <1>1, <1>2, OneOpIsPlan, IsPlanUnion
  <2>2. {one, two} = {one} \cup {two}
    OBVIOUS
  <2> QED BY <2>1, <2>2
<1>4. IsPlan(puts)
  <2>1. \A t \in threads : IsOp(f[t])
    BY ThreadPutIsOp
  <2>2. puts = {f[t] : t \in threads} /\ DOMAIN f = threads
    OBVIOUS
  <2> HIDE DEF f, puts
  <2> QED BY <2>1, <2>2, PutsArePlan
<1>5. IsPlan(aliases)
  <2>1. \A s \in ses : IsPlan(g[s])
    BY AliasIsPlan DEF IsMessage
  <2>2. aliases = UNION {g[s] : s \in ses} /\ DOMAIN g = ses
    OBVIOUS
  <2> HIDE DEF g, aliases
  <2> QED BY <2>1, <2>2, PlansUnite
<1>6. IsPlan(refs)
  <2>1. ASSUME NEW s \in ses PROVE IsOp(h[s])
    <3> DEFINE ref == [kind |-> "ref", ses |-> s.id, message |-> msg.id]
    <3>1. KeyOf(ref) = SesRefKey(ref.ses) /\ IsItem(KeyOf(ref), ref)
      BY DEF KeyOf, IsItem
    <3>2. h[s] = Put("SesRef", ref, <<"None">>)
      OBVIOUS
    <3> HIDE DEF ref, h
    <3> QED BY <3>1, <3>2, PutIsOp
  <2>2. refs = {h[s] : s \in ses} /\ DOMAIN h = ses
    OBVIOUS
  <2> HIDE DEF h, refs
  <2> QED BY <2>1, <2>2, PutsArePlan
<1>7. PlanMark(held, after, msg, labels, threads, ses) = (({one, two} \cup puts) \cup aliases) \cup refs
  <2> HIDE DEF after
  <2> QED BY Zenon DEF PlanMark
<1> HIDE DEF one, two, puts, aliases, refs
<1>8. IsPlan((({one, two} \cup puts) \cup aliases) \cup refs)
  BY <1>3, <1>4, <1>5, <1>6, IsPlanUnion
<1> QED BY <1>7, <1>8

LEMMA PatchIsPlan ==
    ASSUME NEW msg, IsMessage(msg), NEW labels, NEW before, NEW after, IsThread(after)
    PROVE  IsPlan(PlanPatch(msg, labels, before, after))
<1> DEFINE one == UpdateMessageLabels(msg, labels, <<>>)
           two == PutVersioned("Thread", after, {before})
<1>1. IsOp(one) /\ IsOp(two)
  <2>1. DOMAIN <<>> \subseteq {"status"}
    OBVIOUS
  <2> QED BY <2>1, RelabelIsOp, ThreadPutIsOp
<1>2. PlanPatch(msg, labels, before, after) = {one} \cup {two}
  BY DEF PlanPatch
<1> HIDE DEF one, two
<1> QED BY <1>1, <1>2, OneOpIsPlan, IsPlanUnion

-----------------------------------------------------------------------------
(* The flows plan from what they read.                                     *)

JobFields == {"pc", "pending", "found", "rounds", "tries", "taken", "held", "ops", "answer"}

\* A call under way: what it has read is what its keys say.
IsJob(j, calls) ==
    /\ j = [f \in JobFields |-> j[f]] /\ j.pc \in {"idle", "aliases", "plan", "transact"}
    /\ \A key \in j.pending : key[1] = "RFC" /\ key \notin DOMAIN j.found
    /\ \A key \in DOMAIN j.found : j.found[key].thread \in ThreadIds
    /\ IsPlan(j.ops)
    /\ j.pc # "idle" => /\ calls # <<>> /\ Head(calls).op # "ensure"
                        /\ \A s \in j.held : IsItem(SendStateKey(Head(calls).msg), s)

AreJobs(jobs, scripts) ==
    /\ scripts \in [Writers -> Seq(Calls)] /\ jobs = [w \in Writers |-> jobs[w]]
    /\ \A w \in Writers : IsJob(jobs[w], scripts[w])

WritesAreSound == IsTable(items) /\ AreJobs(job, script)

LEMMA CallIs ==
    ASSUME NEW call \in Calls
    PROVE  /\ call.op \in {"ensure", "insert", "claim", "enqueue", "mark", "patch"}
           /\ call.op = "ensure" => call.inbox \in Nat
           /\ call.op # "ensure" => call.msg \in DOMAIN Mail
           /\ call.op = "enqueue" => IsFiniteSet(call.key)
<1>1. CASE call \in [op : {"ensure"}, inbox : Nat]
  BY <1>1
<1>2. CASE call \in [op : {"insert", "claim"}, msg : DOMAIN Mail]
  BY <1>2
<1>3. CASE call \in [op : {"enqueue"}, msg : DOMAIN Mail, key : {{}} \cup {{h} : h \in Keys}]
  <2>1. call.op = "enqueue" /\ call.msg \in DOMAIN Mail /\ call.key \in {{}} \cup {{h} : h \in Keys}
    BY <1>3
  <2>2. IsFiniteSet(call.key)
    BY <2>1, FS_EmptySet, FS_Singleton
  <2> QED BY <2>1, <2>2
<1>4. CASE call \in [op : {"mark"}, msg : DOMAIN Mail, outcome : {"sent", "failed", "unknown"}]
  BY <1>4
<1>5. CASE call \in [op : {"patch"}, msg : DOMAIN Mail, add : SUBSET Labels, remove : SUBSET Labels]
  BY <1>5
<1> QED BY <1>1, <1>2, <1>3, <1>4, <1>5 DEF Calls

LEMMA TaskIs ==
    ASSUME NEW scripts \in [Writers -> Seq(Calls)], NEW w \in Writers, scripts[w] # <<>>
    PROVE  Head(scripts[w]) \in Calls /\ Tail(scripts[w]) \in Seq(Calls)
<1>1. scripts[w] \in Seq(Calls)
  OBVIOUS
<1> QED BY <1>1

LEMMA IdleIsJob ==
    ASSUME NEW calls, NEW answer
    PROVE  IsJob([Idle EXCEPT !.answer = answer], calls) /\ IsJob(Idle, calls)
<1> DEFINE j == [Idle EXCEPT !.answer = answer]
<1>1. /\ j = [f \in JobFields |-> j[f]] /\ j.pc = "idle" /\ j.pending = {} /\ DOMAIN j.found = {} /\ j.ops = {}
      /\ Idle = [f \in JobFields |-> Idle[f]] /\ Idle.pc = "idle" /\ Idle.pending = {} /\ DOMAIN Idle.found = {}
      /\ Idle.ops = {}
  BY DEF Idle, JobFields
<1> HIDE DEF j
<1>2. IsJob(j, calls) /\ IsJob(Idle, calls)
  BY <1>1, NoOpIsPlan DEF IsJob
<1> QED BY <1>2 DEF j

LEMMA JobMoves ==
    ASSUME AreJobs(job, script), NEW w \in Writers, NEW j, IsJob(j, script[w]),
           job' = [job EXCEPT ![w] = j], script' = script
    PROVE  AreJobs(job', script')
<1>1. \A v \in Writers : job'[v] = IF v = w THEN j ELSE job[v]
  BY DEF AreJobs
<1>2. job' = [v \in Writers |-> job'[v]]
  BY DEF AreJobs
<1> QED BY <1>1, <1>2 DEF AreJobs

LEMMA JobEnds ==
    ASSUME AreJobs(job, script), NEW w \in Writers, script[w] # <<>>, NEW answer, Ends(w, answer)
    PROVE  AreJobs(job', script')
<1> DEFINE j == [Idle EXCEPT !.answer = answer]
<1>0. script \in [Writers -> Seq(Calls)]
  BY DEF AreJobs
<1>1. job' = [job EXCEPT ![w] = j] /\ script' = [script EXCEPT ![w] = Tail(script[w])]
  BY <1>0 DEF Ends
<1> HIDE DEF j
<1>2. \A v \in Writers : job'[v] = (IF v = w THEN j ELSE job[v]) /\ (v # w => script'[v] = script[v])
  BY <1>0, <1>1 DEF AreJobs
<1>3. job' = [v \in Writers |-> job'[v]]
  BY <1>1 DEF AreJobs
<1>4. Tail(script[w]) \in Seq(Calls)
  BY <1>0, TaskIs
<1>5. script' \in [Writers -> Seq(Calls)]
  BY <1>0, <1>1, <1>4
<1>6. IsJob(j, script'[w])
  BY IdleIsJob DEF j
<1> QED BY <1>2, <1>3, <1>5, <1>6 DEF AreJobs

LEMMA AliasKeysAre ==
    ASSUME NEW m, NEW key \in AliasKeys(m)
    PROVE  key[1] = "RFC"
  BY DEF AliasKeys, RfcAliasKey

LEMMA FoundThreadIs ==
    ASSUME NEW m \in DOMAIN Mail, NEW found, \A key \in DOMAIN found : found[key].thread \in ThreadIds
    PROVE  FoundThread(m, found) \in ThreadIds
<1> DEFINE row(r) == RfcAliasKey(Mail[m].inbox, r.id)
           hits == {i \in DOMAIN Mail[m].candidates : row(Mail[m].candidates[i]) \in DOMAIN found}
<1>1. CASE hits = {}
  <2>1. FoundThread(m, found) = Mail[m].thread
    BY <1>1 DEF FoundThread
  <2> QED BY <2>1, MailIsWellFormed
<1>2. CASE hits # {}
  <2>1. FoundThread(m, found) = found[row(Mail[m].candidates[Min(hits)])].thread
    BY <1>2 DEF FoundThread
  <2>2. Mail[m].candidates \in Seq(Range(Mail[m].candidates))
    BY MailIsWellFormed
  <2> DEFINE n == Len(Mail[m].candidates)
  <2>3. DOMAIN Mail[m].candidates = 1 .. n /\ n \in Nat
    BY <2>2
  <2>4. hits \subseteq 1 .. n
    BY <2>3
  <2>5. Min(hits) \in hits
    <3> HIDE DEF hits, n
    <3>1. \E i \in hits : \A k \in hits : i <= k
      <4> DEFINE R == {ss \in Nat \X Nat : ss[1] < ss[2]}
      <4>1. IsWellFoundedOn(R, Nat)
        BY NatLessThanWellFounded DEF OpToRel
      <4>2. hits \subseteq Nat
        BY <2>3, <2>4
      <4>3. PICK i \in hits : \A k \in hits : ~(<<k, i>> \in R)
        <5> HIDE DEF R
        <5> QED BY <1>2, <4>1, <4>2, WFMin
      <4>4. ASSUME NEW k \in hits PROVE i <= k
        <5>1. k \in Nat /\ i \in Nat /\ ~(<<k, i>> \in R)
          BY <4>2, <4>3
        <5>2. ~(k < i)
          BY <5>1
        <5> QED BY <5>1, <5>2
      <4> QED BY <4>4
    <3> QED BY <3>1 DEF Min
  <2>6. row(Mail[m].candidates[Min(hits)]) \in DOMAIN found
    BY <2>5
  <2> QED BY <2>1, <2>6
<1> QED BY <1>1, <1>2

LEMMA RelabelledAre ==
    ASSUME IsTable(items), NEW msg, NEW labels
    PROVE  /\ IsFiniteSet(Relabelled(msg, labels))
           /\ \A t \in Relabelled(msg, labels) : IsThread(t[2])
<1> DEFINE S == IF labels = LabelsOf(msg) THEN {} ELSE Get(items, ThreadKey(msg.inbox, msg.thread))
           after(t) == ApplyLabelPatch(t, labels \ LabelsOf(msg), LabelsOf(msg) \ labels)
           f == [t \in S |-> <<t, after(t)>>]
<1>1. Relabelled(msg, labels) = {f[t] : t \in S} /\ DOMAIN f = S
  BY DEF Relabelled
<1>2. IsFiniteSet(S)
  BY GetIsSmall, FS_EmptySet
<1>3. IsFiniteSet({f[t] : t \in S})
  <2> HIDE DEF S, f
  <2> QED BY <1>1, <1>2, ImageIsFinite
<1>4. ASSUME NEW t \in S PROVE IsThread(after(t))
  <2>1. IsThread(t)
    BY GotThreads
  <2> DEFINE n == after(t)
  <2>2. DOMAIN n = DOMAIN t
    BY DEF ApplyLabelPatch
  <2>3. n.kind = t.kind /\ n.thread = t.thread /\ n.timestamp = t.timestamp
    BY <2>1 DEF IsThread, ThreadKept, ApplyLabelPatch
  <2> HIDE DEF n, after
  <2>4. IsThread(n)
    BY <2>1, <2>2, <2>3 DEF IsThread
  <2> QED BY <2>4 DEF n
<1>5. \A t \in S : f[t][2] = after(t)
  OBVIOUS
<1> HIDE DEF S, after, f
<1> QED BY <1>1, <1>3, <1>4, <1>5

LEMMA PlansAreSound ==
    ASSUME IsTable(items), NEW w \in Writers, Task(w) \in Calls, Task(w).op # "ensure",
           \A key \in DOMAIN job[w].found : job[w].found[key].thread \in ThreadIds,
           \A s \in job[w].held : IsItem(SendStateKey(Task(w).msg), s)
    PROVE  \A ops \in PlanOf(w) : IsPlan(ops)
<1> DEFINE m == Task(w).msg
<1>0. m \in DOMAIN Mail
  BY CallIs
<1>1. CASE Task(w).op = "insert"
  <2> DEFINE msg == MailMessage(m, FoundThread(m, job[w].found))
             before == Get(items, ThreadKey(msg.inbox, msg.thread))
  <2>1. FoundThread(m, job[w].found) \in ThreadIds
    BY <1>0, FoundThreadIs
  <2>2. msg.thread \in ThreadIds /\ IsItem(KeyOf(msg), msg) /\ IsThread(ThreadAfter(msg, before))
    BY <1>0, <2>1, NewMessageIs, ThreadAfterIs
  <2>3. IsItem(KeyOf(ThreadAfter(msg, before)), ThreadAfter(msg, before))
    BY <2>2, ThreadsAreItems
  <2>4. IsFiniteSet(DOMAIN Mail[m].candidates)
    <3>1. Mail[m].candidates \in Seq(Range(Mail[m].candidates))
      BY <1>0, MailIsWellFormed
    <3>2. DOMAIN Mail[m].candidates = 1 .. Len(Mail[m].candidates) /\ Len(Mail[m].candidates) \in Nat
      BY <3>1
    <3> QED BY <3>2, FS_Interval
  <2>5. PlanOf(w) = {PlanInsert(msg, before, ThreadAfter(msg, before), Mail[m].candidates, job[w].found)}
    BY <1>1 DEF PlanOf, InsertPlan
  <2> HIDE DEF msg, before, m
  <2> QED BY <2>2, <2>3, <2>4, <2>5, InsertIsPlan
<1>2. CASE Task(w).op = "enqueue"
  <2> DEFINE msg == MailMessage(m, Mail[m].thread)
             before == Get(items, ThreadKey(msg.inbox, msg.thread))
             state == [kind |-> "state", id |-> m, status |-> "queued", version |-> 0]
             item(h) == [kind |-> "key", hash |-> h, message |-> m, expires |-> Now]
             key == {item(h) : h \in Task(w).key}
             f == [h \in Task(w).key |-> item(h)]
  <2>1. msg.thread \in ThreadIds /\ IsItem(KeyOf(msg), msg) /\ IsThread(ThreadAfter(msg, before))
    BY <1>0, MailIsWellFormed, NewMessageIs, ThreadAfterIs
  <2>2. IsFiniteSet(key)
    <3>1. IsFiniteSet(Task(w).key)
      BY <1>2, CallIs
    <3>2. key = {f[h] : h \in Task(w).key} /\ DOMAIN f = Task(w).key
      OBVIOUS
    <3> HIDE DEF key, f
    <3> QED BY <3>1, <3>2, ImageIsFinite
  <2>3. \A k \in key : IsItem(KeyOf(k), k)
    BY DEF KeyOf, IsItem
  <2>4. PlanOf(w) = {PlanEnqueue(msg, state, key, before, ThreadAfter(msg, before), Now)}
    BY <1>2 DEF PlanOf, EnqueuePlan
  <2> HIDE DEF msg, before, m, key
  <2> QED BY <2>1, <2>2, <2>3, <2>4, EnqueueIsPlan
<1>3. CASE Task(w).op = "claim"
  <2> DEFINE queued == {s \in Get(items, SendStateKey(m)) : s.status = "queued"}
             after(s) == [s EXCEPT !.status = "sending", !.version = @ + 1]
  <2>1. PlanOf(w) = {PlanStateCas(s, after(s), "queued") : s \in queued}
    BY <1>3 DEF PlanOf, ClaimPlan
  <2>2. ASSUME NEW s \in queued PROVE IsPlan(PlanStateCas(s, after(s), "queued"))
    <3> DEFINE op == Put("SendState", after(s), <<"All", [status |-> "queued", version |-> s.version]>>)
    <3>1. IsItem(SendStateKey(m), s)
      BY GotIs
    <3>2. s.kind = "state"
      BY <3>1, ItemsByKey
    <3>3. {"kind", "id"} \subseteq DOMAIN s
      BY <3>1, <3>2 DEF IsItem
    <3>4. DOMAIN after(s) = DOMAIN s /\ after(s).kind = s.kind /\ after(s).id = s.id
      BY <3>3
    <3>5. PlanStateCas(s, after(s), "queued") = {op}
      BY DEF PlanStateCas
    <3> HIDE DEF after
    <3>6. IsOp(op)
      BY <3>1, <3>4, StatePutIsOp
    <3> QED BY <3>5, <3>6, OneOpIsPlan
  <2> HIDE DEF queued, after
  <2> QED BY <2>1, <2>2
<1>4. CASE Task(w).op = "mark"
  <2> DEFINE messages == Get(items, MessageKey(Mail[m].inbox, m))
             labels(msg) == MarkLabels(LabelsOf(msg), Task(w).outcome)
             ses == IF Task(w).outcome = "sent" THEN Mail[m].ses ELSE {}
             plan(s, msg) == PlanMark(s, [s EXCEPT !.status = Task(w).outcome, !.version = @ + 1], msg, labels(msg),
                                      Relabelled(msg, labels(msg)), ses)
  <2>1. PlanOf(w) = {plan(s, msg) : s \in job[w].held, msg \in messages}
    BY <1>4 DEF PlanOf, MarkPlan
  <2>2. ASSUME NEW s \in job[w].held, NEW msg \in messages PROVE IsPlan(plan(s, msg))
    <3>1. IsMessage(msg)
      BY GotMessages
    <3>2. IsItem(SendStateKey(m), s)
      OBVIOUS
    <3>3. IsFiniteSet(ses)
      BY <1>0, MailIsWellFormed, FS_EmptySet
    <3> HIDE DEF ses, labels, m
    <3>4. /\ IsFiniteSet(Relabelled(msg, labels(msg)))
          /\ \A t \in Relabelled(msg, labels(msg)) : IsThread(t[2])
      BY RelabelledAre
    <3> QED BY <3>1, <3>2, <3>3, <3>4, MarkIsPlan
  <2> HIDE DEF plan, messages
  <2> QED BY <2>1, <2>2
<1>5. CASE Task(w).op = "patch"
  <2> DEFINE messages == Get(items, MessageKey(Mail[m].inbox, m))
             after(msg) == (LabelsOf(msg) \cup Task(w).add) \ Task(w).remove
             plans(msg) == {PlanPatch(msg, after(msg), t[1], t[2]) : t \in Relabelled(msg, after(msg))}
  <2>1. PlanOf(w) = UNION {plans(msg) : msg \in messages}
    BY <1>5 DEF PlanOf, PatchPlan
  <2>2. ASSUME NEW msg \in messages, NEW ops \in plans(msg) PROVE IsPlan(ops)
    <3>1. IsMessage(msg)
      BY GotMessages
    <3> HIDE DEF after
    <3>2. PICK t \in Relabelled(msg, after(msg)) : ops = PlanPatch(msg, after(msg), t[1], t[2])
      OBVIOUS
    <3>3. IsThread(t[2])
      BY RelabelledAre
    <3> QED BY <3>1, <3>2, <3>3, PatchIsPlan
  <2> HIDE DEF plans, messages
  <2> QED BY <2>1, <2>2
<1> QED BY <1>1, <1>2, <1>3, <1>4, <1>5, CallIs

LEMMA StartsAJob ==
    ASSUME AreJobs(job, script), NEW w \in Writers, IsTable(items), Begins(w)
    PROVE  AreJobs(job', script')
<1> DEFINE m == Task(w).msg
           pc == IF Task(w).op = "insert" /\ AliasKeys(m) # {} THEN "aliases" ELSE "plan"
           pending == IF Task(w).op = "insert" THEN AliasKeys(m) ELSE {}
           held == IF Task(w).op = "mark" THEN Get(items, SendStateKey(m)) ELSE {}
           j == [Idle EXCEPT !.pc = pc, !.pending = pending, !.held = held]
<1>1. /\ job' = [job EXCEPT ![w] = j] /\ script' = script
      /\ script[w] # <<>> /\ Task(w).op # "ensure"
  BY DEF Begins
<1>2. pc \in {"aliases", "plan"}
  OBVIOUS
<1>3. \A key \in pending : key[1] = "RFC"
  BY AliasKeysAre
<1>4. \A s \in held : IsItem(SendStateKey(m), s)
  BY GotIs
<1> HIDE DEF pc, pending, held
<1>5. /\ j = [f \in JobFields |-> j[f]] /\ j.pc = pc /\ j.pending = pending /\ DOMAIN j.found = {}
      /\ j.ops = {} /\ j.held = held
  <2>1. /\ Idle = [f \in JobFields |-> Idle[f]] /\ DOMAIN Idle.found = {} /\ Idle.ops = {}
    BY DEF Idle, JobFields
  <2>2. j = [f \in JobFields |-> j[f]]
    BY <2>1 DEF JobFields
  <2>3. j.pc = pc /\ j.pending = pending /\ j.held = held
    BY <2>1 DEF JobFields
  <2>4. j.found = Idle.found /\ j.ops = Idle.ops
    BY <2>1 DEF JobFields
  <2> QED BY <2>1, <2>2, <2>3, <2>4
<1> HIDE DEF j
<1>6. IsJob(j, script[w])
  BY <1>1, <1>2, <1>3, <1>4, <1>5, NoOpIsPlan DEF IsJob, Task
<1> QED BY <1>1, <1>6, JobMoves

LEMMA BatchStep ==
    ASSUME AreJobs(job, script), NEW w \in Writers, IsTable(items), BatchGets(w)
    PROVE  AreJobs(job', script')
<1>1. PICK answered \in SUBSET job[w].pending :
         \/ Ends(w, "transient")
         \/ /\ job' = [job EXCEPT ![w].found = BatchGot(items, @, answered),
                                  ![w].pending = job[w].pending \ answered, ![w].rounds = @ + 1,
                                  ![w].pc = IF job[w].pending \ answered = {} THEN "plan" ELSE "aliases"]
            /\ script' = script
  BY DEF BatchGets
<1>2. job[w].pc = "aliases" /\ IsJob(job[w], script[w]) /\ job = [v \in Writers |-> job[v]]
  BY DEF BatchGets, AreJobs
<1>3. script[w] # <<>>
  BY <1>2 DEF IsJob
<1>4. CASE Ends(w, "transient")
  BY <1>3, <1>4, JobEnds
<1>5. CASE ~Ends(w, "transient")
  <2> DEFINE old == job[w]
             found == BatchGot(items, old.found, answered)
             pending == old.pending \ answered
             pc == IF pending = {} THEN "plan" ELSE "aliases"
             j == [old EXCEPT !.found = found, !.pending = pending, !.rounds = @ + 1, !.pc = pc]
  <2>1. job' = [job EXCEPT ![w] = j] /\ script' = script
    BY <1>1, <1>2, <1>5
  <2>2. ASSUME NEW key \in DOMAIN found PROVE found[key].thread \in ThreadIds
    <3>1. CASE key \in answered
      <4>1. key \in DOMAIN found /\ found[key] = items[key]
        BY <3>1 DEF BatchGot
      <4>2. key \in DOMAIN old.found \cup (answered \cap DOMAIN items)
        BY DEF BatchGot
      <4>3. key[1] = "RFC"
        BY <1>2, <3>1 DEF IsJob
      <4>4. key \in DOMAIN items
        BY <1>2, <3>1, <4>2 DEF IsJob
      <4>5. IsItem(key, items[key])
        BY <4>4 DEF IsTable
      <4> HIDE DEF found, old
      <4> QED BY <4>1, <4>3, <4>5, ItemsByKey
    <3>2. CASE key \notin answered
      <4>1. key \in DOMAIN old.found /\ found[key] = old.found[key]
        BY <3>2 DEF BatchGot
      <4> QED BY <1>2, <4>1 DEF IsJob
    <3> QED BY <3>1, <3>2
  <2>3. old = [f \in JobFields |-> old[f]]
    BY <1>2 DEF IsJob
  <2>9. \A key \in pending : key[1] = "RFC" /\ key \notin DOMAIN found
    <3>1. DOMAIN found = DOMAIN old.found \cup (answered \cap DOMAIN items)
      BY DEF BatchGot
    <3> QED BY <1>2, <3>1 DEF IsJob
  <2> HIDE DEF found, old
  <2>4. /\ j = [f \in JobFields |-> j[f]] /\ j.found = found /\ j.pending = pending /\ j.pc = pc
        /\ j.ops = old.ops /\ j.held = old.held
    BY <2>3 DEF JobFields
  <2>5. pc \in {"plan", "aliases"}
    OBVIOUS
  <2> HIDE DEF j, pending, pc
  <2>6. IsJob(j, script[w])
    BY <1>2, <2>2, <2>4, <2>5, <2>9 DEF IsJob, old
  <2> QED BY <2>1, <2>6, JobMoves
<1> QED BY <1>4, <1>5

LEMMA PlanStep ==
    ASSUME AreJobs(job, script), NEW w \in Writers, IsTable(items), Plans(w)
    PROVE  AreJobs(job', script')
<1>1. IsJob(job[w], script[w]) /\ job[w].pc = "plan" /\ script[w] # <<>>
  BY DEF Plans, AreJobs, IsJob
<1>2. Task(w) \in Calls /\ Task(w).op # "ensure"
  BY <1>1, TaskIs DEF AreJobs, IsJob, Task
<1>3. \A ops \in PlanOf(w) : IsPlan(ops)
  BY <1>1, <1>2, PlansAreSound DEF IsJob, Task
<1>4. CASE Ends(w, "nothing")
  BY <1>1, <1>4, JobEnds
<1>5. CASE ~Ends(w, "nothing")
  <2>1. PICK ops \in PlanOf(w) :
           /\ job' = [job EXCEPT ![w].pc = "transact", ![w].ops = DropTakenAliases(ops, job[w].taken)]
           /\ script' = script
    BY <1>5 DEF Plans
  <2> DEFINE old == job[w]
             left == DropTakenAliases(ops, old.taken)
             j == [old EXCEPT !.pc = "transact", !.ops = left]
  <2>2. IsPlan(ops)
    BY <1>3
  <2>3. left \subseteq ops
    BY DEF DropTakenAliases
  <2>4. IsPlan(left)
    <3> HIDE DEF left
    <3> QED BY <2>2, <2>3, FS_Subset DEF IsPlan
  <2>5. job' = [job EXCEPT ![w] = j]
    BY <2>1 DEF AreJobs
  <2>6. old = [f \in JobFields |-> old[f]]
    BY <1>1 DEF IsJob
  <2> HIDE DEF left, old
  <2>7. /\ j = [f \in JobFields |-> j[f]] /\ j.pc = "transact" /\ j.ops = left
        /\ j.found = old.found /\ j.pending = old.pending /\ j.held = old.held
    BY <2>6 DEF JobFields
  <2> HIDE DEF j
  <2>8. IsJob(j, script[w])
    BY <1>1, <2>4, <2>7 DEF IsJob, old
  <2> QED BY <2>1, <2>5, <2>8, JobMoves
<1> QED BY <1>4, <1>5

LEMMA AgainStep ==
    ASSUME AreJobs(job, script), NEW w \in Writers, job[w].pc = "transact", NEW answer, NEW taken,
           Again(w, answer, taken)
    PROVE  AreJobs(job', script')
<1>1. IsJob(job[w], script[w]) /\ script[w] # <<>>
  BY DEF AreJobs, IsJob
<1>2. CASE job[w].tries = MaxTxnRetries
  BY <1>1, <1>2, JobEnds DEF Again
<1>3. CASE job[w].tries # MaxTxnRetries
  <2> DEFINE old == job[w]
             pc == IF Task(w).op = "insert" /\ AliasKeys(Task(w).msg) # {} THEN "aliases" ELSE "plan"
             pending == IF Task(w).op = "insert" THEN AliasKeys(Task(w).msg) ELSE {}
             found == <<>>
             j == [old EXCEPT !.pc = pc, !.pending = pending, !.found = found, !.rounds = 0, !.tries = @ + 1,
                              !.taken = @ \cup taken, !.answer = answer]
  <2>1. job' = [job EXCEPT ![w] = j] /\ script' = script
    <3>1. job' = [job EXCEPT ![w].pc = pc, ![w].pending = pending, ![w].found = found, ![w].rounds = 0,
                             ![w].tries = @ + 1, ![w].taken = @ \cup taken, ![w].answer = answer]
          /\ script' = script
      BY <1>3 DEF Again
    <3>2. job = [v \in Writers |-> job[v]]
      BY DEF AreJobs
    <3> HIDE DEF pc, pending, found
    <3> QED BY <3>1, <3>2
  <2>2. pc \in {"aliases", "plan"} /\ \A key \in pending : key[1] = "RFC"
    BY AliasKeysAre
  <2>3. old = [f \in JobFields |-> old[f]]
    BY <1>1 DEF IsJob
  <2>6. DOMAIN found = {}
    OBVIOUS
  <2> HIDE DEF old, pc, pending, found
  <2>4. /\ j = [f \in JobFields |-> j[f]] /\ j.pc = pc /\ j.ops = old.ops
        /\ j.found = found /\ j.pending = pending /\ j.held = old.held
    BY <2>3 DEF JobFields
  <2> HIDE DEF j
  <2>5. IsJob(j, script[w])
    BY <1>1, <2>2, <2>4, <2>6 DEF IsJob, old
  <2> QED BY <2>1, <2>5, JobMoves
<1> QED BY <1>2, <1>3

LEMMA CancelStep ==
    ASSUME AreJobs(job, script), NEW w \in Writers, Cancelled(w)
    PROVE  AreJobs(job', script')
<1>1. job[w].pc = "transact" /\ script[w] # <<>>
  BY DEF Cancelled, AreJobs, IsJob
<1>2. \/ \E answer, taken : Again(w, answer, taken)
      \/ \E answer : Ends(w, answer)
  <2>1. PICK reasons \in Reasons(items, job[w].ops) :
          LET decision == DecodeCancellation(job[w].ops, reasons)
              taken == TakenAliases(job[w].ops, reasons)
          IN  CASE decision = "Retry" -> Again(w, decision, {})
                [] decision = "VersionConflict" ->
                      IF LostClaim(w) THEN Ends(w, "conflict") ELSE Again(w, decision, {})
                [] decision = "AliasTaken" ->
                      Again(w, decision, IF Task(w).op = "insert" THEN {} ELSE taken)
                [] OTHER -> Ends(w, decision)
    BY DEF Cancelled
  <2> DEFINE decision == DecodeCancellation(job[w].ops, reasons)
             taken == TakenAliases(job[w].ops, reasons)
             given == IF Task(w).op = "insert" THEN {} ELSE taken
  <2>2. (CASE decision = "Retry" -> Again(w, decision, {})
           [] decision = "VersionConflict" -> IF LostClaim(w) THEN Ends(w, "conflict") ELSE Again(w, decision, {})
           [] decision = "AliasTaken" -> Again(w, decision, given)
           [] OTHER -> Ends(w, decision))
    BY <2>1
  <2> HIDE DEF decision, taken, given
  <2>3. CASE decision = "Retry"
    <3>1. Again(w, decision, {})
      BY <2>2, <2>3
    <3> QED BY <3>1
  <2>4. CASE decision = "VersionConflict"
    <3>1. IF LostClaim(w) THEN Ends(w, "conflict") ELSE Again(w, decision, {})
      BY <2>2, <2>4
    <3> QED BY <3>1
  <2>5. CASE decision = "AliasTaken"
    <3>1. Again(w, decision, given)
      BY <2>2, <2>5
    <3> QED BY <3>1
  <2>6. CASE decision \notin {"Retry", "VersionConflict", "AliasTaken"}
    <3>1. Ends(w, decision)
      BY <2>2, <2>6
    <3> QED BY <3>1
  <2> QED BY <2>3, <2>4, <2>5, <2>6
<1>3. ASSUME NEW answer, NEW taken, Again(w, answer, taken) PROVE AreJobs(job', script')
  BY <1>1, <1>3, AgainStep
<1>4. ASSUME NEW answer, Ends(w, answer) PROVE AreJobs(job', script')
  BY <1>1, <1>4, JobEnds
<1> QED BY <1>2, <1>3, <1>4

LEMMA ReapKeepsTable ==
    ASSUME NEW table, IsTable(table), NEW k
    PROVE  IsTable([j \in DOMAIN table \ {k} |-> table[j]])
<1> DEFINE after == [j \in DOMAIN table \ {k} |-> table[j]]
<1>1. IsFiniteSet(DOMAIN table \ {k})
  BY FS_Subset DEF IsTable
<1> QED BY <1>1 DEF IsTable

\* Whatever the writers do, and whatever is reaped, the table holds items.
LEMMA WritesKeepSound ==
    ASSUME WritesAreSound, WriteNext
    PROVE  WritesAreSound'
<1>0. IsTable(items) /\ AreJobs(job, script)
  BY DEF WritesAreSound
<1>1. ASSUME NEW w \in Writers, Begins(w) PROVE WritesAreSound'
  <2>1. items' = items
    BY <1>1 DEF Begins
  <2> QED BY <1>0, <1>1, <2>1, StartsAJob DEF WritesAreSound
<1>2. ASSUME NEW w \in Writers, EnsuresInbox(w) PROVE WritesAreSound'
  <2>1. /\ script[w] # <<>> /\ Task(w).op = "ensure" /\ Ends(w, "ensured")
        /\ items' = PutIfAbsent(items, [kind |-> "inbox", inbox |-> Task(w).inbox])
    BY <1>2 DEF EnsuresInbox
  <2>2. Task(w) \in Calls
    BY <1>0, <2>1, TaskIs DEF AreJobs, Task
  <2>3. Task(w).inbox \in Nat
    BY <2>1, <2>2, CallIs
  <2>4. IsTable(items')
    BY <1>0, <2>1, <2>3, PutKeepsTable
  <2>5. AreJobs(job', script')
    BY <1>0, <2>1, JobEnds
  <2> QED BY <2>4, <2>5 DEF WritesAreSound
<1>3. ASSUME NEW w \in Writers, BatchGets(w) PROVE WritesAreSound'
  <2>1. items' = items
    BY <1>3 DEF BatchGets
  <2> QED BY <1>0, <1>3, <2>1, BatchStep DEF WritesAreSound
<1>4. ASSUME NEW w \in Writers, Plans(w) PROVE WritesAreSound'
  <2>1. items' = items
    BY <1>4 DEF Plans
  <2> QED BY <1>0, <1>4, <2>1, PlanStep DEF WritesAreSound
<1>5. ASSUME NEW w \in Writers, Commits(w) PROVE WritesAreSound'
  <2>1. /\ job[w].pc = "transact" /\ CanCommit(items, job[w].ops) /\ items' = Committed(items, job[w].ops)
        /\ Ends(w, "committed")
    BY <1>5 DEF Commits
  <2>2. IsJob(job[w], script[w])
    BY <1>0 DEF AreJobs
  <2>3. script[w] # <<>> /\ IsPlan(job[w].ops)
    BY <2>1, <2>2 DEF IsJob
  <2>4. IsTable(items')
    BY <1>0, <2>1, <2>3, CommitKeepsTable
  <2>5. AreJobs(job', script')
    BY <1>0, <2>1, <2>3, JobEnds
  <2> QED BY <2>4, <2>5 DEF WritesAreSound
<1>6. ASSUME NEW w \in Writers, Cancelled(w) PROVE WritesAreSound'
  <2>1. items' = items
    BY <1>6 DEF Cancelled
  <2> QED BY <1>0, <1>6, <2>1, CancelStep DEF WritesAreSound
<1>7. ASSUME Reaps PROVE WritesAreSound'
  <2>1. PICK k \in DOMAIN items : items' = [j \in DOMAIN items \ {k} |-> items[j]]
    BY <1>7 DEF Reaps
  <2>2. job' = job /\ script' = script
    BY <1>7 DEF Reaps
  <2> QED BY <1>0, <2>1, <2>2, ReapKeepsTable DEF WritesAreSound
<1> QED BY <1>1, <1>2, <1>3, <1>4, <1>5, <1>6, <1>7 DEF WriteNext, Writes

LEMMA WritesStartSound ==
    ASSUME NEW scenario \in Scenarios, WriteInit(scenario)
    PROVE  WritesAreSound
<1>1. /\ items = scenario.stored /\ script = scenario.script /\ job = [w \in Writers |-> Idle]
  BY DEF WriteInit
<1>2. IsTable(items) /\ script \in [Writers -> Seq(Calls)]
  BY <1>1, ScriptsAreWellFormed
<1>3. job = [w \in Writers |-> job[w]] /\ \A w \in Writers : IsJob(job[w], script[w])
  BY <1>1, IdleIsJob
<1> QED BY <1>2, <1>3 DEF WritesAreSound, AreJobs
LEMMA Division ==
    ASSUME NEW s \in Int, NEW n \in Nat \ {0}
    PROVE  /\ s \div n \in Int /\ s % n \in Int
           /\ s = (s \div n) * n + (s % n) /\ 0 <= s % n /\ s % n < n
  OBVIOUS

LEMMA Multiples ==
    ASSUME NEW a \in Int, NEW b \in Int, NEW n \in Nat \ {0}, NEW r \in 0 .. n - 1
    PROVE  /\ a * n \in Int
           /\ a >= b => a * n + r >= b * n
           /\ a < b => a * n + r < b * n
<1>1. a * n \in Int /\ b * n \in Int
  OBVIOUS
<1>2. ASSUME a >= b PROVE a * n + r >= b * n
  <2>1. a - b \in Nat
    BY <1>2
  <2>2. (a - b) * n >= 0
    BY <2>1
  <2>3. (a - b) * n = a * n - b * n
    OBVIOUS
  <2> QED BY <1>1, <2>2, <2>3
<1>3. ASSUME a < b PROVE a * n + r < b * n
  <2>1. b - a - 1 \in Nat
    BY <1>3
  <2>2. (b - a - 1) * n >= 0
    BY <2>1
  <2>3. (b - a - 1) * n = b * n - a * n - n
    OBVIOUS
  <2>4. r < n /\ r \in Int
    OBVIOUS
  <2> QED BY <1>1, <2>2, <2>3, <2>4
<1> QED BY <1>1, <1>2, <1>3

\* Sort keys begin with their millisecond.
LEMMA SortsByTime ==
    ASSUME NEW s \in Int, NEW a \in Int
    PROVE  /\ MsOf(s) \in Int
           /\ s > TimePrefix(a) => a <= MsOf(s)
           /\ s < TimePrefix(a) => MsOf(s) < a
           /\ IsId(s) /\ a <= MsOf(s) => s > TimePrefix(a)
           /\ IsId(s) /\ MsOf(s) < a => s < TimePrefix(a)
<1> DEFINE n == IdsPerMs
           ms == s \div n
           r == s % n
<1>1. n \in Nat \ {0}
  BY MailTableAssumption
<1>2. MsOf(s) = ms /\ TimePrefix(a) = a * n
  BY DEF MsOf, TimePrefix
<1>3. ms \in Int /\ r \in 0 .. n - 1 /\ s = ms * n + r
  BY <1>1, Division
<1>4. IsId(s) => r # 0
  BY DEF IsId
<1> HIDE DEF n, ms, r
<1>5. /\ ms >= a => ms * n + r >= a * n
      /\ ms < a => ms * n + r < a * n
      /\ a * n \in Int
  BY <1>1, <1>3, Multiples
<1>6. ms * n \in Int /\ (ms >= a => ms * n + 0 >= a * n)
  <2>1. 0 \in 0 .. n - 1
    BY <1>1
  <2> QED BY <1>1, <1>3, <2>1, Multiples
<1>7. s > a * n => a <= ms
  BY <1>3, <1>5
<1>8. s < a * n => ms < a
  BY <1>3, <1>5
<1>9. IsId(s) /\ a <= ms => s > a * n
  BY <1>3, <1>4, <1>5, <1>6
<1>10. IsId(s) /\ ms < a => s < a * n
  BY <1>3, <1>5
<1> QED BY <1>2, <1>3, <1>7, <1>8, <1>9, <1>10

LEMMA ThreadSorts ==
    ASSUME NEW t \in Nat, NEW th \in ThreadIds
    PROVE  /\ IsId(ThreadTimeSort(t, th)) /\ MsOf(ThreadTimeSort(t, th)) = t
           /\ ThreadTimeSort(t, th) % IdsPerMs = th
<1> DEFINE n == IdsPerMs
           s == ThreadTimeSort(t, th)
           ms == s \div n
           r == s % n
<1>1. n \in Nat \ {0}
  BY MailTableAssumption
<1>2. th \in 0 .. n - 1 /\ th # 0
  BY <1>1 DEF ThreadIds
<1>3. s = t * n + th
  BY DEF ThreadTimeSort
<1>4. t * n \in Nat
  BY <1>1
<1> HIDE DEF n
<1>5. s \in Nat
  BY <1>2, <1>3, <1>4
<1> HIDE DEF s
<1>6. ms \in Int /\ r \in 0 .. n - 1 /\ s = ms * n + r
  BY <1>1, <1>5, Division
<1> HIDE DEF ms, r
<1>7. /\ ms >= t + 1 => ms * n + r >= (t + 1) * n
      /\ ms < t => ms * n + r < t * n
  BY <1>1, <1>6, Multiples
<1>8. (t + 1) * n = t * n + n
  BY <1>1
<1>9. ms * n \in Int
  BY <1>1, <1>6
<1>10. ~(ms >= t + 1) /\ ~(ms < t)
  BY <1>1, <1>2, <1>3, <1>4, <1>6, <1>7, <1>8, <1>9
<1>11. ms = t
  BY <1>6, <1>10
<1>12. r = th
  BY <1>2, <1>3, <1>4, <1>6, <1>9, <1>11
<1> QED BY <1>2, <1>5, <1>11, <1>12 DEF IsId, MsOf, ms, r, n, s

-----------------------------------------------------------------------------
(***************************************************************************)
(* A list's index partition: its items, each with one place.               *)
(***************************************************************************)

SortIn(ask, item) ==
    CASE ask.list = "inboxes" -> item.inbox
      [] ask.list = "threads" -> ThreadTimeSort(item.timestamp, item.thread)
      [] OTHER -> item.id

IsIn(ask, item) == \E e \in IndexKeys(item) : e.partition = PartitionOf(ask)

IndexOf(ask) == IF ask.list = "thread" THEN "ByThread" ELSE "ByTime"

TimeOf(item) == IF item.kind = "thread" THEN item.timestamp ELSE MsOf(item.id)

KeyAt(ask, sort) ==
    CASE ask.list = "inboxes" -> InboxKey(sort)
      [] ask.list = "threads" -> ThreadKey(ask.inbox, sort % IdsPerMs)
      [] OTHER -> MessageKey(ask.inbox, sort)

PlacedAt(ask, key, item, e) ==
    /\ e.sort = SortIn(ask, item) /\ e.sort \in Int /\ e.index = IndexOf(ask) /\ key = KeyAt(ask, e.sort)
    /\ Filtered(ask) => IsId(e.sort) /\ MsOf(e.sort) = TimeOf(item)

LEMMA KindIs ==
    ASSUME NEW key, NEW item, IsItem(key, item)
    PROVE  /\ item.kind \in {"inbox", "message", "thread", "state", "rfc", "key", "ref"}
           /\ item.kind = "inbox" => key = InboxKey(item.inbox) /\ item.inbox \in Nat
           /\ item.kind = "message" => key = MessageKey(item.inbox, item.id) /\ IsId(item.id)
           /\ item.kind = "thread" => /\ key = ThreadKey(item.inbox, item.thread)
                                      /\ item.thread \in ThreadIds /\ item.timestamp \in Nat
  BY DEF IsItem

LEMMA EntriesAre ==
    ASSUME NEW ask, IsAsk(ask), NEW key, NEW item, IsItem(key, item),
           NEW e \in IndexKeys(item), e.partition = PartitionOf(ask)
    PROVE  PlacedAt(ask, key, item, e)
<1>0. ask.list \in {"inboxes", "messages", "threads", "thread"}
  BY DEF IsAsk
<1>1. item.kind \in {"inbox", "message", "thread", "state", "rfc", "key", "ref"}
  BY KindIs
<1>2. CASE item.kind = "inbox"
  <2>1. e = Entry("ByTime", InboxesPartition, item.inbox) /\ key = InboxKey(item.inbox) /\ item.inbox \in Nat
    BY <1>2, KindIs DEF IndexKeys
  <2>2. e.partition[1] = "INBOXES" /\ e.sort = item.inbox /\ e.index = "ByTime"
    BY <2>1 DEF Entry, InboxesPartition
  <2>3. ask.list = "inboxes"
    BY <1>0, <2>2 DEF PartitionOf, MessagesPartition, ThreadsPartition, ThreadMessagesPartition
  <2> QED BY <2>1, <2>2, <2>3 DEF PlacedAt, SortIn, IndexOf, KeyAt, Filtered
<1>3. CASE item.kind = "message"
  <2>1. /\ \/ e = Entry("ByTime", MessagesPartition(item.inbox), item.id)
           \/ e = Entry("ByThread", ThreadMessagesPartition(item.inbox, item.thread), item.id)
        /\ key = MessageKey(item.inbox, item.id) /\ IsId(item.id)
    BY <1>3, KindIs DEF IndexKeys
  <2>2. e.sort = item.id /\ e.sort \in Nat /\ TimeOf(item) = MsOf(e.sort)
    BY <1>3, <2>1 DEF Entry, IsId, TimeOf
  <2>3. CASE e = Entry("ByTime", MessagesPartition(item.inbox), item.id)
    <3>1. e.partition = <<"INBOX", item.inbox, "MSG">> /\ e.index = "ByTime"
      BY <2>3 DEF Entry, MessagesPartition
    <3>2. ask.list = "messages" /\ ask.inbox = item.inbox
      BY <1>0, <3>1 DEF PartitionOf, InboxesPartition, MessagesPartition, ThreadsPartition, ThreadMessagesPartition
    <3> QED BY <2>1, <2>2, <3>1, <3>2 DEF PlacedAt, SortIn, IndexOf, KeyAt
  <2>4. CASE e = Entry("ByThread", ThreadMessagesPartition(item.inbox, item.thread), item.id)
    <3>1. e.partition = <<"THREAD", item.inbox, item.thread>> /\ e.index = "ByThread"
      BY <2>4 DEF Entry, ThreadMessagesPartition
    <3>2. ask.list = "thread" /\ ask.inbox = item.inbox
      BY <1>0, <3>1 DEF PartitionOf, InboxesPartition, MessagesPartition, ThreadsPartition, ThreadMessagesPartition
    <3> QED BY <2>1, <2>2, <3>1, <3>2 DEF PlacedAt, SortIn, IndexOf, KeyAt, Filtered
  <2> QED BY <2>1, <2>3, <2>4
<1>4. CASE item.kind = "thread"
  <2> DEFINE s == ThreadTimeSort(item.timestamp, item.thread)
  <2>1. /\ e = Entry("ByTime", ThreadsPartition(item.inbox), s)
        /\ key = ThreadKey(item.inbox, item.thread) /\ item.thread \in ThreadIds /\ item.timestamp \in Nat
    BY <1>4, KindIs DEF IndexKeys
  <2>2. e.sort = s /\ e.partition = <<"INBOX", item.inbox, "THR">> /\ e.index = "ByTime"
    BY <2>1 DEF Entry, ThreadsPartition
  <2>3. IsId(s) /\ MsOf(s) = item.timestamp /\ s % IdsPerMs = item.thread
    BY <2>1, ThreadSorts
  <2>4. ask.list = "threads" /\ ask.inbox = item.inbox
    BY <1>0, <2>2 DEF PartitionOf, InboxesPartition, MessagesPartition, ThreadsPartition, ThreadMessagesPartition
  <2>5. SortIn(ask, item) = s /\ IndexOf(ask) = "ByTime" /\ TimeOf(item) = item.timestamp
    BY <1>4, <2>4 DEF SortIn, IndexOf, TimeOf
  <2> HIDE DEF s
  <2>6. KeyAt(ask, e.sort) = key
    BY <2>1, <2>2, <2>3, <2>4 DEF KeyAt
  <2>7. s \in Int
    BY <2>3 DEF IsId
  <2> QED BY <2>2, <2>3, <2>5, <2>6, <2>7 DEF PlacedAt
<1>5. CASE item.kind = "state"
  <2>1. e.partition = SendStatusPartition(item.status)
    BY <1>5 DEF IndexKeys, Entry
  <2>2. e.partition[1] = "SENDSTATUS"
    BY <2>1 DEF SendStatusPartition
  <2>3. FALSE
    BY <1>0, <2>2 DEF PartitionOf, InboxesPartition, MessagesPartition, ThreadsPartition, ThreadMessagesPartition
  <2> QED BY <2>3
<1>6. CASE item.kind \in {"rfc", "key", "ref"}
  <2>1. IndexKeys(item) = {}
    BY <1>6 DEF IndexKeys
  <2> QED BY <2>1
<1> QED BY <1>1, <1>2, <1>3, <1>4, <1>5, <1>6

\* The rows a list's query finds.
LEMMA QueryIs ==
    ASSUME NEW ask, NEW request, NEW start, NEW q, q = QueryOf(ask, request, start)
    PROVE  /\ q.index = IndexOf(ask) /\ q.partition = PartitionOf(ask) /\ q.start = start
           /\ q.ascending = (Filtered(ask) => request.ascending)
           /\ q.before = (IF Filtered(ask) THEN Bound(request.before) ELSE {})
           /\ q.after = (IF Filtered(ask) THEN Bound(request.after) ELSE {})
  BY DEF QueryOf, IndexOf

Found(ask, table, q, k) ==
    IsIn(ask, table[k]) /\ Bounded(SortIn(ask, table[k]), q) /\ Resumes(SortIn(ask, table[k]), q)

RowOf(ask, table, k) == [sort |-> SortIn(ask, table[k]), key |-> k]

LEMMA RowsAre ==
    ASSUME NEW ask, IsAsk(ask), NEW table, IsTable(table), NEW request, NEW start,
           NEW q, q = QueryOf(ask, request, start)
    PROVE  /\ AreRows(RowsOf(table, q))
           /\ \A r \in RowsOf(table, q) :
                 r.key \in DOMAIN table /\ r = RowOf(ask, table, r.key) /\ r.sort \in Int /\ Found(ask, table, q, r.key)
           /\ \A k \in DOMAIN table : Found(ask, table, q, k) => RowOf(ask, table, k) \in RowsOf(table, q)
<1>1. ASSUME NEW r \in RowsOf(table, q)
      PROVE  /\ r.key \in DOMAIN table /\ r = RowOf(ask, table, r.key) /\ r.sort \in Int
             /\ Found(ask, table, q, r.key) /\ r.key = KeyAt(ask, r.sort)
  <2>0. PICK k \in DOMAIN table :
           r \in {[sort |-> e.sort, key |-> k] : e \in {e \in IndexKeys(table[k]) :
                                                     /\ e.index = q.index /\ e.partition = q.partition
                                                     /\ Bounded(e.sort, q) /\ Resumes(e.sort, q)}}
    BY DEF RowsOf
  <2>1. PICK e \in IndexKeys(table[k]) :
           /\ r = [sort |-> e.sort, key |-> k] /\ e.partition = q.partition
           /\ Bounded(e.sort, q) /\ Resumes(e.sort, q)
    BY <2>0
  <2>2. e.partition = PartitionOf(ask)
    BY <2>1, QueryIs
  <2>3. PlacedAt(ask, k, table[k], e)
    BY <2>1, <2>2, EntriesAre DEF IsTable
  <2>4. r.key = k /\ r.sort = e.sort
    BY <2>1
  <2>5. IsIn(ask, table[k])
    BY <2>2 DEF IsIn
  <2> QED BY <2>1, <2>3, <2>4, <2>5 DEF PlacedAt, RowOf, Found
<1>2. ASSUME NEW k \in DOMAIN table, Found(ask, table, q, k)
      PROVE  RowOf(ask, table, k) \in RowsOf(table, q)
  <2>1. PICK e \in IndexKeys(table[k]) : e.partition = PartitionOf(ask)
    BY <1>2 DEF Found, IsIn
  <2>2. PlacedAt(ask, k, table[k], e)
    BY <2>1, EntriesAre DEF IsTable
  <2>3. e.index = q.index /\ e.partition = q.partition /\ Bounded(e.sort, q) /\ Resumes(e.sort, q)
    BY <1>2, <2>1, <2>2, QueryIs DEF Found, PlacedAt
  <2>4. RowOf(ask, table, k) = [sort |-> e.sort, key |-> k]
    BY <2>2 DEF RowOf, PlacedAt
  <2> QED BY <2>1, <2>3, <2>4 DEF RowsOf
<1>3. IsFiniteSet(RowsOf(table, q))
  <2> DEFINE f == [k \in DOMAIN table |-> RowOf(ask, table, k)]
  <2>1. IsFiniteSet({f[k] : k \in DOMAIN table})
    BY ImageIsFinite DEF IsTable
  <2>2. RowsOf(table, q) \subseteq {f[k] : k \in DOMAIN table}
    BY <1>1
  <2> HIDE DEF f
  <2> QED BY <2>1, <2>2, FS_Subset
<1>4. AreRows(RowsOf(table, q))
  BY <1>1, <1>3 DEF AreRows
<1> QED BY <1>1, <1>2, <1>4

\* Where a page ends, and what it holds.
PageUpTo(page, rows, partition, ascending, r) ==
    /\ page.next = {PageKey(partition, r.sort, r.key)}
    /\ Range(page.rows) = {o \in rows : ~Precedes(r.sort, o.sort, ascending)}

IsPage(page, rows, partition, ascending) ==
    /\ page.rows \in Seq(rows) /\ AreOrdered(page.rows, ascending)
    /\ \/ page.next = {} /\ Range(page.rows) = rows
       \/ \E r \in rows : PageUpTo(page, rows, partition, ascending, r)

LEMMA PageIsCut ==
    ASSUME NEW table, NEW q, NEW limit, NEW page \in QueryPages(table, q, limit)
    PROVE  \E cut \in 1 .. limit : page = CutPage(InOrder(RowsOf(table, q), q.ascending), q.partition, cut)
<1>1. PICK list \in {InOrder(rows, q.ascending) : rows \in {RowsOf(table, q)}}, cut \in 1 .. limit :
         page = CutPage(list, q.partition, cut)
  BY DEF QueryPages
<1> QED BY <1>1

LEMMA PagesAre ==
    ASSUME NEW table, NEW q, AreRows(RowsOf(table, q)), NEW limit \in Nat,
           NEW page \in QueryPages(table, q, limit)
    PROVE  IsPage(page, RowsOf(table, q), q.partition, q.ascending)
<1> DEFINE rows == RowsOf(table, q)
           list == InOrder(rows, q.ascending)
           n == Len(list)
<1>1. PICK cut \in 1 .. limit :
         page = CutPage(list, q.partition, cut)
  BY PageIsCut
<1>2. /\ list \in Seq(rows) /\ Range(list) = rows /\ AreOrdered(list, q.ascending) /\ n \in Nat
      /\ \A r \in rows : r.sort \in Int
  BY InOrderLists DEF Lists, AreRows
<1>3. DOMAIN list = 1 .. n /\ rows = {list[i] : i \in 1 .. n} /\ \A i \in 1 .. n : list[i] \in rows
  BY <1>2 DEF Range
<1> HIDE DEF list, rows
<1>4. CASE cut <= n
  <2>1. Min({cut, n}) = cut
    <3>1. \A x \in {cut, n} : (\A y \in {cut, n} : x <= y) <=> x = cut
      BY <1>2, <1>4 DEF n
    <3>2. Min({cut, n}) \in {cut, n} /\ \A y \in {cut, n} : Min({cut, n}) <= y
      BY <3>1 DEF Min
    <3> QED BY <3>1, <3>2
  <2>2. /\ page.rows = SubSeq(list, 1, cut)
        /\ page.next = {PageKey(q.partition, list[cut].sort, list[cut].key)}
    BY <1>1, <1>4, <2>1 DEF CutPage
  <2>3. /\ page.rows \in Seq(rows) /\ Len(page.rows) = cut /\ DOMAIN page.rows = 1 .. cut
        /\ \A i \in 1 .. cut : page.rows[i] = list[i] /\ i \in 1 .. n
    BY <1>2, <1>4, <2>2
  <2>4. AreOrdered(page.rows, q.ascending)
    BY <1>2, <1>3, <2>3 DEF AreOrdered
  <2>5. ASSUME NEW i \in 1 .. n
        PROVE  ~Precedes(list[cut].sort, list[i].sort, q.ascending) <=> i <= cut
    <3>1. cut \in 1 .. n /\ list[cut].sort \in Int /\ list[i].sort \in Int
      BY <1>2, <1>3, <1>4
    <3>2. CASE i = cut
      BY <3>1, <3>2, PrecedesOrders
    <3>3. CASE i < cut
      <4>1. Precedes(list[i].sort, list[cut].sort, q.ascending)
        BY <1>2, <1>3, <3>1, <3>3 DEF AreOrdered
      <4> QED BY <3>1, <3>3, <4>1, PrecedesOrders
    <3>4. CASE i > cut
      <4>1. Precedes(list[cut].sort, list[i].sort, q.ascending)
        BY <1>2, <1>3, <3>1, <3>4 DEF AreOrdered
      <4> QED BY <3>1, <3>4, <4>1
    <3> QED BY <3>1, <3>2, <3>3, <3>4
  <2>6. Range(page.rows) = {list[i] : i \in 1 .. cut}
    BY <2>3 DEF Range
  <2>7. {list[i] : i \in 1 .. cut} = {o \in rows : ~Precedes(list[cut].sort, o.sort, q.ascending)}
    <3>1. ASSUME NEW i \in 1 .. cut
          PROVE  list[i] \in rows /\ ~Precedes(list[cut].sort, list[i].sort, q.ascending)
      BY <1>3, <2>3, <2>5
    <3>2. ASSUME NEW o \in rows, ~Precedes(list[cut].sort, o.sort, q.ascending)
          PROVE  \E i \in 1 .. cut : o = list[i]
      <4>1. PICK i \in 1 .. n : o = list[i]
        BY <1>3
      <4>2. i <= cut
        BY <2>5, <3>2, <4>1
      <4> QED BY <4>1, <4>2
    <3> QED BY <3>1, <3>2
  <2>8. list[cut] \in rows
    BY <1>3, <1>4
  <2> QED BY <2>2, <2>3, <2>4, <2>6, <2>7, <2>8 DEF IsPage, PageUpTo, rows
<1>5. CASE ~(cut <= n)
  <2>1. Min({cut, n}) = n
    <3>1. \A x \in {cut, n} : (\A y \in {cut, n} : x <= y) <=> x = n
      BY <1>2, <1>5 DEF n
    <3>2. Min({cut, n}) \in {cut, n} /\ \A y \in {cut, n} : Min({cut, n}) <= y
      BY <3>1 DEF Min
    <3> QED BY <3>1, <3>2
  <2>2. page.rows = SubSeq(list, 1, n) /\ page.next = {}
    BY <1>1, <1>5, <2>1 DEF CutPage
  <2>3. page.rows = list
    BY <1>2, <2>2
  <2> QED BY <1>2, <2>2, <2>3 DEF IsPage, rows
<1> QED BY <1>4, <1>5

-----------------------------------------------------------------------------
(***************************************************************************)
(* What is asked for, as the index has it.                                 *)
(***************************************************************************)

Up(ask, request) == Filtered(ask) => request.ascending

InBounds(sort, ask, request) == Bounded(sort, QueryOf(ask, request, {}))

LEMMA BoundsAre ==
    ASSUME NEW ask, NEW request, NEW start, NEW sort
    PROVE  /\ QueryOf(ask, request, start).ascending = Up(ask, request)
           /\ Bounded(sort, QueryOf(ask, request, start)) <=> InBounds(sort, ask, request)
           /\ ~Filtered(ask) => InBounds(sort, ask, request)
           /\ Filtered(ask) => (InBounds(sort, ask, request) <=>
                 /\ \A a \in request.after : sort > TimePrefix(a)
                 /\ \A b \in request.before : sort < TimePrefix(b))
<1> DEFINE q == QueryOf(ask, request, start)
           q0 == QueryOf(ask, request, {})
<1>1. /\ q.ascending = Up(ask, request) /\ q.after = q0.after /\ q.before = q0.before
      /\ q0.before = (IF Filtered(ask) THEN Bound(request.before) ELSE {})
      /\ q0.after = (IF Filtered(ask) THEN Bound(request.after) ELSE {})
  BY DEF QueryOf, Up
<1> HIDE DEF q, q0
<1>2. Bounded(sort, q) <=> Bounded(sort, q0)
  BY <1>1 DEF Bounded
<1>3. ~Filtered(ask) => Bounded(sort, q0)
  BY <1>1 DEF Bounded
<1>4. Filtered(ask) => (Bounded(sort, q0) <=>
                 /\ \A a \in request.after : sort > TimePrefix(a)
                 /\ \A b \in request.before : sort < TimePrefix(b))
  BY <1>1 DEF Bounded, Bound
<1> QED BY <1>1, <1>2, <1>3, <1>4 DEF InBounds, q, q0

LEMMA NumbersGiven ==
    ASSUME NEW query, NEW r, Understood(query, r)
    PROVE  r.before \subseteq Nat /\ r.after \subseteq Nat
  BY DEF Understood, OneOrNone

\* Within the bounds of its query, an item is within the window asked for.
LEMMA WindowIs ==
    ASSUME NEW ask, Filtered(ask), NEW r, Understood(ask.query, r), NEW sort \in Int
    PROVE  /\ InBounds(sort, ask, r) => InWindow(ask.query, MsOf(sort))
           /\ IsId(sort) /\ InWindow(ask.query, MsOf(sort)) => InBounds(sort, ask, r)
<1> DEFINE ms == MsOf(sort)
<1>1. ms \in Int /\ r.before \subseteq Nat /\ r.after \subseteq Nat
  BY SortsByTime, NumbersGiven
<1>2. InWindow(ask.query, ms) <=> (\A a \in r.after : a <= ms) /\ (\A b \in r.before : ms < b)
  BY <1>1 DEF Understood, SaysWindow
<1>3. InBounds(sort, ask, r) <=> /\ \A a \in r.after : sort > TimePrefix(a)
                                 /\ \A b \in r.before : sort < TimePrefix(b)
  BY BoundsAre
<1>4. ASSUME NEW a \in Nat
      PROVE  /\ sort > TimePrefix(a) => a <= ms
             /\ sort < TimePrefix(a) => ms < a
             /\ IsId(sort) /\ a <= ms => sort > TimePrefix(a)
             /\ IsId(sort) /\ ms < a => sort < TimePrefix(a)
  BY SortsByTime
<1> HIDE DEF ms
<1>5. ASSUME InBounds(sort, ask, r) PROVE InWindow(ask.query, ms)
  BY <1>1, <1>2, <1>3, <1>4, <1>5
<1>6. ASSUME IsId(sort), InWindow(ask.query, ms) PROVE InBounds(sort, ask, r)
  BY <1>1, <1>2, <1>3, <1>4, <1>6
<1> QED BY <1>5, <1>6 DEF ms

\* An item that is wanted is within the bounds and passes the filter.
LEMMA WantedIs ==
    ASSUME NEW ask, IsAsk(ask), NEW key, NEW item, IsItem(key, item), IsIn(ask, item), Wanted(ask, item),
           NEW r, Understood(ask.query, r)
    PROVE  /\ SortIn(ask, item) \in Int /\ InBounds(SortIn(ask, item), ask, r)
           /\ Filtered(ask) => Matches(r, item)
<1> DEFINE s == SortIn(ask, item)
<1>1. PICK e \in IndexKeys(item) : e.partition = PartitionOf(ask)
  BY DEF IsIn
<1>2. PlacedAt(ask, key, item, e)
  BY <1>1, EntriesAre
<1>3. s \in Int /\ (Filtered(ask) => IsId(s) /\ MsOf(s) = TimeOf(item))
  BY <1>2 DEF PlacedAt
<1> HIDE DEF s
<1>4. CASE ~Filtered(ask)
  BY <1>3, <1>4, BoundsAre DEF s
<1>5. CASE Filtered(ask)
  <2>1. /\ InWindow(ask.query, TimeOf(item))
        /\ MayShow(ask.query, LabelsOf(item))
        /\ Given(ask.query, "labels") \ {""} \subseteq LabelsOf(item)
        /\ \A f \in TextFields :
              (Given(ask.query, f) \ {""}) = {} \/ (Given(ask.query, f) \ {""}) \cap item.text[f] # {}
    BY <1>5 DEF Wanted, TimeOf
  <2>2. InBounds(s, ask, r)
    BY <1>3, <1>5, <2>1, WindowIs
  <2>3. r.excluded \cap LabelsOf(item) = {}
    BY <2>1 DEF Understood, SaysHidden
  <2>4. r.labels \subseteq LabelsOf(item)
    BY <2>1 DEF Understood
  <2>5. \A f \in TextFields : r.needles[f] = {} \/ r.needles[f] \cap item.text[f] # {}
    BY <2>1 DEF Understood
  <2>6. Matches(r, item)
    BY <2>3, <2>4, <2>5 DEF Matches
  <2> QED BY <1>3, <2>2, <2>6 DEF s
<1> QED BY <1>4, <1>5

-----------------------------------------------------------------------------
(***************************************************************************)
(* A walk through a list, page by page.  all: what it has listed so far;   *)
(* pos: {} or the key it has come to; steady: what was in the list at its  *)
(* start and has not been written since.                                   *)
(***************************************************************************)

IsSeq(s) == s \in Seq(Range(s))

IsPlace(s, ask, request) ==
    s.partition = PartitionOf(ask) /\ s.sort \in Int /\ InBounds(s.sort, ask, request)

IsListing(all, ask, request) ==
    /\ IsSeq(all)
    /\ \A i \in DOMAIN all : IsPlace(all[i].row, ask, request)
    /\ \A i, j \in DOMAIN all : i < j => Precedes(all[i].row.sort, all[j].row.sort, Up(ask, request))

UpTo(all, s, ask, request) ==
    \A i \in DOMAIN all : ~Precedes(s.sort, all[i].row.sort, Up(ask, request))

At(all, pos, ask, request) ==
    pos = {} \/ \E s : pos = {s} /\ IsPlace(s, ask, request) /\ UpTo(all, s, ask, request)

Has(all, k) == \E i \in DOMAIN all : all[i].row.key = k

\* Where the steady items are in the listing, and that they are there up to pos.
Sound(all, ask, table, steady) ==
    \A k \in steady : \A i \in DOMAIN all : all[i].row.key = k => all[i].row.sort = SortIn(ask, table[k])

Shown(all, ask, request) ==
    Filtered(ask) => \A i \in DOMAIN all : request.excluded \cap all[i].labels = {}

Passed(k, pos, ask, request, table) ==
    \A s \in pos : ~Precedes(s.sort, SortIn(ask, table[k]), Up(ask, request))

Covers(all, pos, ask, request, table, steady) ==
    \A k \in steady : Passed(k, pos, ask, request, table) => Has(all, k)

LEMMA SeqIs ==
    ASSUME NEW s
    PROVE  /\ IsSeq(s) => Len(s) \in Nat /\ DOMAIN s = 1 .. Len(s)
           /\ \A S : s \in Seq(S) => IsSeq(s)
<1>1. ASSUME NEW S, s \in Seq(S) PROVE IsSeq(s)
  <2>1. Len(s) \in Nat /\ s \in [1 .. Len(s) -> Range(s)]
    BY <1>1 DEF Range
  <2> QED BY <2>1 DEF IsSeq
<1> QED BY <1>1 DEF IsSeq

LEMMA Joined ==
    ASSUME NEW a, IsSeq(a), NEW b, IsSeq(b)
    PROVE  /\ IsSeq(a \o b) /\ Len(a \o b) = Len(a) + Len(b)
           /\ \A i \in 1 .. Len(a) : (a \o b)[i] = a[i]
           /\ \A i \in 1 .. Len(b) : (a \o b)[Len(a) + i] = b[i]
           /\ DOMAIN (a \o b) = 1 .. (Len(a) + Len(b))
           /\ a \o <<>> = a
<1> DEFINE S == Range(a) \cup Range(b)
<1>1. a \in Seq(S) /\ b \in Seq(S)
  BY SeqMonotonic DEF IsSeq
<1> HIDE DEF S
<1>2. a \o b \in Seq(S)
  BY <1>1
<1>3. IsSeq(a \o b)
  BY <1>2, SeqIs
<1> QED BY <1>1, <1>2, <1>3

LEMMA Regrouped ==
    ASSUME NEW a, IsSeq(a), NEW b, IsSeq(b), NEW c, IsSeq(c)
    PROVE  (a \o b) \o c = a \o (b \o c)
<1> DEFINE S == (Range(a) \cup Range(b)) \cup Range(c)
<1>1. a \in Seq(S) /\ b \in Seq(S) /\ c \in Seq(S)
  BY SeqMonotonic DEF IsSeq
<1> HIDE DEF S
<1> QED BY <1>1, ConcatAssociative

\* The first n of a listing is a listing.
FirstOf(all, part) ==
    IsSeq(part) /\ Len(part) <= Len(all) /\ \A i \in 1 .. Len(part) : part[i] = all[i]

LEMMA ListingStarts ==
    ASSUME NEW all, NEW part, FirstOf(all, part), NEW ask, NEW request, IsListing(all, ask, request)
    PROVE  /\ IsListing(part, ask, request)
           /\ \A s : UpTo(all, s, ask, request) => UpTo(part, s, ask, request)
           /\ \A table, steady : Sound(all, ask, table, steady) => Sound(part, ask, table, steady)
           /\ Shown(all, ask, request) => Shown(part, ask, request)
<1>1. /\ DOMAIN part = 1 .. Len(part) /\ DOMAIN all = 1 .. Len(all)
      /\ \A i \in DOMAIN part : i \in DOMAIN all /\ part[i] = all[i]
  BY SeqIs DEF FirstOf, IsListing
<1>2. IsListing(part, ask, request)
  BY <1>1 DEF IsListing, FirstOf
<1>3. \A s : UpTo(all, s, ask, request) => UpTo(part, s, ask, request)
  BY <1>1 DEF UpTo
<1>4. \A table, steady : Sound(all, ask, table, steady) => Sound(part, ask, table, steady)
  BY <1>1 DEF Sound
<1>5. Shown(all, ask, request) => Shown(part, ask, request)
  BY <1>1 DEF Shown
<1> QED BY <1>2, <1>3, <1>4, <1>5

\* Up to the m-th row, a listing lacks nothing that the whole has.
LEMMA ListingCut ==
    ASSUME NEW all, NEW ask, NEW request, IsListing(all, ask, request), NEW m \in 1 .. Len(all),
           NEW part, FirstOf(all, part), Len(part) = m,
           NEW pos, At(all, pos, ask, request), NEW table, NEW steady,
           \A k \in steady : SortIn(ask, table[k]) \in Int,
           Sound(all, ask, table, steady), Covers(all, pos, ask, request, table, steady)
    PROVE  /\ At(part, {all[m].row}, ask, request)
           /\ Covers(part, {all[m].row}, ask, request, table, steady)
<1> DEFINE last == all[m].row
           asc == Up(ask, request)
<1>1. /\ DOMAIN part = 1 .. m /\ DOMAIN all = 1 .. Len(all) /\ Len(all) \in Nat
      /\ \A i \in 1 .. m : i \in DOMAIN all /\ part[i] = all[i]
  BY SeqIs DEF FirstOf, IsListing
<1>2. \A i \in DOMAIN all : all[i].row.sort \in Int
  BY DEF IsListing, IsPlace
<1>3. IsPlace(last, ask, request) /\ last.sort \in Int
  BY <1>1, <1>2 DEF IsListing
<1>4. ASSUME NEW i \in DOMAIN all PROVE Precedes(last.sort, all[i].row.sort, asc) <=> i > m
  <2>1. CASE i > m
    BY <1>1, <2>1 DEF IsListing
  <2>2. CASE i = m
    BY <1>2, <1>3, <2>2, PrecedesOrders
  <2>3. CASE i < m
    <3>1. Precedes(all[i].row.sort, last.sort, asc)
      BY <1>1, <2>3 DEF IsListing
    <3> QED BY <1>2, <1>3, <2>3, <3>1, PrecedesOrders
  <2> QED BY <1>1, <2>1, <2>2, <2>3
<1>5. UpTo(part, last, ask, request)
  BY <1>1, <1>4 DEF UpTo
<1>6. ASSUME NEW k \in steady, Passed(k, {last}, ask, request, table) PROVE Has(part, k)
  <2> DEFINE sk == SortIn(ask, table[k])
  <2>1. ~Precedes(last.sort, sk, asc) /\ sk \in Int
    BY <1>6 DEF Passed
  <2>2. Passed(k, pos, ask, request, table)
    <3> SUFFICES ASSUME NEW s \in pos PROVE ~Precedes(s.sort, sk, asc)
      BY DEF Passed
    <3>1. s.sort \in Int /\ ~Precedes(s.sort, last.sort, asc)
      BY <1>1 DEF At, IsPlace, UpTo
    <3> HIDE DEF sk, asc, last
    <3> QED BY <1>3, <2>1, <3>1, PrecedesOrders
  <2>3. PICK i \in DOMAIN all : all[i].row.key = k
    BY <2>2 DEF Covers, Has
  <2>4. all[i].row.sort = sk
    BY <2>3 DEF Sound
  <2>5. i \in 1 .. m
    BY <1>1, <1>4, <2>1, <2>4
  <2> QED BY <1>1, <2>3, <2>5 DEF Has
<1> QED BY <1>3, <1>5, <1>6 DEF At, Covers

\* The walk has come to pos, or has not begun.
Reached(all, pos, ask, request) == At(all, pos, ask, request) /\ (pos = {} => all = <<>>)

Carries(all, pos, ask, request, table, steady) ==
    pos # {} => Covers(all, pos, ask, request, table, steady)

\* list has the chosen rows of a page, in order.
Chosen(list, chosen, page, ask, request) ==
    /\ chosen \subseteq Range(page.rows) /\ list \in Seq(chosen) /\ Range(list) = chosen
    /\ AreOrdered(list, Up(ask, request))

Keepable(ask, request, k) ==
    /\ k \in DOMAIN index /\ IsIn(ask, index[k]) /\ SortIn(ask, index[k]) \in Int
    /\ InBounds(SortIn(ask, index[k]), ask, request)

LEMMA RangeWithin ==
    ASSUME NEW S, NEW s \in Seq(S)
    PROVE  Range(s) \subseteq S
  BY DEF Range

LEMMA KeptIs ==
    ASSUME NEW ask, NEW list, NEW S, list \in Seq(S)
    PROVE  /\ IsSeq(Kept(ask, list)) /\ Len(Kept(ask, list)) = Len(list) /\ Len(list) \in Nat
           /\ \A i \in 1 .. Len(list) :
                 /\ list[i] \in Range(list)
                 /\ Kept(ask, list)[i].row = PageKey(PartitionOf(ask), list[i].sort, list[i].key)
                 /\ Kept(ask, list)[i].row.sort = list[i].sort /\ Kept(ask, list)[i].row.key = list[i].key
                 /\ Kept(ask, list)[i].row.partition = PartitionOf(ask)
                 /\ Kept(ask, list)[i].labels = LabelsOf(index[list[i].key]) \cap HiddenLabels
<1> DEFINE new == Kept(ask, list)
           entry(i) == [row |-> PageKey(PartitionOf(ask), list[i].sort, list[i].key),
                        labels |-> LabelsOf(index[list[i].key]) \cap HiddenLabels]
           T == {entry(i) : i \in DOMAIN list}
<1>1. DOMAIN list = 1 .. Len(list) /\ Len(list) \in Nat
  OBVIOUS
<1>2. new = [i \in 1 .. Len(list) |-> entry(i)]
  BY <1>1 DEF Kept
<1>3. new \in Seq(T) /\ Len(new) = Len(list)
  <2> HIDE DEF entry, new
  <2>1. new \in [1 .. Len(list) -> T]
    BY <1>1, <1>2
  <2> HIDE DEF T
  <2> QED BY <1>1, <2>1
<1>4. \A i \in 1 .. Len(list) : new[i] = entry(i)
  <2> HIDE DEF entry
  <2> QED BY <1>2
<1>5. IsSeq(new)
  <2> HIDE DEF new, T
  <2> QED BY <1>3, SeqIs
<1>6. \A i \in 1 .. Len(list) : list[i] \in Range(list)
  BY <1>1 DEF Range
<1> HIDE DEF new, T
<1>7. ASSUME NEW i \in 1 .. Len(list)
      PROVE  /\ new[i].row = PageKey(PartitionOf(ask), list[i].sort, list[i].key)
             /\ new[i].labels = LabelsOf(index[list[i].key]) \cap HiddenLabels
  <2>1. new[i] = entry(i)
    BY <1>4
  <2> QED BY <2>1
<1> HIDE DEF entry
<1>8. ASSUME NEW i \in 1 .. Len(list)
      PROVE  /\ new[i].row.sort = list[i].sort /\ new[i].row.key = list[i].key
             /\ new[i].row.partition = PartitionOf(ask)
  <2>1. new[i].row = [partition |-> PartitionOf(ask), sort |-> list[i].sort, key |-> list[i].key]
    BY <1>7 DEF PageKey
  <2> QED BY <2>1
<1> QED BY <1>1, <1>3, <1>5, <1>6, <1>7, <1>8 DEF new

\* all is old with new behind it.
Extends(all, old, new) ==
    /\ IsSeq(all) /\ DOMAIN all = 1 .. (Len(old) + Len(new))
    /\ \A i \in 1 .. Len(old) : all[i] = old[i]
    /\ \A i \in 1 .. Len(new) : all[Len(old) + i] = new[i]

LEMMA RowsJoined ==
    ASSUME NEW ask, NEW old, IsSeq(old), NEW S, NEW list, list \in Seq(S)
    PROVE  Extends(old \o Kept(ask, list), old, Kept(ask, list))
<1> DEFINE new == Kept(ask, list)
<1>1. IsSeq(new)
  BY KeptIs
<1> HIDE DEF new
<1>2. /\ IsSeq(old \o new) /\ DOMAIN (old \o new) = 1 .. (Len(old) + Len(new))
      /\ \A i \in 1 .. Len(old) : (old \o new)[i] = old[i]
  BY <1>1, Joined
<1>3. \A i \in 1 .. Len(new) : (old \o new)[Len(old) + i] = new[i]
  BY <1>1, Joined
<1>4. Extends(old \o new, old, new)
  BY <1>2, <1>3 DEF Extends
<1> QED BY <1>4 DEF new

\* One round of a walk.
Round(ask, request, start, old, page, list, chosen) ==
    /\ IsListing(old, ask, request) /\ Reached(old, start, ask, request)
    /\ IsPage(page, RowsOf(index, QueryOf(ask, request, start)), PartitionOf(ask), Up(ask, request))
    /\ Chosen(list, chosen, page, ask, request)

LEMMA RoundRows ==
    ASSUME NEW ask, IsAsk(ask), IsTable(index), NEW request, NEW start, NEW old, NEW page, NEW list, NEW chosen,
           Round(ask, request, start, old, page, list, chosen),
           NEW r \in RowsOf(index, QueryOf(ask, request, start))
    PROVE  /\ r = RowOf(ask, index, r.key) /\ r.sort \in Int /\ r.sort = SortIn(ask, index[r.key])
           /\ InBounds(r.sort, ask, request)
           /\ \A s \in start : Precedes(s.sort, r.sort, Up(ask, request))
           /\ \A i \in DOMAIN old : Precedes(old[i].row.sort, r.sort, Up(ask, request))
<1> DEFINE q == QueryOf(ask, request, start)
           asc == Up(ask, request)
<1>1. r = RowOf(ask, index, r.key) /\ r.sort \in Int /\ Found(ask, index, q, r.key)
  BY RowsAre
<1>2. r.sort = SortIn(ask, index[r.key])
  BY <1>1 DEF RowOf
<1>3. q.start = start /\ q.ascending = asc
  BY BoundsAre, QueryIs
<1>4. InBounds(r.sort, ask, request)
  BY <1>1, <1>2, BoundsAre DEF Found
<1>5. \A s \in start : Precedes(s.sort, r.sort, asc)
  BY <1>1, <1>2, <1>3 DEF Found, Resumes
<1>6. ASSUME NEW i \in DOMAIN old PROVE Precedes(old[i].row.sort, r.sort, asc)
  <2>1. start # {}
    BY DEF Round, Reached
  <2>2. PICK s : start = {s} /\ IsPlace(s, ask, request) /\ UpTo(old, s, ask, request)
    BY <2>1 DEF Round, Reached, At
  <2>3. /\ s.sort \in Int /\ old[i].row.sort \in Int
        /\ ~Precedes(s.sort, old[i].row.sort, asc) /\ Precedes(s.sort, r.sort, asc)
    BY <1>5, <2>2 DEF Round, IsListing, IsPlace, UpTo
  <2> HIDE DEF asc
  <2>4. CASE s.sort = old[i].row.sort
    BY <2>3, <2>4
  <2>5. CASE s.sort # old[i].row.sort
    <3>1. Precedes(old[i].row.sort, s.sort, asc)
      BY <2>3, <2>5, PrecedesOrders
    <3> QED BY <1>1, <2>3, <3>1, PrecedesOrders
  <2> QED BY <2>4, <2>5
<1> HIDE DEF q
<1> QED BY <1>1, <1>2, <1>4, <1>5, <1>6

LEMMA PageRows ==
    ASSUME NEW ask, IsAsk(ask), IsTable(index), NEW request, NEW start, NEW old, NEW page, NEW list, NEW chosen,
           Round(ask, request, start, old, page, list, chosen)
    PROVE  /\ Range(page.rows) \subseteq RowsOf(index, QueryOf(ask, request, start))
           /\ \A i \in 1 .. Len(list) : list[i] \in RowsOf(index, QueryOf(ask, request, start)) /\ list[i] \in chosen
           /\ \/ page.next = {} /\ Range(page.rows) = RowsOf(index, QueryOf(ask, request, start))
              \/ \E r \in RowsOf(index, QueryOf(ask, request, start)) :
                    PageUpTo(page, RowsOf(index, QueryOf(ask, request, start)), PartitionOf(ask), Up(ask, request), r)
<1> DEFINE rows == RowsOf(index, QueryOf(ask, request, start))
<1>1. /\ page.rows \in Seq(rows)
      /\ \/ page.next = {} /\ Range(page.rows) = rows
         \/ \E r \in rows : PageUpTo(page, rows, PartitionOf(ask), Up(ask, request), r)
  BY DEF Round, IsPage
<1> HIDE DEF rows
<1>2. Range(page.rows) \subseteq rows
  <2>1. page.rows \in Seq(rows)
    BY <1>1
  <2> QED BY <2>1, RangeWithin
<1>3. list \in Seq(chosen) /\ chosen \subseteq Range(page.rows)
  BY DEF Round, Chosen
<1>4. \A i \in 1 .. Len(list) : list[i] \in chosen
  BY <1>3
<1>5. \A i \in 1 .. Len(list) : list[i] \in rows /\ list[i] \in chosen
  BY <1>2, <1>3, <1>4
<1> QED BY <1>1, <1>2, <1>5 DEF rows

LEMMA RoundListing ==
    ASSUME NEW ask, IsAsk(ask), IsTable(index), NEW request, NEW start, NEW old, NEW page, NEW list, NEW chosen,
           Round(ask, request, start, old, page, list, chosen)
    PROVE  /\ IsListing(old \o Kept(ask, list), ask, request)
           /\ At(old \o Kept(ask, list), page.next, ask, request)
           /\ \A steady : Sound(old, ask, index, steady) => Sound(old \o Kept(ask, list), ask, index, steady)
           /\ Shown(old, ask, request) /\ (\A r \in chosen : Filtered(ask) => Matches(request, index[r.key]))
                 => Shown(old \o Kept(ask, list), ask, request)
<1> DEFINE new == Kept(ask, list)
           all == old \o new
           n == Len(old)
           rows == RowsOf(index, QueryOf(ask, request, start))
           asc == Up(ask, request)
<1>1. /\ IsSeq(new) /\ Len(new) = Len(list) /\ Len(list) \in Nat
      /\ \A i \in 1 .. Len(list) :
            /\ new[i].row.sort = list[i].sort /\ new[i].row.key = list[i].key
            /\ new[i].row.partition = PartitionOf(ask)
            /\ new[i].labels = LabelsOf(index[list[i].key]) \cap HiddenLabels
  BY KeptIs DEF Round, Chosen
<1>2. \A i \in 1 .. Len(list) : list[i] \in rows /\ list[i] \in chosen
  BY PageRows
<1>3. IsSeq(old) /\ IsListing(old, ask, request)
  BY DEF Round, IsListing
<1>4. n \in Nat /\ DOMAIN old = 1 .. n
  BY <1>3, SeqIs
<1>5. /\ IsSeq(all) /\ DOMAIN all = 1 .. (n + Len(list))
      /\ \A i \in 1 .. n : all[i] = old[i]
      /\ \A i \in 1 .. Len(list) : all[n + i] = new[i]
  <2>1. list \in Seq(chosen)
    BY DEF Round, Chosen
  <2> HIDE DEF rows, asc
  <2>2. Extends(all, old, new)
    BY <1>3, <2>1, RowsJoined
  <2> HIDE DEF all, new
  <2> QED BY <1>1, <2>2 DEF Extends
<1>6. ASSUME NEW i \in DOMAIN all, ~(i \in DOMAIN old) PROVE \E m \in 1 .. Len(list) : i = n + m
  <2>1. i - n \in 1 .. Len(list) /\ i = n + (i - n)
    BY <1>1, <1>4, <1>5, <1>6
  <2> QED BY <2>1
<1>7. \A r \in rows : /\ r.sort \in Int /\ r.sort = SortIn(ask, index[r.key]) /\ InBounds(r.sort, ask, request)
                      /\ \A i \in DOMAIN old : Precedes(old[i].row.sort, r.sort, asc)
  BY RoundRows
<1> HIDE DEF new, all, n, rows, asc
<1>8. ASSUME NEW i \in DOMAIN all PROVE IsPlace(all[i].row, ask, request)
  <2>1. CASE i \in DOMAIN old
    BY <1>3, <1>4, <1>5, <2>1 DEF IsListing
  <2>2. CASE ~(i \in DOMAIN old)
    <3>1. PICK m \in 1 .. Len(list) : i = n + m
      BY <1>6, <2>2
    <3>2. all[i] = new[m]
      BY <1>5, <3>1
    <3> QED BY <1>1, <1>2, <1>7, <3>2 DEF IsPlace
  <2> QED BY <2>1, <2>2
<1>9. ASSUME NEW i \in DOMAIN all, NEW j \in DOMAIN all, i < j
      PROVE  Precedes(all[i].row.sort, all[j].row.sort, asc)
  <2>1. CASE j \in DOMAIN old
    <3>1. i \in DOMAIN old
      BY <1>4, <1>5, <1>9, <2>1
    <3> QED BY <1>3, <1>4, <1>5, <1>9, <2>1, <3>1 DEF IsListing, asc
  <2>2. CASE ~(j \in DOMAIN old)
    <3>1. PICK m \in 1 .. Len(list) : j = n + m
      BY <1>6, <2>2
    <3>2. all[j].row.sort = list[m].sort /\ list[m] \in rows
      BY <1>1, <1>2, <1>5, <3>1
    <3>3. CASE i \in DOMAIN old
      BY <1>4, <1>5, <1>7, <3>2, <3>3
    <3>4. CASE ~(i \in DOMAIN old)
      <4>1. PICK l \in 1 .. Len(list) : i = n + l
        BY <1>6, <3>4
      <4>2. all[i].row.sort = list[l].sort
        BY <1>1, <1>5, <4>1
      <4>4. l < m
        BY <1>1, <1>4, <1>9, <3>1, <4>1
      <4>3. Precedes(list[l].sort, list[m].sort, asc)
        <5>1. l \in DOMAIN list /\ m \in DOMAIN list
          BY <3>1, <4>1 DEF Round, Chosen
        <5> QED BY <4>4, <5>1 DEF Round, Chosen, AreOrdered, asc
      <4> QED BY <3>2, <4>2, <4>3
    <3> QED BY <3>3, <3>4
  <2> QED BY <2>1, <2>2
<1>10. IsListing(all, ask, request)
  BY <1>5, <1>8, <1>9 DEF IsListing, asc
<1>11. At(all, page.next, ask, request)
  <2>1. CASE page.next = {}
    BY <2>1 DEF At
  <2>2. CASE page.next # {}
    <3>1. PICK r \in rows : PageUpTo(page, rows, PartitionOf(ask), asc, r)
      BY <2>2, PageRows DEF rows, asc
    <3> DEFINE s == PageKey(PartitionOf(ask), r.sort, r.key)
    <3>2. /\ page.next = {s} /\ s.partition = PartitionOf(ask) /\ s.sort = r.sort
          /\ \A o \in Range(page.rows) : ~Precedes(r.sort, o.sort, asc)
      BY <3>1 DEF PageUpTo, PageKey
    <3>3. IsPlace(s, ask, request)
      BY <1>7, <3>2 DEF IsPlace
    <3> HIDE DEF s
    <3>4. ASSUME NEW i \in DOMAIN all PROVE ~Precedes(s.sort, all[i].row.sort, asc)
      <4>1. CASE i \in DOMAIN old
        <5>1. all[i].row.sort \in Int /\ r.sort \in Int /\ Precedes(all[i].row.sort, r.sort, asc)
          BY <1>4, <1>5, <1>7, <1>8, <4>1 DEF IsPlace
        <5> QED BY <3>2, <5>1, PrecedesOrders
      <4>2. CASE ~(i \in DOMAIN old)
        <5>1. PICK m \in 1 .. Len(list) : i = n + m
          BY <1>6, <4>2
        <5>2. all[i].row.sort = list[m].sort /\ list[m] \in chosen
          BY <1>1, <1>2, <1>5, <5>1
        <5>3. list[m] \in Range(page.rows)
          BY <5>2 DEF Round, Chosen
        <5> QED BY <3>2, <5>2, <5>3
      <4> QED BY <4>1, <4>2
    <3>5. UpTo(all, s, ask, request)
      BY <3>4 DEF UpTo, asc
    <3> QED BY <3>2, <3>3, <3>5 DEF At
  <2> QED BY <2>1, <2>2
<1>12. ASSUME NEW steady, Sound(old, ask, index, steady) PROVE Sound(all, ask, index, steady)
  <2> SUFFICES ASSUME NEW k \in steady, NEW i \in DOMAIN all, all[i].row.key = k
               PROVE  all[i].row.sort = SortIn(ask, index[k])
    BY DEF Sound
  <2>1. CASE i \in DOMAIN old
    BY <1>4, <1>5, <1>12, <2>1 DEF Sound
  <2>2. CASE ~(i \in DOMAIN old)
    <3>1. PICK m \in 1 .. Len(list) : i = n + m
      BY <1>6, <2>2
    <3> QED BY <1>1, <1>2, <1>5, <1>7, <3>1
  <2> QED BY <2>1, <2>2
<1>13. ASSUME Shown(old, ask, request), \A r \in chosen : Filtered(ask) => Matches(request, index[r.key])
       PROVE  Shown(all, ask, request)
  <2> SUFFICES ASSUME Filtered(ask), NEW i \in DOMAIN all PROVE request.excluded \cap all[i].labels = {}
    BY DEF Shown
  <2>1. CASE i \in DOMAIN old
    BY <1>4, <1>5, <1>13, <2>1 DEF Shown
  <2>2. CASE ~(i \in DOMAIN old)
    <3>1. PICK m \in 1 .. Len(list) : i = n + m
      BY <1>6, <2>2
    <3>2. all[i].labels \subseteq LabelsOf(index[list[m].key]) /\ list[m] \in chosen
      BY <1>1, <1>2, <1>5, <3>1
    <3>3. request.excluded \cap LabelsOf(index[list[m].key]) = {}
      BY <1>13, <3>2 DEF Matches
    <3> QED BY <3>2, <3>3
  <2> QED BY <2>1, <2>2
<1> QED BY <1>10, <1>11, <1>12, <1>13 DEF all, new

\* A round reads on from where the walk is: nothing in between is left out.
LEMMA RoundCovers ==
    ASSUME NEW ask, IsAsk(ask), IsTable(index), NEW request, NEW start, NEW old, NEW page, NEW list, NEW chosen,
           Round(ask, request, start, old, page, list, chosen), NEW steady,
           \A k \in steady : /\ Keepable(ask, request, k)
                             /\ RowOf(ask, index, k) \in Range(page.rows) => RowOf(ask, index, k) \in chosen,
           Carries(old, start, ask, request, index, steady)
    PROVE  Covers(old \o Kept(ask, list), page.next, ask, request, index, steady)
<1> DEFINE new == Kept(ask, list)
           all == old \o new
           n == Len(old)
           q == QueryOf(ask, request, start)
           rows == RowsOf(index, q)
           asc == Up(ask, request)
<1>1. /\ IsSeq(new) /\ Len(new) = Len(list) /\ Len(list) \in Nat
      /\ \A i \in 1 .. Len(list) : new[i].row.key = list[i].key
  BY KeptIs DEF Round, Chosen
<1>2. IsSeq(old)
  BY DEF Round, IsListing
<1>3. n \in Nat /\ DOMAIN old = 1 .. n
  BY <1>2, SeqIs
<1>4. /\ DOMAIN all = 1 .. (n + Len(list))
      /\ \A i \in 1 .. n : all[i] = old[i]
      /\ \A i \in 1 .. Len(list) : all[n + i] = new[i]
  <2>1. list \in Seq(chosen)
    BY DEF Round, Chosen
  <2> HIDE DEF rows, asc, q
  <2>2. Extends(all, old, new)
    BY <1>2, <2>1, RowsJoined
  <2> HIDE DEF all, new
  <2> QED BY <1>1, <2>2 DEF Extends
<1>5. \A k : Has(old, k) => Has(all, k)
  <2>1. \A i \in DOMAIN old : i \in DOMAIN all /\ all[i] = old[i]
    BY <1>1, <1>3, <1>4
  <2> HIDE DEF all
  <2> QED BY <2>1 DEF Has
<1> SUFFICES ASSUME NEW k \in steady, Passed(k, page.next, ask, request, index) PROVE Has(all, k)
  BY DEF Covers
<1> DEFINE sk == SortIn(ask, index[k])
<1>6. Keepable(ask, request, k)
  OBVIOUS
<1>7. CASE start # {} /\ Passed(k, start, ask, request, index)
  BY <1>5, <1>7 DEF Carries, Covers
<1>8. CASE ~(start # {} /\ Passed(k, start, ask, request, index))
  <2>1. \A s \in start : Precedes(s.sort, sk, asc)
    BY <1>8 DEF Passed, Round, Reached, At
  <2>2. q.start = start /\ q.ascending = asc
    <3>1. q.ascending = asc
      BY BoundsAre
    <3>2. q = QueryOf(ask, request, start)
      OBVIOUS
    <3> HIDE DEF q, asc
    <3>3. q.start = start
      BY <3>2, QueryIs
    <3> QED BY <3>1, <3>3
  <2>3. Resumes(sk, q)
    BY <2>1, <2>2 DEF Resumes
  <2>4. Bounded(sk, q)
    BY <1>6, BoundsAre DEF Keepable
  <2>5. Found(ask, index, q, k)
    BY <1>6, <2>3, <2>4 DEF Found, Keepable
  <2>6. RowOf(ask, index, k) \in rows
    BY <1>6, <2>5, RowsAre DEF Keepable
  <2> DEFINE row == RowOf(ask, index, k)
  <2>7. row.sort = sk /\ row.key = k
    BY DEF RowOf
  <2> HIDE DEF row, sk, rows, q, asc
  <2>8. row \in Range(page.rows)
    <3>1. CASE page.next = {} /\ Range(page.rows) = rows
      BY <2>6, <3>1 DEF row
    <3>2. CASE \E r \in rows : PageUpTo(page, rows, PartitionOf(ask), asc, r)
      <4>1. PICK r \in rows : PageUpTo(page, rows, PartitionOf(ask), asc, r)
        BY <3>2
      <4> DEFINE s == PageKey(PartitionOf(ask), r.sort, r.key)
      <4>2. /\ page.next = {s} /\ s.sort = r.sort
            /\ Range(page.rows) = {o \in rows : ~Precedes(r.sort, o.sort, asc)}
        BY <4>1 DEF PageUpTo, PageKey
      <4> HIDE DEF s
      <4>3. ~Precedes(r.sort, sk, asc)
        BY <4>2 DEF Passed, sk, asc
      <4> QED BY <2>6, <2>7, <4>2, <4>3 DEF row
    <3> QED BY <3>1, <3>2, PageRows DEF rows, q, asc
  <2>9. row \in chosen
    BY <2>8 DEF row
  <2>10. PICK i \in 1 .. Len(list) : list[i] = row
    <3>1. Range(list) = chosen /\ DOMAIN list = 1 .. Len(list)
      BY DEF Round, Chosen
    <3> QED BY <2>9, <3>1 DEF Range
  <2>11. n + i \in DOMAIN all /\ all[n + i].row.key = k
    BY <1>1, <1>3, <1>4, <2>7, <2>10
  <2> HIDE DEF all
  <2> QED BY <2>11 DEF Has
<1> QED BY <1>7, <1>8

-----------------------------------------------------------------------------
(***************************************************************************)
(* What a round leaves.                                                    *)
(***************************************************************************)

\* What was in the list when the walk began, and is as it was.
AreSteady(ask, table, steady) ==
    \A k \in steady : k \in DOMAIN table /\ IsIn(ask, table[k]) /\ Wanted(ask, table[k])

\* The listing all with its continuation: nothing is missing up to there.
Leads(all, next, ask, request, steady, same) ==
    /\ IsListing(all, ask, request) /\ At(all, next, ask, request)
    /\ same => /\ Sound(all, ask, index, steady) /\ Shown(all, ask, request)
               /\ Covers(all, next, ask, request, index, steady)

\* The rows a round keeps, and the page they are from.
Picked(list, page, ask, request) ==
    IF Filtered(ask)
    THEN list = InOrder({r \in Range(page.rows) : Matches(request, index[r.key])}, Up(ask, request))
    ELSE list = page.rows

PickedRows(page, ask, request) == {r \in Range(page.rows) : Filtered(ask) => Matches(request, index[r.key])}

LEMMA PickedAreChosen ==
    ASSUME NEW ask, IsAsk(ask), IsTable(index), NEW request, NEW start, NEW page, NEW list,
           IsPage(page, RowsOf(index, QueryOf(ask, request, start)), PartitionOf(ask), Up(ask, request)),
           Picked(list, page, ask, request)
    PROVE  Chosen(list, PickedRows(page, ask, request), page, ask, request)
<1> DEFINE rows == RowsOf(index, QueryOf(ask, request, start))
           chosen == PickedRows(page, ask, request)
           asc == Up(ask, request)
<1>1. page.rows \in Seq(rows) /\ AreOrdered(page.rows, asc)
  BY DEF IsPage
<1>2. Range(page.rows) \subseteq rows /\ chosen \subseteq Range(page.rows)
  <2> HIDE DEF rows
  <2>1. Range(page.rows) \subseteq rows
    BY <1>1, RangeWithin
  <2> QED BY <2>1 DEF PickedRows
<1>3. CASE Filtered(ask)
  <2>1. chosen = {r \in Range(page.rows) : Matches(request, index[r.key])}
    BY <1>3 DEF PickedRows
  <2>2. list = InOrder(chosen, asc)
    BY <1>3, <2>1 DEF Picked
  <2>3. AreRows(rows)
    BY RowsAre
  <2> HIDE DEF rows, chosen, asc
  <2>4. AreRows(chosen)
    <3>1. IsFiniteSet(chosen)
      BY <1>2, <2>3, FS_Subset DEF AreRows
    <3> QED BY <1>2, <2>3, <3>1 DEF AreRows
  <2>5. Lists(list, chosen, asc)
    BY <2>2, <2>4, InOrderLists
  <2> QED BY <1>2, <2>5 DEF Lists, Chosen, chosen, asc
<1>4. CASE ~Filtered(ask)
  <2>1. chosen = Range(page.rows) /\ list = page.rows
    BY <1>4 DEF PickedRows, Picked
  <2> HIDE DEF rows, chosen, asc
  <2>2. IsSeq(page.rows)
    BY <1>1, SeqIs
  <2> QED BY <1>1, <1>2, <2>1, <2>2 DEF Chosen, IsSeq, chosen, asc
<1> QED BY <1>3, <1>4

LEMMA RoundLeads ==
    ASSUME NEW ask, IsAsk(ask), IsTable(index), NEW request, Understood(ask.query, request),
           NEW start, NEW old, NEW page, NEW list, NEW steady, NEW same,
           IsListing(old, ask, request), Reached(old, start, ask, request),
           IsPage(page, RowsOf(index, QueryOf(ask, request, start)), PartitionOf(ask), Up(ask, request)),
           Picked(list, page, ask, request),
           same => /\ AreSteady(ask, index, steady)
                   /\ Sound(old, ask, index, steady) /\ Shown(old, ask, request)
                   /\ Carries(old, start, ask, request, index, steady)
    PROVE  Leads(old \o Kept(ask, list), page.next, ask, request, steady, same)
<1> DEFINE chosen == PickedRows(page, ask, request)
           all == old \o Kept(ask, list)
<1>1. Round(ask, request, start, old, page, list, chosen)
  BY PickedAreChosen DEF Round
<1>2. \A r \in chosen : Filtered(ask) => Matches(request, index[r.key])
  BY DEF PickedRows
<1>3. IsListing(all, ask, request) /\ At(all, page.next, ask, request)
  <2> HIDE DEF chosen
  <2> QED BY <1>1, RoundListing
<1>4. ASSUME same PROVE Sound(all, ask, index, steady) /\ Shown(all, ask, request)
  <2>1. Sound(old, ask, index, steady) /\ Shown(old, ask, request)
    BY <1>4
  <2> HIDE DEF chosen
  <2> QED BY <1>1, <1>2, <2>1, RoundListing
<1>5. ASSUME same PROVE Covers(all, page.next, ask, request, index, steady)
  <2>1. ASSUME NEW k \in steady
        PROVE  /\ Keepable(ask, request, k)
               /\ RowOf(ask, index, k) \in Range(page.rows) => RowOf(ask, index, k) \in chosen
    <3>1. k \in DOMAIN index /\ IsIn(ask, index[k]) /\ Wanted(ask, index[k]) /\ IsItem(k, index[k])
      BY <1>5 DEF AreSteady, IsTable
    <3>2. /\ SortIn(ask, index[k]) \in Int /\ InBounds(SortIn(ask, index[k]), ask, request)
          /\ Filtered(ask) => Matches(request, index[k])
      BY <3>1, WantedIs
    <3>3. RowOf(ask, index, k).key = k
      BY DEF RowOf
    <3>4. RowOf(ask, index, k) \in Range(page.rows) => RowOf(ask, index, k) \in chosen
      BY <3>2, <3>3 DEF PickedRows
    <3> QED BY <3>1, <3>2, <3>4 DEF Keepable
  <2>2. Carries(old, start, ask, request, index, steady)
    BY <1>5
  <2> HIDE DEF chosen
  <2> QED BY <1>1, <2>1, <2>2, RoundCovers
<1> QED BY <1>3, <1>4, <1>5 DEF Leads, all

LEMMA Extended ==
    ASSUME NEW a, IsSeq(a), NEW b, IsSeq(b)
    PROVE  Extends(a \o b, a, b)
<1>1. IsSeq(a \o b) /\ DOMAIN (a \o b) = 1 .. (Len(a) + Len(b))
  BY Joined
<1>2. \A i \in 1 .. Len(a) : (a \o b)[i] = a[i]
  BY Joined
<1>3. \A i \in 1 .. Len(b) : (a \o b)[Len(a) + i] = b[i]
  BY Joined
<1> QED BY <1>1, <1>2, <1>3 DEF Extends

\* The answer is cut at the limit, its continuation with it.
LEMMA FilledLeads ==
    ASSUME NEW ask, IsAsk(ask), IsTable(index), NEW request, Understood(ask.query, request),
           NEW seen, IsSeq(seen), NEW got, IsSeq(got), NEW kept, IsSeq(kept), NEW page, NEW steady, NEW same,
           Leads(seen \o (got \o kept), page.next, ask, request, steady, same),
           same => AreSteady(ask, index, steady),
           NEW filled, filled = Filled(got, kept, request.limit, page)
    PROVE  IsSeq(filled.got) /\ Leads(seen \o filled.got, filled.next, ask, request, steady, same)
<1> DEFINE full == got \o kept
           limit == request.limit
           cut == SubSeq(full, 1, limit)
           all == seen \o full
           part == seen \o cut
           n == Len(seen)
<1>0. limit \in Nat \ {0}
  <2>1. request.limit \in 1 .. MaxLimit
    BY DEF Understood
  <2> QED BY <2>1, MailReadsAssumption
<1>1. IsSeq(full) /\ Len(full) \in Nat
  <2>1. IsSeq(full)
    BY Joined
  <2> HIDE DEF full
  <2> QED BY <2>1, SeqIs
<1>2. CASE ~(Len(full) > limit)
  <2>1. filled.got = full /\ filled.next = page.next
    BY <1>2 DEF Filled
  <2> QED BY <1>1, <2>1
<1>3. CASE Len(full) > limit
  <2>1. filled.got = cut /\ filled.next = {full[limit].row}
    BY <1>3 DEF Filled
  <2> HIDE DEF full, limit
  <2>2. IsSeq(cut) /\ Len(cut) = limit /\ \A i \in 1 .. limit : cut[i] = full[i]
    <3>1. full \in Seq(Range(full))
      BY <1>1 DEF IsSeq
    <3>2. cut \in Seq(Range(full)) /\ Len(cut) = limit /\ \A i \in 1 .. limit : cut[i] = full[i]
      BY <1>0, <1>1, <1>3, <3>1, SubSeqProperties
    <3> HIDE DEF cut
    <3> QED BY <3>2, SeqIs
  <2> HIDE DEF cut
  <2>3. n \in Nat
    BY SeqIs
  <2>4. Extends(all, seen, full) /\ Extends(part, seen, cut)
    BY <1>1, <2>2, Extended
  <2> HIDE DEF all, part, n
  <2>5. /\ IsSeq(all) /\ Len(all) = n + Len(full)
        /\ IsSeq(part) /\ Len(part) = n + limit
    <3>1. DOMAIN all = 1 .. (n + Len(full)) /\ DOMAIN part = 1 .. (n + limit) /\ IsSeq(all) /\ IsSeq(part)
      BY <2>2, <2>4 DEF Extends, n
    <3>2. Len(all) \in Nat /\ Len(part) \in Nat /\ DOMAIN all = 1 .. Len(all) /\ DOMAIN part = 1 .. Len(part)
      BY <3>1, SeqIs
    <3> QED BY <1>0, <1>1, <2>3, <3>1, <3>2
  <2>6. ASSUME NEW i \in 1 .. Len(part) PROVE part[i] = all[i]
    <3>1. CASE i \in 1 .. n
      BY <2>4, <3>1 DEF Extends, n
    <3>2. CASE ~(i \in 1 .. n)
      <4>1. i - n \in 1 .. limit /\ i - n \in 1 .. Len(full) /\ i = n + (i - n)
        BY <1>0, <1>1, <1>3, <2>3, <2>5, <3>2
      <4>2. part[n + (i - n)] = cut[i - n] /\ all[n + (i - n)] = full[i - n]
        BY <2>2, <2>4, <4>1 DEF Extends, n
      <4> QED BY <2>2, <4>1, <4>2
    <3> QED BY <3>1, <3>2
  <2>7. FirstOf(all, part)
    <3>1. Len(part) <= Len(all)
      BY <1>0, <1>1, <1>3, <2>3, <2>5
    <3> QED BY <2>5, <2>6, <3>1 DEF FirstOf
  <2>8. /\ n + limit \in 1 .. Len(all) /\ all[n + limit] = full[limit]
    <3>1. limit \in 1 .. Len(full)
      BY <1>0, <1>1, <1>3
    <3>2. all[n + limit] = full[limit]
      BY <2>4, <3>1 DEF Extends, n
    <3> QED BY <1>0, <1>1, <1>3, <2>3, <2>5, <3>2
  <2>9. Leads(all, page.next, ask, request, steady, same)
    BY DEF all, full
  <2>10. IsListing(all, ask, request) /\ At(all, page.next, ask, request)
    BY <2>9 DEF Leads
  <2>11. At(part, filled.next, ask, request)
    <3> DEFINE none == {}
    <3>1. /\ Sound(all, ask, index, none) /\ Covers(all, page.next, ask, request, index, none)
          /\ \A k \in none : SortIn(ask, index[k]) \in Int
      BY DEF Sound, Covers
    <3> HIDE DEF none
    <3> DEFINE m == n + limit
    <3>3. m \in 1 .. Len(all) /\ Len(part) = m
      BY <2>5, <2>8
    <3> HIDE DEF m
    <3>2. At(part, {all[m].row}, ask, request)
      BY <2>7, <2>10, <3>1, <3>3, ListingCut
    <3> QED BY <2>1, <2>8, <3>2 DEF m
  <2>12. IsListing(part, ask, request)
    BY <2>7, <2>10, ListingStarts
  <2>13. ASSUME same
         PROVE  /\ Sound(part, ask, index, steady) /\ Shown(part, ask, request)
                /\ Covers(part, filled.next, ask, request, index, steady)
    <3>1. /\ Sound(all, ask, index, steady) /\ Shown(all, ask, request)
          /\ Covers(all, page.next, ask, request, index, steady)
      BY <2>9, <2>13 DEF Leads
    <3>2. \A k \in steady : SortIn(ask, index[k]) \in Int
      BY <2>13, WantedIs DEF AreSteady, IsTable
    <3>3. Sound(part, ask, index, steady) /\ Shown(part, ask, request)
      BY <2>7, <2>10, <3>1, ListingStarts
    <3>4. Covers(part, {all[n + limit].row}, ask, request, index, steady)
      BY <2>5, <2>7, <2>8, <2>10, <3>1, <3>2, ListingCut
    <3> QED BY <2>1, <2>8, <3>3, <3>4
  <2>14. Leads(part, filled.next, ask, request, steady, same)
    BY <2>11, <2>12, <2>13 DEF Leads
  <2> QED BY <2>1, <2>2, <2>14 DEF part
<1> QED BY <1>2, <1>3

-----------------------------------------------------------------------------
(***************************************************************************)
(* The walk: what is true of it between its steps.                         *)
(***************************************************************************)

WalkFields == {"pc", "ask", "token", "request", "start", "round", "got", "seen", "same", "steady"}

\* Where the client's token takes up.
Places(w) == {t.key : t \in w.token}

Opened(w) == IsAsk(w.ask) /\ w.request = Parse(w.ask.query) /\ w.request.errors = {}

ListedSoFar(w) ==
    /\ IsSeq(w.seen) /\ IsSeq(w.got) /\ IsListing(w.seen \o w.got, w.ask, w.request)
    /\ w.pc # "fill" \/ ~Filtered(w.ask) => w.got = <<>>
    /\ w.pc \in {"fill", "page"} =>
          /\ \A t \in w.token : t.scope = ScopeOf(w.ask, w.request)
          /\ Reached(w.seen, Places(w), w.ask, w.request)
    /\ w.pc = "fill" => Reached(w.seen \o w.got, w.start, w.ask, w.request)

MissesNothing(w, table) ==
    /\ AreSteady(w.ask, table, w.steady)
    /\ Sound(w.seen \o w.got, w.ask, table, w.steady) /\ Shown(w.seen \o w.got, w.ask, w.request)
    /\ w.pc \in {"fill", "page"} => Carries(w.seen, Places(w), w.ask, w.request, table, w.steady)
    /\ w.pc = "fill" => Carries(w.seen \o w.got, w.start, w.ask, w.request, table, w.steady)
    /\ w.pc = "end" => Covers(w.seen, {}, w.ask, w.request, table, w.steady)

Unopened(w) ==
    /\ (w.pc = "idle" /\ (w.ask = NoAsk \/ IsAsk(w.ask))) \/ w.pc = "refused"
    /\ w.seen = <<>> /\ w.got = <<>> /\ w.token = {} /\ w.start = {}

UnderWay(w, table) ==
    /\ w.pc \in {"fill", "page", "end", "gone"}
    /\ Opened(w) /\ ListedSoFar(w) /\ (w.same => MissesNothing(w, table))

WalkIs(w, table) == DOMAIN w = WalkFields /\ (Unopened(w) \/ UnderWay(w, table))

LEMMA EmptyListing ==
    ASSUME NEW ask, NEW request
    PROVE  /\ IsSeq(<<>>) /\ <<>> \o <<>> = <<>> /\ IsListing(<<>>, ask, request)
           /\ Reached(<<>>, {}, ask, request)
           /\ \A table, steady : Sound(<<>>, ask, table, steady) /\ Carries(<<>>, {}, ask, request, table, steady)
           /\ Shown(<<>>, ask, request)
<1>1. DOMAIN <<>> = {}
  OBVIOUS
<1>2. IsSeq(<<>>)
  <2>1. <<>> \in Seq({})
    OBVIOUS
  <2> QED BY <2>1, SeqIs
<1>3. <<>> \o <<>> = <<>>
  BY <1>2, Joined
<1>4. IsListing(<<>>, ask, request)
  BY <1>1, <1>2 DEF IsListing
<1>5. Reached(<<>>, {}, ask, request)
  BY DEF Reached, At
<1>6. \A table, steady : Sound(<<>>, ask, table, steady) /\ Carries(<<>>, {}, ask, request, table, steady)
  BY <1>1 DEF Sound, Carries
<1>7. Shown(<<>>, ask, request)
  BY <1>1 DEF Shown
<1> QED BY <1>2, <1>3, <1>4, <1>5, <1>6, <1>7

LEMMA AsksKeeps ==
    ASSUME WalkIs(walk, index), Asks
    PROVE  WalkIs(walk', index')
<1> DEFINE r == Parse(walk.ask.query)
<1>1. /\ walk.pc = "idle" /\ walk.ask # NoAsk /\ index' = index
      /\ walk' = [walk EXCEPT !.steady = Listed(walk.ask), !.request = r,
                              !.pc = IF r.errors = {} THEN "fill" ELSE "refused"]
  BY DEF Asks
<1>2. /\ DOMAIN walk = WalkFields /\ IsAsk(walk.ask)
      /\ walk.seen = <<>> /\ walk.got = <<>> /\ walk.token = {} /\ walk.start = {}
  BY <1>1 DEF WalkIs, Unopened, UnderWay
<1> HIDE DEF r
<1>3. /\ DOMAIN walk' = WalkFields /\ walk'.ask = walk.ask /\ walk'.request = r
      /\ walk'.pc = (IF r.errors = {} THEN "fill" ELSE "refused") /\ walk'.steady = Listed(walk.ask)
      /\ walk'.seen = <<>> /\ walk'.got = <<>> /\ walk'.token = {} /\ walk'.start = {}
  BY <1>1, <1>2 DEF WalkFields
<1>4. CASE r.errors # {}
  BY <1>3, <1>4 DEF WalkIs, Unopened
<1>5. CASE r.errors = {}
  <2>1. Opened(walk')
    BY <1>2, <1>3, <1>5 DEF Opened, r
  <2>2. walk'.pc = "fill" /\ Places(walk') = {}
    BY <1>3, <1>5 DEF Places
  <2>3. ListedSoFar(walk')
    BY <1>3, <2>2, EmptyListing DEF ListedSoFar
  <2>4. AreSteady(walk.ask, index, Listed(walk.ask))
    BY DEF AreSteady, Listed, IsIn
  <2>5. MissesNothing(walk', index)
    BY <1>3, <2>2, <2>4, EmptyListing DEF MissesNothing
  <2> QED BY <1>1, <1>3, <2>1, <2>2, <2>3, <2>5 DEF WalkIs, UnderWay
<1> QED BY <1>4, <1>5

LEMMA AnswersKeeps ==
    ASSUME DOMAIN walk = WalkFields, Opened(walk), IsSeq(walk.seen), NEW rows, IsSeq(rows), NEW next,
           Answers(walk.ask, walk.request, rows, next),
           Leads(walk.seen \o rows, next, walk.ask, walk.request, walk.steady, walk.same),
           walk.same => AreSteady(walk.ask, index, walk.steady)
    PROVE  WalkIs(walk', index)
<1> DEFINE scope == ScopeOf(walk.ask, walk.request)
           all == walk.seen \o rows
<1>1. walk' = [walk EXCEPT
        !.seen = all, !.token = {EncodePageToken(n, scope) : n \in next},
        !.pc = IF next = {} THEN "end" ELSE "page",
        !.got = <<>>, !.start = {}, !.round = 0]
  BY DEF Answers
<1> HIDE DEF scope
<1>2. IsSeq(all) /\ all \o <<>> = all /\ IsSeq(<<>>)
  <2>1. IsSeq(all)
    BY Joined
  <2> HIDE DEF all
  <2> QED BY <2>1, Joined, EmptyListing
<1> HIDE DEF all
<1>3. /\ DOMAIN walk' = WalkFields /\ walk'.ask = walk.ask /\ walk'.request = walk.request
      /\ walk'.pc = (IF next = {} THEN "end" ELSE "page") /\ walk'.steady = walk.steady
      /\ walk'.seen = all /\ walk'.got = <<>> /\ walk'.same = walk.same
      /\ walk'.token = {EncodePageToken(n, scope) : n \in next}
  BY <1>1 DEF WalkFields
<1>4. /\ \A t \in walk'.token : t.scope = scope
      /\ Places(walk') = next
  <2>1. \A n : EncodePageToken(n, scope).key = n /\ EncodePageToken(n, scope).scope = scope
    BY DEF EncodePageToken
  <2> QED BY <1>3, <2>1 DEF Places
<1>5. /\ IsListing(all, walk.ask, walk.request) /\ At(all, next, walk.ask, walk.request)
      /\ walk.same => /\ Sound(all, walk.ask, index, walk.steady) /\ Shown(all, walk.ask, walk.request)
                      /\ Covers(all, next, walk.ask, walk.request, index, walk.steady)
  BY DEF Leads, all
<1>6. Opened(walk')
  BY <1>3 DEF Opened
<1>7. ListedSoFar(walk')
  BY <1>2, <1>3, <1>4, <1>5 DEF ListedSoFar, Reached, scope
<1>8. ASSUME walk'.same PROVE MissesNothing(walk', index)
  BY <1>2, <1>3, <1>4, <1>5, <1>8 DEF MissesNothing, Carries
<1> QED BY <1>3, <1>6, <1>7, <1>8 DEF WalkIs, UnderWay

\* What a page's round has to start from.
LEMMA RoundStarts ==
    ASSUME WalkIs(walk, index), walk.pc = "fill"
    PROVE  /\ DOMAIN walk = WalkFields /\ UnderWay(walk, index) /\ Opened(walk)
           /\ Understood(walk.ask.query, walk.request)
           /\ IsSeq(walk.seen) /\ IsSeq(walk.got)
           /\ IsListing(walk.seen \o walk.got, walk.ask, walk.request)
           /\ Reached(walk.seen \o walk.got, walk.start, walk.ask, walk.request)
           /\ Reached(walk.seen, Places(walk), walk.ask, walk.request)
           /\ \A t \in walk.token : t.scope = ScopeOf(walk.ask, walk.request)
           /\ walk.same => MissesNothing(walk, index)
<1>1. DOMAIN walk = WalkFields /\ UnderWay(walk, index)
  BY DEF WalkIs, Unopened
<1>2. Opened(walk) /\ ListedSoFar(walk) /\ (walk.same => MissesNothing(walk, index))
  BY <1>1 DEF UnderWay
<1>3. Understood(walk.ask.query, walk.request)
  BY <1>2, ParsedIs DEF Opened, IsAsk
<1> QED BY <1>1, <1>2, <1>3 DEF ListedSoFar

\* The page a round gets.
LEMMA RoundPage ==
    ASSUME NEW ask, IsAsk(ask), IsTable(index), NEW request, NEW start, NEW limit \in Nat,
           NEW page \in QueryPages(index, QueryOf(ask, request, start), limit)
    PROVE  IsPage(page, RowsOf(index, QueryOf(ask, request, start)), PartitionOf(ask), Up(ask, request))
<1> DEFINE q == QueryOf(ask, request, start)
<1>1. AreRows(RowsOf(index, q))
  BY RowsAre
<1>2. q.partition = PartitionOf(ask) /\ q.ascending = Up(ask, request)
  BY BoundsAre DEF QueryOf
<1> HIDE DEF q
<1>3. IsPage(page, RowsOf(index, q), q.partition, q.ascending)
  BY <1>1, PagesAre DEF q
<1> QED BY <1>2, <1>3 DEF q

RoundFills(ask, request, query) ==
    \E page \in QueryPages(index, query, IF walk.round = 0 THEN request.limit ELSE MaxLimit) :
       LET kept == InOrder({r \in Range(page.rows) : Matches(request, index[r.key])}, query.ascending)
           filled == Filled(walk.got, Kept(ask, kept), request.limit, page)
       IN  IF filled.next = {} \/ Len(filled.got) >= request.limit \/ walk.round + 1 = MaxFillPages
           THEN Answers(ask, request, filled.got, filled.next)
           ELSE walk' = [walk EXCEPT !.got = filled.got, !.start = filled.next, !.round = @ + 1]

LEMMA FillRoundKeeps ==
    ASSUME IsTable(index), WalkIs(walk, index), FillRound
    PROVE  WalkIs(walk', index')
<1> DEFINE ask == walk.ask
           request == walk.request
           query == QueryOf(ask, request, walk.start)
           old == walk.seen \o walk.got
<1>1. /\ walk.pc = "fill" /\ Filtered(ask) /\ index' = index
      /\ RoundFills(ask, request, query)
  <2>1. walk.pc = "fill" /\ Filtered(ask) /\ index' = index
    BY DEF FillRound
  <2>2. PICK rq \in {request}, qu \in {query} : RoundFills(ask, rq, qu)
    BY DEF FillRound, RoundFills
  <2>3. rq = request /\ qu = query
    BY <2>2
  <2> QED BY <2>1, <2>2, <2>3
<1> DEFINE limit == IF walk.round = 0 THEN request.limit ELSE MaxLimit
<1>2. PICK page \in QueryPages(index, query, limit) :
          LET kept == InOrder({r \in Range(page.rows) : Matches(request, index[r.key])}, query.ascending)
              filled == Filled(walk.got, Kept(ask, kept), request.limit, page)
          IN  IF filled.next = {} \/ Len(filled.got) >= request.limit \/ walk.round + 1 = MaxFillPages
              THEN Answers(ask, request, filled.got, filled.next)
              ELSE walk' = [walk EXCEPT !.got = filled.got, !.start = filled.next, !.round = @ + 1]
  BY <1>1 DEF RoundFills
<1> DEFINE kept == InOrder({r \in Range(page.rows) : Matches(request, index[r.key])}, query.ascending)
           filled == Filled(walk.got, Kept(ask, kept), request.limit, page)
<1>3. \/ Answers(ask, request, filled.got, filled.next)
      \/ /\ walk' = [walk EXCEPT !.got = filled.got, !.start = filled.next, !.round = @ + 1]
         /\ filled.next # {}
  BY <1>2
<1>4. /\ DOMAIN walk = WalkFields /\ UnderWay(walk, index) /\ Opened(walk)
      /\ Understood(ask.query, request)
      /\ IsSeq(walk.seen) /\ IsSeq(walk.got)
      /\ IsListing(old, ask, request) /\ Reached(old, walk.start, ask, request)
      /\ Reached(walk.seen, Places(walk), ask, request)
      /\ \A t \in walk.token : t.scope = ScopeOf(ask, request)
      /\ walk.same => MissesNothing(walk, index)
  BY <1>1, RoundStarts
<1>5. IsAsk(ask) /\ request.limit \in Nat /\ limit \in Nat
  <2>1. request.limit \in 1 .. MaxLimit /\ MaxLimit \in Nat /\ IsAsk(ask)
    BY <1>4, MailReadsAssumption DEF Understood, Opened
  <2> HIDE DEF ask, request
  <2> QED BY <2>1
<1> HIDE DEF limit
<1>6. IsPage(page, RowsOf(index, query), PartitionOf(ask), Up(ask, request))
  BY <1>2, <1>5, RoundPage
<1>7. Picked(kept, page, ask, request)
  <2>1. query.ascending = Up(ask, request)
    BY BoundsAre
  <2> QED BY <1>1, <2>1 DEF Picked
<1>8. walk.same => /\ AreSteady(ask, index, walk.steady)
                   /\ Sound(old, ask, index, walk.steady) /\ Shown(old, ask, request)
                   /\ Carries(old, walk.start, ask, request, index, walk.steady)
                   /\ Carries(walk.seen, Places(walk), ask, request, index, walk.steady)
  BY <1>1, <1>4 DEF MissesNothing
<1> DEFINE new == Kept(ask, kept)
<1>9. IsSeq(new)
  <2>1. Chosen(kept, PickedRows(page, ask, request), page, ask, request)
    BY <1>5, <1>6, <1>7, PickedAreChosen
  <2> HIDE DEF kept, ask, request
  <2>2. \E S : kept \in Seq(S)
    BY <2>1 DEF Chosen
  <2> QED BY <2>2, KeptIs
<1>10. Leads(old \o new, page.next, ask, request, walk.steady, walk.same)
  <2> HIDE DEF kept, ask, request, old, query
  <2> QED BY <1>4, <1>5, <1>6, <1>7, <1>8, RoundLeads DEF query
<1> HIDE DEF kept, ask, request, query
<1> HIDE DEF new
<1>11. Leads(walk.seen \o (walk.got \o new), page.next, ask, request, walk.steady, walk.same)
  <2>1. (walk.seen \o walk.got) \o new = walk.seen \o (walk.got \o new)
    <3> DEFINE seen == walk.seen
               got == walk.got
    <3>1. IsSeq(seen) /\ IsSeq(got) /\ IsSeq(new)
      BY <1>4, <1>9
    <3> HIDE DEF seen, got
    <3>2. (seen \o got) \o new = seen \o (got \o new)
      BY <3>1, Regrouped
    <3> QED BY <3>2 DEF seen, got
  <2> QED BY <1>10, <2>1
<1>12. filled = Filled(walk.got, new, request.limit, page)
  BY DEF new
<1> HIDE DEF filled, old
<1>13. IsSeq(filled.got) /\ Leads(walk.seen \o filled.got, filled.next, ask, request, walk.steady, walk.same)
  <2>1. /\ IsAsk(ask) /\ Understood(ask.query, request) /\ IsSeq(walk.seen) /\ IsSeq(walk.got) /\ IsSeq(new)
        /\ walk.same => AreSteady(ask, index, walk.steady)
    BY <1>4, <1>5, <1>8, <1>9
  <2> QED BY <1>11, <1>12, <2>1, FilledLeads
<1>14. CASE Answers(ask, request, filled.got, filled.next)
  <2>1. WalkIs(walk', index)
    BY <1>4, <1>8, <1>13, <1>14, AnswersKeeps DEF ask, request
  <2> QED BY <1>1, <2>1
<1>15. CASE /\ walk' = [walk EXCEPT !.got = filled.got, !.start = filled.next, !.round = @ + 1]
            /\ filled.next # {}
  <2>1. /\ DOMAIN walk' = WalkFields /\ walk'.ask = ask /\ walk'.request = request
        /\ walk'.pc = "fill" /\ walk'.steady = walk.steady /\ walk'.same = walk.same
        /\ walk'.seen = walk.seen /\ walk'.got = filled.got /\ walk'.start = filled.next
        /\ walk'.token = walk.token
    BY <1>1, <1>4, <1>15 DEF WalkFields, ask, request
  <2> DEFINE all == walk.seen \o filled.got
  <2>2. /\ IsListing(all, ask, request) /\ At(all, filled.next, ask, request)
        /\ walk.same => /\ Sound(all, ask, index, walk.steady) /\ Shown(all, ask, request)
                        /\ Covers(all, filled.next, ask, request, index, walk.steady)
    BY <1>13 DEF Leads
  <2> HIDE DEF all
  <2>3. Places(walk') = Places(walk) /\ walk'.seen \o walk'.got = all
    BY <2>1 DEF Places, all
  <2>4. Opened(walk')
    BY <1>4, <2>1 DEF Opened, ask, request
  <2>5. ListedSoFar(walk')
    BY <1>1, <1>4, <1>13, <1>15, <2>1, <2>2, <2>3 DEF ListedSoFar, Reached
  <2>6. ASSUME walk'.same PROVE MissesNothing(walk', index)
    BY <1>8, <2>1, <2>2, <2>3, <2>6 DEF MissesNothing, Carries
  <2> QED BY <1>1, <2>1, <2>4, <2>5, <2>6 DEF WalkIs, UnderWay
<1> QED BY <1>3, <1>14, <1>15

LEMMA ListsPageKeeps ==
    ASSUME IsTable(index), WalkIs(walk, index), ListsPage
    PROVE  WalkIs(walk', index')
<1> DEFINE ask == walk.ask
           request == walk.request
           query == QueryOf(ask, request, walk.start)
<1>1. /\ walk.pc = "fill" /\ ~Filtered(ask) /\ index' = index
      /\ \E page \in QueryPages(index, query, request.limit) :
            \/ walk' = [walk EXCEPT !.pc = "gone"]
            \/ Answers(ask, request, Kept(ask, page.rows), page.next)
  BY DEF ListsPage
<1>2. PICK page \in QueryPages(index, query, request.limit) :
            \/ walk' = [walk EXCEPT !.pc = "gone"]
            \/ Answers(ask, request, Kept(ask, page.rows), page.next)
  BY <1>1
<1>3. /\ DOMAIN walk = WalkFields /\ UnderWay(walk, index) /\ Opened(walk)
      /\ Understood(ask.query, request)
      /\ IsSeq(walk.seen) /\ IsSeq(walk.got)
      /\ IsListing(walk.seen \o walk.got, ask, request)
      /\ Reached(walk.seen \o walk.got, walk.start, ask, request)
      /\ walk.same => MissesNothing(walk, index)
  BY <1>1, RoundStarts
<1>4. walk.got = <<>> /\ walk.seen \o walk.got = walk.seen
  <2>1. walk.got = <<>>
    BY <1>1, <1>3 DEF UnderWay, ListedSoFar
  <2> QED BY <1>3, <2>1, Joined
<1>5. CASE walk' = [walk EXCEPT !.pc = "gone"]
  <2>1. /\ DOMAIN walk' = WalkFields /\ walk'.ask = ask /\ walk'.request = request
        /\ walk'.pc = "gone" /\ walk'.steady = walk.steady /\ walk'.same = walk.same
        /\ walk'.seen = walk.seen /\ walk'.got = walk.got
    BY <1>3, <1>5 DEF WalkFields
  <2> HIDE DEF ask, request
  <2>2. Opened(walk')
    BY <1>3, <2>1 DEF Opened, ask, request
  <2>3. ListedSoFar(walk')
    BY <1>3, <1>4, <2>1 DEF ListedSoFar
  <2>4. ASSUME walk'.same PROVE MissesNothing(walk', index)
    BY <1>3, <2>1, <2>4 DEF MissesNothing, ask, request
  <2> QED BY <1>1, <2>1, <2>2, <2>3, <2>4 DEF WalkIs, UnderWay
<1>6. CASE Answers(ask, request, Kept(ask, page.rows), page.next)
  <2>1. IsAsk(ask) /\ request.limit \in Nat
    <3>1. request.limit \in 1 .. MaxLimit /\ MaxLimit \in Nat /\ IsAsk(ask)
      BY <1>3, MailReadsAssumption DEF Understood, Opened
    <3> HIDE DEF ask, request
    <3> QED BY <3>1
  <2>2. IsPage(page, RowsOf(index, query), PartitionOf(ask), Up(ask, request))
    BY <1>2, <2>1, RoundPage
  <2>3. Picked(page.rows, page, ask, request)
    BY <1>1 DEF Picked
  <2>4. walk.same => /\ AreSteady(ask, index, walk.steady)
                     /\ Sound(walk.seen, ask, index, walk.steady) /\ Shown(walk.seen, ask, request)
                     /\ Carries(walk.seen, walk.start, ask, request, index, walk.steady)
    BY <1>1, <1>3, <1>4 DEF MissesNothing
  <2> DEFINE new == Kept(ask, page.rows)
  <2>5. IsSeq(new)
    <3>1. \E S : page.rows \in Seq(S)
      BY <2>2 DEF IsPage
    <3> QED BY <3>1, KeptIs
  <2>6. Leads(walk.seen \o new, page.next, ask, request, walk.steady, walk.same)
    <3> HIDE DEF ask, request, query
    <3> QED BY <1>3, <1>4, <2>1, <2>2, <2>3, <2>4, RoundLeads DEF query
  <2> HIDE DEF new
  <2>7. Answers(ask, request, new, page.next)
    BY <1>6 DEF new
  <2>8. WalkIs(walk', index)
    BY <1>3, <2>4, <2>5, <2>6, <2>7, AnswersKeeps DEF ask, request
  <2> QED BY <1>1, <2>8
<1> QED BY <1>2, <1>5, <1>6

\* A failed query: the client's token still stands for all it was given.
LEMMA QueryFailsKeeps ==
    ASSUME WalkIs(walk, index), QueryFails
    PROVE  WalkIs(walk', index')
<1> DEFINE ask == walk.ask
           request == walk.request
           seen == walk.seen
           places == Places(walk)
<1>1. /\ walk.pc = "fill" /\ index' = index
      /\ walk' = [walk EXCEPT !.start = places, !.got = <<>>, !.round = 0]
  BY DEF QueryFails, Places
<1>2. /\ DOMAIN walk = WalkFields /\ Opened(walk)
      /\ IsSeq(seen) /\ IsSeq(walk.got) /\ IsListing(seen \o walk.got, ask, request)
      /\ Reached(seen, places, ask, request)
      /\ \A t \in walk.token : t.scope = ScopeOf(ask, request)
      /\ walk.same => MissesNothing(walk, index)
  BY <1>1, RoundStarts
<1>3. walk.same => /\ AreSteady(ask, index, walk.steady)
                   /\ Sound(seen \o walk.got, ask, index, walk.steady) /\ Shown(seen \o walk.got, ask, request)
                   /\ Carries(seen, places, ask, request, index, walk.steady)
  BY <1>1, <1>2 DEF MissesNothing
<1> HIDE DEF places
<1>4. /\ DOMAIN walk' = WalkFields /\ walk'.ask = ask /\ walk'.request = request
      /\ walk'.pc = "fill" /\ walk'.steady = walk.steady /\ walk'.same = walk.same
      /\ walk'.seen = seen /\ walk'.got = <<>> /\ walk'.start = places /\ walk'.token = walk.token
  BY <1>1, <1>2 DEF WalkFields
<1>5. Places(walk') = places
  BY <1>4 DEF Places, places
<1>6. Opened(walk')
  BY <1>2, <1>4 DEF Opened
<1> DEFINE got == walk.got
           all == seen \o got
<1> HIDE DEF ask, request, seen, got
<1>7. FirstOf(all, seen) /\ seen \o <<>> = seen
  <2>1. IsSeq(seen) /\ IsSeq(got)
    BY <1>2 DEF got
  <2>2. seen \o <<>> = seen /\ Len(all) = Len(seen) + Len(got) /\ \A i \in 1 .. Len(seen) : all[i] = seen[i]
    BY <2>1, Joined
  <2>3. Len(seen) \in Nat /\ Len(got) \in Nat
    BY <2>1, SeqIs
  <2> HIDE DEF all
  <2> QED BY <2>1, <2>2, <2>3 DEF FirstOf
<1> HIDE DEF all
<1>8. IsListing(seen, ask, request)
  BY <1>2, <1>7, ListingStarts DEF all, got
<1>9. ASSUME walk.same PROVE Sound(seen, ask, index, walk.steady) /\ Shown(seen, ask, request)
  BY <1>2, <1>3, <1>7, <1>9, ListingStarts DEF all, got
<1>10. ListedSoFar(walk')
  BY <1>2, <1>4, <1>5, <1>7, <1>8, EmptyListing DEF ListedSoFar
<1>11. ASSUME walk'.same PROVE MissesNothing(walk', index)
  BY <1>3, <1>4, <1>5, <1>7, <1>9, <1>11 DEF MissesNothing
<1> QED BY <1>1, <1>4, <1>6, <1>10, <1>11 DEF WalkIs, UnderWay

\* Requests of one list, order and window share their tokens.
LEMMA SameScope ==
    ASSUME NEW ask, NEW request, NEW ask2, NEW request2,
           PartitionOf(ask) = PartitionOf(ask2), ScopeOf(ask, request) = ScopeOf(ask2, request2)
    PROVE  /\ Filtered(ask) <=> Filtered(ask2)
           /\ \A a, b : Precedes(a, b, Up(ask, request)) <=> Precedes(a, b, Up(ask2, request2))
           /\ \A s : IsPlace(s, ask, request) <=> IsPlace(s, ask2, request2)
<1>1. Filtered(ask) <=> Filtered(ask2)
  <2>1. ASSUME NEW a, NEW b, NEW c, <<a, b, c>> = <<>> PROVE FALSE
    BY <2>1
  <2> QED BY <2>1 DEF ScopeOf
<1>2. CASE ~Filtered(ask)
  <2>1. ~Filtered(ask2)
    BY <1>1, <1>2
  <2>2. Up(ask, request) /\ Up(ask2, request2)
    BY <1>2, <2>1 DEF Up
  <2>3. \A s : InBounds(s, ask, request) /\ InBounds(s, ask2, request2)
    BY <1>2, <2>1, BoundsAre
  <2> QED BY <1>1, <2>2, <2>3 DEF IsPlace, Precedes
<1>3. CASE Filtered(ask)
  <2>1. Filtered(ask2)
    BY <1>1, <1>3
  <2>2. /\ request.ascending = request2.ascending
        /\ request.before = request2.before /\ request.after = request2.after
    BY <1>3, <2>1 DEF ScopeOf
  <2>3. Up(ask, request) <=> Up(ask2, request2)
    BY <1>3, <2>1, <2>2 DEF Up
  <2>4. \A s : InBounds(s, ask, request) <=> InBounds(s, ask2, request2)
    <3> SUFFICES ASSUME NEW s PROVE InBounds(s, ask, request) <=> InBounds(s, ask2, request2)
      OBVIOUS
    <3>1. InBounds(s, ask, request) <=> /\ \A a \in request.after : s > TimePrefix(a)
                                        /\ \A b \in request.before : s < TimePrefix(b)
      BY <1>3, BoundsAre
    <3>2. InBounds(s, ask2, request2) <=> /\ \A a \in request2.after : s > TimePrefix(a)
                                          /\ \A b \in request2.before : s < TimePrefix(b)
      BY <2>1, BoundsAre
    <3> QED BY <2>2, <3>1, <3>2
  <2> QED BY <1>1, <2>3, <2>4 DEF IsPlace, Precedes
<1> QED BY <1>2, <1>3

LEMMA FollowsKeeps ==
    ASSUME WalkIs(walk, index), NEW ask, IsAsk(ask), Follows(ask)
    PROVE  WalkIs(walk', index')
<1> DEFINE request == Parse(ask.query)
           seen == walk.seen
           places == Places(walk)
<1>1. PICK token \in walk.token :
         /\ walk.pc = "page" /\ index' = index /\ request.errors = {}
         /\ DecodesPageToken(token, PartitionOf(ask), ScopeOf(ask, request))
         /\ walk' = [walk EXCEPT !.ask = ask, !.request = request, !.start = {token.key}, !.pc = "fill", !.round = 0,
                                 !.got = <<>>, !.same = @ /\ ask = walk.ask]
  BY DEF Follows
<1>2. DOMAIN walk = WalkFields /\ UnderWay(walk, index)
  BY <1>1 DEF WalkIs, Unopened
<1>3. Opened(walk) /\ ListedSoFar(walk) /\ (walk.same => MissesNothing(walk, index))
  BY <1>2 DEF UnderWay
<1>4. /\ walk.got = <<>> /\ IsSeq(seen)
      /\ IsListing(seen \o <<>>, walk.ask, walk.request)
      /\ \A t \in walk.token : t.scope = ScopeOf(walk.ask, walk.request)
      /\ Reached(seen, places, walk.ask, walk.request)
  BY <1>1, <1>3 DEF ListedSoFar
<1>5. seen \o <<>> = seen
  <2> HIDE DEF seen
  <2> QED BY <1>4, Joined
<1>6. places = {token.key} /\ IsPlace(token.key, walk.ask, walk.request)
  <2>1. token.key \in places
    BY DEF Places
  <2> HIDE DEF places
  <2> QED BY <1>4, <2>1 DEF Reached, At
<1> HIDE DEF request
<1>7. /\ PartitionOf(walk.ask) = PartitionOf(ask)
      /\ ScopeOf(walk.ask, walk.request) = ScopeOf(ask, request)
  BY <1>1, <1>4, <1>6 DEF DecodesPageToken, IsPlace
<1>8. /\ Filtered(walk.ask) <=> Filtered(ask)
      /\ \A a, b : Precedes(a, b, Up(walk.ask, walk.request)) <=> Precedes(a, b, Up(ask, request))
      /\ \A s : IsPlace(s, walk.ask, walk.request) <=> IsPlace(s, ask, request)
  BY <1>7, SameScope
<1>9. /\ DOMAIN walk' = WalkFields /\ walk'.ask = ask /\ walk'.request = request
      /\ walk'.pc = "fill" /\ walk'.steady = walk.steady /\ (walk'.same <=> walk.same /\ ask = walk.ask)
      /\ walk'.seen = seen /\ walk'.got = <<>> /\ walk'.start = {token.key} /\ walk'.token = walk.token
  BY <1>1, <1>2 DEF WalkFields
<1>10. Places(walk') = places /\ walk'.start = places
  BY <1>6, <1>9 DEF Places
<1> HIDE DEF seen, places
<1>11. IsListing(seen, ask, request)
  BY <1>4, <1>5, <1>8 DEF IsListing
<1>12. Reached(seen, places, ask, request)
  BY <1>4, <1>6, <1>8 DEF Reached, At, UpTo
<1>13. Opened(walk')
  BY <1>1, <1>9 DEF Opened, request
<1>14. ListedSoFar(walk')
  BY <1>4, <1>5, <1>7, <1>9, <1>10, <1>11, <1>12, EmptyListing DEF ListedSoFar
<1>15. ASSUME walk'.same PROVE MissesNothing(walk', index)
  <2>1. walk.same /\ ask = walk.ask /\ request = walk.request
    BY <1>3, <1>9, <1>15 DEF Opened, request
  <2>2. /\ AreSteady(ask, index, walk.steady)
        /\ Sound(seen, ask, index, walk.steady) /\ Shown(seen, ask, request)
        /\ Carries(seen, places, ask, request, index, walk.steady)
    BY <1>1, <1>3, <1>4, <1>5, <2>1 DEF MissesNothing, seen, places
  <2> QED BY <1>5, <1>9, <1>10, <2>2 DEF MissesNothing
<1> QED BY <1>1, <1>9, <1>13, <1>14, <1>15 DEF WalkIs, UnderWay

\* What is written meanwhile is no longer steady; the rest is as it was.
LEMMA PropagatesKeeps ==
    ASSUME IsTable(items), IsTable(index), WalkIs(walk, index), Propagates
    PROVE  IsTable(index') /\ WalkIs(walk', index')
<1>1. PICK k : /\ index' = [j \in (DOMAIN index \ {k}) \cup ({k} \cap DOMAIN items) |->
                               IF j = k THEN items[k] ELSE index[j]]
               /\ walk' = [walk EXCEPT !.steady = @ \ {k}]
  BY DEF Propagates
<1>2. IsTable(index')
  <2>1. IsFiniteSet((DOMAIN index \ {k}) \cup ({k} \cap DOMAIN items))
    <3>1. IsFiniteSet(DOMAIN index \ {k}) /\ IsFiniteSet({k} \cap DOMAIN items)
      BY FS_Subset DEF IsTable
    <3> QED BY <3>1, FS_Union
  <2>2. DOMAIN index' = (DOMAIN index \ {k}) \cup ({k} \cap DOMAIN items)
    BY <1>1
  <2>3. \A j \in DOMAIN index' : IsItem(j, index'[j])
    BY <1>1, <2>2 DEF IsTable
  <2> QED BY <2>1, <2>2, <2>3 DEF IsTable
<1>3. \A j \in DOMAIN index \ {k} : j \in DOMAIN index' /\ index'[j] = index[j]
  BY <1>1
<1>4. DOMAIN walk = WalkFields /\ (Unopened(walk) \/ UnderWay(walk, index))
  BY DEF WalkIs
<1>5. /\ DOMAIN walk' = WalkFields /\ walk'.ask = walk.ask /\ walk'.request = walk.request
      /\ walk'.pc = walk.pc /\ walk'.steady = walk.steady \ {k} /\ walk'.same = walk.same
      /\ walk'.seen = walk.seen /\ walk'.got = walk.got /\ walk'.start = walk.start /\ walk'.token = walk.token
  BY <1>1, <1>4 DEF WalkFields
<1>6. CASE Unopened(walk)
  BY <1>2, <1>5, <1>6 DEF WalkIs, Unopened
<1>7. CASE UnderWay(walk, index)
  <2>1. Opened(walk) /\ ListedSoFar(walk) /\ (walk.same => MissesNothing(walk, index))
    BY <1>7 DEF UnderWay
  <2>2. Places(walk') = Places(walk)
    BY <1>5 DEF Places
  <2>3. Opened(walk')
    BY <1>5, <2>1 DEF Opened
  <2>4. ListedSoFar(walk')
    BY <1>5, <2>1, <2>2 DEF ListedSoFar
  <2>5. ASSUME walk'.same PROVE MissesNothing(walk', index')
    <3> DEFINE new == walk.steady \ {k}
    <3>1. MissesNothing(walk, index)
      BY <1>5, <2>1, <2>5
    <3>2. \A j \in new : j \in walk.steady /\ j \in DOMAIN index' /\ index'[j] = index[j]
      BY <1>3, <3>1 DEF MissesNothing, AreSteady
    <3> HIDE DEF new
    <3>3. AreSteady(walk.ask, index', new)
      BY <3>1, <3>2 DEF MissesNothing, AreSteady
    <3>4. \A all : Sound(all, walk.ask, index, walk.steady) => Sound(all, walk.ask, index', new)
      BY <3>2 DEF Sound
    <3>5. \A all, pos : Covers(all, pos, walk.ask, walk.request, index, walk.steady)
                          => Covers(all, pos, walk.ask, walk.request, index', new)
      BY <3>2 DEF Covers, Passed
    <3>6. \A all, pos : Carries(all, pos, walk.ask, walk.request, index, walk.steady)
                          => Carries(all, pos, walk.ask, walk.request, index', new)
      BY <3>5 DEF Carries
    <3> QED BY <1>5, <2>2, <3>1, <3>3, <3>4, <3>5, <3>6 DEF MissesNothing, new
  <2> QED BY <1>2, <1>5, <1>7, <2>3, <2>4, <2>5 DEF WalkIs, UnderWay
<1> QED BY <1>2, <1>4, <1>6, <1>7

-----------------------------------------------------------------------------
(***************************************************************************)
(* The invariant, and what it says of the lists.                           *)
(***************************************************************************)

ReadsAreSound == WritesAreSound /\ IsTable(index) /\ WalkIs(walk, index)

LEMMA ReadsStartSound ==
    ASSUME ReadInit
    PROVE  ReadsAreSound
<1>1. PICK scenario \in Scenarios :
         /\ WriteInit(scenario) /\ index = items
         /\ \E ask \in scenario.asks \cup (IF scenario.asks = {} THEN {NoAsk} ELSE {}) : walk = WalkFor(ask)
  BY DEF ReadInit
<1>2. PICK ask \in scenario.asks \cup (IF scenario.asks = {} THEN {NoAsk} ELSE {}) : walk = WalkFor(ask)
  BY <1>1
<1>3. ask = NoAsk \/ IsAsk(ask)
  BY <1>2, AsksAreWellFormed
<1>4. WritesAreSound /\ IsTable(index)
  BY <1>1, WritesStartSound DEF WritesAreSound
<1>5. /\ DOMAIN walk = WalkFields /\ walk.pc = "idle" /\ walk.ask = ask
      /\ walk.seen = <<>> /\ walk.got = <<>> /\ walk.token = {} /\ walk.start = {}
  BY <1>2 DEF WalkFor, WalkFields
<1>6. WalkIs(walk, index)
  BY <1>3, <1>5 DEF WalkIs, Unopened
<1> QED BY <1>4, <1>6 DEF ReadsAreSound

LEMMA ReadsKeepSound ==
    ASSUME ReadsAreSound, [ReadNext]_readVars
    PROVE  ReadsAreSound'
<1>0. WritesAreSound /\ IsTable(items) /\ IsTable(index) /\ WalkIs(walk, index)
  BY DEF ReadsAreSound, WritesAreSound
<1>1. ASSUME UNCHANGED writeVars PROVE WritesAreSound'
  BY <1>0, <1>1 DEF WritesAreSound, writeVars
<1>2. CASE Asks
  BY <1>0, <1>1, <1>2, AsksKeeps DEF ReadsAreSound, Asks
<1>3. ASSUME NEW ask, IsAsk(ask), Follows(ask) PROVE ReadsAreSound'
  BY <1>0, <1>1, <1>3, FollowsKeeps DEF ReadsAreSound, Follows
<1>4. CASE FollowsOn
  <2>1. walk.pc = "page" /\ Follows(walk.ask)
    BY <1>4 DEF FollowsOn, Follows
  <2>2. IsAsk(walk.ask)
    BY <1>0, <2>1 DEF WalkIs, Unopened, UnderWay, Opened
  <2> QED BY <1>3, <2>1, <2>2
<1>5. CASE Strays
  BY <1>3, <1>5, AsksAreWellFormed DEF Strays
<1>6. CASE FillRound
  BY <1>0, <1>1, <1>6, FillRoundKeeps DEF ReadsAreSound, FillRound
<1>7. CASE ListsPage
  BY <1>0, <1>1, <1>7, ListsPageKeeps DEF ReadsAreSound, ListsPage
<1>8. CASE QueryFails
  BY <1>0, <1>1, <1>8, QueryFailsKeeps DEF ReadsAreSound, QueryFails
<1>9. CASE Propagates
  BY <1>0, <1>1, <1>9, PropagatesKeeps DEF ReadsAreSound, Propagates
<1>10. CASE WriteNext /\ UNCHANGED <<index, walk, faults>>
  BY <1>0, <1>10, WritesKeepSound DEF ReadsAreSound
<1>11. CASE UNCHANGED readVars
  BY <1>0, <1>1, <1>11 DEF ReadsAreSound, readVars
<1> QED BY <1>2, <1>4, <1>5, <1>6, <1>7, <1>8, <1>9, <1>10, <1>11 DEF ReadNext, ReadStep

\* A settled send has no entry in the sweep's index, an unsettled one does.
LEMMA SweepIsRight == SweepSeesUnsettled
<1> SUFFICES ASSUME NEW status \in Swept, NEW k \in DOMAIN items, items[k].kind = "state"
             PROVE  (items[k].status = status)
                       <=> \E e \in IndexKeys(items[k]) :
                              e.index = "ByStatus" /\ e.partition = SendStatusPartition(status)
  BY DEF SweepSeesUnsettled
<1> DEFINE item == items[k]
           entry == Entry("ByStatus", SendStatusPartition(item.status), item.id)
<1>1. IndexKeys(item) = IF item.status \in Swept THEN {entry} ELSE {}
  BY DEF IndexKeys
<1>2. entry.index = "ByStatus" /\ entry.partition = SendStatusPartition(item.status)
  BY DEF Entry
<1>3. SendStatusPartition(item.status) = SendStatusPartition(status) => item.status = status
  BY DEF SendStatusPartition
<1> HIDE DEF item, entry
<1>4. (item.status = status) <=> \E e \in IndexKeys(item) :
         e.index = "ByStatus" /\ e.partition = SendStatusPartition(status)
  BY <1>1, <1>2, <1>3
<1> QED BY <1>4 DEF item

\* What the client has seen is a listing.
LEMMA SeenIs ==
    ASSUME WalkIs(walk, index), UnderWay(walk, index)
    PROVE  /\ IsListing(walk.seen, walk.ask, walk.request)
           /\ DOMAIN walk.seen = 1 .. Len(walk.seen) /\ Len(walk.seen) \in Nat
           /\ Understood(walk.ask.query, walk.request)
           /\ walk.same => /\ Sound(walk.seen, walk.ask, index, walk.steady)
                           /\ Shown(walk.seen, walk.ask, walk.request)
<1> DEFINE seen == walk.seen
           got == walk.got
           all == seen \o got
<1>1. Opened(walk) /\ ListedSoFar(walk) /\ (walk.same => MissesNothing(walk, index))
  BY DEF UnderWay
<1>2. /\ IsSeq(seen) /\ IsSeq(got) /\ IsListing(all, walk.ask, walk.request)
      /\ walk.same => /\ Sound(all, walk.ask, index, walk.steady)
                      /\ Shown(all, walk.ask, walk.request)
  BY <1>1 DEF ListedSoFar, MissesNothing
<1>3. Understood(walk.ask.query, walk.request)
  BY <1>1, ParsedIs DEF Opened, IsAsk
<1> HIDE DEF seen, got
<1>4. Len(seen) \in Nat /\ Len(got) \in Nat /\ DOMAIN seen = 1 .. Len(seen)
  BY <1>2, SeqIs
<1>5. FirstOf(all, seen)
  <2>1. Len(all) = Len(seen) + Len(got) /\ \A i \in 1 .. Len(seen) : all[i] = seen[i]
    BY <1>2, Joined
  <2> HIDE DEF all
  <2> QED BY <1>2, <1>4, <2>1 DEF FirstOf
<1> HIDE DEF all
<1>6. /\ IsListing(seen, walk.ask, walk.request)
      /\ walk.same => /\ Sound(seen, walk.ask, index, walk.steady)
                      /\ Shown(seen, walk.ask, walk.request)
  BY <1>2, <1>5, ListingStarts
<1> QED BY <1>3, <1>4, <1>6 DEF seen

LEMMA CompleteWhenSound ==
    ASSUME ReadsAreSound
    PROVE  WalkIsComplete
<1> SUFFICES ASSUME walk.pc = "end", walk.same, NEW k \in walk.steady
             PROVE  Cardinality({i \in DOMAIN walk.seen : walk.seen[i].row.key = k}) = 1
  BY DEF WalkIsComplete
<1> DEFINE seen == walk.seen
           S == {i \in DOMAIN seen : seen[i].row.key = k}
<1>1. WalkIs(walk, index) /\ UnderWay(walk, index)
  BY DEF ReadsAreSound, WalkIs, Unopened
<1>2. /\ IsListing(seen, walk.ask, walk.request) /\ DOMAIN seen = 1 .. Len(seen) /\ Len(seen) \in Nat
      /\ Sound(seen, walk.ask, index, walk.steady)
  BY <1>1, SeenIs
<1>3. MissesNothing(walk, index)
  BY <1>1 DEF UnderWay
<1>4. Has(seen, k)
  BY <1>3 DEF MissesNothing, Covers, Passed
<1> HIDE DEF seen
<1>5. PICK i \in DOMAIN seen : seen[i].row.key = k
  BY <1>4 DEF Has
<1>6. ASSUME NEW j \in DOMAIN seen, seen[j].row.key = k PROVE j = i
  <2>1. seen[i].row.sort = seen[j].row.sort /\ seen[i].row.sort \in Int
    BY <1>2, <1>5, <1>6 DEF Sound, IsListing, IsPlace
  <2>2. ~(i < j) /\ ~(j < i)
    BY <1>2, <2>1, PrecedesOrders DEF IsListing
  <2>3. i \in 1 .. Len(seen) /\ j \in 1 .. Len(seen)
    BY <1>2
  <2> QED BY <1>2, <2>2, <2>3
<1>7. S = {i}
  BY <1>5, <1>6
<1> HIDE DEF S
<1>8. Cardinality(S) = 1
  BY <1>7, FS_Singleton
<1> QED BY <1>8 DEF S, seen

LEMMA OrderedWhenSound ==
    ASSUME ReadsAreSound
    PROVE  ListedInOrder /\ StartsInRange
<1>1. WalkIs(walk, index)
  BY DEF ReadsAreSound
<1>2. CASE Unopened(walk)
  <2>1. DOMAIN walk.seen = {} /\ walk.pc # "fill"
    BY <1>2 DEF Unopened
  <2> QED BY <2>1 DEF ListedInOrder, StartsInRange
<1>3. CASE UnderWay(walk, index)
  <2> DEFINE ask == walk.ask
             request == walk.request
             seen == walk.seen
  <2>1. /\ IsListing(seen, ask, request) /\ Understood(ask.query, request)
        /\ walk.same => Shown(seen, ask, request)
    BY <1>1, <1>3, SeenIs
  <2> HIDE DEF ask, request, seen
  <2>2. ASSUME NEW i \in DOMAIN seen, NEW j \in DOMAIN seen, i < j
        PROVE  IF request.ascending \/ ~Filtered(ask) THEN seen[i].row.sort < seen[j].row.sort
               ELSE seen[i].row.sort > seen[j].row.sort
    BY <2>1, <2>2 DEF IsListing, Precedes, Up
  <2>3. ASSUME walk.same, Filtered(ask), NEW i \in DOMAIN seen
        PROVE  InWindow(ask.query, MsOf(seen[i].row.sort)) /\ MayShow(ask.query, seen[i].labels)
    <3>1. seen[i].row.sort \in Int /\ InBounds(seen[i].row.sort, ask, request)
      BY <2>1 DEF IsListing, IsPlace
    <3>2. InWindow(ask.query, MsOf(seen[i].row.sort))
      BY <2>1, <2>3, <3>1, WindowIs
    <3>3. MayShow(ask.query, seen[i].labels)
      BY <2>1, <2>3 DEF Shown, Understood, SaysHidden
    <3> QED BY <3>2, <3>3
  <2>4. ListedInOrder
    BY <2>2, <2>3 DEF ListedInOrder, ask, request, seen
  <2>5. ASSUME walk.pc = "fill", NEW s \in walk.start
        PROVE  /\ s.partition = QueryOf(ask, request, {}).partition
               /\ Bounded(s.sort, QueryOf(ask, request, {}))
    <3>1. IsPlace(s, ask, request)
      BY <1>1, <2>5, RoundStarts DEF Reached, At, ask, request
    <3> QED BY <3>1 DEF IsPlace, InBounds, QueryOf
  <2>6. StartsInRange
    BY <2>5 DEF StartsInRange, ask, request
  <2> QED BY <2>4, <2>6
<1> QED BY <1>1, <1>2, <1>3 DEF WalkIs

\* The table, its indexes and the walk stay what the proofs need them to be,
\* whatever is written, reaped, asked for or lost meanwhile.
THEOREM ReadsInvariant == ReadSpec => []ReadsAreSound
<1>1. ReadInit => ReadsAreSound
  BY ReadsStartSound
<1>2. ReadsAreSound /\ [ReadNext]_readVars => ReadsAreSound'
  BY ReadsKeepSound
<1> QED BY <1>1, <1>2, PTL DEF ReadSpec

\* A walk to the end has every steady item exactly once, and the sweep's
\* index has exactly the unsettled sends: read.rs, fill; plan.rs, index_keys.
THEOREM ListsAreComplete == ReadSpec => []ListsMissNothing
<1>1. ReadsAreSound => ListsMissNothing
  BY CompleteWhenSound, SweepIsRight DEF ListsMissNothing
<1> QED BY <1>1, ReadsInvariant, PTL

\* What is listed is in the order and the window asked for, without what the
\* caller did not ask to see, and no query resumes outside its bounds:
\* pagination.rs; keys.rs, decode_page_token.
THEOREM ListsAreAsAsked == ReadSpec => []ListedAsAsked
<1>1. ReadsAreSound => ListedAsAsked
  BY OrderedWhenSound DEF ListedAsAsked
<1> QED BY <1>1, ReadsInvariant, PTL
=============================================================================
