------------------------------ MODULE Pull_proofs ------------------------------
(***************************************************************************)
(* Proofs about PullHandler, for every finite set of rows, any local       *)
(* records, every order of entities and every strategy, and pages of any   *)
(* size.                                                                   *)
(***************************************************************************)
EXTENDS PullHandler, FiniteSetTheorems, FunctionTheorems, SequenceTheorems,
        WellFoundedInduction, TLAPS

\* The changes the server tells of the entity that is being pulled.
All == ChangesSince(Entities[pull.entity], pull.since)

\* The place in All of the first change of a page.
First(page) == (page - 1) * PageSize + 1

\* What WatermarkCovers asks for a row.
Covered(r) ==
  IF server[r].exists
  THEN \E s \in CopiesOf(r) : device[s].version = server[r].version \/ s \in unsent \/ Kept(s, r)
  ELSE CopiesOf(r) = {}

\* The row is on the page that was fetched, or on one that is still to be.
Ahead(r) ==
  \/ pull.at = "apply" /\ \E k \in DOMAIN pull.changes : pull.changes[k].id = r
  \/ /\ pull.at = "apply" =>
          /\ pull.hasMore
          /\ \A k \in DOMAIN pull.changes : server[r].updatedAt > pull.changes[k].updated_at
     /\ \E i \in DOMAIN All :
          /\ All[i].id = r
          /\ IF pull.at = "apply" THEN i >= First(pull.page) + PageSize ELSE i >= First(pull.page)

\* The pull will still meet the row.
Pending(r) ==
  /\ server[r].updatedAt > pull.since
  /\ \/ \E i \in DOMAIN Entities : i > pull.entity /\ Entities[i] = EntityOf[r]
     \/ pull.at # "finish" /\ Entities[pull.entity] = EntityOf[r] /\ Ahead(r)

\* Times, and how far the pull is.
ClockInv ==
  /\ lastSyncAt <= clock
  /\ \A r \in Rows : server[r].updatedAt <= clock
  /\ \A q, r \in Rows :
       server[q].updatedAt = server[r].updatedAt /\ q # r => server[r].updatedAt = 0
  /\ pull.page >= 1 /\ pull.page <= MaxPages
  /\ pull.at # "apply" => pull.changes = <<>>
  /\ pull.at # "idle" => pull.since = lastSyncAt
  /\ IF pull.at = "finish" THEN pull.entity = Len(Entities) + 1 ELSE pull.entity \in DOMAIN Entities

\* The local records.
CopyInv ==
  /\ \A s \in Slots : Live(s) => device[s].remoteId \in Rows
  /\ \A r \in Rows \ doubled : \A s, t \in CopiesOf(r) : s = t
  /\ \A s \in unsent : Live(s) /\ device[s].isDirty
  /\ \A r \in Rows : server[r].updatedAt = 0 => ~server[r].exists /\ CopiesOf(r) = {}

\* A change that is to be applied is what the server has, or the row is excused.
TrueChange(c, gone) ==
  /\ c.updated_at <= server[c.id].updatedAt /\ server[c.id].updatedAt > 0
  /\ IF c.updated_at = server[c.id].updatedAt
     THEN c.version = server[c.id].version /\ (c.action = "delete" <=> ~server[c.id].exists)
     ELSE c.id \in gone

ChangesInv ==
  /\ \A k \in DOMAIN pull.changes : TrueChange(pull.changes[k], excused)
  /\ \A j, k \in DOMAIN pull.changes : pull.changes[j].id = pull.changes[k].id => j = k

\* What is older than the watermark has arrived; what is not will be met by the
\* pull that runs, or has arrived already.
CoverInv ==
  \A r \in Rows \ (excused \cup doubled) :
    /\ server[r].updatedAt <= lastSyncAt => Covered(r)
    /\ pull.at # "idle" => Covered(r) \/ Pending(r)

IInv == TypeOK /\ ClockInv /\ CopyInv /\ ChangesInv /\ CoverInv

-----------------------------------------------------------------------------
(* Changes in order. *)

\* A set of natural numbers that is not empty has a least element.
LEMMA Least ==
  ASSUME NEW S \in SUBSET Nat, S # {}
  PROVE  \E m \in S : \A k \in S : m <= k
<1> DEFINE R == OpToRel(<, Nat)
<1>1. IsWellFoundedOn(R, Nat)
  BY NatLessThanWellFounded
<1>2. \A x, y \in Nat : <<x, y>> \in R <=> x < y
  BY DEF OpToRel
<1> HIDE DEF R
<1>3. PICK m \in S : \A y \in S : ~(<<y, m>> \in R)
  BY <1>1, WFMin
<1>4. \A k \in S : k \in Nat /\ m \in Nat
  OBVIOUS
<1>5. \A k \in S : ~(k < m)
  BY <1>2, <1>3, <1>4
<1>6. \A k \in S : m <= k
  BY <1>4, <1>5
<1> QED BY <1>6

\* Changes of different times can be put in order.
Ordering(C, n) ==
  {s \in [1 .. n -> C] : \A i, j \in 1 .. n : i < j => s[i].updated_at < s[j].updated_at}

Distinct(C) == \A a, b \in C : a.updated_at = b.updated_at => a = b

LEMMA OrderingExists ==
  ASSUME NEW C \in SUBSET Change, IsFiniteSet(C), Distinct(C)
  PROVE  Ordering(C, Cardinality(C)) # {}
<1> DEFINE Bad == {n \in Nat : \E D \in SUBSET C : IsFiniteSet(D) /\ Cardinality(D) = n
                                                     /\ Ordering(D, n) = {}}
<1>1. Bad = {}
  <2>1. SUFFICES ASSUME Bad # {} PROVE FALSE
    OBVIOUS
  <2>2. PICK m \in Bad : \A k \in Bad : m <= k
    BY <2>1, Least
  <2>3. PICK D \in SUBSET C : IsFiniteSet(D) /\ Cardinality(D) = m /\ Ordering(D, m) = {}
    BY <2>2
  <2>4. m \in Nat
    BY <2>2
  <2>5. CASE m = 0
    <3> DEFINE s == [i \in 1 .. 0 |-> i]
    <3>1. s \in [1 .. 0 -> D]
      OBVIOUS
    <3> HIDE DEF s
    <3>2. s \in Ordering(D, 0)
      BY <3>1 DEF Ordering
    <3> QED BY <2>3, <2>5, <3>2
  <2>6. CASE m # 0
    <3> DEFINE times == {d.updated_at : d \in D}
    <3>1. D # {}
      BY <2>3, <2>6, FS_EmptySet
    <3>2. times \in SUBSET Nat /\ times # {}
      BY <3>1 DEF Change
    <3>3. PICK t \in times : \A u \in times : t <= u
      BY <3>2, Least
    <3>4. PICK d \in D : d.updated_at = t
      BY <3>3
    <3> DEFINE E == D \ {d}
    <3>5. IsFiniteSet(E) /\ Cardinality(E) = m - 1
      BY <2>3, <3>4, FS_RemoveElement
    <3>6. \A x \in E : d.updated_at < x.updated_at
      <4>1. TAKE x \in E
      <4>2. x \in C /\ d \in C /\ x \in D /\ x # d
        BY <3>4, <4>1
      <4>3. d.updated_at # x.updated_at
        BY <4>2 DEF Distinct
      <4>4. d.updated_at \in Nat /\ x.updated_at \in Nat
        BY <4>2 DEF Change
      <4>5. d.updated_at <= x.updated_at
        BY <3>3, <3>4, <4>2
      <4> QED BY <4>3, <4>4, <4>5
    <3>7. E \in SUBSET C /\ E \in SUBSET D
      OBVIOUS
    <3> HIDE DEF E, times
    <3>8. m - 1 \in Nat /\ m - 1 \notin Bad
      <4>1. m - 1 \in Nat /\ ~(m <= m - 1)
        BY <2>4, <2>6
      <4> HIDE DEF Bad
      <4> QED BY <2>2, <4>1
    <3>9. PICK s \in [1 .. m - 1 -> E] :
            \A i, j \in 1 .. m - 1 : i < j => s[i].updated_at < s[j].updated_at
      BY <3>5, <3>7, <3>8 DEF Ordering
    <3> DEFINE u == [i \in 1 .. m |-> IF i = 1 THEN d ELSE s[i - 1]]
    <3>10. \A i \in 1 .. m : i # 1 => i - 1 \in 1 .. m - 1 /\ s[i - 1] \in E
      BY <2>4, <3>9
    <3>11. u \in [1 .. m -> D]
      BY <3>4, <3>7, <3>10
    <3>12. \A i, j \in 1 .. m : i < j => u[i].updated_at < u[j].updated_at
      <4>1. TAKE i, j \in 1 .. m
      <4>2. HAVE i < j
      <4>3. j # 1 /\ u[j] = s[j - 1] /\ j - 1 \in 1 .. m - 1 /\ s[j - 1] \in E
        BY <2>4, <3>10, <4>2
      <4>4. CASE i = 1
        BY <3>6, <4>3, <4>4
      <4>5. CASE i # 1
        <5>1. u[i] = s[i - 1] /\ i - 1 \in 1 .. m - 1 /\ i - 1 < j - 1
          BY <2>4, <3>10, <4>2, <4>5
        <5> QED BY <3>9, <4>3, <5>1
      <4> QED BY <4>4, <4>5
    <3> HIDE DEF u
    <3> QED BY <2>3, <3>11, <3>12 DEF Ordering
  <2> QED BY <2>5, <2>6
<1>2. Cardinality(C) \in Nat
  BY FS_CardinalityType
<1> QED BY <1>1, <1>2

LEMMA InOrderProperties ==
  ASSUME NEW C \in SUBSET Change, IsFiniteSet(C), Distinct(C)
  PROVE  /\ InOrder(C) \in [1 .. Cardinality(C) -> C]
         /\ \A i, j \in 1 .. Cardinality(C) : InOrder(C)[i] = InOrder(C)[j] => i = j
         /\ \A i, j \in 1 .. Cardinality(C) :
              i < j => InOrder(C)[i].updated_at < InOrder(C)[j].updated_at
         /\ \A c \in C : \E i \in 1 .. Cardinality(C) : InOrder(C)[i] = c
<1> DEFINE n == Cardinality(C)
           s == InOrder(C)
<1>1. n \in Nat
  BY FS_CardinalityType
<1>2. s = CHOOSE x \in [1 .. n -> C] :
            \A i, j \in DOMAIN x : i < j => x[i].updated_at < x[j].updated_at
  BY DEF InOrder
<1>3. \E x \in [1 .. n -> C] :
        \A i, j \in DOMAIN x : i < j => x[i].updated_at < x[j].updated_at
  <2>1. PICK x \in [1 .. n -> C] : \A i, j \in 1 .. n : i < j => x[i].updated_at < x[j].updated_at
    BY OrderingExists DEF Ordering
  <2>2. DOMAIN x = 1 .. n
    OBVIOUS
  <2> QED BY <2>1, <2>2
<1> HIDE DEF s, n
<1>4. /\ s \in [1 .. n -> C]
      /\ \A i, j \in DOMAIN s : i < j => s[i].updated_at < s[j].updated_at
  BY <1>2, <1>3
<1>5. \A i, j \in 1 .. n : s[i] = s[j] => i = j
  <2>1. SUFFICES ASSUME NEW i \in 1 .. n, NEW j \in 1 .. n, s[i] = s[j], i # j PROVE FALSE
    OBVIOUS
  <2>2. s[i] \in C /\ s[i].updated_at \in Nat /\ s[j].updated_at \in Nat
    <3>1. s[i] \in C /\ s[j] \in C
      BY <1>4
    <3> QED BY <3>1 DEF Change
  <2>3. i < j \/ j < i
    BY <1>1, <2>1
  <2>4. DOMAIN s = 1 .. n
    BY <1>4
  <2>5. s[i].updated_at < s[j].updated_at \/ s[j].updated_at < s[i].updated_at
    BY <1>4, <2>3, <2>4
  <2> QED BY <2>1, <2>2, <2>5
<1>6. \A c \in C : \E i \in 1 .. n : s[i] = c
  <2>1. SUFFICES ASSUME NEW c \in C, \A i \in 1 .. n : s[i] # c PROVE FALSE
    OBVIOUS
  <2>2. s \in [1 .. n -> C \ {c}]
    BY <1>4, <2>1
  <2>3. IsFiniteSet(C \ {c}) /\ Cardinality(C \ {c}) = n - 1
    BY FS_RemoveElement DEF n
  <2>4. IsFiniteSet(1 .. n) /\ Cardinality(1 .. n) = n
    BY <1>1, FS_Interval
  <2>5. Cardinality(C \ {c}) < Cardinality(1 .. n)
    BY <1>1, <2>3, <2>4
  <2> DEFINE I == 1 .. n
             D == C \ {c}
  <2>6. IsFiniteSet(I) /\ IsFiniteSet(D) /\ Cardinality(D) < Cardinality(I) /\ s \in [I -> D]
    BY <2>2, <2>3, <2>4, <2>5
  <2> HIDE DEF I, D
  <2>7. \E i, j \in I : i # j /\ s[i] = s[j]
    BY <2>6, FS_PigeonHole
  <2> QED BY <1>5, <2>7 DEF I
<1>7. \A i, j \in 1 .. n : i < j => s[i].updated_at < s[j].updated_at
  <2>1. DOMAIN s = 1 .. n
    BY <1>4
  <2> QED BY <1>4, <2>1
<1> QED BY <1>4, <1>5, <1>6, <1>7 DEF s, n

\* What a server with these rows has to tell.
Told(rows, e, since) ==
  {[id |-> r, action |-> IF rows[r].exists THEN "update" ELSE "delete",
    version |-> rows[r].version, updated_at |-> rows[r].updatedAt] :
     r \in {q \in Rows : EntityOf[q] = e /\ rows[q].updatedAt > since}}

\* No two writes of the server have the same time.
TimesApart(rows) ==
  \A q, r \in Rows : rows[q].updatedAt = rows[r].updatedAt /\ q # r => rows[r].updatedAt = 0

\* Each row that has something to tell is told once, as it is.
LEMMA ToldInOrder ==
  ASSUME NEW rows \in [Rows -> ServerRow], NEW e, NEW since \in Nat, TimesApart(rows)
  PROVE  LET all == InOrder(Told(rows, e, since)) IN
         /\ all \in Seq(Change)
         /\ \A i \in DOMAIN all :
              /\ all[i].id \in Rows /\ EntityOf[all[i].id] = e
              /\ all[i].updated_at = rows[all[i].id].updatedAt
              /\ all[i].version = rows[all[i].id].version
              /\ all[i].action = "delete" <=> ~rows[all[i].id].exists
              /\ all[i].updated_at > since
         /\ \A i, j \in DOMAIN all : all[i].id = all[j].id => i = j
         /\ \A i, j \in DOMAIN all : i < j => all[i].updated_at < all[j].updated_at
         /\ \A r \in Rows : EntityOf[r] = e /\ rows[r].updatedAt > since =>
              \E i \in DOMAIN all : all[i].id = r
<1> DEFINE C == Told(rows, e, since)
           all == InOrder(C)
           n == Cardinality(C)
           change(r) == [id |-> r, action |-> IF rows[r].exists THEN "update" ELSE "delete",
                         version |-> rows[r].version, updated_at |-> rows[r].updatedAt]
<1>1. \A r \in Rows : /\ rows[r] \in ServerRow /\ rows[r].exists \in BOOLEAN
                      /\ rows[r].version \in Nat /\ rows[r].updatedAt \in Nat
  BY DEF ServerRow
<1>2. \A r \in Rows : /\ change(r) \in Change /\ change(r).id = r
                      /\ change(r).updated_at = rows[r].updatedAt
                      /\ change(r).version = rows[r].version
                      /\ change(r).action = "delete" <=> ~rows[r].exists
  BY <1>1 DEF Change
<1>3. C = {change(r) : r \in {q \in Rows : EntityOf[q] = e /\ rows[q].updatedAt > since}}
  BY DEF Told
<1> HIDE DEF C, change
<1>4. \A c \in C : /\ c \in Change /\ c.id \in Rows /\ c = change(c.id)
                   /\ EntityOf[c.id] = e /\ rows[c.id].updatedAt > since
  BY <1>2, <1>3
<1>5. IsFiniteSet(C)
  <2> DEFINE g == [c \in C |-> c.id]
  <2>1. g \in [C -> Rows] /\ \A c, d \in C : g[c] = g[d] => c = d
    BY <1>4
  <2>2. g \in Injection(C, Rows)
    BY <2>1 DEF Injection, IsInjective
  <2> QED BY <2>2, FS_Injection, PullAssumption
<1>6. Distinct(C)
  <2>1. SUFFICES ASSUME NEW c \in C, NEW d \in C, c.updated_at = d.updated_at PROVE c = d
    BY DEF Distinct
  <2>2. /\ c.updated_at = rows[c.id].updatedAt /\ d.updated_at = rows[d.id].updatedAt
        /\ rows[d.id].updatedAt > 0
    BY <1>1, <1>2, <1>4
  <2>3. c.id \in Rows /\ d.id \in Rows /\ rows[c.id].updatedAt = rows[d.id].updatedAt
    BY <1>4, <2>1, <2>2
  <2>5. rows[d.id].updatedAt # 0
    <3>1. rows[d.id].updatedAt \in Nat
      BY <1>1, <2>3
    <3> QED BY <2>2, <3>1
  <2> HIDE DEF C
  <2>4. c.id = d.id
    <3> DEFINE x == c.id
               y == d.id
    <3>1. x \in Rows /\ y \in Rows /\ rows[x].updatedAt = rows[y].updatedAt
          /\ rows[y].updatedAt # 0
      BY <2>3, <2>5
    <3> HIDE DEF x, y
    <3>2. x = y
      BY <3>1 DEF TimesApart
    <3> QED BY <3>2 DEF x, y
  <2> QED BY <1>4, <2>4
<1>7. C \in SUBSET Change
  BY <1>4
<1>8. n \in Nat
  BY <1>5, FS_CardinalityType
<1>9. /\ all \in [1 .. n -> C]
      /\ \A i, j \in 1 .. n : all[i] = all[j] => i = j
      /\ \A i, j \in 1 .. n : i < j => all[i].updated_at < all[j].updated_at
      /\ \A c \in C : \E i \in 1 .. n : all[i] = c
  BY <1>5, <1>6, <1>7, InOrderProperties
<1> HIDE DEF all, n
<1>10. DOMAIN all = 1 .. n /\ all \in Seq(Change)
  <2>1. all \in [1 .. n -> Change]
    BY <1>7, <1>9
  <2> QED BY <1>8, <2>1
<1>11. ASSUME NEW i \in DOMAIN all
       PROVE  /\ all[i].id \in Rows /\ EntityOf[all[i].id] = e
              /\ all[i].updated_at = rows[all[i].id].updatedAt
              /\ all[i].version = rows[all[i].id].version
              /\ all[i].action = "delete" <=> ~rows[all[i].id].exists
              /\ all[i].updated_at > since
  <2>1. all[i] \in C
    BY <1>9, <1>10
  <2>2. all[i].id \in Rows /\ all[i] = change(all[i].id) /\ rows[all[i].id].updatedAt > since
    BY <1>4, <2>1
  <2>3. all[i].updated_at = rows[all[i].id].updatedAt
    BY <1>2, <2>2
  <2> QED BY <1>2, <1>4, <2>1, <2>2, <2>3
<1>12. ASSUME NEW i \in DOMAIN all, NEW j \in DOMAIN all, all[i].id = all[j].id
       PROVE  i = j
  <2>1. all[i] \in C /\ all[j] \in C
    BY <1>9, <1>10
  <2>2. all[i] = all[j]
    BY <1>4, <1>12, <2>1
  <2> QED BY <1>9, <1>10, <2>2
<1>13. ASSUME NEW r \in Rows, EntityOf[r] = e, rows[r].updatedAt > since
       PROVE  \E i \in DOMAIN all : all[i].id = r
  <2>1. change(r) \in C
    BY <1>3, <1>13
  <2>2. PICK i \in 1 .. n : all[i] = change(r)
    BY <1>9, <2>1
  <2> QED BY <1>2, <1>10, <2>2
<1>14. \A i, j \in DOMAIN all : i < j => all[i].updated_at < all[j].updated_at
  BY <1>9, <1>10
<1> QED BY <1>10, <1>11, <1>12, <1>13, <1>14 DEF all, C

-----------------------------------------------------------------------------
(* The pull and its pages. *)

LEMMA Lengths ==
  /\ Len(Entities) \in Nat \ {0} /\ DOMAIN Entities = 1 .. Len(Entities)
  /\ \A i \in DOMAIN Entities : Entities[i] \in Range(Entities)
  /\ \A r \in Rows : \E i \in DOMAIN Entities : Entities[i] = EntityOf[r]
<1>1. Len(Entities) \in Nat \ {0} /\ DOMAIN Entities = 1 .. Len(Entities)
  BY PullAssumption, EmptySeq, LenProperties
<1>2. Range(Entities) = {Entities[i] : i \in DOMAIN Entities}
  BY DEF Range
<1>3. \A r \in Rows : EntityOf[r] \in Range(Entities)
  BY PullAssumption
<1> QED BY <1>1, <1>2, <1>3

LEMMA Pages ==
  ASSUME NEW page \in Nat \ {0}
  PROVE  /\ PageSize \in Nat \ {0}
         /\ First(page) \in Nat \ {0}
         /\ First(page + 1) = First(page) + PageSize
         /\ First(1) = 1
<1>1. PageSize \in Nat \ {0}
  BY PullAssumption
<1>2. (page - 1) * PageSize \in Nat
  BY <1>1
<1>3. (page + 1 - 1) * PageSize = (page - 1) * PageSize + PageSize
  BY <1>1
<1>4. (1 - 1) * PageSize = 0
  BY <1>1
<1> QED BY <1>1, <1>2, <1>3, <1>4 DEF First

LEMMA PullFields ==
  ASSUME NEW p \in Pull
  PROVE  /\ p.at \in {"idle", "fetch", "apply", "finish"} /\ p.since \in Nat
         /\ p.entity \in 1 .. Len(Entities) + 1 /\ p.page \in Nat
         /\ p.changes \in Seq(Change) /\ p.hasMore \in BOOLEAN
BY DEF Pull

LEMMA PageBound == MaxPages \in Nat /\ 1 <= MaxPages
<1>1. MaxPages \in Nat \ {0}
  BY PullAssumption
<1> QED BY <1>1

LEMMA NoPullFields ==
  /\ NoPull \in Pull
  /\ NoPull.at = "idle" /\ NoPull.since = 0 /\ NoPull.entity = 1 /\ NoPull.page = 1
  /\ NoPull.changes = <<>> /\ ~NoPull.hasMore
<1>1. 1 \in 1 .. Len(Entities) + 1 /\ <<>> \in Seq(Change)
  BY Lengths, EmptySeq
<1> QED BY <1>1 DEF NoPull, Pull

LEMMA AfterPageFields ==
  ASSUME NEW p \in Pull, p.entity \in DOMAIN Entities
  PROVE  /\ AfterPage(p) \in Pull
         /\ AfterPage(p).since = p.since /\ AfterPage(p).changes = <<>>
         /\ AfterPage(p).at \in {"fetch", "finish"}
         /\ MorePages(p) => /\ AfterPage(p).at = "fetch" /\ AfterPage(p).page = p.page + 1
                            /\ AfterPage(p).entity = p.entity
         /\ ~MorePages(p) => /\ AfterPage(p).page = 1 /\ AfterPage(p).entity = p.entity + 1
                             /\ AfterPage(p).at = "finish" <=> p.entity = Len(Entities)
<1> DEFINE more == [p EXCEPT !.at = "fetch", !.page = @ + 1, !.changes = <<>>, !.hasMore = FALSE]
           next == [p EXCEPT !.page = 1, !.entity = @ + 1,
                             !.at = IF p.entity = Len(Entities) THEN "finish" ELSE "fetch",
                             !.changes = <<>>, !.hasMore = FALSE]
<1>1. <<>> \in Seq(Change) /\ p.entity + 1 \in 1 .. Len(Entities) + 1
  BY Lengths, EmptySeq
<1>2. /\ more \in Pull /\ more.since = p.since /\ more.changes = <<>> /\ more.at = "fetch"
      /\ more.page = p.page + 1 /\ more.entity = p.entity
  <2> DEFINE n == p.page + 1
  <2>1. n \in Nat
    BY DEF Pull
  <2> HIDE DEF n
  <2>2. more = [p EXCEPT !.at = "fetch", !.page = n, !.changes = <<>>, !.hasMore = FALSE]
    BY DEF n, Pull
  <2> HIDE DEF more
  <2>3. more \in Pull
    BY <1>1, <2>1, <2>2 DEF Pull
  <2>4. /\ more.since = p.since /\ more.changes = <<>> /\ more.at = "fetch"
        /\ more.page = n /\ more.entity = p.entity
    BY <2>2 DEF Pull
  <2> QED BY <2>3, <2>4 DEF n
<1>3. /\ next \in Pull /\ next.since = p.since /\ next.changes = <<>>
      /\ next.at = IF p.entity = Len(Entities) THEN "finish" ELSE "fetch"
      /\ next.page = 1 /\ next.entity = p.entity + 1
  BY <1>1 DEF Pull
<1>4. AfterPage(p) = IF MorePages(p) THEN more ELSE next
  BY DEF AfterPage
<1> HIDE DEF more, next
<1>5. CASE MorePages(p)
  <2>1. AfterPage(p) = more
    BY <1>4, <1>5
  <2> QED BY <1>2, <1>5, <2>1
<1>6. CASE ~MorePages(p)
  <2>1. AfterPage(p) = next
    BY <1>4, <1>6
  <2>2. next.at \in {"fetch", "finish"} /\ (next.at = "finish" <=> p.entity = Len(Entities))
    BY <1>3
  <2> QED BY <1>3, <1>6, <2>1, <2>2
<1> QED BY <1>5, <1>6

\* What the server has to tell of the entity that is being pulled.
LEMMA AllIsTold ==
  /\ All = InOrder(Told(server, Entities[pull.entity], pull.since))
  /\ All' = InOrder(Told(server', Entities[pull'.entity], pull'.since))
BY DEF All, ChangesSince, Told

-----------------------------------------------------------------------------
(* What a step leaves as it is. *)

LEMMA Fields ==
  ASSUME TypeOK
  PROVE  /\ \A r \in Rows : /\ server[r] \in ServerRow /\ server[r].exists \in BOOLEAN
                            /\ server[r].version \in Nat /\ server[r].updatedAt \in Nat
         /\ \A s \in Slots : /\ device[s] \in LocalRow /\ device[s].exists \in BOOLEAN
                             /\ device[s].remoteId \in Rows \cup {Nobody}
                             /\ device[s].version \in Nat /\ device[s].isDirty \in BOOLEAN
BY DEF TypeOK, ServerRow, LocalRow

LEMMA CoveredStays ==
  ASSUME NEW r \in Rows, Covered(r), server'[r] = server[r],
         \A s \in Slots : (Live(s) /\ device[s].remoteId = r)
                            \/ (device'[s].exists /\ device'[s].remoteId = r) =>
           device'[s] = device[s] /\ (s \in unsent => s \in unsent')
  PROVE  Covered(r)'
BY DEF Covered, CopiesOf, Live, Kept


-----------------------------------------------------------------------------
(* Writes to the server and to the device. *)

LEMMA ChangeFields ==
  ASSUME TypeOK, NEW k \in DOMAIN pull.changes
  PROVE  /\ pull.changes[k] \in Change /\ pull.changes[k].id \in Rows
         /\ pull.changes[k].updated_at \in Nat /\ pull.changes[k].version \in Nat
<1>1. pull.changes \in Seq(Change)
  BY PullFields DEF TypeOK
<1>2. pull.changes[k] \in Change
  BY <1>1, ElementOfSeq, LenProperties
<1> QED BY <1>2 DEF Change

\* Another entity is told as before.
LEMMA ToldStays ==
  ASSUME NEW e, NEW since, NEW old, NEW new,
         \A q \in Rows : EntityOf[q] = e => new[q] = old[q]
  PROVE  Told(new, e, since) = Told(old, e, since)
<1>1. {q \in Rows : EntityOf[q] = e /\ new[q].updatedAt > since}
        = {q \in Rows : EntityOf[q] = e /\ old[q].updatedAt > since}
  OBVIOUS
<1>2. \A q \in {p \in Rows : EntityOf[p] = e /\ old[p].updatedAt > since} : new[q] = old[q]
  OBVIOUS
<1> QED BY <1>1, <1>2 DEF Told

LEMMA ServerStep ==
  ASSUME IInv, NEW r \in Rows, NEW row \in ServerRow, row.updatedAt = clock + 1,
         Tick, WriteServer(r, row), UNCHANGED <<device, lastSyncAt, pull, pulls, doubled>>,
         unsent' \subseteq unsent, \A s \in unsent \ unsent' : device[s].remoteId = r
  PROVE  IInv'
<1>1. TypeOK /\ ClockInv /\ CopyInv /\ ChangesInv /\ CoverInv
  BY DEF IInv
<1>2. clock \in Nat /\ clock' = clock + 1
  BY <1>1 DEF TypeOK, Tick
<1>3. /\ server' \in [Rows -> ServerRow] /\ server'[r] = row
      /\ \A q \in Rows \ {r} : server'[q] = server[q]
  BY <1>1 DEF TypeOK, WriteServer
<1>4. excused' = excused \cup Disturbed(r) /\ Disturbed(r) \subseteq Rows
  BY DEF WriteServer, Disturbed
<1>5. TypeOK'
  BY <1>1, <1>2, <1>3, <1>4 DEF TypeOK
<1>6. ClockInv'
  <2>1. lastSyncAt' <= clock' /\ lastSyncAt \in Nat
    BY <1>1, <1>2 DEF ClockInv, TypeOK
  <2>2. \A q \in Rows : /\ server'[q].updatedAt <= clock'
                        /\ server[q].updatedAt \in Nat /\ server[q].updatedAt <= clock
    BY <1>1, <1>2, <1>3, Fields DEF ClockInv
  <2>3. \A p, q \in Rows : server'[p].updatedAt = server'[q].updatedAt /\ p # q =>
          server'[q].updatedAt = 0
    <3>1. SUFFICES ASSUME NEW p \in Rows, NEW q \in Rows, p # q,
                          server'[p].updatedAt = server'[q].updatedAt
                   PROVE  server'[q].updatedAt = 0
      OBVIOUS
    <3>2. CASE p # r /\ q # r
      BY <1>1, <1>3, <3>1, <3>2 DEF ClockInv
    <3>3. CASE p = r
      <4>1. server'[p].updatedAt = clock + 1 /\ server'[q].updatedAt = server[q].updatedAt
        BY <1>3, <3>1, <3>3
      <4>2. server[q].updatedAt \in Nat /\ server[q].updatedAt <= clock
        BY <2>2
      <4>3. server[q].updatedAt # clock + 1
        BY <1>2, <4>2
      <4> QED BY <3>1, <4>1, <4>3
    <3>4. CASE q = r
      <4>1. server'[q].updatedAt = clock + 1 /\ server'[p].updatedAt = server[p].updatedAt
        BY <1>3, <3>1, <3>4
      <4> QED BY <1>2, <2>2, <3>1, <4>1
    <3> QED BY <3>2, <3>3, <3>4
  <2> QED BY <1>1, <2>1, <2>2, <2>3 DEF ClockInv
<1>7. CopyInv'
  <2>1. ASSUME NEW q \in Rows, server'[q].updatedAt = 0
        PROVE  ~server'[q].exists /\ CopiesOf(q)' = {}
    <3>1. q # r
      BY <1>2, <1>3, <2>1
    <3> QED BY <1>1, <1>3, <2>1, <3>1 DEF CopyInv, CopiesOf, Live
  <2> QED BY <1>1, <2>1 DEF CopyInv, CopiesOf, Live
<1>8. ChangesInv'
  <2>1. ASSUME NEW k \in DOMAIN pull.changes
        PROVE  TrueChange(pull.changes[k], excused)'
    <3> DEFINE c == pull.changes[k]
    <3>1. TrueChange(c, excused) /\ c.id \in Rows /\ c.updated_at \in Nat
      BY <1>1, <2>1, ChangeFields DEF ChangesInv
    <3>2. c' = c
      OBVIOUS
    <3> HIDE DEF c
    <3>3. CASE c.id = r
      <4>1. pull.at # "idle"
        <5>1. pull.changes # <<>>
          BY <2>1, EmptySeq
        <5> QED BY <1>1, <5>1 DEF ClockInv
      <4>2. r \in excused'
        BY <1>4, <4>1 DEF Disturbed
      <4>3. server[r].updatedAt \in Nat /\ server[r].updatedAt <= clock
        BY <1>1, Fields DEF ClockInv
      <4>4. c.updated_at <= server[r].updatedAt
        BY <3>1, <3>3 DEF TrueChange
      <4>5. server'[r].updatedAt = clock + 1
        BY <1>3
      <4> HIDE <3>2
      <4>6. /\ c.updated_at <= server'[r].updatedAt /\ c.updated_at # server'[r].updatedAt
            /\ server'[r].updatedAt > 0
        BY <1>2, <3>1, <4>3, <4>4, <4>5
      <4> QED BY <3>2, <3>3, <4>2, <4>6 DEF TrueChange, c
    <3>4. CASE c.id # r
      <4>1. server'[c.id] = server[c.id]
        BY <1>3, <3>1, <3>4
      <4> QED BY <1>4, <3>1, <3>2, <4>1 DEF TrueChange, c
    <3> QED BY <3>3, <3>4
  <2> QED BY <1>1, <2>1 DEF ChangesInv
<1>9. CoverInv'
  <2>1. SUFFICES ASSUME NEW q \in Rows, q \notin excused', q \notin doubled
                 PROVE  /\ server'[q].updatedAt <= lastSyncAt => Covered(q)'
                        /\ pull.at # "idle" => Covered(q)' \/ Pending(q)'
    BY DEF CoverInv
  <2>2. CASE q = r
    <3>1. pull.at = "idle"
      BY <1>4, <2>1, <2>2 DEF Disturbed
    <3>2. ~(server'[q].updatedAt <= lastSyncAt)
      <4>1. server'[q].updatedAt = clock + 1 /\ lastSyncAt \in Nat /\ lastSyncAt <= clock
        BY <1>1, <1>3, <2>2 DEF ClockInv, TypeOK
      <4> QED BY <1>2, <4>1
    <3> QED BY <3>1, <3>2
  <2>3. CASE q # r
    <3>1. server'[q] = server[q] /\ q \notin excused
      BY <1>3, <1>4, <2>1, <2>3
    <3>2. Covered(q) => Covered(q)'
      BY <2>3, <3>1, CoveredStays
    <3>3. ASSUME pull.at # "idle", Pending(q) PROVE Pending(q)'
      <4>1. ASSUME Entities[pull.entity] = EntityOf[q], pull.at # "finish" PROVE All' = All
        <5>1. pull.entity <= Len(Entities)
          <6>1. pull.entity \in DOMAIN Entities
            BY <1>1, <4>1 DEF ClockInv
          <6> QED BY <6>1, Lengths
        <5>2. EntityOf[r] # Entities[pull.entity]
          BY <1>4, <2>1, <3>3, <4>1, <5>1 DEF Disturbed
        <5>3. \A p \in Rows : EntityOf[p] = Entities[pull.entity] => server'[p] = server[p]
          BY <1>3, <5>2
        <5>4. Told(server', Entities[pull.entity], pull.since)
                = Told(server, Entities[pull.entity], pull.since)
          BY <5>3, ToldStays
        <5> QED BY <5>4, AllIsTold
      <4> QED BY <3>1, <3>3, <4>1 DEF Pending, Ahead, First
    <3> QED BY <1>1, <2>1, <3>1, <3>2, <3>3 DEF CoverInv
  <2> QED BY <2>2, <2>3
<1> QED BY <1>5, <1>6, <1>7, <1>8, <1>9 DEF IInv

LEMMA UpdateStep ==
  ASSUME IInv, NEW s \in Slots, TrackedUpdate(s)
  PROVE  IInv'
<1> DEFINE row == [device[s] EXCEPT !.version = clock + 1, !.compound = clock + 1, !.isDirty = TRUE]
<1>1. /\ TypeOK /\ ClockInv /\ CopyInv /\ ChangesInv /\ CoverInv
      /\ clock \in Nat /\ clock' = clock + 1 /\ device[s].exists
      /\ unsent' = unsent \cup {s}
      /\ UNCHANGED <<server, lastSyncAt, pull, pulls, excused, doubled>>
  BY DEF IInv, TypeOK, TrackedUpdate, Tick, Live
<1>2. device' = [device EXCEPT ![s] = row]
  BY DEF TrackedUpdate
<1>3. /\ row \in LocalRow /\ row.exists = device[s].exists
      /\ row.remoteId = device[s].remoteId /\ row.isDirty
  <2>1. device[s] \in LocalRow /\ clock + 1 \in Nat
    BY <1>1, Fields
  <2> QED BY <2>1 DEF LocalRow
<1> HIDE DEF row
<1>4. /\ device' \in [Slots -> LocalRow] /\ device'[s] = row
      /\ \A t \in Slots \ {s} : device'[t] = device[t]
  BY <1>1, <1>2, <1>3 DEF TypeOK
<1>5. \A t \in Slots : device'[t].exists = device[t].exists
                       /\ device'[t].remoteId = device[t].remoteId
  BY <1>3, <1>4
<1>6. TypeOK'
  BY <1>1, <1>4 DEF TypeOK
<1>7. ClockInv'
  <2>1. lastSyncAt' <= clock'
    BY <1>1 DEF ClockInv, TypeOK
  <2>2. \A r \in Rows : server'[r].updatedAt <= clock'
    <3>1. TAKE r \in Rows
    <3>2. server[r].updatedAt \in Nat /\ server[r].updatedAt <= clock
      BY <1>1, Fields DEF ClockInv
    <3> QED BY <1>1, <3>2
  <2> QED BY <1>1, <2>1, <2>2 DEF ClockInv
<1>8. CopyInv'
  <2>1. \A r \in Rows : CopiesOf(r)' = CopiesOf(r)
    BY <1>5 DEF CopiesOf, Live
  <2>2. \A t \in Slots : Live(t)' = Live(t)
    BY <1>5 DEF Live
  <2>3. \A t \in Slots : Live(t)' => device'[t].remoteId \in Rows
    BY <1>1, <1>5, <2>2 DEF CopyInv
  <2>4. \A t \in unsent' : Live(t)' /\ device'[t].isDirty
    BY <1>1, <1>3, <1>4, <2>2 DEF CopyInv, TypeOK, Live
  <2> QED BY <1>1, <2>1, <2>3, <2>4 DEF CopyInv
<1>9. ChangesInv'
  BY <1>1 DEF ChangesInv, TrueChange
<1>10. CoverInv'
  <2>1. ASSUME NEW r \in Rows, Covered(r) PROVE Covered(r)'
    <3>1. \A t \in Slots \ {s} : device'[t] = device[t] /\ (t \in unsent => t \in unsent')
      BY <1>1, <1>4
    <3>2. CopiesOf(r)' = CopiesOf(r)
      BY <1>5 DEF CopiesOf, Live
    <3>3. ASSUME server[r].exists
          PROVE  \E t \in CopiesOf(r)' : \/ device'[t].version = server'[r].version
                                         \/ t \in unsent' \/ Kept(t, r)'
      <4>1. PICK t \in CopiesOf(r) :
              device[t].version = server[r].version \/ t \in unsent \/ Kept(t, r)
        BY <2>1, <3>3 DEF Covered
      <4>2. t \in Slots
        BY DEF CopiesOf
      <4>3. CASE t = s
        BY <1>1, <3>2, <4>3
      <4>4. CASE t # s
        <5>1. device'[t] = device[t] /\ (t \in unsent => t \in unsent')
          BY <3>1, <4>2, <4>4
        <5>2. Kept(t, r) => Kept(t, r)'
          BY <1>1, <5>1 DEF Kept
        <5> QED BY <1>1, <3>2, <4>1, <5>1, <5>2
      <4> QED BY <4>3, <4>4
    <3> QED BY <1>1, <2>1, <3>2, <3>3 DEF Covered
  <2>2. All' = All
    BY <1>1, AllIsTold
  <2>3. \A r \in Rows : Pending(r) => Pending(r)'
    BY <1>1, <2>2 DEF Pending, Ahead, First
  <2> QED BY <1>1, <2>1, <2>3 DEF CoverInv
<1> QED BY <1>6, <1>7, <1>8, <1>9, <1>10 DEF IInv

LEMMA DeleteStep ==
  ASSUME IInv, NEW s \in Slots, TrackedDelete(s)
  PROVE  IInv'
<1>1. /\ TypeOK /\ ClockInv /\ CopyInv /\ ChangesInv /\ CoverInv
      /\ device[s].exists /\ device[s].remoteId \in Rows
      /\ device' = [device EXCEPT ![s] = NoRecord]
      /\ unsent' = unsent \ {s} /\ excused' = excused \cup {device[s].remoteId}
      /\ UNCHANGED <<clock, server, lastSyncAt, pull, pulls, doubled>>
  BY DEF IInv, TrackedDelete, Live, CopyInv
<1>2. NoRecord \in LocalRow /\ ~NoRecord.exists
  BY DEF NoRecord, LocalRow
<1>3. /\ device' \in [Slots -> LocalRow] /\ ~device'[s].exists
      /\ \A t \in Slots \ {s} : device'[t] = device[t]
  BY <1>1, <1>2 DEF TypeOK
<1>4. TypeOK'
  BY <1>1, <1>3 DEF TypeOK
<1>5. ClockInv'
  BY <1>1 DEF ClockInv
<1>6. CopyInv'
  <2>1. \A r \in Rows : CopiesOf(r)' \subseteq CopiesOf(r)
    BY <1>3 DEF CopiesOf, Live
  <2>2. \A t \in Slots : Live(t)' => t # s /\ Live(t) /\ device'[t] = device[t]
    BY <1>3 DEF Live
  <2>3. \A t \in unsent' : Live(t)' /\ device'[t].isDirty
    BY <1>1, <1>3 DEF CopyInv, TypeOK, Live
  <2> QED BY <1>1, <2>1, <2>2, <2>3 DEF CopyInv
<1>7. ChangesInv'
  BY <1>1 DEF ChangesInv, TrueChange
<1>8. CoverInv'
  <2>1. ASSUME NEW r \in Rows, r # device[s].remoteId, Covered(r) PROVE Covered(r)'
    BY <1>1, <1>3, <2>1, CoveredStays
  <2>2. All' = All
    BY <1>1, AllIsTold
  <2>3. \A r \in Rows : Pending(r) => Pending(r)'
    BY <1>1, <2>2 DEF Pending, Ahead, First
  <2> QED BY <1>1, <2>1, <2>3 DEF CoverInv
<1> QED BY <1>4, <1>5, <1>6, <1>7, <1>8 DEF IInv

-----------------------------------------------------------------------------
(* The pull goes on. *)

\* When a pull moves to another entity, from its first page on, the rows of the
\* entities that are left are still to be met.
LEMMA FromPageOne ==
  ASSUME TypeOK', ClockInv', pull'.at = "fetch", pull'.page = 1,
         NEW r \in Rows, server'[r].updatedAt > pull'.since,
         \E i \in DOMAIN Entities : i >= pull'.entity /\ Entities[i] = EntityOf[r]
  PROVE  Pending(r)'
<1>1. PICK i \in DOMAIN Entities : i >= pull'.entity /\ Entities[i] = EntityOf[r]
  OBVIOUS
<1>2. CASE i > pull'.entity
  BY <1>1, <1>2 DEF Pending
<1>3. CASE ~(i > pull'.entity)
  <2>1. pull'.entity = i
    <3>1. pull'.entity \in Nat
      BY PullFields DEF TypeOK
    <3>2. i \in Nat
      BY Lengths
    <3> QED BY <1>1, <1>3, <3>1, <3>2
  <2>2. server' \in [Rows -> ServerRow] /\ pull'.since \in Nat /\ TimesApart(server')
    BY PullFields DEF TypeOK, ClockInv, TimesApart
  <2>3. \E j \in DOMAIN All' : All'[j].id = r /\ All' \in Seq(Change)
    <3> DEFINE rows == server'
               e == Entities[pull'.entity]
               since == pull'.since
               all == InOrder(Told(rows, e, since))
    <3>1. All' = all
      BY AllIsTold
    <3>2. EntityOf[r] = e /\ rows[r].updatedAt > since
      BY <1>1, <2>1
    <3>3. rows \in [Rows -> ServerRow] /\ since \in Nat /\ TimesApart(rows)
      BY <2>2
    <3> HIDE DEF rows, e, since
    <3>4. /\ all \in Seq(Change)
          /\ \A q \in Rows : EntityOf[q] = e /\ rows[q].updatedAt > since =>
               \E j \in DOMAIN all : all[j].id = q
      BY <3>3, ToldInOrder
    <3> HIDE DEF all
    <3>5. \E j \in DOMAIN all : all[j].id = r
      BY <3>2, <3>4
    <3> QED BY <3>1, <3>4, <3>5
  <2>4. PICK j \in DOMAIN All' : All'[j].id = r /\ All' \in Seq(Change)
    BY <2>3
  <2>5. j >= First(pull'.page)
    <3>1. j \in Nat \ {0}
      BY <2>4, LenProperties
    <3> QED BY <3>1, Pages
  <2>6. Ahead(r)'
    BY <2>4, <2>5 DEF Ahead, First
  <2> QED BY <1>1, <2>1, <2>6 DEF Pending
<1> QED BY <1>2, <1>3

\* The next page or the next entity.
LEMMA PullMovesOn ==
  ASSUME TypeOK, ClockInv, pull.at \in {"fetch", "apply"}, UNCHANGED <<clock, server, lastSyncAt>>,
         NEW p \in Pull, p.since = pull.since, p.entity = pull.entity, p.page = pull.page,
         pull' = AfterPage(p)
  PROVE  /\ ClockInv' /\ ChangesInv' /\ pull' \in Pull
         /\ TypeOK' /\ ~MorePages(p) => \A r \in Rows :
              /\ server[r].updatedAt > pull.since
              /\ \E i \in DOMAIN Entities : i > pull.entity /\ Entities[i] = EntityOf[r]
              => Pending(r)'
<1>1. /\ pull \in Pull /\ pull.entity \in DOMAIN Entities /\ pull.since = lastSyncAt
      /\ pull.page \in Nat \ {0}
  BY PullFields DEF TypeOK, ClockInv
<1>2. /\ pull' \in Pull /\ pull'.since = p.since /\ pull'.changes = <<>>
      /\ pull'.at \in {"fetch", "finish"}
      /\ MorePages(p) => /\ pull'.at = "fetch" /\ pull'.page = p.page + 1 /\ pull'.entity = p.entity
      /\ ~MorePages(p) => /\ pull'.page = 1 /\ pull'.entity = p.entity + 1
                          /\ pull'.at = "finish" <=> p.entity = Len(Entities)
  BY <1>1, AfterPageFields
<1>3. ClockInv'
  <2>1. pull'.page >= 1 /\ pull'.page <= MaxPages
    <3>1. MaxPages \in Nat \ {0}
      BY PullAssumption
    <3>2. CASE MorePages(p)
      BY <1>1, <1>2, <3>1, <3>2 DEF MorePages
    <3>3. CASE ~MorePages(p)
      BY <1>2, <3>1, <3>3
    <3> QED BY <3>2, <3>3
  <2>2. IF pull'.at = "finish" THEN pull'.entity = Len(Entities) + 1
        ELSE pull'.entity \in DOMAIN Entities
    <3>1. CASE MorePages(p)
      BY <1>1, <1>2, <3>1
    <3>2. CASE ~MorePages(p)
      BY <1>1, <1>2, <3>2, Lengths
    <3> QED BY <3>1, <3>2
  <2> QED BY <1>1, <1>2, <2>1, <2>2 DEF ClockInv
<1>4. ChangesInv'
  BY <1>2, EmptySeq DEF ChangesInv
<1>5. ASSUME TypeOK', ~MorePages(p), NEW r \in Rows, server[r].updatedAt > pull.since,
             NEW i \in DOMAIN Entities, i > pull.entity, Entities[i] = EntityOf[r]
      PROVE  Pending(r)'
  <2>1. p.entity # Len(Entities) /\ i >= pull'.entity
    BY <1>1, <1>2, <1>5, Lengths
  <2>2. pull'.at = "fetch" /\ pull'.page = 1 /\ pull'.since = pull.since
    BY <1>2, <1>5, <2>1
  <2> QED BY <1>3, <1>5, <2>1, <2>2, FromPageOne
<1> QED BY <1>2, <1>3, <1>4, <1>5

LEMMA BeginStep ==
  ASSUME IInv, PullChanges
  PROVE  IInv'
<1>1. /\ TypeOK /\ ClockInv /\ CopyInv /\ ChangesInv /\ CoverInv
      /\ pull.at = "idle" /\ pulls' = pulls + 1
      /\ pull' = [NoPull EXCEPT !.at = "fetch", !.since = lastSyncAt]
      /\ UNCHANGED <<clock, server, device, lastSyncAt, excused, doubled, unsent>>
  BY DEF IInv, PullChanges
<1>2. /\ pull' \in Pull /\ pull'.at = "fetch" /\ pull'.since = lastSyncAt
      /\ pull'.entity = 1 /\ pull'.page = 1 /\ pull'.changes = <<>>
  <2>1. lastSyncAt \in Nat /\ NoPull \in Pull
    BY <1>1, NoPullFields DEF TypeOK
  <2>2. NoPull.entity = 1 /\ NoPull.page = 1 /\ NoPull.changes = <<>>
    BY NoPullFields
  <2> QED BY <1>1, <2>1, <2>2 DEF Pull
<1>3. TypeOK'
  BY <1>1, <1>2 DEF TypeOK
<1>4. ClockInv'
  BY <1>1, <1>2, Lengths, PageBound DEF ClockInv
<1>5. CopyInv'
  BY <1>1 DEF CopyInv, CopiesOf, Live
<1>6. ChangesInv'
  BY <1>2, EmptySeq DEF ChangesInv
<1>7. CoverInv'
  <2>1. \A r \in Rows : Covered(r) => Covered(r)'
    BY <1>1, CoveredStays
  <2>2. ASSUME NEW r \in Rows, server[r].updatedAt > lastSyncAt
        PROVE  Pending(r)'
    <3>1. \E i \in DOMAIN Entities : i >= pull'.entity /\ Entities[i] = EntityOf[r]
      BY <1>2, Lengths
    <3>2. server'[r].updatedAt > pull'.since
      BY <1>1, <1>2, <2>2
    <3> QED BY <1>2, <1>3, <1>4, <3>1, <3>2, FromPageOne
  <2>3. \A r \in Rows : server[r].updatedAt <= lastSyncAt \/ server[r].updatedAt > lastSyncAt
    BY <1>1, Fields DEF TypeOK
  <2> QED BY <1>1, <2>1, <2>2, <2>3 DEF CoverInv
<1> QED BY <1>3, <1>4, <1>5, <1>6, <1>7 DEF IInv

LEMMA FailStep ==
  ASSUME IInv, EntityFails
  PROVE  IInv'
<1> DEFINE p == [pull EXCEPT !.hasMore = FALSE]
<1>1. /\ TypeOK /\ ClockInv /\ CopyInv /\ ChangesInv /\ CoverInv
      /\ pull.at \in {"fetch", "apply"} /\ pull' = AfterPage(p)
      /\ excused' = excused \cup {r \in Rows : EntityOf[r] = Entities[pull.entity]}
      /\ UNCHANGED <<clock, server, device, lastSyncAt, pulls, doubled, unsent>>
  BY DEF IInv, EntityFails
<1>2. /\ p \in Pull /\ p.since = pull.since /\ p.entity = pull.entity /\ p.page = pull.page
      /\ ~MorePages(p)
  BY <1>1 DEF TypeOK, Pull, MorePages
<1> HIDE DEF p
<1>3. ClockInv' /\ ChangesInv' /\ pull' \in Pull
  BY <1>1, <1>2, PullMovesOn
<1>4. TypeOK'
  BY <1>1, <1>3 DEF TypeOK
<1>5. CopyInv'
  BY <1>1 DEF CopyInv, CopiesOf, Live
<1>6. CoverInv'
  <2>1. \A r \in Rows : Covered(r) => Covered(r)'
    BY <1>1, CoveredStays
  <2>2. ASSUME NEW r \in Rows, r \notin excused', Pending(r)
        PROVE  Pending(r)'
    <3>1. /\ server[r].updatedAt > pull.since
          /\ \E i \in DOMAIN Entities : i > pull.entity /\ Entities[i] = EntityOf[r]
      BY <1>1, <2>2 DEF Pending
    <3> QED BY <1>1, <1>2, <1>4, <3>1, PullMovesOn
  <2> QED BY <1>1, <2>1, <2>2 DEF CoverInv
<1> QED BY <1>3, <1>4, <1>5, <1>6 DEF IInv

LEMMA FinishStep ==
  ASSUME IInv, FinishSync
  PROVE  IInv'
<1>1. /\ TypeOK /\ ClockInv /\ CopyInv /\ ChangesInv /\ CoverInv
      /\ pull.at = "finish" /\ lastSyncAt' = clock /\ pull' = NoPull
      /\ UNCHANGED <<clock, server, device, pulls, excused, doubled, unsent>>
  BY DEF IInv, FinishSync
<1>2. TypeOK'
  BY <1>1, NoPullFields DEF TypeOK
<1>3. ClockInv'
  <2>1. clock <= clock
    BY <1>1 DEF TypeOK
  <2> QED BY <1>1, <2>1, NoPullFields, Lengths, PageBound DEF ClockInv
<1>4. CopyInv'
  BY <1>1 DEF CopyInv, CopiesOf, Live
<1>5. ChangesInv'
  BY <1>1, NoPullFields, EmptySeq DEF ChangesInv
<1>6. CoverInv'
  <2>1. \A r \in Rows : Covered(r) => Covered(r)'
    BY <1>1, CoveredStays
  <2>2. \A r \in Rows : ~Pending(r)
    <3>1. pull.entity = Len(Entities) + 1
      BY <1>1 DEF ClockInv
    <3>2. \A i \in DOMAIN Entities : ~(i > pull.entity)
      BY <3>1, Lengths
    <3> QED BY <1>1, <3>2 DEF Pending
  <2> QED BY <1>1, <2>1, <2>2, NoPullFields DEF CoverInv
<1> QED BY <1>2, <1>3, <1>4, <1>5, <1>6 DEF IInv

\* The page holds the changes from First on, PageSize of them or what is left.
LEMMA FetchStep ==
  ASSUME IInv, FetchPage
  PROVE  IInv'
<1> DEFINE first == First(pull.page)
           last == IF Len(All) < first + PageSize THEN Len(All) ELSE first + PageSize - 1
           page == SubSeq(All, first, last)
           more == Len(All) >= first + PageSize
<1>1. /\ TypeOK /\ ClockInv /\ CopyInv /\ ChangesInv /\ CoverInv
      /\ pull.at = "fetch" /\ pull.entity \in DOMAIN Entities /\ pull.page \in Nat \ {0}
      /\ UNCHANGED <<clock, server, device, lastSyncAt, pulls, excused, doubled, unsent>>
  BY PullFields DEF IInv, FetchPage, TypeOK, ClockInv
<1>2. pull' = [pull EXCEPT !.at = "apply", !.hasMore = more, !.changes = page]
  BY DEF FetchPage, All, First
<1>3. first \in Nat \ {0} /\ PageSize \in Nat \ {0}
  BY <1>1, Pages
<1>4. /\ All \in Seq(Change)
      /\ \A i \in DOMAIN All :
           /\ All[i].id \in Rows /\ EntityOf[All[i].id] = Entities[pull.entity]
           /\ All[i].updated_at = server[All[i].id].updatedAt
           /\ All[i].version = server[All[i].id].version
           /\ All[i].action = "delete" <=> ~server[All[i].id].exists
           /\ All[i].updated_at > pull.since
      /\ \A i, j \in DOMAIN All : All[i].id = All[j].id => i = j
      /\ \A i, j \in DOMAIN All : i < j => All[i].updated_at < All[j].updated_at
  <2>1. server \in [Rows -> ServerRow] /\ pull.since \in Nat /\ TimesApart(server)
    BY <1>1, PullFields DEF TypeOK, ClockInv, TimesApart
  <2> QED BY <2>1, ToldInOrder, AllIsTold
<1>5. DOMAIN All = 1 .. Len(All) /\ Len(All) \in Nat
  BY <1>4, LenProperties
<1> HIDE DEF first
<1>6. last \in Int /\ last <= Len(All) /\ last <= first + PageSize - 1
  BY <1>3, <1>5
<1>7. /\ page \in Seq(Change) /\ Len(page) = IF first <= last THEN last - first + 1 ELSE 0
      /\ \A k \in 1 .. last - first + 1 : page[k] = All[first + k - 1]
  <2>1. \A i \in first .. last : All[i] \in Change
    <3>1. TAKE i \in first .. last
    <3>2. i \in 1 .. Len(All)
      BY <1>3, <1>5, <1>6
    <3> QED BY <1>4, <3>2, ElementOfSeq
  <2> HIDE DEF last
  <2> QED BY <1>3, <1>6, <2>1, SubSeqProperties
<1>8. \A k \in DOMAIN page : /\ first + k - 1 \in DOMAIN All /\ page[k] = All[first + k - 1]
                             /\ k \in Nat /\ first + k - 1 <= last
  <2> HIDE DEF page, last
  <2>1. DOMAIN page = 1 .. Len(page)
    BY <1>7, LenProperties
  <2> QED BY <1>3, <1>5, <1>6, <1>7, <2>1
<1>9. \A i \in DOMAIN All : i >= first => \/ \E k \in DOMAIN page : page[k] = All[i]
                                          \/ i >= first + PageSize /\ more
  <2>1. SUFFICES ASSUME NEW i \in DOMAIN All, i >= first, ~(i >= first + PageSize)
                 PROVE  \E k \in DOMAIN page : page[k] = All[i]
    BY <1>3, <1>5
  <2>2. i \in Nat /\ i <= last /\ first <= last
    BY <1>3, <1>5, <2>1
  <2> DEFINE k == i - first + 1
  <2> HIDE DEF page, last
  <2>3. k \in 1 .. last - first + 1 /\ first + k - 1 = i /\ Len(page) = last - first + 1
    BY <1>3, <1>6, <1>7, <2>1, <2>2
  <2>4. k \in DOMAIN page
    BY <1>7, <2>3, LenProperties
  <2> QED BY <1>7, <2>3, <2>4
<1>10. more \in BOOLEAN
  OBVIOUS
<1> HIDE DEF page, more, last
<1>11. /\ pull' \in Pull /\ pull'.at = "apply" /\ pull'.hasMore = more /\ pull'.changes = page
       /\ pull'.entity = pull.entity /\ pull'.since = pull.since /\ pull'.page = pull.page
  BY <1>1, <1>2, <1>7, <1>10 DEF TypeOK, Pull
<1>12. TypeOK'
  BY <1>1, <1>11 DEF TypeOK
<1>13. ClockInv'
  BY <1>1, <1>11 DEF ClockInv
<1>14. CopyInv'
  BY <1>1 DEF CopyInv, CopiesOf, Live
<1>15. ChangesInv'
  <2>1. ASSUME NEW k \in DOMAIN page PROVE TrueChange(page[k], excused)
    <3> DEFINE c == page[k]
    <3>1. /\ c.id \in Rows /\ c.updated_at = server[c.id].updatedAt
          /\ c.version = server[c.id].version /\ (c.action = "delete" <=> ~server[c.id].exists)
      BY <1>4, <1>8
    <3>2. server[c.id].updatedAt \in Nat
      BY <1>1, <3>1, Fields
    <3>4. c.updated_at > pull.since /\ pull.since \in Nat
      BY <1>1, <1>4, <1>8, PullFields DEF TypeOK
    <3> HIDE DEF c
    <3>3. TrueChange(c, excused)
      BY <3>1, <3>2, <3>4 DEF TrueChange
    <3> QED BY <3>3 DEF c
  <2>2. ASSUME NEW j \in DOMAIN page, NEW k \in DOMAIN page, page[j].id = page[k].id
        PROVE  j = k
    <3>1. first + j - 1 = first + k - 1 /\ j \in Nat /\ k \in Nat
      BY <1>4, <1>8, <2>2
    <3> QED BY <1>3, <3>1
  <2> QED BY <1>1, <1>11, <2>1, <2>2 DEF ChangesInv, TrueChange
<1>16. CoverInv'
  <2>1. \A r \in Rows : Covered(r) => Covered(r)'
    BY <1>1, CoveredStays
  <2>2. All' = All
    BY <1>1, <1>11, AllIsTold
  <2>3. first = First(pull'.page)
    BY <1>11 DEF first
  <2>4. ASSUME NEW r \in Rows, Ahead(r) PROVE Ahead(r)'
    <3>1. PICK i \in DOMAIN All : All[i].id = r /\ i >= first
      BY <1>1, <2>4 DEF Ahead, first
    <3>2. CASE \E k \in DOMAIN page : page[k] = All[i]
      BY <1>11, <3>1, <3>2 DEF Ahead
    <3>3. CASE i >= first + PageSize /\ more
      <4>1. ASSUME NEW k \in DOMAIN page PROVE server[r].updatedAt > page[k].updated_at
        <5>1. first + k - 1 \in DOMAIN All /\ page[k] = All[first + k - 1] /\ first + k - 1 <= last
          BY <1>8
        <5>2. first + k - 1 < i
          BY <1>3, <1>5, <1>6, <3>1, <3>3, <5>1
        <5>3. page[k].updated_at < All[i].updated_at /\ All[i].updated_at = server[r].updatedAt
          BY <1>4, <3>1, <5>1, <5>2
        <5>4. page[k].updated_at \in Nat /\ server[r].updatedAt \in Nat
          BY <1>1, <1>4, <3>1, <5>1, Fields
        <5> QED BY <5>3, <5>4
      <4> QED BY <1>1, <1>11, <2>2, <2>3, <3>1, <3>3, <4>1 DEF Ahead, First
    <3> QED BY <1>9, <3>1, <3>2, <3>3
  <2>5. \A r \in Rows : Pending(r) => Pending(r)'
    BY <1>1, <1>11, <2>4 DEF Pending
  <2> QED BY <1>1, <1>11, <2>1, <2>5 DEF CoverInv
<1> QED BY <1>12, <1>13, <1>14, <1>15, <1>16 DEF IInv

-----------------------------------------------------------------------------
(* A page of changes. *)

Outcome == [device : [Slots -> LocalRow], doubled : SUBSET Rows, excused : SUBSET Rows]

\* CopiesOf, for any local records.
Copies(d, r) == {s \in Slots : d[s].exists /\ d[s].remoteId = r}

Single(d, r) == \A s, t \in Copies(d, r) : s = t

Known(d) == \A s \in Slots : d[s].exists => d[s].remoteId \in Rows

\* Between two versions of the local records, only copies of the rows in R differ.
OnlyOf(R, d, e) ==
  \A s \in Slots : \/ e[s] = d[s]
                   \/ /\ d[s].exists => d[s].remoteId \in R
                      /\ e[s].exists => e[s].remoteId \in R

LEMMA Writing ==
  ASSUME NEW d \in [Slots -> LocalRow], NEW s \in Slots, NEW row \in LocalRow
  PROVE  /\ [d EXCEPT ![s] = row] \in [Slots -> LocalRow]
         /\ [d EXCEPT ![s] = row][s] = row
         /\ \A t \in Slots \ {s} : [d EXCEPT ![s] = row][t] = d[t]
OBVIOUS

\* What applyDataToRecord makes of a record.
LEMMA WithDataFields ==
  ASSUME NEW local \in LocalRow, NEW c \in Change
  PROVE  /\ WithData(local, c) \in LocalRow
         /\ WithData(local, c).exists = local.exists
         /\ WithData(local, c).remoteId = local.remoteId
         /\ WithData(local, c).version = c.version
<1>1. c.version \in Nat
  BY DEF Change
<1> QED BY <1>1 DEF WithData, LocalRow

\* The record a found copy becomes.
LEMMA ResolvedFields ==
  ASSUME NEW local \in LocalRow, NEW c \in Change
  PROVE  /\ Resolved(local, c) \in LocalRow
         /\ Resolved(local, c).exists = local.exists
         /\ Resolved(local, c).remoteId = local.remoteId
         /\ \/ Resolved(local, c) = local /\ local.isDirty /\ ~ServerWins(EntityOf[c.id], local, c)
            \/ Resolved(local, c).version = c.version
         /\ Resolved(local, c) # local /\ local.isDirty => ServerWins(EntityOf[c.id], local, c)
<1> DEFINE taken == WithData(local, c)
<1>1. /\ taken \in LocalRow /\ taken.exists = local.exists /\ taken.remoteId = local.remoteId
      /\ taken.version = c.version
  BY WithDataFields
<1>2. Resolved(local, c) = IF local.isDirty /\ ~ServerWins(EntityOf[c.id], local, c)
                           THEN local ELSE taken
  BY DEF Resolved
<1> HIDE DEF taken
<1> QED BY <1>1, <1>2

\* A change only touches copies of its row, it leaves one copy where there was
\* one at the most, the copy is what the server has or the rules prefer the
\* edit, and an edit is only given up if they do not.
LEMMA AppliedFields ==
  ASSUME NEW d \in [Slots -> LocalRow], Known(d), NEW c \in Change,
         NEW found \in {Copies(d, c.id), {}}, NEW e \in Applied(d, c, found)
  PROVE  /\ e \in [Slots -> LocalRow] /\ Known(e) /\ OnlyOf({c.id}, d, e)
         /\ found = Copies(d, c.id) /\ Single(d, c.id) =>
              /\ Single(e, c.id)
              /\ IF c.action = "delete" THEN Copies(e, c.id) = {}
                 ELSE \E s \in Copies(e, c.id) :
                        \/ e[s].version = c.version
                        \/ e[s].isDirty /\ ~ServerWins(EntityOf[c.id], e[s], c)
         /\ \A s \in Slots : d[s].exists /\ d[s].isDirty /\ e[s].exists /\ e[s] # d[s] =>
              ServerWins(EntityOf[c.id], d[s], c)
<1>1. c.id \in Rows /\ c.version \in Nat /\ c.action \in {"update", "delete"}
  BY DEF Change
<1>2. CASE found # {} /\ c.action = "delete"
  <2>1. PICK s \in found : e = [d EXCEPT ![s] = NoRecord]
    BY <1>2 DEF Applied
  <2>2. s \in Copies(d, c.id) /\ s \in Slots /\ d[s].remoteId = c.id
    BY <1>2, <2>1 DEF Copies
  <2>3. NoRecord \in LocalRow /\ ~NoRecord.exists
    BY DEF NoRecord, LocalRow
  <2>4. /\ e \in [Slots -> LocalRow] /\ ~e[s].exists
        /\ \A t \in Slots \ {s} : e[t] = d[t]
    BY <2>1, <2>2, <2>3, Writing
  <2>5. Known(e) /\ OnlyOf({c.id}, d, e)
    BY <2>2, <2>4 DEF Known, OnlyOf
  <2>6. Single(d, c.id) => Copies(e, c.id) = {}
    BY <2>2, <2>4 DEF Single, Copies
  <2>7. Single(d, c.id) => Single(e, c.id)
    BY <2>6 DEF Single
  <2>8. \A t \in Slots : ~(d[t].exists /\ d[t].isDirty /\ e[t].exists /\ e[t] # d[t])
    BY <2>4
  <2> QED BY <1>2, <2>4, <2>5, <2>6, <2>7, <2>8
<1>3. CASE found # {} /\ c.action # "delete"
  <2>1. PICK s \in found : e = [d EXCEPT ![s] = Resolved(d[s], c)]
    BY <1>3 DEF Applied
  <2>2. s \in Copies(d, c.id) /\ s \in Slots /\ d[s].remoteId = c.id /\ d[s].exists
        /\ d[s] \in LocalRow
    BY <1>3, <2>1 DEF Copies
  <2> DEFINE row == Resolved(d[s], c)
  <2>3. /\ row \in LocalRow /\ row.exists = d[s].exists /\ row.remoteId = d[s].remoteId
        /\ \/ row = d[s] /\ d[s].isDirty /\ ~ServerWins(EntityOf[c.id], d[s], c)
           \/ row.version = c.version
        /\ row # d[s] /\ d[s].isDirty => ServerWins(EntityOf[c.id], d[s], c)
    BY <2>2, ResolvedFields
  <2> HIDE DEF row
  <2>4. /\ e \in [Slots -> LocalRow] /\ e[s] = row
        /\ \A t \in Slots \ {s} : e[t] = d[t]
    BY <2>1, <2>2, <2>3, Writing DEF row
  <2>5. \A t \in Slots : e[t].exists = d[t].exists /\ e[t].remoteId = d[t].remoteId
    BY <2>3, <2>4
  <2>6. Copies(e, c.id) = Copies(d, c.id)
    BY <2>5 DEF Copies
  <2>7. Known(e) /\ OnlyOf({c.id}, d, e)
    BY <2>2, <2>4, <2>5 DEF Known, OnlyOf
  <2>8. Single(d, c.id) => Single(e, c.id)
    BY <2>6 DEF Single
  <2>9. \/ e[s].version = c.version
        \/ e[s].isDirty /\ ~ServerWins(EntityOf[c.id], e[s], c)
    BY <2>3, <2>4
  <2>10. \A t \in Slots : d[t].exists /\ d[t].isDirty /\ e[t].exists /\ e[t] # d[t] =>
           ServerWins(EntityOf[c.id], d[t], c)
    BY <2>3, <2>4
  <2> QED BY <1>3, <2>2, <2>4, <2>6, <2>7, <2>8, <2>9, <2>10
<1>4. CASE found = {} /\ c.action = "delete"
  <2>1. e = d
    BY <1>4 DEF Applied
  <2> QED BY <1>4, <2>1 DEF OnlyOf, Single
<1>5. CASE found = {} /\ c.action # "delete"
  <2> DEFINE bare == [NoRecord EXCEPT !.exists = TRUE, !.remoteId = c.id]
             row == WithData(bare, c)
  <2>1. PICK s \in {q \in Slots : ~d[q].exists} : e = [d EXCEPT ![s] = row]
    BY <1>5 DEF Applied
  <2>2. row \in LocalRow /\ row.exists /\ row.remoteId = c.id /\ row.version = c.version
    <3>1. bare \in LocalRow /\ bare.exists /\ bare.remoteId = c.id
      BY <1>1 DEF NoRecord, LocalRow
    <3> HIDE DEF bare
    <3> QED BY <3>1, WithDataFields
  <2> HIDE DEF row
  <2>3. /\ s \in Slots /\ ~d[s].exists
        /\ e \in [Slots -> LocalRow] /\ e[s] = row /\ \A t \in Slots \ {s} : e[t] = d[t]
    BY <2>1, <2>2, Writing
  <2>4. Known(e) /\ OnlyOf({c.id}, d, e)
    BY <1>1, <2>2, <2>3 DEF Known, OnlyOf
  <2>5. Copies(e, c.id) = Copies(d, c.id) \cup {s}
    BY <2>2, <2>3 DEF Copies
  <2>6. found = Copies(d, c.id) => Single(e, c.id)
    BY <1>5, <2>5 DEF Single
  <2>7. s \in Copies(e, c.id) /\ e[s].version = c.version
    BY <2>2, <2>3, <2>5
  <2>8. \A t \in Slots : ~(d[t].exists /\ d[t].isDirty /\ e[t].exists /\ e[t] # d[t])
    BY <2>3
  <2> QED BY <1>5, <2>3, <2>4, <2>6, <2>7, <2>8
<1> QED BY <1>2, <1>3, <1>4, <1>5

\* The rules for the row prefer what the server has to the edit of the device.
Preferred(s) ==
  LET r == device[s].remoteId IN
  \/ Strategy[EntityOf[r]] = "server-wins"
  \/ Strategy[EntityOf[r]] = "last-write-wins" /\ device[s].version < server[r].updatedAt

\* Covered, for local records that are being written.
Arrived(d, r) ==
  IF server[r].exists
  THEN \E s \in Copies(d, r) :
         \/ d[s].version = server[r].version
         \/ /\ d[s].isDirty
            /\ \/ Strategy[EntityOf[r]] = "client-wins"
               \/ Strategy[EntityOf[r]] = "last-write-wins" /\ d[s].version >= server[r].updatedAt
  ELSE Copies(d, r) = {}

\* The rows of the first k changes of the page.
Met(k) == {pull.changes[i].id : i \in 1 .. k}

\* What holds after the first k changes of the page.
PageInv(o, k) ==
  /\ o \in Outcome /\ doubled \subseteq o.doubled
  /\ Known(o.device)
  /\ \A r \in Rows \ o.doubled : Single(o.device, r)
  /\ OnlyOf(Met(k), device, o.device)
  /\ \A r \in Rows \ Met(k) : r \in o.excused <=> r \in excused
  /\ \A r \in Met(k) \ (o.excused \cup o.doubled) : Arrived(o.device, r)
  /\ \A s \in unsent :
       o.device[s].exists /\ o.device[s].remoteId = device[s].remoteId
           /\ o.device[s].version # device[s].version
         => Preferred(s)

LEMMA OutcomeFields ==
  ASSUME NEW o \in Outcome
  PROVE  /\ o.device \in [Slots -> LocalRow] /\ o.doubled \subseteq Rows /\ o.excused \subseteq Rows
BY DEF Outcome

\* The three ways a change can end: skipped, applied, applied beside the copy.
LEMMA OutcomesFields ==
  ASSUME NEW o \in Outcome, NEW c \in Change, NEW u \in Outcomes(o, c),
         Known(o.device)
  PROVE  \/ /\ u \in Outcome /\ u.device = o.device /\ u.doubled = o.doubled
            /\ u.excused = o.excused \cup {c.id}
         \/ /\ u \in Outcome /\ u.device \in Applied(o.device, c, Copies(o.device, c.id))
            /\ u.doubled = o.doubled
            /\ u.excused = IF server[c.id].updatedAt = c.updated_at THEN o.excused \ {c.id}
                           ELSE o.excused
         \/ /\ u \in Outcome /\ u.device \in Applied(o.device, c, {})
            /\ u.doubled = o.doubled \cup {c.id} /\ u.excused = o.excused
<1>1. /\ o.device \in [Slots -> LocalRow] /\ o.doubled \subseteq Rows /\ o.excused \subseteq Rows
      /\ c.id \in Rows
  BY OutcomeFields DEF Change
<1>2. CASE u = [o EXCEPT !.excused = @ \cup {c.id}]
  <2> DEFINE x == o.excused \cup {c.id}
  <2>1. x \in SUBSET Rows /\ u = [o EXCEPT !.excused = x]
    BY <1>1, <1>2 DEF Outcome
  <2> HIDE DEF x
  <2>2. u \in Outcome /\ u.device = o.device /\ u.doubled = o.doubled /\ u.excused = x
    BY <2>1 DEF Outcome
  <2> QED BY <2>2 DEF x
<1>3. ASSUME NEW d \in Applied(o.device, c, Copies(o.device, c.id)),
             u = [device |-> d, doubled |-> o.doubled,
                  excused |-> IF server[c.id].updatedAt = c.updated_at THEN o.excused \ {c.id}
                              ELSE o.excused]
      PROVE  /\ u \in Outcome /\ u.device = d /\ u.doubled = o.doubled
             /\ u.excused = IF server[c.id].updatedAt = c.updated_at THEN o.excused \ {c.id}
                            ELSE o.excused
  <2>1. d \in [Slots -> LocalRow]
    BY <1>1, AppliedFields
  <2> DEFINE x == IF server[c.id].updatedAt = c.updated_at THEN o.excused \ {c.id} ELSE o.excused
  <2>2. x \in SUBSET Rows /\ o.doubled \in SUBSET Rows
    BY <1>1
  <2>3. u = [device |-> d, doubled |-> o.doubled, excused |-> x]
    BY <1>3
  <2> HIDE DEF x
  <2>4. u \in Outcome /\ u.device = d /\ u.doubled = o.doubled /\ u.excused = x
    BY <2>1, <2>2, <2>3 DEF Outcome
  <2> QED BY <2>4 DEF x
<1>4. ASSUME NEW d \in Applied(o.device, c, {}),
             u = [device |-> d, doubled |-> o.doubled \cup {c.id}, excused |-> o.excused]
      PROVE  /\ u \in Outcome /\ u.device = d /\ u.doubled = o.doubled \cup {c.id}
             /\ u.excused = o.excused
  <2>1. d \in [Slots -> LocalRow]
    BY <1>1, AppliedFields
  <2> QED BY <1>1, <1>4, <2>1 DEF Outcome
<1>5. Lookups(o.device, c) = {Copies(o.device, c.id)}
  BY DEF Lookups, Copies
<1>6. UNION {Applied(o.device, c, found) : found \in Lookups(o.device, c)}
        = Applied(o.device, c, Copies(o.device, c.id))
  BY <1>5
<1>7. \/ u = [o EXCEPT !.excused = @ \cup {c.id}]
      \/ \E d \in Applied(o.device, c, Copies(o.device, c.id)) :
           u = [device |-> d, doubled |-> o.doubled,
                excused |-> IF server[c.id].updatedAt = c.updated_at THEN o.excused \ {c.id}
                            ELSE o.excused]
      \/ \E d \in Applied(o.device, c, {}) :
           u = [device |-> d, doubled |-> o.doubled \cup {c.id}, excused |-> o.excused]
  BY <1>6 DEF Outcomes
<1> QED BY <1>2, <1>3, <1>4, <1>7

LEMMA PageStep ==
  ASSUME IInv, NEW k \in DOMAIN pull.changes, NEW o, PageInv(o, k - 1),
         NEW u \in Outcomes(o, pull.changes[k])
  PROVE  PageInv(u, k)
<1> DEFINE c == pull.changes[k]
           R == Met(k - 1)
<1>1. TypeOK /\ CopyInv /\ ChangesInv
  BY DEF IInv
<1>2. /\ c \in Change /\ c.id \in Rows /\ c.version \in Nat /\ c.updated_at \in Nat
      /\ TrueChange(c, excused)
  BY <1>1, ChangeFields DEF ChangesInv
<1>3. k \in Nat \ {0} /\ DOMAIN pull.changes = 1 .. Len(pull.changes)
      /\ Len(pull.changes) \in Nat
  BY <1>1, PullFields, LenProperties DEF TypeOK
<1>4. c.id \notin R
  <2>1. \A i \in 1 .. k - 1 : i \in DOMAIN pull.changes /\ i # k
    BY <1>3
  <2> QED BY <1>1, <2>1 DEF ChangesInv, Met
<1>5. Met(k) = R \cup {c.id} /\ R \subseteq Rows
  <2>1. 1 .. k = (1 .. k - 1) \cup {k}
    BY <1>3
  <2>2. \A i \in 1 .. k - 1 : i \in DOMAIN pull.changes
    BY <1>3
  <2> QED BY <1>1, <2>1, <2>2, ChangeFields DEF Met
<1>6. u \in Outcomes(o, c)
  OBVIOUS
<1> HIDE DEF c, R
<1>7. /\ o \in Outcome /\ doubled \subseteq o.doubled /\ Known(o.device)
      /\ \A r \in Rows \ o.doubled : Single(o.device, r)
      /\ OnlyOf(R, device, o.device)
      /\ \A r \in Rows \ R : r \in o.excused <=> r \in excused
      /\ \A r \in R \ (o.excused \cup o.doubled) : Arrived(o.device, r)
      /\ \A s \in unsent :
           o.device[s].exists /\ o.device[s].remoteId = device[s].remoteId
               /\ o.device[s].version # device[s].version
             => Preferred(s)
  BY DEF PageInv, R
<1> DEFINE d == o.device
           e == u.device
<1>8. d \in [Slots -> LocalRow] /\ o.doubled \subseteq Rows /\ o.excused \subseteq Rows
  BY <1>7, OutcomeFields
<1>9. \/ /\ u \in Outcome /\ e = d /\ u.doubled = o.doubled
         /\ u.excused = o.excused \cup {c.id}
      \/ /\ u \in Outcome /\ e \in Applied(d, c, Copies(d, c.id)) /\ u.doubled = o.doubled
         /\ u.excused = IF server[c.id].updatedAt = c.updated_at THEN o.excused \ {c.id}
                        ELSE o.excused
      \/ /\ u \in Outcome /\ e \in Applied(d, c, {})
         /\ u.doubled = o.doubled \cup {c.id} /\ u.excused = o.excused
  BY <1>2, <1>6, <1>7, OutcomesFields
<1>10. Known(d)
  BY <1>7
<1> HIDE DEF d, e
<1>11. /\ e \in [Slots -> LocalRow] /\ Known(e) /\ OnlyOf({c.id}, d, e)
       /\ \A s \in Slots : d[s].exists /\ d[s].isDirty /\ e[s].exists /\ e[s] # d[s] =>
            ServerWins(EntityOf[c.id], d[s], c)
  <2>1. CASE e = d
    BY <1>8, <1>10, <2>1 DEF OnlyOf, d
  <2>2. ASSUME NEW found \in {Copies(d, c.id), {}}, e \in Applied(d, c, found)
        PROVE  <1>11!:
    BY <1>2, <1>8, <1>10, <2>2, AppliedFields DEF d
  <2> QED BY <1>9, <2>1, <2>2
<1>12. \A s \in Slots : \/ e[s] = d[s]
                        \/ /\ d[s].exists => d[s].remoteId = c.id
                           /\ e[s].exists => e[s].remoteId = c.id
  BY <1>11 DEF OnlyOf
<1>13. u \in Outcome /\ doubled \subseteq u.doubled /\ o.doubled \subseteq u.doubled
       /\ o.excused \ {c.id} \subseteq u.excused /\ u.excused \subseteq o.excused \cup {c.id}
  BY <1>7, <1>9
<1>14. \A r \in Rows \ {c.id} : /\ Copies(e, r) = Copies(d, r)
                                /\ \A s \in Copies(d, r) : e[s] = d[s]
  BY <1>12 DEF Copies
<1>15. \A r \in Rows \ u.doubled : Single(e, r)
  <2>1. TAKE r \in Rows \ u.doubled
  <2>2. Single(d, r)
    BY <1>7, <1>13 DEF d
  <2>3. CASE r # c.id
    BY <1>14, <2>2, <2>3 DEF Single
  <2>4. CASE r = c.id
    <3>1. e = d \/ e \in Applied(d, c, Copies(d, c.id))
      BY <1>9, <2>1, <2>4
    <3>2. CASE e = d
      BY <2>2, <3>2
    <3>3. CASE e \in Applied(d, c, Copies(d, c.id))
      BY <1>2, <1>8, <1>10, <2>2, <2>4, <3>3, AppliedFields DEF d
    <3> QED BY <3>1, <3>2, <3>3
  <2> QED BY <2>3, <2>4
<1>16. OnlyOf(Met(k), device, e)
  <2>1. ASSUME NEW s \in Slots, e[s] # device[s]
        PROVE  /\ device[s].exists => device[s].remoteId \in R \cup {c.id}
               /\ e[s].exists => e[s].remoteId \in R \cup {c.id}
    <3>1. \/ d[s] = device[s]
          \/ /\ device[s].exists => device[s].remoteId \in R
             /\ d[s].exists => d[s].remoteId \in R
      BY <1>7 DEF OnlyOf, d
    <3> QED BY <1>12, <2>1, <3>1
  <2> QED BY <1>5, <2>1 DEF OnlyOf
<1>17. \A r \in Rows \ Met(k) : r \in u.excused <=> r \in excused
  BY <1>5, <1>7, <1>13
<1>18. ASSUME NEW r \in Met(k) \ (u.excused \cup u.doubled)
       PROVE  Arrived(e, r)
  <2>1. CASE r # c.id
    <3>1. Arrived(d, r) /\ r \in Rows
      BY <1>5, <1>7, <1>13, <1>18, <2>1 DEF d
    <3> QED BY <1>14, <2>1, <3>1 DEF Arrived
  <2>2. CASE r = c.id
    <3>1. /\ e \in Applied(d, c, Copies(d, c.id)) /\ u.doubled = o.doubled
          /\ u.excused = IF server[c.id].updatedAt = c.updated_at THEN o.excused \ {c.id}
                         ELSE o.excused
      BY <1>9, <1>18, <2>2
    <3>2. c.updated_at = server[c.id].updatedAt
      <4>1. SUFFICES ASSUME c.updated_at # server[c.id].updatedAt PROVE FALSE
        OBVIOUS
      <4>2. c.id \in excused
        BY <1>2, <4>1 DEF TrueChange
      <4>3. c.id \in o.excused
        BY <1>2, <1>4, <1>7, <4>2
      <4> QED BY <1>18, <2>2, <3>1, <4>1, <4>3
    <3>3. c.version = server[c.id].version /\ (c.action = "delete" <=> ~server[c.id].exists)
      BY <1>2, <3>2 DEF TrueChange
    <3>4. Single(d, c.id)
      BY <1>2, <1>7, <1>18, <2>2, <3>1 DEF d
    <3>5. IF c.action = "delete" THEN Copies(e, c.id) = {}
          ELSE \E s \in Copies(e, c.id) :
                 \/ e[s].version = c.version
                 \/ e[s].isDirty /\ ~ServerWins(EntityOf[c.id], e[s], c)
      BY <1>2, <1>8, <1>10, <3>1, <3>4, AppliedFields DEF d
    <3>6. CASE c.action = "delete"
      BY <2>2, <3>3, <3>5, <3>6 DEF Arrived
    <3>7. CASE c.action # "delete"
      <4>1. PICK s \in Copies(e, c.id) : \/ e[s].version = c.version
                                         \/ e[s].isDirty /\ ~ServerWins(EntityOf[c.id], e[s], c)
        BY <3>5, <3>7
      <4>2. CASE e[s].version = c.version
        BY <2>2, <3>3, <3>7, <4>1, <4>2 DEF Arrived
      <4>3. CASE e[s].isDirty /\ ~ServerWins(EntityOf[c.id], e[s], c)
        <5>1. Strategy[EntityOf[c.id]] \in {"server-wins", "client-wins", "last-write-wins"}
          BY <1>2, PullAssumption
        <5>2. e[s].version \in Nat
          BY <1>11, <4>1 DEF Copies, LocalRow
        <5>3. \/ Strategy[EntityOf[c.id]] = "client-wins"
              \/ Strategy[EntityOf[c.id]] = "last-write-wins"
                 /\ e[s].version >= server[c.id].updatedAt
          BY <1>2, <3>2, <4>3, <5>1, <5>2 DEF ServerWins
        <5> QED BY <2>2, <3>3, <3>7, <4>1, <4>3, <5>3 DEF Arrived
      <4> QED BY <4>1, <4>2, <4>3
    <3> QED BY <3>6, <3>7
  <2> QED BY <2>1, <2>2
<1>19. ASSUME NEW s \in unsent, e[s].exists, e[s].remoteId = device[s].remoteId,
              e[s].version # device[s].version
       PROVE  Preferred(s)
  <2>1. /\ s \in Slots /\ device[s].exists /\ device[s].isDirty
        /\ device[s].remoteId \in Rows /\ device[s].version \in Nat
    BY <1>1, Fields DEF TypeOK, CopyInv, Live
  <2>2. CASE e[s] = d[s]
    BY <1>7, <1>19, <2>2 DEF d
  <2>3. CASE e[s] # d[s]
    <3>1. device[s].remoteId = c.id
      BY <1>12, <1>19, <2>1, <2>3
    <3>2. d[s] = device[s]
      BY <1>4, <1>7, <2>1, <3>1 DEF OnlyOf, d
    <3>3. ServerWins(EntityOf[c.id], device[s], c)
      BY <1>11, <1>19, <2>1, <2>3, <3>2
    <3>4. c.updated_at <= server[c.id].updatedAt /\ server[c.id].updatedAt \in Nat
      BY <1>1, <1>2, Fields DEF TrueChange
    <3>5. \/ Strategy[EntityOf[c.id]] = "server-wins"
          \/ Strategy[EntityOf[c.id]] = "last-write-wins"
             /\ device[s].version < server[c.id].updatedAt
      BY <1>2, <2>1, <3>3, <3>4 DEF ServerWins
    <3> QED BY <3>1, <3>5 DEF Preferred
  <2> QED BY <2>2, <2>3
<1> QED BY <1>11, <1>13, <1>15, <1>16, <1>17, <1>18, <1>19 DEF PageInv, e

\* The outcomes of a page are defined, and each is one of a sequence of steps:
\* were there a change for which it is not so, consider the first.
LEMMA PageHolds ==
  ASSUME IInv, NEW n \in 0 .. Len(pull.changes)
  PROVE  \A o \in PageOutcomes(n) : PageInv(o, n)
<1> DEFINE start == [device |-> device, doubled |-> doubled, excused |-> excused]
           After(O, k) == UNION {Outcomes(o, pull.changes[k]) : o \in O}
           Is(f, m) == f = [k \in 0 .. m |-> IF k = 0 THEN {start} ELSE After(f[k - 1], k)]
           Bad == {m \in 0 .. n : ~ \E f : Is(f, m)}
           upTo == CHOOSE f : Is(f, n)
           Odd == {m \in 0 .. n : ~ \A o \in upTo[m] : PageInv(o, m)}
<1>1. TypeOK /\ CopyInv
  BY DEF IInv
<1>2. n \in Nat /\ \A k \in 1 .. n : k \in DOMAIN pull.changes
  BY <1>1, PullFields, LenProperties DEF TypeOK
<1>3. PageOutcomes(n) = upTo[n]
  BY DEF PageOutcomes
<1>4. PageInv(start, 0)
  <2>1. start \in Outcome /\ start.device = device /\ start.doubled = doubled
        /\ start.excused = excused
    BY <1>1 DEF Outcome, TypeOK
  <2> HIDE DEF start
  <2>2. \A r \in Rows \ doubled : Single(device, r)
    BY <1>1 DEF CopyInv, CopiesOf, Live, Single, Copies
  <2>3. Known(device)
    BY <1>1 DEF CopyInv, Live, Known
  <2>4. Met(0) = {}
    BY DEF Met
  <2> QED BY <2>1, <2>2, <2>3, <2>4 DEF PageInv, OnlyOf
<1> HIDE DEF start, After
<1>5. Bad = {}
  <2>1. SUFFICES ASSUME Bad # {} PROVE FALSE
    OBVIOUS
  <2>2. PICK m \in Bad : \A k \in Bad : m <= k
    <3>1. Bad \in SUBSET Nat
      BY <1>2
    <3> HIDE DEF Bad
    <3> QED BY <2>1, <3>1, Least
  <2>3. m \in 0 .. n /\ ~ \E f : Is(f, m)
    BY <2>2
  <2>4. m # 0
    <3>1. SUFFICES ASSUME m = 0 PROVE FALSE
      OBVIOUS
    <3> DEFINE f == [k \in 0 .. 0 |-> {start}]
    <3>2. Is(f, 0)
      OBVIOUS
    <3> QED BY <2>3, <3>1, <3>2
  <2>5. m - 1 \in 0 .. n /\ m - 1 \notin Bad
    <3>1. m - 1 \in 0 .. n /\ ~(m <= m - 1)
      BY <1>2, <2>3, <2>4
    <3> HIDE DEF Bad
    <3> QED BY <2>2, <3>1
  <2>6. PICK g : Is(g, m - 1)
    BY <2>5
  <2> DEFINE h == [k \in 0 .. m |-> IF k = m THEN After(g[m - 1], m) ELSE g[k]]
  <2>7. \A k \in 0 .. m - 1 : /\ k \in 0 .. m /\ k # m
                              /\ g[k] = IF k = 0 THEN {start} ELSE After(g[k - 1], k)
    <3> DEFINE I == 0 .. m - 1
    <3>1. \A k \in I : k \in 0 .. m /\ k # m
      BY <1>2, <2>3
    <3>2. g = [k \in I |-> IF k = 0 THEN {start} ELSE After(g[k - 1], k)]
      BY <2>6
    <3> HIDE DEF I, Is
    <3>3. \A k \in I : g[k] = IF k = 0 THEN {start} ELSE After(g[k - 1], k)
      BY <3>2
    <3> QED BY <3>1, <3>3 DEF I
  <2>8. \A k \in 0 .. m : h[k] = IF k = 0 THEN {start} ELSE After(h[k - 1], k)
    <3>1. TAKE k \in 0 .. m
    <3>2. k # 0 => k - 1 \in 0 .. m - 1 /\ h[k - 1] = g[k - 1]
      BY <1>2, <2>3, <2>7
    <3>3. CASE k = m
      <4>1. h[k] = After(g[k - 1], k)
        BY <3>3
      <4> QED BY <2>4, <3>2, <3>3, <4>1
    <3>4. CASE k # m
      <4>1. k \in 0 .. m - 1 /\ h[k] = g[k]
        BY <1>2, <2>3, <3>4
      <4> QED BY <2>7, <3>2, <4>1
    <3> QED BY <3>3, <3>4
  <2>9. Is(h, m)
    <3>1. h = [k \in 0 .. m |-> h[k]]
      OBVIOUS
    <3> HIDE DEF h
    <3> QED BY <2>8, <3>1
  <2> HIDE DEF h
  <2> QED BY <2>3, <2>9
<1>6. Is(upTo, n)
  <2> HIDE DEF Is
  <2>1. n \in 0 .. n
    BY <1>2
  <2>2. \E f : Is(f, n)
    BY <1>5, <2>1
  <2> QED BY <2>2
<1> HIDE DEF upTo
<1>7. \A k \in 0 .. n : upTo[k] = IF k = 0 THEN {start} ELSE After(upTo[k - 1], k)
  BY <1>6
<1>8. Odd = {}
  <2>1. SUFFICES ASSUME Odd # {} PROVE FALSE
    OBVIOUS
  <2>2. PICK m \in Odd : \A k \in Odd : m <= k
    <3>1. Odd \in SUBSET Nat
      BY <1>2
    <3> HIDE DEF Odd
    <3> QED BY <2>1, <3>1, Least
  <2>3. m \in 0 .. n
    BY <2>2
  <2>4. PICK u \in upTo[m] : ~PageInv(u, m)
    BY <2>2
  <2>5. CASE m = 0
    <3>1. upTo[0] = {start}
      BY <1>2, <1>7
    <3> QED BY <1>4, <2>4, <2>5, <3>1
  <2>6. CASE m # 0
    <3>1. m - 1 \in 0 .. n /\ m \in DOMAIN pull.changes /\ ~(m <= m - 1)
      BY <1>2, <2>3, <2>6
    <3>2. m - 1 \notin Odd
      <4> HIDE DEF Odd
      <4> QED BY <2>2, <3>1
    <3>3. \A o \in upTo[m - 1] : PageInv(o, m - 1)
      BY <3>1, <3>2
    <3>4. upTo[m] = After(upTo[m - 1], m)
      BY <1>7, <2>3, <2>6
    <3>5. PICK o \in upTo[m - 1] : u \in Outcomes(o, pull.changes[m])
      BY <2>4, <3>4 DEF After
    <3>6. PageInv(o, m - 1)
      BY <3>3, <3>5
    <3> QED BY <2>4, <3>1, <3>5, <3>6, PageStep
  <2> QED BY <2>5, <2>6
<1>9. \A o \in upTo[n] : PageInv(o, n)
  BY <1>2, <1>8
<1> QED BY <1>3, <1>9

\* What the first changes of a page make of the local records and the history.
LEMMA ReachedFields ==
  ASSUME IInv, NEW n \in 0 .. Len(pull.changes), NEW missed \in SUBSET Rows, Reached(n, missed)
  PROVE  /\ device' \in [Slots -> LocalRow] /\ doubled' \subseteq Rows /\ excused' \subseteq Rows
         /\ doubled \subseteq doubled' /\ missed \subseteq excused' /\ Known(device')
         /\ \A r \in Rows \ doubled' : Single(device', r)
         /\ OnlyOf(Met(n), device, device')
         /\ \A r \in Rows \ Met(n) : r \in excused => r \in excused'
         /\ \A r \in Met(n) \ (excused' \cup doubled') : Arrived(device', r)
         /\ unsent' = {s \in unsent : device'[s] = device[s]}
         /\ \A s \in unsent :
              device'[s].exists /\ device'[s].remoteId = device[s].remoteId
                  /\ device'[s].version # device[s].version
                => Preferred(s)
<1>1. PICK o \in PageOutcomes(n) : /\ device' = o.device /\ doubled' = o.doubled
                                   /\ excused' = o.excused \cup missed
  BY DEF Reached
<1>2. PageInv(o, n)
  BY <1>1, PageHolds
<1>3. o \in Outcome
  BY <1>2 DEF PageInv
<1>4. /\ o.device \in [Slots -> LocalRow] /\ o.doubled \subseteq Rows /\ o.excused \subseteq Rows
  BY <1>3, OutcomeFields
<1>5. unsent' = {s \in unsent : device'[s] = device[s]}
  BY DEF Reached
<1> QED BY <1>1, <1>2, <1>4, <1>5 DEF PageInv

\* The invariant on the local records is kept.
LEMMA CopiesStay ==
  ASSUME IInv, NEW n \in 0 .. Len(pull.changes), NEW missed \in SUBSET Rows, Reached(n, missed),
         UNCHANGED server
  PROVE  CopyInv'
<1>1. TypeOK /\ CopyInv /\ ChangesInv
  BY DEF IInv
<1>2. \A r \in Rows \ doubled' : \A s, t \in CopiesOf(r)' : s = t
  BY ReachedFields DEF Single, Copies, CopiesOf, Live
<1>3. \A s \in Slots : Live(s)' => device'[s].remoteId \in Rows
  BY ReachedFields DEF Known, Live
<1>4. \A s \in unsent' : Live(s)' /\ device'[s].isDirty
  BY <1>1, ReachedFields DEF CopyInv, Live
<1>5. ASSUME NEW r \in Rows, server[r].updatedAt = 0
      PROVE  ~server[r].exists /\ CopiesOf(r)' = {}
  <2>1. r \notin Met(n)
    <3>1. SUFFICES ASSUME NEW i \in 1 .. n, pull.changes[i].id = r PROVE FALSE
      BY DEF Met
    <3>2. i \in DOMAIN pull.changes
      BY <1>1, PullFields, LenProperties DEF TypeOK
    <3> QED BY <1>1, <1>5, <3>1, <3>2 DEF ChangesInv, TrueChange
  <2>2. ~server[r].exists /\ CopiesOf(r) = {}
    BY <1>1, <1>5 DEF CopyInv
  <2> QED BY <2>1, <2>2, ReachedFields DEF OnlyOf, CopiesOf, Live
<1> QED BY <1>2, <1>3, <1>4, <1>5 DEF CopyInv

LEMMA CrashStep ==
  ASSUME IInv, Crash
  PROVE  IInv'
<1>1. /\ TypeOK /\ ClockInv /\ CopyInv /\ ChangesInv /\ CoverInv
      /\ pull' = NoPull /\ lastSyncAt' = 0
      /\ UNCHANGED <<clock, server, pulls>>
  BY DEF IInv, Crash
<1>2. PICK n \in 0 .. Len(pull.changes) : Reached(n, {})
  BY DEF Crash
<1>3. TypeOK'
  BY <1>1, <1>2, NoPullFields, ReachedFields DEF TypeOK
<1>4. ClockInv'
  <2>1. 0 <= clock
    BY <1>1 DEF TypeOK
  <2> QED BY <1>1, <2>1, NoPullFields, Lengths, PageBound DEF ClockInv
<1>5. CopyInv'
  BY <1>1, <1>2, CopiesStay
<1>6. ChangesInv'
  BY <1>1, NoPullFields, EmptySeq DEF ChangesInv
<1>7. CoverInv'
  <2>1. ASSUME NEW r \in Rows, server'[r].updatedAt <= lastSyncAt' PROVE Covered(r)'
    <3>1. server'[r].updatedAt = 0
      <4>1. server[r].updatedAt \in Nat
        BY <1>1, Fields
      <4> QED BY <1>1, <2>1, <4>1
    <3> QED BY <1>5, <3>1 DEF CopyInv, Covered
  <2> QED BY <1>1, <2>1, NoPullFields DEF CoverInv
<1> QED BY <1>3, <1>4, <1>5, <1>6, <1>7 DEF IInv

LEMMA ApplyStep ==
  ASSUME IInv, ApplyRemoteChanges
  PROVE  IInv'
<1> DEFINE R == Met(Len(pull.changes))
<1>1. /\ TypeOK /\ ClockInv /\ CopyInv /\ ChangesInv /\ CoverInv
      /\ pull.at = "apply" /\ pull' = AfterPage(pull)
      /\ Reached(Len(pull.changes), Beyond)
      /\ UNCHANGED <<clock, server, lastSyncAt, pulls>>
  BY DEF IInv, ApplyRemoteChanges
<1>2. /\ pull \in Pull /\ pull.entity \in DOMAIN Entities /\ pull.page \in Nat \ {0}
      /\ pull.since \in Nat
  BY <1>1, PullFields DEF TypeOK, ClockInv
<1>3. ClockInv' /\ ChangesInv' /\ pull' \in Pull
  BY <1>1, <1>2, PullMovesOn
<1> DEFINE n == Len(pull.changes)
           M == Beyond
<1>10. n \in 0 .. Len(pull.changes) /\ M \in SUBSET Rows /\ Reached(n, M)
  <2>1. Len(pull.changes) \in Nat
    BY <1>2, PullFields, LenProperties
  <2>2. Beyond \subseteq Rows
    BY DEF Beyond
  <2> QED BY <1>1, <2>1, <2>2
<1> HIDE DEF n, M
<1>11. /\ device' \in [Slots -> LocalRow] /\ doubled' \subseteq Rows /\ excused' \subseteq Rows
       /\ doubled \subseteq doubled' /\ M \subseteq excused'
       /\ OnlyOf(Met(n), device, device')
       /\ \A r \in Rows \ Met(n) : r \in excused => r \in excused'
       /\ \A r \in Met(n) \ (excused' \cup doubled') : Arrived(device', r)
       /\ unsent' = {s \in unsent : device'[s] = device[s]}
  BY <1>10, ReachedFields
<1>4. TypeOK'
  BY <1>1, <1>3, <1>11 DEF TypeOK
<1>5. CopyInv'
  BY <1>1, <1>10, CopiesStay
<1>6. R = {pull.changes[k].id : k \in DOMAIN pull.changes}
  <2>1. DOMAIN pull.changes = 1 .. Len(pull.changes)
    BY <1>2, PullFields, LenProperties
  <2> QED BY <2>1 DEF Met
<1> HIDE DEF R
<1>7. ASSUME NEW r \in Rows \ R, r \notin excused' \cup doubled'
      PROVE  /\ Covered(r) => Covered(r)'
             /\ Pending(r) => Pending(r)'
             /\ r \notin excused \cup doubled
  <2>1. \A s \in Slots : (Live(s) /\ device[s].remoteId = r)
                            \/ (device'[s].exists /\ device'[s].remoteId = r) =>
          device'[s] = device[s] /\ (s \in unsent => s \in unsent')
    BY <1>7, <1>11 DEF OnlyOf, Live, R, n
  <2>2. Covered(r) => Covered(r)'
    BY <1>1, <2>1, CoveredStays
  <2>3. ASSUME Pending(r) PROVE Pending(r)'
    <3>1. server[r].updatedAt > pull.since
      BY <2>3 DEF Pending
    <3>2. CASE MorePages(pull)
      <4>1. /\ pull'.at = "fetch" /\ pull'.page = pull.page + 1 /\ pull'.entity = pull.entity
            /\ pull'.since = pull.since
        BY <1>1, <1>2, <3>2, AfterPageFields
      <4>2. All' = All
        BY <1>1, <4>1, AllIsTold
      <4>3. First(pull'.page) = First(pull.page) + PageSize
        BY <1>2, <4>1, Pages
      <4>4. Ahead(r) => Ahead(r)'
        <5>1. SUFFICES ASSUME Ahead(r) PROVE Ahead(r)'
          OBVIOUS
        <5>2. PICK i \in DOMAIN All : All[i].id = r /\ i >= First(pull.page) + PageSize
          BY <1>1, <1>6, <1>7, <5>1 DEF Ahead
        <5>3. i \in DOMAIN All' /\ All'[i].id = r /\ i >= First(pull'.page)
          BY <4>2, <4>3, <5>2
        <5> QED BY <4>1, <5>3 DEF Ahead, First
      <4>5. CASE \E i \in DOMAIN Entities : i > pull.entity /\ Entities[i] = EntityOf[r]
        BY <1>1, <3>1, <4>1, <4>5 DEF Pending
      <4>6. CASE Entities[pull.entity] = EntityOf[r] /\ Ahead(r)
        BY <1>1, <3>1, <4>1, <4>4, <4>6 DEF Pending
      <4> QED BY <2>3, <4>5, <4>6 DEF Pending
    <3>3. CASE ~MorePages(pull)
      <4>1. ~(Entities[pull.entity] = EntityOf[r] /\ Ahead(r))
        <5>1. SUFFICES ASSUME Entities[pull.entity] = EntityOf[r], Ahead(r) PROVE FALSE
          OBVIOUS
        <5>2. pull.hasMore /\ \A k \in DOMAIN pull.changes :
                server[r].updatedAt > pull.changes[k].updated_at
          BY <1>1, <1>6, <1>7, <5>1 DEF Ahead
        <5>3. pull.page = MaxPages
          BY <1>1, <1>2, <3>3, <5>2, PageBound DEF MorePages, ClockInv
        <5>4. r \in M
          BY <1>7, <5>1, <5>2, <5>3 DEF M, Beyond
        <5> QED BY <1>7, <1>11, <5>4
      <4>2. \E i \in DOMAIN Entities : i > pull.entity /\ Entities[i] = EntityOf[r]
        BY <2>3, <4>1 DEF Pending
      <4> QED BY <1>1, <1>2, <1>4, <3>1, <3>3, <4>2, PullMovesOn
    <3> QED BY <3>2, <3>3
  <2>4. r \notin excused \cup doubled
    BY <1>7, <1>11 DEF R, n
  <2> QED BY <2>2, <2>3, <2>4
<1>8. ASSUME NEW r \in Rows \cap R, r \notin excused' \cup doubled'
      PROVE  Covered(r)'
  <2>1. Arrived(device', r)
    BY <1>8, <1>11 DEF R, n
  <2> QED BY <1>1, <2>1 DEF Arrived, Copies, Covered, CopiesOf, Live, Kept
<1>9. CoverInv'
  <2>1. SUFFICES ASSUME NEW r \in Rows, r \notin excused' \cup doubled'
                 PROVE  /\ server[r].updatedAt <= lastSyncAt => Covered(r)'
                        /\ Covered(r)' \/ Pending(r)'
    BY <1>1 DEF CoverInv
  <2>2. CASE r \in R
    BY <1>8, <2>1, <2>2
  <2>3. CASE r \notin R
    <3>1. /\ Covered(r) => Covered(r)'
          /\ Pending(r) => Pending(r)'
          /\ r \notin excused \cup doubled
      BY <1>7, <2>1, <2>3
    <3> QED BY <1>1, <2>1, <3>1 DEF CoverInv
  <2> QED BY <2>2, <2>3
<1> QED BY <1>3, <1>4, <1>5, <1>9 DEF IInv

-----------------------------------------------------------------------------
(* The theorems. *)

LEMMA StartHolds == Init => IInv
<1>1. SUFFICES ASSUME Init PROVE IInv
  OBVIOUS
<1>2. TypeOK
  <2>1. server \in [Rows -> ServerRow]
    BY <1>1 DEF Init, ServerRow
  <2>2. device \in [Slots -> LocalRow]
    BY <1>1 DEF Init, NoRecord, LocalRow
  <2> QED BY <1>1, <2>1, <2>2, NoPullFields DEF Init, TypeOK
<1>3. ClockInv
  BY <1>1, NoPullFields, Lengths, PageBound DEF Init, ClockInv
<1>4. CopyInv
  BY <1>1 DEF Init, CopyInv, CopiesOf, Live, NoRecord
<1>5. ChangesInv
  BY <1>1, NoPullFields, EmptySeq DEF Init, ChangesInv
<1>6. CoverInv
  BY <1>1, NoPullFields DEF Init, CoverInv, Covered, CopiesOf, Live, NoRecord
<1> QED BY <1>2, <1>3, <1>4, <1>5, <1>6 DEF IInv

LEMMA StepHolds == IInv /\ [Next]_vars => IInv'
<1>1. SUFFICES ASSUME IInv, [Next]_vars PROVE IInv'
  OBVIOUS
<1>2. TypeOK /\ clock \in Nat
  BY <1>1 DEF IInv, TypeOK
<1>3. ASSUME NEW r \in Rows, ServerWrite(r) PROVE IInv'
  <2> DEFINE row == [exists |-> TRUE, version |-> clock + 1, updatedAt |-> clock + 1]
  <2>1. row \in ServerRow /\ row.updatedAt = clock + 1
    BY <1>2 DEF ServerRow
  <2>2. /\ Tick /\ WriteServer(r, row)
        /\ UNCHANGED <<device, lastSyncAt, pull, pulls, doubled, unsent>>
    BY <1>3 DEF ServerWrite
  <2> HIDE DEF row
  <2> QED BY <1>1, <2>1, <2>2, ServerStep
<1>4. ASSUME NEW r \in Rows, ServerDelete(r) PROVE IInv'
  <2> DEFINE row == [exists |-> FALSE, version |-> clock + 1, updatedAt |-> clock + 1]
  <2>1. row \in ServerRow /\ row.updatedAt = clock + 1
    BY <1>2 DEF ServerRow
  <2>2. /\ Tick /\ WriteServer(r, row)
        /\ UNCHANGED <<device, lastSyncAt, pull, pulls, doubled, unsent>>
    BY <1>4 DEF ServerDelete
  <2> HIDE DEF row
  <2> QED BY <1>1, <2>1, <2>2, ServerStep
<1>5. ASSUME NEW s \in Slots, PushDelivered(s) PROVE IInv'
  <2> DEFINE r == device[s].remoteId
             row == [exists |-> TRUE, version |-> device[s].version, updatedAt |-> clock + 1]
  <2>1. row \in ServerRow /\ row.updatedAt = clock + 1 /\ r \in Rows
    BY <1>2, <1>5, Fields DEF ServerRow, PushDelivered
  <2>2. /\ Tick /\ WriteServer(r, row) /\ unsent' = unsent \ {s}
        /\ UNCHANGED <<device, lastSyncAt, pull, pulls, doubled>>
    BY <1>5 DEF PushDelivered
  <2>3. unsent' \subseteq unsent /\ \A t \in unsent \ unsent' : device[t].remoteId = r
    BY <2>2
  <2> HIDE DEF row, r
  <2> QED BY <1>1, <2>1, <2>2, <2>3, ServerStep
<1>6. CASE UNCHANGED vars
  <2>1. All' = All
    BY <1>6, AllIsTold DEF vars
  <2>2. TypeOK' /\ ClockInv' /\ CopyInv' /\ ChangesInv'
    BY <1>1, <1>6 DEF IInv, vars, TypeOK, ClockInv, CopyInv, CopiesOf, Live, ChangesInv, TrueChange
  <2>3. \A r \in Rows : Covered(r) => Covered(r)'
    BY <1>6, CoveredStays DEF vars
  <2>4. \A r \in Rows : Pending(r) => Pending(r)'
    BY <1>6, <2>1 DEF vars, Pending, Ahead, First
  <2>5. CoverInv'
    BY <1>1, <1>6, <2>3, <2>4 DEF IInv, vars, CoverInv
  <2> QED BY <2>2, <2>5 DEF IInv
<1> QED BY <1>1, <1>3, <1>4, <1>5, <1>6, UpdateStep, DeleteStep, BeginStep, FetchStep, FailStep,
           ApplyStep, FinishStep, CrashStep DEF Next

\* Every reachable state satisfies the invariant that the other theorems rest on.
THEOREM PullInvariantHolds == Spec => []IInv
BY StartHolds, StepHolds, PTL DEF Spec

\* Rows, local records and the pull keep their types.
THEOREM PullTypeCorrect == Spec => []TypeOK
<1>1. IInv => TypeOK
  BY DEF IInv
<1> QED BY <1>1, PullInvariantHolds, PTL

\* What is older than the watermark has arrived, or something that the model
\* names kept it away.
THEOREM WatermarkIsCovered == Spec => []WatermarkCovers
<1>1. IInv => WatermarkCovers
  BY DEF IInv, CoverInv, Covered, WatermarkCovers
<1> QED BY <1>1, PullInvariantHolds, PTL

\* A row of the server has one local record at the most, unless its lookup has
\* failed.
THEOREM OneCopyEach == Spec => []OneCopy
<1>1. ASSUME IInv PROVE OneCopy
  <2>1. ASSUME NEW r \in Rows \ doubled
        PROVE  Cardinality(CopiesOf(r)) <= 1
    <3>1. \A s, t \in CopiesOf(r) : s = t
      BY <1>1, <2>1 DEF IInv, CopyInv
    <3>2. CASE CopiesOf(r) = {}
      BY <3>2, FS_EmptySet
    <3>3. CASE CopiesOf(r) # {}
      <4>1. PICK s \in CopiesOf(r) : TRUE
        BY <3>3
      <4>2. CopiesOf(r) = {s}
        BY <3>1, <4>1
      <4>3. Cardinality({s}) = 1
        BY FS_Singleton
      <4>4. Cardinality(CopiesOf(r)) = 1
        BY <4>2, <4>3
      <4> QED BY <4>4
    <3> QED BY <3>2, <3>3
  <2> QED BY <2>1 DEF OneCopy
<1>2. IInv => OneCopy
  BY <1>1
<1> QED BY <1>2, PullInvariantHolds, PTL

\* A page only overwrites an edit that the server does not have where the rules
\* for the entity prefer what the server has.
THEOREM EditsAreKept == Spec => EditsKept
<1> DEFINE Keeps ==
      \A s \in unsent \ unsent' :
        LET r == device[s].remoteId
            overwritten == /\ device'[s].exists /\ device'[s].remoteId = r
                           /\ device'[s].version # device[s].version
        IN  overwritten => \/ Strategy[EntityOf[r]] = "server-wins"
                           \/ /\ Strategy[EntityOf[r]] = "last-write-wins"
                              /\ device[s].version < server[r].updatedAt
<1>1. ASSUME IInv, [Next]_vars PROVE Keeps
  <2>1. SUFFICES ASSUME NEW s \in unsent, s \notin unsent', device'[s].exists,
                        device'[s].remoteId = device[s].remoteId,
                        device'[s].version # device[s].version
                 PROVE  Preferred(s)
    BY DEF Preferred
  <2>2. \/ \E t \in Slots : TrackedDelete(t)
        \/ ApplyRemoteChanges \/ Crash
        \/ UNCHANGED device
        \/ unsent \subseteq unsent'
    BY <1>1 DEF Next, vars, ServerWrite, ServerDelete, TrackedUpdate, PushDelivered, PullChanges,
                FetchPage, EntityFails, FinishSync
  <2>3. ASSUME NEW t \in Slots, TrackedDelete(t) PROVE FALSE
    <3>1. device \in [Slots -> LocalRow] /\ s \in Slots
      BY <1>1, <2>1 DEF IInv, TypeOK
    <3>2. device' = [device EXCEPT ![t] = NoRecord] /\ unsent' = unsent \ {t}
      BY <2>3 DEF TrackedDelete
    <3>3. s = t /\ device'[s] = NoRecord
      BY <2>1, <3>1, <3>2
    <3> QED BY <2>1, <3>3 DEF NoRecord
  <2>4. CASE ApplyRemoteChanges
    <3> DEFINE n == Len(pull.changes)
               M == Beyond
    <3>1. n \in 0 .. Len(pull.changes) /\ M \in SUBSET Rows /\ Reached(n, M)
      <4>1. Len(pull.changes) \in Nat
        BY <1>1, PullFields, LenProperties DEF IInv, TypeOK
      <4>2. Beyond \subseteq Rows
        BY DEF Beyond
      <4> QED BY <2>4, <4>1, <4>2 DEF ApplyRemoteChanges
    <3> HIDE DEF n, M
    <3> QED BY <1>1, <2>1, <3>1, ReachedFields
  <2>5. CASE Crash
    <3>1. PICK n \in 0 .. Len(pull.changes) : Reached(n, {})
      BY <2>5 DEF Crash
    <3> QED BY <1>1, <2>1, <3>1, ReachedFields
  <2> QED BY <2>1, <2>2, <2>3, <2>4, <2>5
<1>2. IInv /\ [Next]_vars => [Keeps]_vars
  BY <1>1
<1> HIDE DEF Keeps
<1>3. Spec => [][Keeps]_vars
  BY <1>2, PullInvariantHolds, PTL DEF Spec
<1> USE DEF Keeps
<1> QED BY <1>3 DEF EditsKept
=============================================================================
