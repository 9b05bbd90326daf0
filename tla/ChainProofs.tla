---------------------------- MODULE ChainProofs ----------------------------
(***************************************************************************)
(* Theorems about AuditChain, for any processes, whatever each of them     *)
(* calls, and any numbers of rows and anchors.                             *)
(*                                                                         *)
(* What is promised of the rows depends on what each process believes      *)
(* before it writes one: the anchor and the last hash it has cached, and   *)
(* what the write it is in has read.  The invariant says of every process  *)
(* what its cache and its write may hold, compared with the rows it wrote  *)
(* itself; those of other processes it may have missed.                    *)
(***************************************************************************)
EXTENDS AuditChain, FiniteSetTheorems, SequenceTheorems, TLAPS

\* A write past its choice of an anchor.
Writing == {"findV22", "maxId", "openV22", "refill", "tail", "insert"}

\* Hashed rows of process p, outside a rollback's window.
Own(r, p) == r.hashed /\ r.by = p /\ ~r.window

\* The database was migrated: its first anchor is the one of the old chain.
Migrated == Exists(1) /\ anchors[1].reason = "legacy"

\* No anchor starts or was opened after the last id, and only the first one can be the
\* old chain's.
AnchorFacts ==
  /\ \A a \in 1..Latest :
       /\ anchors[a].start <= lastId /\ anchors[a].at <= lastId
       /\ anchors[a].reason = "legacy" => a = 1 /\ anchors[a].by = Nobody

\* A row was hashed in the shape of its anchor, or by an earlier release under an anchor
\* that was not renamed, and chained to a row before it.
RowFacts ==
  /\ \A r \in rows : r.hashed => r.v22 = ShapeOf(r.anchor) \/ Unrenamed(r)
  /\ \A r \in rows : r.hashed /\ ~r.window => r.anchor <= Latest
  /\ \A r \in rows : r.prev < r.id \/ (r.prev = Lost /\ r.window)

\* The anchor a write of p has chosen, in what shape, and where from.
Chosen(p) ==
  /\ doing[p].n <= lastId
  /\ doing[p].at \in Writing => doing[p].anchor # NoAnchor /\ doing[p].v22 = ShapeOf(doing[p].anchor)
  /\ doing[p].at = "open" => cache[p].anchor = NoAnchor
  /\ doing[p].at \in {"findV22", "maxId", "openV22"} =>
       Migrated /\ cache[p].anchor = 1 /\ doing[p].anchor = 1
  /\ doing[p].at = "refill" => Migrated /\ Latest >= 2
  /\ doing[p].at \in {"tail", "insert"} /\ cache[p].anchor = NoAnchor => doing[p].anchor = None
  /\ doing[p].at = "idle" => doing[p] = Idle

\* Outside a window what p holds was committed.
Committed(p) ==
  /\ ~aborting[p] => cache[p].anchor <= Latest /\ doing[p].anchor <= Latest
  /\ cache[p].tail <= lastId \/ (cache[p].tail = Lost /\ aborting[p])
  /\ doing[p].prev <= lastId \/ (doing[p].prev = Lost /\ aborting[p])

\* No row of p is newer than the hash p takes for the last one of its anchor.
OwnTail(p) ==
  /\ cache[p].tail # None =>
       \A r \in rows : Own(r, p) /\ r.anchor = cache[p].anchor => r.id <= cache[p].tail
  /\ doing[p].at = "insert" =>
       \A r \in rows : Own(r, p) /\ r.anchor = doing[p].anchor => r.id <= doing[p].prev
  /\ doing[p].at = "tail" /\ cache[p].anchor # doing[p].anchor =>
       \A r \in rows : Own(r, p) => r.anchor # cache[p].anchor

\* A process that found no anchor, or is still on the one of the old chain, has no rows
\* under a later one.
Unanchored(p) ==
  \/ cache[p].anchor = None
  \/ cache[p].anchor = NoAnchor /\ cache[p].tail # None
  \/ doing[p].at = "open"
  \/ doing[p].at \in Writing /\ doing[p].anchor = None

OnOldChain(p) ==
  /\ Migrated
  /\ \/ cache[p].anchor = 1
     \/ doing[p].at \in {"findV22", "maxId", "openV22", "refill"}
     \/ doing[p].at \in Writing /\ doing[p].anchor = 1

OwnRows(p) ==
  /\ Unanchored(p) => \A r \in rows : Own(r, p) => r.anchor = None
  /\ OnOldChain(p) => \A r \in rows : Own(r, p) => r.anchor <= 1

\* Nor is an anchor that p opened later than the one it writes under.
OwnAnchors(p) ==
  /\ cache[p].anchor # NoAnchor /\ doing[p].at # "refill" =>
       \A a \in 1..Latest : anchors[a].by = p => a <= cache[p].anchor
  /\ doing[p].at = "open" => \A a \in 1..Latest : anchors[a].by # p
  /\ doing[p].at \in {"refill", "tail", "insert"} =>
       \A a \in 1..Latest : anchors[a].by = p => a <= doing[p].anchor

Believes(p) == Chosen(p) /\ Committed(p) /\ OwnTail(p) /\ OwnRows(p) /\ OwnAnchors(p)

ChainInvariant ==
  /\ ChainTypeOK /\ AnchorFacts /\ RowFacts
  /\ EveryRowIsWalked /\ ForksTakeTwoWriters /\ OwnAnchorIsFollowed
  /\ \A p \in Processes : Believes(p)

-----------------------------------------------------------------------------
\* The bounds.
LEMMA Bounds ==
  /\ MaxRows \in Nat /\ MaxAnchors \in Nat /\ MaxAnchors > 0 /\ Lost = MaxRows + 1
  /\ NoAnchor = -1 /\ None = 0 /\ Nobody \notin Processes
BY ChainAssumption DEF Lost, NoAnchor, None

\* A bounded set of numbers has a last one.
LEMMA LastOne ==
  ASSUME NEW S \in SUBSET Nat, NEW n \in Nat, \A x \in S : x <= n, S # {}
  PROVE  \E m \in S : \A x \in S : x <= m
<1> SUFFICES ASSUME \A m \in S : \E x \in S : x > m PROVE FALSE
  OBVIOUS
<1> DEFINE Above(x) == {y \in S : y > x}
           k == Cardinality(S)
           f == [x \in S |-> Cardinality(Above(x))]
<1>1. IsFiniteSet(S) /\ k \in Nat
  BY FS_BoundedSetOfNaturals, FS_CardinalityType
<1>2. \A x \in S : /\ IsFiniteSet(Above(x)) /\ Cardinality(Above(x)) \in Nat
                   /\ Cardinality(Above(x)) < k /\ Cardinality(Above(x)) > 0
  <2> TAKE x \in S
  <2>1. Above(x) \in SUBSET S /\ x \in S \ Above(x)
    OBVIOUS
  <2> HIDE DEF Above
  <2>2. IsFiniteSet(Above(x)) /\ Cardinality(Above(x)) \in Nat
    BY <1>1, <2>1, FS_Subset, FS_CardinalityType
  <2>3. Cardinality(Above(x)) <= k /\ Cardinality(Above(x)) # k
    BY <1>1, <2>1, FS_Subset
  <2>4. Above(x) # {}
    BY DEF Above
  <2>5. Cardinality(Above(x)) # 0
    BY <2>2, <2>4, FS_EmptySet
  <2> QED BY <1>1, <2>2, <2>3, <2>5
<1>3. \A x, y \in S : x < y => Cardinality(Above(y)) < Cardinality(Above(x))
  <2> TAKE x, y \in S
  <2> HAVE x < y
  <2>1. (\A z \in S : z > y => z > x) /\ y > x /\ ~(y > y)
    OBVIOUS
  <2>2. Above(y) \in SUBSET Above(x) /\ y \in Above(x) /\ y \notin Above(y)
    BY <2>1
  <2> HIDE DEF Above
  <2>3. Cardinality(Above(y)) <= Cardinality(Above(x)) /\ Cardinality(Above(y)) # Cardinality(Above(x))
    BY <1>2, <2>2, FS_Subset
  <2> QED BY <1>2, <2>3
<1>4. f \in [S -> 1..(k - 1)]
  BY <1>1, <1>2
<1>5. IsFiniteSet(1..(k - 1)) /\ Cardinality(1..(k - 1)) < k
  <2>1. S # {} /\ k # 0
    BY <1>1, FS_EmptySet
  <2>2. IsFiniteSet(1..(k - 1)) /\ Cardinality(1..(k - 1)) = IF 1 > k - 1 THEN 0 ELSE k - 1 - 1 + 1
    BY <1>1, FS_Interval
  <2> QED BY <1>1, <2>1, <2>2
<1>6. PICK x, y \in S : x # y /\ f[x] = f[y]
  <2> HIDE DEF f
  <2> QED BY <1>1, <1>4, <1>5, FS_PigeonHole
<1>7. x < y \/ y < x
  BY <1>6
<1>8. Cardinality(Above(x)) = Cardinality(Above(y))
  BY <1>6
<1> HIDE DEF Above, f, k
<1> QED BY <1>2, <1>3, <1>7, <1>8

\* The types of one row, one cache and one write.
LEMMA TypeFacts ==
  ASSUME ChainTypeOK
  PROVE  /\ lastId \in Nat /\ lastId <= MaxRows
         /\ anchors \in Seq(Anchor) /\ Latest \in Nat /\ Latest <= MaxAnchors
         /\ \A a \in 1..Latest : anchors[a] \in Anchor
         /\ \A r \in rows :
              /\ r \in Row /\ r.id \in Nat \ {0} /\ r.id <= lastId
              /\ r.anchor \in Nat /\ r.prev \in Nat
         /\ \A p \in Processes :
              /\ cache[p].anchor \in NoAnchor..MaxAnchors /\ cache[p].tail \in 0..Lost
              /\ cache[p].anchor \in Int /\ cache[p].tail \in Nat
              /\ doing[p] \in Job /\ aborting[p] \in BOOLEAN
<1>1. anchors \in Seq(Anchor) /\ Latest \in Nat /\ \A a \in 1..Latest : anchors[a] \in Anchor
  BY ElementOfSeq, LenProperties DEF ChainTypeOK, Latest
<1>2. \A r \in rows :
        /\ r \in Row /\ r.id \in Nat \ {0} /\ r.id <= lastId
        /\ r.anchor \in Nat /\ r.prev \in Nat
  BY Bounds DEF ChainTypeOK, Row
<1>3. \A p \in Processes :
        /\ cache[p].anchor \in NoAnchor..MaxAnchors /\ cache[p].tail \in 0..Lost
        /\ cache[p].anchor \in Int /\ cache[p].tail \in Nat
  BY Bounds DEF ChainTypeOK
<1>4. \A p \in Processes : doing[p] \in Job /\ aborting[p] \in BOOLEAN
  BY DEF ChainTypeOK
<1>5. lastId \in Nat /\ lastId <= MaxRows /\ Latest <= MaxAnchors
  BY Bounds DEF ChainTypeOK
<1> QED BY <1>1, <1>2, <1>3, <1>4, <1>5

\* The fields of a write.
LEMMA JobFacts ==
  ASSUME ChainTypeOK, NEW p \in Processes
  PROVE  /\ doing[p].at \in Places /\ doing[p].anchor \in Int
         /\ doing[p].anchor \in NoAnchor..MaxAnchors
         /\ doing[p].v22 \in BOOLEAN /\ doing[p].prev \in Nat /\ doing[p].prev \in 0..Lost
         /\ doing[p].n \in Nat /\ doing[p].n \in 0..MaxRows
<1>1. doing[p] \in Job
  BY TypeFacts
<1> QED BY <1>1, Bounds DEF Job

\* What the reads of the table return.
LEMMA MaxIdFacts ==
  ASSUME ChainTypeOK
  PROVE  MaxId \in Nat /\ MaxId <= lastId
<1>1. lastId \in Nat /\ \A r \in rows : r.id \in Nat /\ r.id <= lastId
  BY TypeFacts
<1>2. CASE rows = {}
  BY <1>1, <1>2 DEF MaxId
<1>3. CASE rows # {}
  <2> DEFINE S == {r.id : r \in rows}
  <2>1. S \in SUBSET Nat /\ S # {} /\ \A x \in S : x <= lastId
    BY <1>1, <1>3
  <2>2. \E m \in S : \A x \in S : x <= m
    <3> HIDE DEF S
    <3> QED BY <1>1, <2>1, LastOne
  <2>3. \E m \in S : \A r \in rows : r.id <= m
    BY <2>2
  <2>4. MaxId \in S
    BY <1>3, <2>3 DEF MaxId
  <2> QED BY <2>1, <2>4
<1> QED BY <1>2, <1>3

LEMMA StoredTailFacts ==
  ASSUME ChainTypeOK, NEW a
  PROVE  /\ StoredTail(a) \in Nat /\ StoredTail(a) <= lastId
         /\ \A r \in rows : r.hashed /\ r.anchor = a => r.id <= StoredTail(a)
<1> DEFINE H == HashedUnder(a)
<1>1. /\ lastId \in Nat /\ \A r \in rows : r.id \in Nat /\ r.id <= lastId
      /\ H = {r \in rows : r.hashed /\ r.anchor = a}
  BY TypeFacts DEF HashedUnder
<1> HIDE DEF H
<1>2. CASE H = {}
  BY <1>1, <1>2 DEF StoredTail, H, None
<1>3. CASE H # {}
  <2> DEFINE S == {r.id : r \in H}
  <2>1. S \in SUBSET Nat /\ S # {} /\ \A x \in S : x <= lastId
    BY <1>1, <1>3
  <2>2. \E m \in S : \A x \in S : x <= m
    <3> HIDE DEF S
    <3> QED BY <1>1, <2>1, LastOne
  <2>3. \E r \in H : \A s \in H : s.id <= r.id
    BY <2>2
  <2> DEFINE t == CHOOSE r \in H : \A s \in H : s.id <= r.id
  <2>4. t \in H /\ \A s \in H : s.id <= t.id
    BY <2>3
  <2>5. StoredTail(a) = t.id
    BY <1>3 DEF StoredTail, H
  <2> HIDE DEF t
  <2> QED BY <1>1, <2>4, <2>5
<1> QED BY <1>2, <1>3

-----------------------------------------------------------------------------
\* Anchors are only ever added, none of them of the old chain, and start behind no row.
AnchorsGrow ==
  /\ anchors' \in Seq(Anchor) /\ Latest' \in Nat /\ Latest <= Latest' /\ Latest' <= MaxAnchors
  /\ \A a \in 1..Latest : anchors'[a] = anchors[a]
  /\ \A a \in 1..Latest' : a > Latest =>
       /\ anchors'[a].reason # "legacy"
       /\ anchors'[a].start <= lastId /\ anchors'[a].at = lastId

\* An anchor is opened.
LEMMA Opening ==
  ASSUME ChainTypeOK, ~AfterMaxAnchors,
         NEW reason \in Reasons \ {"legacy"}, NEW start \in Nat, start <= lastId, NEW p \in Processes,
         anchors' = Opened(reason, start, p)
  PROVE  /\ AnchorsGrow /\ Latest' = Latest + 1
         /\ anchors'[Latest + 1].by = p /\ anchors'[Latest + 1].reason = reason
         /\ anchors'[Latest + 1].start = start
<1> DEFINE x == [reason |-> reason, start |-> start, by |-> p, at |-> lastId]
<1>1. /\ anchors \in Seq(Anchor) /\ Latest \in Nat /\ Latest <= MaxAnchors
      /\ lastId \in Nat /\ lastId <= MaxRows /\ MaxRows \in Nat /\ MaxAnchors \in Nat
  BY TypeFacts, Bounds
<1>2. x \in Anchor
  BY <1>1 DEF Anchor
<1>3. /\ x.reason = reason /\ x.by = p /\ x.start = start /\ x.at = lastId
  OBVIOUS
<1>4. anchors' = Append(anchors, x)
  BY DEF Opened
<1> HIDE DEF x
<1>5. /\ anchors' \in Seq(Anchor) /\ Len(anchors') = Len(anchors) + 1
      /\ \A a \in 1..Len(anchors) : anchors'[a] = anchors[a]
      /\ anchors'[Len(anchors) + 1] = x
  BY <1>1, <1>2, <1>4, AppendProperties
<1>6. Latest' = Latest + 1 /\ Latest # MaxAnchors
  BY <1>5 DEF Latest, AfterMaxAnchors
<1>7. \A a \in 1..Latest' : a > Latest => anchors'[a] = x
  BY <1>1, <1>5, <1>6 DEF Latest
<1> QED BY <1>1, <1>3, <1>5, <1>6, <1>7 DEF AnchorsGrow, Latest

\* None is.
LEMMA NotOpening ==
  ASSUME ChainTypeOK, UNCHANGED anchors
  PROVE  AnchorsGrow /\ Latest' = Latest
<1>1. /\ anchors \in Seq(Anchor) /\ Latest \in Nat /\ Latest <= MaxAnchors
  BY TypeFacts
<1>2. Latest' = Latest
  BY DEF Latest
<1> QED BY <1>1, <1>2 DEF AnchorsGrow

\* So writer and verifier choose columns for an anchor once and for all.
LEMMA ShapesStay ==
  ASSUME ChainTypeOK, AnchorsGrow
  PROVE  /\ \A a : Exists(a) => Exists(a)'
         /\ \A a : ShapeOf(a)' = ShapeOf(a)
         /\ Migrated' = Migrated
<1>1. Latest \in Nat /\ Latest' \in Nat /\ Latest <= Latest'
  BY TypeFacts DEF AnchorsGrow
<1>2. \A a : Exists(a) => Exists(a)' /\ anchors'[a] = anchors[a]
  BY <1>1 DEF Exists, AnchorsGrow
<1>3. \A a : Exists(a)' /\ ~Exists(a) => anchors'[a].reason # "legacy"
  BY <1>1 DEF Exists, AnchorsGrow
<1>4. ASSUME NEW a PROVE ShapeOf(a)' = ShapeOf(a)
  BY <1>2, <1>3 DEF ShapeOf
<1>5. Migrated' = Migrated
  BY <1>2, <1>3 DEF Migrated
<1> QED BY <1>2, <1>4, <1>5

-----------------------------------------------------------------------------
\* Rows are marked, pruned, rebound or left alone.
SameWrite(r, s) ==
  /\ s.hashed = r.hashed /\ s.anchor = r.anchor /\ s.prev = r.prev
  /\ s.v22 = r.v22 /\ s.by = r.by /\ s.window = r.window

Weakened ==
  /\ lastId' = lastId
  /\ \A s \in rows' : \E r \in rows :
       s.id = r.id /\ (SameWrite(r, s) \/ (s.hashed = FALSE /\ s.prev = None))

\* A row is written by p.
Inserted(p, a, v22, prev) ==
  /\ lastId < MaxRows /\ lastId' = lastId + 1
  /\ rows' = rows \cup {NewRow(p, a, v22, prev)}

\* What the rest of the steps relies on of the table.
TableFacts ==
  AnchorFacts /\ RowFacts /\ EveryRowIsWalked /\ ForksTakeTwoWriters /\ OwnAnchorIsFollowed

\* The table after rows were marked, pruned or rebound, and perhaps an anchor opened.
LEMMA TableWeakened ==
  ASSUME ChainTypeOK, ChainTypeOK', TableFacts, Weakened, AnchorsGrow
  PROVE  TableFacts'
<1>1. /\ lastId \in Nat /\ Latest \in Nat /\ Latest' \in Nat /\ lastId' = lastId
      /\ \A r \in rows : r.id \in Nat \ {0} /\ r.id <= lastId /\ r.anchor \in Nat /\ r.prev \in Nat
      /\ Latest <= Latest' /\ \A a \in 1..Latest : anchors'[a] = anchors[a]
      /\ \A a \in 1..Latest' : a > Latest =>
           /\ anchors'[a].reason # "legacy"
           /\ anchors'[a].start <= lastId /\ anchors'[a].at = lastId
      /\ lastId <= lastId
  BY TypeFacts DEF Weakened, AnchorsGrow
<1>2. AnchorFacts /\ RowFacts /\ EveryRowIsWalked /\ ForksTakeTwoWriters /\ OwnAnchorIsFollowed
  BY DEF TableFacts
<1>3. \A s \in rows' : \E r \in rows :
        s.id = r.id /\ (SameWrite(r, s) \/ (s.hashed = FALSE /\ s.prev = None))
  BY DEF Weakened
<1>4. \A s \in rows' : s.hashed => \E r \in rows : s.id = r.id /\ SameWrite(r, s) /\ r.hashed
  BY <1>3 DEF SameWrite
<1>5. AnchorFacts'
  <2> SUFFICES ASSUME NEW a \in 1..Latest'
               PROVE  /\ anchors'[a].start <= lastId' /\ anchors'[a].at <= lastId'
                      /\ anchors'[a].reason = "legacy" => a = 1 /\ anchors'[a].by = Nobody
    BY DEF AnchorFacts
  <2>1. CASE a \in 1..Latest
    BY <1>1, <1>2, <2>1 DEF AnchorFacts
  <2>2. CASE a > Latest
    BY <1>1, <2>2
  <2> QED BY <1>1, <2>1, <2>2
<1>6. RowFacts'
  <2>1. ASSUME NEW s \in rows', s.hashed
        PROVE  s.v22 = ShapeOf(s.anchor)' \/ (s.by = Nobody /\ ShapeOf(s.anchor)')
    <3>1. PICK r \in rows : s.id = r.id /\ SameWrite(r, s) /\ r.hashed
      BY <1>4, <2>1
    <3>2. s.v22 = ShapeOf(s.anchor) \/ (s.by = Nobody /\ ShapeOf(s.anchor))
      BY <1>2, <3>1 DEF RowFacts, SameWrite, Unrenamed
    <3> QED BY <3>2, ShapesStay
  <2>2. ASSUME NEW s \in rows', s.hashed, ~s.window PROVE s.anchor <= Latest'
    <3>1. PICK r \in rows : s.id = r.id /\ SameWrite(r, s) /\ r.hashed
      BY <1>4, <2>2
    <3>2. s.anchor <= Latest /\ s.anchor \in Nat
      BY <1>1, <1>2, <2>2, <3>1 DEF RowFacts, SameWrite
    <3> QED BY <1>1, <3>2
  <2>3. ASSUME NEW s \in rows' PROVE s.prev < s.id \/ (s.prev = Lost /\ s.window)
    <3>1. PICK r \in rows : s.id = r.id /\ (SameWrite(r, s) \/ (s.hashed = FALSE /\ s.prev = None))
      BY <1>3
    <3>2. CASE SameWrite(r, s)
      BY <1>2, <3>1, <3>2 DEF RowFacts, SameWrite
    <3>3. CASE s.prev = None
      BY <1>1, <3>1, <3>3, Bounds
    <3> QED BY <3>1, <3>2, <3>3
  <2> QED BY <2>1, <2>2, <2>3 DEF RowFacts, Unrenamed
<1>7. EveryRowIsWalked'
  <2> SUFFICES ASSUME NEW s \in rows', s.hashed, ~s.window, Exists(s.anchor)'
               PROVE  Exists(s.anchor)' /\ s.id > anchors'[s.anchor].start
    BY DEF EveryRowIsWalked, Walked
  <2>1. PICK r \in rows : s.id = r.id /\ SameWrite(r, s) /\ r.hashed
    BY <1>4
  <2>2. r.anchor \in 1..Latest'
    BY <2>1 DEF Exists, SameWrite
  <2>3. r.anchor \in 1..Latest
    BY <1>1, <1>2, <2>1, <2>2 DEF RowFacts, SameWrite
  <2>4. r.id > anchors[r.anchor].start
    BY <1>2, <2>1, <2>3 DEF EveryRowIsWalked, Walked, Exists, SameWrite
  <2> QED BY <1>1, <2>1, <2>3, <2>4 DEF SameWrite
<1>8. ForksTakeTwoWriters'
  <2> SUFFICES ASSUME NEW s \in rows', NEW t \in rows', s # t, s.hashed, t.hashed,
                      s.anchor = t.anchor, s.prev = t.prev
               PROVE  s.by # t.by \/ s.window \/ t.window
    BY DEF ForksTakeTwoWriters
  <2>1. PICK r \in rows : s.id = r.id /\ SameWrite(r, s) /\ r.hashed
    BY <1>4
  <2>2. PICK q \in rows : t.id = q.id /\ SameWrite(q, t) /\ q.hashed
    BY <1>4
  <2>3. s.id # t.id
    BY DEF ChainTypeOK
  <2>4. r # q
    BY <2>1, <2>2, <2>3
  <2> QED BY <1>2, <2>1, <2>2, <2>4 DEF ForksTakeTwoWriters, SameWrite
<1>9. OwnAnchorIsFollowed'
  <2> SUFFICES ASSUME NEW s \in rows', NEW a \in 1..Latest', anchors'[a].by = s.by,
                      s.id > anchors'[a].at, s.hashed, ~s.window
               PROVE  s.anchor >= a
    BY DEF OwnAnchorIsFollowed
  <2>1. PICK r \in rows : s.id = r.id /\ SameWrite(r, s) /\ r.hashed
    BY <1>4
  <2>2. a \in 1..Latest
    BY <1>1, <2>1
  <2> QED BY <1>1, <1>2, <2>1, <2>2 DEF OwnAnchorIsFollowed, SameWrite
<1> QED BY <1>5, <1>6, <1>7, <1>8, <1>9 DEF TableFacts

\* What a process may write under anchor a, behind the row `prev`.
MayWrite(p, a, v22, prev) ==
  /\ a \in Nat /\ prev \in Nat
  /\ v22 = ShapeOf(a)
  /\ ~aborting[p] => a <= Latest'
  /\ prev <= lastId \/ (prev = Lost /\ aborting[p])
  /\ \A r \in rows : Own(r, p) /\ r.anchor = a => r.id <= prev
  /\ \A b \in 1..Latest' : anchors'[b].by = p => b <= a

\* The table after such a row was written.
LEMMA TableInserted ==
  ASSUME ChainTypeOK, ChainTypeOK', TableFacts, AnchorsGrow,
         NEW p \in Processes, NEW a, NEW v22, NEW prev,
         MayWrite(p, a, v22, prev), Inserted(p, a, v22, prev)
  PROVE  TableFacts'
<1> DEFINE x == NewRow(p, a, v22, prev)
<1>1. /\ lastId \in Nat /\ Latest \in Nat /\ Latest' \in Nat /\ lastId' = lastId + 1
      /\ \A r \in rows : r.id \in Nat \ {0} /\ r.id <= lastId /\ r.anchor \in Nat /\ r.prev \in Nat
      /\ Latest <= Latest' /\ \A b \in 1..Latest : anchors'[b] = anchors[b]
      /\ \A b \in 1..Latest' : b > Latest =>
           /\ anchors'[b].reason # "legacy"
           /\ anchors'[b].start <= lastId /\ anchors'[b].at = lastId
      /\ aborting[p] \in BOOLEAN
  BY TypeFacts DEF AnchorsGrow, Inserted
<1>2. AnchorFacts /\ RowFacts /\ EveryRowIsWalked /\ ForksTakeTwoWriters /\ OwnAnchorIsFollowed
  BY DEF TableFacts
<1>3. /\ x.id = lastId + 1 /\ x.anchor = a /\ x.prev = prev /\ x.hashed = TRUE
      /\ x.v22 = v22 /\ x.by = p /\ x.window = aborting[p]
  BY DEF NewRow
<1>4. rows' = rows \cup {x}
  BY DEF Inserted
<1> HIDE DEF x
<1>5. /\ a \in Nat /\ prev \in Nat /\ v22 = ShapeOf(a)
      /\ ~aborting[p] => a <= Latest'
      /\ prev <= lastId \/ (prev = Lost /\ aborting[p])
      /\ \A r \in rows : Own(r, p) /\ r.anchor = a => r.id <= prev
      /\ \A b \in 1..Latest' : anchors'[b].by = p => b <= a
  BY DEF MayWrite
<1>6. \A b : ShapeOf(b)' = ShapeOf(b)
  BY ShapesStay
<1>7. \A b \in 1..Latest' : b \in 1..Latest \/ b > Latest
  BY <1>1
<1>8. \A b \in 1..Latest :
        /\ anchors[b].start <= lastId /\ anchors[b].at <= lastId
        /\ anchors[b].reason = "legacy" => b = 1 /\ anchors[b].by = Nobody
  BY <1>2 DEF AnchorFacts
<1>9. \A b \in 1..Latest' :
        anchors'[b] \in Anchor /\ anchors'[b].start \in Nat /\ anchors'[b].at \in Nat
  <2>1. \A b \in 1..Latest' : anchors'[b] \in Anchor
    <3>1. anchors' \in Seq(Anchor)
      BY DEF AnchorsGrow
    <3> QED BY <3>1, ElementOfSeq DEF Latest
  <2> QED BY <2>1, Bounds DEF Anchor
<1>10. \A b \in 1..Latest' :
         /\ anchors'[b].start <= lastId /\ anchors'[b].at <= lastId
         /\ anchors'[b].reason = "legacy" => b = 1 /\ anchors'[b].by = Nobody
  BY <1>1, <1>7, <1>8
<1>11. AnchorFacts'
  <2> SUFFICES ASSUME NEW b \in 1..Latest'
               PROVE  /\ anchors'[b].start <= lastId' /\ anchors'[b].at <= lastId'
                      /\ anchors'[b].reason = "legacy" => b = 1 /\ anchors'[b].by = Nobody
    BY DEF AnchorFacts
  <2>1. /\ anchors'[b].start \in Nat /\ anchors'[b].at \in Nat
        /\ anchors'[b].start <= lastId /\ anchors'[b].at <= lastId
        /\ anchors'[b].reason = "legacy" => b = 1 /\ anchors'[b].by = Nobody
    BY <1>1, <1>9, <1>10
  <2> QED BY <1>1, <2>1
<1>12. RowFacts'
  <2>1. ASSUME NEW s \in rows', s.hashed
        PROVE  s.v22 = ShapeOf(s.anchor)' \/ (s.by = Nobody /\ ShapeOf(s.anchor)')
    BY <1>2, <1>3, <1>4, <1>5, <1>6, <2>1 DEF RowFacts, Unrenamed
  <2>2. ASSUME NEW s \in rows', s.hashed, ~s.window PROVE s.anchor <= Latest'
    BY <1>1, <1>2, <1>3, <1>4, <1>5, <2>2 DEF RowFacts
  <2>3. ASSUME NEW s \in rows' PROVE s.prev < s.id \/ (s.prev = Lost /\ s.window)
    BY <1>1, <1>2, <1>3, <1>4, <1>5, <2>3 DEF RowFacts
  <2> QED BY <2>1, <2>2, <2>3 DEF RowFacts, Unrenamed
<1>13. EveryRowIsWalked'
  <2> SUFFICES ASSUME NEW s \in rows', s.hashed, ~s.window, Exists(s.anchor)'
               PROVE  s.id > anchors'[s.anchor].start
    BY DEF EveryRowIsWalked, Walked
  <2>1. s.anchor \in 1..Latest'
    BY DEF Exists
  <2>2. CASE s = x
    <3>1. anchors'[s.anchor].start \in Nat /\ anchors'[s.anchor].start <= lastId
      BY <1>1, <1>9, <1>10, <2>1
    <3> QED BY <1>1, <1>3, <2>2, <3>1
  <2>3. CASE s \in rows
    <3>1. s.anchor \in 1..Latest
      BY <1>1, <1>2, <2>1, <2>3 DEF RowFacts
    <3>2. s.id > anchors[s.anchor].start
      BY <1>2, <2>3, <3>1 DEF EveryRowIsWalked, Walked, Exists
    <3> QED BY <1>1, <3>1, <3>2
  <2> QED BY <1>4, <2>2, <2>3
<1>14. ASSUME NEW r \in rows, r.hashed, ~r.window, r.by = p, r.anchor = a, ~aborting[p]
       PROVE  r.prev # prev
  <2>1. r.id <= prev
    BY <1>5, <1>14 DEF Own
  <2>2. r.prev < r.id
    BY <1>2, <1>14 DEF RowFacts
  <2> QED BY <1>1, <1>5, <2>1, <2>2
<1>15. ForksTakeTwoWriters'
  <2> SUFFICES ASSUME NEW s \in rows', NEW t \in rows', s # t, s.hashed, t.hashed,
                      s.anchor = t.anchor, s.prev = t.prev, s.by = t.by, ~s.window, ~t.window
               PROVE  FALSE
    BY DEF ForksTakeTwoWriters
  <2>1. CASE s = x
    BY <1>3, <1>4, <1>14, <2>1
  <2>2. CASE t = x
    BY <1>3, <1>4, <1>14, <2>2
  <2>3. CASE s # x /\ t # x
    BY <1>2, <1>4, <2>3 DEF ForksTakeTwoWriters
  <2> QED BY <2>1, <2>2, <2>3
<1>16. OwnAnchorIsFollowed'
  <2> SUFFICES ASSUME NEW s \in rows', NEW b \in 1..Latest', anchors'[b].by = s.by,
                      s.id > anchors'[b].at, s.hashed, ~s.window
               PROVE  s.anchor >= b
    BY DEF OwnAnchorIsFollowed
  <2>1. CASE s = x
    BY <1>1, <1>3, <1>5, <2>1
  <2>2. CASE s \in rows
    <3>1. b \in 1..Latest
      BY <1>1, <1>7, <2>2
    <3> QED BY <1>1, <1>2, <2>2, <3>1 DEF OwnAnchorIsFollowed
  <2> QED BY <1>4, <2>1, <2>2
<1> QED BY <1>11, <1>12, <1>13, <1>15, <1>16 DEF TableFacts

-----------------------------------------------------------------------------
\* No row of p is new, and no anchor.
RowsTame(p) ==
  \A s \in rows' : Own(s, p) => \E r \in rows : Own(r, p) /\ r.id = s.id /\ r.anchor = s.anchor

AnchorsTame(p) == \A a \in 1..Latest' : a > Latest => anchors'[a].by # p

\* What a process believes stays true over the steps of others.
LEMMA OthersKeepBeliefs ==
  ASSUME ChainTypeOK, NEW p \in Processes, Believes(p),
         cache'[p] = cache[p], doing'[p] = doing[p], aborting'[p] = aborting[p],
         AnchorsGrow, lastId' \in Nat, lastId <= lastId', RowsTame(p), AnchorsTame(p)
  PROVE  Believes(p)'
<1>1. /\ lastId \in Nat /\ Latest \in Nat /\ Latest' \in Nat /\ Latest <= Latest'
      /\ \A a \in 1..Latest : anchors'[a] = anchors[a]
      /\ cache[p].anchor \in Int /\ cache[p].tail \in Nat
      /\ doing[p].anchor \in Int /\ doing[p].prev \in Nat /\ doing[p].n \in Nat
  BY TypeFacts, JobFacts DEF AnchorsGrow
<1>2. Chosen(p) /\ Committed(p) /\ OwnTail(p) /\ OwnRows(p) /\ OwnAnchors(p)
  BY DEF Believes
<1>3. Migrated' = Migrated /\ \A a : ShapeOf(a)' = ShapeOf(a)
  BY ShapesStay
<1>4. \A a \in 1..Latest' : anchors'[a].by = p => a \in 1..Latest /\ anchors[a].by = p
  BY <1>1 DEF AnchorsTame
<1>5. \A s \in rows' : Own(s, p) => \E r \in rows : Own(r, p) /\ r.id = s.id /\ r.anchor = s.anchor
  BY DEF RowsTame
<1>6. Chosen(p)'
  BY <1>1, <1>2, <1>3 DEF Chosen
<1>7. Committed(p)'
  BY <1>1, <1>2 DEF Committed
<1>8. OwnTail(p)'
  <2>1. ASSUME NEW s \in rows', Own(s, p), cache[p].tail # None, s.anchor = cache[p].anchor
        PROVE  s.id <= cache[p].tail
    BY <1>2, <1>5, <2>1 DEF OwnTail
  <2>2. ASSUME NEW s \in rows', Own(s, p), doing[p].at = "insert", s.anchor = doing[p].anchor
        PROVE  s.id <= doing[p].prev
    BY <1>2, <1>5, <2>2 DEF OwnTail
  <2>3. ASSUME NEW s \in rows', Own(s, p), doing[p].at = "tail", cache[p].anchor # doing[p].anchor
        PROVE  s.anchor # cache[p].anchor
    BY <1>2, <1>5, <2>3 DEF OwnTail
  <2> QED BY <2>1, <2>2, <2>3 DEF OwnTail, Own
<1>9. OwnRows(p)'
  <2>1. ASSUME NEW s \in rows', Own(s, p), Unanchored(p) PROVE s.anchor = None
    BY <1>2, <1>5, <2>1 DEF OwnRows
  <2>2. ASSUME NEW s \in rows', Own(s, p), OnOldChain(p) PROVE s.anchor <= 1
    BY <1>2, <1>5, <2>2 DEF OwnRows
  <2>3. (Unanchored(p)' <=> Unanchored(p)) /\ (OnOldChain(p)' <=> OnOldChain(p))
    BY <1>3 DEF Unanchored, OnOldChain
  <2> QED BY <2>1, <2>2, <2>3 DEF OwnRows, Own
<1>10. OwnAnchors(p)'
  BY <1>2, <1>4 DEF OwnAnchors
<1> QED BY <1>6, <1>7, <1>8, <1>9, <1>10 DEF Believes

\* Rows that were only weakened are tame for everybody.
LEMMA WeakenedIsTame ==
  ASSUME Weakened, NEW p \in Processes
  PROVE  RowsTame(p)
<1> SUFFICES ASSUME NEW s \in rows', Own(s, p)
             PROVE  \E r \in rows : Own(r, p) /\ r.id = s.id /\ r.anchor = s.anchor
  BY DEF RowsTame
<1>1. PICK r \in rows :
        s.id = r.id /\ (SameWrite(r, s) \/ (s.hashed = FALSE /\ s.prev = None))
  BY DEF Weakened
<1>2. SameWrite(r, s)
  BY <1>1 DEF Own
<1> QED BY <1>1, <1>2 DEF SameWrite, Own

\* A row is no other process's.
LEMMA InsertedIsTame ==
  ASSUME NEW p \in Processes, NEW q \in Processes, p # q,
         NEW a, NEW v22, NEW prev, Inserted(q, a, v22, prev)
  PROVE  RowsTame(p)
<1>1. rows' = rows \cup {NewRow(q, a, v22, prev)} /\ NewRow(q, a, v22, prev).by = q
  BY DEF Inserted, NewRow
<1> QED BY <1>1 DEF RowsTame, Own

-----------------------------------------------------------------------------
\* What a process believes after a step of its own.

\* The hash read is that of no older row than the process's own last one.
LEMMA TailFacts ==
  ASSUME ChainTypeOK, NEW p \in Processes, NEW c, NEW a,
         c.tail \in Nat, c.tail <= lastId \/ (c.tail = Lost /\ aborting[p]),
         c.anchor = a /\ c.tail # None =>
           \A r \in rows : Own(r, p) /\ r.anchor = a => r.id <= c.tail
  PROVE  /\ TailOf(c, a) \in Nat
         /\ TailOf(c, a) <= lastId \/ (TailOf(c, a) = Lost /\ aborting[p])
         /\ \A r \in rows : Own(r, p) /\ r.anchor = a => r.id <= TailOf(c, a)
<1>1. /\ StoredTail(a) \in Nat /\ StoredTail(a) <= lastId
      /\ \A r \in rows : Own(r, p) /\ r.anchor = a => r.id <= StoredTail(a)
  BY StoredTailFacts DEF Own
<1>2. CASE c.anchor = a /\ c.tail # None
  BY <1>2 DEF TailOf
<1>3. CASE ~(c.anchor = a /\ c.tail # None)
  BY <1>1, <1>3 DEF TailOf
<1> QED BY <1>2, <1>3

\* An empty cache and no write: the process starts, its catch dropped the cache, or it
\* has repaired.
LEMMA ColdBelieves ==
  ASSUME ChainTypeOK, NEW p \in Processes, lastId' \in Nat, Latest' \in Nat,
         cache'[p] = Empty, doing'[p] = Idle
  PROVE  Believes(p)'
<1>1. /\ cache'[p].anchor = -1 /\ cache'[p].tail = 0
      /\ doing'[p].at = "idle" /\ doing'[p].anchor = -1 /\ doing'[p].prev = 0 /\ doing'[p].n = 0
  BY DEF Empty, Idle, NoAnchor, None
<1>2. Chosen(p)'
  BY <1>1 DEF Chosen, Writing
<1>3. Committed(p)'
  BY <1>1 DEF Committed
<1>4. OwnTail(p)'
  BY <1>1 DEF OwnTail, None
<1>5. ~Unanchored(p)' /\ ~OnOldChain(p)'
  BY <1>1 DEF Unanchored, OnOldChain, Writing, None, NoAnchor
<1>6. OwnRows(p)'
  BY <1>5 DEF OwnRows
<1>7. OwnAnchors(p)'
  BY <1>1 DEF OwnAnchors, NoAnchor
<1> QED BY <1>2, <1>3, <1>4, <1>6, <1>7 DEF Believes

\* The write or the repair is given up, or a repair was probed for.
LEMMA QuietBelieves ==
  ASSUME ChainTypeOK, NEW p \in Processes, Believes(p),
         UNCHANGED <<rows, lastId, anchors, cache, aborting>>,
         doing[p].at \in {"idle", "insert", "repair"},
         doing'[p].at \in {"idle", "repair"}, doing'[p].anchor = NoAnchor, doing'[p].prev = None,
         doing'[p].n \in Nat, doing'[p].n <= lastId,
         doing'[p].at = "idle" => doing'[p] = Idle
  PROVE  Believes(p)'
<1>1. /\ doing'[p].anchor = -1 /\ doing'[p].prev = 0
      /\ lastId \in Nat /\ Latest \in Nat
  BY TypeFacts, Bounds
<1>2. Chosen(p) /\ Committed(p) /\ OwnTail(p) /\ OwnRows(p) /\ OwnAnchors(p)
  BY DEF Believes
<1>3. Latest' = Latest /\ Migrated' = Migrated
  BY DEF Latest, Migrated, Exists
<1>4. Chosen(p)'
  BY <1>1 DEF Chosen, Writing
<1>5. Committed(p)'
  <2>1. cache' = cache /\ aborting' = aborting /\ lastId' = lastId
    OBVIOUS
  <2> QED BY <1>1, <1>2, <1>3, <2>1 DEF Committed
<1>6. OwnTail(p)'
  BY <1>1, <1>2 DEF OwnTail, Own
<1>7. (Unanchored(p)' => Unanchored(p)) /\ (OnOldChain(p)' => OnOldChain(p))
  BY <1>1, <1>3 DEF Unanchored, OnOldChain, Writing
<1>8. OwnRows(p)'
  BY <1>2, <1>7 DEF OwnRows, Own
<1>9. OwnAnchors(p)'
  BY <1>1, <1>2, <1>3 DEF OwnAnchors
<1> QED BY <1>4, <1>5, <1>6, <1>8, <1>9 DEF Believes

\* The row was written and recordWrite has cached it.
LEMMA WrittenBelieves ==
  ASSUME ChainTypeOK, NEW p \in Processes, AnchorsGrow,
         NEW a, NEW v22, NEW prev, MayWrite(p, a, v22, prev), Inserted(p, a, v22, prev),
         ChainTypeOK', aborting'[p] = aborting[p],
         cache'[p] = Recorded(a), doing'[p] = Idle,
         a = None => \A r \in rows : Own(r, p) => r.anchor = None,
         Migrated /\ a = 1 => \A r \in rows : Own(r, p) => r.anchor <= 1
  PROVE  Believes(p)'
<1>1. /\ cache'[p].anchor = a /\ cache'[p].tail = lastId + 1 /\ lastId' = lastId + 1
      /\ doing'[p].at = "idle" /\ doing'[p].anchor = -1 /\ doing'[p].prev = 0 /\ doing'[p].n = 0
      /\ lastId \in Nat /\ Latest' \in Nat /\ a \in Nat
  BY TypeFacts DEF Recorded, Idle, NoAnchor, None, Inserted, MayWrite, AnchorsGrow
<1>2. \A s \in rows' : s.id <= lastId'
  BY DEF ChainTypeOK
<1>3. \A s \in rows' : Own(s, p) => s.anchor = a \/ (s \in rows /\ Own(s, p))
  BY DEF Inserted, NewRow
<1>4. Chosen(p)'
  BY <1>1 DEF Chosen, Writing
<1>5. Committed(p)'
  <2>1. ~aborting[p] => a <= Latest'
    BY DEF MayWrite
  <2> QED BY <1>1, <2>1 DEF Committed
<1>6. OwnTail(p)'
  BY <1>1, <1>2 DEF OwnTail
<1>7. (Unanchored(p)' => a = None) /\ (OnOldChain(p)' => Migrated /\ a = 1)
  BY <1>1, ShapesStay DEF Unanchored, OnOldChain, Writing, NoAnchor
<1>8. OwnRows(p)'
  <2>1. ASSUME a = None, NEW s \in rows', Own(s, p) PROVE s.anchor = None
    BY <1>3, <2>1
  <2>2. ASSUME Migrated, a = 1, NEW s \in rows', Own(s, p) PROVE s.anchor <= 1
    BY <1>3, <2>2
  <2> QED BY <1>7, <2>1, <2>2 DEF OwnRows, Own
<1>9. OwnAnchors(p)'
  BY <1>1 DEF OwnAnchors, MayWrite
<1> QED BY <1>4, <1>5, <1>6, <1>8, <1>9 DEF Believes

\* An anchor of the old chain is the first, and opened by no process.
LEMMA OldShapes ==
  ASSUME ChainTypeOK, AnchorFacts, NEW a, ~ShapeOf(a)
  PROVE  Migrated /\ a = 1
<1>1. a \in 1..Latest /\ anchors[a].reason = "legacy"
  BY DEF ShapeOf, Exists
<1> QED BY <1>1 DEF AnchorFacts, Migrated, Exists

\* The anchor was cached, or looked up, or there is none.
LEMMA ResolveBelieves ==
  ASSUME ChainTypeOK, TableFacts, NEW p \in Processes, NEW browser \in BOOLEAN,
         Believes(p), Resolve(p, browser)
  PROVE  Believes(p)'
<1>1. /\ lastId \in Nat /\ Latest \in Nat
      /\ cache[p].anchor \in Int /\ cache[p].anchor >= -1 /\ cache[p].tail \in Nat
      /\ \A r \in rows : r.anchor \in Nat
  BY TypeFacts, Bounds
<1>2. /\ doing[p].at = "idle" /\ doing[p] = Idle
      /\ rows' = rows /\ lastId' = lastId /\ anchors' = anchors /\ aborting' = aborting
  BY DEF Resolve, Believes, Chosen
<1>3. Chosen(p) /\ Committed(p) /\ OwnTail(p) /\ OwnRows(p) /\ OwnAnchors(p) /\ AnchorFacts /\ RowFacts
  BY DEF Believes, TableFacts
<1>4. Latest' = Latest /\ Migrated' = Migrated /\ \A a : ShapeOf(a)' = ShapeOf(a)
  BY <1>2 DEF Latest, Migrated, ShapeOf, Exists
<1>5. \A r \in rows : Own(r, p) => r.anchor <= Latest
  BY <1>3 DEF RowFacts, Own
<1> DEFINE c == cache[p].anchor
<1>6. ASSUME NEW a \in Nat, ~aborting[p] => a <= Latest,
             cache'[p].anchor = a, cache'[p].tail = cache[p].tail,
             With(p, a, browser), c = a \/ (c = NoAnchor /\ a = Latest /\ a # 0)
      PROVE  Believes(p)'
  <2>1. /\ doing'[p].at \in {"findV22", "tail"} /\ doing'[p].anchor = a /\ doing'[p].prev = 0
        /\ doing'[p].n = 0 /\ doing'[p].v22 = ShapeOf(a)
        /\ doing'[p].at = "findV22" => Migrated /\ a = 1
    <3>1. doing \in [Processes -> Job]
      BY DEF ChainTypeOK
    <3>2. doing'[p] = [Idle EXCEPT
            !.at = IF browser /\ ~ShapeOf(a) THEN "findV22" ELSE "tail",
            !.anchor = a, !.v22 = ShapeOf(a)]
      BY <1>6, <3>1 DEF With
    <3>3. doing'[p] = [at |-> IF browser /\ ~ShapeOf(a) THEN "findV22" ELSE "tail", anchor |-> a,
                       v22 |-> ShapeOf(a), prev |-> 0, n |-> 0]
      BY <3>2 DEF Idle, None
    <3> QED BY <1>3, <3>3, OldShapes
  <2>2. c # a => \A r \in rows : Own(r, p) => c = NoAnchor /\ (cache[p].tail # None => r.anchor = None)
    BY <1>3, <1>6 DEF OwnRows, Unanchored
  <2>3. Chosen(p)'
    BY <1>1, <1>2, <1>4, <1>6, <2>1, Bounds DEF Chosen, Writing
  <2>4. Committed(p)'
    BY <1>1, <1>2, <1>3, <1>4, <1>6, <2>1 DEF Committed
  <2>5. OwnTail(p)'
    <3>1. ASSUME NEW r \in rows, Own(r, p), cache[p].tail # None, r.anchor = a
          PROVE  r.id <= cache[p].tail
      BY <1>1, <1>3, <1>6, <2>2, <3>1, Bounds DEF OwnTail
    <3> QED BY <1>2, <1>6, <2>1, <3>1 DEF OwnTail, Own
  <2>6. OwnRows(p)'
    <3>1. ASSUME Unanchored(p)', NEW r \in rows, Own(r, p) PROVE r.anchor = None
      <4>1. a = 0
        BY <1>1, <1>6, <2>1, <3>1, Bounds DEF Unanchored
      <4>2. c = None
        BY <1>6, <4>1, Bounds
      <4> QED BY <1>3, <3>1, <4>2 DEF OwnRows, Unanchored
    <3>2. ASSUME OnOldChain(p)', NEW r \in rows, Own(r, p) PROVE r.anchor <= 1
      <4>1. Migrated /\ a = 1
        BY <1>4, <1>6, <2>1, <3>2 DEF OnOldChain
      <4>2. CASE c = a
        BY <1>3, <3>2, <4>1, <4>2 DEF OwnRows, OnOldChain
      <4>3. CASE a = Latest
        BY <1>5, <3>2, <4>1, <4>3
      <4> QED BY <1>6, <4>2, <4>3
    <3> QED BY <1>2, <3>1, <3>2 DEF OwnRows, Own
  <2>7. OwnAnchors(p)'
    <3>1. ASSUME NEW b \in 1..Latest, anchors[b].by = p PROVE b <= a
      <4>1. CASE c = a
        BY <1>2, <1>3, <1>6, <3>1, <4>1, Bounds DEF OwnAnchors
      <4>2. CASE a = Latest
        BY <4>2, <1>1
      <4> QED BY <1>6, <4>1, <4>2
    <3> QED BY <1>2, <1>4, <1>6, <2>1, <3>1 DEF OwnAnchors
  <2> QED BY <2>3, <2>4, <2>5, <2>6, <2>7 DEF Believes
<1>7. CASE c # NoAnchor /\ With(p, c, browser) /\ cache' = cache
  <2>1. ~aborting[p] => c <= Latest
    BY <1>3 DEF Committed
  <2>2. c \in Nat
    BY <1>1, <1>7, Bounds
  <2> QED BY <1>6, <1>7, <2>1, <2>2
<1>8. CASE c = NoAnchor /\ Latest > 0 /\ With(p, Latest, browser) /\ cache' = [cache EXCEPT ![p].anchor = Latest]
  <2>1. cache'[p].anchor = Latest /\ cache'[p].tail = cache[p].tail
    BY <1>8 DEF ChainTypeOK
  <2>2. Latest \in Nat /\ Latest <= Latest /\ Latest # 0
    BY <1>1, <1>8
  <2> QED BY <1>6, <1>8, <2>1, <2>2
<1>9. CASE c = NoAnchor /\ Latest = 0 /\ Go(p, "open") /\ cache' = cache
  <2>1. /\ doing'[p].at = "open" /\ doing'[p].anchor = -1 /\ doing'[p].prev = 0 /\ doing'[p].n = 0
    <3>1. doing'[p] = [Idle EXCEPT !.at = "open"]
      BY <1>2, <1>9 DEF ChainTypeOK, Go
    <3> QED BY <3>1, Bounds DEF Idle
  <2>2. \A r \in rows : Own(r, p) => r.anchor = None
    BY <1>1, <1>5, <1>9, Bounds
  <2>3. Chosen(p)'
    BY <1>1, <1>2, <1>9, <2>1 DEF Chosen, Writing
  <2>4. Committed(p)'
    BY <1>1, <1>2, <1>3, <1>4, <1>9, <2>1 DEF Committed
  <2>5. OwnTail(p)'
    BY <1>2, <1>3, <1>9, <2>1 DEF OwnTail, Own
  <2>6. OwnRows(p)'
    <3>1. \A r \in rows' : Own(r, p)' => r.anchor = None /\ r.anchor <= 1
      BY <1>2, <2>2, Bounds DEF Own
    <3> QED BY <3>1 DEF OwnRows
  <2>7. OwnAnchors(p)'
    BY <1>4, <1>9 DEF OwnAnchors
  <2> QED BY <2>3, <2>4, <2>5, <2>6, <2>7 DEF Believes
<1> QED BY <1>7, <1>8, <1>9 DEF Resolve

\* The browser writer, on its way from the old chain to a migration-v22 anchor.
LEMMA LeavingBelieves ==
  ASSUME ChainTypeOK, NEW p \in Processes, Believes(p),
         UNCHANGED <<rows, lastId, cache, aborting>>, AnchorsGrow,
         doing[p].at \in {"findV22", "maxId", "openV22"},
         doing'[p].at \in {"maxId", "openV22", "refill", "tail"},
         doing'[p].at # "refill" => doing'[p].anchor = 1,
         doing'[p].at = "refill" => doing'[p].anchor >= 2,
         doing'[p].anchor \in 1..Latest', (doing[p].v22 = ShapeOf(doing[p].anchor))',
         doing'[p].n \in Nat, doing'[p].n <= lastId, doing'[p].prev \in {doing[p].prev, None},
         \A b \in 1..Latest' : anchors'[b].by = p => b <= doing'[p].anchor
  PROVE  Believes(p)'
<1>1. /\ lastId \in Nat /\ Latest \in Nat /\ Latest' \in Nat /\ Latest <= Latest'
      /\ doing'[p].anchor \in Nat /\ doing'[p].anchor # 0 /\ doing'[p].anchor <= Latest'
      /\ \A r \in rows : r.anchor \in Nat
      /\ cache'[p] = cache[p] /\ aborting'[p] = aborting[p] /\ rows' = rows /\ lastId' = lastId
  BY TypeFacts DEF AnchorsGrow
<1>2. Chosen(p) /\ Committed(p) /\ OwnTail(p) /\ OwnRows(p) /\ OwnAnchors(p)
  BY DEF Believes
<1>3. Migrated /\ Migrated' /\ cache[p].anchor = 1
  BY <1>2, ShapesStay DEF Chosen
<1>4. Chosen(p)'
  BY <1>1, <1>3, Bounds DEF Chosen, Writing
<1>5. Committed(p)'
  <2>1. doing'[p].prev <= lastId \/ (doing'[p].prev = Lost /\ aborting[p])
    BY <1>1, <1>2, Bounds DEF Committed
  <2>2. cache[p].tail <= lastId \/ (cache[p].tail = Lost /\ aborting[p])
    BY <1>2 DEF Committed
  <2>3. cache[p].anchor <= Latest'
    BY <1>1, <1>3
  <2> QED BY <1>1, <2>1, <2>2, <2>3 DEF Committed
<1>6. OwnTail(p)'
  BY <1>1, <1>2, <1>3 DEF OwnTail, Own
<1>7. ~Unanchored(p)'
  BY <1>1, <1>3, Bounds DEF Unanchored
<1>8. OnOldChain(p)
  BY <1>3 DEF OnOldChain
<1>9. OwnRows(p)'
  BY <1>1, <1>2, <1>7, <1>8 DEF OwnRows, Own
<1>10. OwnAnchors(p)'
  BY <1>1, <1>3 DEF OwnAnchors
<1> QED BY <1>4, <1>5, <1>6, <1>9, <1>10 DEF Believes

\* The anchors that p opened, of a process on the old chain: none after the first.
LEMMA LeavingFacts ==
  ASSUME ChainTypeOK, NEW p \in Processes, Believes(p),
         doing[p].at \in {"findV22", "maxId", "openV22"}
  PROVE  /\ Migrated /\ cache[p].anchor = 1 /\ doing[p].anchor = 1 /\ 1 \in 1..Latest
         /\ doing[p].v22 = ShapeOf(1) /\ doing[p].n <= lastId
         /\ \A b \in 1..Latest : anchors[b].by = p => b <= 1
<1>1. Chosen(p) /\ OwnAnchors(p)
  BY DEF Believes
<1>2. Migrated /\ cache[p].anchor = 1 /\ doing[p].anchor = 1
      /\ doing[p].v22 = ShapeOf(1) /\ doing[p].n <= lastId
  BY <1>1 DEF Chosen, Writing
<1> QED BY <1>1, <1>2, Bounds DEF OwnAnchors, Migrated, Exists

LEMMA FindV22Believes ==
  ASSUME ChainTypeOK, NEW p \in Processes, Believes(p), FindV22(p)
  PROVE  Believes(p)'
<1>1. /\ doing[p].at = "findV22" /\ doing \in [Processes -> Job]
      /\ UNCHANGED <<rows, lastId, anchors, cache, aborting>>
      /\ doing[p].n \in Nat /\ AnchorsGrow /\ Latest' = Latest /\ Latest \in Nat
  BY TypeFacts, JobFacts, NotOpening DEF FindV22, ChainTypeOK
<1>2. /\ Migrated /\ cache[p].anchor = 1 /\ doing[p].anchor = 1 /\ 1 \in 1..Latest
      /\ doing[p].v22 = ShapeOf(1) /\ doing[p].n <= lastId
      /\ \A b \in 1..Latest : anchors[b].by = p => b <= 1
  BY <1>1, LeavingFacts
<1>3. \A a : ShapeOf(a)' = ShapeOf(a)
  BY <1>1, ShapesStay
<1>4. CASE Go(p, "maxId")
  <2>1. /\ doing'[p].at = "maxId" /\ doing'[p].anchor = doing[p].anchor /\ doing'[p].v22 = doing[p].v22
        /\ doing'[p].n = doing[p].n /\ doing'[p].prev = doing[p].prev
    <3>1. doing[p] \in Job /\ doing'[p] = [doing[p] EXCEPT !.at = "maxId"]
      BY <1>1, <1>4 DEF Go
    <3> QED BY <3>1 DEF Job
  <2> QED BY <1>1, <1>2, <1>3, <2>1, LeavingBelieves
<1>5. ASSUME NEW a \in V22Anchors,
             doing' = [doing EXCEPT ![p].at = "refill", ![p].anchor = a, ![p].v22 = TRUE]
      PROVE  Believes(p)'
  <2>1. a \in 1..Latest /\ anchors[a].reason = "v22"
    BY DEF V22Anchors
  <2>2. a >= 2 /\ ShapeOf(a)
    BY <1>1, <1>2, <2>1 DEF Migrated, ShapeOf
  <2>3. /\ doing'[p].at = "refill" /\ doing'[p].anchor = a /\ doing'[p].v22 = TRUE
        /\ doing'[p].n = doing[p].n /\ doing'[p].prev = doing[p].prev
    <3>1. doing[p] \in Job /\ doing'[p] = [doing[p] EXCEPT !.at = "refill", !.anchor = a, !.v22 = TRUE]
      BY <1>1, <1>5
    <3> QED BY <3>1 DEF Job
  <2>4. \A b \in 1..Latest : anchors[b].by = p => b <= a
    BY <1>1, <1>2, <2>1, <2>2
  <2>5. ShapeOf(a) = TRUE
    BY <2>2 DEF ShapeOf
  <2>6. (doing[p].v22 = ShapeOf(doing[p].anchor))'
    BY <1>3, <2>3, <2>5
  <2> QED BY <1>1, <1>2, <2>1, <2>2, <2>3, <2>4, <2>6, LeavingBelieves
<1> QED BY <1>4, <1>5 DEF FindV22

LEMMA ReadMaxIdBelieves ==
  ASSUME ChainTypeOK, NEW p \in Processes, Believes(p), ReadMaxId(p)
  PROVE  Believes(p)'
<1>1. /\ doing[p].at = "maxId" /\ doing \in [Processes -> Job]
      /\ UNCHANGED <<rows, lastId, anchors, cache, aborting>>
      /\ AnchorsGrow /\ Latest' = Latest /\ Latest \in Nat
  BY TypeFacts, NotOpening DEF ReadMaxId, ChainTypeOK
<1>2. /\ Migrated /\ cache[p].anchor = 1 /\ doing[p].anchor = 1 /\ 1 \in 1..Latest
      /\ doing[p].v22 = ShapeOf(1)
      /\ \A b \in 1..Latest : anchors[b].by = p => b <= 1
  BY <1>1, LeavingFacts
<1>3. \A a : ShapeOf(a)' = ShapeOf(a)
  BY <1>1, ShapesStay
<1>4. /\ doing'[p].at = "openV22" /\ doing'[p].anchor = doing[p].anchor /\ doing'[p].v22 = doing[p].v22
      /\ doing'[p].n = MaxId /\ doing'[p].prev = doing[p].prev
  <2>1. doing[p] \in Job /\ doing'[p] = [doing[p] EXCEPT !.at = "openV22", !.n = MaxId]
    BY <1>1 DEF ReadMaxId
  <2> QED BY <2>1 DEF Job
<1> QED BY <1>1, <1>2, <1>3, <1>4, LeavingBelieves, MaxIdFacts

LEMMA OpenV22FailsBelieves ==
  ASSUME ChainTypeOK, NEW p \in Processes, Believes(p), OpenV22Fails(p)
  PROVE  Believes(p)'
<1>1. /\ doing[p].at = "openV22" /\ doing \in [Processes -> Job]
      /\ UNCHANGED <<rows, lastId, anchors, cache, aborting>>
      /\ AnchorsGrow /\ Latest' = Latest /\ Latest \in Nat /\ lastId \in Nat
  BY TypeFacts, NotOpening DEF OpenV22Fails, ChainTypeOK
<1>2. /\ Migrated /\ cache[p].anchor = 1 /\ doing[p].anchor = 1 /\ 1 \in 1..Latest
      /\ doing[p].v22 = ShapeOf(1)
      /\ \A b \in 1..Latest : anchors[b].by = p => b <= 1
  BY <1>1, LeavingFacts
<1>3. \A a : ShapeOf(a)' = ShapeOf(a)
  BY <1>1, ShapesStay
<1>4. /\ doing'[p].at = "tail" /\ doing'[p].anchor = doing[p].anchor /\ doing'[p].v22 = doing[p].v22
      /\ doing'[p].n = 0 /\ doing'[p].prev = doing[p].prev
  <2>1. doing[p] \in Job /\ doing'[p] = [doing[p] EXCEPT !.at = "tail", !.n = 0]
    BY <1>1 DEF OpenV22Fails
  <2> QED BY <2>1 DEF Job
<1> QED BY <1>1, <1>2, <1>3, <1>4, LeavingBelieves

LEMMA OpenV22Believes ==
  ASSUME ChainTypeOK, NEW p \in Processes, Believes(p), OpenV22(p)
  PROVE  AnchorsGrow /\ Believes(p)'
<1>1. /\ doing[p].at = "openV22" /\ doing \in [Processes -> Job]
      /\ UNCHANGED <<rows, lastId, cache, aborting>>
      /\ ~AfterMaxAnchors /\ anchors' = Opened("v22", doing[p].n, p)
      /\ Latest \in Nat /\ lastId \in Nat /\ doing[p].n \in Nat
  BY TypeFacts, JobFacts DEF OpenV22, ChainTypeOK
<1>2. /\ 1 \in 1..Latest /\ doing[p].n <= lastId
      /\ \A b \in 1..Latest : anchors[b].by = p => b <= 1
  BY <1>1, LeavingFacts
<1>3. /\ AnchorsGrow /\ Latest' = Latest + 1 /\ anchors'[Latest + 1].reason = "v22"
  BY <1>1, <1>2, Opening DEF Reasons
<1>4. /\ doing'[p].at = "refill" /\ doing'[p].anchor = Latest + 1 /\ doing'[p].v22 = TRUE
      /\ doing'[p].n = 0 /\ doing'[p].prev = None
  <2>1. doing'[p] = [Idle EXCEPT !.at = "refill", !.anchor = Latest + 1, !.v22 = TRUE]
    BY <1>1 DEF OpenV22
  <2> QED BY <2>1 DEF Idle
<1>5. \A a : a = Latest + 1 => ShapeOf(a)' = TRUE
  BY <1>3 DEF ShapeOf
<1>6. (doing[p].v22 = ShapeOf(doing[p].anchor))'
  BY <1>4, <1>5 DEF ShapeOf
<1>7. Latest + 1 >= 2 /\ Latest + 1 \in 1..Latest' /\ \A b \in 1..Latest' : b <= Latest + 1
  BY <1>1, <1>2, <1>3
<1> QED BY <1>1, <1>3, <1>4, <1>6, <1>7, LeavingBelieves

\* The cache is refilled with an anchor later than that of the old chain.
LEMMA RefillBelieves ==
  ASSUME ChainTypeOK, NEW p \in Processes, Believes(p), Refill(p)
  PROVE  Believes(p)'
<1>1. /\ doing[p].at = "refill" /\ doing \in [Processes -> Job] /\ doing[p] \in Job
      /\ UNCHANGED <<rows, lastId, anchors, aborting>>
      /\ AnchorsGrow /\ Latest' = Latest /\ Latest \in Nat
      /\ \A r \in rows : r.anchor \in Nat
      /\ doing[p].anchor \in Int /\ cache \in [Processes -> [anchor : NoAnchor..MaxAnchors, tail : 0..Lost]]
  BY TypeFacts, JobFacts, NotOpening DEF Refill, ChainTypeOK
<1>2. Chosen(p) /\ Committed(p) /\ OwnTail(p) /\ OwnRows(p) /\ OwnAnchors(p)
  BY DEF Believes
<1>3. /\ Migrated /\ Latest >= 2 /\ doing[p].anchor # NoAnchor /\ doing[p].v22 = ShapeOf(doing[p].anchor)
      /\ OnOldChain(p)
  BY <1>1, <1>2 DEF Chosen, Writing, OnOldChain
<1>4. /\ cache'[p].anchor = Latest /\ cache'[p].tail = None
      /\ doing'[p].at = "tail" /\ doing'[p].anchor = doing[p].anchor /\ doing'[p].v22 = doing[p].v22
      /\ doing'[p].n = doing[p].n /\ doing'[p].prev = doing[p].prev
  <2>1. cache'[p] = [Empty EXCEPT !.anchor = Latest] /\ doing'[p] = [doing[p] EXCEPT !.at = "tail"]
    BY <1>1 DEF Refill, Go
  <2> QED BY <1>1, <2>1 DEF Empty, Job
<1>5. \A r \in rows : Own(r, p) => r.anchor <= 1 /\ r.anchor # Latest
  BY <1>1, <1>2, <1>3 DEF OwnRows
<1>6. \A a : ShapeOf(a)' = ShapeOf(a)
  BY <1>1, ShapesStay
<1>7. Chosen(p)'
  BY <1>1, <1>2, <1>3, <1>4, <1>6, Bounds DEF Chosen, Writing
<1>8. Committed(p)'
  <2>1. lastId' = lastId /\ aborting' = aborting /\ 0 <= lastId
    BY <1>1, TypeFacts
  <2> QED BY <1>1, <1>2, <1>4, <2>1, Bounds DEF Committed
<1>9. OwnTail(p)'
  BY <1>1, <1>4, <1>5 DEF OwnTail, Own
<1>10. OwnRows(p)'
  <2>1. Unanchored(p)' => Unanchored(p)
    BY <1>1, <1>3, <1>4, Bounds DEF Unanchored, Writing
  <2> QED BY <1>1, <1>2, <1>5, <2>1 DEF OwnRows, Own
<1>11. OwnAnchors(p)'
  BY <1>1, <1>2, <1>4 DEF OwnAnchors
<1> QED BY <1>7, <1>8, <1>9, <1>10, <1>11 DEF Believes

LEMMA OpenFreshBelieves ==
  ASSUME ChainTypeOK, NEW p \in Processes, Believes(p), OpenFresh(p)
  PROVE  AnchorsGrow /\ Believes(p)'
<1>1. /\ doing[p].at = "open" /\ doing \in [Processes -> Job]
      /\ UNCHANGED <<rows, lastId, aborting>>
      /\ ~AfterMaxAnchors /\ anchors' = Opened("fresh", 0, p)
      /\ Latest \in Nat /\ lastId \in Nat
      /\ \A r \in rows : r.anchor \in Nat
      /\ cache \in [Processes -> [anchor : NoAnchor..MaxAnchors, tail : 0..Lost]]
  BY TypeFacts DEF OpenFresh, ChainTypeOK
<1>2. Chosen(p) /\ Committed(p) /\ OwnTail(p) /\ OwnRows(p) /\ OwnAnchors(p)
  BY DEF Believes
<1>3. /\ AnchorsGrow /\ Latest' = Latest + 1 /\ anchors'[Latest + 1].reason = "fresh"
  BY <1>1, Opening DEF Reasons
<1>4. /\ cache'[p].anchor = Latest + 1 /\ cache'[p].tail = cache[p].tail
      /\ doing'[p].at = "tail" /\ doing'[p].anchor = Latest + 1 /\ doing'[p].v22 = TRUE
      /\ doing'[p].n = 0 /\ doing'[p].prev = None
  <2>1. /\ cache'[p] = [cache[p] EXCEPT !.anchor = Latest + 1]
        /\ doing'[p] = [Idle EXCEPT !.at = "tail", !.anchor = Latest + 1, !.v22 = TRUE]
    BY <1>1 DEF OpenFresh
  <2>2. cache[p] \in [anchor : NoAnchor..MaxAnchors, tail : 0..Lost]
    BY <1>1
  <2> QED BY <2>1, <2>2 DEF Idle
<1>5. \A r \in rows : Own(r, p) => r.anchor = 0
  BY <1>1, <1>2, Bounds DEF OwnRows, Unanchored
<1>6. (doing[p].v22 = ShapeOf(doing[p].anchor))'
  BY <1>3, <1>4 DEF ShapeOf
<1>7. Chosen(p)'
  BY <1>1, <1>4, <1>6, Bounds DEF Chosen, Writing
<1>8. Committed(p)'
  <2>1. lastId' = lastId /\ aborting' = aborting
    BY <1>1
  <2> QED BY <1>1, <1>2, <1>3, <1>4, <2>1, Bounds DEF Committed
<1>9. OwnTail(p)'
  BY <1>1, <1>4, <1>5 DEF OwnTail, Own
<1>10. OwnRows(p)'
  <2>1. ~Unanchored(p)'
    BY <1>1, <1>4, Bounds DEF Unanchored
  <2> QED BY <1>1, <1>5, <2>1 DEF OwnRows, Own
<1>11. OwnAnchors(p)'
  BY <1>1, <1>3, <1>4 DEF OwnAnchors
<1> QED BY <1>3, <1>7, <1>8, <1>9, <1>10, <1>11 DEF Believes

LEMMA OpenFreshFailsBelieves ==
  ASSUME ChainTypeOK, NEW p \in Processes, Believes(p), OpenFreshFails(p)
  PROVE  Believes(p)'
<1>1. /\ doing[p].at = "open" /\ doing \in [Processes -> Job]
      /\ UNCHANGED <<rows, lastId, anchors, cache, aborting>>
      /\ Latest' = Latest /\ Latest \in Nat /\ lastId \in Nat
      /\ \A r \in rows : r.anchor \in Nat
  BY TypeFacts, NotOpening DEF OpenFreshFails, ChainTypeOK
<1>2. Chosen(p) /\ Committed(p) /\ OwnTail(p) /\ OwnRows(p) /\ OwnAnchors(p)
  BY DEF Believes
<1>3. /\ doing'[p].at = "tail" /\ doing'[p].anchor = None /\ doing'[p].v22 = TRUE
      /\ doing'[p].n = 0 /\ doing'[p].prev = None
  <2>1. doing'[p] = [Idle EXCEPT !.at = "tail", !.anchor = None, !.v22 = TRUE]
    BY <1>1 DEF OpenFreshFails
  <2> QED BY <2>1 DEF Idle
<1>4. \A r \in rows : Own(r, p) => r.anchor = 0
  BY <1>1, <1>2, Bounds DEF OwnRows, Unanchored
<1>5. cache[p].anchor = NoAnchor /\ \A a \in 1..Latest : anchors[a].by # p
  BY <1>1, <1>2 DEF Chosen, OwnAnchors
<1>6. (doing[p].v22 = ShapeOf(doing[p].anchor))'
  <2>1. Latest' \in Nat /\ doing'[p].anchor = 0
    BY <1>1, <1>3, Bounds
  <2>2. ~Exists(doing[p].anchor)'
    BY <2>1 DEF Exists
  <2> QED BY <1>3, <2>2 DEF ShapeOf
<1>7. Chosen(p)'
  BY <1>1, <1>3, <1>6, Bounds DEF Chosen, Writing
<1>8. Committed(p)'
  <2>1. lastId' = lastId /\ aborting' = aborting /\ cache' = cache
    BY <1>1
  <2> QED BY <1>1, <1>2, <1>3, <2>1, Bounds DEF Committed
<1>9. OwnTail(p)'
  BY <1>1, <1>2, <1>3, <1>4, <1>5, Bounds DEF OwnTail, Own
<1>10. OwnRows(p)'
  <2>1. \A r \in rows' : Own(r, p)' => r.anchor = None /\ r.anchor <= 1
    BY <1>1, <1>4, Bounds DEF Own
  <2> QED BY <2>1 DEF OwnRows
<1>11. OwnAnchors(p)'
  BY <1>1, <1>3, <1>5 DEF OwnAnchors
<1> QED BY <1>7, <1>8, <1>9, <1>10, <1>11 DEF Believes

LEMMA ReadTailBelieves ==
  ASSUME ChainTypeOK, NEW p \in Processes, Believes(p), ReadTail(p)
  PROVE  Believes(p)'
<1> DEFINE a == doing[p].anchor
           t == TailOf(cache[p], a)
<1>1. /\ doing[p].at = "tail" /\ doing \in [Processes -> Job] /\ doing[p] \in Job
      /\ UNCHANGED <<rows, lastId, anchors, aborting>>
      /\ AnchorsGrow /\ Latest' = Latest /\ Latest \in Nat /\ lastId \in Nat
      /\ \A r \in rows : r.id \in Nat \ {0}
      /\ cache \in [Processes -> [anchor : NoAnchor..MaxAnchors, tail : 0..Lost]]
      /\ cache[p].tail \in Nat
  BY TypeFacts, NotOpening DEF ReadTail, ChainTypeOK
<1>2. Chosen(p) /\ Committed(p) /\ OwnTail(p) /\ OwnRows(p) /\ OwnAnchors(p)
  BY DEF Believes
<1>3. /\ t \in Nat
      /\ t <= lastId \/ (t = Lost /\ aborting[p])
      /\ \A r \in rows : Own(r, p) /\ r.anchor = a => r.id <= t
  <2>1. cache[p].tail <= lastId \/ (cache[p].tail = Lost /\ aborting[p])
    BY <1>2 DEF Committed
  <2>2. cache[p].anchor = a /\ cache[p].tail # None =>
          \A r \in rows : Own(r, p) /\ r.anchor = a => r.id <= cache[p].tail
    BY <1>2 DEF OwnTail
  <2> QED BY <1>1, <2>1, <2>2, TailFacts
<1>4. /\ cache'[p].anchor = cache[p].anchor
      /\ cache'[p].tail = IF t = None THEN cache[p].tail ELSE t
      /\ doing'[p].at = "insert" /\ doing'[p].anchor = doing[p].anchor /\ doing'[p].v22 = doing[p].v22
      /\ doing'[p].n = doing[p].n /\ doing'[p].prev = t
  <2>1. /\ cache'[p] = WithTail(cache[p], a)
        /\ doing'[p] = [doing[p] EXCEPT !.at = "insert", !.prev = t]
    BY <1>1 DEF ReadTail
  <2>2. cache[p] \in [anchor : NoAnchor..MaxAnchors, tail : 0..Lost]
    BY <1>1
  <2> HIDE DEF a
  <2>3. cache'[p] = [cache[p] EXCEPT !.tail = IF t = None THEN cache[p].tail ELSE t]
    BY <2>1, <2>2 DEF WithTail
  <2> HIDE DEF t
  <2> QED BY <1>1, <2>1, <2>2, <2>3 DEF Job
<1> HIDE DEF t
<1>5. /\ doing[p].anchor # NoAnchor /\ doing[p].v22 = ShapeOf(doing[p].anchor)
      /\ cache[p].anchor = NoAnchor => doing[p].anchor = None
  BY <1>1, <1>2 DEF Chosen, Writing
<1>6. \A b : ShapeOf(b)' = ShapeOf(b)
  BY <1>1, ShapesStay
<1>7. Chosen(p)'
  BY <1>1, <1>2, <1>4, <1>5, <1>6 DEF Chosen, Writing
<1>8. Committed(p)'
  <2>1. lastId' = lastId /\ aborting' = aborting
    BY <1>1
  <2>2. cache'[p].tail <= lastId \/ (cache'[p].tail = Lost /\ aborting[p])
    BY <1>2, <1>3, <1>4 DEF Committed
  <2> QED BY <1>1, <1>2, <1>3, <1>4, <2>1, <2>2 DEF Committed
<1>9. OwnTail(p)'
  <2>1. ASSUME NEW r \in rows, Own(r, p), r.anchor = cache[p].anchor PROVE r.id <= cache'[p].tail
    <3>1. cache[p].anchor = a
      BY <1>1, <1>2, <2>1 DEF OwnTail
    <3>2. r.id <= t /\ t # 0
      BY <1>1, <1>3, <2>1, <3>1
    <3> QED BY <1>4, <3>2, Bounds
  <2>2. ASSUME NEW r \in rows, Own(r, p), r.anchor = a PROVE r.id <= t
    BY <1>3, <2>2
  <2> QED BY <1>1, <1>4, <2>1, <2>2 DEF OwnTail, Own
<1>10. OwnRows(p)'
  <2>1. Unanchored(p)' => Unanchored(p)
    BY <1>1, <1>4, <1>5 DEF Unanchored, Writing
  <2>2. OnOldChain(p)' => OnOldChain(p)
    BY <1>1, <1>4, ShapesStay DEF OnOldChain, Writing
  <2> QED BY <1>1, <1>2, <2>1, <2>2 DEF OwnRows, Own
<1>11. OwnAnchors(p)'
  BY <1>1, <1>2, <1>4 DEF OwnAnchors
<1> QED BY <1>7, <1>8, <1>9, <1>10, <1>11 DEF Believes

\* The INSERT of a row under the anchor it was prepared for.
LEMMA InsertBelieves ==
  ASSUME ChainTypeOK, ChainTypeOK', TableFacts, NEW p \in Processes, Believes(p), Insert(p)
  PROVE  /\ AnchorsGrow /\ Believes(p)'
         /\ MayWrite(p, doing[p].anchor, doing[p].v22, doing[p].prev)
         /\ Inserted(p, doing[p].anchor, doing[p].v22, doing[p].prev)
<1> DEFINE a == doing[p].anchor
<1>1. /\ doing[p].at = "insert" /\ doing[p].anchor \in Int /\ doing[p].anchor \in NoAnchor..MaxAnchors
      /\ doing[p].prev \in Nat
      /\ UNCHANGED <<anchors, aborting>>
      /\ AnchorsGrow /\ Latest' = Latest
  BY JobFacts, NotOpening DEF Insert
<1>2. Chosen(p) /\ Committed(p) /\ OwnTail(p) /\ OwnRows(p) /\ OwnAnchors(p)
  BY DEF Believes
<1>3. Inserted(p, a, doing[p].v22, doing[p].prev)
  BY DEF Insert, Inserted
<1>4. a \in Nat /\ doing[p].v22 = ShapeOf(a)
  BY <1>1, <1>2, Bounds DEF Chosen, Writing
<1>5. MayWrite(p, a, doing[p].v22, doing[p].prev)
  <2>1. ~aborting[p] => a <= Latest'
    BY <1>1, <1>2 DEF Committed
  <2>2. doing[p].prev <= lastId \/ (doing[p].prev = Lost /\ aborting[p])
    BY <1>2 DEF Committed
  <2>3. \A r \in rows : Own(r, p) /\ r.anchor = a => r.id <= doing[p].prev
    BY <1>1, <1>2 DEF OwnTail
  <2>4. \A b \in 1..Latest' : anchors'[b].by = p => b <= a
    BY <1>1, <1>2 DEF OwnAnchors
  <2> QED BY <1>1, <1>4, <2>1, <2>2, <2>3, <2>4 DEF MayWrite
<1>6. cache'[p] = Recorded(a) /\ doing'[p] = Idle
  BY DEF Insert, ChainTypeOK
<1>7. a = None => \A r \in rows : Own(r, p) => r.anchor = None
  BY <1>1, <1>2 DEF OwnRows, Unanchored, Writing
<1>8. Migrated /\ a = 1 => \A r \in rows : Own(r, p) => r.anchor <= 1
  BY <1>1, <1>2 DEF OwnRows, OnOldChain, Writing
<1> QED BY <1>1, <1>3, <1>5, <1>6, <1>7, <1>8, WrittenBelieves

\* What an outbox insert may find: its anchor, and the hash it reads.
LEMMA OutboxFacts ==
  ASSUME ChainTypeOK, TableFacts, NEW p \in Processes, Believes(p), doing[p].at = "idle",
         NEW a \in OutboxAnchors(p)
  PROVE  /\ a \in Nat /\ a \in 0..MaxAnchors
         /\ ~aborting[p] => a <= Latest \/ (cache[p].anchor = NoAnchor /\ Latest = 0 /\ a = 1)
         /\ a = None => \A r \in rows : Own(r, p) => r.anchor = None
         /\ Migrated /\ a = 1 => \A r \in rows : Own(r, p) => r.anchor <= 1
         /\ \A b \in 1..Latest : anchors[b].by = p => b <= a
         /\ OutboxTail(p, a) \in Nat
         /\ OutboxTail(p, a) <= lastId \/ (OutboxTail(p, a) = Lost /\ aborting[p])
         /\ \A r \in rows : Own(r, p) /\ r.anchor = a => r.id <= OutboxTail(p, a)
         /\ OutboxCache(p, a).anchor = IF a = None THEN cache[p].anchor ELSE a
         /\ OutboxCache(p, a).tail = IF OutboxTail(p, a) = None THEN cache[p].tail ELSE OutboxTail(p, a)
<1>1. /\ lastId \in Nat /\ Latest \in Nat /\ Latest <= MaxAnchors /\ MaxAnchors \in Nat /\ MaxAnchors > 0
      /\ cache[p].anchor \in Int /\ cache[p].anchor \in NoAnchor..MaxAnchors /\ cache[p].tail \in Nat
      /\ \A r \in rows : r.anchor \in Nat
      /\ cache[p] \in [anchor : NoAnchor..MaxAnchors, tail : 0..Lost]
  BY TypeFacts, Bounds DEF ChainTypeOK
<1>2. Committed(p) /\ OwnTail(p) /\ OwnRows(p) /\ OwnAnchors(p) /\ RowFacts
  BY DEF Believes, TableFacts
<1>3. \/ cache[p].anchor # NoAnchor /\ cache[p].anchor = a
      \/ cache[p].anchor = NoAnchor /\ Latest > 0 /\ a = Latest
      \/ cache[p].anchor = NoAnchor /\ Latest = 0 /\ a \in {0, 1}
  BY <1>1, Bounds DEF OutboxAnchors
<1>4. a \in Nat /\ a \in 0..MaxAnchors
  BY <1>1, <1>3, Bounds
<1>5. ~aborting[p] => a <= Latest \/ (cache[p].anchor = NoAnchor /\ Latest = 0 /\ a = 1)
  BY <1>1, <1>2, <1>3 DEF Committed
<1>6. \A r \in rows : Own(r, p) => r.anchor <= Latest
  BY <1>2 DEF RowFacts, Own
<1>7. ASSUME a = None, NEW r \in rows, Own(r, p) PROVE r.anchor = None
  BY <1>1, <1>2, <1>3, <1>6, <1>7, Bounds DEF OwnRows, Unanchored
<1>8. ASSUME Migrated, a = 1, NEW r \in rows, Own(r, p) PROVE r.anchor <= 1
  <2>1. CASE cache[p].anchor = a
    BY <1>2, <1>8, <2>1 DEF OwnRows, OnOldChain
  <2>2. CASE Latest <= 1
    BY <1>1, <1>6, <1>8, <2>2
  <2> QED BY <1>1, <1>3, <1>8, <2>1, <2>2
<1>9. \A b \in 1..Latest : anchors[b].by = p => b <= a
  BY <1>1, <1>2, <1>3 DEF OwnAnchors
<1> DEFINE c == [cache[p] EXCEPT !.anchor = IF a = None THEN @ ELSE a]
<1>10. /\ c.anchor = IF a = None THEN cache[p].anchor ELSE a
       /\ c.tail = cache[p].tail /\ c.tail \in Nat
       /\ c = [anchor |-> c.anchor, tail |-> c.tail]
  BY <1>1
<1>11. OutboxTail(p, a) = TailOf(c, a) /\ OutboxCache(p, a) = WithTail(c, a)
  BY DEF OutboxTail, OutboxCache
<1> HIDE DEF c
<1>12. c.tail <= lastId \/ (c.tail = Lost /\ aborting[p])
  BY <1>2, <1>10 DEF Committed
<1>13. ASSUME c.anchor = a, c.tail # None, NEW r \in rows, Own(r, p), r.anchor = a
       PROVE  r.id <= c.tail
  <2>1. CASE cache[p].anchor = a
    BY <1>2, <1>10, <1>13, <2>1 DEF OwnTail
  <2>2. CASE cache[p].anchor = NoAnchor
    <3>1. a # None
      BY <1>10, <1>13, <2>2, Bounds
    <3>2. r.anchor = None
      BY <1>2, <1>10, <1>13, <2>2 DEF OwnRows, Unanchored
    <3> QED BY <1>13, <3>1, <3>2
  <2> QED BY <1>3, <2>1, <2>2
<1>14. /\ TailOf(c, a) \in Nat
       /\ TailOf(c, a) <= lastId \/ (TailOf(c, a) = Lost /\ aborting[p])
       /\ \A r \in rows : Own(r, p) /\ r.anchor = a => r.id <= TailOf(c, a)
  BY <1>10, <1>12, <1>13, TailFacts
<1>15. /\ WithTail(c, a).anchor = c.anchor
       /\ WithTail(c, a).tail = IF TailOf(c, a) = None THEN c.tail ELSE TailOf(c, a)
  <2> DEFINE t == TailOf(c, a)
  <2>1. WithTail(c, a) = [c EXCEPT !.tail = IF t = None THEN c.tail ELSE t]
    BY <1>10 DEF WithTail
  <2> HIDE DEF t
  <2>2. /\ WithTail(c, a).anchor = c.anchor
        /\ WithTail(c, a).tail = IF t = None THEN c.tail ELSE t
    BY <1>10, <2>1
  <2> QED BY <2>2 DEF t
<1> QED BY <1>4, <1>5, <1>7, <1>8, <1>9, <1>10, <1>11, <1>14, <1>15

\* An outbox insert that committed.
LEMMA OutboxBelieves ==
  ASSUME ChainTypeOK, ChainTypeOK', TableFacts, NEW p \in Processes, Believes(p), Outbox(p)
  PROVE  /\ AnchorsGrow /\ Believes(p)' /\ TableFacts'
         /\ \A b \in 1..Latest' : b > Latest => anchors'[b].by = p
         /\ \A q \in Processes \ {p} : RowsTame(q)
<1>1. /\ doing[p].at = "idle" /\ doing[p] = Idle /\ doing' = doing /\ aborting' = aborting
      /\ lastId < MaxRows /\ lastId' = lastId + 1 /\ Latest \in Nat /\ lastId \in Nat
  BY TypeFacts DEF Outbox, Believes, Chosen
<1>2. PICK a \in OutboxAnchors(p) :
        /\ rows' = rows \cup {NewRow(p, a, ShapeOf(a), OutboxTail(p, a))}
        /\ cache' = [cache EXCEPT ![p] = Recorded(a)]
        /\ \/ /\ cache[p].anchor = NoAnchor /\ Latest = 0 /\ a = 1 /\ ~AfterMaxAnchors
              /\ anchors' = Opened("fresh", 0, p)
           \/ /\ ~(cache[p].anchor = NoAnchor /\ Latest = 0 /\ a = 1)
              /\ UNCHANGED anchors
  BY DEF Outbox
<1> DEFINE t == OutboxTail(p, a)
<1>3. /\ a \in Nat
      /\ ~aborting[p] => a <= Latest \/ (cache[p].anchor = NoAnchor /\ Latest = 0 /\ a = 1)
      /\ a = None => \A r \in rows : Own(r, p) => r.anchor = None
      /\ Migrated /\ a = 1 => \A r \in rows : Own(r, p) => r.anchor <= 1
      /\ \A b \in 1..Latest : anchors[b].by = p => b <= a
      /\ t \in Nat
      /\ t <= lastId \/ (t = Lost /\ aborting[p])
      /\ \A r \in rows : Own(r, p) /\ r.anchor = a => r.id <= t
  BY <1>1, OutboxFacts
<1>4. /\ AnchorsGrow
      /\ \A b \in 1..Latest' : b > Latest => anchors'[b].by = p /\ b <= a
      /\ ~aborting[p] => a <= Latest'
  <2>1. CASE cache[p].anchor = NoAnchor /\ Latest = 0 /\ a = 1 /\ ~AfterMaxAnchors
             /\ anchors' = Opened("fresh", 0, p)
    <3>1. AnchorsGrow /\ Latest' = 1 /\ anchors'[1].by = p
      BY <1>1, <2>1, Opening DEF Reasons
    <3> QED BY <2>1, <3>1
  <2>2. CASE ~(cache[p].anchor = NoAnchor /\ Latest = 0 /\ a = 1) /\ UNCHANGED anchors
    <3>1. AnchorsGrow /\ Latest' = Latest
      BY <2>2, NotOpening
    <3> QED BY <1>1, <1>3, <2>2, <3>1
  <2> QED BY <1>2, <2>1, <2>2
<1>5. Inserted(p, a, ShapeOf(a), t)
  BY <1>1, <1>2 DEF Inserted
<1> HIDE DEF t
<1>6. \A b \in 1..Latest' : anchors'[b].by = p => b <= a
  BY <1>1, <1>3, <1>4 DEF AnchorsGrow
<1>7. MayWrite(p, a, ShapeOf(a), t)
  BY <1>3, <1>4, <1>6 DEF MayWrite
<1>8. cache'[p] = Recorded(a) /\ doing'[p] = Idle /\ aborting'[p] = aborting[p]
  BY <1>1, <1>2 DEF ChainTypeOK
<1>9. Believes(p)'
  BY <1>3, <1>4, <1>5, <1>7, <1>8, WrittenBelieves
<1>10. TableFacts'
  BY <1>4, <1>5, <1>7, TableInserted
<1>11. \A q \in Processes \ {p} : RowsTame(q)
  BY <1>5, InsertedIsTame
<1> QED BY <1>4, <1>9, <1>10, <1>11

\* One that was rolled back.
LEMMA OutboxFailsBelieves ==
  ASSUME ChainTypeOK, TableFacts, NEW p \in Processes, Believes(p), OutboxFails(p)
  PROVE  Believes(p)'
<1>1. /\ doing[p].at = "idle" /\ doing[p] = Idle /\ doing' = doing
      /\ UNCHANGED <<rows, lastId, anchors>>
      /\ Latest' = Latest /\ Latest \in Nat /\ lastId \in Nat /\ lastId < Lost
      /\ cache[p].anchor \in Int
      /\ \A r \in rows : r.id \in Nat \ {0} /\ r.id <= lastId /\ r.anchor \in Nat
  BY TypeFacts, Bounds, NotOpening DEF OutboxFails, Believes, Chosen
<1>2. Committed(p) /\ OwnTail(p) /\ OwnRows(p) /\ OwnAnchors(p)
  BY DEF Believes
<1>3. aborting'[p] = TRUE
  BY DEF OutboxFails, ChainTypeOK
<1>4. /\ doing'[p].at = "idle" /\ doing'[p].anchor = -1 /\ doing'[p].prev = 0 /\ doing'[p].n = 0
      /\ doing'[p] = Idle
  BY <1>1, Bounds DEF Idle
<1>5. Chosen(p)'
  BY <1>1, <1>4 DEF Chosen, Writing
<1>6. ASSUME cache'[p].tail <= lastId \/ cache'[p].tail = Lost,
             cache'[p].tail # None => \A r \in rows : Own(r, p) /\ r.anchor = cache'[p].anchor => r.id <= cache'[p].tail,
             cache'[p].anchor = None \/ (cache'[p].anchor = NoAnchor /\ cache'[p].tail # None) =>
               \A r \in rows : Own(r, p) => r.anchor = None,
             Migrated /\ cache'[p].anchor = 1 => \A r \in rows : Own(r, p) => r.anchor <= 1,
             cache'[p].anchor # NoAnchor =>
               \A b \in 1..Latest : anchors[b].by = p => b <= cache'[p].anchor
      PROVE  Believes(p)'
  <2>1. Committed(p)'
    BY <1>1, <1>3, <1>4, <1>6 DEF Committed, Lost
  <2>2. OwnTail(p)'
    BY <1>1, <1>4, <1>6 DEF OwnTail, Own
  <2>3. Migrated' = Migrated
    BY <1>1 DEF Migrated, Exists, Latest
  <2>4. OwnRows(p)'
    <3>1. Unanchored(p)' => \A r \in rows : Own(r, p) => r.anchor = None
      BY <1>1, <1>4, <1>6 DEF Unanchored, Writing
    <3>2. OnOldChain(p)' => \A r \in rows : Own(r, p) => r.anchor <= 1
      BY <1>1, <1>4, <1>6, <2>3 DEF OnOldChain, Writing
    <3> QED BY <1>1, <3>1, <3>2 DEF OwnRows, Own
  <2>5. OwnAnchors(p)'
    BY <1>1, <1>4, <1>6 DEF OwnAnchors
  <2> QED BY <1>5, <2>1, <2>2, <2>4, <2>5 DEF Believes
<1>7. CASE UNCHANGED cache
  BY <1>1, <1>2, <1>6, <1>7 DEF Committed, OwnTail, OwnRows, OwnAnchors, Unanchored, OnOldChain
<1>8. ASSUME NEW a \in OutboxAnchors(p),
             \/ cache' = [cache EXCEPT ![p] = OutboxCache(p, a)]
             \/ cache' = [cache EXCEPT ![p] = [anchor |-> a, tail |-> Lost]]
      PROVE  Believes(p)'
  <2> DEFINE t == OutboxTail(p, a)
  <2>1. /\ a \in Nat
        /\ a = None => \A r \in rows : Own(r, p) => r.anchor = None
        /\ Migrated /\ a = 1 => \A r \in rows : Own(r, p) => r.anchor <= 1
        /\ \A b \in 1..Latest : anchors[b].by = p => b <= a
        /\ t \in Nat
        /\ t <= lastId \/ t = Lost
        /\ \A r \in rows : Own(r, p) /\ r.anchor = a => r.id <= t
        /\ OutboxCache(p, a).anchor = IF a = None THEN cache[p].anchor ELSE a
        /\ OutboxCache(p, a).tail = IF t = None THEN cache[p].tail ELSE t
    BY <1>1, OutboxFacts
  <2> HIDE DEF t
  <2>2. CASE cache' = [cache EXCEPT ![p] = [anchor |-> a, tail |-> Lost]]
    <3>1. cache'[p].anchor = a /\ cache'[p].tail = Lost
      BY <2>2 DEF ChainTypeOK
    <3> QED BY <1>1, <1>6, <2>1, <3>1, Bounds
  <2>3. CASE cache' = [cache EXCEPT ![p] = OutboxCache(p, a)]
    <3>1. /\ cache'[p].anchor = IF a = None THEN cache[p].anchor ELSE a
          /\ cache'[p].tail = IF t = None THEN cache[p].tail ELSE t
      BY <2>1, <2>3 DEF ChainTypeOK
    <3>2. cache'[p].tail <= lastId \/ cache'[p].tail = Lost
      BY <1>2, <2>1, <3>1 DEF Committed
    <3>3. cache'[p].anchor = a \/ (a = None /\ cache[p].anchor = NoAnchor /\ cache'[p].anchor = NoAnchor)
      BY <1>8, <3>1, Bounds DEF OutboxAnchors
    <3>4. ASSUME NEW r \in rows, Own(r, p), r.anchor = cache'[p].anchor PROVE r.id <= cache'[p].tail
      <4>1. cache'[p].anchor = a
        BY <1>1, <3>3, <3>4, Bounds
      <4>2. r.id <= t /\ t # 0
        BY <1>1, <2>1, <3>4, <4>1
      <4> QED BY <3>1, <4>2, Bounds
    <3> QED BY <1>6, <2>1, <3>2, <3>3, <3>4, Bounds
  <2> QED BY <1>8, <2>2, <2>3
<1> QED BY <1>7, <1>8 DEF OutboxFails

-----------------------------------------------------------------------------
\* Types, step by step.
RowTypes ==
  /\ rows \subseteq Row /\ lastId \in 0..MaxRows
  /\ \A r \in rows : r.id <= lastId
  /\ \A r, s \in rows : r.id = s.id => r = s

Caches == [anchor : NoAnchor..MaxAnchors, tail : 0..Lost]

LEMMA TypesJoin ==
  ASSUME ChainTypeOK, RowTypes',
         AnchorsGrow \/ UNCHANGED anchors,
         cache' \in [Processes -> Caches], doing' \in [Processes -> Job],
         aborting' \in [Processes -> BOOLEAN]
  PROVE  ChainTypeOK'
<1>1. anchors' \in Seq(Anchor) /\ Latest' <= MaxAnchors
  BY NotOpening DEF AnchorsGrow
<1> QED BY <1>1 DEF ChainTypeOK, RowTypes, Caches

LEMMA RowTypesInserted ==
  ASSUME ChainTypeOK, NEW p \in Processes, NEW a \in 0..MaxAnchors, NEW v22 \in BOOLEAN,
         NEW prev \in 0..Lost, Inserted(p, a, v22, prev)
  PROVE  RowTypes'
<1> DEFINE x == NewRow(p, a, v22, prev)
<1>1. /\ lastId \in Nat /\ lastId < MaxRows /\ MaxRows \in Nat
      /\ \A r \in rows : r.id \in Nat /\ r.id <= lastId
      /\ aborting[p] \in BOOLEAN
  BY TypeFacts, Bounds DEF Inserted
<1>2. lastId' = lastId + 1 /\ rows' = rows \cup {x}
  BY DEF Inserted
<1>3. x \in Row /\ x.id = lastId + 1
  BY <1>1 DEF NewRow, Row
<1> HIDE DEF x
<1>4. rows \subseteq Row /\ \A r, s \in rows : r.id = s.id => r = s
  BY DEF ChainTypeOK
<1> QED BY <1>1, <1>2, <1>3, <1>4 DEF RowTypes

\* Steps of one process that leave the rows alone.
LEMMA PrivateTypes ==
  ASSUME ChainTypeOK, NEW p \in Processes, Believes(p),
         \/ \E browser \in BOOLEAN : Resolve(p, browser)
         \/ FindV22(p) \/ ReadMaxId(p) \/ OpenV22Fails(p) \/ OpenFreshFails(p) \/ Refill(p)
         \/ InsertFails(p) \/ Catch(p) \/ RepairFails(p) \/ Restart(p)
         \/ \E from \in 1..MaxRows, force \in BOOLEAN : Probe(p, from, force)
  PROVE  ChainTypeOK'
<1>1. /\ rows \subseteq Row /\ lastId \in 0..MaxRows
      /\ \A r \in rows : r.id <= lastId
      /\ \A r, s \in rows : r.id = s.id => r = s
      /\ cache \in [Processes -> Caches] /\ doing \in [Processes -> Job] /\ doing[p] \in Job
      /\ cache[p] \in Caches
      /\ aborting \in [Processes -> BOOLEAN]
      /\ Latest \in Nat /\ Latest <= MaxAnchors /\ MaxRows \in Nat /\ MaxAnchors \in Nat
      /\ lastId <= MaxRows
  BY TypeFacts, Bounds DEF ChainTypeOK, Caches
<1>2. Idle \in Job /\ Empty \in Caches
  BY Bounds DEF Idle, Job, Places, Empty, Caches
<1>3. ASSUME NEW place \in Places PROVE [doing[p] EXCEPT !.at = place] \in Job
  BY <1>1 DEF Job
<1>4. rows' = rows /\ lastId' = lastId /\ anchors' = anchors
  BY DEF Resolve, FindV22, ReadMaxId, OpenV22Fails, OpenFreshFails, Refill, InsertFails, Catch,
         RepairFails, Restart, Probe
<1>5. RowTypes'
  BY <1>1, <1>4 DEF RowTypes
<1>6. ASSUME NEW x \in Caches, NEW y \in Job, NEW b \in BOOLEAN,
             cache' = cache \/ cache' = [cache EXCEPT ![p] = x],
             doing' = doing \/ doing' = [doing EXCEPT ![p] = y],
             aborting' = aborting \/ aborting' = [aborting EXCEPT ![p] = b]
      PROVE  ChainTypeOK'
  BY <1>1, <1>4, <1>5, <1>6, TypesJoin
<1>7. ASSUME NEW a \in NoAnchor..MaxAnchors PROVE [cache[p] EXCEPT !.anchor = a] \in Caches
  BY <1>1 DEF Caches
<1>8. ASSUME NEW browser \in BOOLEAN, Resolve(p, browser) PROVE ChainTypeOK'
  <2>1. ASSUME NEW a \in NoAnchor..MaxAnchors, NEW x \in Caches, With(p, a, browser), aborting' = aborting,
               cache' = cache \/ cache' = [cache EXCEPT ![p] = x]
        PROVE  ChainTypeOK'
    <3>1. PICK y : y = [Idle EXCEPT !.at = IF browser /\ ~ShapeOf(a) THEN "findV22" ELSE "tail",
                                    !.anchor = a, !.v22 = ShapeOf(a)]
      OBVIOUS
    <3>2. y = [at |-> IF browser /\ ~ShapeOf(a) THEN "findV22" ELSE "tail", anchor |-> a,
               v22 |-> ShapeOf(a), prev |-> 0, n |-> 0]
      BY <3>1 DEF Idle, None
    <3>3. y \in Job
      <4>1. ShapeOf(a) \in BOOLEAN
        BY DEF ShapeOf
      <4> QED BY <3>2, <4>1, Bounds DEF Job, Places
    <3>4. doing' = [doing EXCEPT ![p] = y]
      BY <3>1, <2>1 DEF With
    <3> QED BY <1>6, <2>1, <3>3, <3>4
  <2>2. cache[p].anchor \in NoAnchor..MaxAnchors /\ aborting' = aborting
    BY <1>1, <1>8 DEF Caches, Resolve
  <2>3. CASE With(p, cache[p].anchor, browser) /\ UNCHANGED cache
    BY <1>2, <2>1, <2>2, <2>3
  <2>4. CASE cache' = [cache EXCEPT ![p].anchor = Latest] /\ With(p, Latest, browser)
    <3>1. Latest \in NoAnchor..MaxAnchors
      BY <1>1, Bounds
    <3>2. cache' = [cache EXCEPT ![p] = [cache[p] EXCEPT !.anchor = Latest]]
      BY <2>4
    <3> QED BY <1>7, <2>1, <2>2, <2>4, <3>1, <3>2
  <2>5. CASE Go(p, "open") /\ UNCHANGED cache
    <3>1. doing' = [doing EXCEPT ![p] = [doing[p] EXCEPT !.at = "open"]]
      BY <2>5 DEF Go
    <3> QED BY <1>2, <1>3, <1>6, <2>2, <2>5, <3>1 DEF Places
  <2> QED BY <1>8, <2>3, <2>4, <2>5 DEF Resolve
<1>9. CASE FindV22(p)
  <2>1. cache' = cache /\ aborting' = aborting
    BY <1>9 DEF FindV22
  <2>2. CASE Go(p, "maxId")
    <3>1. doing' = [doing EXCEPT ![p] = [doing[p] EXCEPT !.at = "maxId"]]
      BY <2>2 DEF Go
    <3> QED BY <1>2, <1>3, <1>6, <2>1, <3>1 DEF Places
  <2>3. ASSUME NEW a \in V22Anchors,
               doing' = [doing EXCEPT ![p].at = "refill", ![p].anchor = a, ![p].v22 = TRUE]
        PROVE  ChainTypeOK'
    <3>1. a \in NoAnchor..MaxAnchors
      BY <1>1, Bounds DEF V22Anchors
    <3> DEFINE y == [doing[p] EXCEPT !.at = "refill", !.anchor = a, !.v22 = TRUE]
    <3>2. y \in Job
      BY <1>1, <3>1 DEF Job, Places
    <3>3. doing' = [doing EXCEPT ![p] = y]
      BY <1>1, <2>3
    <3> HIDE DEF y
    <3> QED BY <1>2, <1>6, <2>1, <3>2, <3>3
  <2> QED BY <1>9, <2>2, <2>3 DEF FindV22
<1>10. CASE ReadMaxId(p)
  <2>1. PICK y : y = [doing[p] EXCEPT !.at = "openV22", !.n = MaxId]
    OBVIOUS
  <2>2. y = [at |-> "openV22", anchor |-> doing[p].anchor, v22 |-> doing[p].v22,
             prev |-> doing[p].prev, n |-> MaxId]
    BY <1>1, <2>1 DEF Job
  <2>3. y \in Job
    <3>1. MaxId \in 0..MaxRows
      BY <1>1, MaxIdFacts
    <3> QED BY <2>2, <3>1, JobFacts DEF Job, Places
  <2>4. doing' = [doing EXCEPT ![p] = y] /\ cache' = cache /\ aborting' = aborting
    BY <2>1, <1>1, <1>10 DEF ReadMaxId
  <2> QED BY <1>2, <1>6, <2>3, <2>4
<1>11. CASE OpenV22Fails(p)
  <2>1. PICK y : y = [doing[p] EXCEPT !.at = "tail", !.n = 0]
    OBVIOUS
  <2>2. y = [at |-> "tail", anchor |-> doing[p].anchor, v22 |-> doing[p].v22,
             prev |-> doing[p].prev, n |-> 0]
    BY <1>1, <2>1 DEF Job
  <2>3. y \in Job
    BY <2>2, JobFacts, Bounds DEF Job, Places
  <2>4. doing' = [doing EXCEPT ![p] = y] /\ cache' = cache /\ aborting' = aborting
    BY <2>1, <1>1, <1>11 DEF OpenV22Fails
  <2> QED BY <1>2, <1>6, <2>3, <2>4
<1>12. CASE OpenFreshFails(p)
  <2>1. PICK y : y = [Idle EXCEPT !.at = "tail", !.anchor = None, !.v22 = TRUE]
    OBVIOUS
  <2>2. y = [at |-> "tail", anchor |-> 0, v22 |-> TRUE, prev |-> 0, n |-> 0]
    BY <2>1 DEF Idle, None
  <2>3. y \in Job
    BY <2>2, Bounds DEF Job, Places
  <2>4. doing' = [doing EXCEPT ![p] = y] /\ cache' = cache /\ aborting' = aborting
    BY <2>1, <1>12 DEF OpenFreshFails
  <2> QED BY <1>2, <1>6, <2>3, <2>4
<1>13. CASE Refill(p)
  <2> DEFINE x == [Empty EXCEPT !.anchor = Latest]
             y == [doing[p] EXCEPT !.at = "tail"]
  <2>1. x \in Caches /\ y \in Job
    BY <1>1, <1>3, Bounds DEF Empty, Caches, Places
  <2>2. cache' = [cache EXCEPT ![p] = x] /\ doing' = [doing EXCEPT ![p] = y] /\ aborting' = aborting
    BY <1>13 DEF Refill, Go
  <2> HIDE DEF x, y
  <2> QED BY <1>6, <2>1, <2>2
<1>14. CASE InsertFails(p) \/ RepairFails(p)
  <2>1. doing' = [doing EXCEPT ![p] = Idle] /\ cache' = cache /\ aborting' = aborting
    BY <1>14 DEF InsertFails, RepairFails
  <2> QED BY <1>2, <1>6, <2>1
<1>15. CASE Catch(p)
  <2>1. /\ cache' = [cache EXCEPT ![p] = Empty] /\ doing' = doing
        /\ aborting' = [aborting EXCEPT ![p] = FALSE]
    BY <1>15 DEF Catch
  <2> QED BY <1>2, <1>6, <2>1
<1>16. CASE Restart(p)
  <2>1. /\ cache' = [cache EXCEPT ![p] = Empty] /\ doing' = [doing EXCEPT ![p] = Idle]
        /\ aborting' = [aborting EXCEPT ![p] = FALSE]
    BY <1>16 DEF Restart
  <2> QED BY <1>2, <1>6, <2>1
<1>17. ASSUME NEW from \in 1..MaxRows, NEW force \in BOOLEAN, Probe(p, from, force)
       PROVE  ChainTypeOK'
  <2>1. PICK y : y = [Idle EXCEPT !.at = "repair", !.n = from]
    OBVIOUS
  <2>2. y = [at |-> "repair", anchor |-> -1, v22 |-> FALSE, prev |-> 0, n |-> from]
    BY <2>1 DEF Idle, None, NoAnchor
  <2>3. y \in Job
    BY <1>1, <2>2, Bounds DEF Job, Places
  <2>4. doing' = [doing EXCEPT ![p] = y] /\ cache' = cache /\ aborting' = aborting
    BY <2>1, <1>17 DEF Probe
  <2> QED BY <1>2, <1>6, <2>3, <2>4
<1> QED BY <1>8, <1>9, <1>10, <1>11, <1>12, <1>13, <1>14, <1>15, <1>16, <1>17

\* Steps of one process that open an anchor, read a hash, write rows or fail to.
LEMMA SharedTypes ==
  ASSUME ChainTypeOK, TableFacts, NEW p \in Processes, Believes(p),
         \/ OpenFresh(p) \/ OpenV22(p) \/ ReadTail(p)
         \/ Insert(p) \/ Outbox(p) \/ OutboxFails(p)
  PROVE  ChainTypeOK'
<1>1. /\ rows \subseteq Row /\ lastId \in 0..MaxRows
      /\ \A r \in rows : r.id <= lastId
      /\ \A r, s \in rows : r.id = s.id => r = s
      /\ cache \in [Processes -> Caches] /\ doing \in [Processes -> Job] /\ doing[p] \in Job
      /\ cache[p] \in Caches /\ cache[p].tail \in Nat
      /\ aborting \in [Processes -> BOOLEAN]
      /\ Latest \in Nat /\ Latest <= MaxAnchors /\ MaxRows \in Nat /\ MaxAnchors \in Nat
      /\ lastId \in Nat /\ lastId <= MaxRows /\ Lost = MaxRows + 1
  BY TypeFacts, Bounds DEF ChainTypeOK, Caches
<1>2. Committed(p) /\ OwnTail(p) /\ Chosen(p)
  BY DEF Believes
<1>3. rows' = rows /\ lastId' = lastId => RowTypes'
  BY <1>1 DEF RowTypes
<1>4. ASSUME NEW a \in NoAnchor..MaxAnchors, NEW n \in 0..Lost
      PROVE  [anchor |-> a, tail |-> n] \in Caches
  BY DEF Caches
<1>5. ASSUME Latest < MaxAnchors, NEW place \in Places
      PROVE  [Idle EXCEPT !.at = place, !.anchor = Latest + 1, !.v22 = TRUE] \in Job
  <2>1. PICK y : y = [Idle EXCEPT !.at = place, !.anchor = Latest + 1, !.v22 = TRUE]
    OBVIOUS
  <2>2. y = [at |-> place, anchor |-> Latest + 1, v22 |-> TRUE, prev |-> 0, n |-> 0]
    BY <2>1 DEF Idle, None
  <2>3. Latest + 1 \in NoAnchor..MaxAnchors
    BY <1>1, <1>5, Bounds
  <2>4. y \in Job
    BY <1>1, <2>2, <2>3 DEF Job
  <2> QED BY <2>1, <2>4
<1>6. CASE OpenFresh(p)
  <2>1. AnchorsGrow
    BY <1>6, OpenFreshBelieves
  <2>2. Latest < MaxAnchors
    BY <1>1, <1>6 DEF OpenFresh, AfterMaxAnchors
  <2>3. PICK y : y = [Idle EXCEPT !.at = "tail", !.anchor = Latest + 1, !.v22 = TRUE]
    OBVIOUS
  <2>4. y \in Job /\ doing' = [doing EXCEPT ![p] = y]
    BY <1>5, <1>6, <2>2, <2>3 DEF OpenFresh, Places
  <2>5. cache' \in [Processes -> Caches]
    <3>1. [cache[p] EXCEPT !.anchor = Latest + 1] \in Caches
      BY <1>1, <2>2, Bounds DEF Caches
    <3>2. cache' = [cache EXCEPT ![p] = [cache[p] EXCEPT !.anchor = Latest + 1]]
      BY <1>6 DEF OpenFresh
    <3> QED BY <1>1, <3>1, <3>2
  <2>6. rows' = rows /\ lastId' = lastId /\ aborting' = aborting
    BY <1>6 DEF OpenFresh
  <2> QED BY <1>1, <1>3, <2>1, <2>4, <2>5, <2>6, TypesJoin
<1>7. CASE OpenV22(p)
  <2>1. AnchorsGrow
    BY <1>7, OpenV22Believes
  <2>2. Latest < MaxAnchors
    BY <1>1, <1>7 DEF OpenV22, AfterMaxAnchors
  <2>3. PICK y : y = [Idle EXCEPT !.at = "refill", !.anchor = Latest + 1, !.v22 = TRUE]
    OBVIOUS
  <2>4. y \in Job /\ doing' = [doing EXCEPT ![p] = y]
    BY <1>5, <1>7, <2>2, <2>3 DEF OpenV22, Places
  <2>5. rows' = rows /\ lastId' = lastId /\ aborting' = aborting /\ cache' = cache
    BY <1>7 DEF OpenV22
  <2> QED BY <1>1, <1>3, <2>1, <2>4, <2>5, TypesJoin
<1>8. CASE ReadTail(p)
  <2> DEFINE t == TailOf(cache[p], doing[p].anchor)
  <2>1. t \in 0..Lost
    <3>1. /\ t \in Nat
          /\ t <= lastId \/ (t = Lost /\ aborting[p])
      BY <1>1, <1>2, TailFacts DEF Committed, OwnTail
    <3> HIDE DEF t
    <3> QED BY <1>1, <3>1
  <2>2. PICK x : x = WithTail(cache[p], doing[p].anchor)
    OBVIOUS
  <2>3. x \in Caches
    <3>1. x = [cache[p] EXCEPT !.tail = IF t = None THEN cache[p].tail ELSE t]
      BY <1>1, <2>2 DEF WithTail, Caches
    <3> HIDE DEF t
    <3> QED BY <1>1, <2>1, <3>1 DEF Caches
  <2>4. PICK y : y = [doing[p] EXCEPT !.at = "insert", !.prev = t]
    OBVIOUS
  <2>5. y \in Job
    <3> HIDE DEF t
    <3>1. y = [at |-> "insert", anchor |-> doing[p].anchor, v22 |-> doing[p].v22,
               prev |-> t, n |-> doing[p].n]
      BY <1>1, <2>4 DEF Job
    <3> QED BY <2>1, <3>1, JobFacts DEF Job, Places
  <2>6. cache' = [cache EXCEPT ![p] = x] /\ doing' = [doing EXCEPT ![p] = y]
    BY <1>1, <1>8, <2>2, <2>4 DEF ReadTail
  <2>7. rows' = rows /\ lastId' = lastId /\ aborting' = aborting /\ anchors' = anchors
    BY <1>8 DEF ReadTail
  <2> HIDE DEF t
  <2> QED BY <1>1, <1>3, <2>3, <2>5, <2>6, <2>7, TypesJoin
<1>9. CASE Insert(p)
  <2> DEFINE a == doing[p].anchor
  <2>1. /\ a \in 0..MaxAnchors /\ doing[p].v22 \in BOOLEAN /\ doing[p].prev \in 0..Lost
        /\ lastId < MaxRows
    BY <1>1, <1>2, <1>9, JobFacts, Bounds DEF Insert, Chosen, Writing
  <2>2. Inserted(p, a, doing[p].v22, doing[p].prev)
    BY <1>9 DEF Insert, Inserted
  <2>3. RowTypes'
    BY <2>1, <2>2, RowTypesInserted
  <2>4. cache' = [cache EXCEPT ![p] = Recorded(a)] /\ doing' = [doing EXCEPT ![p] = Idle]
        /\ aborting' = aborting /\ anchors' = anchors
    BY <1>9 DEF Insert
  <2>5. Recorded(a) \in Caches /\ Idle \in Job
    BY <1>1, <2>1, Bounds DEF Recorded, Caches, Idle, Job, Places
  <2> HIDE DEF a
  <2> QED BY <1>1, <2>3, <2>4, <2>5, TypesJoin
<1>10. CASE Outbox(p)
  <2>1. doing[p].at = "idle" /\ lastId < MaxRows /\ lastId' = lastId + 1 /\ doing' = doing /\ aborting' = aborting
    BY <1>10 DEF Outbox
  <2>2. PICK a \in OutboxAnchors(p) :
          /\ rows' = rows \cup {NewRow(p, a, ShapeOf(a), OutboxTail(p, a))}
          /\ cache' = [cache EXCEPT ![p] = Recorded(a)]
          /\ \/ Latest = 0 /\ ~AfterMaxAnchors /\ anchors' = Opened("fresh", 0, p)
             \/ UNCHANGED anchors
    BY <1>10 DEF Outbox
  <2>3. /\ a \in 0..MaxAnchors /\ OutboxTail(p, a) \in Nat
        /\ OutboxTail(p, a) <= lastId \/ (OutboxTail(p, a) = Lost /\ aborting[p])
    BY <2>1, OutboxFacts
  <2>4. OutboxTail(p, a) \in 0..Lost
    BY <1>1, <2>3
  <2>5. ShapeOf(a) \in BOOLEAN
    BY DEF ShapeOf
  <2>6. RowTypes'
    <3>1. Inserted(p, a, ShapeOf(a), OutboxTail(p, a))
      BY <2>1, <2>2 DEF Inserted
    <3> QED BY <2>3, <2>4, <2>5, <3>1, RowTypesInserted
  <2>7. Recorded(a) \in Caches
    BY <1>1, <2>1, <2>3, Bounds DEF Recorded, Caches
  <2>8. AnchorsGrow \/ UNCHANGED anchors
    BY <1>1, <2>2, Opening DEF Reasons
  <2> QED BY <1>1, <2>1, <2>2, <2>6, <2>7, <2>8, TypesJoin
<1>11. CASE OutboxFails(p)
  <2>1. /\ doing[p].at = "idle" /\ rows' = rows /\ lastId' = lastId /\ doing' = doing /\ anchors' = anchors
        /\ aborting' = [aborting EXCEPT ![p] = TRUE]
    BY <1>11 DEF OutboxFails
  <2>2. cache' \in [Processes -> Caches]
    <3>1. ASSUME NEW a \in OutboxAnchors(p)
          PROVE  [anchor |-> a, tail |-> Lost] \in Caches /\ OutboxCache(p, a) \in Caches
      <4>1. /\ a \in 0..MaxAnchors /\ OutboxTail(p, a) \in Nat
            /\ OutboxTail(p, a) <= lastId \/ (OutboxTail(p, a) = Lost /\ aborting[p])
        BY <2>1, OutboxFacts
      <4>2. PICK c : c = [cache[p] EXCEPT !.anchor = IF a = None THEN @ ELSE a]
        OBVIOUS
      <4>3. c \in Caches
        BY <1>1, <4>1, <4>2, Bounds DEF Caches
      <4>4. OutboxCache(p, a) = [c EXCEPT !.tail = IF OutboxTail(p, a) = None THEN @ ELSE OutboxTail(p, a)]
        BY <4>2 DEF OutboxCache, OutboxTail, WithTail
      <4>5. OutboxTail(p, a) \in 0..Lost
        BY <1>1, <4>1
      <4>6. OutboxCache(p, a) \in Caches
        BY <4>3, <4>4, <4>5 DEF Caches
      <4>7. [anchor |-> a, tail |-> Lost] \in Caches
        BY <1>1, <4>1, Bounds DEF Caches
      <4> QED BY <4>6, <4>7
    <3> QED BY <1>1, <1>11, <3>1 DEF OutboxFails
  <2> QED BY <1>1, <1>3, <2>1, <2>2, TypesJoin
<1> QED BY <1>6, <1>7, <1>8, <1>9, <1>10, <1>11

\* Rows left as they are, marked or pruned.
LEMMA KeptRows ==
  ASSUME ChainTypeOK, rows' = rows, lastId' = lastId
  PROVE  Weakened
BY DEF Weakened, SameWrite

LEMMA MarkedOrPruned ==
  ASSUME ChainTypeOK, Surface \/ Prune
  PROVE  ChainTypeOK' /\ Weakened
<1>1. /\ rows \subseteq Row /\ lastId \in 0..MaxRows
      /\ \A r \in rows : r.id <= lastId
      /\ \A r, s \in rows : r.id = s.id => r = s
      /\ cache \in [Processes -> Caches] /\ doing \in [Processes -> Job]
      /\ aborting \in [Processes -> BOOLEAN]
  BY DEF ChainTypeOK, Caches
<1>2. UNCHANGED <<lastId, anchors, cache, doing, aborting>>
  BY DEF Surface, Prune
<1>3. CASE Surface
  <2>1. PICK r \in rows : r.hashed /\ rows' = (rows \ {r}) \cup {[r EXCEPT !.surfaced = TRUE]}
    BY <1>3 DEF Surface
  <2>2. PICK s : s = [r EXCEPT !.surfaced = TRUE]
    OBVIOUS
  <2>3. s \in Row /\ s.id = r.id /\ SameWrite(r, s)
    BY <1>1, <2>1, <2>2 DEF Row, SameWrite
  <2>4. rows' = (rows \ {r}) \cup {s}
    BY <2>1, <2>2
  <2>5. RowTypes'
    BY <1>1, <1>2, <2>3, <2>4 DEF RowTypes
  <2>6. Weakened
    BY <1>2, <2>3, <2>4 DEF Weakened, SameWrite
  <2> QED BY <1>1, <1>2, <2>5, <2>6, TypesJoin
<1>4. CASE Prune
  <2>1. rows' \subseteq rows
    BY <1>4 DEF Prune
  <2>2. RowTypes'
    BY <1>1, <1>2, <2>1 DEF RowTypes
  <2>3. Weakened
    BY <1>2, <2>1 DEF Weakened, SameWrite
  <2> QED BY <1>1, <1>2, <2>2, <2>3, TypesJoin
<1> QED BY <1>3, <1>4

\* The rows and anchors after a repair.
LEMMA Repairing ==
  ASSUME ChainTypeOK, NEW p \in Processes, Believes(p), Repair(p)
  PROVE  /\ ChainTypeOK' /\ Weakened /\ AnchorsGrow
         /\ Latest' = Latest + 1 /\ anchors'[Latest + 1].by = p
         /\ cache'[p] = Empty /\ doing'[p] = Idle
<1>1. /\ rows \subseteq Row /\ lastId \in 0..MaxRows /\ lastId \in Nat
      /\ \A r \in rows : r.id <= lastId
      /\ \A r, s \in rows : r.id = s.id => r = s
      /\ cache \in [Processes -> Caches] /\ doing \in [Processes -> Job]
      /\ aborting \in [Processes -> BOOLEAN]
      /\ Latest \in Nat /\ Latest <= MaxAnchors /\ MaxAnchors \in Nat
      /\ doing[p].n \in Nat /\ doing[p].n <= lastId
  BY TypeFacts, JobFacts, Bounds DEF ChainTypeOK, Caches, Believes, Chosen
<1>2. /\ lastId' = lastId /\ aborting' = aborting
      /\ cache' = [cache EXCEPT ![p] = Empty] /\ doing' = [doing EXCEPT ![p] = Idle]
      /\ ~AfterMaxAnchors /\ anchors' = Opened("repair", doing[p].n, p)
  BY DEF Repair
<1>3. AnchorsGrow /\ Latest' = Latest + 1 /\ anchors'[Latest + 1].by = p
  BY <1>1, <1>2, Opening DEF Reasons
<1>4. \A s \in rows' : \E r \in rows : s = r \/ s = Rebound(r, Latest + 1)
  BY DEF Repair
<1>5. \A r \in rows : LET s == Rebound(r, Latest + 1) IN
        s \in Row /\ s.id = r.id /\ s.hashed = FALSE /\ s.prev = None
  <2> TAKE r \in rows
  <2>1. r.id \in 1..MaxRows /\ Latest + 1 \in 0..MaxAnchors
    BY <1>1, <1>2 DEF Row, AfterMaxAnchors
  <2> QED BY <2>1, Bounds DEF Rebound, Row
<1>6. RowTypes'
  <2>1. \A s \in rows' : s \in Row /\ s.id <= lastId
    BY <1>1, <1>4, <1>5
  <2>2. ASSUME NEW s \in rows', NEW t \in rows', s.id = t.id PROVE s = t
    <3>1. PICK r \in rows : s = IF r.id >= doing[p].n THEN Rebound(r, Latest + 1) ELSE r
      BY DEF Repair
    <3>2. PICK q \in rows : t = IF q.id >= doing[p].n THEN Rebound(q, Latest + 1) ELSE q
      BY DEF Repair
    <3>3. r.id = s.id /\ q.id = t.id
      BY <1>5, <3>1, <3>2
    <3> QED BY <1>1, <2>2, <3>1, <3>2, <3>3
  <2> QED BY <1>1, <1>2, <2>1, <2>2 DEF RowTypes
<1>7. Weakened
  BY <1>2, <1>4, <1>5 DEF Weakened, SameWrite
<1>8. Empty \in Caches /\ Idle \in Job
  BY Bounds DEF Idle, Job, Places, Empty, Caches
<1>9. cache' \in [Processes -> Caches] /\ doing' \in [Processes -> Job]
  BY <1>1, <1>2, <1>8
<1>10. ChainTypeOK'
  BY <1>1, <1>2, <1>3, <1>6, <1>9, TypesJoin
<1> QED BY <1>1, <1>2, <1>3, <1>7, <1>10

-----------------------------------------------------------------------------
\* A step of p changes nobody else's cache, write or rollback.
OnlyOf(p) ==
  \A q \in Processes \ {p} : cache'[q] = cache[q] /\ doing'[q] = doing[q] /\ aborting'[q] = aborting[q]

LEMMA AllBelieve ==
  ASSUME ChainTypeOK, ChainTypeOK', NEW p \in Processes, \A q \in Processes : Believes(q), Believes(p)',
         OnlyOf(p), AnchorsGrow, lastId <= lastId',
         \A a \in 1..Latest' : a > Latest => anchors'[a].by = p,
         \A q \in Processes \ {p} : RowsTame(q)
  PROVE  \A q \in Processes : Believes(q)'
<1> SUFFICES ASSUME NEW q \in Processes, q # p PROVE Believes(q)'
  OBVIOUS
<1>1. AnchorsTame(q)
  BY DEF AnchorsTame
<1>2. lastId' \in Nat
  BY Bounds DEF ChainTypeOK
<1> QED BY <1>1, <1>2, OthersKeepBeliefs DEF OnlyOf

\* A step of p that leaves the rows alone.
LEMMA Assembled ==
  ASSUME ChainInvariant, ChainTypeOK', NEW p \in Processes, Believes(p)', Weakened, AnchorsGrow,
         \A a \in 1..Latest' : a > Latest => anchors'[a].by = p, OnlyOf(p)
  PROVE  ChainInvariant'
<1>1. ChainTypeOK /\ TableFacts /\ \A q \in Processes : Believes(q)
  BY DEF ChainInvariant, TableFacts
<1>2. TableFacts'
  BY <1>1, TableWeakened
<1>3. lastId <= lastId'
  BY <1>1, TypeFacts DEF Weakened
<1>4. \A q \in Processes : Believes(q)'
  BY <1>1, <1>3, AllBelieve, WeakenedIsTame
<1> QED BY <1>2, <1>4 DEF ChainInvariant, TableFacts

LEMMA PrivateStep ==
  ASSUME ChainInvariant, NEW p \in Processes,
         \/ \E browser \in BOOLEAN : Resolve(p, browser)
         \/ FindV22(p) \/ ReadMaxId(p) \/ OpenV22Fails(p) \/ OpenFreshFails(p) \/ Refill(p)
         \/ InsertFails(p) \/ Catch(p) \/ RepairFails(p) \/ Restart(p)
         \/ \E from \in 1..MaxRows, force \in BOOLEAN : Probe(p, from, force)
  PROVE  ChainInvariant'
<1>1. ChainTypeOK /\ TableFacts /\ Believes(p)
  BY DEF ChainInvariant, TableFacts
<1>2. ChainTypeOK'
  BY <1>1, PrivateTypes
<1>3. rows' = rows /\ lastId' = lastId /\ anchors' = anchors
  BY DEF Resolve, FindV22, ReadMaxId, OpenV22Fails, OpenFreshFails, Refill, InsertFails, Catch,
         RepairFails, Restart, Probe
<1>4. Weakened /\ AnchorsGrow /\ Latest' = Latest /\ Latest \in Nat /\ lastId \in Nat
  BY <1>1, <1>3, KeptRows, NotOpening, TypeFacts
<1>5. OnlyOf(p)
  <2>1. /\ cache \in [Processes -> Caches] /\ doing \in [Processes -> Job]
        /\ aborting \in [Processes -> BOOLEAN]
    BY <1>1 DEF ChainTypeOK, Caches
  <2>2. CASE \E browser \in BOOLEAN : Resolve(p, browser)
    BY <2>1, <2>2 DEF Resolve, With, Go, OnlyOf
  <2>3. CASE FindV22(p) \/ ReadMaxId(p) \/ OpenV22Fails(p) \/ OpenFreshFails(p)
    BY <2>1, <2>3 DEF FindV22, ReadMaxId, OpenV22Fails, OpenFreshFails, Go, OnlyOf
  <2>4. CASE Refill(p) \/ InsertFails(p) \/ Catch(p) \/ RepairFails(p) \/ Restart(p)
    BY <2>1, <2>4 DEF Refill, InsertFails, Catch, RepairFails, Restart, Go, OnlyOf
  <2>5. CASE \E from \in 1..MaxRows, force \in BOOLEAN : Probe(p, from, force)
    BY <2>1, <2>5 DEF Probe, OnlyOf
  <2> QED BY <2>2, <2>3, <2>4, <2>5
<1>6. Believes(p)'
  <2>1. CASE InsertFails(p) \/ RepairFails(p)
    <3>1. /\ doing[p].at \in {"insert", "repair"} /\ doing'[p] = Idle
          /\ UNCHANGED <<rows, lastId, anchors, cache, aborting>>
      BY <1>1, <2>1 DEF InsertFails, RepairFails, ChainTypeOK
    <3>2. /\ doing'[p].at = "idle" /\ doing'[p].anchor = NoAnchor /\ doing'[p].prev = None
          /\ doing'[p].n \in Nat /\ doing'[p].n <= lastId
      BY <1>4, <3>1 DEF Idle
    <3> QED BY <1>1, <3>1, <3>2, QuietBelieves
  <2>2. ASSUME NEW from \in 1..MaxRows, NEW force \in BOOLEAN, Probe(p, from, force)
        PROVE  Believes(p)'
    <3>1. /\ doing[p].at = "idle" /\ doing'[p] = [Idle EXCEPT !.at = "repair", !.n = from]
          /\ UNCHANGED <<rows, lastId, anchors, cache, aborting>> /\ MaxId >= from
      BY <1>1, <2>2 DEF Probe, ChainTypeOK
    <3>2. /\ doing'[p].at = "repair" /\ doing'[p].anchor = NoAnchor /\ doing'[p].prev = None
          /\ doing'[p].n = from
      BY <3>1 DEF Idle
    <3>3. from \in Nat /\ from <= lastId
      BY <1>1, <1>4, <3>1, MaxIdFacts, Bounds
    <3> QED BY <1>1, <3>1, <3>2, <3>3, QuietBelieves
  <2>3. CASE Catch(p)
    <3>1. doing[p] = Idle
      BY <1>1, <2>3 DEF Catch, Believes, Chosen
    <3>2. cache'[p] = Empty /\ doing'[p] = Idle
      BY <1>1, <2>3, <3>1 DEF Catch, ChainTypeOK
    <3> QED BY <1>1, <1>3, <1>4, <3>2, ColdBelieves
  <2>4. CASE Restart(p)
    <3>1. cache'[p] = Empty /\ doing'[p] = Idle
      BY <1>1, <2>4 DEF Restart, ChainTypeOK
    <3> QED BY <1>1, <1>3, <1>4, <3>1, ColdBelieves
  <2> QED BY <1>1, <2>1, <2>2, <2>3, <2>4, ResolveBelieves, FindV22Believes, ReadMaxIdBelieves,
             OpenV22FailsBelieves, OpenFreshFailsBelieves, RefillBelieves
<1> QED BY <1>2, <1>4, <1>5, <1>6, Assembled

LEMMA SharedStep ==
  ASSUME ChainInvariant, NEW p \in Processes,
         OpenFresh(p) \/ OpenV22(p) \/ ReadTail(p) \/ Insert(p) \/ Outbox(p) \/ OutboxFails(p)
  PROVE  ChainInvariant'
<1>1. ChainTypeOK /\ TableFacts /\ \A q \in Processes : Believes(q)
  BY DEF ChainInvariant, TableFacts
<1>2. ChainTypeOK'
  BY <1>1, SharedTypes
<1>3. OnlyOf(p)
  <2>1. /\ cache \in [Processes -> Caches] /\ doing \in [Processes -> Job]
        /\ aborting \in [Processes -> BOOLEAN]
    BY <1>1 DEF ChainTypeOK, Caches
  <2>2. CASE OpenFresh(p) \/ OpenV22(p)
    BY <2>1, <2>2 DEF OpenFresh, OpenV22, OnlyOf
  <2>3. CASE ReadTail(p) \/ Insert(p)
    BY <2>1, <2>3 DEF ReadTail, Insert, OnlyOf
  <2>4. CASE Outbox(p)
    BY <2>1, <2>4 DEF Outbox, OnlyOf
  <2>5. CASE OutboxFails(p)
    BY <2>1, <2>5 DEF OutboxFails, OnlyOf
  <2> QED BY <2>2, <2>3, <2>4, <2>5
<1>4. CASE OpenFresh(p) \/ OpenV22(p)
  <2>1. PICK reason \in {"fresh", "v22"}, start \in Nat :
          start <= lastId /\ anchors' = Opened(reason, start, p)
    <3>1. CASE OpenFresh(p)
      <4>1. anchors' = Opened("fresh", 0, p) /\ 0 \in Nat /\ 0 <= lastId
        BY <1>1, <3>1, TypeFacts DEF OpenFresh
      <4> QED BY <4>1
    <3>2. CASE OpenV22(p)
      BY <1>1, <3>2, JobFacts DEF OpenV22, Believes, Chosen
    <3> QED BY <1>4, <3>1, <3>2
  <2>2. AnchorsGrow /\ Latest' = Latest + 1 /\ anchors'[Latest + 1].by = p
    BY <1>1, <1>4, <2>1, Opening DEF OpenFresh, OpenV22, Reasons
  <2>3. \A a \in 1..Latest' : a > Latest => anchors'[a].by = p
    <3>1. \A a \in 1..Latest' : a > Latest => a = Latest + 1
      BY <1>1, <2>2, TypeFacts
    <3> QED BY <2>2, <3>1
  <2>4. Weakened
    BY <1>1, <1>4, KeptRows DEF OpenFresh, OpenV22
  <2> QED BY <1>1, <1>2, <1>3, <1>4, <2>2, <2>3, <2>4, OpenFreshBelieves, OpenV22Believes, Assembled
<1>5. CASE ReadTail(p) \/ OutboxFails(p)
  <2>1. rows' = rows /\ lastId' = lastId /\ anchors' = anchors
    BY <1>5 DEF ReadTail, OutboxFails
  <2>2. Weakened /\ AnchorsGrow /\ Latest' = Latest /\ Latest \in Nat
    BY <1>1, <2>1, KeptRows, NotOpening, TypeFacts
  <2> QED BY <1>1, <1>2, <1>3, <1>5, <2>2, ReadTailBelieves, OutboxFailsBelieves, Assembled
<1>6. CASE Insert(p) \/ Outbox(p)
  <2>1. /\ AnchorsGrow /\ Believes(p)' /\ TableFacts'
        /\ \A b \in 1..Latest' : b > Latest => anchors'[b].by = p
        /\ \A q \in Processes \ {p} : RowsTame(q)
    <3>1. CASE Insert(p)
      <4>1. /\ AnchorsGrow /\ Believes(p)'
            /\ MayWrite(p, doing[p].anchor, doing[p].v22, doing[p].prev)
            /\ Inserted(p, doing[p].anchor, doing[p].v22, doing[p].prev)
        BY <1>1, <1>2, <3>1, InsertBelieves
      <4>2. Latest' = Latest /\ Latest \in Nat
        BY <1>1, <3>1, NotOpening, TypeFacts DEF Insert
      <4>3. TableFacts'
        BY <1>1, <1>2, <4>1, TableInserted
      <4>4. \A q \in Processes \ {p} : RowsTame(q)
        BY <4>1, InsertedIsTame
      <4> QED BY <4>1, <4>2, <4>3, <4>4
    <3>2. CASE Outbox(p)
      BY <1>1, <1>2, <3>2, OutboxBelieves
    <3> QED BY <1>6, <3>1, <3>2
  <2>2. lastId <= lastId'
    BY <1>1, <1>6, TypeFacts DEF Insert, Outbox
  <2>3. \A q \in Processes : Believes(q)'
    BY <1>1, <1>2, <1>3, <2>1, <2>2, AllBelieve
  <2> QED BY <1>2, <2>1, <2>3 DEF ChainInvariant, TableFacts
<1> QED BY <1>4, <1>5, <1>6

-----------------------------------------------------------------------------
\* The chain an earlier release leaves: one anchor, or a repair's behind it.
LEMMA OldChainFacts ==
  ASSUME NEW chain \in OldChains
  PROVE  /\ chain \in Seq(Anchor) /\ Len(chain) \in {1, 2} /\ Len(chain) <= MaxAnchors
         /\ \A a \in 1..Len(chain) :
              /\ chain[a].by = Nobody /\ chain[a].reason # "legacy"
              /\ chain[a].reason = "fresh" => a = 1
              /\ chain[a].start \in 0..MaxRows /\ chain[a].at \in 0..MaxRows
              /\ chain[a].start <= chain[a].at
<1> DEFINE Good(x) == /\ x \in Anchor /\ x.by = Nobody /\ x.reason # "legacy"
                      /\ x.start \in 0..MaxRows /\ x.at \in 0..MaxRows /\ x.start <= x.at
<1>1. ASSUME NEW reason \in {"fresh", "v5", "repair"}, NEW n \in 0..MaxRows, NEW m \in 0..MaxRows, n <= m
      PROVE  Good(OldAnchor(reason, n, m)) /\ OldAnchor(reason, n, m).reason = reason
  BY <1>1, Bounds DEF OldAnchor, Anchor, Reasons
<1>2. ASSUME NEW f \in OldFirstAnchors PROVE Good(f)
  <2>1. f = OldAnchor("fresh", 0, 0) \/ \E n \in 1..MaxRows : f = OldAnchor("v5", n, n)
    BY <1>2 DEF OldFirstAnchors
  <2>2. 0 \in 0..MaxRows /\ \A n \in 1..MaxRows : n \in 0..MaxRows /\ n <= n
    BY Bounds
  <2> HIDE DEF Good
  <2> QED BY <1>1, <2>1, <2>2
<1>3. ASSUME NEW g \in OldRepairAnchors, g.start <= g.at PROVE Good(g) /\ g.reason = "repair"
  <2>1. PICK n \in 1..MaxRows, m \in 1..MaxRows : g = OldAnchor("repair", n, m)
    BY <1>3 DEF OldRepairAnchors
  <2>2. n \in 0..MaxRows /\ m \in 0..MaxRows /\ n <= m
    BY <1>3, <2>1, Bounds DEF OldAnchor
  <2> HIDE DEF Good
  <2> QED BY <1>1, <2>1, <2>2
<1>4. CASE \E f \in OldFirstAnchors : chain = <<f>>
  <2>1. PICK f \in OldFirstAnchors : chain = <<f>>
    BY <1>4
  <2>2. Good(f) /\ Len(chain) = 1 /\ chain[1] = f /\ chain \in Seq(Anchor)
    BY <1>2, <2>1
  <2>3. \A a \in 1..Len(chain) : a = 1
    BY <2>2
  <2> QED BY <2>2, <2>3, Bounds
<1>5. CASE \E f \in OldFirstAnchors, g \in OldRepairAnchors :
             chain = <<f, g>> /\ g.start <= g.at /\ MaxAnchors > 1
  <2>1. PICK f \in OldFirstAnchors, g \in OldRepairAnchors :
               chain = <<f, g>> /\ g.start <= g.at /\ MaxAnchors > 1
    BY <1>5
  <2>2. /\ Good(f) /\ Good(g) /\ g.reason = "repair"
        /\ Len(chain) = 2 /\ chain[1] = f /\ chain[2] = g /\ chain \in Seq(Anchor)
    BY <1>2, <1>3, <2>1
  <2>3. \A a \in 1..Len(chain) : a = 1 \/ a = 2
    BY <2>2
  <2> QED BY <2>1, <2>2, <2>3, Bounds
<1> QED BY <1>4, <1>5 DEF OldChains

\* The table and the anchors of a database migrated to v29.
Inherited(chain, last) ==
  /\ \A a \in 1..Len(chain) : chain[1].at <= chain[a].at /\ chain[a].at <= last
  /\ rows = {OldRow(chain, n) : n \in 1..last} /\ lastId = last
  /\ anchors = MigrateV29(chain)

\* What a row of the old chain with id n is like.
OnChain(chain, r, n) ==
  /\ r \in Row /\ r.id = n /\ r.by = Nobody /\ r.v22 = FALSE /\ r.prev < n
  /\ r.anchor \in 1..Len(chain)
  /\ r.hashed => n > chain[r.anchor].at
  /\ r.prev = IF n > chain[r.anchor].at + 1 THEN n - 1 ELSE 0
  /\ Len(chain) = 2 /\ n > chain[2].at => r.anchor = 2

\* All that are migrated are.
LEMMA OldRowFacts ==
  ASSUME NEW chain \in OldChains, NEW last \in 0..MaxRows, NEW n \in 1..last,
         NEW r, r = OldRow(chain, n)
  PROVE  OnChain(chain, r, n)
<1> DEFINE l == Len(chain)
           a == IF l > 1 /\ n >= chain[l].start THEN l ELSE 1
           first == chain[a].at + 1
<1>1. /\ l \in {1, 2} /\ l <= MaxAnchors
      /\ \A b \in 1..l : chain[b].start \in Nat /\ chain[b].at \in Nat /\ chain[b].start <= chain[b].at
  BY OldChainFacts, Bounds
<1> HIDE DEF l
<1>2. n \in 1..MaxRows /\ n \in Nat \ {0}
  BY Bounds
<1>3. a \in 1..l /\ a \in 0..MaxAnchors
  <2>1. l \in Nat /\ 1 \in 1..l /\ l \in 1..l
    BY <1>1
  <2>2. 1 \in 0..MaxAnchors /\ l \in 0..MaxAnchors
    BY <1>1, <2>1, Bounds
  <2> QED BY <2>1, <2>2
<1>4. /\ r = [id |-> n, anchor |-> a, prev |-> IF n > first THEN n - 1 ELSE 0,
              hashed |-> n >= first, v22 |-> FALSE, surfaced |-> FALSE, by |-> Nobody,
              window |-> FALSE]
  BY DEF OldRow, None, l
<1>5. ASSUME l = 2, n > chain[2].at PROVE a = 2
  <2>1. 2 \in 1..l /\ l > 1
    BY <1>5
  <2>2. chain[2].start \in Nat /\ chain[2].at \in Nat /\ chain[2].start <= chain[2].at
    BY <1>1, <2>1
  <2>3. n >= chain[2].start
    BY <1>2, <1>5, <2>2
  <2> QED BY <1>5, <2>1, <2>3
<1> HIDE DEF a
<1>6. first \in Nat \ {0} /\ (n >= first => n > chain[a].at) /\ (n > first => n - 1 \in 0..Lost)
  BY <1>1, <1>2, <1>3, Bounds
<1>7. (IF n > first THEN n - 1 ELSE 0) \in 0..Lost /\ (IF n > first THEN n - 1 ELSE 0) < n
  BY <1>2, <1>6, Bounds
<1>8. r \in Row
  BY <1>2, <1>3, <1>4, <1>7 DEF Row
<1>9. /\ r.id = n /\ r.by = Nobody /\ r.v22 = FALSE /\ r.anchor = a
      /\ r.hashed = (n >= first) /\ r.prev = IF n > first THEN n - 1 ELSE 0
  BY <1>4
<1> QED BY <1>3, <1>5, <1>6, <1>7, <1>8, <1>9 DEF OnChain, l

\* The types of what the processes share.
TableTypes ==
  /\ rows \subseteq Row /\ lastId \in 0..MaxRows
  /\ \A r \in rows : r.id <= lastId
  /\ \A r, s \in rows : r.id = s.id => r = s
  /\ anchors \in Seq(Anchor) /\ Latest <= MaxAnchors

\* An old chain is a line, begun anew at its repair.
LEMMA InheritedTable ==
  ASSUME NEW chain \in OldChains, NEW last \in 0..MaxRows, Inherited(chain, last)
  PROVE  TableTypes /\ TableFacts
<1> DEFINE l == Len(chain)
<1>1. /\ l \in {1, 2} /\ l <= MaxAnchors
      /\ \A a \in 1..l :
           /\ chain[a] \in Anchor /\ chain[a].by = Nobody /\ chain[a].reason # "legacy"
           /\ chain[a].reason = "fresh" => a = 1
           /\ chain[a].start \in Nat /\ chain[a].at \in Nat /\ chain[a].start <= chain[a].at
  BY OldChainFacts, ElementOfSeq, Bounds
<1>2. /\ rows = {OldRow(chain, n) : n \in 1..last} /\ lastId = last /\ last \in Nat
      /\ \A a \in 1..l : chain[a].at <= last
  BY Bounds DEF Inherited
<1>3. \A a \in 1..l :
        anchors[a] = IF chain[a].reason = "fresh" THEN [chain[a] EXCEPT !.reason = "legacy"] ELSE chain[a]
  BY DEF Inherited, MigrateV29
<1>4. anchors = [a \in 1..l |-> anchors[a]] /\ l \in Nat
  BY <1>1 DEF Inherited, MigrateV29
<1>5. ASSUME NEW a \in 1..l
      PROVE  /\ anchors[a] \in Anchor /\ anchors[a].by = Nobody
             /\ anchors[a].start = chain[a].start /\ anchors[a].at = chain[a].at
             /\ anchors[a].reason = "legacy" => a = 1
  <2>1. CASE chain[a].reason = "fresh"
    <3>1. anchors[a] = [chain[a] EXCEPT !.reason = "legacy"] /\ chain[a] \in Anchor
      BY <1>1, <1>3, <2>1
    <3> QED BY <1>1, <2>1, <3>1 DEF Anchor, Reasons
  <2>2. CASE chain[a].reason # "fresh"
    BY <1>1, <1>3, <2>2
  <2> QED BY <2>1, <2>2
<1>6. anchors \in [1..l -> Anchor]
  BY <1>4, <1>5
<1>7. anchors \in Seq(Anchor) /\ Latest = l
  <2>1. anchors \in Seq(Anchor)
    BY <1>4, <1>6, IsASeq
  <2>2. DOMAIN anchors = 1..l
    BY <1>6
  <2> QED BY <1>4, <2>1, <2>2, LenProperties DEF Latest
<1>8. \A r \in rows :
        /\ r \in Row /\ r.id \in 1..last /\ r.id \in Nat /\ r = OldRow(chain, r.id)
        /\ r.by = Nobody /\ r.v22 = FALSE /\ r.prev < r.id
        /\ r.anchor \in 1..l
        /\ r.hashed => r.id > chain[r.anchor].at
        /\ r.prev = IF r.id > chain[r.anchor].at + 1 THEN r.id - 1 ELSE 0
        /\ l = 2 /\ r.id > chain[2].at => r.anchor = 2
  <2> TAKE r \in rows
  <2>1. PICK n \in 1..last : r = OldRow(chain, n)
    BY <1>2
  <2>2. OnChain(chain, r, n)
    BY <2>1, OldRowFacts
  <2>3. n \in Nat
    BY <1>2
  <2> QED BY <2>1, <2>2, <2>3 DEF OnChain
<1> HIDE DEF l
<1>9. TableTypes
  <2>1. rows \subseteq Row /\ \A r \in rows : r.id <= lastId
    BY <1>2, <1>8
  <2>2. \A r, s \in rows : r.id = s.id => r = s
    BY <1>8
  <2> QED BY <1>1, <1>2, <1>7, <2>1, <2>2 DEF TableTypes
<1>10. AnchorFacts
  BY <1>1, <1>2, <1>5, <1>7 DEF AnchorFacts
<1>11. RowFacts
  <2>1. \A r \in rows : r.anchor <= Latest /\ r.prev < r.id
    BY <1>1, <1>7, <1>8
  <2>2. \A r \in rows : r.v22 = ShapeOf(r.anchor) \/ Unrenamed(r)
    BY <1>8 DEF Unrenamed, ShapeOf
  <2> QED BY <2>1, <2>2 DEF RowFacts
<1>12. EveryRowIsWalked
  <2> SUFFICES ASSUME NEW r \in rows, r.hashed PROVE r.id > anchors[r.anchor].start
    BY DEF EveryRowIsWalked, Walked
  <2>1. r.anchor \in 1..l /\ r.id > chain[r.anchor].at /\ r.id \in Nat
    BY <1>2, <1>8
  <2> QED BY <1>1, <1>5, <2>1
<1>13. ForksTakeTwoWriters
  <2> SUFFICES ASSUME NEW r \in rows, NEW s \in rows, r # s, r.hashed, s.hashed,
                      r.anchor = s.anchor, r.prev = s.prev
               PROVE  FALSE
    BY DEF ForksTakeTwoWriters
  <2> DEFINE f == chain[r.anchor].at + 1
  <2>1. f \in Nat \ {0}
    BY <1>1, <1>8
  <2>2. /\ r.id \in Nat /\ r.id >= f /\ r.prev = IF r.id > f THEN r.id - 1 ELSE 0
    BY <1>1, <1>2, <1>8
  <2>3. /\ s.id \in Nat /\ s.id >= f /\ s.prev = IF s.id > f THEN s.id - 1 ELSE 0
    BY <1>1, <1>2, <1>8
  <2> HIDE DEF f
  <2>4. CASE r.id > f
    <3>1. r.prev = r.id - 1 /\ s.prev # 0
      BY <2>1, <2>2, <2>4
    <3>2. s.prev = s.id - 1
      BY <2>3, <3>1
    <3>3. r.id - 1 = s.id - 1
      BY <3>1, <3>2
    <3>4. r.id = s.id
      BY <2>2, <2>3, <3>3
    <3> QED BY <1>8, <3>4
  <2>5. CASE r.id = f
    <3>1. r.prev = 0
      BY <2>1, <2>2, <2>5
    <3>2. s.id = f
      BY <2>1, <2>3, <3>1
    <3> QED BY <1>8, <2>5, <3>2
  <2> QED BY <2>1, <2>2, <2>4, <2>5
<1>14. OwnAnchorIsFollowed
  <2> SUFFICES ASSUME NEW r \in rows, NEW a \in 1..l, r.id > chain[a].at PROVE r.anchor >= a
    BY <1>5, <1>7 DEF OwnAnchorIsFollowed
  <2>1. r.anchor \in 1..l
    BY <1>8
  <2>2. CASE a = 1
    BY <1>1, <2>1, <2>2
  <2>3. CASE a = 2 /\ l = 2
    BY <1>8, <2>3
  <2> QED BY <1>1, <2>2, <2>3
<1> QED BY <1>9, <1>10, <1>11, <1>12, <1>13, <1>14 DEF TableFacts

LEMMA ChainInvariantInit == ChainInit => ChainInvariant
<1> SUFFICES ASSUME ChainInit PROVE ChainInvariant
  OBVIOUS
<1>1. /\ cache = [p \in Processes |-> Empty] /\ doing = [p \in Processes |-> Idle]
      /\ aborting = [p \in Processes |-> FALSE]
  BY DEF ChainInit
<1>2. ASSUME rows = {}, lastId = 0, anchors = <<>> PROVE TableTypes /\ TableFacts
  <2>1. anchors \in Seq(Anchor) /\ Latest = 0 /\ 1..Latest = {}
    BY <1>2 DEF Latest
  <2>2. TableTypes
    BY <1>2, <2>1, Bounds DEF TableTypes
  <2>3. AnchorFacts /\ RowFacts
    BY <1>2, <2>1 DEF AnchorFacts, RowFacts
  <2>4. EveryRowIsWalked /\ ForksTakeTwoWriters /\ OwnAnchorIsFollowed
    BY <1>2 DEF EveryRowIsWalked, ForksTakeTwoWriters, OwnAnchorIsFollowed
  <2> QED BY <2>2, <2>3, <2>4 DEF TableFacts
<1>3. ASSUME \E chain \in OldChains, last \in 0..MaxRows : Inherited(chain, last)
      PROVE  TableTypes /\ TableFacts
  <2>1. PICK chain \in OldChains, last \in 0..MaxRows : Inherited(chain, last)
    BY <1>3
  <2> QED BY <2>1, InheritedTable
<1>4. TableTypes /\ TableFacts
  <2>1. \/ rows = {} /\ lastId = 0 /\ anchors = <<>>
        \/ \E chain \in OldChains, last \in 0..MaxRows : Inherited(chain, last)
    BY DEF ChainInit, Inherited
  <2> QED BY <1>2, <1>3, <2>1
<1>5. Empty \in Caches /\ Idle \in Job
  BY Bounds DEF Idle, Job, Places, Empty, Caches
<1>6. ChainTypeOK
  BY <1>1, <1>4, <1>5 DEF ChainTypeOK, TableTypes, Caches
<1>7. ASSUME NEW p \in Processes PROVE Believes(p)
  <2>1. /\ cache[p].anchor = -1 /\ cache[p].tail = 0 /\ doing[p] = Idle
        /\ doing[p].at = "idle" /\ doing[p].anchor = -1 /\ doing[p].prev = 0 /\ doing[p].n = 0
    BY <1>1 DEF Empty, Idle, NoAnchor, None
  <2>2. Chosen(p)
    BY <1>6, <2>1, TypeFacts DEF Chosen, Writing
  <2>3. Committed(p)
    BY <1>1, <1>6, <2>1, TypeFacts DEF Committed
  <2>4. OwnTail(p) /\ OwnRows(p)
    BY <2>1 DEF OwnTail, OwnRows, Unanchored, OnOldChain, Writing, NoAnchor, None
  <2>5. OwnAnchors(p)
    BY <2>1 DEF OwnAnchors, NoAnchor
  <2> QED BY <2>2, <2>3, <2>4, <2>5 DEF Believes
<1> QED BY <1>4, <1>6, <1>7 DEF ChainInvariant, TableFacts

LEMMA ChainInvariantStep == ChainInvariant /\ [ChainNext]_chainVars => ChainInvariant'
<1> SUFFICES ASSUME ChainInvariant, [ChainNext]_chainVars PROVE ChainInvariant'
  OBVIOUS
<1>1. ChainTypeOK /\ TableFacts /\ \A q \in Processes : Believes(q)
  BY DEF ChainInvariant, TableFacts
<1>2. ASSUME UNCHANGED <<cache, doing, aborting, anchors>>, ChainTypeOK', Weakened
      PROVE  ChainInvariant'
  <2>1. AnchorsGrow /\ Latest' = Latest /\ Latest \in Nat /\ lastId' = lastId /\ lastId \in Nat
    BY <1>1, <1>2, NotOpening, TypeFacts DEF Weakened
  <2>2. TableFacts'
    BY <1>1, <1>2, <2>1, TableWeakened
  <2>3. ASSUME NEW q \in Processes PROVE Believes(q)'
    <3>1. RowsTame(q) /\ AnchorsTame(q)
      BY <1>2, <2>1, WeakenedIsTame DEF AnchorsTame
    <3> QED BY <1>1, <1>2, <2>1, <3>1, OthersKeepBeliefs
  <2> QED BY <1>2, <2>2, <2>3 DEF ChainInvariant, TableFacts
<1>3. ASSUME NEW p \in Processes,
             \/ \E browser \in BOOLEAN : Resolve(p, browser)
             \/ FindV22(p) \/ ReadMaxId(p) \/ OpenV22Fails(p) \/ OpenFreshFails(p) \/ Refill(p)
             \/ InsertFails(p) \/ Catch(p) \/ RepairFails(p) \/ Restart(p)
             \/ \E from \in 1..MaxRows, force \in BOOLEAN : Probe(p, from, force)
      PROVE  ChainInvariant'
  BY <1>3, PrivateStep
<1>4. ASSUME NEW p \in Processes,
             OpenFresh(p) \/ OpenV22(p) \/ ReadTail(p) \/ Insert(p) \/ Outbox(p) \/ OutboxFails(p)
      PROVE  ChainInvariant'
  BY <1>4, SharedStep
<1>5. ASSUME NEW p \in Processes, Repair(p) PROVE ChainInvariant'
  <2>1. /\ ChainTypeOK' /\ Weakened /\ AnchorsGrow
        /\ Latest' = Latest + 1 /\ anchors'[Latest + 1].by = p
        /\ cache'[p] = Empty /\ doing'[p] = Idle
    BY <1>1, <1>5, Repairing
  <2>2. lastId' \in Nat /\ Latest' \in Nat
    BY <1>1, <2>1, TypeFacts DEF Weakened
  <2>3. Believes(p)'
    BY <1>1, <2>1, <2>2, ColdBelieves
  <2>4. \A a \in 1..Latest' : a > Latest => anchors'[a].by = p
    <3>1. \A a \in 1..Latest' : a > Latest => a = Latest + 1
      BY <1>1, <2>1, TypeFacts
    <3> QED BY <2>1, <3>1
  <2>5. OnlyOf(p)
    BY <1>1, <1>5 DEF Repair, OnlyOf, ChainTypeOK
  <2> QED BY <2>1, <2>3, <2>4, <2>5, Assembled
<1>6. CASE Surface \/ Prune
  <2>1. UNCHANGED <<cache, doing, aborting, anchors>>
    BY <1>6 DEF Surface, Prune
  <2>2. ChainTypeOK' /\ Weakened
    BY <1>1, <1>6, MarkedOrPruned
  <2> QED BY <1>2, <2>1, <2>2
<1>7. CASE UNCHANGED chainVars
  <2>1. /\ UNCHANGED <<cache, doing, aborting, anchors>>
        /\ rows' = rows /\ lastId' = lastId
    BY <1>7 DEF chainVars
  <2>2. ChainTypeOK'
    BY <1>1, <2>1 DEF ChainTypeOK, Latest
  <2>3. Weakened
    BY <1>1, <2>1, KeptRows
  <2> QED BY <1>2, <2>1, <2>2, <2>3
<1> QED BY <1>3, <1>4, <1>5, <1>6, <1>7 DEF ChainNext

LEMMA ChainInvariantHolds == ChainSpec => []ChainInvariant
BY ChainInvariantInit, ChainInvariantStep, PTL DEF ChainSpec

-----------------------------------------------------------------------------
\* Every variable keeps its type, and no id is given twice.
THEOREM ChainTypesHold == ChainSpec => []ChainTypeOK
<1>1. ChainInvariant => ChainTypeOK
  BY DEF ChainInvariant
<1> QED BY <1>1, ChainInvariantHolds, PTL

\* Writer and verifier choose the same columns: computeEntryHash and walkTable disagree
\* only on rows whose delivery was marked after they were hashed, and on rows that
\* releases before v29 hashed under an anchor other than the one migration 29 renames.
\* It says so of new databases and of those v29 finds, with the anchor of the v5
\* backfill, with a repair's, or with neither.
THEOREM VerifierNamesOnlyMarkedRows == ChainSpec => []OnlyMarkedRowsBreak
<1>1. ChainInvariant => OnlyMarkedRowsBreak
  BY DEF ChainInvariant, RowFacts, OnlyMarkedRowsBreak, Broken, Walked, Recomputes, Unrenamed
<1> QED BY <1>1, ChainInvariantHolds, PTL

\* No anchor leaves a row chained under it out of the verifier's walk.
THEOREM ChainedRowsAreWalked == ChainSpec => []EveryRowIsWalked
<1>1. ChainInvariant => EveryRowIsWalked
  BY DEF ChainInvariant
<1> QED BY <1>1, ChainInvariantHolds, PTL

\* Outside the window before a rollback's catch, no row is chained to one that was
\* rolled back.
THEOREM LostHashesAreDropped == ChainSpec => []NoLostPrev
<1>1. ASSUME ChainInvariant PROVE NoLostPrev
  <2>1. RowFacts /\ ChainTypeOK
    BY <1>1 DEF ChainInvariant
  <2>2. \A r \in rows : r.id < Lost /\ r.id \in Nat
    BY <2>1, TypeFacts, Bounds
  <2> QED BY <2>1, <2>2, Bounds DEF RowFacts, NoLostPrev
<1> QED BY <1>1, ChainInvariantHolds, PTL

\* One process alone never forks the chain, wherever its cache came from.
THEOREM OneWriterNeverForks == ChainSpec => []ForksTakeTwoWriters
<1>1. ChainInvariant => ForksTakeTwoWriters
  BY DEF ChainInvariant
<1> QED BY <1>1, ChainInvariantHolds, PTL

\* A process never goes back behind an anchor it opened.
THEOREM OpenedAnchorsAreFollowed == ChainSpec => []OwnAnchorIsFollowed
<1>1. ChainInvariant => OwnAnchorIsFollowed
  BY DEF ChainInvariant
<1> QED BY <1>1, ChainInvariantHolds, PTL

\* After ChainRepairer has repaired from the lowest broken row the table verifies, whatever
\* the other processes were in the middle of.
THEOREM RepairsHeal == ChainSpec => RepairHeals
<1>1. ASSUME ChainInvariant, NEW p \in Processes, Repair(p), \A r \in Broken : r.id >= doing[p].n
      PROVE  Broken' = {}
  <2> DEFINE n == doing[p].n
  <2>1. /\ ChainTypeOK /\ n \in Nat /\ n <= lastId /\ Latest \in Nat /\ ~AfterMaxAnchors
        /\ anchors' = Opened("repair", n, p) /\ \A r \in rows : r.id \in Nat
    BY <1>1, JobFacts, TypeFacts DEF ChainInvariant, Believes, Chosen, Repair
  <2> HIDE DEF n
  <2>2. AnchorsGrow /\ Latest' = Latest + 1 /\ anchors'[Latest + 1].start = n
    BY <2>1, Opening DEF Reasons
  <2>3. \A a : ShapeOf(a)' = ShapeOf(a)
    BY <2>1, <2>2, ShapesStay
  <2> SUFFICES ASSUME NEW s \in rows', Walked(s)', ~Recomputes(s)' PROVE FALSE
    BY DEF Broken
  <2>4. PICK r \in rows : s = IF r.id >= n THEN Rebound(r, Latest + 1) ELSE r
    BY <1>1 DEF Repair, n
  <2>5. s = r /\ r.id < n
    <3>1. s.hashed /\ ~Rebound(r, Latest + 1).hashed
      BY DEF Walked, Rebound
    <3> QED BY <2>1, <2>4, <3>1
  <2>6. r.anchor \in 1..Latest' /\ r.id > anchors'[r.anchor].start /\ r.hashed
    BY <2>5 DEF Walked, Exists
  <2>7. r.anchor # Latest + 1
    BY <2>1, <2>2, <2>5, <2>6
  <2>8. r.anchor \in 1..Latest /\ anchors'[r.anchor] = anchors[r.anchor]
    BY <2>1, <2>2, <2>6, <2>7 DEF AnchorsGrow
  <2>9. Walked(r) /\ ~Recomputes(r)
    BY <2>3, <2>5, <2>6, <2>8 DEF Walked, Recomputes, Exists
  <2>10. r \in Broken
    BY <2>9 DEF Broken
  <2> QED BY <1>1, <2>1, <2>5, <2>10 DEF n
<1>2. ChainInvariant =>
        [\A p \in Processes :
           (Repair(p) /\ \A r \in Broken : r.id >= doing[p].n) => Broken' = {}]_chainVars
  BY <1>1
<1> QED BY <1>2, ChainInvariantHolds, PTL DEF RepairHeals, ChainSpec
=============================================================================
