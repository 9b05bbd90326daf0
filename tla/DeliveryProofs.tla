--------------------------- MODULE DeliveryProofs ---------------------------
(***************************************************************************)
(* Theorems about ValidationDelivery, for any numbers of rows and browser  *)
(* validations, any limits and any number of faults.                       *)
(*                                                                         *)
(* None of the promises is inductive as it stands: each is about what was  *)
(* shown or counted, and what still waits on the database queue decides    *)
(* what will be.  The invariant says which jobs may wait there at once     *)
(* (every `sync` turn waits for all of them, so a denial's two jobs and a  *)
(* claim's count are never there twice), and follows an advisory from the  *)
(* text over the mark and the counts to its row.                           *)
(***************************************************************************)
EXTENDS ValidationDelivery, FiniteSetTheorems, SequenceTheorems, TLAPS

Ops == {"mark", "count", "countClaim", "store"}
Job == [op : Ops, of : SUBSET Nat]

StoreJob(b) == [op |-> "store", of |-> {b}]

Members(s) == {s[k] : k \in 1..Len(s)}
NoRepeats(s) == \A k, l \in 1..Len(s) : (s[k] = s[l] => k = l)

\* A job of this kind waits for row i.
Waits(op, i) == \E j \in Members(jobs) : j.op = op /\ i \in j.of

Done(i) == row[i] \in {"surfaced", "deleted"}

Validation == [at : {"none", "queued", "stored", "lost", "deleted"},
               result : Results, inApp : BOOLEAN]

\* The types, and what they leave open of the jobs.
JobTypes ==
  /\ row \in [Rows -> RowStates]
  /\ check \in [Checks -> Validation]
  /\ hook \in [at : {"idle", "gated", "holding"}, batch : SUBSET Rows]
  /\ Cardinality(hook.batch) <= Fetch
  /\ claimed \in {0} \cup Rows
  /\ jobs \in Seq(Job) /\ NoRepeats(jobs)
  /\ shown \in [Rows -> Nat] /\ hookCount \in [Rows -> Nat] /\ busCount \in [Rows -> Nat]
  /\ gap \subseteq Rows /\ struck \subseteq Rows
  /\ faults \in 0..MaxFaults

\* One denial's mark and count, one claim's count, and a job for each browser
\* validation that the app has queued.
OneOfAKind ==
  /\ \A j \in Members(jobs) : (j.op # "store" => j.of \subseteq Rows)
  /\ \A j \in Members(jobs) :
       j.op = "store" => \E b \in Checks : j = StoreJob(b) /\ check[b].at = "queued" /\ check[b].inApp
  /\ \A j, k \in Members(jobs) : (j.op = k.op /\ j.op # "store" => j = k)

\* A browser validation the app has queued is on the queue, and one that has not
\* run has not failed.
QueuedWaits ==
  \A b \in Checks :
    /\ check[b].at = "queued" /\ check[b].inApp => StoreJob(b) \in Members(jobs)
    /\ check[b].at = "none" => check[b].result = "pass"

\* A call that is past a `sync` turn has left no job of an earlier call behind it,
\* nor has a claim.
TurnsWaited ==
  /\ hook.at # "holding" => hook.batch = {}
  /\ hook.at # "idle" => \A j \in Members(jobs) : j.op \notin {"mark", "count"}
  /\ claimed # 0 => \A j \in Members(jobs) : j.op # "countClaim"

\* An advisory on its way from the batch over the mark to its row.
HookLeg(i) ==
  /\ i \in hook.batch \/ Waits("mark", i) => row[i] # "absent"
  /\ i \notin struck =>
       /\ shown[i] > 0 \/ hookCount[i] > 0 \/ Waits("count", i) => Done(i) \/ Waits("mark", i)
       /\ i \in hook.batch => shown[i] = 0 /\ hookCount[i] = 0
       /\ Waits("count", i) => hookCount[i] = 0
       /\ shown[i] <= 1 /\ hookCount[i] <= 1

\* The same for the consumer, which claims before it counts.
Taken(i) == claimed = i \/ Waits("countClaim", i) \/ busCount[i] > 0
BusLeg(i) ==
  /\ Taken(i) => Done(i)
  /\ claimed = i \/ Waits("countClaim", i) => busCount[i] = 0
  /\ busCount[i] <= 1
  /\ Taken(i) /\ (i \in hook.batch \/ Waits("count", i) \/ hookCount[i] > 0) => i \in gap \cup struck

NewerShown(i) == {j \in Rows : j > i /\ shown[j] > 0}
Hidden(i) ==
  (hookCount[i] > 0 \/ Waits("count", i)) /\ shown[i] = 0 => Cardinality(NewerShown(i)) >= Show

Legs == \A i \in Rows : HookLeg(i) /\ BusLeg(i) /\ Hidden(i)

DeliveryInvariant == JobTypes /\ OneOfAKind /\ QueuedWaits /\ TurnsWaited /\ Legs

-----------------------------------------------------------------------------
\* A job that is put on the queue.
LEMMA Appended ==
  ASSUME NEW s \in Seq(Job), NoRepeats(s), NEW j \in Job, j \notin Members(s)
  PROVE  /\ Append(s, j) \in Seq(Job) /\ NoRepeats(Append(s, j))
         /\ Members(Append(s, j)) = Members(s) \cup {j}
<1> DEFINE t == Append(s, j)
<1>1. /\ t \in Seq(Job) /\ Len(t) = Len(s) + 1 /\ Len(s) \in Nat
      /\ \A k \in 1..Len(s) : t[k] = s[k]
      /\ t[Len(s) + 1] = j
  BY AppendProperties, LenProperties
<1>2. \A k \in 1..Len(t) : k \in 1..Len(s) \/ k = Len(s) + 1
  BY <1>1
<1>3. \A k \in 1..Len(s) : k \in 1..Len(t) /\ s[k] # j
  BY <1>1 DEF Members
<1>4. Len(s) + 1 \in 1..Len(t)
  BY <1>1
<1> HIDE DEF t
<1>5. NoRepeats(t)
  <2> SUFFICES ASSUME NEW k \in 1..Len(t), NEW l \in 1..Len(t), t[k] = t[l] PROVE k = l
    BY DEF NoRepeats
  <2> QED BY <1>1, <1>2, <1>3 DEF NoRepeats
<1>6. Members(t) = Members(s) \cup {j}
  BY <1>1, <1>2, <1>3, <1>4 DEF Members
<1> QED BY <1>1, <1>5, <1>6 DEF t

\* A job that is taken from the queue.
LEMMA Popped ==
  ASSUME NEW s \in Seq(Job), NoRepeats(s), s # <<>>
  PROVE  /\ Tail(s) \in Seq(Job) /\ NoRepeats(Tail(s))
         /\ Head(s) \in Job /\ Head(s) \in Members(s)
         /\ Members(Tail(s)) = Members(s) \ {Head(s)}
<1> DEFINE t == Tail(s)
<1>1. /\ t \in Seq(Job) /\ Head(s) \in Job
      /\ Len(s) \in Nat \ {0} /\ Len(t) = Len(s) - 1
      /\ \A k \in 1..Len(t) : t[k] = s[k + 1]
  BY HeadTailProperties, EmptySeq
<1>2. Head(s) = s[1] /\ 1 \in 1..Len(s)
  BY <1>1
<1>3. \A k \in 1..Len(t) : k + 1 \in 1..Len(s) /\ k + 1 # 1
  BY <1>1
<1>4. \A k \in 1..Len(s) : k = 1 \/ (k - 1 \in 1..Len(t) /\ (k - 1) + 1 = k)
  BY <1>1
<1> HIDE DEF t
<1>5. NoRepeats(t)
  <2> SUFFICES ASSUME NEW k \in 1..Len(t), NEW l \in 1..Len(t), t[k] = t[l] PROVE k = l
    BY DEF NoRepeats
  <2>1. k + 1 = l + 1
    BY <1>1, <1>3 DEF NoRepeats
  <2> QED BY <1>1, <2>1
<1>6. Members(t) = Members(s) \ {Head(s)}
  <2>1. \A k \in 1..Len(t) : s[k + 1] # s[1]
    BY <1>2, <1>3 DEF NoRepeats
  <2>2. ASSUME NEW j \in Members(t) PROVE j \in Members(s) \ {Head(s)}
    <3>1. PICK k \in 1..Len(t) : j = t[k]
      BY DEF Members
    <3> QED BY <3>1, <2>1, <1>1, <1>2, <1>3 DEF Members
  <2>3. ASSUME NEW j \in Members(s) \ {Head(s)} PROVE j \in Members(t)
    <3>1. PICK k \in 1..Len(s) : j = s[k]
      BY DEF Members
    <3>2. k - 1 \in 1..Len(t) /\ t[k - 1] = s[k]
      BY <3>1, <2>3, <1>1, <1>2, <1>4
    <3> QED BY <3>1, <3>2 DEF Members
  <2> QED BY <2>2, <2>3
<1>7. Head(s) \in Members(s)
  BY <1>2 DEF Members
<1> QED BY <1>1, <1>5, <1>6, <1>7 DEF t

\* An empty queue has no jobs.
LEMMA NoJobs == <<>> \in Seq(Job) /\ NoRepeats(<<>>) /\ Members(<<>>) = {}
<1>1. <<>> \in Seq(Job) /\ Len(<<>>) = 0
  BY EmptySeq
<1> QED BY <1>1 DEF NoRepeats, Members

-----------------------------------------------------------------------------
\* How many of S are newer than i.
Rank(S, i) == Cardinality({j \in S : j > i})

\* The newer a row the smaller its rank, and ranks are numbers below the count of S.
LEMMA Ranks ==
  ASSUME NEW S \in SUBSET Rows
  PROVE  /\ IsFiniteSet(S) /\ Cardinality(S) \in Nat
         /\ \A i \in S : Rank(S, i) \in Nat /\ Rank(S, i) < Cardinality(S)
         /\ \A i, k \in S : i < k => Rank(S, k) < Rank(S, i)
<1>1. MaxRows \in Nat /\ Rows = 1..MaxRows
  BY DeliveryAssumption DEF Rows
<1>2. IsFiniteSet(Rows)
  BY <1>1, FS_Interval
<1>3. \A T \in SUBSET Rows : IsFiniteSet(T) /\ Cardinality(T) \in Nat
  BY <1>2, FS_Subset, FS_CardinalityType
<1>4. \A T \in SUBSET Rows : \A U \in SUBSET T : \A x \in T \ U :
        Cardinality(U) < Cardinality(T)
  <2> TAKE T \in SUBSET Rows
  <2> TAKE U \in SUBSET T
  <2> TAKE x \in T \ U
  <2>1. Cardinality(U) <= Cardinality(T) /\ Cardinality(U) # Cardinality(T)
    BY <1>3, FS_Subset
  <2> QED BY <1>3, <2>1
<1>5. \A i \in S : Rank(S, i) \in Nat /\ Rank(S, i) < Cardinality(S)
  <2> TAKE i \in S
  <2>1. {j \in S : j > i} \in SUBSET S /\ i \in S \ {j \in S : j > i}
    BY <1>1
  <2> QED BY <1>3, <1>4, <2>1 DEF Rank
<1>6. ASSUME NEW i \in S, NEW k \in S, i < k PROVE Rank(S, k) < Rank(S, i)
  <2>1. \A j \in S : j \in Nat
    BY <1>1
  <2>2. \A j \in S : j > k => j > i
    BY <1>6, <2>1
  <2>3. k > i /\ ~(k > k)
    BY <1>6, <2>1
  <2>4. /\ {j \in S : j > k} \in SUBSET {j \in S : j > i}
        /\ k \in {j \in S : j > i} \ {j \in S : j > k}
        /\ {j \in S : j > i} \in SUBSET Rows
    BY <2>2, <2>3
  <2> QED BY <1>4, <2>4 DEF Rank
<1> QED BY <1>3, <1>5, <1>6

\* A batch has at most as many rows as its limit, and as many if there are so many.
LEMMA NewestCount ==
  ASSUME NEW S \in SUBSET Rows, NEW n \in Nat
  PROVE  /\ Newest(S, n) \subseteq S
         /\ IsFiniteSet(Newest(S, n)) /\ Cardinality(Newest(S, n)) \in Nat
         /\ Cardinality(Newest(S, n)) <= n
         /\ n <= Cardinality(S) => Cardinality(Newest(S, n)) >= n
<1> DEFINE N == Newest(S, n)
           m == Cardinality(S)
           r == [i \in S |-> Rank(S, i)]
           rn == [i \in N |-> Rank(S, i)]
<1>1. /\ IsFiniteSet(S) /\ m \in Nat
      /\ \A i \in S : Rank(S, i) \in Nat /\ Rank(S, i) < m
      /\ \A i, k \in S : i < k => Rank(S, k) < Rank(S, i)
  BY Ranks
<1>2. S \subseteq Nat
  BY DeliveryAssumption DEF Rows
<1>3. \A i, k \in S : Rank(S, i) = Rank(S, k) => i = k
  <2> SUFFICES ASSUME NEW i \in S, NEW k \in S, Rank(S, i) = Rank(S, k), i # k PROVE FALSE
    OBVIOUS
  <2>1. i < k \/ k < i
    BY <1>2
  <2> QED BY <1>1, <2>1
<1>4. N = {i \in S : Rank(S, i) < n} /\ N \subseteq S
  BY DEF Newest, Rank
<1>5. IsFiniteSet(N) /\ Cardinality(N) \in Nat
  BY <1>1, <1>4, FS_Subset, FS_CardinalityType
<1>6. IsFiniteSet(0..(n - 1)) /\ Cardinality(0..(n - 1)) = n
  BY FS_Interval
<1>7. IsFiniteSet(0..(m - 1)) /\ Cardinality(0..(m - 1)) = m
  BY <1>1, FS_Interval
<1> HIDE DEF N, m
<1>8. Cardinality(N) <= n
  <2>1. rn \in Injection(N, 0..(n - 1))
    BY <1>1, <1>3, <1>4 DEF Injection, IsInjective
  <2> HIDE DEF rn
  <2> QED BY <2>1, <1>6, FS_Injection
<1>9. ASSUME n <= m PROVE Cardinality(N) >= n
  <2>1. r \in Injection(S, 0..(m - 1))
    BY <1>1, <1>3 DEF Injection, IsInjective
  <2>2. r \in Surjection(S, 0..(m - 1))
    <3> HIDE DEF r
    <3> QED BY <2>1, <1>7, FS_Injection DEF m
  <2>3. \A k \in 0..(n - 1) : k \in 0..(m - 1)
    BY <1>1, <1>9
  <2>4. ASSUME NEW k \in 0..(n - 1) PROVE \E i \in N : Rank(S, i) = k
    <3>1. PICK i \in S : r[i] = k
      BY <2>2, <2>3 DEF Surjection
    <3>2. Rank(S, i) = k /\ k < n
      BY <3>1
    <3> QED BY <3>2, <1>4
  <2> DEFINE g == [k \in 0..(n - 1) |-> CHOOSE i \in N : Rank(S, i) = k]
  <2>5. \A k \in 0..(n - 1) : g[k] \in N /\ Rank(S, g[k]) = k
    BY <2>4
  <2>6. g \in [0..(n - 1) -> N]
    BY <2>5
  <2> HIDE DEF g
  <2>7. g \in Injection(0..(n - 1), N)
    BY <2>5, <2>6 DEF Injection, IsInjective
  <2> QED BY <2>7, <1>5, <1>6, FS_Injection
<1> QED BY <1>4, <1>5, <1>8, <1>9 DEF N, m

\* A row of S that is not among the n newest stands behind n that are.
LEMMA OlderStandBehind ==
  ASSUME NEW S \in SUBSET Rows, NEW n \in Nat, NEW i \in S \ Newest(S, n)
  PROVE  /\ \A j \in Newest(S, n) : j > i
         /\ Cardinality(Newest(S, n)) >= n
<1>1. /\ IsFiniteSet(S) /\ Cardinality(S) \in Nat
      /\ \A j \in S : Rank(S, j) \in Nat /\ Rank(S, j) < Cardinality(S)
      /\ \A j, k \in S : j < k => Rank(S, k) < Rank(S, j)
  BY Ranks
<1>2. S \subseteq Nat
  BY DeliveryAssumption DEF Rows
<1>3. Newest(S, n) = {j \in S : Rank(S, j) < n}
  BY DEF Newest, Rank
<1>4. Rank(S, i) >= n
  BY <1>1, <1>3
<1>5. ASSUME NEW j \in Newest(S, n) PROVE j > i
  <2>1. j \in S /\ Rank(S, j) < n /\ j # i
    BY <1>3, <1>4, <1>1
  <2>2. CASE j < i
    BY <2>1, <2>2, <1>1, <1>4
  <2> QED BY <1>2, <2>1, <2>2
<1>6. n <= Cardinality(S)
  BY <1>1, <1>4
<1> QED BY <1>5, <1>6, NewestCount

-----------------------------------------------------------------------------
\* The queue over a step: its types, and what waits on it.
JobsAdded(J) ==
  /\ jobs' \in Seq(Job) /\ NoRepeats(jobs')
  /\ Members(jobs') = Members(jobs) \cup J

\* Rows and checks are numbers.
LEMMA Numbers ==
  /\ MaxRows \in Nat /\ Show \in Nat \ {0} /\ Fetch \in Nat /\ Show <= Fetch
  /\ Rows \subseteq Nat \ {0} /\ Checks \subseteq Nat
BY DeliveryAssumption DEF Rows, Checks

\* What comes to wait for a row with the jobs that are added.
LEMMA WaitsAdded ==
  ASSUME NEW J, JobsAdded(J), NEW i \in Rows, NEW op
  PROVE  Waits(op, i)' <=> Waits(op, i) \/ \E j \in J : j.op = op /\ i \in j.of
BY DEF JobsAdded, Waits

\* Nothing waits on an empty queue.
LEMMA NothingWaits ==
  ASSUME Turn
  PROVE  /\ Members(jobs) = {} /\ jobs = <<>>
         /\ \A op, i : ~Waits(op, i)
<1>1. Members(jobs) = {} /\ jobs = <<>>
  BY NoJobs DEF Turn
<1> QED BY <1>1 DEF Waits

\* A queue that does not change.
LEMMA WaitsUnchanged ==
  ASSUME UNCHANGED jobs
  PROVE  /\ Members(jobs') = Members(jobs)
         /\ \A op, i : Waits(op, i)' <=> Waits(op, i)
<1>1. Members(jobs') = Members(jobs)
  OBVIOUS
<1> QED BY <1>1 DEF Waits

\* The job that is run or fails leaves the queue, and with it the last of its kind.
LEMMA WaitsPopped ==
  ASSUME JobTypes, OneOfAKind, jobs # <<>>, jobs' = Tail(jobs)
  PROVE  /\ jobs' \in Seq(Job) /\ NoRepeats(jobs')
         /\ Head(jobs) \in Job /\ Head(jobs) \in Members(jobs)
         /\ Members(jobs') = Members(jobs) \ {Head(jobs)}
         /\ \A i \in Rows : \A op \in Ops \ {"store"} :
              /\ Waits(op, i)' <=> Waits(op, i) /\ op # Head(jobs).op
              /\ op = Head(jobs).op => (Waits(op, i) <=> i \in Head(jobs).of)
<1>1. jobs \in Seq(Job) /\ NoRepeats(jobs)
  BY DEF JobTypes
<1>2. /\ jobs' \in Seq(Job) /\ NoRepeats(jobs')
      /\ Head(jobs) \in Job /\ Head(jobs) \in Members(jobs)
      /\ Members(jobs') = Members(jobs) \ {Head(jobs)}
  BY <1>1, Popped
<1>3. \A j, k \in Members(jobs) : (j.op = k.op /\ j.op # "store" => j = k)
  BY DEF OneOfAKind
<1>4. ASSUME NEW i \in Rows, NEW op \in Ops \ {"store"}
      PROVE  /\ Waits(op, i)' <=> Waits(op, i) /\ op # Head(jobs).op
             /\ op = Head(jobs).op => (Waits(op, i) <=> i \in Head(jobs).of)
  BY <1>2, <1>3 DEF Waits
<1> QED BY <1>2, <1>4

\* The job of a browser validation is new on the queue.
LEMMA ValidateJobs ==
  ASSUME JobTypes, OneOfAKind, NEW b \in Checks, check[b].at = "none",
         jobs' = Append(jobs, [op |-> "store", of |-> {b}])
  PROVE  JobsAdded({StoreJob(b)})
<1>1. StoreJob(b) \in Job
  BY Numbers DEF StoreJob, Job, Ops
<1>2. StoreJob(b) \notin Members(jobs)
  <2> SUFFICES ASSUME StoreJob(b) \in Members(jobs) PROVE FALSE
    OBVIOUS
  <2>1. PICK c \in Checks : StoreJob(b) = StoreJob(c) /\ check[c].at = "queued"
    BY DEF OneOfAKind, StoreJob
  <2>2. {b} = {c}
    BY <2>1 DEF StoreJob
  <2> QED BY <2>1, <2>2
<1>3. jobs' = Append(jobs, StoreJob(b))
  BY DEF StoreJob
<1> QED BY <1>1, <1>2, <1>3, Appended DEF JobTypes, JobsAdded

\* So is a claim's count.
LEMMA ClaimJobs ==
  ASSUME JobTypes, TurnsWaited, CountClaim
  PROVE  JobsAdded({[op |-> "countClaim", of |-> {claimed}]})
<1>1. claimed \in Nat /\ jobs \in Seq(Job) /\ NoRepeats(jobs)
  BY Numbers DEF JobTypes
<1> DEFINE j == [op |-> "countClaim", of |-> {claimed}]
<1>2. j \in Job /\ j.op = "countClaim"
  BY <1>1 DEF Job, Ops
<1>3. claimed # 0 /\ jobs' = Append(jobs, j)
  BY DEF CountClaim
<1> HIDE DEF j
<1>4. j \notin Members(jobs)
  BY <1>2, <1>3 DEF TurnsWaited
<1>5. JobsAdded({j})
  BY <1>1, <1>2, <1>3, <1>4, Appended DEF JobsAdded
<1> QED BY <1>5 DEF j

\* So are a denial's mark and count.
LEMMA DenyJobs ==
  ASSUME JobTypes, TurnsWaited, Deny
  PROVE  JobsAdded({[op |-> "mark", of |-> hook.batch], [op |-> "count", of |-> hook.batch]})
<1> DEFINE m == [op |-> "mark", of |-> hook.batch]
           c == [op |-> "count", of |-> hook.batch]
<1>1. hook.batch \in SUBSET Nat /\ jobs \in Seq(Job) /\ NoRepeats(jobs)
  BY Numbers DEF JobTypes
<1>2. m \in Job /\ c \in Job /\ m.op = "mark" /\ c.op = "count"
  BY <1>1 DEF Job, Ops
<1>3. hook.at = "holding" /\ jobs' = jobs \o <<m, c>>
  BY DEF Deny
<1> HIDE DEF m, c
<1>4. m \notin Members(jobs) /\ c \notin Members(jobs)
  BY <1>2, <1>3 DEF TurnsWaited
<1>5. jobs \o <<m, c>> = Append(Append(jobs, m), c)
  BY <1>1, <1>2
<1>6. /\ Append(jobs, m) \in Seq(Job) /\ NoRepeats(Append(jobs, m))
      /\ Members(Append(jobs, m)) = Members(jobs) \cup {m}
  BY <1>1, <1>2, <1>4, Appended
<1>7. c \notin Members(Append(jobs, m))
  BY <1>2, <1>4, <1>6
<1>8. JobsAdded({m, c})
  <2> DEFINE t == Append(jobs, m)
  <2> HIDE DEF t
  <2>1. /\ Append(t, c) \in Seq(Job) /\ NoRepeats(Append(t, c))
        /\ Members(Append(t, c)) = Members(t) \cup {c}
    BY <1>2, <1>6, <1>7, Appended DEF t
  <2> QED BY <2>1, <1>3, <1>5, <1>6 DEF JobsAdded, t
<1> QED BY <1>8 DEF m, c

-----------------------------------------------------------------------------
\* A validation whose row comes to lie elsewhere.
LEMMA CheckMoves ==
  ASSUME NEW c \in Validation, NEW at \in {"queued", "stored", "lost", "deleted"}
  PROVE  /\ [c EXCEPT !.at = at] \in Validation
         /\ [c EXCEPT !.at = at].at = at
         /\ [c EXCEPT !.at = at].result = c.result
         /\ [c EXCEPT !.at = at].inApp = c.inApp
BY DEF Validation

\* The counters of a leg.
LEMMA PlusCounts ==
  ASSUME NEW f \in [Rows -> Nat], NEW S
  PROVE  /\ Plus(f, S) \in [Rows -> Nat]
         /\ \A i \in Rows : Plus(f, S)[i] = IF i \in S THEN f[i] + 1 ELSE f[i]
BY DEF Plus

\* What is lost of some jobs: the browser rows, and the marks.
LEMMA LostFacts ==
  ASSUME JobTypes, OneOfAKind, NEW J \in SUBSET Members(jobs), LostBy(J)
  PROVE  /\ check' \in [Checks -> Validation] /\ struck' \subseteq Rows
         /\ \A i : i \in struck' <=> i \in struck \/ \E j \in J : j.op = "mark" /\ i \in j.of
         /\ \A b \in Checks :
              /\ check'[b].result = check[b].result /\ check'[b].inApp = check[b].inApp
              /\ check'[b].at = IF StoreJob(b) \in J THEN "lost" ELSE check[b].at
<1> DEFINE hit(op) == UNION {j.of : j \in {k \in J : k.op = op}}
<1>1. /\ check' = [b \in Checks |-> IF b \in hit("store") THEN [check[b] EXCEPT !.at = "lost"]
                                                          ELSE check[b]]
      /\ struck' = struck \cup hit("mark")
  BY DEF LostBy
<1>2. \A i, op : i \in hit(op) <=> \E j \in J : j.op = op /\ i \in j.of
  OBVIOUS
<1>3. \A j \in J : j.op = "mark" => j.of \subseteq Rows
  BY DEF OneOfAKind
<1>4. struck \subseteq Rows /\ check \in [Checks -> Validation]
  BY DEF JobTypes
<1>5. \A b \in Checks : b \in hit("store") <=> StoreJob(b) \in J
  <2> TAKE b \in Checks
  <2>1. ASSUME b \in hit("store") PROVE StoreJob(b) \in J
    <3>1. PICK j \in J : j.op = "store" /\ b \in j.of
      BY <2>1, <1>2
    <3>2. PICK c \in Checks : j = StoreJob(c)
      BY <3>1 DEF OneOfAKind
    <3>3. b = c
      BY <3>1, <3>2 DEF StoreJob
    <3> QED BY <3>2, <3>3
  <2>2. StoreJob(b).op = "store" /\ b \in StoreJob(b).of
    BY DEF StoreJob
  <2> QED BY <2>1, <2>2, <1>2
<1> HIDE DEF hit
<1>6. struck' \subseteq Rows
  BY <1>1, <1>2, <1>3, <1>4
<1>7. \A b \in Checks : /\ [check[b] EXCEPT !.at = "lost"] \in Validation
                        /\ [check[b] EXCEPT !.at = "lost"].at = "lost"
                        /\ [check[b] EXCEPT !.at = "lost"].result = check[b].result
                        /\ [check[b] EXCEPT !.at = "lost"].inApp = check[b].inApp
  BY <1>4, CheckMoves
<1>8. ASSUME NEW b \in Checks
      PROVE  check'[b] = IF StoreJob(b) \in J THEN [check[b] EXCEPT !.at = "lost"] ELSE check[b]
  BY <1>1, <1>5
<1>9. check' \in [Checks -> Validation]
  BY <1>1, <1>4, <1>7
<1>10. \A b \in Checks :
         /\ check'[b].result = check[b].result /\ check'[b].inApp = check[b].inApp
         /\ check'[b].at = IF StoreJob(b) \in J THEN "lost" ELSE check[b].at
  BY <1>7, <1>8
<1> QED BY <1>1, <1>2, <1>6, <1>9, <1>10

\* A validation whose insert has run.
LEMMA StoreFacts ==
  ASSUME JobTypes, OneOfAKind, RunStore
  PROVE  /\ check' \in [Checks -> Validation]
         /\ \A b \in Checks :
              /\ check'[b].result = check[b].result /\ check'[b].inApp = check[b].inApp
              /\ check'[b].at = IF StoreJob(b) = Head(jobs) THEN "stored" ELSE check[b].at
<1>1. /\ jobs # <<>> /\ jobs' = Tail(jobs) /\ Head(jobs).op = "store"
      /\ check' = [b \in Checks |-> IF b \in Head(jobs).of THEN [check[b] EXCEPT !.at = "stored"]
                                                           ELSE check[b]]
  BY DEF RunStore, NextJob
<1>2. PICK c \in Checks : Head(jobs) = StoreJob(c)
  BY <1>1, WaitsPopped DEF OneOfAKind
<1>3. Head(jobs).of = {c}
  BY <1>2 DEF StoreJob
<1>4. \A b \in Checks : StoreJob(b) = Head(jobs) <=> b = c
  <2> TAKE b \in Checks
  <2>1. StoreJob(b).of = {b}
    BY DEF StoreJob
  <2> QED BY <1>2, <1>3, <2>1
<1>5. check \in [Checks -> Validation]
  BY DEF JobTypes
<1>6. /\ [check[c] EXCEPT !.at = "stored"] \in Validation
      /\ [check[c] EXCEPT !.at = "stored"].at = "stored"
      /\ [check[c] EXCEPT !.at = "stored"].result = check[c].result
      /\ [check[c] EXCEPT !.at = "stored"].inApp = check[c].inApp
  BY <1>5, CheckMoves
<1>7. ASSUME NEW b \in Checks
      PROVE  check'[b] = IF b = c THEN [check[c] EXCEPT !.at = "stored"] ELSE check[b]
  BY <1>1, <1>3
<1>8. check' \in [Checks -> Validation]
  <2>1. \A b \in Checks : check'[b] \in Validation
    BY <1>5, <1>6, <1>7
  <2>2. check' = [b \in Checks |-> check'[b]]
    BY <1>1
  <2> QED BY <2>1, <2>2
<1>9. \A b \in Checks :
         /\ check'[b].result = check[b].result /\ check'[b].inApp = check[b].inApp
         /\ check'[b].at = IF StoreJob(b) = Head(jobs) THEN "stored" ELSE check[b].at
  BY <1>4, <1>6, <1>7
<1> QED BY <1>8, <1>9

-----------------------------------------------------------------------------
\* A batch is within its limit.
LEMMA BatchFits ==
  ASSUME JobTypes
  PROVE  /\ Batch \subseteq Pending(Rows) /\ Batch \subseteq Rows
         /\ Cardinality(Batch) <= Fetch
         /\ Cardinality({}) <= Fetch
<1>1. Pending(Rows) \in SUBSET Rows /\ Fetch \in Nat
  BY Numbers DEF Pending
<1>2. Batch \subseteq Pending(Rows) /\ Cardinality(Batch) <= Fetch
  BY <1>1, NewestCount DEF Batch
<1> QED BY <1>1, <1>2, FS_EmptySet

\* The actions that leave the queue's jobs and the validations alone.
LEMMA RowAndHookTypes ==
  ASSUME JobTypes,
         \/ \E i \in Rows : StoreRow(i) \/ Claim(i)
         \/ PassGate \/ Read \/ LetPass
  PROVE  JobTypes' /\ UNCHANGED <<jobs, check, shown, hookCount, busCount, struck, faults>>
<1>1. UNCHANGED <<jobs, check, shown, hookCount, busCount, struck, faults>>
  BY DEF StoreRow, Claim, PassGate, Read, LetPass, histories
<1>2. row' \in [Rows -> RowStates]
  BY DEF JobTypes, StoreRow, Claim, PassGate, Read, LetPass, RowStates
<1>3. /\ hook' \in [at : {"idle", "gated", "holding"}, batch : SUBSET Rows]
      /\ Cardinality(hook'.batch) <= Fetch
  <2>1. ASSUME Read PROVE hook' = [at |-> "holding", batch |-> Batch]
    BY <2>1 DEF Read
  <2>2. CASE Read
    BY <2>1, <2>2, BatchFits
  <2>3. CASE LetPass
    BY <2>3, BatchFits DEF LetPass, NoCall
  <2>4. CASE PassGate
    BY <2>4 DEF PassGate, JobTypes
  <2>5. CASE \E i \in Rows : StoreRow(i) \/ Claim(i)
    BY <2>5 DEF StoreRow, Claim, JobTypes
  <2> QED BY <2>2, <2>3, <2>4, <2>5
<1>4. claimed' \in {0} \cup Rows /\ gap' \subseteq Rows
  BY DEF JobTypes, StoreRow, Claim, PassGate, Read, LetPass, histories
<1> QED BY <1>1, <1>2, <1>3, <1>4 DEF JobTypes

\* Those that touch only the validations, or put jobs on the queue.
LEMMA QueueingTypes ==
  ASSUME JobTypes, OneOfAKind, TurnsWaited,
         \/ \E b \in Checks :
              \/ \E result \in Results, inApp \in BOOLEAN : Validate(b, result, inApp)
              \/ StoreElsewhere(b) \/ LoseElsewhere(b)
         \/ Deny \/ CountClaim
  PROVE  JobTypes'
<1>0. /\ JobTypes /\ check \in [Checks -> Validation]
      /\ shown \in [Rows -> Nat] /\ faults \in 0..MaxFaults
  BY DEF JobTypes
<1>1. ASSUME NEW b \in Checks, NEW result \in Results, NEW inApp \in BOOLEAN,
             Validate(b, result, inApp)
      PROVE  JobTypes'
  <2>1. check' \in [Checks -> Validation]
    BY <1>0, <1>1 DEF Validate, Validation
  <2>2. jobs' \in Seq(Job) /\ NoRepeats(jobs')
    <3>1. CASE inApp
      BY <1>1, <3>1, ValidateJobs DEF Validate, JobsAdded
    <3>2. CASE ~inApp
      BY <1>1, <3>2 DEF Validate, JobTypes
    <3> QED BY <3>1, <3>2
  <2> QED BY <1>1, <2>1, <2>2 DEF Validate, JobTypes, histories
<1>2. ASSUME NEW b \in Checks, StoreElsewhere(b) \/ LoseElsewhere(b) PROVE JobTypes'
  <2>0. PICK at \in {"stored", "lost"} : check' = [check EXCEPT ![b].at = at]
    BY <1>2 DEF StoreElsewhere, LoseElsewhere
  <2>1. check' \in [Checks -> Validation]
    BY <1>0, <2>0 DEF Validation
  <2>2. faults' \in 0..MaxFaults
    BY <1>0, <1>2, DeliveryAssumption DEF StoreElsewhere, LoseElsewhere, Fault
  <2> QED BY <1>2, <2>1, <2>2 DEF StoreElsewhere, LoseElsewhere, JobTypes, histories
<1>3. CASE Deny
  <2>1. jobs' \in Seq(Job) /\ NoRepeats(jobs')
    BY <1>3, DenyJobs DEF JobsAdded
  <2>2. shown' \in [Rows -> Nat]
    BY <1>0, <1>3, PlusCounts DEF Deny
  <2>3. hook' \in [at : {"idle", "gated", "holding"}, batch : SUBSET Rows]
        /\ Cardinality(hook'.batch) <= Fetch
    BY <1>3, BatchFits DEF Deny, NoCall
  <2> QED BY <1>3, <2>1, <2>2, <2>3 DEF Deny, JobTypes
<1>4. CASE CountClaim
  <2>1. jobs' \in Seq(Job) /\ NoRepeats(jobs')
    BY <1>4, ClaimJobs DEF JobsAdded
  <2> QED BY <1>4, <2>1 DEF CountClaim, JobTypes, histories
<1> QED BY <1>1, <1>2, <1>3, <1>4

\* Those that take jobs from the queue, and the prune.
LEMMA RunningTypes ==
  ASSUME JobTypes, OneOfAKind,
         \/ RunJob \/ FailJob \/ Crash
         \/ \E i \in {0} \cup Rows, b \in {0} \cup Checks : Prune(i, b)
  PROVE  JobTypes'
<1>0. /\ row \in [Rows -> RowStates] /\ check \in [Checks -> Validation]
      /\ hookCount \in [Rows -> Nat] /\ busCount \in [Rows -> Nat]
      /\ faults \in 0..MaxFaults
  BY DEF JobTypes
<1>1. ASSUME jobs # <<>>, jobs' = Tail(jobs) PROVE jobs' \in Seq(Job) /\ NoRepeats(jobs')
  BY <1>1, WaitsPopped
<1>2. ASSUME Fault PROVE faults' \in 0..MaxFaults
  BY <1>0, <1>2, DeliveryAssumption DEF Fault
<1>3. CASE RunMark
  <2>1. row' \in [Rows -> RowStates]
    BY <1>0, <1>3 DEF RunMark, RowStates
  <2> QED BY <1>1, <1>3, <2>1 DEF RunMark, NextJob, JobTypes, histories
<1>4. CASE RunCount
  <2>1. hookCount' \in [Rows -> Nat] /\ busCount' \in [Rows -> Nat]
    BY <1>0, <1>4, PlusCounts DEF RunCount
  <2> QED BY <1>1, <1>4, <2>1 DEF RunCount, NextJob, JobTypes
<1>5. CASE RunStore
  <2>1. check' \in [Checks -> Validation]
    BY <1>5, StoreFacts
  <2> QED BY <1>1, <1>5, <2>1 DEF RunStore, NextJob, JobTypes, histories
<1>6. CASE FailJob
  <2>1. {Head(jobs)} \in SUBSET Members(jobs)
    BY <1>6, WaitsPopped DEF FailJob
  <2>2. check' \in [Checks -> Validation] /\ struck' \subseteq Rows
    BY <1>6, <2>1, LostFacts DEF FailJob
  <2> QED BY <1>1, <1>2, <1>6, <2>2 DEF FailJob, JobTypes
<1>7. CASE Crash
  <2>1. LostBy(Members(jobs))
    BY <1>7 DEF Crash, Members
  <2>2. check' \in [Checks -> Validation] /\ struck' \subseteq Rows
    BY <2>1, LostFacts
  <2>3. hook' \in [at : {"idle", "gated", "holding"}, batch : SUBSET Rows]
        /\ Cardinality(hook'.batch) <= Fetch
    BY <1>7, BatchFits DEF Crash, NoCall
  <2>4. jobs' \in Seq(Job) /\ NoRepeats(jobs')
    BY <1>7, NoJobs DEF Crash
  <2> QED BY <1>2, <1>7, <2>2, <2>3, <2>4 DEF Crash, JobTypes
<1>8. ASSUME NEW i \in {0} \cup Rows, NEW b \in {0} \cup Checks, Prune(i, b) PROVE JobTypes'
  <2>1. row' \in [Rows -> RowStates]
    BY <1>0, <1>8 DEF Prune, RowStates
  <2>2. check' \in [Checks -> Validation]
    BY <1>0, <1>8, CheckMoves DEF Prune
  <2> QED BY <1>8, <2>1, <2>2 DEF Prune, JobTypes, histories
<1> QED BY <1>3, <1>4, <1>5, <1>6, <1>7, <1>8 DEF RunJob

-----------------------------------------------------------------------------
QueueInvariant == JobTypes /\ OneOfAKind /\ QueuedWaits /\ TurnsWaited

\* A turn of the queue, or the end of a call.
LEMMA RowAndHookQueue ==
  ASSUME QueueInvariant,
         \/ \E i \in Rows : StoreRow(i) \/ Claim(i)
         \/ PassGate \/ Read \/ LetPass
  PROVE  OneOfAKind' /\ QueuedWaits' /\ TurnsWaited'
<1>1. JobTypes /\ OneOfAKind /\ QueuedWaits /\ TurnsWaited
  BY DEF QueueInvariant
<1>2. UNCHANGED <<jobs, check>> /\ Members(jobs') = Members(jobs)
  BY <1>1, RowAndHookTypes
<1>3. OneOfAKind' /\ QueuedWaits'
  BY <1>1, <1>2 DEF OneOfAKind, QueuedWaits
<1>4. CASE PassGate
  <2>1. hook'.at = "gated" /\ hook'.batch = hook.batch /\ hook.at = "idle"
    BY <1>1, <1>4 DEF PassGate, JobTypes
  <2>2. Members(jobs) = {}
    BY <1>4, NothingWaits DEF PassGate
  <2> QED BY <1>1, <1>2, <1>3, <1>4, <2>1, <2>2 DEF TurnsWaited, PassGate
<1>5. CASE Read
  <2>1. Members(jobs) = {} /\ hook'.at = "holding"
    BY <1>5, NothingWaits DEF Read
  <2> QED BY <1>1, <1>2, <1>3, <1>5, <2>1 DEF TurnsWaited, Read
<1>6. CASE LetPass
  BY <1>1, <1>2, <1>3, <1>6 DEF TurnsWaited, LetPass, NoCall
<1>7. ASSUME NEW i \in Rows, StoreRow(i) PROVE TurnsWaited'
  BY <1>1, <1>2, <1>7 DEF TurnsWaited, StoreRow
<1>8. ASSUME NEW i \in Rows, Claim(i) PROVE TurnsWaited'
  <2>1. Members(jobs) = {}
    BY <1>8, NothingWaits DEF Claim
  <2> QED BY <1>1, <1>2, <1>8, <2>1 DEF TurnsWaited, Claim
<1> QED BY <1>3, <1>4, <1>5, <1>6, <1>7, <1>8

\* A job or two are put on the queue, or a standalone server's row lies elsewhere.
LEMMA QueueingQueue ==
  ASSUME QueueInvariant,
         \/ \E b \in Checks :
              \/ \E result \in Results, inApp \in BOOLEAN : Validate(b, result, inApp)
              \/ StoreElsewhere(b) \/ LoseElsewhere(b)
         \/ Deny \/ CountClaim
  PROVE  OneOfAKind' /\ QueuedWaits' /\ TurnsWaited'
<1>1. JobTypes /\ OneOfAKind /\ QueuedWaits /\ TurnsWaited
  BY DEF QueueInvariant
<1>2. check \in [Checks -> Validation]
  BY <1>1 DEF JobTypes
<1>3. \A b, c : StoreJob(b) = StoreJob(c) => b = c
  <2> TAKE b, c
  <2>1. StoreJob(b).of = {b} /\ StoreJob(c).of = {c}
    BY DEF StoreJob
  <2> QED BY <2>1
<1>4. \A b \in Checks : StoreJob(b).op = "store"
  BY DEF StoreJob
<1>5. ASSUME NEW b \in Checks, NEW result \in Results, NEW inApp \in BOOLEAN,
             Validate(b, result, inApp)
      PROVE  OneOfAKind' /\ QueuedWaits' /\ TurnsWaited'
  <2>1. /\ check[b].at = "none" /\ UNCHANGED <<hook, claimed>>
        /\ check'[b] = [at |-> "queued", result |-> result, inApp |-> inApp]
        /\ \A c \in Checks \ {b} : check'[c] = check[c]
    BY <1>2, <1>5 DEF Validate
  <2>2. check'[b].at = "queued" /\ check'[b].inApp = inApp
    BY <2>1
  <2>3. Members(jobs') = IF inApp THEN Members(jobs) \cup {StoreJob(b)} ELSE Members(jobs)
    <3>1. CASE inApp
      <4>1. jobs' = Append(jobs, [op |-> "store", of |-> {b}])
        BY <1>5, <3>1 DEF Validate
      <4> QED BY <1>1, <2>1, <3>1, <4>1, ValidateJobs DEF JobsAdded
    <3>2. CASE ~inApp
      BY <1>5, <3>2 DEF Validate
    <3> QED BY <3>1, <3>2
  <2>4. \A j \in Members(jobs) : j.op = "store" =>
          \E c \in Checks \ {b} : j = StoreJob(c) /\ check[c].at = "queued" /\ check[c].inApp
    BY <1>1, <2>1 DEF OneOfAKind
  <2>5. OneOfAKind'
    BY <1>1, <1>4, <2>1, <2>2, <2>3, <2>4 DEF OneOfAKind
  <2>6. QueuedWaits'
    BY <1>1, <2>1, <2>2, <2>3 DEF QueuedWaits
  <2>7. TurnsWaited'
    BY <1>1, <1>4, <2>1, <2>3 DEF TurnsWaited
  <2> QED BY <2>5, <2>6, <2>7
<1>6. ASSUME NEW b \in Checks, StoreElsewhere(b) \/ LoseElsewhere(b)
      PROVE  OneOfAKind' /\ QueuedWaits' /\ TurnsWaited'
  <2>1. PICK at \in {"stored", "lost"} : check' = [check EXCEPT ![b].at = at]
    BY <1>6 DEF StoreElsewhere, LoseElsewhere
  <2>2. /\ ~check[b].inApp /\ check'[b].at = at
        /\ UNCHANGED <<jobs, hook, claimed>> /\ Members(jobs') = Members(jobs)
        /\ \A c \in Checks \ {b} : check'[c] = check[c]
    BY <1>2, <1>6, <2>1 DEF StoreElsewhere, LoseElsewhere, Validation
  <2>3. \A j \in Members(jobs) : j.op = "store" =>
          \E c \in Checks \ {b} : j = StoreJob(c) /\ check[c].at = "queued" /\ check[c].inApp
    BY <1>1, <2>2 DEF OneOfAKind
  <2>4. OneOfAKind'
    BY <1>1, <2>2, <2>3 DEF OneOfAKind
  <2>5. QueuedWaits' /\ TurnsWaited'
    BY <1>1, <2>2 DEF QueuedWaits, TurnsWaited
  <2> QED BY <2>4, <2>5
<1>7. CASE Deny
  <2> DEFINE m == [op |-> "mark", of |-> hook.batch]
             c == [op |-> "count", of |-> hook.batch]
  <2>1. Members(jobs') = Members(jobs) \cup {m, c}
    BY <1>1, <1>7, DenyJobs DEF JobsAdded
  <2>2. m.op = "mark" /\ c.op = "count" /\ m.of \subseteq Rows /\ c.of \subseteq Rows
    BY <1>1 DEF JobTypes
  <2> HIDE DEF m, c
  <2>3. UNCHANGED <<check, claimed>> /\ hook.at = "holding" /\ hook' = NoCall
    BY <1>7 DEF Deny
  <2>4. \A j \in Members(jobs) : j.op \notin {"mark", "count"}
    BY <1>1, <2>3 DEF TurnsWaited
  <2>5. OneOfAKind'
    BY <1>1, <2>1, <2>2, <2>3, <2>4 DEF OneOfAKind
  <2>6. QueuedWaits'
    BY <1>1, <2>1, <2>3 DEF QueuedWaits
  <2>7. TurnsWaited'
    BY <1>1, <2>1, <2>2, <2>3 DEF TurnsWaited, NoCall
  <2> QED BY <2>5, <2>6, <2>7
<1>8. CASE CountClaim
  <2> DEFINE c == [op |-> "countClaim", of |-> {claimed}]
  <2>1. Members(jobs') = Members(jobs) \cup {c}
    BY <1>1, <1>8, ClaimJobs DEF JobsAdded
  <2>2. claimed # 0 /\ claimed' = 0 /\ UNCHANGED <<check, hook>>
    BY <1>8 DEF CountClaim
  <2>3. c.op = "countClaim" /\ c.of \subseteq Rows
    BY <1>1, <2>2 DEF JobTypes
  <2> HIDE DEF c
  <2>4. \A j \in Members(jobs) : j.op # "countClaim"
    BY <1>1, <2>2 DEF TurnsWaited
  <2>5. OneOfAKind'
    BY <1>1, <2>1, <2>2, <2>3, <2>4 DEF OneOfAKind
  <2>6. QueuedWaits' /\ TurnsWaited'
    BY <1>1, <2>1, <2>2, <2>3 DEF QueuedWaits, TurnsWaited
  <2> QED BY <2>5, <2>6
<1> QED BY <1>5, <1>6, <1>7, <1>8

\* A job is run, fails or dies, or a prune finds the queue empty.
LEMMA RunningQueue ==
  ASSUME QueueInvariant,
         \/ RunJob \/ FailJob \/ Crash
         \/ \E i \in {0} \cup Rows, b \in {0} \cup Checks : Prune(i, b)
  PROVE  OneOfAKind' /\ QueuedWaits' /\ TurnsWaited'
<1>1. JobTypes /\ OneOfAKind /\ QueuedWaits /\ TurnsWaited
  BY DEF QueueInvariant
<1>2. check \in [Checks -> Validation]
  BY <1>1 DEF JobTypes
<1>3. ASSUME jobs # <<>>, jobs' = Tail(jobs)
      PROVE  /\ Head(jobs) \in Members(jobs)
             /\ Members(jobs') = Members(jobs) \ {Head(jobs)}
  BY <1>1, <1>3, WaitsPopped
<1>4. \A b, c : StoreJob(b) = StoreJob(c) => b = c
  <2> TAKE b, c
  <2>1. StoreJob(b).of = {b} /\ StoreJob(c).of = {c}
    BY DEF StoreJob
  <2> QED BY <2>1
<1>5. \A b : StoreJob(b).op = "store"
  BY DEF StoreJob
\* Jobs leave the queue, and their validations with them.
<1>6. ASSUME NEW at \in {"stored", "lost"}, NEW J \in SUBSET Members(jobs),
             Members(jobs') = Members(jobs) \ J,
             \A b \in Checks :
               /\ check'[b].result = check[b].result /\ check'[b].inApp = check[b].inApp
               /\ check'[b].at = IF StoreJob(b) \in J THEN at ELSE check[b].at
      PROVE  OneOfAKind' /\ QueuedWaits'
  <2>1. OneOfAKind'
    BY <1>1, <1>6 DEF OneOfAKind
  <2>2. QueuedWaits'
    BY <1>1, <1>6 DEF QueuedWaits
  <2> QED BY <2>1, <2>2
<1>7. CASE RunMark \/ RunCount
  <2>1. /\ jobs # <<>> /\ jobs' = Tail(jobs) /\ Head(jobs).op # "store"
        /\ UNCHANGED <<check, hook, claimed>>
    BY <1>7 DEF RunMark, RunCount, NextJob
  <2>2. /\ Head(jobs) \in Members(jobs)
        /\ Members(jobs') = Members(jobs) \ {Head(jobs)}
    BY <1>3, <2>1
  <2>3. OneOfAKind' /\ QueuedWaits'
    BY <1>1, <1>5, <2>1, <2>2 DEF OneOfAKind, QueuedWaits
  <2>4. TurnsWaited'
    BY <1>1, <2>1, <2>2 DEF TurnsWaited
  <2> QED BY <2>3, <2>4
<1>8. CASE RunStore
  <2>1. jobs # <<>> /\ jobs' = Tail(jobs) /\ UNCHANGED <<hook, claimed>>
    BY <1>8 DEF RunStore, NextJob
  <2>2. /\ Head(jobs) \in Members(jobs)
        /\ Members(jobs') = Members(jobs) \ {Head(jobs)}
    BY <1>3, <2>1
  <2>3. \A b \in Checks :
          /\ check'[b].result = check[b].result /\ check'[b].inApp = check[b].inApp
          /\ check'[b].at = IF StoreJob(b) \in {Head(jobs)} THEN "stored" ELSE check[b].at
    BY <1>1, <1>8, StoreFacts
  <2>4. OneOfAKind' /\ QueuedWaits'
    BY <1>6, <2>2, <2>3
  <2>5. TurnsWaited'
    BY <1>1, <2>1, <2>2 DEF TurnsWaited
  <2> QED BY <2>4, <2>5
<1>9. CASE FailJob
  <2>1. jobs # <<>> /\ jobs' = Tail(jobs) /\ UNCHANGED <<hook, claimed>>
    BY <1>9 DEF FailJob
  <2>2. /\ Head(jobs) \in Members(jobs)
        /\ Members(jobs') = Members(jobs) \ {Head(jobs)}
    BY <1>3, <2>1
  <2>3. {Head(jobs)} \in SUBSET Members(jobs) /\ LostBy({Head(jobs)})
    BY <1>9, <2>2 DEF FailJob
  <2>4. \A b \in Checks :
          /\ check'[b].result = check[b].result /\ check'[b].inApp = check[b].inApp
          /\ check'[b].at = IF StoreJob(b) \in {Head(jobs)} THEN "lost" ELSE check[b].at
    BY <1>1, <2>3, LostFacts
  <2>5. OneOfAKind' /\ QueuedWaits'
    BY <1>6, <2>2, <2>3, <2>4
  <2>6. TurnsWaited'
    BY <1>1, <2>1, <2>2 DEF TurnsWaited
  <2> QED BY <2>5, <2>6
<1>10. CASE Crash
  <2>1. LostBy(Members(jobs)) /\ hook' = NoCall /\ claimed' = 0 /\ jobs' = <<>>
    BY <1>10 DEF Crash, Members
  <2>2. Members(jobs') = {} /\ Members(jobs) \in SUBSET Members(jobs)
    BY <2>1, NoJobs
  <2>3. \A b \in Checks :
          /\ check'[b].result = check[b].result /\ check'[b].inApp = check[b].inApp
          /\ check'[b].at = IF StoreJob(b) \in Members(jobs) THEN "lost" ELSE check[b].at
    BY <1>1, <2>1, <2>2, LostFacts
  <2>4. Members(jobs') = Members(jobs) \ Members(jobs)
    BY <2>2
  <2>5. OneOfAKind' /\ QueuedWaits'
    BY <1>6, <2>2, <2>3, <2>4
  <2>6. TurnsWaited'
    BY <2>1 DEF TurnsWaited, NoCall
  <2> QED BY <2>5, <2>6
<1>11. ASSUME NEW i \in {0} \cup Rows, NEW b \in {0} \cup Checks, Prune(i, b)
       PROVE  OneOfAKind' /\ QueuedWaits' /\ TurnsWaited'
  <2>1. Turn /\ UNCHANGED <<hook, claimed, jobs>>
    BY <1>11 DEF Prune
  <2>2. Members(jobs) = {} /\ Members(jobs') = {}
    BY <2>1, NothingWaits
  <2>3. \A c \in Checks : check'[c] = check[c] \/ check'[c] = [check[c] EXCEPT !.at = "deleted"]
    BY <1>11 DEF Prune
  <2>4. ASSUME NEW c \in Checks PROVE check'[c] = check[c] \/ check'[c].at = "deleted"
    <3>1. check[c] \in Validation
      BY <1>2
    <3>2. [check[c] EXCEPT !.at = "deleted"].at = "deleted"
      BY <3>1, CheckMoves
    <3> QED BY <2>3, <3>2
  <2>5. OneOfAKind' /\ QueuedWaits'
    BY <1>1, <2>2, <2>4 DEF OneOfAKind, QueuedWaits
  <2>6. TurnsWaited'
    BY <1>1, <2>1, <2>2 DEF TurnsWaited
  <2> QED BY <2>5, <2>6
<1> QED BY <1>7, <1>8, <1>9, <1>10, <1>11 DEF RunJob

\* What may wait on the queue, over every step.
LEMMA QueueStep ==
  ASSUME QueueInvariant, DeliveryNext
  PROVE  QueueInvariant'
<1>1. JobTypes /\ OneOfAKind /\ TurnsWaited
  BY DEF QueueInvariant
<1>2. CASE \/ \E i \in Rows : StoreRow(i) \/ Claim(i)
           \/ PassGate \/ Read \/ LetPass
  BY <1>1, <1>2, RowAndHookTypes, RowAndHookQueue DEF QueueInvariant
<1>3. CASE \/ \E b \in Checks :
                \/ \E result \in Results, inApp \in BOOLEAN : Validate(b, result, inApp)
                \/ StoreElsewhere(b) \/ LoseElsewhere(b)
           \/ Deny \/ CountClaim
  BY <1>1, <1>3, QueueingTypes, QueueingQueue DEF QueueInvariant
<1>4. CASE \/ RunJob \/ FailJob \/ Crash
           \/ \E i \in {0} \cup Rows, b \in {0} \cup Checks : Prune(i, b)
  BY <1>1, <1>4, RunningTypes, RunningQueue DEF QueueInvariant
<1> QED BY <1>2, <1>3, <1>4 DEF DeliveryNext

-----------------------------------------------------------------------------
Leg(i) == HookLeg(i) /\ BusLeg(i) /\ Hidden(i)

\* The histories of a row are numbers.
LEMMA RowFacts ==
  ASSUME QueueInvariant, NEW i \in Rows
  PROVE  /\ JobTypes /\ OneOfAKind /\ TurnsWaited /\ i \in Nat \ {0}
         /\ row \in [Rows -> RowStates]
         /\ shown \in [Rows -> Nat] /\ hookCount \in [Rows -> Nat] /\ busCount \in [Rows -> Nat]
         /\ shown[i] \in Nat /\ hookCount[i] \in Nat /\ busCount[i] \in Nat
BY Numbers DEF QueueInvariant, JobTypes

\* While a call holds a row no job of a denial waits for it, nor a claim's while one is held.
LEMMA HeldIsNotQueued ==
  ASSUME QueueInvariant, NEW i \in Rows
  PROVE  /\ i \in hook.batch => ~Waits("mark", i) /\ ~Waits("count", i)
         /\ claimed # 0 => ~Waits("countClaim", i)
<1>1. TurnsWaited
  BY DEF QueueInvariant
<1>2. ASSUME i \in hook.batch PROVE ~Waits("mark", i) /\ ~Waits("count", i)
  <2>1. hook.at = "holding"
    BY <1>1, <1>2 DEF TurnsWaited
  <2>2. \A j \in Members(jobs) : j.op # "mark" /\ j.op # "count"
    BY <1>1, <2>1 DEF TurnsWaited
  <2> QED BY <2>2 DEF Waits
<1>3. claimed # 0 => ~Waits("countClaim", i)
  BY <1>1 DEF TurnsWaited, Waits
<1> QED BY <1>2, <1>3

\* A row is stored: it was in nobody's hands.
LEMMA LegStoreRow ==
  ASSUME QueueInvariant, NEW i \in Rows, Leg(i), NEW k \in Rows, StoreRow(k)
  PROVE  Leg(i)'
<1>1. /\ row \in [Rows -> RowStates]
      /\ shown[i] \in Nat /\ hookCount[i] \in Nat /\ busCount[i] \in Nat
  BY RowFacts
<1>2. /\ row[k] = "absent" /\ row'[i] = IF i = k THEN "pending" ELSE row[i]
      /\ UNCHANGED <<hook, claimed, jobs, shown, hookCount, busCount, gap, struck>>
  BY <1>1 DEF StoreRow, histories
<1>3. \A op : Waits(op, i)' <=> Waits(op, i)
  BY <1>2, WaitsUnchanged
<1>4. HookLeg(i) /\ BusLeg(i) /\ Hidden(i)
  BY DEF Leg
<1>5. HookLeg(i)'
  BY <1>1, <1>2, <1>3, <1>4 DEF HookLeg, Done
<1>6. BusLeg(i)'
  BY <1>1, <1>2, <1>3, <1>4 DEF BusLeg, Taken, Done
<1>7. Hidden(i)'
  BY <1>1, <1>2, <1>3, <1>4 DEF Hidden, NewerShown
<1> QED BY <1>5, <1>6, <1>7 DEF Leg

\* A claim finds the row waiting, with no job before it on the queue.
LEMMA LegClaim ==
  ASSUME QueueInvariant, NEW i \in Rows, Leg(i), NEW k \in Rows, Claim(k)
  PROVE  Leg(i)'
<1>1. /\ row \in [Rows -> RowStates] /\ i \in Nat \ {0}
      /\ shown[i] \in Nat /\ hookCount[i] \in Nat /\ busCount[i] \in Nat
  BY RowFacts
<1>2. /\ claimed = 0 /\ claimed' = k
      /\ row[k] = "pending" /\ row'[i] = IF i = k THEN "surfaced" ELSE row[i]
      /\ gap' = IF k \in hook.batch THEN gap \cup {k} ELSE gap
      /\ UNCHANGED <<hook, jobs, shown, hookCount, busCount, struck>>
  BY <1>1 DEF Claim, Pending
<1>3. \A op : ~Waits(op, i) /\ ~Waits(op, i)'
  BY <1>2, WaitsUnchanged, NothingWaits DEF Claim
<1>4. HookLeg(i) /\ BusLeg(i) /\ Hidden(i)
  BY DEF Leg
<1>5. HookLeg(i)'
  BY <1>1, <1>2, <1>3, <1>4 DEF HookLeg, Done
<1>6. BusLeg(i)'
  BY <1>1, <1>2, <1>3, <1>4 DEF BusLeg, HookLeg, Taken, Done
<1>7. Hidden(i)'
  BY <1>1, <1>2, <1>3, <1>4 DEF Hidden, NewerShown
<1> QED BY <1>5, <1>6, <1>7 DEF Leg

\* The hook's turns: what a call reads has not been shown, or lost its mark.
LEMMA LegHook ==
  ASSUME QueueInvariant, NEW i \in Rows, Leg(i), PassGate \/ Read \/ LetPass
  PROVE  Leg(i)'
<1>1. /\ row \in [Rows -> RowStates] /\ i \in Nat \ {0} /\ JobTypes
      /\ shown[i] \in Nat /\ hookCount[i] \in Nat /\ busCount[i] \in Nat
  BY RowFacts
<1>2. UNCHANGED <<row, claimed, jobs, shown, hookCount, busCount, gap, struck>>
  BY DEF PassGate, Read, LetPass, histories
<1>3. \A op : Waits(op, i)' <=> Waits(op, i)
  BY <1>2, WaitsUnchanged
<1>4. HookLeg(i) /\ BusLeg(i) /\ Hidden(i)
  BY DEF Leg
<1>5. Hidden(i)'
  BY <1>2, <1>3, <1>4 DEF Hidden, NewerShown
<1>6. CASE hook'.batch \subseteq hook.batch
  <2>1. HookLeg(i)'
    BY <1>1, <1>2, <1>3, <1>4, <1>6 DEF HookLeg, Done
  <2>2. BusLeg(i)'
    BY <1>1, <1>2, <1>3, <1>4, <1>6 DEF BusLeg, Taken, Done
  <2> QED BY <1>5, <2>1, <2>2 DEF Leg
<1>7. CASE Read
  <2>1. i \in hook'.batch => row[i] = "pending"
    BY <1>1, <1>7, BatchFits DEF Read, Pending
  <2>2. \A op : ~Waits(op, i)
    BY <1>7, NothingWaits DEF Read
  <2>3. HookLeg(i)'
    BY <1>1, <1>2, <1>3, <1>4, <2>1, <2>2 DEF HookLeg, Done
  <2>4. BusLeg(i)'
    BY <1>1, <1>2, <1>3, <1>4, <2>1, <2>2 DEF BusLeg, Taken, Done
  <2> QED BY <1>5, <2>3, <2>4 DEF Leg
<1>8. CASE PassGate
  <2>1. hook'.batch = hook.batch
    BY <1>1, <1>8 DEF PassGate, JobTypes
  <2> QED BY <1>6, <2>1
<1>9. CASE LetPass
  <2>1. hook'.batch = {}
    BY <1>9 DEF LetPass, NoCall
  <2> QED BY <1>6, <2>1
<1> QED BY <1>7, <1>8, <1>9

\* A denial: the texts are in the answer, and the mark and the count wait.  A row of the
\* batch that is not shown stands behind Show newer ones that are.
LEMMA LegDeny ==
  ASSUME QueueInvariant, NEW i \in Rows, Leg(i), Deny
  PROVE  Leg(i)'
<1> DEFINE B == hook.batch
<1>1. /\ JobTypes /\ TurnsWaited /\ i \in Nat \ {0}
      /\ shown \in [Rows -> Nat]
      /\ shown[i] \in Nat /\ hookCount[i] \in Nat /\ busCount[i] \in Nat
  BY RowFacts
<1>2. /\ hook.at = "holding" /\ hook' = NoCall /\ shown' = Plus(shown, Shown(B))
      /\ UNCHANGED <<row, claimed, hookCount, busCount, gap, struck>>
  BY DEF Deny
<1>3. B \in SUBSET Rows /\ Show \in Nat
  BY <1>1, Numbers DEF JobTypes
<1>4. /\ Waits("mark", i)' <=> i \in B
      /\ Waits("count", i)' <=> i \in B
      /\ Waits("countClaim", i)' <=> Waits("countClaim", i)
      /\ ~Waits("mark", i) /\ ~Waits("count", i)
  <2> DEFINE m == [op |-> "mark", of |-> B]
             c == [op |-> "count", of |-> B]
  <2>1. JobsAdded({m, c})
    BY <1>1, DenyJobs
  <2>2. m.op = "mark" /\ c.op = "count" /\ m.of = B /\ c.of = B
    OBVIOUS
  <2> HIDE DEF m, c, B
  <2>3. \A op : Waits(op, i)' <=> Waits(op, i) \/ \E j \in {m, c} : j.op = op /\ i \in j.of
    BY <2>1, WaitsAdded
  <2>4. ~Waits("mark", i) /\ ~Waits("count", i)
    BY <1>1, <1>2 DEF TurnsWaited, Waits
  <2> QED BY <2>2, <2>3, <2>4
<1>5. HookLeg(i) /\ BusLeg(i) /\ Hidden(i)
  BY DEF Leg
<1>6. /\ shown' \in [Rows -> Nat] /\ Shown(B) \subseteq B
      /\ \A j \in Rows : shown'[j] = IF j \in Shown(B) THEN shown[j] + 1 ELSE shown[j]
      /\ \A j \in Rows : shown[j] \in Nat
  <2>1. Newest(B, Show) \subseteq B
    BY <1>3, NewestCount
  <2>2. Shown(B) = Newest(B, Show)
    BY DEF Shown
  <2>3. /\ Plus(shown, Shown(B)) \in [Rows -> Nat]
        /\ \A j \in Rows : Plus(shown, Shown(B))[j] = IF j \in Shown(B) THEN shown[j] + 1 ELSE shown[j]
    BY <1>1, PlusCounts
  <2> QED BY <1>1, <1>2, <2>1, <2>2, <2>3
<1>7. hook'.batch = {}
  BY <1>2 DEF NoCall
<1>8. HookLeg(i)'
  BY <1>1, <1>2, <1>4, <1>5, <1>6, <1>7 DEF HookLeg, Done
<1>9. BusLeg(i)'
  BY <1>1, <1>2, <1>4, <1>5, <1>6, <1>7 DEF BusLeg, Taken, Done
<1>10. Hidden(i)'
  <2>1. /\ IsFiniteSet(NewerShown(i)') /\ Cardinality(NewerShown(i)') \in Nat
        /\ \A T \in SUBSET NewerShown(i)' : Cardinality(T) \in Nat
                                        /\ Cardinality(T) <= Cardinality(NewerShown(i)')
    <3>1. NewerShown(i)' \in SUBSET Rows
      BY DEF NewerShown
    <3>2. IsFiniteSet(NewerShown(i)')
      BY <3>1, Ranks
    <3>3. \A T \in SUBSET NewerShown(i)' : IsFiniteSet(T) /\ Cardinality(T) <= Cardinality(NewerShown(i)')
      BY <3>2, FS_Subset
    <3> QED BY <3>2, <3>3, FS_CardinalityType
  <2>2. CASE i \in B
    <3> SUFFICES ASSUME shown'[i] = 0 PROVE Cardinality(NewerShown(i)') >= Show
      BY DEF Hidden
    <3>1. i \in B \ Newest(B, Show)
      BY <1>1, <1>6, <2>2 DEF Shown
    <3>2. /\ \A j \in Newest(B, Show) : j > i
          /\ Cardinality(Newest(B, Show)) >= Show
      BY <1>3, <3>1, OlderStandBehind
    <3>3. \A j \in Newest(B, Show) : j \in Rows /\ shown'[j] > 0
      BY <1>3, <1>6 DEF Shown
    <3>4. Newest(B, Show) \in SUBSET NewerShown(i)'
      BY <3>2, <3>3 DEF NewerShown
    <3> QED BY <1>3, <2>1, <3>2, <3>4
  <2>3. CASE i \notin B
    <3> SUFFICES ASSUME hookCount[i] > 0, shown'[i] = 0 PROVE Cardinality(NewerShown(i)') >= Show
      BY <1>2, <1>4, <2>3 DEF Hidden
    <3>1. Cardinality(NewerShown(i)) >= Show
      BY <1>1, <1>5, <1>6, <2>3 DEF Hidden
    <3>2. \A j \in Rows : shown[j] > 0 => shown'[j] > 0
      BY <1>6
    <3>3. NewerShown(i) \in SUBSET NewerShown(i)'
      BY <3>2 DEF NewerShown
    <3> QED BY <1>3, <2>1, <3>1, <3>3
  <2> QED BY <2>2, <2>3
<1> QED BY <1>8, <1>9, <1>10 DEF Leg

\* The consumer puts the count of its claim on the queue.
LEMMA LegCountClaim ==
  ASSUME QueueInvariant, NEW i \in Rows, Leg(i), CountClaim
  PROVE  Leg(i)'
<1>1. /\ JobTypes /\ TurnsWaited /\ i \in Nat \ {0}
      /\ shown[i] \in Nat /\ hookCount[i] \in Nat /\ busCount[i] \in Nat
  BY RowFacts
<1>2. /\ claimed # 0 /\ claimed' = 0
      /\ UNCHANGED <<row, hook, shown, hookCount, busCount, gap, struck>>
  BY DEF CountClaim, histories
<1>3. /\ Waits("mark", i)' <=> Waits("mark", i)
      /\ Waits("count", i)' <=> Waits("count", i)
      /\ Waits("countClaim", i)' <=> Waits("countClaim", i) \/ i = claimed
  <2> DEFINE c == [op |-> "countClaim", of |-> {claimed}]
  <2>1. JobsAdded({c})
    BY <1>1, ClaimJobs
  <2>2. c.op = "countClaim" /\ c.of = {claimed}
    OBVIOUS
  <2> HIDE DEF c
  <2>3. \A op : Waits(op, i)' <=> Waits(op, i) \/ \E j \in {c} : j.op = op /\ i \in j.of
    BY <2>1, WaitsAdded
  <2> QED BY <2>2, <2>3
<1>4. HookLeg(i) /\ BusLeg(i) /\ Hidden(i)
  BY DEF Leg
<1>5. HookLeg(i)'
  BY <1>1, <1>2, <1>3, <1>4 DEF HookLeg, Done
<1>6. BusLeg(i)'
  BY <1>1, <1>2, <1>3, <1>4 DEF BusLeg, Taken, Done
<1>7. Hidden(i)'
  BY <1>2, <1>3, <1>4 DEF Hidden, NewerShown
<1> QED BY <1>5, <1>6, <1>7 DEF Leg

\* What becomes of a browser validation does not touch a leg.
LEMMA LegValidations ==
  ASSUME QueueInvariant, NEW i \in Rows, Leg(i),
         \/ \E b \in Checks :
              \/ \E result \in Results, inApp \in BOOLEAN : Validate(b, result, inApp)
              \/ StoreElsewhere(b) \/ LoseElsewhere(b)
         \/ RunStore
  PROVE  Leg(i)'
<1>1. JobTypes /\ OneOfAKind /\ i \in Nat \ {0}
  BY RowFacts
<1>2. UNCHANGED <<row, hook, claimed, shown, hookCount, busCount, gap, struck>>
  BY DEF Validate, StoreElsewhere, LoseElsewhere, RunStore, histories
<1>3. \A op \in Ops \ {"store"} : Waits(op, i)' <=> Waits(op, i)
  <2>1. ASSUME NEW b \in Checks, NEW result \in Results, NEW inApp \in BOOLEAN,
               Validate(b, result, inApp), NEW op \in Ops \ {"store"}
        PROVE  Waits(op, i)' <=> Waits(op, i)
    <3>1. CASE inApp
      <4>1. check[b].at = "none" /\ jobs' = Append(jobs, [op |-> "store", of |-> {b}])
        BY <2>1, <3>1 DEF Validate
      <4>2. JobsAdded({StoreJob(b)})
        BY <1>1, <4>1, ValidateJobs
      <4>3. StoreJob(b).op = "store"
        BY DEF StoreJob
      <4> QED BY <4>2, <4>3, WaitsAdded
    <3>2. CASE ~inApp
      BY <2>1, <3>2, WaitsUnchanged DEF Validate
    <3> QED BY <3>1, <3>2
  <2>2. ASSUME NEW b \in Checks, StoreElsewhere(b) \/ LoseElsewhere(b)
        PROVE  \A op \in Ops \ {"store"} : Waits(op, i)' <=> Waits(op, i)
    BY <2>2, WaitsUnchanged DEF StoreElsewhere, LoseElsewhere
  <2>3. CASE RunStore
    <3>1. jobs # <<>> /\ jobs' = Tail(jobs) /\ Head(jobs).op = "store"
      BY <2>3 DEF RunStore, NextJob
    <3> QED BY <1>1, <3>1, WaitsPopped
  <2> QED BY <2>1, <2>2, <2>3
<1>4. /\ Waits("mark", i)' <=> Waits("mark", i)
      /\ Waits("count", i)' <=> Waits("count", i)
      /\ Waits("countClaim", i)' <=> Waits("countClaim", i)
  BY <1>3 DEF Ops
<1>5. HookLeg(i) /\ BusLeg(i) /\ Hidden(i)
  BY DEF Leg
<1>6. HookLeg(i)'
  BY <1>2, <1>4, <1>5 DEF HookLeg, Done
<1>7. BusLeg(i)'
  BY <1>2, <1>4, <1>5 DEF BusLeg, Taken, Done
<1>8. Hidden(i)'
  BY <1>2, <1>4, <1>5 DEF Hidden, NewerShown
<1> QED BY <1>6, <1>7, <1>8 DEF Leg

\* The jobs of a leg over one that is run or fails.
LEMMA LegPopped ==
  ASSUME QueueInvariant, NEW i \in Rows, jobs # <<>>, jobs' = Tail(jobs)
  PROVE  /\ Head(jobs) \in Members(jobs)
         /\ Waits("mark", i)' <=> Waits("mark", i) /\ Head(jobs).op # "mark"
         /\ Waits("count", i)' <=> Waits("count", i) /\ Head(jobs).op # "count"
         /\ Waits("countClaim", i)' <=> Waits("countClaim", i) /\ Head(jobs).op # "countClaim"
         /\ Head(jobs).op = "mark" => (Waits("mark", i) <=> i \in Head(jobs).of)
         /\ Head(jobs).op = "count" => (Waits("count", i) <=> i \in Head(jobs).of)
         /\ Head(jobs).op = "countClaim" => (Waits("countClaim", i) <=> i \in Head(jobs).of)
<1>1. JobTypes /\ OneOfAKind
  BY DEF QueueInvariant
<1>2. /\ Head(jobs) \in Members(jobs)
      /\ \A op \in Ops \ {"store"} :
           /\ Waits(op, i)' <=> Waits(op, i) /\ op # Head(jobs).op
           /\ op = Head(jobs).op => (Waits(op, i) <=> i \in Head(jobs).of)
  BY <1>1, WaitsPopped
<1>3. "mark" \in Ops \ {"store"} /\ "count" \in Ops \ {"store"} /\ "countClaim" \in Ops \ {"store"}
  BY DEF Ops
<1> HIDE DEF Ops
<1> QED BY <1>2, <1>3

\* The mark runs: a row of its batch is not absent, so it is delivered or deleted after it.
LEMMA LegRunMark ==
  ASSUME QueueInvariant, NEW i \in Rows, Leg(i), RunMark
  PROVE  Leg(i)'
<1>1. /\ row \in [Rows -> RowStates]
      /\ shown[i] \in Nat /\ hookCount[i] \in Nat /\ busCount[i] \in Nat
  BY RowFacts
<1>2. /\ jobs # <<>> /\ jobs' = Tail(jobs) /\ Head(jobs).op = "mark"
      /\ row'[i] = IF i \in Undeleted(Head(jobs).of) THEN "surfaced" ELSE row[i]
      /\ UNCHANGED <<hook, claimed, shown, hookCount, busCount, gap, struck>>
  BY DEF RunMark, NextJob, histories
<1>3. /\ ~Waits("mark", i)' /\ (Waits("mark", i) <=> i \in Head(jobs).of)
      /\ Waits("count", i)' <=> Waits("count", i)
      /\ Waits("countClaim", i)' <=> Waits("countClaim", i)
  BY <1>2, LegPopped
<1>4. HookLeg(i) /\ BusLeg(i) /\ Hidden(i)
  BY DEF Leg
<1>5. /\ row[i] = "absent" \/ row[i] = "pending" \/ Done(i)
      /\ Waits("mark", i) /\ row[i] # "absent" => Done(i)'
      /\ Done(i) => Done(i)'
      /\ row[i] # "absent" => row'[i] # "absent"
  BY <1>1, <1>2, <1>3 DEF Done, RowStates, Undeleted
<1>6. HookLeg(i)'
  BY <1>2, <1>3, <1>4, <1>5 DEF HookLeg
<1>7. BusLeg(i)'
  BY <1>2, <1>3, <1>4, <1>5 DEF BusLeg, Taken
<1>8. Hidden(i)'
  BY <1>2, <1>3, <1>4 DEF Hidden, NewerShown
<1> QED BY <1>6, <1>7, <1>8 DEF Leg

\* A count runs.
LEMMA LegRunCount ==
  ASSUME QueueInvariant, NEW i \in Rows, Leg(i), RunCount
  PROVE  Leg(i)'
<1>1. /\ hookCount \in [Rows -> Nat] /\ busCount \in [Rows -> Nat]
      /\ shown[i] \in Nat /\ hookCount[i] \in Nat /\ busCount[i] \in Nat
  BY RowFacts
<1>2. /\ jobs # <<>> /\ jobs' = Tail(jobs)
      /\ UNCHANGED <<row, hook, claimed, shown, gap, struck>>
  BY DEF RunCount, NextJob
<1>3. HookLeg(i) /\ BusLeg(i) /\ Hidden(i)
  BY DEF Leg
<1>4. Done(i)' <=> Done(i)
  BY <1>2 DEF Done
<1>5. CASE NextJob("count") /\ hookCount' = Plus(hookCount, Head(jobs).of) /\ UNCHANGED busCount
  <2>1. /\ Waits("mark", i)' <=> Waits("mark", i)
        /\ ~Waits("count", i)' /\ (Waits("count", i) <=> i \in Head(jobs).of)
        /\ Waits("countClaim", i)' <=> Waits("countClaim", i)
    BY <1>2, <1>5, LegPopped DEF NextJob
  <2>2. hookCount'[i] = IF i \in Head(jobs).of THEN hookCount[i] + 1 ELSE hookCount[i]
    BY <1>1, <1>5, PlusCounts
  <2>3. HookLeg(i)'
    BY <1>1, <1>2, <1>3, <1>4, <1>5, <2>1, <2>2, HeldIsNotQueued DEF HookLeg
  <2>4. BusLeg(i)'
    BY <1>1, <1>2, <1>3, <1>4, <1>5, <2>1, <2>2 DEF BusLeg, Taken
  <2>5. Hidden(i)'
    BY <1>1, <1>2, <1>3, <1>5, <2>1, <2>2 DEF Hidden, NewerShown
  <2> QED BY <2>3, <2>4, <2>5 DEF Leg
<1>6. CASE NextJob("countClaim") /\ busCount' = Plus(busCount, Head(jobs).of) /\ UNCHANGED hookCount
  <2>1. /\ Waits("mark", i)' <=> Waits("mark", i)
        /\ Waits("count", i)' <=> Waits("count", i)
        /\ ~Waits("countClaim", i)' /\ (Waits("countClaim", i) <=> i \in Head(jobs).of)
    BY <1>2, <1>6, LegPopped DEF NextJob
  <2>2. busCount'[i] = IF i \in Head(jobs).of THEN busCount[i] + 1 ELSE busCount[i]
    BY <1>1, <1>6, PlusCounts
  <2>3. HookLeg(i)'
    BY <1>2, <1>3, <1>4, <1>6, <2>1 DEF HookLeg
  <2>4. BusLeg(i)'
    BY <1>1, <1>2, <1>3, <1>4, <1>6, <2>1, <2>2, HeldIsNotQueued, Numbers DEF BusLeg, Taken
  <2>5. Hidden(i)'
    BY <1>2, <1>3, <1>6, <2>1 DEF Hidden, NewerShown
  <2> QED BY <2>3, <2>4, <2>5 DEF Leg
<1> QED BY <1>5, <1>6 DEF RunCount

\* A job is lost, or all of them: a row whose mark goes with it is struck.
LEMMA LegLost ==
  ASSUME QueueInvariant, NEW i \in Rows, Leg(i), FailJob \/ Crash
  PROVE  Leg(i)'
<1>1. /\ JobTypes /\ OneOfAKind /\ i \in Nat \ {0}
      /\ shown[i] \in Nat /\ hookCount[i] \in Nat /\ busCount[i] \in Nat
  BY RowFacts
<1>2. HookLeg(i) /\ BusLeg(i) /\ Hidden(i)
  BY DEF Leg
<1>3. UNCHANGED <<row, shown, hookCount, busCount, gap>> /\ (Done(i)' <=> Done(i))
  BY DEF FailJob, Crash, Done
<1>4. CASE FailJob
  <2>1. jobs # <<>> /\ jobs' = Tail(jobs) /\ UNCHANGED <<hook, claimed>> /\ LostBy({Head(jobs)})
    BY <1>4 DEF FailJob
  <2>2. /\ Waits("mark", i)' <=> Waits("mark", i) /\ Head(jobs).op # "mark"
        /\ Waits("count", i)' <=> Waits("count", i) /\ Head(jobs).op # "count"
        /\ Waits("countClaim", i)' <=> Waits("countClaim", i) /\ Head(jobs).op # "countClaim"
        /\ Head(jobs).op = "mark" => (Waits("mark", i) <=> i \in Head(jobs).of)
        /\ {Head(jobs)} \in SUBSET Members(jobs)
    BY <2>1, LegPopped
  <2>3. i \in struck' <=> i \in struck \/ (Head(jobs).op = "mark" /\ i \in Head(jobs).of)
    <3>1. \A k : k \in struck' <=>
                k \in struck \/ \E j \in {Head(jobs)} : j.op = "mark" /\ k \in j.of
      BY <1>1, <2>1, <2>2, LostFacts
    <3> QED BY <3>1
  <2>4. HookLeg(i)'
    BY <1>2, <1>3, <2>1, <2>2, <2>3 DEF HookLeg
  <2>5. BusLeg(i)'
    BY <1>2, <1>3, <2>1, <2>2, <2>3 DEF BusLeg, Taken
  <2>6. Hidden(i)'
    BY <1>2, <1>3, <2>1, <2>2 DEF Hidden, NewerShown
  <2> QED BY <2>4, <2>5, <2>6 DEF Leg
<1>5. CASE Crash
  <2>1. /\ hook'.batch = {} /\ claimed' = 0 /\ jobs' = <<>> /\ LostBy(Members(jobs))
    BY <1>5 DEF Crash, NoCall, Members
  <2>2. \A op : ~Waits(op, i)'
    BY <2>1, NoJobs DEF Waits
  <2>3. Members(jobs) \in SUBSET Members(jobs)
    OBVIOUS
  <2>4. i \in struck' <=> i \in struck \/ Waits("mark", i)
    BY <1>1, <2>1, <2>3, LostFacts DEF Waits
  <2>5. HookLeg(i)'
    BY <1>2, <1>3, <2>1, <2>2, <2>4 DEF HookLeg
  <2>6. BusLeg(i)'
    BY <1>1, <1>2, <1>3, <2>1, <2>2, <2>4 DEF BusLeg, Taken
  <2>7. Hidden(i)'
    BY <1>2, <1>3, <2>2 DEF Hidden, NewerShown
  <2> QED BY <2>5, <2>6, <2>7 DEF Leg
<1> QED BY <1>4, <1>5

\* A prune deletes rows for good.
LEMMA LegPrune ==
  ASSUME QueueInvariant, NEW i \in Rows, Leg(i),
         NEW r \in {0} \cup Rows, NEW b \in {0} \cup Checks, Prune(r, b)
  PROVE  Leg(i)'
<1>1. row \in [Rows -> RowStates]
  BY RowFacts
<1>2. /\ row'[i] = IF i <= r /\ i \in Undeleted(Rows) THEN "deleted" ELSE row[i]
      /\ UNCHANGED <<hook, claimed, jobs, shown, hookCount, busCount, gap, struck>>
  BY DEF Prune, histories
<1>3. \A op : ~Waits(op, i) /\ ~Waits(op, i)'
  BY <1>2, WaitsUnchanged, NothingWaits DEF Prune
<1>4. HookLeg(i) /\ BusLeg(i) /\ Hidden(i)
  BY DEF Leg
<1>5. /\ Done(i) => Done(i)'
      /\ row[i] # "absent" => row'[i] # "absent"
  BY <1>1, <1>2 DEF Done, RowStates, Undeleted
<1>6. HookLeg(i)'
  BY <1>2, <1>3, <1>4, <1>5 DEF HookLeg
<1>7. BusLeg(i)'
  BY <1>2, <1>3, <1>4, <1>5 DEF BusLeg, Taken
<1>8. Hidden(i)'
  BY <1>2, <1>3, <1>4 DEF Hidden, NewerShown
<1> QED BY <1>6, <1>7, <1>8 DEF Leg

-----------------------------------------------------------------------------
\* The invariant holds at the start.
LEMMA DeliveryInvariantInit == DeliveryInit => DeliveryInvariant
<1> SUFFICES ASSUME DeliveryInit PROVE DeliveryInvariant
  OBVIOUS
<1>1. /\ jobs = <<>> /\ Members(jobs) = {} /\ jobs \in Seq(Job) /\ NoRepeats(jobs)
      /\ \A op, i : ~Waits(op, i)
  BY NoJobs DEF DeliveryInit, Waits
<1>2. JobTypes
  <2>1. check \in [Checks -> Validation]
    BY DEF DeliveryInit, Validation, Results
  <2>2. hook \in [at : {"idle", "gated", "holding"}, batch : SUBSET Rows] /\ hook.batch = {}
    BY DEF DeliveryInit, NoCall
  <2>3. Cardinality(hook.batch) <= Fetch /\ faults \in 0..MaxFaults
    BY <2>2, FS_EmptySet, DeliveryAssumption DEF DeliveryInit
  <2> QED BY <1>1, <2>1, <2>2, <2>3 DEF DeliveryInit, JobTypes, RowStates
<1>3. OneOfAKind /\ QueuedWaits /\ TurnsWaited
  BY <1>1 DEF DeliveryInit, NoCall, OneOfAKind, QueuedWaits, TurnsWaited
<1>4. ASSUME NEW i \in Rows PROVE HookLeg(i) /\ BusLeg(i) /\ Hidden(i)
  <2>1. /\ row[i] = "absent" /\ shown[i] = 0 /\ hookCount[i] = 0 /\ busCount[i] = 0
        /\ hook.batch = {} /\ claimed = 0 /\ i # 0
    BY Numbers DEF DeliveryInit, NoCall
  <2> QED BY <1>1, <2>1 DEF HookLeg, BusLeg, Hidden, Taken
<1> QED BY <1>2, <1>3, <1>4 DEF DeliveryInvariant, Legs

\* Both legs of a row, over every step.
LEMMA LegStep ==
  ASSUME QueueInvariant, NEW i \in Rows, Leg(i), DeliveryNext
  PROVE  Leg(i)'
<1>1. CASE \E k \in Rows : StoreRow(k) \/ Claim(k)
  BY <1>1, LegStoreRow, LegClaim
<1>2. CASE \/ \E b \in Checks :
                \/ \E result \in Results, inApp \in BOOLEAN : Validate(b, result, inApp)
                \/ StoreElsewhere(b) \/ LoseElsewhere(b)
           \/ RunStore
  BY <1>2, LegValidations
<1>3. CASE PassGate \/ Read \/ LetPass
  BY <1>3, LegHook
<1>4. CASE Deny \/ CountClaim
  BY <1>4, LegDeny, LegCountClaim
<1>5. CASE RunMark \/ RunCount
  BY <1>5, LegRunMark, LegRunCount
<1>6. CASE FailJob \/ Crash
  BY <1>6, LegLost
<1>7. CASE \E r \in {0} \cup Rows, b \in {0} \cup Checks : Prune(r, b)
  BY <1>7, LegPrune
<1> QED BY <1>1, <1>2, <1>3, <1>4, <1>5, <1>6, <1>7 DEF DeliveryNext, RunJob

\* A step that changes nothing.
LEMMA DeliveryInvariantStutters ==
  ASSUME DeliveryInvariant, UNCHANGED deliveryVars
  PROVE  DeliveryInvariant'
<1>1. UNCHANGED <<row, check, hook, claimed, jobs, shown, hookCount, busCount, gap, struck, faults>>
  BY DEF deliveryVars
<1>2. /\ Members(jobs') = Members(jobs)
      /\ \A op, i : Waits(op, i)' <=> Waits(op, i)
  BY <1>1, WaitsUnchanged
<1>3. JobTypes'
  BY <1>1 DEF DeliveryInvariant, JobTypes
<1>4. OneOfAKind' /\ QueuedWaits' /\ TurnsWaited'
  BY <1>1, <1>2 DEF DeliveryInvariant, OneOfAKind, QueuedWaits, TurnsWaited
<1>5. ASSUME NEW i \in Rows PROVE (HookLeg(i) /\ BusLeg(i) /\ Hidden(i))'
  <2>1. HookLeg(i) /\ BusLeg(i) /\ Hidden(i)
    BY DEF DeliveryInvariant, Legs
  <2>2. HookLeg(i)'
    BY <1>1, <1>2, <2>1 DEF HookLeg, Done
  <2>3. BusLeg(i)'
    BY <1>1, <1>2, <2>1 DEF BusLeg, Taken, Done
  <2>4. Hidden(i)'
    BY <1>1, <1>2, <2>1 DEF Hidden, NewerShown
  <2> QED BY <2>2, <2>3, <2>4
<1> QED BY <1>3, <1>4, <1>5 DEF DeliveryInvariant, Legs

\* The invariant is inductive.
LEMMA DeliveryInvariantStep ==
  DeliveryInvariant /\ [DeliveryNext]_deliveryVars => DeliveryInvariant'
<1> SUFFICES ASSUME DeliveryInvariant, [DeliveryNext]_deliveryVars PROVE DeliveryInvariant'
  OBVIOUS
<1>1. CASE DeliveryNext
  <2>1. QueueInvariant /\ \A i \in Rows : Leg(i)
    BY DEF DeliveryInvariant, QueueInvariant, Legs, Leg
  <2>2. QueueInvariant'
    BY <1>1, <2>1, QueueStep
  <2>3. \A i \in Rows : Leg(i)'
    BY <1>1, <2>1, LegStep
  <2>4. Legs'
    BY <2>3 DEF Legs, Leg
  <2> QED BY <2>2, <2>4 DEF DeliveryInvariant, QueueInvariant
<1>2. CASE UNCHANGED deliveryVars
  BY <1>2, DeliveryInvariantStutters
<1> QED BY <1>1, <1>2

\* So it holds in every reachable state.
LEMMA DeliveryInvariantHolds == DeliverySpec => []DeliveryInvariant
<1>1. DeliveryInit => DeliveryInvariant
  BY DeliveryInvariantInit
<1> QED BY <1>1, DeliveryInvariantStep, PTL DEF DeliverySpec

-----------------------------------------------------------------------------
\* The place of a job among those that can wait at once.
Slot(j) == IF j.op = "store" THEN CHOOSE b \in Checks : j = StoreJob(b)
           ELSE IF j.op = "mark" THEN MaxChecks + 1
           ELSE IF j.op = "count" THEN MaxChecks + 2 ELSE MaxChecks + 3

\* At most one denial's two jobs, one claim's count and a job for each validation wait.
LEMMA JobsAreFew ==
  ASSUME JobTypes, OneOfAKind
  PROVE  Len(jobs) <= 3 + MaxChecks
<1>1. /\ jobs \in Seq(Job) /\ Len(jobs) \in Nat /\ MaxChecks \in Nat
      /\ \A k, l \in 1..Len(jobs) : (jobs[k] = jobs[l] => k = l)
  BY DeliveryAssumption, LenProperties DEF JobTypes, NoRepeats
<1>2. \A k \in 1..Len(jobs) : jobs[k] \in Members(jobs) /\ jobs[k].op \in Ops
  <2>1. \A k \in 1..Len(jobs) : jobs[k] \in Job
    BY <1>1, ElementOfSeq
  <2> QED BY <2>1 DEF Members, Job
<1>3. \A j \in Members(jobs) : j.op = "store" => Slot(j) \in Checks /\ j = StoreJob(Slot(j))
  BY DEF OneOfAKind, Slot
<1>4. \A j \in Members(jobs) : j.op = "store" => Slot(j) \in 1..MaxChecks
  BY <1>3 DEF Checks
<1>5. \A j : /\ j.op = "mark" => Slot(j) = MaxChecks + 1
             /\ j.op = "count" => Slot(j) = MaxChecks + 2
             /\ j.op = "countClaim" => Slot(j) = MaxChecks + 3
  BY DEF Slot
<1>6. \A j, k \in Members(jobs) : (j.op = k.op /\ j.op # "store" => j = k)
  BY DEF OneOfAKind
<1>7. \A k \in 1..Len(jobs) : Slot(jobs[k]) \in 1..(MaxChecks + 3)
  BY <1>1, <1>2, <1>4, <1>5 DEF Ops
<1>8. ASSUME NEW k \in 1..Len(jobs), NEW l \in 1..Len(jobs), Slot(jobs[k]) = Slot(jobs[l])
      PROVE  k = l
  <2>1. jobs[k].op = jobs[l].op
    BY <1>1, <1>2, <1>4, <1>5, <1>8 DEF Ops
  <2>2. CASE jobs[k].op = "store"
    BY <1>1, <1>2, <1>3, <1>8, <2>1, <2>2
  <2>3. CASE jobs[k].op # "store"
    BY <1>1, <1>2, <1>6, <2>1, <2>3
  <2> QED BY <2>2, <2>3
<1> DEFINE f == [k \in 1..Len(jobs) |-> Slot(jobs[k])]
<1>9. f \in Injection(1..Len(jobs), 1..(MaxChecks + 3))
  BY <1>7, <1>8 DEF Injection, IsInjective
<1> HIDE DEF f
<1>10. IsFiniteSet(1..(MaxChecks + 3)) /\ Cardinality(1..(MaxChecks + 3)) = MaxChecks + 3
  BY <1>1, FS_Interval
<1>11. Cardinality(1..Len(jobs)) = Len(jobs)
  <2>1. \A n \in Nat : Cardinality(1..n) = IF 1 > n THEN 0 ELSE n - 1 + 1
    BY FS_Interval
  <2>2. \A n \in Nat : Cardinality(1..n) = n
    BY <2>1
  <2> QED BY <1>1, <2>2
<1> QED BY <1>1, <1>9, <1>10, <1>11, FS_Injection

-----------------------------------------------------------------------------
\* Types: a batch has at most Fetch rows, and the database queue at most one denial's two
\* jobs, one claim's count and the app's browser rows.
THEOREM DeliveryTypesHold == DeliverySpec => []DeliveryTypeOK
<1>1. DeliveryInvariant => DeliveryTypeOK
  BY JobsAreFew DEF DeliveryInvariant, JobTypes, DeliveryTypeOK, Validation
<1> QED BY <1>1, DeliveryInvariantHolds, PTL

\* The agent is shown an advisory a second time only if its mark failed or died with the
\* app, though the mark runs behind the answer that carries the text.
THEOREM ShownAgainOnlyIfStruck == DeliverySpec => []ShownTwiceOnlyIfStruck
<1>1. DeliveryInvariant => ShownTwiceOnlyIfStruck
  <2> SUFFICES ASSUME DeliveryInvariant, NEW i \in Rows, shown[i] > 1, i \notin struck
               PROVE  FALSE
    BY DEF ShownTwiceOnlyIfStruck
  <2>1. shown[i] \in Nat /\ shown[i] <= 1
    BY DEF DeliveryInvariant, JobTypes, Legs, HookLeg
  <2> QED BY <2>1
<1> QED BY <1>1, DeliveryInvariantHolds, PTL

\* The consumer drives the delivered counter at most once for a row, whatever is claimed
\* again, marked, lost or pruned.
THEOREM ConsumerCountsOnce == DeliverySpec => []BusCountsOnce
<1>1. DeliveryInvariant => BusCountsOnce
  BY DEF DeliveryInvariant, Legs, BusLeg, BusCountsOnce
<1> QED BY <1>1, DeliveryInvariantHolds, PTL

\* A row that was counted twice was claimed while a hook call held it, or lost its mark.
THEOREM TwiceCountedInTheGap == DeliverySpec => []CountedTwiceOnlyInTheGap
<1>1. DeliveryInvariant => CountedTwiceOnlyInTheGap
  <2> SUFFICES ASSUME DeliveryInvariant, NEW i \in Rows,
                      hookCount[i] + busCount[i] > 1, i \notin gap \cup struck
               PROVE  FALSE
    BY DEF CountedTwiceOnlyInTheGap
  <2>1. hookCount[i] \in Nat /\ busCount[i] \in Nat
    BY DEF DeliveryInvariant, JobTypes
  <2>2. HookLeg(i) /\ BusLeg(i)
    BY DEF DeliveryInvariant, Legs
  <2>3. hookCount[i] <= 1 /\ busCount[i] <= 1
    BY <2>2 DEF HookLeg, BusLeg
  <2>4. hookCount[i] > 0 /\ busCount[i] > 0
    BY <2>1, <2>3
  <2> QED BY <2>2, <2>4 DEF BusLeg, Taken
<1> QED BY <1>1, DeliveryInvariantHolds, PTL

\* An advisory that was marked and counted without its text in an answer stood behind
\* Show newer ones whose text the agent was given.
THEOREM UnshownStandBehindShown == DeliverySpec => []HiddenBehindNewer
<1>1. DeliveryInvariant => HiddenBehindNewer
  BY DEF DeliveryInvariant, Legs, Hidden, NewerShown, HiddenBehindNewer
<1> QED BY <1>1, DeliveryInvariantHolds, PTL

\* An edit passes the gate after a failure the app reported only if the failure's row was
\* pruned or lost: the gate's read waits for the insert.
THEOREM GateSeesReportedFailures == DeliverySpec => ReportedFailureClosesGate
<1> DEFINE A == hook.at = "idle" /\ hook'.at = "gated"
                  => \A b \in Checks : (check[b].result = "fail" /\ check[b].inApp
                                           => check[b].at \in {"deleted", "lost"})
<1>1. DeliveryInvariant /\ [DeliveryNext]_deliveryVars => [A]_deliveryVars
  <2> SUFFICES ASSUME DeliveryInvariant, DeliveryNext, hook.at = "idle", hook'.at = "gated",
                      NEW b \in Checks, check[b].result = "fail", check[b].inApp
               PROVE  check[b].at \in {"deleted", "lost"}
    OBVIOUS
  <2>1. PassGate
    <3>1. CASE Read \/ Deny \/ LetPass \/ Crash
      BY <3>1 DEF Read, Deny, LetPass, Crash, NoCall
    <3>2. CASE UNCHANGED hook
      BY <3>2
    <3>3. PassGate \/ Read \/ Deny \/ LetPass \/ Crash \/ UNCHANGED hook
      BY DEF DeliveryNext, RunJob, StoreRow, Claim, Validate, StoreElsewhere, LoseElsewhere,
             CountClaim, RunMark, RunCount, RunStore, FailJob, Prune
    <3> QED BY <3>1, <3>2, <3>3
  <2>2. Turn /\ ~GateClosed
    BY <2>1 DEF PassGate
  <2>3. Members(jobs) = {}
    BY <2>2, NothingWaits
  <2>4. check[b].at # "queued" /\ check[b].at # "none"
    BY <2>3 DEF DeliveryInvariant, QueuedWaits
  <2>5. check[b].at # "stored"
    BY <2>2 DEF GateClosed, Stored, Failed
  <2>6. check[b].at \in {"none", "queued", "stored", "lost", "deleted"}
    BY DEF DeliveryInvariant, JobTypes, Validation
  <2> QED BY <2>4, <2>5, <2>6
<1> QED BY <1>1, DeliveryInvariantHolds, PTL DEF DeliverySpec, ReportedFailureClosesGate
=============================================================================
