-------------------------- MODULE InferenceProofs ---------------------------
(***************************************************************************)
(* Proofs about MLXInferenceLock for any number of tasks, engines and      *)
(* roots: `run` is exclusive and no suspended task is forgotten.           *)
(*                                                                         *)
(* Exclusion alone is not inductive: a release makes a waiter the holder,  *)
(* so the queue must hold suspended tasks only, each of them once, and be  *)
(* empty while the lock is free.  That a loaded model can be unloaded      *)
(* needs what unloadHandlerRegistered stands for: a handler that is stored *)
(* or that one task is on its way to store.                                *)
(***************************************************************************)
EXTENDS InferenceEngines, FiniteSetTheorems, TLAPS

\* `busy` is the truth about somebody being inside.
BusyOK == /\ busy \in BOOLEAN
          /\ busy <=> (\E t \in Tasks : Inside(t))
          /\ waiters # <<>> => busy

\* The queue holds the suspended tasks, each of them once.
QueueOK ==
  /\ \A i \in 1..Len(waiters) : task[waiters[i]].at = "wait"
  /\ \A i, j \in 1..Len(waiters) : waiters[i] = waiters[j] => i = j
  /\ \A t \in Tasks : task[t].at = "wait" => \E i \in 1..Len(waiters) : waiters[i] = t

LockInv == OneAtATime /\ BusyOK /\ QueueOK

\* Only the embedding engine has an index to build, store and search.
Sane(tk) == /\ tk.engine \in Engines => tk.work = "infer"
            /\ tk.at = "store" => tk.work = "index"

\* The part of the type invariant the lock needs.
TasksOK ==
  /\ waiters \in Seq(Tasks)
  /\ task \in [Tasks -> Task]
  /\ \A t \in Tasks : Sane(task[t])

IInv == TasksOK /\ LockInv

-----------------------------------------------------------------------------
\* A step of one task that neither enters nor leaves the lock or its queue.
LEMMA OneMoves ==
  ASSUME IInv, NEW t \in Tasks, NEW tk \in Task,
         task' = [task EXCEPT ![t] = tk], UNCHANGED <<busy, waiters>>,
         task[t].at # "wait", tk.at # "wait", Inside(t)' <=> Inside(t), Sane(tk)
  PROVE  IInv'
<1>1. \A u \in Tasks : u # t => task'[u] = task[u]
  BY DEF IInv, TasksOK
<1>2. task'[t] = tk
  BY DEF IInv, TasksOK
<1>3. \A u \in Tasks : Inside(u)' <=> Inside(u)
  BY <1>1 DEF Inside, UnderLock
<1>4. TasksOK'
  BY <1>1, <1>2 DEF IInv, TasksOK
<1>5. OneAtATime' /\ BusyOK'
  BY <1>3 DEF IInv, LockInv, OneAtATime, BusyOK
<1>6. QueueOK'
  BY <1>1, <1>2 DEF IInv, LockInv, QueueOK, TasksOK
<1>. QED
  BY <1>4, <1>5, <1>6 DEF IInv, LockInv

\* What a task can be after ensureModel: still inside when it loads under the
\* lock, still outside when it does not.
Later(tk) == IF tk.engine \in Engines THEN {"register", "load", "infer"}
             ELSE {"register", "load", "acquire", "model"}

LEMMA WithModelPlace ==
  ASSUME InferenceAssumption, NEW t \in Tasks, NEW tk \in Task, Sane(tk), WithModel(t, tk)
  PROVE  \E new \in Task : /\ task' = [task EXCEPT ![t] = new]
                           /\ new.engine = tk.engine /\ new.at \in Later(tk) /\ Sane(new)
<1>. DEFINE new == IF tk.engine \in Engines THEN [tk EXCEPT !.at = "infer"]
                   ELSE IF tk.work = "index" /\ tk.root \in Unreadable
                   THEN Searching(tk.root) ELSE [tk EXCEPT !.at = "acquire"]
<1>1. task' = [task EXCEPT ![t] = new]
  BY DEF WithModel
<1>2. new \in Task
  BY DEF Task, Places, Works, Searching, AllEngines
<1>3. new.engine = tk.engine
  BY DEF Searching, Task, AllEngines
<1>4. new.at \in Later(tk)
  BY DEF Later, Searching, Task
<1>5. Sane(new)
  BY DEF Sane, Searching, Task, InferenceAssumption
<1>. HIDE DEF new
<1>. QED
  BY <1>1, <1>2, <1>3, <1>4, <1>5

LEMMA EnsureModelPlace ==
  ASSUME InferenceAssumption, NEW t \in Tasks, NEW tk \in Task, Sane(tk), EnsureModel(t, tk)
  PROVE  \E new \in Task : /\ task' = [task EXCEPT ![t] = new]
                           /\ new.engine = tk.engine /\ new.at \in Later(tk) /\ Sane(new)
<1>1. CASE loaded[tk.engine] /\ WithModel(t, tk)
  BY <1>1, WithModelPlace
<1>2. CASE task' = [task EXCEPT ![t] = [tk EXCEPT !.at = "load"]]
  <2>1. [tk EXCEPT !.at = "load"] \in Task
    BY DEF Task, Places
  <2>2. [tk EXCEPT !.at = "load"].at \in Later(tk) /\ [tk EXCEPT !.at = "load"].engine = tk.engine
        /\ Sane([tk EXCEPT !.at = "load"])
    BY DEF Later, Task, Sane
  <2>. QED
    BY <1>2, <2>1, <2>2
<1>3. CASE task' = [task EXCEPT ![t] = [tk EXCEPT !.at = "register"]]
  <2>1. [tk EXCEPT !.at = "register"] \in Task
    BY DEF Task, Places
  <2>2. [tk EXCEPT !.at = "register"].at \in Later(tk)
        /\ [tk EXCEPT !.at = "register"].engine = tk.engine
        /\ Sane([tk EXCEPT !.at = "register"])
    BY DEF Later, Task, Sane
  <2>. QED
    BY <1>3, <2>1, <2>2
<1>. QED
  BY <1>1, <1>2, <1>3 DEF EnsureModel

\* `release` by the task inside: the oldest waiter is inside, or nobody.
LEMMA ReleaseKeeps ==
  ASSUME IInv, NEW t \in Tasks, NEW left \in Task, Inside(t), Release(t, left),
         left.at \in {"idle", "store"}, Sane(left)
  PROVE  IInv'
<1>1. \A u \in Tasks : Inside(u) <=> u = t
  BY DEF IInv, LockInv, OneAtATime
<1>2. task[t].at # "wait"
  BY DEF Inside
<1>3. CASE waiters = <<>>
  <2>1. /\ busy' = FALSE /\ waiters' = waiters
        /\ task' = [task EXCEPT ![t] = left]
    BY <1>3 DEF Release
  <2>2. /\ \A u \in Tasks : u # t => task'[u] = task[u]
        /\ task'[t] = left
    BY <2>1 DEF IInv, TasksOK
  <2>3. \A u \in Tasks : ~Inside(u)'
    BY <1>1, <2>2 DEF Inside, UnderLock
  <2>4. TasksOK'
    BY <2>1, <2>2 DEF IInv, TasksOK, Sane
  <2>5. OneAtATime' /\ BusyOK'
    BY <1>3, <2>1, <2>3 DEF OneAtATime, BusyOK
  <2>6. QueueOK'
    BY <1>2, <2>1, <2>2 DEF IInv, LockInv, QueueOK, TasksOK
  <2>. QED
    BY <2>4, <2>5, <2>6 DEF IInv, LockInv
<1>4. CASE waiters # <<>>
  <2>. DEFINE h == Head(waiters)
  <2>1. /\ busy' = busy /\ waiters' = Tail(waiters)
        /\ task' = [task EXCEPT ![h] = Entered(@), ![t] = left]
    BY <1>4 DEF Release
  <2>2. /\ Len(waiters) \in Nat \ {0} /\ h = waiters[1] /\ h \in Tasks
        /\ Len(waiters') = Len(waiters) - 1 /\ waiters' \in Seq(Tasks)
        /\ \A i \in 1..Len(waiters') : i + 1 \in 1..Len(waiters) /\ waiters'[i] = waiters[i + 1]
    BY <1>4, <2>1 DEF IInv, TasksOK
  <2>. HIDE DEF h
  <2>3. task[h].at = "wait" /\ h # t
    BY <1>2, <2>2 DEF IInv, LockInv, QueueOK
  <2>4. /\ \A u \in Tasks : u # t /\ u # h => task'[u] = task[u]
        /\ task'[t] = left /\ task'[h] = Entered(task[h])
    BY <2>1, <2>2, <2>3 DEF IInv, TasksOK
  <2>5. /\ Entered(task[h]) \in Task /\ Entered(task[h]).at \in {"model", "infer"}
        /\ Entered(task[h]).engine = task[h].engine
        /\ task[h].engine \in Engines => Entered(task[h]).at = "model"
        /\ task[h].engine \notin Engines => Entered(task[h]).at = "infer"
    BY <2>2 DEF Entered, IInv, TasksOK, Task, Places
  <2>6. \A u \in Tasks : Inside(u)' <=> u = h
    BY <1>1, <2>2, <2>3, <2>4, <2>5 DEF Inside, UnderLock
  <2>7. TasksOK'
    <3>1. task' \in [Tasks -> Task]
      BY <2>1, <2>2, <2>5 DEF IInv, TasksOK
    <3>2. ASSUME NEW u \in Tasks PROVE Sane(task'[u])
      <4>1. CASE u = h
        <5>1. Sane(task[h]) /\ task[h] \in Task
          BY <2>2 DEF IInv, TasksOK
        <5>2. Entered(task[h]).work = task[h].work
          BY <5>1 DEF Entered, Task
        <5>. QED
          BY <4>1, <5>1, <5>2, <2>4, <2>5 DEF Sane
      <4>2. CASE u = t
        BY <4>2, <2>4
      <4>3. CASE u # h /\ u # t
        BY <4>3, <2>4 DEF IInv, TasksOK
      <4>. QED
        BY <4>1, <4>2, <4>3
    <3>. QED
      BY <2>2, <3>1, <3>2 DEF TasksOK
  <2>8. OneAtATime' /\ BusyOK'
    <3>1. busy
      BY <1>4 DEF IInv, LockInv, BusyOK
    <3>. QED
      BY <2>1, <2>2, <2>6, <3>1 DEF OneAtATime, BusyOK
  <2>9. QueueOK'
    <3>. DEFINE n == Len(waiters)
    <3>1. /\ n \in Nat \ {0} /\ Len(waiters') = n - 1
          /\ \A i \in 1..n - 1 : waiters'[i] = waiters[i + 1]
      BY <2>2
    <3>2. /\ \A i \in 1..n : waiters[i] \in Tasks /\ task[waiters[i]].at = "wait"
          /\ \A i, j \in 1..n : waiters[i] = waiters[j] => i = j
          /\ \A u \in Tasks : task[u].at = "wait" => \E i \in 1..n : waiters[i] = u
      BY DEF IInv, LockInv, QueueOK, TasksOK
    <3>. HIDE DEF n
    <3>3. \A i \in 1..n - 1 : waiters'[i] # h /\ waiters'[i] # t /\ waiters'[i] \in Tasks
      BY <1>2, <2>2, <3>1, <3>2
    <3>4. \A i \in 1..n - 1 : task'[waiters'[i]].at = "wait"
      <4>1. ASSUME NEW i \in 1..n - 1 PROVE task'[waiters'[i]].at = "wait"
        <5>1. task'[waiters'[i]] = task[waiters'[i]]
          BY <2>4, <3>3
        <5>2. waiters'[i] = waiters[i + 1] /\ i + 1 \in 1..n
          BY <3>1
        <5>. QED
          BY <5>1, <5>2, <3>2
      <4>. QED
        BY <4>1
    <3>5. \A i, j \in 1..n - 1 : waiters'[i] = waiters'[j] => i = j
      BY <3>1, <3>2
    <3>6. ASSUME NEW u \in Tasks, task'[u].at = "wait"
          PROVE  \E i \in 1..n - 1 : waiters'[i] = u
      <4>1. u # t /\ u # h /\ task[u].at = "wait"
        BY <3>6, <2>4, <2>5
      <4>2. PICK i \in 1..n : waiters[i] = u
        BY <4>1, <3>2
      <4>3. i # 1
        BY <2>2, <4>1, <4>2
      <4>4. i - 1 \in 1..n - 1 /\ waiters'[i - 1] = u
        BY <3>1, <4>2, <4>3
      <4>. QED
        BY <4>4
    <3>. QED
      BY <3>1, <3>4, <3>5, <3>6 DEF QueueOK
  <2>. QED
    BY <2>7, <2>8, <2>9 DEF IInv, LockInv
<1>. QED
  BY <1>3, <1>4

\* `acquire`: in when the lock is free, else at the end of the queue.
LEMMA AcquireKeeps ==
  ASSUME IInv, NEW t \in Tasks, Acquire(t)
  PROVE  IInv'
<1>1. task[t].at = "acquire" /\ ~Inside(t)
  BY DEF Acquire, Inside
<1>2. CASE busy
  <2>1. waiters' = Append(waiters, t) /\ busy' = busy
        /\ task' = [task EXCEPT ![t].at = "wait"]
    BY <1>2 DEF Acquire, Go
  <2>2. /\ \A u \in Tasks : u # t => task'[u] = task[u]
        /\ task'[t].at = "wait" /\ task' \in [Tasks -> Task]
    BY <2>1 DEF IInv, TasksOK, Task, Places
  <2>3. /\ waiters' \in Seq(Tasks) /\ Len(waiters) \in Nat
        /\ Len(waiters') = Len(waiters) + 1 /\ waiters'[Len(waiters) + 1] = t
        /\ \A i \in 1..Len(waiters) : waiters'[i] = waiters[i] /\ waiters[i] \in Tasks
    BY <2>1 DEF IInv, TasksOK
  <2>4. \A u \in Tasks : Inside(u)' <=> Inside(u)
    BY <1>1, <2>2 DEF Inside, UnderLock
  <2>5. TasksOK'
    <3>1. Sane(task'[t])
      BY <1>1, <2>1, <2>2 DEF IInv, TasksOK, Sane
    <3>. QED
      BY <2>2, <2>3, <3>1 DEF IInv, TasksOK
  <2>6. OneAtATime' /\ BusyOK'
    BY <1>2, <2>1, <2>4 DEF IInv, LockInv, OneAtATime, BusyOK
  <2>7. QueueOK'
    <3>1. \A i \in 1..Len(waiters) : waiters[i] # t /\ task'[waiters[i]].at = "wait"
      BY <1>1, <2>2, <2>3 DEF IInv, LockInv, QueueOK
    <3>2. \A i \in 1..Len(waiters') : i \in 1..Len(waiters) \/ i = Len(waiters')
      BY <2>3
    <3>3. \A i \in 1..Len(waiters') : task'[waiters'[i]].at = "wait"
      BY <2>2, <2>3, <3>1, <3>2
    <3>4. \A i, j \in 1..Len(waiters') : waiters'[i] = waiters'[j] => i = j
      BY <2>3, <3>1, <3>2 DEF IInv, LockInv, QueueOK
    <3>5. ASSUME NEW u \in Tasks, task'[u].at = "wait"
          PROVE  \E i \in 1..Len(waiters') : waiters'[i] = u
      <4>1. CASE u = t
        BY <4>1, <2>3
      <4>2. CASE u # t
        <5>1. PICK i \in 1..Len(waiters) : waiters[i] = u
          BY <4>2, <3>5, <2>2 DEF IInv, LockInv, QueueOK
        <5>. QED
          BY <5>1, <2>3
      <4>. QED
        BY <4>1, <4>2
    <3>. QED
      BY <3>3, <3>4, <3>5 DEF QueueOK
  <2>. QED
    BY <2>5, <2>6, <2>7 DEF IInv, LockInv
<1>3. CASE ~busy
  <2>1. waiters' = waiters /\ busy' = TRUE /\ task' = [task EXCEPT ![t] = Entered(@)]
    BY <1>3 DEF Acquire
  <2>2. waiters = <<>> /\ \A u \in Tasks : ~Inside(u)
    BY <1>3 DEF IInv, LockInv, BusyOK
  <2>3. /\ Entered(task[t]) \in Task /\ Entered(task[t]).at \in {"model", "infer"}
        /\ Entered(task[t]).engine = task[t].engine
        /\ task[t].engine \in Engines => Entered(task[t]).at = "model"
        /\ task[t].engine \notin Engines => Entered(task[t]).at = "infer"
    BY DEF Entered, IInv, TasksOK, Task, Places
  <2>4. /\ \A u \in Tasks : u # t => task'[u] = task[u]
        /\ task'[t] = Entered(task[t]) /\ task' \in [Tasks -> Task]
    BY <2>1, <2>3 DEF IInv, TasksOK
  <2>5. \A u \in Tasks : Inside(u)' <=> u = t
    BY <2>2, <2>3, <2>4 DEF Inside, UnderLock
  <2>6. TasksOK'
    <3>1. Sane(task'[t])
      BY <1>1, <2>3, <2>4 DEF IInv, TasksOK, Sane, Entered
    <3>. QED
      BY <2>1, <2>4, <3>1 DEF IInv, TasksOK
  <2>7. OneAtATime' /\ BusyOK'
    BY <2>1, <2>2, <2>5 DEF OneAtATime, BusyOK
  <2>8. QueueOK'
    BY <1>1, <2>1, <2>2, <2>3, <2>4 DEF IInv, LockInv, QueueOK
  <2>. QED
    BY <2>6, <2>7, <2>8 DEF IInv, LockInv
<1>. QED
  BY <1>2, <1>3

\* A task that enters ensureModel, from outside or inside the lock, stays there.
LEMMA EnsureModelKeeps ==
  ASSUME InferenceAssumption, IInv, NEW t \in Tasks, NEW tk \in Task,
         Sane(tk), EnsureModel(t, tk), task[t].at # "wait",
         Inside(t) <=> tk.engine \in Engines
  PROVE  IInv'
<1>1. PICK new \in Task : /\ task' = [task EXCEPT ![t] = new]
                          /\ new.engine = tk.engine /\ new.at \in Later(tk) /\ Sane(new)
  BY EnsureModelPlace
<1>2. UNCHANGED <<busy, waiters>>
  BY DEF EnsureModel
<1>3. task'[t] = new
  BY <1>1 DEF IInv, TasksOK
<1>4. Inside(t)' <=> Inside(t)
  BY <1>1, <1>3 DEF Inside, UnderLock, Later
<1>. QED
  BY <1>1, <1>2, <1>4, OneMoves DEF Later

-----------------------------------------------------------------------------
\* Before the first call the lock is free and nobody waits.
LEMMA InitInv == ASSUME InferenceAssumption, InferenceInit PROVE IInv
<1>1. TasksOK
  BY DEF InferenceInit, TasksOK, Sane, Idle, Task, Places, Works, AllEngines,
         InferenceAssumption
<1>2. \A t \in Tasks : ~Inside(t) /\ task[t].at # "wait"
  BY DEF InferenceInit, Inside, UnderLock, Idle
<1>3. OneAtATime /\ BusyOK
  BY <1>2 DEF InferenceInit, OneAtATime, BusyOK
<1>4. QueueOK
  BY <1>2 DEF InferenceInit, QueueOK
<1>. QED
  BY <1>1, <1>3, <1>4 DEF IInv, LockInv

\* A new call begins outside the lock.
LEMMA CallKeeps ==
  ASSUME InferenceAssumption, IInv, NEW t \in Tasks, Call(t)
  PROVE  IInv'
<1>1. task[t].at = "idle" /\ ~Inside(t)
  BY DEF Call, Inside
<1>2. ASSUME NEW tk \in Task, Become(t, tk), tk.at \in {"acquire", "model"},
             Sane(tk), tk.at = "model" => tk.engine = Embed
      PROVE  IInv'
  <2>1. task' = [task EXCEPT ![t] = tk] /\ UNCHANGED <<busy, waiters>> /\ task'[t] = tk
    BY <1>2 DEF Become, IInv, TasksOK
  <2>2. ~Inside(t)'
    BY <1>2, <2>1 DEF Inside, UnderLock, InferenceAssumption
  <2>. QED
    BY <1>1, <1>2, <2>1, <2>2, OneMoves
<1>3. CASE Infer(t)
  <2>1. PICK e \in Engines :
          Become(t, [at |-> "acquire", engine |-> e, work |-> "infer", root |-> NoRoot])
    BY <1>3 DEF Infer
  <2>2. /\ [at |-> "acquire", engine |-> e, work |-> "infer", root |-> NoRoot] \in Task
        /\ Sane([at |-> "acquire", engine |-> e, work |-> "infer", root |-> NoRoot])
    BY DEF Task, Places, Works, AllEngines, Sane
  <2>. QED
    BY <1>2, <2>1, <2>2
<1>4. CASE EmbedStrings(t)
  <2>1. /\ [Idle EXCEPT !.at = "model"] \in Task /\ [Idle EXCEPT !.at = "model"].engine = Embed
        /\ Sane([Idle EXCEPT !.at = "model"])
    BY DEF Idle, Task, Places, Works, AllEngines, Sane
  <2>. QED
    BY <1>1, <1>4, <2>1, EnsureModelKeeps DEF EmbedStrings, InferenceAssumption
<1>5. CASE EmbedCall(t)
  <2>1. PICK r \in Roots : \/ Become(t, Searching(r))
                          \/ EnsureModel(t, [Searching(r) EXCEPT !.work = "index"])
    BY <1>5 DEF EmbedCall
  <2>2. /\ Searching(r) \in Task /\ Searching(r).at = "model" /\ Searching(r).engine = Embed
        /\ [Searching(r) EXCEPT !.work = "index"] \in Task
        /\ [Searching(r) EXCEPT !.work = "index"].engine = Embed
        /\ Sane(Searching(r)) /\ Sane([Searching(r) EXCEPT !.work = "index"])
    BY DEF Searching, Task, Places, Works, AllEngines, Sane, InferenceAssumption
  <2>. QED
    BY <1>1, <1>2, <2>1, <2>2, EnsureModelKeeps DEF InferenceAssumption
<1>6. CASE CachedRanks(t)
  <2>1. /\ [Idle EXCEPT !.at = "acquire", !.work = "ranks"] \in Task
        /\ [Idle EXCEPT !.at = "acquire", !.work = "ranks"].at = "acquire"
        /\ Sane([Idle EXCEPT !.at = "acquire", !.work = "ranks"])
    BY DEF Idle, Task, Places, Works, AllEngines, Sane, InferenceAssumption
  <2>. QED
    BY <1>2, <1>6, <2>1 DEF CachedRanks
<1>. QED
  BY <1>3, <1>4, <1>5, <1>6 DEF Call

\* A call goes on: only acquire and release change who is inside.
LEMMA ContinueKeeps ==
  ASSUME InferenceAssumption, IInv, NEW t \in Tasks, Continue(t)
  PROVE  IInv'
<1>1. task[t] \in Task /\ Sane(task[t]) /\ Idle \in Task /\ Sane(Idle) /\ Idle.at = "idle"
  BY DEF IInv, TasksOK, Sane, Idle, Task, Places, Works, AllEngines
<1>2. CASE NeedModel(t)
  <2>1. task[t].at = "model" /\ (Inside(t) <=> task[t].engine \in Engines)
    BY <1>2 DEF NeedModel, Inside, UnderLock
  <2>2. CASE task[t].work = "search" /\ Become(t, Idle) /\ ~UnderLock(t)
    <3>1. task' = [task EXCEPT ![t] = Idle] /\ UNCHANGED <<busy, waiters>> /\ task'[t] = Idle
      BY <2>2 DEF Become, IInv, TasksOK
    <3>. QED
      BY <1>1, <2>1, <2>2, <3>1, OneMoves DEF Inside, UnderLock
  <2>3. CASE EnsureModel(t, task[t])
    BY <1>1, <2>1, <2>3, EnsureModelKeeps
  <2>. QED
    BY <1>1, <1>2, <2>2, <2>3 DEF NeedModel, Sane, UnderLock
<1>3. CASE Register(t)
  <2>. DEFINE new == [task[t] EXCEPT !.at = "load"]
  <2>1. /\ task[t].at = "register" /\ UNCHANGED <<busy, waiters>>
        /\ task' = [task EXCEPT ![t] = new] /\ task'[t] = new
    BY <1>3 DEF Register, Go, IInv, TasksOK
  <2>2. new \in Task /\ new.at = "load" /\ new.engine = task[t].engine /\ Sane(new)
    BY <1>1 DEF Task, Places, Sane
  <2>. HIDE DEF new
  <2>3. Inside(t)' <=> Inside(t)
    BY <2>1, <2>2 DEF Inside, UnderLock
  <2>. QED
    BY <2>1, <2>2, <2>3, OneMoves
<1>4. CASE Load(t)
  <2>1. /\ task[t].at = "load" /\ UNCHANGED <<busy, waiters>>
        /\ WithModel(t, task[t])
    BY <1>4 DEF Load
  <2>2. PICK new \in Task : /\ task' = [task EXCEPT ![t] = new]
                            /\ new.engine = task[t].engine /\ new.at \in Later(task[t])
                            /\ Sane(new)
    BY <1>1, <2>1, WithModelPlace
  <2>3. task'[t] = new
    BY <2>2 DEF IInv, TasksOK
  <2>4. Inside(t)' <=> Inside(t)
    BY <2>1, <2>2, <2>3 DEF Inside, UnderLock, Later
  <2>. QED
    BY <2>1, <2>2, <2>4, OneMoves DEF Later
<1>5. CASE LoadFails(t)
  <2>1. task[t].at = "load"
    BY <1>5 DEF LoadFails
  <2>2. CASE UnderLock(t) /\ Release(t, Idle)
    BY <1>1, <2>1, <2>2, ReleaseKeeps DEF Inside
  <2>3. CASE ~UnderLock(t) /\ Become(t, Idle)
    <3>1. task' = [task EXCEPT ![t] = Idle] /\ UNCHANGED <<busy, waiters>> /\ task'[t] = Idle
      BY <2>3 DEF Become, IInv, TasksOK
    <3>. QED
      BY <1>1, <2>1, <2>3, <3>1, OneMoves DEF Inside
  <2>. QED
    BY <1>5, <2>2, <2>3 DEF LoadFails
<1>6. CASE Acquire(t)
  BY <1>6, AcquireKeeps
<1>7. CASE Leave(t)
  <2>. DEFINE left == IF task[t].work = "index" THEN [task[t] EXCEPT !.at = "store"] ELSE Idle
  <2>1. task[t].at = "infer" /\ Inside(t) /\ Release(t, left)
    BY <1>7 DEF Leave, Inside
  <2>2. left \in Task /\ left.at \in {"idle", "store"}
    BY <1>1 DEF Task, Places, Idle
  <2>3. Sane(left)
    BY <1>1 DEF Sane, Task
  <2>. HIDE DEF left
  <2>. QED
    BY <2>1, <2>2, <2>3, ReleaseKeeps
<1>8. CASE Store(t)
  <2>1. /\ task[t].at = "store" /\ UNCHANGED <<busy, waiters>>
        /\ task' = [task EXCEPT ![t] = Searching(task[t].root)]
        /\ task'[t] = Searching(task[t].root)
    BY <1>8 DEF Store, IInv, TasksOK
  <2>2. /\ Searching(task[t].root) \in Task
        /\ Searching(task[t].root).at = "model" /\ Searching(task[t].root).engine = Embed
        /\ Sane(Searching(task[t].root))
    BY <1>1 DEF Searching, Task, Places, Works, AllEngines, Sane, InferenceAssumption
  <2>3. ~Inside(t) /\ ~Inside(t)'
    BY <2>1, <2>2 DEF Inside, UnderLock, InferenceAssumption
  <2>. QED
    BY <2>1, <2>2, <2>3, OneMoves
<1>. QED
  BY <1>2, <1>3, <1>4, <1>5, <1>6, <1>7, <1>8 DEF Continue

\* Calls, warnings and the passing of time keep the invariant.
LEMMA StepKeeps ==
  ASSUME InferenceAssumption, IInv, [InferenceNext]_inferenceVars
  PROVE  IInv'
<1>1. CASE \E t \in Tasks : Call(t) \/ Continue(t)
  BY <1>1, CallKeeps, ContinueKeeps
<1>2. CASE UNCHANGED <<busy, waiters, task>>
  BY <1>2 DEF IInv, TasksOK, LockInv, OneAtATime, BusyOK, QueueOK, Inside, UnderLock
<1>. QED
  BY <1>1, <1>2 DEF InferenceNext, Age, MemoryWarning, Unload, inferenceVars

\* The inductive invariant behind the two theorems below: who is inside, what
\* `busy` says and what the queue holds go together in every reachable state.
THEOREM LockInvariant == ASSUME InferenceAssumption PROVE InferenceSpec => []IInv
<1>1. InferenceInit => IInv
  BY InitInv
<1>2. IInv /\ [InferenceNext]_inferenceVars => IInv'
  BY StepKeeps
<1>. QED
  BY <1>1, <1>2, PTL DEF InferenceSpec

\* "This actor serializes all inference work end-to-end": for any number of tasks
\* and engines, two of them are never inside `run`.
THEOREM RunIsExclusive ==
  ASSUME InferenceAssumption PROVE InferenceSpec => []OneAtATime
<1>1. IInv => OneAtATime
  BY DEF IInv, LockInv
<1>. QED
  BY <1>1, LockInvariant, PTL

\* A queue without duplicates holds a task at one place, or at none.
LEMMA OncePerTask ==
  ASSUME IInv, NEW t \in Tasks
  PROVE  Cardinality({i \in 1..Len(waiters) : waiters[i] = t}) =
           IF task[t].at = "wait" THEN 1 ELSE 0
<1>. DEFINE places == {i \in 1..Len(waiters) : waiters[i] = t}
<1>1. CASE task[t].at = "wait"
  <2>1. PICK k \in 1..Len(waiters) : waiters[k] = t
    BY <1>1 DEF IInv, LockInv, QueueOK
  <2>2. places = {k}
    BY <2>1 DEF IInv, LockInv, QueueOK
  <2>. QED
    BY <1>1, <2>2, FS_Singleton
<1>2. CASE task[t].at # "wait"
  <2>1. places = {}
    BY <1>2 DEF IInv, LockInv, QueueOK
  <2>. QED
    BY <1>2, <2>1, FS_EmptySet
<1>. QED
  BY <1>1, <1>2

\* `release` resumes the waiter it takes off the queue: the lock is busy exactly
\* while somebody is inside to release it, and every suspended task is in the
\* queue, once.
THEOREM WakeUpsAreNotLost ==
  ASSUME InferenceAssumption PROVE InferenceSpec => []NobodyForgotten
<1>1. IInv => NobodyForgotten
  BY OncePerTask DEF NobodyForgotten, IInv, LockInv, BusyOK
<1>. QED
  BY <1>1, LockInvariant, PTL

-----------------------------------------------------------------------------
(***************************************************************************)
(* The unload handlers                                                     *)
(***************************************************************************)
\* The types the lock does not need.
HandlerTypes ==
  /\ handlers \in Seq(AllEngines) /\ warning \in Seq(AllEngines)
  /\ registered \in [AllEngines -> BOOLEAN] /\ loaded \in [AllEngines -> BOOLEAN]
  /\ index \in Index

Registering(t, e) == task[t].at = "register" /\ task[t].engine = e
Stored(e) == \E i \in 1..Len(handlers) : handlers[i] = e

\* unloadHandlerRegistered is the truth: the engine's handler is stored once, or one
\* task is on its way to store it; a model is loaded, or being loaded, only then.
RegisteredOK ==
  /\ \A i, j \in 1..Len(handlers) : handlers[i] = handlers[j] => i = j
  /\ \A e \in AllEngines, t, u \in Tasks : Registering(t, e) /\ Registering(u, e) => t = u
  /\ \A e \in AllEngines, t \in Tasks : Registering(t, e) => ~Stored(e)
  /\ \A e \in AllEngines :
       registered[e] <=> Stored(e) \/ \E t \in Tasks : Registering(t, e)
  /\ \A e \in AllEngines : loaded[e] => registered[e]
  /\ \A t \in Tasks : task[t].at = "load" => registered[task[t].engine]

HandlerInv == HandlerTypes /\ RegisteredOK

\* A step in which no task comes to register or leaves it, and none comes to load an
\* engine without a handler.
LEMMA NothingRegistered ==
  ASSUME TasksOK, RegisteredOK, UNCHANGED <<handlers, registered>>,
         \A e \in AllEngines : loaded'[e] => registered[e],
         \A u \in Tasks :
           \/ task'[u] = task[u]
           \/ /\ task[u].at # "register" /\ task'[u].at # "register"
              /\ task'[u].at = "load" => registered[task'[u].engine]
  PROVE  RegisteredOK'
<1>1. \A u \in Tasks, e \in AllEngines : Registering(u, e)' <=> Registering(u, e)
  BY DEF Registering
<1>2. \A e \in AllEngines : Stored(e)' <=> Stored(e)
  BY DEF Stored
<1>. QED
  BY <1>1, <1>2 DEF RegisteredOK

\* What a task is after WithModel: it neither registers nor loads.
LEMMA WithModelHandlers ==
  ASSUME TasksOK, NEW t \in Tasks, NEW tk \in Task, WithModel(t, tk)
  PROVE  /\ \A u \in Tasks : u # t => task'[u] = task[u]
         /\ task'[t].at \in {"infer", "model", "acquire"}
         /\ index \in Index => index' \in Index
<1>1. task' = [task EXCEPT ![t] =
                IF tk.engine \in Engines THEN [tk EXCEPT !.at = "infer"]
                ELSE IF tk.work = "index" /\ tk.root \in Unreadable THEN Searching(tk.root)
                ELSE [tk EXCEPT !.at = "acquire"]]
  BY DEF WithModel
<1>2. /\ [tk EXCEPT !.at = "infer"].at = "infer" /\ [tk EXCEPT !.at = "acquire"].at = "acquire"
      /\ Searching(tk.root).at = "model"
  BY DEF Searching, Task
<1>3. index \in Index => index' \in Index
  BY DEF WithModel, Index, Task
<1>. QED
  BY <1>1, <1>2, <1>3 DEF TasksOK

\* ensureModel goes to the model, to a load whose engine has its handler, or to be the
\* one that registers it.
LEMMA EnsureModelHandlers ==
  ASSUME TasksOK, HandlerInv, NEW t \in Tasks, NEW tk \in Task, task[t].at # "register",
         EnsureModel(t, tk)
  PROVE  HandlerInv'
<1>1. tk.engine \in AllEngines /\ UNCHANGED <<handlers, loaded, warning>>
  BY DEF Task, EnsureModel
<1>2. CASE loaded[tk.engine] /\ WithModel(t, tk) /\ UNCHANGED registered
  <2>1. RegisteredOK'
    BY <1>1, <1>2, WithModelHandlers, NothingRegistered DEF HandlerInv, RegisteredOK
  <2>. QED
    BY <1>1, <1>2, <2>1, WithModelHandlers DEF HandlerInv, HandlerTypes
<1>3. CASE /\ registered[tk.engine] /\ UNCHANGED <<registered, index>>
           /\ task' = [task EXCEPT ![t] = [tk EXCEPT !.at = "load"]]
  <2>1. /\ task'[t].at = "load" /\ task'[t].engine = tk.engine
        /\ \A u \in Tasks : u # t => task'[u] = task[u]
    BY <1>3 DEF TasksOK, Task
  <2>2. RegisteredOK'
    BY <1>1, <1>3, <2>1, NothingRegistered DEF HandlerInv, RegisteredOK
  <2>. QED
    BY <1>1, <1>3, <2>2 DEF HandlerInv, HandlerTypes
<1>4. CASE /\ ~registered[tk.engine] /\ registered' = [registered EXCEPT ![tk.engine] = TRUE]
           /\ task' = [task EXCEPT ![t] = [tk EXCEPT !.at = "register"]] /\ UNCHANGED index
  <2>. DEFINE e == tk.engine
  <2>1. /\ task'[t].at = "register" /\ task'[t].engine = e
        /\ \A u \in Tasks : u # t => task'[u] = task[u]
    BY <1>4 DEF TasksOK, Task
  <2>2. ~Stored(e) /\ \A u \in Tasks : ~Registering(u, e)
    BY <1>1, <1>4 DEF HandlerInv, RegisteredOK
  <2>3. registered'[e] /\ \A f \in AllEngines : f # e => registered'[f] = registered[f]
    BY <1>1, <1>4 DEF HandlerInv, HandlerTypes
  <2>4. \A f \in AllEngines, u \in Tasks :
          Registering(u, f)' <=> Registering(u, f) \/ (u = t /\ f = e)
    BY <2>1 DEF Registering
  <2>5. \A f \in AllEngines : Stored(f)' <=> Stored(f)
    BY <1>1 DEF Stored
  <2>6. \A u \in Tasks : task[u].engine \in AllEngines
    BY DEF TasksOK, Task
  <2>7. RegisteredOK'
    BY <1>1, <2>1, <2>2, <2>3, <2>4, <2>5, <2>6 DEF HandlerInv, RegisteredOK
  <2>8. registered' \in [AllEngines -> BOOLEAN]
    BY <1>1, <1>4 DEF HandlerInv, HandlerTypes
  <2>. QED
    BY <1>1, <1>4, <2>7, <2>8 DEF HandlerInv, HandlerTypes
<1>. QED
  BY <1>2, <1>3, <1>4 DEF EnsureModel

\* A task that neither was nor is about to register or load.
LEMMA BecomeHandlers ==
  ASSUME TasksOK, HandlerInv, NEW t \in Tasks, NEW tk, Become(t, tk),
         task[t].at # "register", tk.at \notin {"register", "load"}
  PROVE  HandlerInv'
<1>1. /\ task'[t] = tk /\ \A u \in Tasks : u # t => task'[u] = task[u]
      /\ UNCHANGED <<handlers, registered, loaded, index, warning>>
  BY DEF Become, TasksOK
<1>2. RegisteredOK'
  BY <1>1, NothingRegistered DEF HandlerInv, RegisteredOK
<1>. QED
  BY <1>1, <1>2 DEF HandlerInv, HandlerTypes

\* Whoever gets the lock handed over was suspended, whoever gives it back inside.
LEMMA ReleaseHandlers ==
  ASSUME IInv, HandlerInv, NEW t \in Tasks, NEW left, Release(t, left),
         task[t].at # "register", task[t].at # "wait", left.at \notin {"register", "load"}
  PROVE  HandlerInv'
<1>1. UNCHANGED <<handlers, registered, loaded, index, warning>>
  BY DEF Release
<1>2. \A u \in Tasks :
        \/ task'[u] = task[u]
        \/ /\ task[u].at # "register" /\ task'[u].at \notin {"register", "load"}
  <2>1. CASE waiters = <<>>
    BY <2>1 DEF Release, IInv, TasksOK
  <2>2. CASE waiters # <<>>
    <3>. DEFINE h == Head(waiters)
    <3>1. h \in Tasks /\ task[h].at = "wait"
      <4>1. h = waiters[1] /\ 1 \in 1..Len(waiters)
        BY <2>2 DEF IInv, TasksOK
      <4>. QED
        BY <4>1 DEF IInv, TasksOK, LockInv, QueueOK
    <3>2. task' = [task EXCEPT ![h] = Entered(@), ![t] = left]
      BY <2>2 DEF Release
    <3>3. Entered(task[h]).at \in {"model", "infer"}
      BY <3>1 DEF Entered, IInv, TasksOK, Task
    <3>. HIDE DEF h
    <3>4. task'[h] = Entered(task[h]) /\ task'[t] = left
          /\ \A u \in Tasks : u # h /\ u # t => task'[u] = task[u]
      BY <3>1, <3>2 DEF IInv, TasksOK
    <3>. QED
      BY <3>1, <3>3, <3>4
  <2>. QED
    BY <2>1, <2>2
<1>3. RegisteredOK'
  BY <1>1, <1>2, NothingRegistered DEF IInv, HandlerInv, RegisteredOK
<1>. QED
  BY <1>1, <1>3 DEF HandlerInv, HandlerTypes

\* The handler is stored by the task that took the flag.
LEMMA RegisterHandlers ==
  ASSUME IInv, HandlerInv, NEW t \in Tasks, Register(t)
  PROVE  HandlerInv'
<1>. DEFINE e == task[t].engine
            n == Len(handlers)
<1>1. /\ e \in AllEngines /\ Registering(t, e) /\ handlers' = Append(handlers, e)
      /\ task' = [task EXCEPT ![t].at = "load"]
      /\ UNCHANGED <<registered, loaded, index, warning>>
  BY DEF Register, Go, Registering, IInv, TasksOK, Task
<1>2. /\ task'[t].at = "load" /\ task'[t].engine = e
      /\ \A u \in Tasks : u # t => task'[u] = task[u]
  BY <1>1 DEF IInv, TasksOK, Task
<1>3. /\ handlers' \in Seq(AllEngines) /\ n \in Nat /\ Len(handlers') = n + 1
      /\ handlers'[n + 1] = e /\ \A i \in 1..n : handlers'[i] = handlers[i]
  BY <1>1 DEF HandlerInv, HandlerTypes
<1>4. ~Stored(e) /\ registered[e]
  BY <1>1 DEF HandlerInv, RegisteredOK
<1>5. \A i \in 1..n + 1 : i \in 1..n \/ i = n + 1
  BY <1>3
<1>6. \A i, j \in 1..Len(handlers') : handlers'[i] = handlers'[j] => i = j
  BY <1>3, <1>4, <1>5 DEF HandlerInv, RegisteredOK, Stored
<1>7. \A f \in AllEngines : Stored(f)' <=> Stored(f) \/ f = e
  <2>1. n + 1 \in 1..n + 1 /\ 1..n \subseteq 1..n + 1
    BY <1>3
  <2>. QED
    BY <1>3, <1>5, <2>1 DEF Stored
<1>8. \A f \in AllEngines, u \in Tasks : Registering(u, f)' <=> Registering(u, f) /\ u # t
  BY <1>2 DEF Registering
<1>9. \A u \in Tasks : Registering(u, e) => u = t
  BY <1>1 DEF HandlerInv, RegisteredOK
<1>10. \A f \in AllEngines : Registering(t, f) => f = e
  BY DEF Registering
<1>11. RegisteredOK'
  BY <1>1, <1>2, <1>4, <1>6, <1>7, <1>8, <1>9, <1>10 DEF HandlerInv, RegisteredOK
<1>. QED
  BY <1>1, <1>3, <1>11 DEF HandlerInv, HandlerTypes

\* A new call.
LEMMA CallHandlers ==
  ASSUME InferenceAssumption, IInv, HandlerInv, NEW t \in Tasks, Call(t)
  PROVE  HandlerInv'
<1>1. TasksOK /\ task[t].at = "idle"
  BY DEF Call, IInv
<1>2. CASE Infer(t)
  <2>1. PICK e \in Engines :
          Become(t, [at |-> "acquire", engine |-> e, work |-> "infer", root |-> NoRoot])
    BY <1>2 DEF Infer
  <2>. QED
    BY <1>1, <2>1, BecomeHandlers
<1>3. CASE EmbedStrings(t)
  <2>1. [Idle EXCEPT !.at = "model"] \in Task
    BY DEF Idle, Task, Places, Works, AllEngines
  <2>. QED
    BY <1>1, <1>3, <2>1, EnsureModelHandlers DEF EmbedStrings
<1>4. CASE EmbedCall(t)
  <2>1. PICK r \in Roots : \/ Become(t, Searching(r))
                          \/ EnsureModel(t, [Searching(r) EXCEPT !.work = "index"])
    BY <1>4 DEF EmbedCall
  <2>2. /\ Searching(r).at = "model"
        /\ [Searching(r) EXCEPT !.work = "index"] \in Task
    BY DEF Searching, Task, Places, Works, AllEngines
  <2>. QED
    BY <1>1, <2>1, <2>2, BecomeHandlers, EnsureModelHandlers
<1>5. CASE CachedRanks(t)
  <2>1. [Idle EXCEPT !.at = "acquire", !.work = "ranks"].at = "acquire"
    BY DEF Idle
  <2>. QED
    BY <1>1, <1>5, <2>1, BecomeHandlers DEF CachedRanks
<1>. QED
  BY <1>2, <1>3, <1>4, <1>5 DEF Call

\* A call goes on.
LEMMA ContinueHandlers ==
  ASSUME InferenceAssumption, IInv, HandlerInv, NEW t \in Tasks, Continue(t)
  PROVE  HandlerInv'
<1>1. TasksOK /\ task[t] \in Task /\ Idle.at = "idle"
  BY DEF IInv, TasksOK, Idle
<1>2. CASE NeedModel(t)
  BY <1>1, <1>2, BecomeHandlers, EnsureModelHandlers DEF NeedModel
<1>3. CASE Register(t)
  BY <1>3, RegisterHandlers
<1>4. CASE Load(t)
  <2>1. /\ task[t].at = "load" /\ WithModel(t, task[t])
        /\ loaded' = [loaded EXCEPT ![task[t].engine] = TRUE]
        /\ UNCHANGED <<handlers, registered, warning>>
    BY <1>4 DEF Load
  <2>2. /\ \A u \in Tasks : u # t => task'[u] = task[u]
        /\ task'[t].at \in {"infer", "model", "acquire"} /\ index' \in Index
    BY <1>1, <2>1, WithModelHandlers DEF HandlerInv, HandlerTypes
  <2>3. registered[task[t].engine] /\ task[t].engine \in AllEngines
    BY <1>1, <2>1 DEF HandlerInv, RegisteredOK, Task
  <2>4. /\ loaded' \in [AllEngines -> BOOLEAN]
        /\ \A e \in AllEngines : loaded'[e] => registered[e]
    BY <2>1, <2>3 DEF HandlerInv, HandlerTypes, RegisteredOK
  <2>5. RegisteredOK'
    BY <1>1, <2>1, <2>2, <2>4, NothingRegistered DEF HandlerInv
  <2>. QED
    BY <2>1, <2>2, <2>4, <2>5 DEF HandlerInv, HandlerTypes
<1>5. CASE LoadFails(t)
  BY <1>1, <1>5, ReleaseHandlers, BecomeHandlers DEF LoadFails
<1>6. CASE Acquire(t)
  <2>1. task[t].at = "acquire" /\ UNCHANGED <<handlers, registered, loaded, index, warning>>
    BY <1>6 DEF Acquire
  <2>2. /\ \A u \in Tasks : u # t => task'[u] = task[u]
        /\ task'[t].at \in {"wait", "model", "infer"}
    BY <1>1, <1>6 DEF Acquire, Go, Entered, TasksOK, Task
  <2>3. RegisteredOK'
    BY <1>1, <2>1, <2>2, NothingRegistered DEF HandlerInv, RegisteredOK
  <2>. QED
    BY <2>1, <2>3 DEF HandlerInv, HandlerTypes
<1>7. CASE Leave(t)
  <2>. DEFINE left == IF task[t].work = "index" THEN [task[t] EXCEPT !.at = "store"] ELSE Idle
  <2>1. task[t].at = "infer" /\ Release(t, left)
    BY <1>7 DEF Leave
  <2>2. left.at \in {"store", "idle"}
    BY <1>1 DEF Task
  <2>. HIDE DEF left
  <2>. QED
    BY <2>1, <2>2, ReleaseHandlers
<1>8. CASE Store(t)
  <2>1. /\ task[t].at = "store" /\ UNCHANGED <<handlers, registered, loaded, warning>>
        /\ task' = [task EXCEPT ![t] = Searching(task[t].root)]
        /\ index' = [index EXCEPT !.of = task[t].root, !.current = TRUE]
    BY <1>8 DEF Store
  <2>2. /\ task'[t].at = "model" /\ \A u \in Tasks : u # t => task'[u] = task[u]
    BY <1>1, <2>1 DEF TasksOK, Searching
  <2>3. index' \in Index
    BY <1>1, <2>1 DEF HandlerInv, HandlerTypes, Index, Task
  <2>4. RegisteredOK'
    BY <1>1, <2>1, <2>2, NothingRegistered DEF HandlerInv, RegisteredOK
  <2>. QED
    BY <2>1, <2>3, <2>4 DEF HandlerInv, HandlerTypes
<1>. QED
  BY <1>2, <1>3, <1>4, <1>5, <1>6, <1>7, <1>8 DEF Continue

\* A warning only takes models away.
LEMMA HandlerStep ==
  ASSUME InferenceAssumption, IInv, HandlerInv, [InferenceNext]_inferenceVars
  PROVE  HandlerInv'
<1>1. TasksOK
  BY DEF IInv
<1>2. ASSUME UNCHANGED <<handlers, registered, task>>, warning' \in Seq(AllEngines),
             loaded' \in [AllEngines -> BOOLEAN], index' \in Index,
             \A e \in AllEngines : loaded'[e] => loaded[e]
      PROVE  HandlerInv'
  <2>1. RegisteredOK'
    BY <1>1, <1>2, NothingRegistered DEF HandlerInv, RegisteredOK
  <2>. QED
    BY <1>2, <2>1 DEF HandlerInv, HandlerTypes
<1>3. CASE Age
  <2>1. index' \in Index
    BY <1>3 DEF Age, HandlerInv, HandlerTypes, Index
  <2>. QED
    BY <1>2, <1>3, <2>1 DEF Age, HandlerInv, HandlerTypes
<1>4. CASE MemoryWarning
  BY <1>2, <1>4 DEF MemoryWarning, HandlerInv, HandlerTypes
<1>5. CASE Unload
  <2>1. /\ warning' \in Seq(AllEngines) /\ Head(warning) \in AllEngines
        /\ UNCHANGED <<handlers, registered, task>>
    BY <1>5 DEF Unload, HandlerInv, HandlerTypes
  <2>2. /\ loaded' \in [AllEngines -> BOOLEAN]
        /\ \A e \in AllEngines : loaded'[e] => loaded[e]
    BY <1>5, <2>1 DEF Unload, HandlerInv, HandlerTypes
  <2>3. index' \in Index
    BY <1>5 DEF Unload, HandlerInv, HandlerTypes, Index
  <2>. QED
    BY <1>2, <2>1, <2>2, <2>3
<1>6. CASE UNCHANGED inferenceVars
  BY <1>2, <1>6 DEF inferenceVars, HandlerInv, HandlerTypes
<1>. QED
  BY <1>3, <1>4, <1>5, <1>6, CallHandlers, ContinueHandlers DEF InferenceNext

\* Before the first call no engine has a handler, and none has a model.
LEMMA HandlerInit == ASSUME InferenceAssumption, InferenceInit PROVE HandlerInv
<1>1. HandlerTypes
  BY DEF InferenceInit, HandlerTypes, Index
<1>2. \A e \in AllEngines : ~Stored(e) /\ \A t \in Tasks : ~Registering(t, e)
  BY DEF InferenceInit, Registering, Stored, Idle
<1>3. RegisteredOK
  <2>1. /\ \A i \in 1..Len(handlers) : FALSE
        /\ \A e \in AllEngines : ~registered[e] /\ ~loaded[e]
        /\ \A t \in Tasks : task[t].at = "idle"
    BY DEF InferenceInit, Idle
  <2>2. \A e \in AllEngines :
          registered[e] <=> Stored(e) \/ \E t \in Tasks : Registering(t, e)
    BY <1>2, <2>1, Zenon
  <2>3. \A e \in AllEngines : loaded[e] => registered[e]
    BY <2>1, Zenon
  <2>. QED
    BY <1>2, <2>1, <2>2, <2>3 DEF RegisteredOK
<1>. QED
  BY <1>1, <1>3 DEF HandlerInv

\* The invariant of the handlers, on top of the lock's.
LEMMA HandlerInvariant == ASSUME InferenceAssumption PROVE InferenceSpec => []HandlerInv
<1>1. InferenceInit => HandlerInv
  BY HandlerInit
<1>2. IInv /\ HandlerInv /\ [InferenceNext]_inferenceVars => HandlerInv'
  BY HandlerStep
<1>. QED
  BY <1>1, <1>2, LockInvariant, PTL DEF InferenceSpec

\* Types; a task under the lock has no index to build or store.
THEOREM InferenceTypesHold ==
  ASSUME InferenceAssumption PROVE InferenceSpec => []InferenceTypeOK
<1>1. IInv /\ HandlerInv => InferenceTypeOK
  <2>. SUFFICES ASSUME IInv, HandlerInv PROVE InferenceTypeOK
    OBVIOUS
  <2>1. busy \in BOOLEAN /\ waiters \in Seq(Tasks) /\ task \in [Tasks -> Task]
    BY DEF IInv, TasksOK, LockInv, BusyOK
  <2>2. \A t \in Tasks : /\ (UnderLock(t) => task[t].work = "infer")
                        /\ (task[t].at = "store" => task[t].work = "index")
    BY DEF IInv, TasksOK, Sane, UnderLock
  <2>. QED
    BY <2>1, <2>2 DEF HandlerInv, HandlerTypes, InferenceTypeOK
<1>. QED
  BY <1>1, LockInvariant, HandlerInvariant, PTL

\* "Every registered unload handler is invoked": a model that is loaded has its engine's
\* handler in the lock, once, although a load suspends ensureModel and any number of
\* tasks enter it meanwhile.
THEOREM LoadedModelsHaveHandlers ==
  ASSUME InferenceAssumption PROVE InferenceSpec => []LoadedCanBeUnloaded
<1>1. ASSUME HandlerInv, NEW e \in AllEngines
      PROVE  LET places == {i \in 1..Len(handlers) : handlers[i] = e}
                 coming == {t \in Tasks : task[t].at = "register" /\ task[t].engine = e}
             IN /\ Cardinality(places) + Cardinality(coming) <= 1
                /\ loaded[e] => places # {} \/ coming # {}
  <2>. DEFINE places == {i \in 1..Len(handlers) : handlers[i] = e}
              coming == {t \in Tasks : task[t].at = "register" /\ task[t].engine = e}
  <2>1. loaded[e] => places # {} \/ coming # {}
    BY <1>1 DEF HandlerInv, RegisteredOK, Stored, Registering
  <2>2. CASE Stored(e)
    <3>1. PICK i \in 1..Len(handlers) : handlers[i] = e
      BY <2>2 DEF Stored
    <3>2. places = {i} /\ coming = {}
      BY <1>1, <2>2, <3>1 DEF HandlerInv, RegisteredOK, Registering
    <3>3. Cardinality(places) = 1 /\ Cardinality(coming) = 0
      BY <3>2, FS_Singleton, FS_EmptySet
    <3>. QED
      BY <2>1, <3>3
  <2>3. CASE ~Stored(e)
    <3>1. places = {}
      BY <2>3 DEF Stored
    <3>2. CASE coming = {}
      <4>1. Cardinality(places) = 0 /\ Cardinality(coming) = 0
        BY <3>1, <3>2, FS_EmptySet
      <4>. QED
        BY <2>1, <4>1
    <3>3. CASE coming # {}
      <4>1. PICK t \in coming : TRUE
        BY <3>3
      <4>2. coming = {t}
        BY <1>1, <4>1 DEF HandlerInv, RegisteredOK, Registering
      <4>3. Cardinality(places) = 0 /\ Cardinality(coming) = 1
        BY <3>1, <4>2, FS_EmptySet, FS_Singleton
      <4>. QED
        BY <2>1, <4>3
    <3>. QED
      BY <3>2, <3>3
  <2>. QED
    BY <2>2, <2>3
<1>2. HandlerInv => LoadedCanBeUnloaded
  BY <1>1 DEF LoadedCanBeUnloaded
<1>. QED
  BY <1>2, HandlerInvariant, PTL
=============================================================================
