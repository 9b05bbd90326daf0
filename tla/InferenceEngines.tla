-------------------------- MODULE InferenceEngines --------------------------
(***************************************************************************)
(* MLXInferenceLock and the engines that run on-device models under it:    *)
(* EmbedEngine, with its index of a project's files, and the engines that  *)
(* load their model inside the lock (VisionEngine, GemmaInferenceAdapter). *)
(*                                                                         *)
(* The lock and every engine are Swift actors.  What a task does on one    *)
(* actor between two suspension points is one step; at a suspension other  *)
(* tasks enter the actor, so a load that awaits does not keep the next     *)
(* caller out of ensureModel.  A model in use is kept by its user: `unload`*)
(* only drops the engine's reference.                                      *)
(***************************************************************************)
EXTENDS Naturals, Sequences, FiniteSets

CONSTANTS
  Tasks,      \* the tasks that call the engines
  Asks,       \* the calls each of them makes
  Engines,    \* the engines that load under the lock
  Embed,      \* the embedding engine, which loads before it takes the lock
  Roots,      \* project roots of the sessions
  Unreadable, \* the roots without a readable file
  NoRoot

ASSUME InferenceAssumption ==
  /\ Embed \notin Engines
  /\ NoRoot \notin Roots
  /\ Unreadable \subseteq Roots
  /\ Asks \in [Tasks -> SUBSET {"infer", "embedStrings", "embedCall", "ranks"}]

VARIABLES
  busy, waiters,  \* the lock; its continuations in the order they were stored
  handlers,       \* the lock's unload handlers, by the engine each unloads
  registered,     \* per engine: unloadHandlerRegistered
  loaded,         \* per engine: modelContainer is not nil
  index,          \* EmbedEngine's index
  task,           \* what each task is doing
  warning         \* the unload handlers a running memory warning has yet to call

inferenceVars == <<busy, waiters, handlers, registered, loaded, index, task, warning>>

-----------------------------------------------------------------------------
AllEngines == Engines \cup {Embed}

\* `root` is projectRoot, `of` the root whose files the embeddings are of, and
\* `current` says that indexedAt is set and not older than five minutes.
Index == [root : Roots \cup {NoRoot}, of : Roots \cup {NoRoot}, current : BOOLEAN]

\* Where a task is: about to enter ensureModel, awaiting the registration of the
\* unload handler or the load, about to call acquire, suspended in it, running on
\* the model, back on the engine with new embeddings.
Places == {"idle", "model", "register", "load", "acquire", "wait", "infer", "store"}

Works == {"index", "search", "ranks", "infer"}

Task == [at : Places, engine : AllEngines, work : Works, root : Roots \cup {NoRoot}]
Idle == [at |-> "idle", engine |-> Embed, work |-> "infer", root |-> NoRoot]

Go(t, place) == task' = [task EXCEPT ![t].at = place]

\* A call of `search` after indexProject has returned.
Searching(r) == [at |-> "model", engine |-> Embed, work |-> "search", root |-> r]

\* The task loads its model inside the lock.
UnderLock(t) == task[t].engine \in Engines

\* run { ... }: the task is inside the closure.
Inside(t) ==
  \/ task[t].at = "infer"
  \/ UnderLock(t) /\ task[t].at \in {"model", "register", "load"}

\* What a task does once it has the lock.
Entered(tk) == [tk EXCEPT !.at = IF tk.engine \in Engines THEN "model" ELSE "infer"]

\* isIndexFresh, for projects with about the same number of files.
Fresh(root) == index.current /\ index.root = root /\ index.of # NoRoot

-----------------------------------------------------------------------------
InferenceInit ==
  /\ busy = FALSE /\ waiters = <<>> /\ handlers = <<>> /\ warning = <<>>
  /\ registered = [e \in AllEngines |-> FALSE]
  /\ loaded = [e \in AllEngines |-> FALSE]
  /\ index = [root |-> NoRoot, of |-> NoRoot, current |-> FALSE]
  /\ task = [t \in Tasks |-> Idle]

\* What a task does with the model ensureModel gave it (`tk` is the task), up to
\* its next suspension: indexProject sets projectRoot and reads the files.
WithModel(t, tk) ==
  /\ index' = IF tk.work = "index" THEN [index EXCEPT !.root = tk.root] ELSE index
  /\ task' = [task EXCEPT ![t] =
                IF tk.engine \in Engines THEN [tk EXCEPT !.at = "infer"]
                ELSE IF tk.work = "index" /\ tk.root \in Unreadable THEN Searching(tk.root)
                ELSE [tk EXCEPT !.at = "acquire"]]

\* A slip: unloadHandlerRegistered is looked at and never set.
EnsureModelUnmarked(t, tk) ==
  /\ \/ loaded[tk.engine] /\ WithModel(t, tk)
     \/ /\ ~loaded[tk.engine]
        /\ task' = [task EXCEPT ![t] = [tk EXCEPT !.at = "register"]]
        /\ UNCHANGED index
  /\ UNCHANGED <<busy, waiters, handlers, registered, loaded, warning>>

\* ensureModel, up to its first suspension.
EnsureModel(t, tk) ==
  /\ \/ /\ loaded[tk.engine]
        /\ WithModel(t, tk)
        /\ UNCHANGED registered
     \/ /\ ~loaded[tk.engine] /\ registered[tk.engine]
        /\ task' = [task EXCEPT ![t] = [tk EXCEPT !.at = "load"]]
        /\ UNCHANGED <<registered, index>>
     \/ /\ ~loaded[tk.engine] /\ ~registered[tk.engine]
        /\ registered' = [registered EXCEPT ![tk.engine] = TRUE]
        /\ task' = [task EXCEPT ![t] = [tk EXCEPT !.at = "register"]]
        /\ UNCHANGED index
  /\ UNCHANGED <<busy, waiters, handlers, loaded, warning>>

Become(t, tk) ==
  /\ task' = [task EXCEPT ![t] = tk]
  /\ UNCHANGED <<busy, waiters, handlers, registered, loaded, index, warning>>

\* VisionEngine.analyze, GemmaInferenceAdapter.rewrite: straight to the lock.
Infer(t) ==
  \E e \in Engines :
    Become(t, [at |-> "acquire", engine |-> e, work |-> "infer", root |-> NoRoot])

\* embedStrings
EmbedStrings(t) == EnsureModel(t, [Idle EXCEPT !.at = "model"])

\* EmbedTool.handle: indexProject, which returns at once when the index is fresh,
\* then search.
EmbedCall(t) ==
  \E r \in Roots :
    \/ Fresh(r) /\ Become(t, Searching(r))
    \/ ~Fresh(r) /\ EnsureModel(t, [Searching(r) EXCEPT !.work = "index"])

\* cachedFileRanks: only with a warm index and a loaded model.
CachedRanks(t) ==
  /\ loaded[Embed] /\ index.of # NoRoot
  /\ Become(t, [Idle EXCEPT !.at = "acquire", !.work = "ranks"])

\* A task enters ensureModel inside the lock's closure, or from `search`, which
\* returns at once when there are no embeddings.
NeedModel(t) ==
  /\ task[t].at = "model"
  /\ IF task[t].work = "search" /\ index.of = NoRoot
     THEN Become(t, Idle)
     ELSE EnsureModel(t, task[t])

\* registerUnloadHandler, on the lock's actor.
Register(t) ==
  /\ task[t].at = "register"
  /\ handlers' = Append(handlers, task[t].engine)
  /\ Go(t, "load")
  /\ UNCHANGED <<busy, waiters, registered, loaded, index, warning>>

\* The load has ended: the engine keeps the container.
Load(t) ==
  /\ task[t].at = "load"
  /\ loaded' = [loaded EXCEPT ![task[t].engine] = TRUE]
  /\ WithModel(t, task[t])
  /\ UNCHANGED <<busy, waiters, handlers, registered, warning>>

-----------------------------------------------------------------------------
\* acquire
Acquire(t) ==
  /\ task[t].at = "acquire"
  /\ IF busy THEN /\ waiters' = Append(waiters, t)
                  /\ Go(t, "wait")
                  /\ UNCHANGED busy
     ELSE /\ busy' = TRUE
          /\ task' = [task EXCEPT ![t] = Entered(@)]
          /\ UNCHANGED waiters
  /\ UNCHANGED <<handlers, registered, loaded, index, warning>>

\* Slips: the flag is cleared although the lock was handed over; the newest waiter
\* is resumed first.
ReleaseAndFree(t, left) ==
  /\ IF waiters # <<>>
     THEN /\ waiters' = Tail(waiters)
          /\ task' = [task EXCEPT ![Head(waiters)] = Entered(@), ![t] = left]
     ELSE /\ task' = [task EXCEPT ![t] = left]
          /\ UNCHANGED waiters
  /\ busy' = FALSE
  /\ UNCHANGED <<handlers, registered, loaded, index, warning>>

ReleaseToNewest(t, left) ==
  /\ IF waiters # <<>>
     THEN /\ waiters' = SubSeq(waiters, 1, Len(waiters) - 1)
          /\ task' = [task EXCEPT ![waiters[Len(waiters)]] = Entered(@), ![t] = left]
          /\ UNCHANGED busy
     ELSE /\ busy' = FALSE
          /\ task' = [task EXCEPT ![t] = left]
          /\ UNCHANGED waiters
  /\ UNCHANGED <<handlers, registered, loaded, index, warning>>

\* release: the lock goes to the oldest waiter, `busy` stays true.  `left` is what
\* the releasing task is from here on.
Release(t, left) ==
  /\ IF waiters # <<>>
     THEN /\ waiters' = Tail(waiters)
          /\ task' = [task EXCEPT ![Head(waiters)] = Entered(@), ![t] = left]
          /\ UNCHANGED busy
     ELSE /\ busy' = FALSE
          /\ task' = [task EXCEPT ![t] = left]
          /\ UNCHANGED waiters
  /\ UNCHANGED <<handlers, registered, loaded, index, warning>>

\* A slip: every embedding batch is stored as an index.
LeaveWithIndex(t) ==
  /\ task[t].at = "infer"
  /\ Release(t, IF UnderLock(t) THEN Idle ELSE [task[t] EXCEPT !.at = "store"])

\* The closure of `run` returns or throws; an index is stored back on the engine.
Leave(t) ==
  /\ task[t].at = "infer"
  /\ Release(t, IF task[t].work = "index" THEN [task[t] EXCEPT !.at = "store"] ELSE Idle)

\* A slip: a load that throws inside the lock skips the release.
LoadFailsInside(t) ==
  /\ task[t].at = "load"
  /\ Become(t, Idle)

\* The load throws, inside or outside the lock.
LoadFails(t) ==
  /\ task[t].at = "load"
  /\ IF UnderLock(t) THEN Release(t, Idle)
     ELSE Become(t, Idle)

\* The end of indexProject: the embeddings are replaced, projectRoot is not set
\* again.
Store(t) ==
  /\ task[t].at = "store"
  /\ index' = [index EXCEPT !.of = task[t].root, !.current = TRUE]
  /\ task' = [task EXCEPT ![t] = Searching(@.root)]
  /\ UNCHANGED <<busy, waiters, handlers, registered, loaded, warning>>

\* Five minutes pass.
Age ==
  /\ index.current
  /\ index' = [index EXCEPT !.current = FALSE]
  /\ UNCHANGED <<busy, waiters, handlers, registered, loaded, task, warning>>

\* handleMemoryWarning takes the handlers there are, without the lock ...
MemoryWarning ==
  /\ warning = <<>> /\ handlers # <<>>
  /\ warning' = handlers
  /\ UNCHANGED <<busy, waiters, handlers, registered, loaded, index, task>>

\* ... and calls them one after the other.
Unload ==
  /\ warning # <<>>
  /\ warning' = Tail(warning)
  /\ loaded' = [loaded EXCEPT ![Head(warning)] = FALSE]
  /\ index' = IF Head(warning) = Embed THEN [index EXCEPT !.of = NoRoot, !.current = FALSE]
              ELSE index
  /\ UNCHANGED <<busy, waiters, handlers, registered, task>>

Call(t) ==
  /\ task[t].at = "idle"
  /\ \/ "infer" \in Asks[t] /\ Infer(t)
     \/ "embedStrings" \in Asks[t] /\ EmbedStrings(t)
     \/ "embedCall" \in Asks[t] /\ EmbedCall(t)
     \/ "ranks" \in Asks[t] /\ CachedRanks(t)

\* The steps of a task that has begun; LoadFails is one way a load ends.
Continue(t) ==
  \/ NeedModel(t) \/ Register(t) \/ Load(t) \/ LoadFails(t)
  \/ Acquire(t) \/ Leave(t) \/ Store(t)

InferenceNext ==
  \/ \E t \in Tasks : Call(t) \/ Continue(t)
  \/ Age \/ MemoryWarning \/ Unload

InferenceSpec == InferenceInit /\ [][InferenceNext]_inferenceVars

\* Loads and inferences end, and a task that can run is run.
InferenceFairness == \A t \in Tasks : WF_inferenceVars(Continue(t))

FairInferenceSpec == InferenceSpec /\ InferenceFairness

-----------------------------------------------------------------------------
(***************************************************************************)
(* Properties                                                              *)
(***************************************************************************)

\* The types; a task that works under the lock has no root and no index, and a
\* task is at "store" with an index only.
InferenceTypeOK ==
  /\ busy \in BOOLEAN
  /\ waiters \in Seq(Tasks)
  /\ handlers \in Seq(AllEngines) /\ warning \in Seq(AllEngines)
  /\ registered \in [AllEngines -> BOOLEAN] /\ loaded \in [AllEngines -> BOOLEAN]
  /\ index \in Index
  /\ task \in [Tasks -> Task]
  /\ \A t \in Tasks : /\ (UnderLock(t) => task[t].work = "infer")
                       /\ (task[t].at = "store" => task[t].work = "index")

\* "This actor serializes all inference work end-to-end" (the doc of
\* MLXInferenceLock): two tasks are never inside `run`, however acquisitions,
\* hand-overs and failing loads interleave.
OneAtATime == \A t, u \in Tasks : (Inside(t) /\ Inside(u)) => t = u

\* No wake-up is lost: the lock is busy exactly while a task is inside, so there
\* is somebody to hand it over; a suspended task's continuation is stored, once.
NobodyForgotten ==
  /\ busy <=> (\E t \in Tasks : Inside(t))
  /\ waiters # <<>> => busy
  /\ \A t \in Tasks : Cardinality({i \in 1..Len(waiters) : waiters[i] = t}) =
                        IF task[t].at = "wait" THEN 1 ELSE 0

\* A model in memory is one the next warning drops ("every registered unload
\* handler is invoked"): its engine's handler is registered, once, or on its way.
LoadedCanBeUnloaded ==
  \A e \in AllEngines :
    LET places == {i \in 1..Len(handlers) : handlers[i] = e}
        coming == {t \in Tasks : task[t].at = "register" /\ task[t].engine = e}
    IN /\ Cardinality(places) + Cardinality(coming) <= 1
       /\ loaded[e] => places # {} \/ coming # {}

\* Waiters are served in the order they came, so every call returns, whoever else
\* keeps calling and whatever warnings arrive.
EveryCallReturns == \A t \in Tasks : task[t].at # "idle" ~> task[t].at = "idle"

\* "Skip if we already have a fresh index for this root" (indexProject): when no
\* index is being built, the index taken for fresh holds that root's files.
FreshIndexIsOfRoot ==
  (\A t \in Tasks : task[t].at = "idle" \/ task[t].work # "index")
  => \A r \in Roots : Fresh(r) => index.of = r
=============================================================================
