----------------------------- MODULE AuditChain -----------------------------
(***************************************************************************)
(* The hash chain of the table validation_results: ChainState, the writers *)
(* of ValidationStore, ChainRepairer and what ChainVerifier makes of it.   *)
(*                                                                         *)
(* The app, the MCP server and the command line open the same database,    *)
(* each with a serial queue and a ChainState (its cached anchor and the    *)
(* hash of the last row) of its own.  A write of one process reads the     *)
(* chain and inserts its row in separate statements, and the statements of *)
(* two processes interleave; a statement that finds the database locked    *)
(* fails at once, since no busy timeout is set.                            *)
(*                                                                         *)
(* A hash is named by the id of its row: a row's `prev` is the id of the   *)
(* row whose entry_hash it stores, None when it stores NULL, and Lost when *)
(* that row was rolled back.  Anchors are numbered from 1 in the order     *)
(* they are committed.                                                     *)
(***************************************************************************)
EXTENDS Integers, Sequences, FiniteSets

CONSTANTS
  Processes,
  MaxRows,     \* bound: the rows ever inserted
  MaxAnchors,  \* bound: the anchors ever opened
  Does,        \* the operations each process calls
  Nobody       \* who wrote the rows and opened the anchors of an earlier release

ASSUME ChainAssumption ==
  /\ MaxRows \in Nat /\ MaxAnchors \in Nat \ {0}
  /\ Does \in [Processes -> SUBSET {"insert", "browser", "outbox", "repair"}]
  /\ Nobody \notin Processes

VARIABLES
  rows,      \* validation_results
  lastId,    \* the last AUTOINCREMENT id
  anchors,   \* chain_anchors
  cache,     \* per process: cachedAnchorId and cachedLastEntryHash
  doing,     \* per process: the write or repair its queue is in
  aborting   \* per process: a rolled-back outbox insert has yet to drop the cache

chainVars == <<rows, lastId, anchors, cache, doing, aborting>>

-----------------------------------------------------------------------------
NoAnchor == -1   \* cachedAnchorId = nil
None == 0        \* no hash; as an anchor id, what resolveAnchorId returns when it fails
Lost == MaxRows + 1

Reasons == {"fresh", "legacy", "v5", "v22", "repair"}

\* A canonical row.  `v22` says which columns were hashed, `surfaced` that
\* delivered and surfaced_at, which are hashed too, were changed afterwards.
\* `by` and `window` are history: the writer, Nobody for an earlier release, and
\* whether it wrote between a rollback of its own process and the invalidation that
\* follows.  Of a row whose hash a repair removed only the id and the anchor are kept.
Row == [id : 1..MaxRows, anchor : 0..MaxAnchors, prev : 0..Lost, hashed : BOOLEAN,
        v22 : BOOLEAN, surfaced : BOOLEAN, by : Processes \cup {Nobody}, window : BOOLEAN]

\* `at` is history: the last row id when the anchor was opened.
Anchor == [reason : Reasons, start : 0..MaxRows, by : Processes \cup {Nobody}, at : 0..MaxRows]

Empty == [anchor |-> NoAnchor, tail |-> None]

\* What a process is in: about to open a fresh anchor, to look for a migration-v22
\* anchor, to read MAX(id), to open that anchor, to refill the cache, to read the
\* last hash, to insert the row, or to commit a repair.
Places == {"idle", "open", "findV22", "maxId", "openV22", "refill", "tail", "insert", "repair"}

Job == [at : Places, anchor : NoAnchor..MaxAnchors, v22 : BOOLEAN, prev : 0..Lost, n : 0..MaxRows]
Idle == [at |-> "idle", anchor |-> NoAnchor, v22 |-> FALSE, prev |-> None, n |-> 0]

-----------------------------------------------------------------------------
Latest == Len(anchors)   \* MAX(id) of chain_anchors; 0 when there are none
Exists(a) == a \in 1..Latest

\* resolveWriteAnchorLocked: only under the anchor of before v22 are the new columns left out.
ShapeOf(a) == ~(Exists(a) /\ anchors[a].reason = "legacy")

MaxId == IF rows = {} THEN 0 ELSE CHOOSE n \in {r.id : r \in rows} : \A r \in rows : r.id <= n

HashedUnder(a) == {r \in rows : r.hashed /\ r.anchor = a}

\* The SELECT of latestEntryHash.
StoredTail(a) ==
  IF HashedUnder(a) = {} THEN None
  ELSE (CHOOSE r \in HashedUnder(a) : \A s \in HashedUnder(a) : s.id <= r.id).id

\* A slip: a cold cache is taken for an empty chain.
TailOfCache(c, a) == IF c.anchor = a THEN c.tail ELSE None

\* latestEntryHash, with the cache `c`.
TailOf(c, a) == IF c.anchor = a /\ c.tail # None THEN c.tail ELSE StoredTail(a)

\* What latestEntryHash leaves in the cache: a hash it found, and the anchor as it was.
WithTail(c, a) == [c EXCEPT !.tail = IF TailOf(c, a) = None THEN @ ELSE TailOf(c, a)]

AfterMaxAnchors == Latest = MaxAnchors

\* A slip: the id is read before the row has one.
NewRowUnnumbered(p, a, v22, prev) ==
  [id |-> lastId, anchor |-> a, prev |-> prev, hashed |-> TRUE, v22 |-> v22,
   surfaced |-> FALSE, by |-> p, window |-> aborting[p]]

\* The row a process inserts, and what recordWrite leaves in its cache.
NewRow(p, a, v22, prev) ==
  [id |-> lastId + 1, anchor |-> a, prev |-> prev, hashed |-> TRUE, v22 |-> v22,
   surfaced |-> FALSE, by |-> p, window |-> aborting[p]]

Recorded(a) == [anchor |-> a, tail |-> lastId + 1]

Opened(reason, start, p) ==
  Append(anchors, [reason |-> reason, start |-> start, by |-> p, at |-> lastId])

-----------------------------------------------------------------------------
(* What the verifier sees.                                                 *)

\* The rows the walk of an anchor selects.
Walked(r) == r.hashed /\ Exists(r.anchor) /\ r.id > anchors[r.anchor].start

\* walkTable hashes the stored columns with the stored prev_hash.
Recomputes(r) == ~r.surfaced /\ r.v22 = ShapeOf(r.anchor)

Broken == {r \in rows : Walked(r) /\ ~Recomputes(r)}

-----------------------------------------------------------------------------
(* The databases this release finds.                                       *)

OldAnchor(reason, start, at) == [reason |-> reason, start |-> start, by |-> Nobody, at |-> at]

\* What the releases before v29 began a chain with: anchorBackfill's anchor, behind the
\* rows there were when the chain was introduced, or else a fresh-install one.
OldFirstAnchors ==
  {OldAnchor("fresh", 0, 0)} \cup {OldAnchor("v5", n, n) : n \in 1..MaxRows}

\* What their repairs added, each at the last row there was: a chain with one at most.
OldRepairAnchors == {OldAnchor("repair", n, m) : n, m \in 1..MaxRows}

OldChains ==
  {<<f>> : f \in OldFirstAnchors} \cup
  {<<f, g>> : f \in OldFirstAnchors,
              g \in {h \in OldRepairAnchors : h.start <= h.at /\ MaxAnchors > 1}}

\* A row of such a chain.  The backfill and the repair leave their rows without hashes;
\* each row written after them has one over the columns of before v22, and follows the
\* row before it.
OldRow(chain, n) ==
  LET a == IF Len(chain) > 1 /\ n >= chain[Len(chain)].start THEN Len(chain) ELSE 1
      first == chain[a].at + 1
  IN [id |-> n, anchor |-> a, prev |-> IF n > first THEN n - 1 ELSE None,
      hashed |-> n >= first, v22 |-> FALSE, surfaced |-> FALSE, by |-> Nobody, window |-> FALSE]

\* Migration 29 renames the fresh-install anchor, and no other.
MigrateV29(chain) ==
  [a \in 1..Len(chain) |->
     IF chain[a].reason = "fresh" THEN [chain[a] EXCEPT !.reason = "legacy"] ELSE chain[a]]

\* A new database, or one migrated to v29.
ChainInit ==
  /\ \/ rows = {} /\ lastId = 0 /\ anchors = <<>>
     \/ \E chain \in OldChains, last \in 0..MaxRows :
          /\ \A a \in 1..Len(chain) : chain[1].at <= chain[a].at /\ chain[a].at <= last
          /\ rows = {OldRow(chain, n) : n \in 1..last} /\ lastId = last
          /\ anchors = MigrateV29(chain)
  /\ cache = [p \in Processes |-> Empty]
  /\ doing = [p \in Processes |-> Idle]
  /\ aborting = [p \in Processes |-> FALSE]

-----------------------------------------------------------------------------
Go(p, place) == doing' = [doing EXCEPT ![p].at = place]

\* resolveWriteAnchorLocked with the anchor resolveAnchorId found: the browser
\* writer leaves a legacy anchor for a migration-v22 one.
With(p, a, browser) ==
  doing' = [doing EXCEPT ![p] = [Idle EXCEPT
    !.at = IF browser /\ ~ShapeOf(a) THEN "findV22" ELSE "tail",
    !.anchor = a, !.v22 = ShapeOf(a)]]

\* resolveAnchorId: the cached anchor, or the latest in the table.
Resolve(p, browser) ==
  /\ doing[p].at = "idle"
  /\ IF browser THEN "browser" \in Does[p] ELSE "insert" \in Does[p]
  /\ \/ /\ cache[p].anchor # NoAnchor
        /\ With(p, cache[p].anchor, browser)
        /\ UNCHANGED cache
     \/ /\ cache[p].anchor = NoAnchor /\ Latest > 0
        /\ cache' = [cache EXCEPT ![p].anchor = Latest]
        /\ With(p, Latest, browser)
     \/ /\ cache[p].anchor = NoAnchor /\ Latest = 0
        /\ Go(p, "open")
        /\ UNCHANGED cache
  /\ UNCHANGED <<rows, lastId, anchors, aborting>>

\* resolveAnchorId: the INSERT of a fresh-install anchor, after a lookup found none.
OpenFresh(p) ==
  /\ doing[p].at = "open" /\ ~AfterMaxAnchors
  /\ anchors' = Opened("fresh", 0, p)
  /\ cache' = [cache EXCEPT ![p].anchor = Latest + 1]
  /\ doing' = [doing EXCEPT ![p] = [Idle EXCEPT !.at = "tail", !.anchor = Latest + 1, !.v22 = TRUE]]
  /\ UNCHANGED <<rows, lastId, aborting>>

\* It fails: the row is written under anchor 0.
OpenFreshFails(p) ==
  /\ doing[p].at = "open"
  /\ doing' = [doing EXCEPT ![p] = [Idle EXCEPT !.at = "tail", !.anchor = None, !.v22 = TRUE]]
  /\ UNCHANGED <<rows, lastId, anchors, cache, aborting>>

V22Anchors == {a \in 1..Latest : anchors[a].reason = "v22"}

\* openMigrationV22AnchorLocked: the first migration-v22 anchor, if there is one.
FindV22(p) ==
  /\ doing[p].at = "findV22"
  /\ \/ /\ V22Anchors = {}
        /\ Go(p, "maxId")
     \/ \E a \in V22Anchors :
          /\ \A b \in V22Anchors : a <= b
          /\ doing' = [doing EXCEPT ![p].at = "refill", ![p].anchor = a, ![p].v22 = TRUE]
  /\ UNCHANGED <<rows, lastId, anchors, cache, aborting>>

ReadMaxId(p) ==
  /\ doing[p].at = "maxId"
  /\ doing' = [doing EXCEPT ![p].at = "openV22", ![p].n = MaxId]
  /\ UNCHANGED <<rows, lastId, anchors, cache, aborting>>

\* A slip: the anchor starts after the row that is written next.
OpenV22Late(p) ==
  /\ doing[p].at = "openV22" /\ ~AfterMaxAnchors /\ doing[p].n < MaxRows
  /\ anchors' = Opened("v22", doing[p].n + 1, p)
  /\ doing' = [doing EXCEPT ![p] = [Idle EXCEPT !.at = "refill", !.anchor = Latest + 1, !.v22 = TRUE]]
  /\ UNCHANGED <<rows, lastId, cache, aborting>>

OpenV22(p) ==
  /\ doing[p].at = "openV22" /\ ~AfterMaxAnchors
  /\ anchors' = Opened("v22", doing[p].n, p)
  /\ doing' = [doing EXCEPT ![p] = [Idle EXCEPT !.at = "refill", !.anchor = Latest + 1, !.v22 = TRUE]]
  /\ UNCHANGED <<rows, lastId, cache, aborting>>

\* A slip: the fallback keeps the shape the browser writer wanted.
OpenV22FailsWide(p) ==
  /\ doing[p].at = "openV22"
  /\ doing' = [doing EXCEPT ![p].at = "tail", ![p].v22 = TRUE, ![p].n = 0]
  /\ UNCHANGED <<rows, lastId, anchors, cache, aborting>>

\* The INSERT fails: the row goes under the legacy anchor, in its shape.
OpenV22Fails(p) ==
  /\ doing[p].at = "openV22"
  /\ doing' = [doing EXCEPT ![p].at = "tail", ![p].n = 0]
  /\ UNCHANGED <<rows, lastId, anchors, cache, aborting>>

\* A slip: the cache is left as it was.
RefillSkipped(p) ==
  /\ doing[p].at = "refill"
  /\ Go(p, "tail")
  /\ UNCHANGED <<rows, lastId, anchors, cache, aborting>>

\* chain.invalidate() and resolveAnchorId, which caches the latest anchor.
Refill(p) ==
  /\ doing[p].at = "refill"
  /\ cache' = [cache EXCEPT ![p] = [Empty EXCEPT !.anchor = Latest]]
  /\ Go(p, "tail")
  /\ UNCHANGED <<rows, lastId, anchors, aborting>>

\* latestEntryHash
ReadTail(p) ==
  LET a == doing[p].anchor IN
  /\ doing[p].at = "tail"
  /\ cache' = [cache EXCEPT ![p] = WithTail(@, a)]
  /\ doing' = [doing EXCEPT ![p].at = "insert", ![p].prev = TailOf(cache[p], a)]
  /\ UNCHANGED <<rows, lastId, anchors, aborting>>

\* insertValidationResult, insertBrowserValidationResult: the INSERT and recordWrite.
Insert(p) ==
  LET d == doing[p] IN
  /\ d.at = "insert" /\ lastId < MaxRows
  /\ rows' = rows \cup {NewRow(p, d.anchor, d.v22, d.prev)}
  /\ lastId' = lastId + 1
  /\ cache' = [cache EXCEPT ![p] = Recorded(d.anchor)]
  /\ doing' = [doing EXCEPT ![p] = Idle]
  /\ UNCHANGED <<anchors, aborting>>

InsertFails(p) ==
  /\ doing[p].at = "insert"
  /\ doing' = [doing EXCEPT ![p] = Idle]
  /\ UNCHANGED <<rows, lastId, anchors, cache, aborting>>

-----------------------------------------------------------------------------
\* The anchors resolveAnchorId may return to an outbox insert, which holds the
\* write lock: the last of them is opened in the same transaction.
OutboxAnchors(p) ==
  IF cache[p].anchor # NoAnchor THEN {cache[p].anchor}
  ELSE IF Latest > 0 THEN {Latest} ELSE {1, None}

\* What resolving `a` and reading its last hash leave in the cache.
OutboxCache(p, a) == WithTail([cache[p] EXCEPT !.anchor = IF a = None THEN @ ELSE a], a)

OutboxTail(p, a) == TailOf([cache[p] EXCEPT !.anchor = IF a = None THEN @ ELSE a], a)

\* insertValidationResultWithOutbox, committed.
Outbox(p) ==
  /\ "outbox" \in Does[p]
  /\ doing[p].at = "idle" /\ lastId < MaxRows
  /\ \E a \in OutboxAnchors(p) :
       /\ rows' = rows \cup {NewRow(p, a, ShapeOf(a), OutboxTail(p, a))}
       /\ cache' = [cache EXCEPT ![p] = Recorded(a)]
       /\ \/ /\ cache[p].anchor = NoAnchor /\ Latest = 0 /\ a = 1 /\ ~AfterMaxAnchors
             /\ anchors' = Opened("fresh", 0, p)
          \/ /\ ~(cache[p].anchor = NoAnchor /\ Latest = 0 /\ a = 1)
             /\ UNCHANGED anchors
  /\ lastId' = lastId + 1
  /\ UNCHANGED <<doing, aborting>>

\* The same, rolled back: BEGIN fails, the body fails before recordWrite, or COMMIT
\* fails.  The catch that drops the cache is queued behind other writes.
OutboxFails(p) ==
  /\ "outbox" \in Does[p]
  /\ doing[p].at = "idle"
  /\ \/ UNCHANGED cache
     \/ \E a \in OutboxAnchors(p) :
          \/ cache' = [cache EXCEPT ![p] = OutboxCache(p, a)]
          \/ cache' = [cache EXCEPT ![p] = [anchor |-> a, tail |-> Lost]]
  /\ aborting' = [aborting EXCEPT ![p] = TRUE]
  /\ UNCHANGED <<rows, lastId, anchors, doing>>

\* A slip: the catch logs and keeps the cache.
CatchKeeps(p) ==
  /\ doing[p].at = "idle" /\ aborting[p]
  /\ aborting' = [aborting EXCEPT ![p] = FALSE]
  /\ UNCHANGED <<rows, lastId, anchors, cache, doing>>

Catch(p) ==
  /\ doing[p].at = "idle" /\ aborting[p]
  /\ cache' = [cache EXCEPT ![p] = Empty]
  /\ aborting' = [aborting EXCEPT ![p] = FALSE]
  /\ UNCHANGED <<rows, lastId, anchors, doing>>

-----------------------------------------------------------------------------
\* ChainRepairer.repair, its probes: unless forced, not after another repair.
Probe(p, from, force) ==
  /\ "repair" \in Does[p]
  /\ doing[p].at = "idle"
  /\ MaxId >= from /\ Latest > 0
  /\ force \/ anchors[Latest].reason # "repair"
  /\ doing' = [doing EXCEPT ![p] = [Idle EXCEPT !.at = "repair", !.n = from]]
  /\ UNCHANGED <<rows, lastId, anchors, cache, aborting>>

Rebound(r, a) ==
  [id |-> r.id, anchor |-> a, prev |-> None, hashed |-> FALSE, v22 |-> FALSE,
   surfaced |-> FALSE, by |-> Nobody, window |-> FALSE]

\* A slip: the row the repair starts from keeps its hash.
RepairAfter(p) ==
  /\ doing[p].at = "repair" /\ ~AfterMaxAnchors
  /\ anchors' = Opened("repair", doing[p].n, p)
  /\ rows' = {IF r.id > doing[p].n THEN Rebound(r, Latest + 1) ELSE r : r \in rows}
  /\ cache' = [cache EXCEPT ![p] = Empty]
  /\ doing' = [doing EXCEPT ![p] = Idle]
  /\ UNCHANGED <<lastId, aborting>>

\* The transaction that opens the repair anchor and rebinds the rows, and the
\* invalidation of the cache of the process that repairs.
Repair(p) ==
  /\ doing[p].at = "repair" /\ ~AfterMaxAnchors
  /\ anchors' = Opened("repair", doing[p].n, p)
  /\ rows' = {IF r.id >= doing[p].n THEN Rebound(r, Latest + 1) ELSE r : r \in rows}
  /\ cache' = [cache EXCEPT ![p] = Empty]
  /\ doing' = [doing EXCEPT ![p] = Idle]
  /\ UNCHANGED <<lastId, aborting>>

RepairFails(p) ==
  /\ doing[p].at = "repair"
  /\ doing' = [doing EXCEPT ![p] = Idle]
  /\ UNCHANGED <<rows, lastId, anchors, cache, aborting>>

\* markValidationAdvisoriesSurfaced, claimValidationDelivery: an UPDATE of two columns
\* that are part of the hash, if the row has one.
Surface ==
  /\ \E r \in rows :
       /\ r.hashed /\ ~r.surfaced
       /\ rows' = (rows \ {r}) \cup {[r EXCEPT !.surfaced = TRUE]}
  /\ UNCHANGED <<lastId, anchors, cache, doing, aborting>>

\* pruneValidationResults.  Rows are inserted a while after their created_at was
\* taken, by several processes, so a later row may be the older one.
Prune ==
  /\ \E r \in rows : rows' = rows \ {r}
  /\ UNCHANGED <<lastId, anchors, cache, doing, aborting>>

\* The process ends, or is killed, and starts again.
Restart(p) ==
  /\ cache' = [cache EXCEPT ![p] = Empty]
  /\ doing' = [doing EXCEPT ![p] = Idle]
  /\ aborting' = [aborting EXCEPT ![p] = FALSE]
  /\ UNCHANGED <<rows, lastId, anchors>>

ChainNext ==
  \/ \E p \in Processes :
       \/ \E browser \in BOOLEAN : Resolve(p, browser)
       \/ OpenFresh(p) \/ OpenFreshFails(p)
       \/ FindV22(p) \/ ReadMaxId(p) \/ OpenV22(p) \/ OpenV22Fails(p) \/ Refill(p)
       \/ ReadTail(p) \/ Insert(p) \/ InsertFails(p)
       \/ Outbox(p) \/ OutboxFails(p) \/ Catch(p)
       \/ \E from \in 1..MaxRows, force \in BOOLEAN : Probe(p, from, force)
       \/ Repair(p) \/ RepairFails(p)
       \/ Restart(p)
  \/ Surface
  \/ Prune

ChainSpec == ChainInit /\ [][ChainNext]_chainVars

-----------------------------------------------------------------------------
\* Every variable has its type; ids are unique and never reach past the last one given.
ChainTypeOK ==
  /\ rows \subseteq Row /\ lastId \in 0..MaxRows
  /\ \A r \in rows : r.id <= lastId
  /\ \A r, s \in rows : r.id = s.id => r = s
  /\ anchors \in Seq(Anchor) /\ Latest <= MaxAnchors
  /\ cache \in [Processes -> [anchor : NoAnchor..MaxAnchors, tail : 0..Lost]]
  /\ doing \in [Processes -> Job]
  /\ aborting \in [Processes -> BOOLEAN]

\* A row of an earlier release under an anchor migration 29 left as it was.
Unrenamed(r) == r.by = Nobody /\ ShapeOf(r.anchor)

\* The verifier names a row only if its delivery was marked, or if an earlier release
\* wrote it under a migration-v5 or a repair anchor: such rows were hashed without the
\* v22 columns, and are hashed with them again.  For every row this release writes,
\* whatever anchor the writer had cached, whichever open of an anchor failed and
\* wherever a repair cut the chain, and for the rows of the renamed anchor, writer and
\* verifier choose the same columns.
OnlyMarkedRowsBreak == \A r \in Broken : r.surfaced \/ Unrenamed(r)

\* A hashed row is walked: no anchor, opened by a writer, by a racing one or by a
\* repair, starts at or after a row that is chained under it.  Rows written between a
\* rollback and its catch may name an anchor that was rolled back and whose id is given
\* again.
EveryRowIsWalked ==
  \A r \in rows : (r.hashed /\ Exists(r.anchor) /\ ~r.window) => Walked(r)

\* The hash of a rolled-back row becomes the prev_hash of no later row, except of rows
\* written before the catch of the rollback has dropped the cache.
NoLostPrev == \A r \in rows : r.prev = Lost => r.window

\* One process never chains two rows to the same row: a fork takes two writers.  So
\* where one process writes, the hashed rows of an anchor form one line.
ForksTakeTwoWriters ==
  \A r, s \in rows :
    (r # s /\ r.hashed /\ s.hashed /\ r.anchor = s.anchor /\ r.prev = s.prev)
       => (r.by # s.by \/ r.window \/ s.window)

\* Once a process has opened an anchor, as the browser writer or as the repairer, its
\* later rows are under that anchor or a later one: no cache of its own brings the old
\* anchor back.
OwnAnchorIsFollowed ==
  \A r \in rows : \A a \in 1..Latest :
    (anchors[a].by = r.by /\ r.id > anchors[a].at /\ r.hashed /\ ~r.window) => r.anchor >= a

\* A repair from the lowest broken row leaves a table that verifies.
RepairHeals ==
  [][\A p \in Processes :
       (Repair(p) /\ \A r \in Broken : r.id >= doing[p].n) => Broken' = {}]_chainVars

\* Nothing here tampers with a row, so the verifier has nothing to report of the rows
\* this release writes.
UntamperedVerifies == \A r \in Broken : r.by = Nobody
=============================================================================
