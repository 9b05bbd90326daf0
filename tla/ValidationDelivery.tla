------------------------- MODULE ValidationDelivery -------------------------
(***************************************************************************)
(* How what a validation found reaches the agent.  Advisory rows of a      *)
(* session wait in validation_results until one of two legs takes them:    *)
(* HookRouter, which reads the newest of them at the start of a hook call  *)
(* and, if that call ends in a denial, appends their text, has them marked *)
(* surfaced and counts; and the dispatcher's validation consumer, which    *)
(* claims one row at a time and counts.  Failing browser validations of    *)
(* the session lie in the same table and close the gate in front of every  *)
(* tool that changes a file.                                               *)
(*                                                                         *)
(* Both legs run in the app.  Reads, claims and prunes are `sync` turns of *)
(* its database queue, so they see every job put there before them; marks, *)
(* counts and browser rows are `async` jobs: the caller goes on, a failed  *)
(* statement is only logged, and the jobs die with the process.  Hook      *)
(* calls run one at a time on the app's hookQueue.  A row that             *)
(* validate_browser stores as `partial` is an advisory row too, one that   *)
(* has no event and so is never claimed.                                   *)
(***************************************************************************)
EXTENDS Naturals, Sequences, FiniteSets

CONSTANTS
  MaxRows,     \* bound: advisory rows, numbered by created_at
  Fetch,       \* LIMIT of the hook's read
  Show,        \* advisories of a batch whose text is appended
  MaxChecks,   \* bound: browser validations
  MaxResults,  \* bound: advisory rows, with a browser validation counting for two
  MaxFaults    \* bound: crashes and failed statements

Rows == 1..MaxRows
Checks == 1..MaxChecks

ASSUME DeliveryAssumption ==
  /\ MaxRows \in Nat /\ MaxChecks \in Nat /\ MaxResults \in Nat /\ MaxFaults \in Nat
  /\ Show \in Nat \ {0} /\ Fetch \in Nat /\ Show <= Fetch

VARIABLES
  row,       \* the advisory rows
  check,     \* the browser validations, in the order they ran
  hook,      \* the hook call in progress
  claimed,   \* the row the consumer claimed and has not counted yet, or 0
  jobs,      \* the database queue's async jobs, first one next
  shown,     \* times an advisory's text was appended (history)
  hookCount, busCount,   \* times a leg counted the row as delivered (history)
  gap,       \* rows claimed while a hook call held them (history)
  struck,    \* rows a crash or a failed mark hit (history)
  faults

deliveryVars == <<row, check, hook, claimed, jobs, shown, hookCount, busCount,
                  gap, struck, faults>>
histories == <<shown, hookCount, busCount, gap, struck>>

-----------------------------------------------------------------------------
RowStates == {"absent", "pending", "surfaced", "deleted"}

\* `allowed` is a failure that was reported with allow_failed.
Results == {"pass", "fail", "allowed"}
Stored(b) == check[b].at = "stored"
Failed(b) == check[b].result \in {"fail", "allowed"}

\* A hook call is idle, past the gate, or holding the batch it read.
NoCall == [at |-> "idle", batch |-> {}]

\* A slip: a `sync` turn does not wait for the jobs queued before it.
TurnAtOnce == jobs = Tail(<<0>> \o jobs)

\* A `sync` turn of the database queue: the jobs put there before it have run.
Turn == jobs = <<>>


\* A slip: only the deleted rows are left out.
Undeleted(S) == {i \in S : row[i] \in {"pending", "surfaced"}}

\* The rows of S that wait for delivery: outcome advisory, not delivered.
Pending(S) == {i \in S : row[i] = "pending"}

\* The n newest of S.
Newest(S, n) == {i \in S : Cardinality({j \in S : j > i}) < n}

\* A slip: the oldest advisories are put into the response.
OldestShown(batch) == {i \in batch : Cardinality({j \in batch : j < i}) < Show}

\* A slip: the LIMIT is taken first, and what was delivered is left out afterwards.
BatchOfNewest == Pending(Newest(Undeleted(Rows), Fetch))

\* pendingValidationAdvisories: ORDER BY created_at DESC LIMIT.
Batch == Newest(Pending(Rows), Fetch)

\* formatValidationAdvisory: the prefix of the batch whose text is appended.
Shown(batch) == Newest(batch, Show)

\* firstFailingBrowserValidation finds a row.
GateClosed == \E b \in Checks : Stored(b) /\ Failed(b)

Plus(f, S) == [i \in Rows |-> IF i \in S THEN f[i] + 1 ELSE f[i]]

Fault ==
  /\ faults < MaxFaults
  /\ faults' = faults + 1

\* The bound leaves room for n.
Room(n) ==
  Cardinality({i \in Rows : row[i] # "absent"})
    + 2 * Cardinality({b \in Checks : check[b].at # "none"}) + n <= MaxResults

-----------------------------------------------------------------------------
DeliveryInit ==
  /\ row = [i \in Rows |-> "absent"]
  /\ check = [b \in Checks |-> [at |-> "none", result |-> "pass", inApp |-> TRUE]]
  /\ hook = NoCall
  /\ claimed = 0
  /\ jobs = <<>>
  /\ shown = [i \in Rows |-> 0]
  /\ hookCount = [i \in Rows |-> 0]
  /\ busCount = [i \in Rows |-> 0]
  /\ gap = {} /\ struck = {}
  /\ faults = 0

\* insertValidationResult stores an advisory; created_at was read before the
\* insert was queued, so a row may be stored after a newer one.
StoreRow(i) ==
  /\ row[i] = "absent" /\ Room(1)
  /\ row' = [row EXCEPT ![i] = "pending"]
  /\ UNCHANGED <<check, hook, claimed, jobs, histories, faults>>

\* BrowserValidationDispatcher.dispatch: the row is put on the queue of the
\* process that serves the tool, the app or a standalone senkani-mcp, and the
\* result is returned to the agent.  An allowed failure is stored like any other.
Validate(b, result, inApp) ==
  /\ check[b].at = "none" /\ Room(2)
  /\ \A a \in Checks : (a < b => check[a].at # "none")
  /\ check' = [check EXCEPT ![b] = [at |-> "queued", result |-> result, inApp |-> inApp]]
  /\ jobs' = IF inApp THEN Append(jobs, [op |-> "store", of |-> {b}]) ELSE jobs
  /\ UNCHANGED <<row, hook, claimed, histories, faults>>

\* A standalone senkani-mcp stores its row, or ends or fails first.
StoreElsewhere(b) ==
  /\ check[b].at = "queued" /\ ~check[b].inApp
  /\ check' = [check EXCEPT ![b].at = "stored"]
  /\ UNCHANGED <<row, hook, claimed, jobs, histories, faults>>

LoseElsewhere(b) ==
  /\ check[b].at = "queued" /\ ~check[b].inApp
  /\ check' = [check EXCEPT ![b].at = "lost"]
  /\ Fault
  /\ UNCHANGED <<row, hook, claimed, jobs, histories>>

-----------------------------------------------------------------------------
\* A hook call.  PreToolUse of Edit, Write or NotebookEdit asks the gate first.
\* A closed gate denies the call, and no advisory goes with that answer.
PassGate ==
  /\ hook.at = "idle"
  /\ Turn
  /\ ~GateClosed
  /\ hook' = [hook EXCEPT !.at = "gated"]
  /\ UNCHANGED <<row, check, claimed, jobs, histories, faults>>

\* What reads the advisories: the call past the gate, or one of another tool.
Read ==
  /\ hook.at \in {"idle", "gated"}
  /\ Turn
  /\ hook' = [at |-> "holding", batch |-> Batch]
  /\ UNCHANGED <<row, check, claimed, jobs, histories, faults>>

\* The call is denied (budget, confirmation, credential, pack policy or the
\* tool's own handler): appendAndMarkValidationIfSurfaced puts the text into
\* the answer and queues the mark and one count for the batch.
Deny ==
  /\ hook.at = "holding" /\ hook.batch # {}
  /\ hook' = NoCall
  /\ shown' = Plus(shown, Shown(hook.batch))
  /\ jobs' = jobs \o <<[op |-> "mark", of |-> hook.batch], [op |-> "count", of |-> hook.batch]>>
  /\ UNCHANGED <<row, check, claimed, hookCount, busCount, gap, struck, faults>>

\* The call passes, or there was nothing to append.
LetPass ==
  /\ hook.at = "holding"
  /\ hook' = NoCall
  /\ UNCHANGED <<row, check, claimed, jobs, histories, faults>>

-----------------------------------------------------------------------------
\* A slip: the UPDATE is not guarded.
ClaimAgain(i) ==
  /\ claimed = 0
  /\ Turn
  /\ i \in Undeleted(Rows)
  /\ row' = [row EXCEPT ![i] = "surfaced"]
  /\ claimed' = i
  /\ gap' = IF i \in hook.batch THEN gap \cup {i} ELSE gap
  /\ UNCHANGED <<check, hook, jobs, shown, hookCount, busCount, struck, faults>>

\* The consumer handles an event of row i, for the first time or again: the
\* guarded UPDATE.  A claim that loses changes nothing and drives nothing.
Claim(i) ==
  /\ claimed = 0
  /\ Turn
  /\ i \in Pending(Rows)
  /\ row' = [row EXCEPT ![i] = "surfaced"]
  /\ claimed' = i
  /\ gap' = IF i \in hook.batch THEN gap \cup {i} ELSE gap
  /\ UNCHANGED <<check, hook, jobs, shown, hookCount, busCount, struck, faults>>

\* recordEvent for the claim.
CountClaim ==
  /\ claimed # 0
  /\ jobs' = Append(jobs, [op |-> "countClaim", of |-> {claimed}])
  /\ claimed' = 0
  /\ UNCHANGED <<row, check, hook, histories, faults>>

-----------------------------------------------------------------------------
NextJob(op) == jobs # <<>> /\ Head(jobs).op = op /\ jobs' = Tail(jobs)

\* UPDATE ... SET delivered = 1, surfaced_at = ? WHERE id IN (...).
RunMark ==
  /\ NextJob("mark")
  /\ row' = [i \in Rows |-> IF i \in Undeleted(Head(jobs).of) THEN "surfaced" ELSE row[i]]
  /\ UNCHANGED <<check, hook, claimed, histories, faults>>

RunCount ==
  /\ \/ NextJob("count") /\ hookCount' = Plus(hookCount, Head(jobs).of) /\ UNCHANGED busCount
     \/ NextJob("countClaim") /\ busCount' = Plus(busCount, Head(jobs).of) /\ UNCHANGED hookCount
  /\ UNCHANGED <<row, check, hook, claimed, shown, gap, struck, faults>>

RunStore ==
  /\ NextJob("store")
  /\ check' = [b \in Checks |-> IF b \in Head(jobs).of THEN [check[b] EXCEPT !.at = "stored"]
                                                       ELSE check[b]]
  /\ UNCHANGED <<row, hook, claimed, histories, faults>>

RunJob == RunMark \/ RunCount \/ RunStore

\* What of these jobs is lost: the browser rows, and the rows left unmarked.
LostBy(ops) ==
  LET hit(op) == UNION {j.of : j \in {k \in ops : k.op = op}}
  IN  /\ check' = [b \in Checks |-> IF b \in hit("store") THEN [check[b] EXCEPT !.at = "lost"]
                                                        ELSE check[b]]
      /\ struck' = struck \cup hit("mark")

\* A statement of a job fails; it is logged and the next job runs.
FailJob ==
  /\ jobs # <<>>
  /\ jobs' = Tail(jobs)
  /\ LostBy({Head(jobs)})
  /\ Fault
  /\ UNCHANGED <<row, hook, claimed, shown, hookCount, busCount, gap>>

\* The app dies, with the hook call, the consumer's turn and the queued jobs.
Crash ==
  /\ Fault
  /\ hook' = NoCall /\ claimed' = 0 /\ jobs' = <<>>
  /\ LostBy({jobs[k] : k \in 1..Len(jobs)})
  /\ UNCHANGED <<row, shown, hookCount, busCount, gap>>

\* pruneValidationResults: everything a day old goes, whatever became of it.
Prune(i, b) ==
  /\ Turn
  /\ row' = [r \in Rows |-> IF r <= i /\ r \in Undeleted(Rows) THEN "deleted" ELSE row[r]]
  /\ check' = [c \in Checks |-> IF c <= b /\ Stored(c) THEN [check[c] EXCEPT !.at = "deleted"]
                                                      ELSE check[c]]
  /\ <<row, check>>' # <<row, check>>
  /\ UNCHANGED <<hook, claimed, jobs, histories, faults>>

-----------------------------------------------------------------------------
DeliveryNext ==
  \/ \E i \in Rows : StoreRow(i) \/ Claim(i)
  \/ \E b \in Checks :
       \/ \E result \in Results, inApp \in BOOLEAN : Validate(b, result, inApp)
       \/ StoreElsewhere(b) \/ LoseElsewhere(b)
  \/ PassGate \/ Read \/ Deny \/ LetPass \/ CountClaim
  \/ RunJob \/ FailJob \/ Crash
  \/ \E i \in {0} \cup Rows, b \in {0} \cup Checks : Prune(i, b)

\* The queue runs its jobs, a hook call that began comes to an end, and the
\* agent goes on calling tools and is denied one now and then.  Nothing is
\* asked of the consumer, which only runs where the work bus is switched on, nor
\* of the prune.  Rows is finite: at some point no further advisory comes.
Fairness ==
  /\ WF_deliveryVars(RunJob)
  /\ WF_deliveryVars(Read) /\ WF_deliveryVars(LetPass)
  /\ SF_deliveryVars(Deny)

DeliverySpec == DeliveryInit /\ [][DeliveryNext]_deliveryVars /\ Fairness

-----------------------------------------------------------------------------
\* Types.  A batch has at most Fetch rows, the queue at most one claim's count,
\* one denial's two jobs and the browser rows that were queued.
DeliveryTypeOK ==
  /\ row \in [Rows -> RowStates]
  /\ check \in [Checks -> [at : {"none", "queued", "stored", "lost", "deleted"},
                           result : Results, inApp : BOOLEAN]]
  /\ hook \in [at : {"idle", "gated", "holding"}, batch : SUBSET Rows]
  /\ Cardinality(hook.batch) <= Fetch
  /\ claimed \in {0} \cup Rows
  /\ Len(jobs) <= 3 + MaxChecks
  /\ gap \subseteq Rows /\ struck \subseteq Rows
  /\ faults \in 0..MaxFaults

\* The mark is queued after the text was appended, but the next hook call reads
\* behind it: the agent is shown an advisory a second time only if its mark
\* failed or died with the app.
ShownTwiceOnlyIfStruck == \A i \in Rows : (shown[i] > 1 => i \in struck)

\* However often an event is delivered, and whichever leg was first, the
\* consumer drives the delivered counter at most once for a row.
BusCountsOnce == \A i \in Rows : busCount[i] <= 1

\* A row is counted twice only if it was claimed while a hook call held it, or if its
\* mark was lost.  The docs promise one count per row, whichever leg wins; the hook's
\* mark has no guard, and such a claim needs no fault for both legs to count.
CountedTwiceOnlyInTheGap ==
  \A i \in Rows : (hookCount[i] + busCount[i] > 1 => i \in gap \cup struck)

\* All rows of the batch are marked though only some are shown: an advisory the
\* agent was told of without its text stood behind Show newer ones it did see.
HiddenBehindNewer ==
  \A i \in Rows : (hookCount[i] > 0 /\ shown[i] = 0
                     => Cardinality({j \in Rows : j > i /\ shown[j] > 0}) >= Show)

\* An edit gets past the gate after the app reported a failed validation (without
\* allow_failed) only if the failure's row was pruned or its insert was lost.
\* The row may still be queued when the agent has the result.
ReportedFailureClosesGate ==
  [][hook.at = "idle" /\ hook'.at = "gated"
       => \A b \in Checks : (check[b].result = "fail" /\ check[b].inApp
                                => check[b].at \in {"deleted", "lost"})]_deliveryVars

\* Every advisory is taken in the end, though the LIMIT keeps it out of the batch while
\* Fetch newer ones wait: once no more come, those are marked, and the batch reaches it.
\* Were newer ones to come for ever, faster than they are marked, only the prune would
\* take it.
EveryAdvisoryIsTaken == \A i \in Rows : (row[i] = "pending" ~> row[i] # "pending")

\* What the tool promises for allow_failed: the override is recorded "instead of
\* leaving HookRouter to hard-block the next Apply tool call".
OverrideLiftsGate == GateClosed => \E b \in Checks : Stored(b) /\ check[b].result = "fail"
=============================================================================
