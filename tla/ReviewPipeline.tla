--------------------------- MODULE ReviewPipeline ---------------------------
(***************************************************************************)
(* Reviews in the worker, from POST /api/review to the stored run.         *)
(*                                                                         *)
(* One worker process runs up to ten review_job coroutines on one event    *)
(* loop.  They share the chat provider, which lru_cache makes a singleton  *)
(* that remembers the usage of its last answer; the repository they        *)
(* retrieve from, which a user may delete meanwhile; and `review_runs`,    *)
(* which they insert into and prune and a user deletes from.  A job takes  *)
(* one step per await that lets another coroutine touch one of these.      *)
(*                                                                         *)
(* The ORM class of review_runs declares repo_id as a ForeignKey to the    *)
(* table that RepoIdTarget names.  This commit says "repos", a table that  *)
(* migration 007 renamed to "repositories" and that no class maps any      *)
(* more.  Both instances are checked: "repos" is the program as it is,     *)
(* whose run refutes SuccessIsStored; "repositories" is the pipeline that  *)
(* its other lines describe, where the rest can be said.                   *)
(*                                                                         *)
(* The registry's own protocol is RepoIndexing's subject, the progress     *)
(* frames JobStream's and the clone cache TemporalCache's; here their      *)
(* effect on a review is an action of the environment.                     *)
(***************************************************************************)
EXTENDS FiniteSets, Integers

CONSTANTS
    Jobs,          \* the review jobs
    Cap,           \* _HISTORY_MAX_ROWS
    RepoIdTarget,  \* the table that review_runs.repo_id refers to in the ORM
    ReportsUsage,  \* does every answer carry usage?  OpenAI's and Anthropic's
                   \* do, Ollama's may not
    MaxFaults,     \* bounds: failures, time-outs and restarts (below arq's
                   \* max_tries),
    MaxDeletes     \* and runs that users delete

ASSUME JobsAssumption == "earlier" \notin Jobs
ASSUME CapAssumption == Cap \in Nat \ {0}
ASSUME ReportsUsageAssumption == ReportsUsage \in BOOLEAN
ASSUME BoundsAssumption == {MaxFaults, MaxDeletes} \subseteq Nat

(* The tables of Base.metadata: the only ones a ForeignKey can name.       *)
MappedTables == {"app_settings", "repositories", "code_chunks",
                 "review_runs", "review_findings"}

VARIABLES
    job,      \* the jobs
    repo,     \* does the repository that reviews may name still exist?
    usage,    \* provider._last_usage: which answer it counts, 0 for None
    answers,  \* how many answers the provider has received
    runs,     \* the committed rows of review_runs
    clock,    \* created_at of the latest run, which also serves as its id
    told,     \* run ids that "complete" frames have carried
    deleted,  \* runs that users deleted
    faults, restarts

vars == <<job, repo, usage, answers, runs, clock, told, deleted,
          faults, restarts>>

provider == <<usage, answers>>
history == <<runs, clock, deleted>>
bounds == <<faults, restarts>>

-----------------------------------------------------------------------------
Errors == {"none", "input", "repo", "provider", "malformed", "internal",
           "timeout"}

Waiting == {"idle", "queued", "done"}
Running == {"retrieving", "calling", "parsing",
            "persisting", "inserted", "counting", "picking", "dropping",
            "telling", "returning"}
Persisting == {"persisting", "inserted", "counting", "picking", "dropping"}

(* Where a job is, whether its request names the repository, and its local *)
(* variables: which answer is its own and whose usage it read, the id of   *)
(* its row, what prune_to_cap decided, and the run_id and error it returns. *)
Job == [stage : Waiting \cup Running, rag : BOOLEAN,
        answer : Nat, usage : Nat, row : Nat, overflow : Nat,
        doomed : SUBSET Nat, run : Nat, error : Errors]

Fresh(stage, rag) ==
    [stage |-> stage, rag |-> rag, answer |-> 0, usage |-> 0, row |-> 0,
     overflow |-> 0, doomed |-> {}, run |-> 0, error |-> "none"]

Run == [id : Nat, by : Jobs \cup {"earlier"}]

Ids(rows) == {r.id : r \in rows}

(* The `n` oldest of `rows`: ORDER BY created_at ASC LIMIT n.              *)
Oldest(rows, n) ==
    {i \in Ids(rows) : Cardinality({k \in Ids(rows) : k < i}) < n}

Excess(n) == IF n > Cap THEN n - Cap ELSE 0

At(j, stage) == job[j].stage = stage
Goto(j, stage) == job' = [job EXCEPT ![j].stage = stage]
Set(j, rec) == job' = [job EXCEPT ![j] = rec]

(* An exception that review_job turns into a failed frame and an error     *)
(* envelope.                                                               *)
Fail(j, error) ==
    Set(j, [Fresh("telling", job[j].rag) EXCEPT !.error = error])

(* _persist_run returns, with the id of the run or with None.              *)
Persisted(j, run) == Set(j, [Fresh("telling", job[j].rag) EXCEPT !.run = run])

Fault == /\ faults + restarts < MaxFaults
         /\ faults' = faults + 1 /\ UNCHANGED restarts

-----------------------------------------------------------------------------
(* POST /api/review.  A refusal (413, 502) changes nothing and is left     *)
(* out.                                                                    *)
PostReview(j) ==
    /\ At(j, "idle")
    /\ \E rag \in BOOLEAN : Set(j, Fresh("queued", rag))
    /\ UNCHANGED <<repo, provider, history, told, bounds>>

(* review_job until the retrieval, with fetch_pr_diff and _enforce_size.   *)
StartJob(j) ==
    /\ At(j, "queued")
    /\ \/ Goto(j, IF job[j].rag THEN "retrieving" ELSE "calling")
       \/ Fail(j, "input")
    /\ UNCHANGED <<repo, provider, history, told, bounds>>

(* RetrievalService.search, which refuses a repository that is missing, not *)
(* ready or embedded by another model; then the git history, which never   *)
(* raises.                                                                 *)
Retrieve(j) ==
    /\ At(j, "retrieving")
    /\ \/ repo /\ Goto(j, "calling")
       \/ \E error \in {"repo", "provider"} : Fail(j, error)
    /\ UNCHANGED <<repo, provider, history, told, bounds>>

-----------------------------------------------------------------------------
(* provider.chat under wait_for.                                           *)

(* Mutant: the adapter keeps the usage of its first answer only.           *)
ChatKeepsFirstUsage(j) ==
    /\ At(j, "calling")
    /\ answers' = answers + 1
    /\ usage' = IF usage = 0 THEN answers' ELSE usage
    /\ \/ Set(j, [Fresh("parsing", job[j].rag) EXCEPT !.answer = answers'])
       \/ Fail(j, "provider")
    /\ UNCHANGED <<repo, history, told, bounds>>

(* The adapter keeps the usage, if the answer has one, and then raises on  *)
(* an empty completion.                                                    *)
ChatAnswers(j) ==
    /\ At(j, "calling")
    /\ answers' = answers + 1
    /\ usage' \in {answers'} \cup (IF ReportsUsage THEN {} ELSE {usage})
    /\ \/ Set(j, [Fresh("parsing", job[j].rag) EXCEPT !.answer = answers'])
       \/ Fail(j, "provider")
    /\ UNCHANGED <<repo, history, told, bounds>>

(* A provider error or the time-out of wait_for.                           *)
ChatFails(j) ==
    /\ At(j, "calling")
    /\ Fail(j, "provider")
    /\ UNCHANGED <<repo, provider, history, told, bounds>>

(* After `await notify("parsing")`: parse_review raises or not, and only   *)
(* then is provider._last_usage read.                                      *)
ParseAnswer(j) ==
    /\ At(j, "parsing")
    /\ \/ job' = [job EXCEPT ![j].stage = "persisting", ![j].usage = usage]
       \/ Fail(j, "malformed")
    /\ UNCHANGED <<repo, provider, history, told, bounds>>

-----------------------------------------------------------------------------
(* _persist_run: everything it raises is caught, and the run_id is None.   *)

(* The foreign key needs a table the ORM knows, or the flush raises before *)
(* any SQL, and a repository that still exists, or PostgreSQL does.        *)
ForeignKeyHolds(j) ==
    /\ RepoIdTarget \in MappedTables
    /\ job[j].rag => repo

(* Mutant: the run id taken from an object that was never flushed.         *)
InsertRunUnchecked(j) ==
    /\ At(j, "persisting")
    /\ clock' = clock + 1
    /\ IF ForeignKeyHolds(j)
       THEN job' = [job EXCEPT ![j].stage = "inserted", ![j].row = clock']
       ELSE Persisted(j, clock')
    /\ UNCHANGED <<repo, provider, runs, deleted, told, bounds>>

(* insert_run until the INSERT: created_at is the transaction's start.     *)
InsertRun(j) ==
    /\ At(j, "persisting")
    /\ IF ForeignKeyHolds(j)
       THEN /\ clock' = clock + 1
            /\ job' = [job EXCEPT ![j].stage = "inserted", ![j].row = clock']
       ELSE Persisted(j, 0) /\ UNCHANGED clock
    /\ UNCHANGED <<repo, provider, runs, deleted, told, bounds>>

(* Mutant: what insert_run raises after its commit is not caught.          *)
CommitRunRaises(j) ==
    /\ At(j, "inserted")
    /\ runs' = runs \cup {[id |-> job[j].row, by |-> j]}
    /\ Goto(j, "counting") \/ Fail(j, "internal")
    /\ UNCHANGED <<repo, provider, clock, deleted, told, bounds>>

(* insert_run commits.                                                     *)
CommitRun(j) ==
    /\ At(j, "inserted")
    /\ runs' = runs \cup {[id |-> job[j].row, by |-> j]}
    /\ Goto(j, "counting")
    /\ UNCHANGED <<repo, provider, clock, deleted, told, bounds>>

(* Mutant: the cap off by one.                                             *)
CountRunsOffByOne(j) ==
    /\ At(j, "counting")
    /\ LET overflow == Excess(Cardinality(runs) - 1)
       IN IF overflow = 0
          THEN Persisted(j, job[j].row)
          ELSE job' = [job EXCEPT ![j].stage = "picking",
                                  ![j].overflow = overflow]
    /\ UNCHANGED <<repo, provider, history, told, bounds>>

(* prune_to_cap: SELECT count(id), in a transaction of its own.            *)
CountRuns(j) ==
    /\ At(j, "counting")
    /\ LET overflow == Excess(Cardinality(runs))
       IN IF overflow = 0
          THEN Persisted(j, job[j].row)
          ELSE job' = [job EXCEPT ![j].stage = "picking",
                                  ![j].overflow = overflow]
    /\ UNCHANGED <<repo, provider, history, told, bounds>>

(* Mutant: ORDER BY created_at DESC.                                       *)
PickRunsNewest(j) ==
    /\ At(j, "picking")
    /\ job' = [job EXCEPT ![j].stage = "dropping",
                          ![j].doomed = Ids(runs) \ Oldest(runs,
                                            Cardinality(runs) - job[j].overflow)]
    /\ UNCHANGED <<repo, provider, history, told, bounds>>

(* The DELETE starts: its inner SELECT takes the oldest rows committed by  *)
(* then, as many as the count left over.                                   *)
PickRuns(j) ==
    /\ At(j, "picking")
    /\ job' = [job EXCEPT ![j].stage = "dropping",
                          ![j].doomed = Oldest(runs, job[j].overflow)]
    /\ UNCHANGED <<repo, provider, history, told, bounds>>

(* The DELETE has its locks and commits; what another prune or a user took *)
(* first is skipped.                                                       *)
DropRuns(j) ==
    /\ At(j, "dropping")
    /\ runs' = {r \in runs : r.id \notin job[j].doomed}
    /\ Persisted(j, job[j].row)
    /\ UNCHANGED <<repo, provider, clock, deleted, told, bounds>>

(* Any statement may fail: before the commit nothing is stored, after it   *)
(* the run is stored and not reported.                                     *)
PersistFails(j) ==
    /\ Fault
    /\ job[j].stage \in Persisting
    /\ Persisted(j, 0)
    /\ UNCHANGED <<repo, provider, history, told>>

-----------------------------------------------------------------------------
(* Mutant: a run_id of None sent as if it were one.                        *)
TellBrowserNone(j) ==
    /\ At(j, "telling")
    /\ Goto(j, "returning")
    /\ told' = told \cup {job[j].run}
    /\ UNCHANGED <<repo, provider, history, bounds>>

(* The complete frame, best effort, with the run id on success.            *)
TellBrowser(j) ==
    /\ At(j, "telling")
    /\ Goto(j, "returning")
    /\ \/ /\ told' = told \cup (IF job[j].error = "none" THEN {job[j].run} \ {0}
                                                         ELSE {})
          /\ UNCHANGED bounds
       \/ Fault /\ UNCHANGED told
    /\ UNCHANGED <<repo, provider, history>>

(* arq stores the result.                                                  *)
FinishJob(j) ==
    /\ At(j, "returning")
    /\ Goto(j, "done")
    /\ UNCHANGED <<repo, provider, history, told, bounds>>

(* arq's job_timeout cancels the coroutine: CancelledError passes both     *)
(* except clauses, so there is no frame; an open transaction is rolled     *)
(* back.                                                                   *)
JobTimesOut(j) ==
    /\ Fault
    /\ job[j].stage \in Running
    /\ Set(j, [Fresh("done", job[j].rag) EXCEPT !.error = "timeout"])
    /\ UNCHANGED <<repo, provider, history, told>>

(* What a restart makes of a job: arq has kept the ones that it was        *)
(* running, and runs them again from the start.                            *)
AfterRestart(j) ==
    IF job[j].stage \in Running THEN Fresh("queued", job[j].rag) ELSE job[j]

(* The worker stops and comes back, with a new provider.                   *)
RestartWorker ==
    /\ faults + restarts < MaxFaults
    /\ restarts' = restarts + 1
    /\ job' = [j \in Jobs |-> AfterRestart(j)]
    /\ usage' = 0
    /\ UNCHANGED <<repo, answers, history, told, faults>>

-----------------------------------------------------------------------------
(* What others do meanwhile.                                               *)

(* DELETE /api/repos waits for an inserted run that refers to the row;      *)
(* stored runs are kept, with repo_id NULL.                                *)
DeleteRepo ==
    /\ repo
    /\ \A j \in Jobs : At(j, "inserted") => ~job[j].rag
    /\ repo' = FALSE
    /\ UNCHANGED <<job, provider, history, told, bounds>>

(* DELETE /api/reviews/{id}.                                               *)
DeleteRun ==
    /\ Cardinality(deleted) < MaxDeletes
    /\ \E r \in runs : runs' = runs \ {r} /\ deleted' = deleted \cup {r.id}
    /\ UNCHANGED <<job, repo, provider, clock, told, bounds>>

-----------------------------------------------------------------------------
(* The history is full.                                                    *)
Init ==
    /\ job = [j \in Jobs |-> Fresh("idle", FALSE)]
    /\ repo = TRUE
    /\ usage = 0 /\ answers = 0
    /\ runs = {[id |-> i, by |-> "earlier"] : i \in 1..Cap}
    /\ clock = Cap
    /\ told = {} /\ deleted = {}
    /\ faults = 0 /\ restarts = 0

Persist(j) ==
    \/ InsertRun(j) \/ CommitRun(j) \/ CountRuns(j) \/ PickRuns(j)
    \/ DropRuns(j)

JobStep(j) ==
    \/ StartJob(j) \/ Retrieve(j)
    \/ ChatAnswers(j) \/ ChatFails(j) \/ ParseAnswer(j)
    \/ Persist(j) \/ TellBrowser(j) \/ FinishJob(j)

Next ==
    \/ \E j \in Jobs : PostReview(j) \/ JobStep(j) \/ PersistFails(j)
                       \/ JobTimesOut(j)
    \/ RestartWorker \/ DeleteRepo \/ DeleteRun

Spec == Init /\ [][Next]_vars

-----------------------------------------------------------------------------
(* Every variable keeps its type.                                          *)
TypeOK ==
    /\ job \in [Jobs -> Job]
    /\ repo \in BOOLEAN
    /\ usage \in 0..answers /\ answers \in Nat
    /\ runs \subseteq Run /\ clock \in Nat /\ Ids(runs) \subseteq 1..clock
    /\ told \subseteq 1..clock /\ deleted \subseteq 1..clock
    /\ faults \in 0..MaxFaults /\ restarts \in 0..MaxFaults

(* FR-001 of feature 009: a review that ends well is stored and reports    *)
(* its run, unless the database failed or its repository went away while   *)
(* it ran.  False of this commit, whose foreign key makes _persist_run     *)
(* raise, and be caught, every time (models.py:47); the proofs show that   *)
(* nothing else makes it false.                                            *)
SuccessIsStored ==
    \A j \in Jobs :
        /\ job[j].stage \in {"telling", "returning", "done"}
        /\ job[j].error = "none"
        /\ faults = 0
        /\ job[j].rag => repo
        => job[j].run # 0

(* FR-004: a review that fails before it has findings leaves no run; only  *)
(* an attempt before a restart, or one cut off after its commit, may.      *)
FailureLeavesNoRun ==
    \A j \in Jobs :
        /\ job[j].stage \in {"telling", "returning", "done"}
        /\ job[j].error \notin {"none", "timeout"}
        /\ restarts = 0
        => \A r \in runs : r.by # j

(* A browser that was given a run id can open it: /review shows nothing    *)
(* else of a review.  It is stored until a user deletes it, or until it is *)
(* older than all that is stored.  (Provided that no transaction stays     *)
(* open while a prune takes a run that began after it: its commit would    *)
(* add an older one late.  The proofs name this NoRunIsOvertaken.  It      *)
(* takes Cap younger runs, fewer if prunes overlap and go by old counts.)  *)
ToldRunCanBeOpened ==
    \A id \in told \ deleted :
        id \in Ids(runs) \/ \A r \in runs : r.id > id

(* FR-017: the cap holds again as soon as nobody is storing a run.         *)
CapHolds ==
    /\ faults = 0 /\ restarts = 0
    /\ \A j \in Jobs : job[j].stage \notin Persisting
    => Cardinality(runs) <= Cap

(* FR-017: pruning takes the oldest runs, also when the count it goes by,  *)
(* or the rows it picked, are no longer what the table holds.  (With the   *)
(* same proviso as ToldRunCanBeOpened.)                                    *)
PruneTakesOldest ==
    [][\A j \in Jobs : At(j, "dropping") /\ ~At(j, "dropping")'
          => \A gone \in Ids(runs) \ Ids(runs'), kept \in Ids(runs') :
                 gone < kept]_vars

(* FR-011 of feature 012: a review does not report the usage of an earlier *)
(* answer than its own, as long as every answer carries usage.  (It may    *)
(* report that of a later one.)                                            *)
NoEarlierUsage ==
    \A j \in Jobs : job[j].usage # 0 => job[j].usage >= job[j].answer

=============================================================================
