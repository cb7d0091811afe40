---------------------------- MODULE RepoIndexing ----------------------------
(***************************************************************************)
(* The repository registry of the backend and the jobs that fill it.       *)
(*                                                                         *)
(* HTTP handlers (indexing/api.py, IndexingService.dispatch/delete_repo)   *)
(* and arq workers (indexing/tasks.py, IndexingService._fill_repo) share   *)
(* two PostgreSQL tables, `repositories` and `code_chunks`, under READ     *)
(* COMMITTED.  Each handler is a small process that takes one step per     *)
(* database transaction or queue call, because every `await` lets the      *)
(* others run.                                                             *)
(*                                                                         *)
(* The module describes ONE source: `source` is UNIQUE in `repositories`   *)
(* and no statement touches the rows of two sources, so sources do not     *)
(* interact.  A POST is identified with the job it enqueues and with the   *)
(* row it creates, if it creates one.                                      *)
(***************************************************************************)
EXTENDS FiniteSets, Integers

CONSTANTS
    Posts,        \* the POST /api/index requests for this source
    Deletes,      \* the DELETE /api/repos/{id} requests
    NoRepo,       \* the id of no row
    Overlapping,  \* may requests overlap?  The form of RepoForm.vue waits for
                  \* its answer; a double click on Re-index, a second tab or
                  \* a script does not
    Faults,       \* which environment faults happen, a subset of FaultKinds
    MaxTries      \* arq's max_tries

FaultKinds ==
    { "pool",       \* create_pool cannot reach Redis
      "enqueue",    \* enqueue_job raises RedisError, nothing queued
      "lost_ack",   \* enqueue_job raises after Redis took the job
      "api_crash",  \* the API process stops between two awaits
      "crash",      \* the worker stops; arq runs the job again
      "timeout",    \* arq's job_timeout cancels the job
      "raise" }     \* the job raises something other than IndexError

ASSUME NoRepoAssumption == NoRepo \notin Posts
ASSUME OverlappingAssumption == Overlapping \in BOOLEAN
ASSUME FaultsAssumption == Faults \subseteq FaultKinds
ASSUME MaxTriesAssumption == MaxTries \in Nat \ {0}

VARIABLES
    row,     \* the source's row in `repositories`, Absent when there is none
    chunks,  \* the committed rows of `code_chunks`
    post,    \* the POST handlers
    del,     \* the DELETE handlers
    job      \* the arq jobs, by the POST that enqueues them

vars == <<row, chunks, post, del, job>>

-----------------------------------------------------------------------------
(* The tables.  All chunk rows that one pass of a job inserts are one      *)
(* element here, and chunk_count is represented by the set it counts:      *)
(* `listed` is {} for 0 and the writer's pass otherwise.                   *)

Chunk == [repo : Posts, by : Posts, try : 1..MaxTries]

Row == [id : Posts, indexed : BOOLEAN, error : BOOLEAN, listed : SUBSET Chunk]

Absent == [id |-> NoRepo, indexed |-> FALSE, error |-> FALSE, listed |-> {}]

Exists(id) == row.id = id /\ id # NoRepo

(* _repo_status: "indexing" is the absence of both timestamps and errors.  *)
Pending(r) == r.id # NoRepo /\ ~r.indexed /\ ~r.error

Status(r) ==
    CASE r.id = NoRepo -> "absent"
      [] r.id # NoRepo /\ r.indexed -> "ready"
      [] r.id # NoRepo /\ ~r.indexed /\ r.error -> "failed"
      [] OTHER -> "indexing"

-----------------------------------------------------------------------------
PostPc == {"idle", "mark", "enqueue", "rollback", "drop", "done"}
PostReply == {"none", "accepted", "conflict", "unavailable", "unreachable",
              "error", "cut"}
DelPc == {"idle", "delete", "done"}
DelReply == {"none", "deleted", "missing", "busy", "error"}
JobPc == {"none", "queued", "build", "insert", "swap", "commit", "fail",
          "close", "lost", "done", "dead"}

Running(pc) == pc \in {"build", "insert", "swap", "commit", "fail", "close"}

IdlePost == [pc |-> "idle", reply |-> "none", repo |-> NoRepo, seen |-> Absent]
IdleDel == [pc |-> "idle", reply |-> "none", repo |-> NoRepo]
NoJob == [pc |-> "none", repo |-> NoRepo, try |-> 0, mine |-> {}, doomed |-> {}]

(* A job that can still change the row it was enqueued for.                *)
Live(j) == job[j].pc \in JobPc \ {"none", "close", "done", "dead"}

InFlight(id) == {j \in Posts : Live(j) /\ job[j].repo = id}

Busy == \/ \E r \in Posts : post[r].pc \notin {"idle", "done"}
        \/ \E d \in Deletes : del[d].pc \notin {"idle", "done"}

MayStart == Overlapping \/ ~Busy

-----------------------------------------------------------------------------
(* Locks.  Inserting a chunk takes FOR KEY SHARE on its repository row     *)
(* until the transaction ends, so DELETE FROM repositories waits for it.   *)
(* An empty pass inserts nothing; it locks only the chunks it deletes, and *)
(* the cascade of a repository delete then meets them in the other order:  *)
(* PostgreSQL breaks that deadlock by aborting one of the two.             *)

(* Mutant: code_chunks.repo_id declared without a foreign key.             *)
ForeignKeyNotHeld(id) == FALSE

ForeignKeyHeld(id) ==
    \E j \in Posts : job[j].pc \in {"swap", "commit"}
                     /\ job[j].mine # {} /\ job[j].repo = id

CascadeVictims(id) ==
    {j \in Posts : /\ job[j].pc = "commit" /\ job[j].mine = {}
                   /\ job[j].doomed \cap chunks # {} /\ job[j].repo = id}

(* Rolling back what a job had open.                                       *)
Ended(j, pc) == [job[j] EXCEPT !.pc = pc, !.mine = {}, !.doomed = {}]

(* delete_repo_by_id + commit: the row goes, its chunks cascade.           *)
DeleteRow(id) ==
    IF Exists(id)
    THEN /\ ~ForeignKeyHeld(id)
         /\ row' = Absent
         /\ chunks' = {c \in chunks : c.repo # id}
         /\ job' = [j \in Posts |-> IF j \in CascadeVictims(id)
                                    THEN Ended(j, "done") ELSE job[j]]
    ELSE UNCHANGED <<row, chunks, job>>

-----------------------------------------------------------------------------
(* POST /api/index: dispatch -> _register_async -> enqueue_index_repo.     *)

Answer(r, reply) == post' = [post EXCEPT ![r].pc = "done", ![r].reply = reply]

(* upsert_repo inserted the row.  The assignments that follow change no    *)
(* loaded value, so the ORM emits no UPDATE and the commit publishes it.   *)
PostCreate(r) ==
    /\ post[r].pc = "idle" /\ MayStart
    /\ row = Absent
    /\ row' = [Absent EXCEPT !.id = r]
    /\ post' = [post EXCEPT ![r].pc = "enqueue", ![r].repo = r]
    /\ UNCHANGED <<chunks, del, job>>

(* Mutant: the 409 guard of _register_async dropped.                       *)
PostFoundUnguarded(r) ==
    /\ post[r].pc = "idle" /\ MayStart
    /\ row # Absent
    /\ post' = [post EXCEPT ![r].pc = "mark", ![r].repo = row.id, ![r].seen = row]
    /\ UNCHANGED <<row, chunks, del, job>>

(* upsert_repo found the row: the handler decides on what it read.  (A row *)
(* deleted between its INSERT and its SELECT is a 500 that changes nothing *)
(* and is left out.)                                                       *)
PostFound(r) ==
    /\ post[r].pc = "idle" /\ MayStart
    /\ row # Absent
    /\ IF Pending(row)
       THEN Answer(r, "conflict")
       ELSE post' = [post EXCEPT ![r].pc = "mark", ![r].repo = row.id,
                                 ![r].seen = row]
    /\ UNCHANGED <<row, chunks, del, job>>

(* Mutant: _register_async forgets to clear last_error.                    *)
PostMarkKeepsError(r) ==
    /\ post[r].pc = "mark"
    /\ IF Exists(post[r].repo)
       THEN /\ row' = [row EXCEPT !.indexed = FALSE, !.listed = {}]
            /\ post' = [post EXCEPT ![r].pc = "enqueue"]
       ELSE Answer(r, "error") /\ UNCHANGED row
    /\ UNCHANGED <<chunks, del, job>>

(* The UPDATE at commit carries only the columns that differ from what was *)
(* read.  No row left to update is a StaleDataError, answered 500.         *)
PostMark(r) ==
    /\ post[r].pc = "mark"
    /\ IF Exists(post[r].repo)
       THEN /\ row' = [row EXCEPT
                         !.indexed = @ /\ ~post[r].seen.indexed,
                         !.error = @ /\ ~post[r].seen.error,
                         !.listed = IF post[r].seen.listed = {} THEN @ ELSE {}]
            /\ post' = [post EXCEPT ![r].pc = "enqueue"]
       ELSE Answer(r, "error") /\ UNCHANGED row
    /\ UNCHANGED <<chunks, del, job>>

Queue(r) == job' = [job EXCEPT ![r] = [NoJob EXCEPT !.pc = "queued",
                                                    !.repo = post[r].repo]]

PostEnqueue(r) ==
    /\ post[r].pc = "enqueue"
    /\ Queue(r)
    /\ Answer(r, "accepted")
    /\ UNCHANGED <<row, chunks, del>>

(* create_pool fails: JobError, which dispatch does not catch.  main       *)
(* answers it, and the row stays as it is.                                 *)
PostNoPool(r) ==
    /\ "pool" \in Faults
    /\ post[r].pc = "enqueue"
    /\ Answer(r, "unreachable")
    /\ UNCHANGED <<row, chunks, del, job>>

(* enqueue_job raises RedisError: dispatch starts its rollback.            *)
PostEnqueueFails(r) ==
    /\ post[r].pc = "enqueue"
    /\ \/ "enqueue" \in Faults /\ UNCHANGED job
       \/ "lost_ack" \in Faults /\ Queue(r)
    /\ post' = [post EXCEPT ![r].pc = "rollback"]
    /\ UNCHANGED <<row, chunks, del>>

(* _delete_if_pristine: read, decide, delete.                              *)
PostRollback(r) ==
    /\ post[r].pc = "rollback"
    /\ IF Exists(post[r].repo) /\ ~row.indexed /\ row.listed = {}
       THEN post' = [post EXCEPT ![r].pc = "drop"]
       ELSE Answer(r, "unavailable")
    /\ UNCHANGED <<row, chunks, del, job>>

PostDrop(r) ==
    /\ post[r].pc = "drop"
    /\ DeleteRow(post[r].repo)
    /\ Answer(r, "unavailable")
    /\ UNCHANGED del

(* The API process stops; whatever was committed stays, and "cut" is a     *)
(* POST that had committed something.                                      *)
PostCrash(r) ==
    /\ "api_crash" \in Faults
    /\ post[r].pc \notin {"idle", "done"}
    /\ Answer(r, IF post[r].pc = "mark" THEN "error" ELSE "cut")
    /\ UNCHANGED <<row, chunks, del, job>>

-----------------------------------------------------------------------------
(* DELETE /api/repos/{id}: delete_repo.                                    *)

Reply(d, reply) == del' = [del EXCEPT ![d].pc = "done", ![d].reply = reply]

DelRead(d) ==
    /\ del[d].pc = "idle" /\ MayStart
    /\ \/ row = Absent /\ Reply(d, "missing")
       \/ Pending(row) /\ Reply(d, "busy")
       \/ /\ row # Absent /\ ~Pending(row)
          /\ del' = [del EXCEPT ![d].pc = "delete", ![d].repo = row.id]
    /\ UNCHANGED <<row, chunks, post, job>>

DelExec(d) ==
    /\ del[d].pc = "delete"
    /\ DeleteRow(del[d].repo)
    /\ Reply(d, IF Exists(del[d].repo) THEN "deleted" ELSE "missing")
    /\ UNCHANGED post

(* The deadlock with an empty pass aborts the DELETE instead.              *)
DelDeadlock(d) ==
    /\ del[d].pc = "delete"
    /\ Exists(del[d].repo) /\ CascadeVictims(del[d].repo) # {}
    /\ Reply(d, "error")
    /\ UNCHANGED <<row, chunks, post, job>>

-----------------------------------------------------------------------------
(* index_repo_job in a worker: run_for_existing_repo and _fill_repo.       *)

Goto(j, pc) == job' = [job EXCEPT ![j].pc = pc]
End(j, pc) == job' = [job EXCEPT ![j] = Ended(j, pc)]

(* arq takes the job; a job past max_tries is finished without running.    *)
(* The row is fetched outside the try, so NOT_FOUND stamps no error.       *)
JobStart(j) ==
    /\ job[j].pc \in {"queued", "lost"}
    /\ IF job[j].try = MaxTries
       THEN Goto(j, "dead")
       ELSE job' = [job EXCEPT ![j].try = @ + 1,
                      ![j].pc = IF Exists(job[j].repo) THEN "build" ELSE "close"]
    /\ UNCHANGED <<row, chunks, post, del>>

(* Clone, chunk and embed: chunks to store, or none (an empty repository), *)
(* or an IndexError (clone, caps, provider, dimension).                    *)
JobBuild(j) ==
    /\ job[j].pc = "build"
    /\ \E next \in {"insert", "swap", "fail"} : Goto(j, next)
    /\ UNCHANGED <<row, chunks, post, del>>

(* Mutant: the INSERT commits before the complement is deleted.            *)
JobInsertCommits(j) ==
    /\ job[j].pc = "insert" /\ Exists(job[j].repo)
    /\ LET new == {[repo |-> job[j].repo, by |-> j, try |-> job[j].try]} IN
       /\ chunks' = chunks \cup new
       /\ job' = [job EXCEPT ![j].pc = "swap", ![j].mine = new]
    /\ UNCHANGED <<row, post, del>>

(* replace_chunks, the INSERT: a missing repository violates the foreign   *)
(* key and the exception is no IndexError.                                 *)
JobInsert(j) ==
    /\ job[j].pc = "insert"
    /\ IF Exists(job[j].repo)
       THEN job' = [job EXCEPT ![j].pc = "swap",
              ![j].mine = {[repo |-> job[j].repo, by |-> j, try |-> job[j].try]}]
       ELSE End(j, "done")
    /\ UNCHANGED <<row, chunks, post, del>>

(* The DELETE of the complement sees the rows committed when it starts.    *)
JobSwap(j) ==
    /\ job[j].pc = "swap"
    /\ job' = [job EXCEPT ![j].pc = "commit",
                          ![j].doomed = {c \in chunks : c.repo = job[j].repo}]
    /\ UNCHANGED <<row, chunks, post, del>>

(* Mutant: DELETE without `id <> ALL(:ids)` takes the new rows too.        *)
JobCommitDeletesAll(j) ==
    /\ job[j].pc = "commit"
    /\ chunks' = {c \in chunks : c.repo # job[j].repo}
    /\ row' = IF Exists(job[j].repo)
              THEN [row EXCEPT !.indexed = TRUE, !.error = FALSE,
                               !.listed = job[j].mine]
              ELSE row
    /\ End(j, "close")
    /\ UNCHANGED <<post, del>>

(* Mutant: the swap without the UPDATE of the repository row.              *)
JobCommitForgetsRow(j) ==
    /\ job[j].pc = "commit"
    /\ chunks' = (chunks \ job[j].doomed) \cup job[j].mine
    /\ End(j, "close")
    /\ UNCHANGED <<row, post, del>>

(* The UPDATE of the repository row and the commit that publishes all      *)
(* three statements.  Of two passes that delete the same rows the second   *)
(* waits for the first; either may be the first.                           *)
JobCommit(j) ==
    /\ job[j].pc = "commit"
    /\ chunks' = (chunks \ job[j].doomed) \cup job[j].mine
    /\ row' = IF Exists(job[j].repo)
              THEN [row EXCEPT !.indexed = TRUE, !.error = FALSE,
                               !.listed = job[j].mine]
              ELSE row
    /\ End(j, "close")
    /\ UNCHANGED <<post, del>>

(* Mutants: the failure stamped without looking for the row (an upsert),   *)
(* and run_for_existing_repo without its except clause.                    *)
JobFailUpserts(j) ==
    /\ job[j].pc = "fail"
    /\ row' = [row EXCEPT !.error = TRUE]
    /\ End(j, "close")
    /\ UNCHANGED <<chunks, post, del>>

JobFailUnrecorded(j) ==
    /\ job[j].pc = "fail"
    /\ End(j, "close")
    /\ UNCHANGED <<row, chunks, post, del>>

(* _record_failure, a transaction of its own.                              *)
JobFail(j) ==
    /\ job[j].pc = "fail"
    /\ row' = IF Exists(job[j].repo) THEN [row EXCEPT !.error = TRUE] ELSE row
    /\ End(j, "close")
    /\ UNCHANGED <<chunks, post, del>>

(* arq stores the result and drops the job.                                *)
JobClose(j) ==
    /\ job[j].pc = "close"
    /\ Goto(j, "done")
    /\ UNCHANGED <<row, chunks, post, del>>

(* The worker dies: PostgreSQL rolls back, arq will run the job again.     *)
WorkerCrash(j) ==
    /\ "crash" \in Faults
    /\ Running(job[j].pc)
    /\ End(j, "lost")
    /\ UNCHANGED <<row, chunks, post, del>>

(* Cancelled by job_timeout, or an exception that is no IndexError: the    *)
(* job is over and writes nothing on the row, which one that was closing   *)
(* had written already.                                                    *)
JobDies(j) ==
    /\ \/ "timeout" \in Faults /\ Running(job[j].pc)
       \/ "raise" \in Faults /\ job[j].pc \in {"build", "close"}
    /\ End(j, IF job[j].pc = "close" THEN "done" ELSE "dead")
    /\ UNCHANGED <<row, chunks, post, del>>

-----------------------------------------------------------------------------
Init ==
    /\ row = Absent
    /\ chunks = {}
    /\ post = [r \in Posts |-> IdlePost]
    /\ del = [d \in Deletes |-> IdleDel]
    /\ job = [j \in Posts |-> NoJob]

PostStep(r) ==
    \/ PostMark(r) \/ PostEnqueue(r) \/ PostEnqueueFails(r)
    \/ PostRollback(r) \/ PostDrop(r)

DelStep(d) == DelExec(d) \/ DelDeadlock(d)

JobStep(j) ==
    \/ JobStart(j) \/ JobBuild(j) \/ JobInsert(j) \/ JobSwap(j)
    \/ JobCommit(j) \/ JobFail(j) \/ JobClose(j)

Next ==
    \/ \E r \in Posts : PostCreate(r) \/ PostFound(r) \/ PostStep(r)
                        \/ PostNoPool(r) \/ PostCrash(r)
    \/ \E d \in Deletes : DelRead(d) \/ DelStep(d)
    \/ \E j \in Posts : JobStep(j) \/ WorkerCrash(j) \/ JobDies(j)

Spec == Init /\ [][Next]_vars

(* The event loop resumes every handler it has started, and a worker is    *)
(* polling the queue; nobody is bound to send a request.                   *)
Fairness ==
    /\ \A r \in Posts : WF_vars(PostStep(r))
    /\ \A d \in Deletes : WF_vars(DelStep(d))
    /\ \A j \in Posts : WF_vars(JobStep(j))

FairSpec == Spec /\ Fairness
=============================================================================
