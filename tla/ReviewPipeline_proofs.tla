----------------------- MODULE ReviewPipeline_proofs -----------------------
(***************************************************************************)
(* Proofs about ReviewPipeline, for any number of jobs, any cap and any   *)
(* bound: what a review may report; that nothing at all is stored when    *)
(* the foreign key names a table that no class maps; that prunes which    *)
(* overlap still leave the history within its cap; and that they take     *)
(* the oldest runs and none that a browser was just told of, as long as   *)
(* no open transaction is overtaken.                                      *)
(***************************************************************************)
EXTENDS ReviewPipeline, FiniteSetTheorems, WellFoundedInduction, TLAPS

Committed == {"counting", "picking", "dropping"}
Storing == {"inserted"} \cup Committed
Ending == {"telling", "returning", "done"}

HasRun(j) == \E r \in runs : r.by = j

(* A job's record has its type, and ids that were given out.              *)
Typed(j) ==
    /\ job[j] \in Job
    /\ job[j].row <= clock /\ job[j].run <= clock
    /\ job[j].answer <= answers /\ job[j].usage <= answers
    /\ job[j].stage \in Storing => job[j].row # 0

(* Why a review that ends well has a run.                                 *)
Stored(j) ==
    (/\ RepoIdTarget \in MappedTables
     /\ job[j].stage \in Ending /\ job[j].error = "none" /\ faults = 0
     /\ job[j].rag => repo)
    => job[j].run # 0

(* Where a job can be once it has a run.                                  *)
Left(j) ==
    (restarts = 0 /\ HasRun(j))
    => \/ job[j].stage \in Committed
       \/ job[j].stage \in Ending /\ job[j].error \in {"none", "timeout"}

(* The usage that a job reads, or is about to read, is not from before    *)
(* its answer.                                                            *)
Counted(j) ==
    ReportsUsage => /\ job[j].stage = "parsing" => usage >= job[j].answer
                    /\ job[j].usage # 0 => job[j].usage >= job[j].answer

(* No row is ever inserted for a foreign key that cannot be resolved.     *)
Unstored(j) ==
    RepoIdTarget \notin MappedTables
    => job[j].stage \notin Storing /\ job[j].run = 0

JobInv(j) == Typed(j) /\ Stored(j) /\ Left(j) /\ Counted(j) /\ Unstored(j)

JobsOK == job = [j \in Jobs |-> job[j]] /\ \A j \in Jobs : JobInv(j)

(* Everything but the jobs.                                               *)
ProviderOK == usage \in 0..answers /\ answers \in Nat
HistoryOK ==
    /\ runs \subseteq Run /\ IsFiniteSet(runs)
    /\ clock \in Nat /\ Ids(runs) \subseteq 1..clock
    /\ told \subseteq 1..clock /\ deleted \subseteq 1..clock
BoundsOK == faults \in 0..MaxFaults /\ restarts \in 0..MaxFaults

(* FR-001 of feature 009 turned round: with a foreign key that names no   *)
(* mapped table, no review is ever stored and no browser is ever given a  *)
(* run id.                                                                *)
NothingIsStored ==
    RepoIdTarget \notin MappedTables
    => told = {} /\ \A r \in runs : r.by = "earlier"

PipeInv == /\ JobsOK /\ ProviderOK /\ HistoryOK /\ BoundsOK
           /\ repo \in BOOLEAN /\ NothingIsStored

-----------------------------------------------------------------------------
(* A step that only moves the counters on leaves the other jobs'          *)
(* invariant as it was.                                                   *)
Onward ==
    /\ clock \in Nat /\ clock' \in Nat /\ clock <= clock'
    /\ answers \in Nat /\ answers' \in Nat /\ answers <= answers'
    /\ usage \in Nat /\ usage' \in Nat /\ usage <= usage'
    /\ faults \in Nat /\ faults' \in Nat /\ faults <= faults'
    /\ restarts \in Nat /\ restarts' \in Nat /\ restarts <= restarts'
    /\ repo' => repo

LEMMA Frame ==
    ASSUME NEW q \in Jobs, JobInv(q), Onward, job'[q] = job[q],
           HasRun(q)' => HasRun(q)
    PROVE  JobInv(q)'
<1>1. Typed(q)'
  <2>1. /\ job[q].row \in Nat /\ job[q].run \in Nat
        /\ job[q].answer \in Nat /\ job[q].usage \in Nat
    BY DEF JobInv, Typed, Job
  <2> QED BY <2>1 DEF JobInv, Typed, Onward
<1>2. Stored(q)'
  BY DEF JobInv, Stored, Onward
<1>3. Left(q)'
  BY DEF JobInv, Left, Onward
<1>4. Counted(q)'
  <2>1. job[q].answer \in Nat
    BY DEF JobInv, Typed, Job
  <2> QED BY <2>1 DEF JobInv, Counted, Onward
<1>5. Unstored(q)'
  BY DEF JobInv, Unstored
<1> QED BY <1>1, <1>2, <1>3, <1>4, <1>5 DEF JobInv

(* One job's record is replaced by another.                               *)
LEMMA Replaced ==
    ASSUME JobsOK, NEW j \in Jobs, NEW r, job' = [job EXCEPT ![j] = r],
           Onward, \A q \in Jobs \ {j} : HasRun(q)' => HasRun(q),
           job'[j] = r => JobInv(j)'
    PROVE  JobsOK'
<1>1. job' = [q \in Jobs |-> job'[q]] /\ job'[j] = r
      /\ \A q \in Jobs \ {j} : job'[q] = job[q]
  BY DEF JobsOK
<1>2. \A q \in Jobs \ {j} : JobInv(q)'
  BY <1>1, Frame DEF JobsOK
<1> QED BY <1>1, <1>2 DEF JobsOK

(* Fields of the records that the actions build.                          *)
LEMMA FreshFields ==
    ASSUME NEW s \in Waiting \cup Running, NEW rag \in BOOLEAN
    PROVE  /\ Fresh(s, rag) \in Job
           /\ \A e \in Errors :
                LET r == [Fresh(s, rag) EXCEPT !.error = e]
                IN  /\ r \in Job /\ r.stage = s /\ r.rag = rag /\ r.error = e
                    /\ r.answer = 0 /\ r.usage = 0 /\ r.row = 0 /\ r.run = 0
           /\ \A i \in Nat :
                LET r == [Fresh(s, rag) EXCEPT !.run = i]
                IN  /\ r \in Job /\ r.stage = s /\ r.rag = rag
                    /\ r.error = "none"
                    /\ r.answer = 0 /\ r.usage = 0 /\ r.row = 0 /\ r.run = i
           /\ \A a \in Nat :
                LET r == [Fresh(s, rag) EXCEPT !.answer = a]
                IN  /\ r \in Job /\ r.stage = s /\ r.rag = rag
                    /\ r.error = "none"
                    /\ r.answer = a /\ r.usage = 0 /\ r.row = 0 /\ r.run = 0
<1>0. "none" \in Errors
  BY DEF Errors
<1>1. Fresh(s, rag) \in Job
  BY <1>0 DEF Fresh, Job
<1>2. ASSUME NEW e \in Errors
      PROVE  LET r == [Fresh(s, rag) EXCEPT !.error = e]
             IN  /\ r \in Job /\ r.stage = s /\ r.rag = rag /\ r.error = e
                 /\ r.answer = 0 /\ r.usage = 0 /\ r.row = 0 /\ r.run = 0
  BY <1>0 DEF Fresh, Job
<1>3. ASSUME NEW i \in Nat
      PROVE  LET r == [Fresh(s, rag) EXCEPT !.run = i]
             IN  /\ r \in Job /\ r.stage = s /\ r.rag = rag
                 /\ r.error = "none"
                 /\ r.answer = 0 /\ r.usage = 0 /\ r.row = 0 /\ r.run = i
  BY <1>0 DEF Fresh, Job
<1>4. ASSUME NEW a \in Nat
      PROVE  LET r == [Fresh(s, rag) EXCEPT !.answer = a]
             IN  /\ r \in Job /\ r.stage = s /\ r.rag = rag
                 /\ r.error = "none"
                 /\ r.answer = a /\ r.usage = 0 /\ r.row = 0 /\ r.run = 0
  BY <1>0 DEF Fresh, Job
<1> QED BY <1>1, <1>2, <1>3, <1>4

(* The outcomes of a job's step: it fails, _persist_run returns, or it    *)
(* has a fresh record and nothing behind it.                              *)
LEMMA FailedIsFine ==
    ASSUME NEW j \in Jobs, JobInv(j), Onward,
           NEW e \in Errors \ {"none", "timeout"},
           job[j].stage \in {"queued", "retrieving", "calling", "parsing"},
           HasRun(j)' => HasRun(j), restarts' = restarts,
           job'[j] = [Fresh("telling", job[j].rag) EXCEPT !.error = e]
    PROVE  JobInv(j)'
<1>1. job[j].rag \in BOOLEAN
  BY DEF JobInv, Typed, Job
<1>2. "telling" \in Waiting \cup Running
  BY DEF Running
<1>3. /\ job'[j] \in Job /\ job'[j].stage = "telling" /\ job'[j].error = e
      /\ job'[j].answer = 0 /\ job'[j].usage = 0
      /\ job'[j].row = 0 /\ job'[j].run = 0
  BY <1>1, <1>2, FreshFields
<1>4. ~(restarts' = 0 /\ HasRun(j)')
  BY DEF JobInv, Left, Committed, Ending
<1> QED
  BY <1>3, <1>4
     DEF JobInv, Typed, Stored, Left, Counted, Unstored, Onward, Storing,
         Committed

LEMMA PersistedIsFine ==
    ASSUME NEW j \in Jobs, JobInv(j), Onward, NEW i \in 0..clock',
           i # 0 => RepoIdTarget \in MappedTables,
           \/ i # 0 \/ faults' # 0 \/ RepoIdTarget \notin MappedTables
           \/ job[j].rag /\ ~repo',
           job'[j] = [Fresh("telling", job[j].rag) EXCEPT !.run = i]
    PROVE  JobInv(j)'
<1>1. job[j].rag \in BOOLEAN /\ i \in Nat
  BY DEF JobInv, Typed, Job, Onward
<1>2. "telling" \in Waiting \cup Running
  BY DEF Running
<1>3. /\ job'[j] \in Job /\ job'[j].stage = "telling"
      /\ job'[j].rag = job[j].rag /\ job'[j].error = "none"
      /\ job'[j].answer = 0 /\ job'[j].usage = 0
      /\ job'[j].row = 0 /\ job'[j].run = i
  BY <1>1, <1>2, FreshFields
<1> QED
  BY <1>3
     DEF JobInv, Typed, Stored, Left, Counted, Unstored, Onward, Storing,
         Committed, Ending

LEMMA QueuedIsFine ==
    ASSUME NEW j \in Jobs, Onward, NEW rag \in BOOLEAN,
           ~(restarts' = 0 /\ HasRun(j)'),
           job'[j] = Fresh("queued", rag)
    PROVE  JobInv(j)'
<1>1. "queued" \in Waiting \cup Running
  BY DEF Waiting
<1>2. job'[j] \in Job
  BY <1>1, FreshFields
<1>3. /\ job'[j].stage = "queued"
      /\ job'[j].answer = 0 /\ job'[j].usage = 0
      /\ job'[j].row = 0 /\ job'[j].run = 0
  BY DEF Fresh
<1> QED
  BY <1>2, <1>3
     DEF JobInv, Typed, Stored, Left, Counted, Unstored, Onward, Storing,
         Committed, Ending

(* A job that goes on to another stage with the same run, error and       *)
(* answer.                                                                *)
LEMMA MovedIsFine ==
    ASSUME NEW j \in Jobs, JobInv(j), Onward, job'[j] \in Job,
           job'[j].rag = job[j].rag, job'[j].run = job[j].run,
           job'[j].error = job[j].error, job'[j].answer = job[j].answer,
           \/ job'[j].usage = job[j].usage
           \/ job'[j].usage = usage /\ job[j].stage = "parsing",
           job'[j].row = job[j].row \/ job'[j].row \in 1..clock',
           job'[j].stage \in Storing => /\ job'[j].row # 0
                                        /\ RepoIdTarget \in MappedTables,
           job'[j].stage \in Ending => job[j].stage \in Ending,
           job'[j].stage # "parsing",
           (restarts' = 0 /\ HasRun(j)')
           => \/ job'[j].stage \in Committed
              \/ job'[j].stage \in Ending /\ restarts = 0 /\ HasRun(j),
           usage <= answers
    PROVE  JobInv(j)'
<1>1. /\ job[j].row \in Nat /\ job[j].run \in Nat
      /\ job[j].answer \in Nat /\ job[j].usage \in Nat
  BY DEF JobInv, Typed, Job
<1>2. Typed(j)'
  BY <1>1 DEF JobInv, Typed, Onward
<1>3. Stored(j)'
  BY DEF JobInv, Stored, Onward
<1>4. Left(j)'
  BY DEF JobInv, Left, Committed, Ending
<1>5. Counted(j)'
  BY <1>1 DEF JobInv, Counted
<1>6. Unstored(j)'
  BY DEF JobInv, Unstored
<1> QED BY <1>2, <1>3, <1>4, <1>5, <1>6 DEF JobInv

-----------------------------------------------------------------------------
(* A step that changes one job's record and nothing else.                 *)
LEMMA JobStepped ==
    ASSUME PipeInv, NEW j \in Jobs, NEW r, job' = [job EXCEPT ![j] = r],
           UNCHANGED <<repo, provider, history, told, bounds>>,
           (job'[j] = r /\ Onward /\ (HasRun(j)' <=> HasRun(j)))
           => JobInv(j)'
    PROVE  PipeInv'
<1>1. Onward
  BY DEF PipeInv, ProviderOK, HistoryOK, BoundsOK, Onward, provider, history,
         bounds
<1>2. \A q \in Jobs : HasRun(q)' <=> HasRun(q)
  BY DEF HasRun, history
<1>3. JobsOK'
  BY <1>1, <1>2, Replaced DEF PipeInv
<1>4. ProviderOK' /\ HistoryOK' /\ BoundsOK'
  BY DEF PipeInv, ProviderOK, HistoryOK, BoundsOK, Ids, provider, history,
         bounds
<1>5. repo' \in BOOLEAN /\ NothingIsStored'
  BY DEF PipeInv, NothingIsStored, history
<1> QED BY <1>3, <1>4, <1>5 DEF PipeInv

(* What the actions need of PipeInv.                                      *)
LEMMA PipeFacts ==
    ASSUME PipeInv, NEW j \in Jobs
    PROVE  /\ JobInv(j) /\ job[j] \in Job /\ job[j].rag \in BOOLEAN
           /\ job[j].row \in Nat /\ job[j].run \in Nat
           /\ job[j].answer \in Nat /\ job[j].usage \in Nat
           /\ usage \in Nat /\ answers \in Nat /\ clock \in Nat
           /\ usage <= answers
           /\ faults \in Nat /\ restarts \in Nat
           /\ MaxFaults \in Nat /\ MaxDeletes \in Nat
<1>1. JobInv(j) /\ job[j] \in Job
  BY DEF PipeInv, JobsOK, JobInv, Typed
<1>2. /\ job[j].rag \in BOOLEAN /\ job[j].row \in Nat /\ job[j].run \in Nat
      /\ job[j].answer \in Nat /\ job[j].usage \in Nat
  BY <1>1 DEF Job
<1>3. MaxFaults \in Nat /\ MaxDeletes \in Nat
  BY BoundsAssumption
<1> QED BY <1>1, <1>2, <1>3 DEF PipeInv, ProviderOK, HistoryOK, BoundsOK

(* The steps up to the chat.                                              *)
LEMMA RequestSteps ==
    ASSUME PipeInv, NEW j \in Jobs,
           PostReview(j) \/ StartJob(j) \/ Retrieve(j) \/ ChatFails(j)
    PROVE  PipeInv'
<1>0. /\ JobInv(j) /\ job[j] \in Job /\ job[j].rag \in BOOLEAN
      /\ usage <= answers /\ restarts \in Nat
  BY PipeFacts
<1>1. UNCHANGED <<repo, provider, history, told, bounds>>
  BY DEF PostReview, StartJob, Retrieve, ChatFails
<1>2. ASSUME NEW rag \in BOOLEAN, PostReview(j), Set(j, Fresh("queued", rag))
      PROVE  PipeInv'
  <2>1. ~(restarts = 0 /\ HasRun(j))
    BY <1>0, <1>2 DEF JobInv, Left, PostReview, At, Committed, Ending
  <2>2. (job'[j] = Fresh("queued", rag) /\ Onward
         /\ (HasRun(j)' <=> HasRun(j))) => JobInv(j)'
    BY <1>1, <2>1, QueuedIsFine DEF bounds
  <2> QED BY <1>1, <1>2, <2>2, JobStepped DEF Set
<1>3. ASSUME NEW e \in Errors \ {"none", "timeout"}, Fail(j, e),
             job[j].stage \in {"queued", "retrieving", "calling", "parsing"}
      PROVE  PipeInv'
  <2> DEFINE r == [Fresh("telling", job[j].rag) EXCEPT !.error = e]
  <2>1. (job'[j] = r /\ Onward /\ (HasRun(j)' <=> HasRun(j))) => JobInv(j)'
    BY <1>0, <1>1, <1>3, FailedIsFine DEF bounds
  <2>2. job' = [job EXCEPT ![j] = r]
    BY <1>3 DEF Fail, Set
  <2> QED BY <1>1, <2>1, <2>2, JobStepped
<1>4. ASSUME NEW s \in {"retrieving", "calling"}, Goto(j, s),
             job[j].stage \in {"queued", "retrieving"}
      PROVE  PipeInv'
  <2> DEFINE r == [job[j] EXCEPT !.stage = s]
  <2>1. /\ r \in Job /\ r.stage = s /\ r.rag = job[j].rag
        /\ r.run = job[j].run /\ r.error = job[j].error
        /\ r.answer = job[j].answer /\ r.usage = job[j].usage
        /\ r.row = job[j].row
    BY <1>0, <1>4 DEF Job, Running
  <2>2. ~(restarts = 0 /\ HasRun(j))
    BY <1>0, <1>4 DEF JobInv, Left, Committed, Ending
  <2>3. job' = [job EXCEPT ![j] = r]
    BY <1>4 DEF Goto
  <2> HIDE DEF r
  <2>4. (job'[j] = r /\ Onward /\ (HasRun(j)' <=> HasRun(j))) => JobInv(j)'
    <3>1. s \notin Storing \cup Ending /\ s # "parsing"
      BY DEF Storing, Committed, Ending
    <3> QED BY <1>0, <1>1, <2>1, <2>2, <3>1, MovedIsFine DEF bounds
  <2> QED BY <1>1, <2>3, <2>4, JobStepped
<1>5. CASE PostReview(j)
  BY <1>2, <1>5 DEF PostReview
<1>6. CASE StartJob(j)
  BY <1>3, <1>4, <1>6 DEF StartJob, At, Errors
<1>7. CASE Retrieve(j)
  BY <1>3, <1>4, <1>7 DEF Retrieve, At, Errors
<1>8. CASE ChatFails(j)
  BY <1>3, <1>8 DEF ChatFails, At, Errors
<1> QED BY <1>5, <1>6, <1>7, <1>8

(* The answer's usage is the latest there is, if it has one.              *)
LEMMA ChatAnswersStep ==
    ASSUME PipeInv, NEW j \in Jobs, ChatAnswers(j)
    PROVE  PipeInv'
<1>0. /\ JobInv(j) /\ job[j] \in Job /\ job[j].rag \in BOOLEAN
      /\ usage \in Nat /\ answers \in Nat /\ usage <= answers
      /\ restarts \in Nat
  BY PipeFacts
<1>1. /\ UNCHANGED <<repo, history, told, bounds>>
      /\ job[j].stage = "calling" /\ answers' = answers + 1
      /\ usage' = answers' \/ (~ReportsUsage /\ usage' = usage)
  BY ReportsUsageAssumption DEF ChatAnswers, At
<1>2. Onward
  BY <1>0, <1>1 DEF PipeInv, HistoryOK, BoundsOK, Onward, history, bounds
<1>3. \A q \in Jobs : HasRun(q)' <=> HasRun(q)
  BY <1>1 DEF HasRun, history
<1>4. ~(restarts' = 0 /\ HasRun(j)')
  BY <1>0, <1>1, <1>3 DEF JobInv, Left, Committed, Ending, bounds
<1>5. JobsOK'
  <2>1. ASSUME Set(j, [Fresh("parsing", job[j].rag) EXCEPT !.answer = answers'])
        PROVE  JobsOK'
    <3> DEFINE r == [Fresh("parsing", job[j].rag) EXCEPT !.answer = answers']
    <3>1. "parsing" \in Waiting \cup Running /\ answers' \in Nat
      BY <1>0, <1>1 DEF Running
    <3>2. /\ r \in Job /\ r.stage = "parsing" /\ r.error = "none"
          /\ r.answer = answers' /\ r.usage = 0 /\ r.row = 0 /\ r.run = 0
      BY <1>0, <3>1, FreshFields
    <3>3. job' = [job EXCEPT ![j] = r]
      BY <2>1 DEF Set
    <3> HIDE DEF r
    <3>4. job'[j] = r => JobInv(j)'
      BY <1>0, <1>1, <1>2, <1>4, <3>2
         DEF JobInv, Typed, Stored, Left, Counted, Unstored, Onward, Storing,
             Committed, Ending
    <3> QED BY <1>2, <1>3, <3>3, <3>4, Replaced DEF PipeInv
  <2>2. ASSUME Fail(j, "provider")
        PROVE  JobsOK'
    <3> DEFINE r == [Fresh("telling", job[j].rag) EXCEPT !.error = "provider"]
    <3>1. job' = [job EXCEPT ![j] = r]
      BY <2>2 DEF Fail, Set
    <3>2. job'[j] = r => JobInv(j)'
      BY <1>0, <1>1, <1>2, <1>3, FailedIsFine DEF Errors, bounds
    <3> QED BY <1>2, <1>3, <3>1, <3>2, Replaced DEF PipeInv
  <2> QED BY <2>1, <2>2 DEF ChatAnswers
<1>6. ProviderOK'
  BY <1>0, <1>1 DEF ProviderOK
<1>7. HistoryOK' /\ BoundsOK' /\ repo' \in BOOLEAN /\ NothingIsStored'
  BY <1>1 DEF PipeInv, HistoryOK, BoundsOK, NothingIsStored, Ids, history,
              bounds
<1> QED BY <1>5, <1>6, <1>7 DEF PipeInv

(* The usage that is read then is not an earlier answer's.                *)
LEMMA ParseAnswerStep ==
    ASSUME PipeInv, NEW j \in Jobs, ParseAnswer(j)
    PROVE  PipeInv'
<1>0. /\ JobInv(j) /\ job[j] \in Job /\ job[j].rag \in BOOLEAN
      /\ usage \in Nat /\ usage <= answers /\ restarts \in Nat
  BY PipeFacts
<1>1. /\ UNCHANGED <<repo, provider, history, told, bounds>>
      /\ job[j].stage = "parsing"
  BY DEF ParseAnswer, At
<1>2. ASSUME Fail(j, "malformed")
      PROVE  PipeInv'
  <2> DEFINE r == [Fresh("telling", job[j].rag) EXCEPT !.error = "malformed"]
  <2>1. (job'[j] = r /\ Onward /\ (HasRun(j)' <=> HasRun(j))) => JobInv(j)'
    BY <1>0, <1>1, FailedIsFine DEF Errors, bounds
  <2>2. job' = [job EXCEPT ![j] = r]
    BY <1>2 DEF Fail, Set
  <2> QED BY <1>1, <2>1, <2>2, JobStepped
<1>3. ASSUME job' = [job EXCEPT ![j].stage = "persisting", ![j].usage = usage]
      PROVE  PipeInv'
  <2> DEFINE r == [job[j] EXCEPT !.stage = "persisting", !.usage = usage]
  <2>1. /\ r \in Job /\ r.stage = "persisting" /\ r.rag = job[j].rag
        /\ r.run = job[j].run /\ r.error = job[j].error
        /\ r.answer = job[j].answer /\ r.usage = usage
        /\ r.row = job[j].row
    BY <1>0 DEF Job, Running
  <2>2. ~(restarts = 0 /\ HasRun(j))
    BY <1>0, <1>1 DEF JobInv, Left, Committed, Ending
  <2>3. job' = [job EXCEPT ![j] = r]
    BY <1>3
  <2> HIDE DEF r
  <2>4. (job'[j] = r /\ Onward /\ (HasRun(j)' <=> HasRun(j))) => JobInv(j)'
    BY <1>0, <1>1, <2>1, <2>2, MovedIsFine
       DEF bounds, Storing, Committed, Ending
  <2> QED BY <1>1, <2>3, <2>4, JobStepped
<1> QED BY <1>2, <1>3 DEF ParseAnswer

-----------------------------------------------------------------------------
(* _persist_run returns None after a fault, or without a usable foreign   *)
(* key.                                                                   *)
LEMMA PersistFailsStep ==
    ASSUME PipeInv, NEW j \in Jobs, PersistFails(j)
    PROVE  PipeInv'
<1>0. /\ JobInv(j) /\ faults \in Nat /\ restarts \in Nat /\ MaxFaults \in Nat
      /\ usage \in Nat /\ answers \in Nat /\ clock \in Nat
  BY PipeFacts
<1>1. /\ UNCHANGED <<repo, provider, history, told, restarts>>
      /\ faults' = faults + 1 /\ faults + restarts < MaxFaults
  BY DEF PersistFails, Fault
<1>2. Onward /\ faults' # 0
  BY <1>0, <1>1 DEF PipeInv, Onward, provider, history
<1>3. \A q \in Jobs : HasRun(q)' <=> HasRun(q)
  BY <1>1 DEF HasRun, history
<1>4. JobsOK'
  <2> DEFINE r == [Fresh("telling", job[j].rag) EXCEPT !.run = 0]
  <2>1. job' = [job EXCEPT ![j] = r]
    BY DEF PersistFails, Persisted, Set
  <2>2. job'[j] = r => JobInv(j)'
    <3>1. 0 \in 0..clock'
      BY <1>2 DEF Onward
    <3> QED BY <1>0, <1>2, <3>1, PersistedIsFine
  <2> QED BY <1>2, <1>3, <2>1, <2>2, Replaced DEF PipeInv
<1>5. ProviderOK' /\ HistoryOK' /\ repo' \in BOOLEAN /\ NothingIsStored'
  BY <1>1 DEF PipeInv, ProviderOK, HistoryOK, NothingIsStored, Ids, provider,
              history
<1>6. BoundsOK'
  BY <1>0, <1>1 DEF PipeInv, BoundsOK
<1> QED BY <1>4, <1>5, <1>6 DEF PipeInv

LEMMA InsertRunStep ==
    ASSUME PipeInv, NEW j \in Jobs, InsertRun(j)
    PROVE  PipeInv'
<1>0. /\ JobInv(j) /\ job[j] \in Job /\ job[j].rag \in BOOLEAN
      /\ usage \in Nat /\ answers \in Nat /\ usage <= answers
      /\ clock \in Nat /\ restarts \in Nat /\ faults \in Nat
  BY PipeFacts
<1>1. /\ UNCHANGED <<repo, provider, runs, deleted, told, bounds>>
      /\ job[j].stage = "persisting"
  BY DEF InsertRun, At
<1>2. \A q \in Jobs : HasRun(q)' <=> HasRun(q)
  BY <1>1 DEF HasRun
<1>3. ~(restarts' = 0 /\ HasRun(j)')
  BY <1>0, <1>1, <1>2 DEF JobInv, Left, Committed, Ending, bounds
<1>4. CASE ~ForeignKeyHolds(j)
  <2> DEFINE r == [Fresh("telling", job[j].rag) EXCEPT !.run = 0]
  <2>1. job' = [job EXCEPT ![j] = r] /\ UNCHANGED clock
    BY <1>4 DEF InsertRun, Persisted, Set
  <2>2. (job'[j] = r /\ Onward /\ (HasRun(j)' <=> HasRun(j))) => JobInv(j)'
    <3>1. 0 \in 0..clock'
      BY <1>0, <2>1
    <3>2. RepoIdTarget \notin MappedTables \/ (job[j].rag /\ ~repo')
      BY <1>0, <1>1, <1>4 DEF ForeignKeyHolds
    <3> QED BY <1>0, <3>1, <3>2, PersistedIsFine
  <2>3. UNCHANGED <<repo, provider, history, told, bounds>>
    BY <1>1, <2>1 DEF history
  <2> QED BY <2>1, <2>2, <2>3, JobStepped
<1>5. CASE ForeignKeyHolds(j)
  <2> DEFINE r == [job[j] EXCEPT !.stage = "inserted", !.row = clock']
  <2>1. clock' = clock + 1
        /\ job' = [job EXCEPT ![j].stage = "inserted", ![j].row = clock']
    BY <1>5 DEF InsertRun
  <2>2. job' = [job EXCEPT ![j] = r]
    BY <2>1
  <2>3. clock' \in Nat /\ clock' # 0
    BY <1>0, <2>1
  <2>4. /\ r \in Job /\ r.stage = "inserted" /\ r.rag = job[j].rag
        /\ r.run = job[j].run /\ r.error = job[j].error
        /\ r.answer = job[j].answer /\ r.usage = job[j].usage
        /\ r.row = clock'
    BY <1>0, <2>3 DEF Job, Running
  <2> HIDE DEF r
  <2>5. Onward
    BY <1>0, <1>1, <2>1 DEF PipeInv, Onward, provider, bounds
  <2>6. job'[j] = r => JobInv(j)'
    <3>1. RepoIdTarget \in MappedTables
      BY <1>5 DEF ForeignKeyHolds
    <3>2. clock' \in 1..clock'
      BY <2>3
    <3>3. "inserted" \notin Ending
      BY DEF Ending
    <3> QED BY <1>0, <1>3, <2>3, <2>4, <2>5, <3>1, <3>2, <3>3, MovedIsFine
  <2>7. JobsOK'
    BY <1>2, <2>2, <2>5, <2>6, Replaced DEF PipeInv
  <2>8. HistoryOK'
    BY <1>0, <1>1, <2>1 DEF PipeInv, HistoryOK, Ids
  <2>9. ProviderOK' /\ BoundsOK' /\ repo' \in BOOLEAN /\ NothingIsStored'
    BY <1>1 DEF PipeInv, ProviderOK, BoundsOK, NothingIsStored, provider,
                bounds
  <2> QED BY <2>7, <2>8, <2>9 DEF PipeInv
<1> QED BY <1>4, <1>5

LEMMA CommitRunStep ==
    ASSUME PipeInv, NEW j \in Jobs, CommitRun(j)
    PROVE  PipeInv'
<1>0. /\ JobInv(j) /\ job[j] \in Job
      /\ usage \in Nat /\ answers \in Nat /\ usage <= answers
      /\ clock \in Nat /\ restarts \in Nat /\ faults \in Nat
      /\ job[j].row \in Nat
  BY PipeFacts
<1>1. /\ UNCHANGED <<repo, provider, clock, deleted, told, bounds>>
      /\ job[j].stage = "inserted" /\ Goto(j, "counting")
      /\ runs' = runs \cup {[id |-> job[j].row, by |-> j]}
  BY DEF CommitRun, At
<1>2. /\ RepoIdTarget \in MappedTables
      /\ job[j].row # 0 /\ job[j].row <= clock
  BY <1>0, <1>1 DEF JobInv, Unstored, Typed, Storing
<1>3. Onward
  BY <1>0, <1>1 DEF PipeInv, Onward, provider, bounds
<1>4. \A q \in Jobs \ {j} : HasRun(q)' => HasRun(q)
  BY <1>1 DEF HasRun
<1>5. JobsOK'
  <2> DEFINE r == [job[j] EXCEPT !.stage = "counting"]
  <2>1. /\ r \in Job /\ r.stage = "counting" /\ r.rag = job[j].rag
        /\ r.run = job[j].run /\ r.error = job[j].error
        /\ r.answer = job[j].answer /\ r.usage = job[j].usage
        /\ r.row = job[j].row
    BY <1>0 DEF Job, Running
  <2>2. job' = [job EXCEPT ![j] = r]
    BY <1>1 DEF Goto
  <2> HIDE DEF r
  <2>3. job'[j] = r => JobInv(j)'
    BY <1>0, <1>2, <1>3, <2>1, MovedIsFine DEF Committed, Ending
  <2> QED BY <1>3, <1>4, <2>2, <2>3, Replaced DEF PipeInv
<1>6. HistoryOK'
  <2>1. [id |-> job[j].row, by |-> j] \in Run
    BY <1>0 DEF Run
  <2>2. Ids(runs') = Ids(runs) \cup {job[j].row}
    <3> DEFINE new == [id |-> job[j].row, by |-> j]
    <3>1. runs' = runs \cup {new} /\ new.id = job[j].row
      BY <1>1
    <3> HIDE DEF new
    <3> QED BY <3>1, Zenon DEF Ids
  <2>3. job[j].row \in 1..clock
    BY <1>0, <1>2
  <2>4. IsFiniteSet(runs')
    BY <1>1, FS_AddElement DEF PipeInv, HistoryOK
  <2> QED BY <1>1, <2>1, <2>2, <2>3, <2>4 DEF PipeInv, HistoryOK
<1>7. ProviderOK' /\ BoundsOK' /\ repo' \in BOOLEAN /\ NothingIsStored'
  BY <1>1, <1>2 DEF PipeInv, ProviderOK, BoundsOK, NothingIsStored, provider,
                    bounds
<1> QED BY <1>5, <1>6, <1>7 DEF PipeInv

(* prune_to_cap's count and its choice of rows.                           *)
LEMMA PruneDecides ==
    ASSUME PipeInv, NEW j \in Jobs, CountRuns(j) \/ PickRuns(j)
    PROVE  PipeInv'
<1>0. /\ JobInv(j) /\ job[j] \in Job /\ job[j].row \in Nat
      /\ usage <= answers /\ restarts \in Nat
  BY PipeFacts
<1>1. /\ UNCHANGED <<repo, provider, history, told, bounds>>
      /\ job[j].stage \in {"counting", "picking"}
  BY DEF CountRuns, PickRuns, At
<1>2. /\ RepoIdTarget \in MappedTables
      /\ job[j].row # 0 /\ job[j].row <= clock
  BY <1>0, <1>1 DEF JobInv, Unstored, Typed, Storing, Committed
<1>3. ASSUME NEW r \in Job, job' = [job EXCEPT ![j] = r],
             r.stage \in {"picking", "dropping"}, r.rag = job[j].rag,
             r.run = job[j].run, r.error = job[j].error,
             r.answer = job[j].answer, r.usage = job[j].usage,
             r.row = job[j].row
      PROVE  PipeInv'
  <2>1. (job'[j] = r /\ Onward /\ (HasRun(j)' <=> HasRun(j))) => JobInv(j)'
    BY <1>0, <1>2, <1>3, MovedIsFine DEF Committed, Ending
  <2> QED BY <1>1, <1>3, <2>1, JobStepped
<1>4. ASSUME Persisted(j, job[j].row)
      PROVE  PipeInv'
  <2> DEFINE r == [Fresh("telling", job[j].rag) EXCEPT !.run = job[j].row]
  <2>1. job' = [job EXCEPT ![j] = r]
    BY <1>4 DEF Persisted, Set
  <2>2. (job'[j] = r /\ Onward /\ (HasRun(j)' <=> HasRun(j))) => JobInv(j)'
    <3>1. job[j].row \in 0..clock'
      BY <1>0, <1>1, <1>2 DEF PipeInv, HistoryOK, history
    <3> QED BY <1>0, <1>2, <3>1, PersistedIsFine
  <2> QED BY <1>1, <2>1, <2>2, JobStepped
<1>5. CASE CountRuns(j)
  <2> DEFINE n == Excess(Cardinality(runs))
  <2>1. CASE n = 0
    BY <1>4, <1>5, <2>1 DEF CountRuns
  <2>2. CASE n # 0
    <3> DEFINE r == [job[j] EXCEPT !.stage = "picking", !.overflow = n]
    <3>1. job' = [job EXCEPT ![j].stage = "picking", ![j].overflow = n]
      BY <1>5, <2>2 DEF CountRuns
    <3>2. n \in Nat
      BY CapAssumption, FS_CardinalityType DEF Excess, PipeInv, HistoryOK
    <3> HIDE DEF n
    <3>3. /\ r \in Job /\ r.stage = "picking" /\ r.rag = job[j].rag
          /\ r.run = job[j].run /\ r.error = job[j].error
          /\ r.answer = job[j].answer /\ r.usage = job[j].usage
          /\ r.row = job[j].row
      BY <1>0, <3>2 DEF Job, Running
    <3>4. job' = [job EXCEPT ![j] = r]
      BY <3>1
    <3> HIDE DEF r
    <3> QED BY <1>3, <3>3, <3>4
  <2> QED BY <2>1, <2>2
<1>6. CASE PickRuns(j)
  <2> DEFINE d == Oldest(runs, job[j].overflow)
             r == [job[j] EXCEPT !.stage = "dropping", !.doomed = d]
  <2>1. job' = [job EXCEPT ![j].stage = "dropping", ![j].doomed = d]
    BY <1>6 DEF PickRuns
  <2>2. d \in SUBSET Nat
    BY DEF PipeInv, HistoryOK, Oldest
  <2> HIDE DEF d
  <2>3. /\ r \in Job /\ r.stage = "dropping" /\ r.rag = job[j].rag
        /\ r.run = job[j].run /\ r.error = job[j].error
        /\ r.answer = job[j].answer /\ r.usage = job[j].usage
        /\ r.row = job[j].row
    BY <1>0, <2>2 DEF Job, Running
  <2>4. job' = [job EXCEPT ![j] = r]
    BY <2>1
  <2> HIDE DEF r
  <2> QED BY <1>3, <2>3, <2>4
<1> QED BY <1>5, <1>6

(* The rows that go, by pruning or by a user, take nobody's run id away.  *)
LEMMA RowsGo ==
    ASSUME HistoryOK, NEW gone \in SUBSET runs, runs' = runs \ gone,
           clock' = clock, told' = told, deleted' \subseteq 1..clock
    PROVE  HistoryOK'
<1>1. IsFiniteSet(runs')
  BY FS_Subset DEF HistoryOK
<1>2. Ids(runs') \subseteq Ids(runs)
  BY DEF Ids
<1> QED BY <1>1, <1>2 DEF HistoryOK

LEMMA DropRunsStep ==
    ASSUME PipeInv, NEW j \in Jobs, DropRuns(j)
    PROVE  PipeInv'
<1>0. /\ JobInv(j) /\ job[j] \in Job /\ job[j].row \in Nat
      /\ usage \in Nat /\ answers \in Nat /\ clock \in Nat
      /\ restarts \in Nat /\ faults \in Nat
  BY PipeFacts
<1>1. /\ UNCHANGED <<repo, provider, clock, deleted, told, bounds>>
      /\ job[j].stage = "dropping"
      /\ runs' = {r \in runs : r.id \notin job[j].doomed}
  BY DEF DropRuns, At
<1>2. /\ RepoIdTarget \in MappedTables
      /\ job[j].row # 0 /\ job[j].row <= clock
  BY <1>0, <1>1 DEF JobInv, Unstored, Typed, Storing, Committed
<1>3. Onward
  BY <1>0, <1>1 DEF PipeInv, Onward, provider, bounds
<1>4. \A q \in Jobs : HasRun(q)' => HasRun(q)
  BY <1>1 DEF HasRun
<1>5. JobsOK'
  <2> DEFINE r == [Fresh("telling", job[j].rag) EXCEPT !.run = job[j].row]
  <2>1. job' = [job EXCEPT ![j] = r]
    BY DEF DropRuns, Persisted, Set
  <2>2. job'[j] = r => JobInv(j)'
    <3>1. job[j].row \in 0..clock'
      BY <1>0, <1>1, <1>2
    <3> QED BY <1>0, <1>2, <1>3, <3>1, PersistedIsFine
  <2> QED BY <1>3, <1>4, <2>1, <2>2, Replaced DEF PipeInv
<1>6. HistoryOK'
  <2> DEFINE gone == {r \in runs : r.id \in job[j].doomed}
  <2>1. gone \in SUBSET runs /\ runs' = runs \ gone
    BY <1>1
  <2> HIDE DEF gone
  <2> QED BY <1>1, <2>1, RowsGo DEF PipeInv, HistoryOK
<1>7. ProviderOK' /\ BoundsOK' /\ repo' \in BOOLEAN /\ NothingIsStored'
  BY <1>1 DEF PipeInv, ProviderOK, BoundsOK, NothingIsStored, provider,
              bounds
<1> QED BY <1>5, <1>6, <1>7 DEF PipeInv

-----------------------------------------------------------------------------
LEMMA TellBrowserStep ==
    ASSUME PipeInv, NEW j \in Jobs, TellBrowser(j)
    PROVE  PipeInv'
<1>0. /\ JobInv(j) /\ job[j] \in Job /\ job[j].run \in Nat
      /\ usage \in Nat /\ answers \in Nat /\ clock \in Nat
      /\ usage <= answers
      /\ restarts \in Nat /\ faults \in Nat /\ MaxFaults \in Nat
  BY PipeFacts
<1>1. /\ UNCHANGED <<repo, provider, history, restarts>>
      /\ job[j].stage = "telling" /\ Goto(j, "returning")
  BY DEF TellBrowser, At, Fault, bounds
<1>2. \/ faults' = faults
      \/ faults' = faults + 1 /\ faults + restarts < MaxFaults
  BY DEF TellBrowser, Fault, bounds
<1>3. told' \subseteq told \cup ({job[j].run} \ {0})
  BY DEF TellBrowser
<1>4. Onward
  BY <1>0, <1>1, <1>2 DEF PipeInv, Onward, provider, history
<1>5. \A q \in Jobs : HasRun(q)' <=> HasRun(q)
  BY <1>1 DEF HasRun, history
<1>6. JobsOK'
  <2> DEFINE r == [job[j] EXCEPT !.stage = "returning"]
  <2>1. /\ r \in Job /\ r.stage = "returning" /\ r.rag = job[j].rag
        /\ r.run = job[j].run /\ r.error = job[j].error
        /\ r.answer = job[j].answer /\ r.usage = job[j].usage
        /\ r.row = job[j].row
    BY <1>0 DEF Job, Running
  <2>2. job' = [job EXCEPT ![j] = r]
    BY <1>1 DEF Goto
  <2> HIDE DEF r
  <2>3. job'[j] = r => JobInv(j)'
    BY <1>0, <1>1, <1>4, <1>5, <2>1, MovedIsFine
       DEF Ending, Storing, Committed
  <2> QED BY <1>4, <1>5, <2>2, <2>3, Replaced DEF PipeInv
<1>7. HistoryOK'
  <2>1. job[j].run <= clock
    BY <1>0 DEF JobInv, Typed
  <2>2. told' \subseteq 1..clock
    BY <1>0, <1>3, <2>1 DEF PipeInv, HistoryOK
  <2> QED BY <1>1, <2>2 DEF PipeInv, HistoryOK, Ids, history
<1>8. NothingIsStored'
  BY <1>0, <1>1, <1>3
     DEF PipeInv, NothingIsStored, JobInv, Unstored, history
<1>9. ProviderOK' /\ BoundsOK' /\ repo' \in BOOLEAN
  BY <1>0, <1>1, <1>2 DEF PipeInv, ProviderOK, BoundsOK, provider
<1> QED BY <1>6, <1>7, <1>8, <1>9 DEF PipeInv

LEMMA FinishJobStep ==
    ASSUME PipeInv, NEW j \in Jobs, FinishJob(j)
    PROVE  PipeInv'
<1>0. /\ JobInv(j) /\ job[j] \in Job /\ usage <= answers /\ restarts \in Nat
  BY PipeFacts
<1>1. /\ UNCHANGED <<repo, provider, history, told, bounds>>
      /\ job[j].stage = "returning" /\ Goto(j, "done")
  BY DEF FinishJob, At
<1> DEFINE r == [job[j] EXCEPT !.stage = "done"]
<1>2. /\ r \in Job /\ r.stage = "done" /\ r.rag = job[j].rag
      /\ r.run = job[j].run /\ r.error = job[j].error
      /\ r.answer = job[j].answer /\ r.usage = job[j].usage
      /\ r.row = job[j].row
  BY <1>0 DEF Job, Waiting
<1>3. job' = [job EXCEPT ![j] = r]
  BY <1>1 DEF Goto
<1> HIDE DEF r
<1>4. (job'[j] = r /\ Onward /\ (HasRun(j)' <=> HasRun(j))) => JobInv(j)'
  BY <1>0, <1>1, <1>2, MovedIsFine DEF bounds, Ending, Storing, Committed
<1> QED BY <1>1, <1>3, <1>4, JobStepped

LEMMA JobTimesOutStep ==
    ASSUME PipeInv, NEW j \in Jobs, JobTimesOut(j)
    PROVE  PipeInv'
<1>0. /\ JobInv(j) /\ job[j].rag \in BOOLEAN
      /\ usage \in Nat /\ answers \in Nat /\ clock \in Nat
      /\ restarts \in Nat /\ faults \in Nat /\ MaxFaults \in Nat
  BY PipeFacts
<1>1. /\ UNCHANGED <<repo, provider, history, told, restarts>>
      /\ faults' = faults + 1 /\ faults + restarts < MaxFaults
  BY DEF JobTimesOut, Fault
<1>2. Onward
  BY <1>0, <1>1 DEF PipeInv, Onward, provider, history
<1>3. \A q \in Jobs : HasRun(q)' <=> HasRun(q)
  BY <1>1 DEF HasRun, history
<1>4. JobsOK'
  <2> DEFINE r == [Fresh("done", job[j].rag) EXCEPT !.error = "timeout"]
  <2>1. job' = [job EXCEPT ![j] = r]
    BY DEF JobTimesOut, Set
  <2>2. "done" \in Waiting \cup Running /\ "timeout" \in Errors
    BY DEF Waiting, Errors
  <2>3. /\ r \in Job /\ r.stage = "done" /\ r.error = "timeout"
        /\ r.answer = 0 /\ r.usage = 0 /\ r.row = 0 /\ r.run = 0
    BY <1>0, <2>2, FreshFields
  <2> HIDE DEF r
  <2>4. job'[j] = r => JobInv(j)'
    BY <1>2, <2>3
       DEF JobInv, Typed, Stored, Left, Counted, Unstored, Onward, Storing,
           Committed, Ending
  <2> QED BY <1>2, <1>3, <2>1, <2>4, Replaced DEF PipeInv
<1>5. ProviderOK' /\ HistoryOK' /\ repo' \in BOOLEAN /\ NothingIsStored'
  BY <1>1 DEF PipeInv, ProviderOK, HistoryOK, NothingIsStored, Ids, provider,
              history
<1>6. BoundsOK'
  BY <1>0, <1>1 DEF PipeInv, BoundsOK
<1> QED BY <1>4, <1>5, <1>6 DEF PipeInv

(* A restarted job starts over, and what it left behind is excused; the   *)
(* others only lose a provider's memory that none of them is about to read. *)
LEMMA RestartWorkerStep ==
    ASSUME PipeInv, RestartWorker
    PROVE  PipeInv'
<1>1. /\ UNCHANGED <<repo, answers, history, told, faults>>
      /\ restarts' = restarts + 1 /\ faults + restarts < MaxFaults
      /\ job' = [j \in Jobs |-> AfterRestart(j)] /\ usage' = 0
  BY DEF RestartWorker
<1>2. /\ restarts \in Nat /\ faults \in Nat /\ MaxFaults \in Nat
      /\ answers \in Nat /\ clock \in Nat
  BY BoundsAssumption DEF PipeInv, BoundsOK, ProviderOK, HistoryOK
<1>3. restarts' # 0
  BY <1>1, <1>2
<1>4. ASSUME NEW j \in Jobs
      PROVE  JobInv(j)'
  <2>1. JobInv(j) /\ job[j].rag \in BOOLEAN /\ job'[j] = AfterRestart(j)
    BY <1>1, PipeFacts
  <2>2. CASE job[j].stage \in Running
    <3>1. job'[j] = Fresh("queued", job[j].rag)
      BY <2>1, <2>2 DEF AfterRestart
    <3>2. "queued" \in Waiting \cup Running
      BY DEF Waiting
    <3>3. job'[j] \in Job
      BY <2>1, <3>1, <3>2, FreshFields
    <3>4. /\ job'[j].stage = "queued"
          /\ job'[j].answer = 0 /\ job'[j].usage = 0
          /\ job'[j].row = 0 /\ job'[j].run = 0
      BY <3>1 DEF Fresh
    <3> QED
      BY <1>1, <1>2, <1>3, <3>3, <3>4
         DEF JobInv, Typed, Stored, Left, Counted, Unstored, Storing,
             Committed, Ending, history
  <2>3. CASE job[j].stage \notin Running
    <3>1. job'[j] = job[j]
      BY <2>1, <2>3 DEF AfterRestart
    <3>2. job[j].stage # "parsing"
      BY <2>3 DEF Running
    <3> QED
      BY <1>1, <1>3, <2>1, <3>1, <3>2
         DEF JobInv, Typed, Stored, Left, Counted, Unstored, history
  <2> QED BY <2>2, <2>3
<1>5. JobsOK'
  <2>1. job' = [j \in Jobs |-> job'[j]]
    BY <1>1
  <2> QED BY <1>4, <2>1 DEF JobsOK
<1>6. ProviderOK' /\ BoundsOK'
  BY <1>1, <1>2 DEF PipeInv, ProviderOK, BoundsOK
<1>7. HistoryOK' /\ repo' \in BOOLEAN /\ NothingIsStored'
  BY <1>1 DEF PipeInv, HistoryOK, NothingIsStored, Ids, history
<1> QED BY <1>5, <1>6, <1>7 DEF PipeInv

(* Users only take away.                                                  *)
LEMMA UserSteps ==
    ASSUME PipeInv, DeleteRepo \/ DeleteRun
    PROVE  PipeInv'
<1>1. UNCHANGED <<job, provider, clock, told, bounds>>
  BY DEF DeleteRepo, DeleteRun, history
<1>2. (repo' => repo) /\ repo' \in BOOLEAN
  <2>1. repo' = FALSE \/ repo' = repo
    BY DEF DeleteRepo, DeleteRun
  <2>2. repo = TRUE \/ repo = FALSE
    BY DEF PipeInv
  <2>3. CASE repo' = FALSE
    BY <2>3
  <2>4. CASE repo' = repo
    BY <2>2, <2>4
  <2> QED BY <2>1, <2>3, <2>4
<1>3. PICK gone \in SUBSET runs : runs' = runs \ gone
  <2>1. CASE DeleteRepo
    <3>1. {} \in SUBSET runs /\ runs' = runs \ {}
      BY <2>1 DEF DeleteRepo, history
    <3> QED BY <3>1
  <2>2. CASE DeleteRun
    BY <2>2 DEF DeleteRun
  <2> QED BY <2>1, <2>2
<1>4. deleted' \subseteq 1..clock
  <2>1. CASE DeleteRepo
    BY <2>1 DEF DeleteRepo, history, PipeInv, HistoryOK
  <2>2. CASE DeleteRun
    <3>1. PICK r \in runs : deleted' = deleted \cup {r.id}
      BY <2>2 DEF DeleteRun
    <3>2. r.id \in 1..clock
      BY DEF PipeInv, HistoryOK, Ids
    <3> QED BY <3>1, <3>2 DEF PipeInv, HistoryOK
  <2> QED BY <2>1, <2>2
<1>5. HistoryOK'
  BY <1>1, <1>3, <1>4, RowsGo DEF PipeInv
<1>6. Onward
  BY <1>1, <1>2, BoundsAssumption
     DEF PipeInv, ProviderOK, HistoryOK, BoundsOK, Onward, provider, bounds
<1>7. \A q \in Jobs : HasRun(q)' => HasRun(q)
  BY <1>3 DEF HasRun
<1>8. JobsOK'
  BY <1>1, <1>6, <1>7, Frame DEF PipeInv, JobsOK
<1>9. ProviderOK' /\ BoundsOK' /\ NothingIsStored'
  BY <1>1, <1>3 DEF PipeInv, ProviderOK, BoundsOK, NothingIsStored, provider,
                    bounds
<1> QED BY <1>2, <1>5, <1>8, <1>9 DEF PipeInv

-----------------------------------------------------------------------------
LEMMA InitPipeInv ==
    ASSUME Init
    PROVE  PipeInv
<1>1. JobsOK
  <2>1. "idle" \in Waiting \cup Running /\ FALSE \in BOOLEAN
    BY DEF Waiting
  <2>2. Fresh("idle", FALSE) \in Job
    BY <2>1, FreshFields
  <2>3. ASSUME NEW j \in Jobs
        PROVE  JobInv(j)
    <3>1. job[j] = Fresh("idle", FALSE)
      BY DEF Init
    <3>2. /\ job[j].stage = "idle" /\ job[j].answer = 0 /\ job[j].usage = 0
          /\ job[j].row = 0 /\ job[j].run = 0
      BY <3>1 DEF Fresh
    <3>3. ~HasRun(j)
      BY JobsAssumption DEF Init, HasRun
    <3>4. clock \in Nat /\ answers = 0
      BY CapAssumption DEF Init
    <3>5. job[j] \in Job
      BY <2>2, <3>1
    <3>6. job[j].stage \notin Storing \cup Ending
      BY <3>2 DEF Storing, Committed, Ending
    <3> QED
      BY <3>2, <3>3, <3>4, <3>5, <3>6
         DEF JobInv, Typed, Stored, Left, Counted, Unstored
  <2> QED BY <2>3 DEF JobsOK, Init
<1>2. HistoryOK
  <2> DEFINE f == [i \in 1..Cap |-> [id |-> i, by |-> "earlier"]]
  <2>1. f \in Surjection(1..Cap, runs)
    BY DEF Surjection, Init
  <2>2. IsFiniteSet(1..Cap)
    BY CapAssumption, FS_Interval
  <2>3. IsFiniteSet(runs)
    BY <2>1, <2>2, FS_Surjection
  <2>4. runs \subseteq Run /\ Ids(runs) \subseteq 1..clock
    BY CapAssumption DEF Init, Run, Ids
  <2> QED BY <2>3, <2>4, CapAssumption DEF HistoryOK, Init
<1>3. ProviderOK /\ BoundsOK /\ repo \in BOOLEAN /\ NothingIsStored
  BY BoundsAssumption DEF Init, ProviderOK, BoundsOK, NothingIsStored
<1> QED BY <1>1, <1>2, <1>3 DEF PipeInv

LEMMA NextPipeInv ==
    ASSUME PipeInv, [Next]_vars
    PROVE  PipeInv'
<1>1. ASSUME NEW j \in Jobs,
             PostReview(j) \/ JobStep(j) \/ PersistFails(j) \/ JobTimesOut(j)
      PROVE  PipeInv'
  <2>1. CASE PostReview(j) \/ StartJob(j) \/ Retrieve(j) \/ ChatFails(j)
    BY <2>1, RequestSteps
  <2>2. CASE ChatAnswers(j)
    BY <2>2, ChatAnswersStep
  <2>3. CASE ParseAnswer(j)
    BY <2>3, ParseAnswerStep
  <2>4. CASE InsertRun(j)
    BY <2>4, InsertRunStep
  <2>5. CASE CommitRun(j)
    BY <2>5, CommitRunStep
  <2>6. CASE CountRuns(j) \/ PickRuns(j)
    BY <2>6, PruneDecides
  <2>7. CASE DropRuns(j)
    BY <2>7, DropRunsStep
  <2>8. CASE PersistFails(j)
    BY <2>8, PersistFailsStep
  <2>9. CASE TellBrowser(j)
    BY <2>9, TellBrowserStep
  <2>10. CASE FinishJob(j)
    BY <2>10, FinishJobStep
  <2>11. CASE JobTimesOut(j)
    BY <2>11, JobTimesOutStep
  <2> QED
    BY <1>1, <2>1, <2>2, <2>3, <2>4, <2>5, <2>6, <2>7, <2>8, <2>9, <2>10,
       <2>11 DEF JobStep, Persist
<1>2. CASE RestartWorker
  BY <1>2, RestartWorkerStep
<1>3. CASE DeleteRepo \/ DeleteRun
  BY <1>3, UserSteps
<1>4. CASE UNCHANGED vars
  <2>1. /\ UNCHANGED <<job, repo, usage, answers, runs, clock, told, deleted>>
        /\ UNCHANGED <<faults, restarts>>
    BY <1>4 DEF vars
  <2>2. Onward /\ \A q \in Jobs : HasRun(q)' => HasRun(q)
    BY <2>1, BoundsAssumption
       DEF PipeInv, ProviderOK, HistoryOK, BoundsOK, Onward, HasRun
  <2>3. JobsOK'
    BY <2>1, <2>2, Frame DEF PipeInv, JobsOK
  <2> QED BY <2>1, <2>3 DEF PipeInv, ProviderOK, HistoryOK, BoundsOK,
                            NothingIsStored, Ids
<1> QED BY <1>1, <1>2, <1>3, <1>4 DEF Next

(* The inductive invariant.                                               *)
THEOREM PipeInvHolds == Spec => []PipeInv
BY InitPipeInv, NextPipeInv, PTL DEF Spec

(* Every variable keeps its type.                                         *)
THEOREM TypeCorrect == Spec => []TypeOK
<1>1. PipeInv => TypeOK
  BY DEF PipeInv, JobsOK, JobInv, Typed, ProviderOK, HistoryOK, BoundsOK,
         TypeOK
<1> QED BY <1>1, PipeInvHolds, PTL

(* FR-001 of feature 009, which this commit's foreign key breaks: it is   *)
(* the only cause.  A review that ended well, without a run, although the *)
(* database never failed and its repository is there, means that          *)
(* RepoIdTarget names no mapped table; and then no review at all has a    *)
(* run.                                                                   *)
THEOREM LostOnlyByTheForeignKey ==
    Spec => [](~SuccessIsStored
               => /\ RepoIdTarget \notin MappedTables
                  /\ \A r \in runs : r.by = "earlier"
                  /\ \A j \in Jobs : job[j].run = 0)
<1>1. PipeInv /\ ~SuccessIsStored => RepoIdTarget \notin MappedTables
  BY DEF PipeInv, JobsOK, JobInv, Stored, SuccessIsStored, Ending
<1>2. PipeInv /\ RepoIdTarget \notin MappedTables
      => /\ \A r \in runs : r.by = "earlier"
         /\ \A j \in Jobs : job[j].run = 0
  BY DEF PipeInv, NothingIsStored, JobsOK, JobInv, Unstored
<1>3. PipeInv => (~SuccessIsStored
                  => /\ RepoIdTarget \notin MappedTables
                     /\ \A r \in runs : r.by = "earlier"
                     /\ \A j \in Jobs : job[j].run = 0)
  BY <1>1, <1>2
<1> QED BY <1>3, PipeInvHolds, PTL

(* The pipeline as this commit has it: nothing is stored, and no browser  *)
(* ever gets a run id, whatever the reviews, the users and the worker     *)
(* do.                                                                    *)
THEOREM NeverStored ==
    RepoIdTarget \notin MappedTables
    => (Spec => [](told = {} /\ \A r \in runs : r.by = "earlier"))
<1> SUFFICES ASSUME RepoIdTarget \notin MappedTables
             PROVE  Spec => [](told = {} /\ \A r \in runs : r.by = "earlier")
  OBVIOUS
<1>1. PipeInv => told = {} /\ \A r \in runs : r.by = "earlier"
  BY DEF PipeInv, NothingIsStored
<1> QED BY <1>1, PipeInvHolds, PTL

(* FR-004: a review that fails before it has findings leaves no run.      *)
THEOREM FailureIsClean == Spec => []FailureLeavesNoRun
<1>1. PipeInv => FailureLeavesNoRun
  BY DEF PipeInv, JobsOK, JobInv, Left, HasRun, FailureLeavesNoRun, Committed
<1> QED BY <1>1, PipeInvHolds, PTL

(* FR-011 of feature 012: as long as every answer carries usage, the      *)
(* usage that a review reports is not that of an earlier answer than its  *)
(* own, however many reviews share the provider.                          *)
THEOREM UsageIsNotStale == ReportsUsage => (Spec => []NoEarlierUsage)
<1> SUFFICES ASSUME ReportsUsage
             PROVE  Spec => []NoEarlierUsage
  OBVIOUS
<1>1. PipeInv => NoEarlierUsage
  BY DEF PipeInv, JobsOK, JobInv, Counted, NoEarlierUsage
<1> QED BY <1>1, PipeInvHolds, PTL

-----------------------------------------------------------------------------
(* The history of runs. The stages that a job only reaches before its     *)
(* commit.                                                                *)
Before == {"idle", "queued", "retrieving", "calling", "parsing",
           "persisting", "inserted"}

(* A job that leaves the database alone: if it was storing a run,         *)
(* something failed.                                                      *)
Leaves(j) ==
    /\ job'[j].stage \notin Storing
    /\ job'[j].run \in {0, job[j].run}
    /\ job[j].stage \in Storing => faults' # 0 \/ restarts' # 0

(* A step that the history does not notice.                               *)
Calm ==
    /\ UNCHANGED history
    /\ told' \subseteq told \cup {job[j].run : j \in Jobs}
    /\ \A j \in Jobs : job'[j] = job[j] \/ Leaves(j)
    /\ \/ \A j \in Jobs : job'[j].stage \in Before => job[j].stage \in Before
       \/ \A j \in Jobs : job'[j].stage \notin Storing

(* The steps that a job takes in the database when nothing fails.         *)
Stores(j) == \/ InsertRun(j) /\ ForeignKeyHolds(j)
             \/ CommitRun(j) \/ CountRuns(j) \/ PickRuns(j) \/ DropRuns(j)

(* One record changes.                                                    *)
LEMMA SetStep ==
    ASSUME PipeInv, NEW j \in Jobs, NEW r, job' = [job EXCEPT ![j] = r]
    PROVE  /\ job'[j] = r
           /\ \A q \in Jobs \ {j} : job'[q] = job[q]
BY DEF PipeInv, JobsOK

(* The stage and the run of a record that starts over.                    *)
LEMMA FreshRuns ==
    ASSUME NEW s, NEW rag
    PROVE  /\ Fresh(s, rag).stage = s /\ Fresh(s, rag).run = 0
           /\ \A e : LET r == [Fresh(s, rag) EXCEPT !.error = e]
                     IN  r.stage = s /\ r.run = 0
           /\ \A a : LET r == [Fresh(s, rag) EXCEPT !.answer = a]
                     IN  r.stage = s /\ r.run = 0
           /\ \A i : LET r == [Fresh(s, rag) EXCEPT !.run = i]
                     IN  r.stage = s /\ r.run = i
BY DEF Fresh

LEMMA OneLeaves ==
    ASSUME PipeInv, NEW j \in Jobs, NEW r, job' = [job EXCEPT ![j] = r],
           UNCHANGED history,
           told' \subseteq told \cup {job[q].run : q \in Jobs},
           r.stage \notin Storing, r.run \in {0, job[j].run},
           job[j].stage \in Storing => faults' # 0 \/ restarts' # 0,
           r.stage \in Before => job[j].stage \in Before
    PROVE  Calm
<1>1. job'[j] = r /\ \A q \in Jobs \ {j} : job'[q] = job[q]
  BY SetStep
<1>2. \A q \in Jobs : job'[q] = job[q] \/ Leaves(q)
  BY <1>1 DEF Leaves
<1>3. \A q \in Jobs : job'[q].stage \in Before => job[q].stage \in Before
  BY <1>1
<1> QED BY <1>2, <1>3 DEF Calm

(* A job that starts over or fails, and one that goes on.                 *)
LEMMA FreshLeaves ==
    ASSUME PipeInv, NEW j \in Jobs, UNCHANGED history, told' = told,
           job[j].stage \notin Storing \/ faults' # 0 \/ restarts' # 0,
           NEW s \in {"queued", "parsing", "telling", "done"}, NEW rag,
           s \in Before => job[j].stage \in Before,
           \/ Set(j, Fresh(s, rag))
           \/ \E e : Set(j, [Fresh(s, rag) EXCEPT !.error = e])
           \/ \E a : Set(j, [Fresh(s, rag) EXCEPT !.answer = a])
           \/ Set(j, [Fresh(s, rag) EXCEPT !.run = 0])
    PROVE  Calm
<1>1. \E r : job' = [job EXCEPT ![j] = r] /\ r.stage = s /\ r.run = 0
  <2>1. CASE Set(j, Fresh(s, rag))
    <3>1. Set(j, Fresh(s, rag))
      BY <2>1
    <3> DEFINE r == Fresh(s, rag)
    <3>2. job' = [job EXCEPT ![j] = r]
      BY <3>1 DEF Set
    <3>3. r.stage = s /\ r.run = 0
      BY FreshRuns
    <3> HIDE DEF r
    <3> QED BY <3>2, <3>3
  <2>2. CASE \E e : Set(j, [Fresh(s, rag) EXCEPT !.error = e])
    <3>1. PICK e : Set(j, [Fresh(s, rag) EXCEPT !.error = e])
      BY <2>2
    <3> DEFINE r == [Fresh(s, rag) EXCEPT !.error = e]
    <3>2. job' = [job EXCEPT ![j] = r]
      BY <3>1 DEF Set
    <3>3. r.stage = s /\ r.run = 0
      BY FreshRuns
    <3> HIDE DEF r
    <3> QED BY <3>2, <3>3
  <2>3. CASE \E a : Set(j, [Fresh(s, rag) EXCEPT !.answer = a])
    <3>1. PICK a : Set(j, [Fresh(s, rag) EXCEPT !.answer = a])
      BY <2>3
    <3> DEFINE r == [Fresh(s, rag) EXCEPT !.answer = a]
    <3>2. job' = [job EXCEPT ![j] = r]
      BY <3>1 DEF Set
    <3>3. r.stage = s /\ r.run = 0
      BY FreshRuns
    <3> HIDE DEF r
    <3> QED BY <3>2, <3>3
  <2>4. CASE Set(j, [Fresh(s, rag) EXCEPT !.run = 0])
    <3>1. Set(j, [Fresh(s, rag) EXCEPT !.run = 0])
      BY <2>4
    <3> DEFINE r == [Fresh(s, rag) EXCEPT !.run = 0]
    <3>2. job' = [job EXCEPT ![j] = r]
      BY <3>1 DEF Set
    <3>3. r.stage = s /\ r.run = 0
      BY FreshRuns
    <3> HIDE DEF r
    <3> QED BY <3>2, <3>3
  <2> QED BY <2>1, <2>2, <2>3, <2>4
<1>2. s \notin Storing
  BY DEF Storing, Committed
<1>3. PICK r : job' = [job EXCEPT ![j] = r] /\ r.stage = s /\ r.run = 0
  BY <1>1
<1> QED BY <1>2, <1>3, OneLeaves

LEMMA GoesOn ==
    ASSUME PipeInv, NEW j \in Jobs, UNCHANGED history,
           told' \subseteq told \cup {job[q].run : q \in Jobs},
           job[j].stage \notin Storing,
           NEW s \in {"retrieving", "calling", "persisting", "returning", "done"},
           s \in Before => job[j].stage \in Before,
           \/ Goto(j, s)
           \/ \E u : job' = [job EXCEPT ![j].stage = s, ![j].usage = u]
    PROVE  Calm
<1>1. job[j] \in Job
  BY PipeFacts
<1>2. \E r : job' = [job EXCEPT ![j] = r] /\ r.stage = s /\ r.run = job[j].run
  <2>1. CASE Goto(j, s)
    <3> DEFINE r == [job[j] EXCEPT !.stage = s]
    <3>1. job' = [job EXCEPT ![j] = r] /\ r.stage = s /\ r.run = job[j].run
      BY <1>1, <2>1 DEF Goto, Job
    <3> QED BY <3>1
  <2>2. CASE \E u : job' = [job EXCEPT ![j].stage = s, ![j].usage = u]
    <3>1. PICK u : job' = [job EXCEPT ![j].stage = s, ![j].usage = u]
      BY <2>2
    <3> DEFINE r == [job[j] EXCEPT !.stage = s, !.usage = u]
    <3>2. job' = [job EXCEPT ![j] = r] /\ r.stage = s /\ r.run = job[j].run
      BY <1>1, <3>1 DEF Job
    <3> QED BY <3>2
  <2> QED BY <2>1, <2>2
<1>3. s \notin Storing
  BY DEF Storing, Committed
<1> QED BY <1>2, <1>3, OneLeaves

LEMMA RequestsAreCalm ==
    ASSUME PipeInv, NEW j \in Jobs,
           \/ PostReview(j) \/ StartJob(j) \/ Retrieve(j) \/ ChatAnswers(j)
           \/ ChatFails(j) \/ ParseAnswer(j)
    PROVE  Calm
<1>1. UNCHANGED history /\ told' = told
  BY DEF PostReview, StartJob, Retrieve, ChatAnswers, ChatFails, ParseAnswer,
         history
<1>2. /\ job[j].stage \in {"idle", "queued", "retrieving", "calling", "parsing"}
      /\ job[j].stage \in Before /\ job[j].stage \notin Storing
  BY DEF PostReview, StartJob, Retrieve, ChatAnswers, ChatFails, ParseAnswer,
         At, Before, Storing, Committed
<1>3. \A e : Fail(j, e) => Calm
  BY <1>1, <1>2, FreshLeaves DEF Fail
<1>4. Goto(j, "retrieving") \/ Goto(j, "calling") => Calm
  BY <1>1, <1>2, GoesOn
<1>5. CASE PostReview(j)
  BY <1>1, <1>2, <1>5, FreshLeaves DEF PostReview
<1>6. CASE StartJob(j)
  BY <1>3, <1>4, <1>6 DEF StartJob
<1>7. CASE Retrieve(j)
  BY <1>3, <1>4, <1>7 DEF Retrieve
<1>8. CASE ChatAnswers(j)
  BY <1>1, <1>2, <1>3, <1>8, FreshLeaves DEF ChatAnswers
<1>9. CASE ChatFails(j)
  BY <1>3, <1>9 DEF ChatFails
<1>10. CASE ParseAnswer(j)
  BY <1>1, <1>2, <1>3, <1>10, GoesOn DEF ParseAnswer
<1> QED BY <1>5, <1>6, <1>7, <1>8, <1>9, <1>10

LEMMA EndingsAreCalm ==
    ASSUME PipeInv, NEW j \in Jobs,
           \/ TellBrowser(j) \/ FinishJob(j) \/ PersistFails(j) \/ JobTimesOut(j)
           \/ InsertRun(j) /\ ~ForeignKeyHolds(j)
    PROVE  Calm
<1>0. faults \in Nat /\ restarts \in Nat
  BY PipeFacts
<1>1. UNCHANGED history
  BY DEF TellBrowser, FinishJob, PersistFails, JobTimesOut, InsertRun, history
<1>2. CASE TellBrowser(j)
  BY <1>1, <1>2, GoesOn DEF TellBrowser, At, Before, Storing, Committed
<1>3. CASE FinishJob(j)
  BY <1>1, <1>3, GoesOn DEF FinishJob, At, Before, Storing, Committed
<1>4. CASE PersistFails(j)
  <2>1. faults' # 0 /\ told' = told
    BY <1>0, <1>4 DEF PersistFails, Fault
  <2> QED
    BY <1>1, <1>4, <2>1, FreshLeaves DEF PersistFails, Persisted, Before
<1>5. CASE JobTimesOut(j)
  <2>1. faults' # 0 /\ told' = told
    BY <1>0, <1>5 DEF JobTimesOut, Fault
  <2> QED BY <1>1, <1>5, <2>1, FreshLeaves DEF JobTimesOut, Before
<1>6. CASE InsertRun(j) /\ ~ForeignKeyHolds(j)
  BY <1>1, <1>6, FreshLeaves
     DEF InsertRun, Persisted, At, Before, Storing, Committed
<1> QED BY <1>2, <1>3, <1>4, <1>5, <1>6

LEMMA RestartIsCalm ==
    ASSUME PipeInv, RestartWorker
    PROVE  Calm
<1>1. /\ UNCHANGED history /\ told' = told /\ restarts' = restarts + 1
      /\ job' = [j \in Jobs |-> AfterRestart(j)]
  BY DEF RestartWorker
<1>2. restarts \in Nat
  BY DEF PipeInv, BoundsOK
<1>3. ASSUME NEW j \in Jobs
      PROVE  job'[j].stage \notin Storing /\ job'[j].run \in {0, job[j].run}
  <2>1. job[j].stage \in Waiting \cup Running
    <3>1. job[j] \in Job
      BY PipeFacts
    <3> QED BY <3>1 DEF Job
  <2> QED BY <1>1, <2>1, FreshRuns
             DEF AfterRestart, Waiting, Running, Storing, Committed
<1> QED BY <1>1, <1>2, <1>3 DEF Calm, Leaves

(* Every step is calm, or one of _persist_run's, or a user's DELETE.      *)
LEMMA StepKinds ==
    ASSUME PipeInv, [Next]_vars
    PROVE  Calm \/ (\E j \in Jobs : Stores(j)) \/ DeleteRun
<1>1. DeleteRepo \/ UNCHANGED vars => Calm
  BY DEF DeleteRepo, vars, history, Calm
<1> QED
  BY <1>1, RequestsAreCalm, EndingsAreCalm, RestartIsCalm
     DEF Next, JobStep, Persist, Stores

-----------------------------------------------------------------------------
(* What the steps of _persist_run do, field by field.                     *)
Others(j) == \A q \in Jobs \ {j} : job'[q] = job[q]
KeepsRow(j) == job'[j].row = job[j].row /\ job'[j].run = job[j].run

LEMMA Inserts ==
    ASSUME PipeInv, NEW j \in Jobs, InsertRun(j), ForeignKeyHolds(j)
    PROVE  /\ clock' = clock + 1 /\ UNCHANGED <<runs, deleted, told, bounds>>
           /\ Others(j) /\ job[j].stage = "persisting"
           /\ job'[j].stage = "inserted" /\ job'[j].row = clock'
           /\ job'[j].run = job[j].run
<1> DEFINE r == [job[j] EXCEPT !.stage = "inserted", !.row = clock']
<1>1. job' = [job EXCEPT ![j] = r]
  BY DEF InsertRun
<1>2. r.stage = "inserted" /\ r.row = clock' /\ r.run = job[j].run
  BY PipeFacts DEF Job
<1> HIDE DEF r
<1> QED BY <1>1, <1>2, SetStep DEF InsertRun, At, Others

LEMMA Commits ==
    ASSUME PipeInv, NEW j \in Jobs, CommitRun(j)
    PROVE  /\ UNCHANGED <<clock, deleted, told, bounds>>
           /\ runs' = runs \cup {[id |-> job[j].row, by |-> j]}
           /\ Ids(runs') = Ids(runs) \cup {job[j].row}
           /\ Others(j) /\ job[j].stage = "inserted"
           /\ job'[j].stage = "counting" /\ KeepsRow(j)
<1> DEFINE r == [job[j] EXCEPT !.stage = "counting"]
           new == [id |-> job[j].row, by |-> j]
<1>1. job' = [job EXCEPT ![j] = r]
  BY DEF CommitRun, Goto
<1>2. r.stage = "counting" /\ r.row = job[j].row /\ r.run = job[j].run
  BY PipeFacts DEF Job
<1>3. runs' = runs \cup {new} /\ new.id = job[j].row
  BY DEF CommitRun
<1> HIDE DEF r, new
<1>4. Ids(runs') = Ids(runs) \cup {job[j].row}
  BY <1>3, Zenon DEF Ids
<1>5. job'[j] = r /\ Others(j)
  BY <1>1, SetStep DEF Others
<1> QED BY <1>2, <1>4, <1>5 DEF CommitRun, At, KeepsRow

LEMMA Counts ==
    ASSUME PipeInv, NEW j \in Jobs, CountRuns(j)
    PROVE  /\ UNCHANGED <<history, told, bounds>>
           /\ Others(j) /\ job[j].stage = "counting"
           /\ Cardinality(runs) \in Nat
           /\ \/ /\ Cardinality(runs) <= Cap
                 /\ job'[j].stage = "telling" /\ job'[j].run = job[j].row
              \/ /\ Cardinality(runs) > Cap
                 /\ job'[j].overflow = Cardinality(runs) - Cap
                 /\ job'[j].stage = "picking" /\ KeepsRow(j)
<1>1. Cardinality(runs) \in Nat
  BY FS_CardinalityType DEF PipeInv, HistoryOK
<1>2. CASE Cardinality(runs) <= Cap
  <2> DEFINE r == [Fresh("telling", job[j].rag) EXCEPT !.run = job[j].row]
  <2>1. job' = [job EXCEPT ![j] = r]
    BY <1>1, <1>2, CapAssumption DEF CountRuns, Excess, Persisted, Set
  <2>2. r.stage = "telling" /\ r.run = job[j].row
    BY FreshRuns
  <2> HIDE DEF r
  <2>3. job'[j] = r /\ Others(j)
    BY <2>1, SetStep DEF Others
  <2> QED BY <1>1, <1>2, <2>2, <2>3 DEF CountRuns, At
<1>3. CASE ~(Cardinality(runs) <= Cap)
  <2> DEFINE n == Cardinality(runs) - Cap
             r == [job[j] EXCEPT !.stage = "picking", !.overflow = n]
  <2>1. Excess(Cardinality(runs)) = n /\ n # 0 /\ Cardinality(runs) > Cap
    BY <1>1, <1>3, CapAssumption DEF Excess
  <2>2. job' = [job EXCEPT ![j].stage = "picking", ![j].overflow = n]
    BY <2>1 DEF CountRuns
  <2> HIDE DEF n
  <2>3. job' = [job EXCEPT ![j] = r]
    BY <2>2
  <2>4. /\ r.stage = "picking" /\ r.overflow = n
        /\ r.row = job[j].row /\ r.run = job[j].run
    BY PipeFacts DEF Job
  <2> HIDE DEF r
  <2>5. job'[j] = r /\ Others(j)
    BY <2>3, SetStep DEF Others
  <2> QED BY <1>1, <2>1, <2>4, <2>5 DEF CountRuns, At, KeepsRow, n
<1> QED BY <1>2, <1>3

LEMMA Picks ==
    ASSUME PipeInv, NEW j \in Jobs, PickRuns(j)
    PROVE  /\ UNCHANGED <<history, told, bounds>>
           /\ Others(j) /\ job[j].stage = "picking"
           /\ job'[j].stage = "dropping" /\ KeepsRow(j)
           /\ job'[j].doomed = Oldest(runs, job[j].overflow)
<1> DEFINE d == Oldest(runs, job[j].overflow)
           r == [job[j] EXCEPT !.stage = "dropping", !.doomed = d]
<1>1. job' = [job EXCEPT ![j].stage = "dropping", ![j].doomed = d]
  BY DEF PickRuns
<1> HIDE DEF d
<1>2. job' = [job EXCEPT ![j] = r]
  BY <1>1
<1>3. /\ r.stage = "dropping" /\ r.doomed = d
      /\ r.row = job[j].row /\ r.run = job[j].run
  BY PipeFacts DEF Job
<1> HIDE DEF r
<1>4. job'[j] = r /\ Others(j)
  BY <1>2, SetStep DEF Others
<1> QED BY <1>3, <1>4 DEF PickRuns, At, KeepsRow, d

LEMMA Drops ==
    ASSUME PipeInv, NEW j \in Jobs, DropRuns(j)
    PROVE  /\ UNCHANGED <<clock, deleted, told, bounds>>
           /\ runs' = {r \in runs : r.id \notin job[j].doomed}
           /\ Ids(runs') = Ids(runs) \ job[j].doomed
           /\ Others(j) /\ job[j].stage = "dropping"
           /\ job'[j].stage = "telling" /\ job'[j].run = job[j].row
<1> DEFINE r == [Fresh("telling", job[j].rag) EXCEPT !.run = job[j].row]
<1>1. job' = [job EXCEPT ![j] = r]
  BY DEF DropRuns, Persisted, Set
<1>2. r.stage = "telling" /\ r.run = job[j].row
  BY FreshRuns
<1> HIDE DEF r
<1>3. runs' = {q \in runs : q.id \notin job[j].doomed}
  BY DEF DropRuns
<1>4. Ids(runs') = Ids(runs) \ job[j].doomed
  BY <1>3 DEF Ids
<1>5. job'[j] = r /\ Others(j)
  BY <1>1, SetStep DEF Others
<1> QED BY <1>2, <1>3, <1>4, <1>5 DEF DropRuns, At

-----------------------------------------------------------------------------
(* Rows that nobody confuses: an id is stored once, an open row is not    *)
(* stored yet, and what a user deleted stays away.                        *)
RowsApart ==
    /\ \A r, s \in runs : r.id = s.id => r = s
    /\ Ids(runs) \cap deleted = {}
    /\ \A j \in Jobs : job[j].stage = "inserted"
                       => job[j].row \notin Ids(runs) \cup deleted
    /\ \A j, k \in Jobs :
          job[j].stage = "inserted" /\ job[k].stage = "inserted" /\ j # k
          => job[j].row # job[k].row

(* The types that the proofs about the history need.                      *)
LEMMA Numbers ==
    ASSUME PipeInv
    PROVE  /\ clock \in Nat /\ Ids(runs) \subseteq 1..clock
           /\ deleted \subseteq 1..clock /\ told \subseteq 1..clock
           /\ IsFiniteSet(runs) /\ IsFiniteSet(deleted)
           /\ Cap \in Nat /\ MaxDeletes \in Nat
           /\ \A j \in Jobs : job[j].row \in 0..clock /\ job[j].run \in 0..clock
<1>1. IsFiniteSet(deleted)
  <2>1. clock \in Nat /\ deleted \subseteq 1..clock
    BY DEF PipeInv, HistoryOK
  <2>2. IsFiniteSet(1..clock)
    BY <2>1, FS_Interval
  <2> QED BY <2>1, <2>2, FS_Subset
<1>2. \A j \in Jobs : job[j].row \in 0..clock /\ job[j].run \in 0..clock
  BY PipeFacts DEF JobInv, Typed
<1> QED BY <1>1, <1>2, CapAssumption, BoundsAssumption DEF PipeInv, HistoryOK

LEMMA Deletes ==
    ASSUME PipeInv, RowsApart, DeleteRun
    PROVE  /\ UNCHANGED <<job, clock, told, bounds>>
           /\ \E r \in runs : /\ runs' = runs \ {r}
                              /\ deleted' = deleted \cup {r.id}
                              /\ Ids(runs') = Ids(runs) \ {r.id}
           /\ Cardinality(deleted) < MaxDeletes
<1>1. PICK r \in runs : runs' = runs \ {r} /\ deleted' = deleted \cup {r.id}
  BY DEF DeleteRun
<1>2. Ids(runs') = Ids(runs) \ {r.id}
  BY <1>1 DEF Ids, RowsApart
<1> QED BY <1>1, <1>2 DEF DeleteRun

LEMMA RowsApartStep ==
    ASSUME PipeInv, RowsApart, [Next]_vars
    PROVE  RowsApart'
<1>0. /\ clock \in Nat /\ Ids(runs) \subseteq 1..clock
      /\ deleted \subseteq 1..clock
      /\ \A j \in Jobs : job[j].row \in 0..clock
  BY Numbers
<1>1. CASE Calm
  <2>1. \A j \in Jobs : job'[j].stage = "inserted" => job'[j] = job[j]
    BY <1>1 DEF Calm, Leaves, Storing
  <2> QED BY <1>1, <2>1 DEF Calm, history, RowsApart, Ids
<1>2. ASSUME NEW j \in Jobs, InsertRun(j), ForeignKeyHolds(j)
      PROVE  RowsApart'
  <2>1. /\ clock' = clock + 1 /\ runs' = runs /\ deleted' = deleted
        /\ Others(j) /\ job'[j].row = clock'
    BY <1>2, Inserts
  <2> QED BY <1>0, <2>1 DEF Others, RowsApart, Ids
<1>3. ASSUME NEW j \in Jobs, CommitRun(j)
      PROVE  RowsApart'
  <2>1. /\ deleted' = deleted
        /\ runs' = runs \cup {[id |-> job[j].row, by |-> j]}
        /\ Ids(runs') = Ids(runs) \cup {job[j].row}
        /\ Others(j) /\ job[j].stage = "inserted"
        /\ job'[j].stage = "counting"
    BY <1>3, Commits
  <2>2. job[j].row \notin Ids(runs) \cup deleted
    BY <2>1 DEF RowsApart
  <2>3. \A r, s \in runs' : r.id = s.id => r = s
    BY <2>1, <2>2 DEF RowsApart, Ids
  <2>4. Ids(runs') \cap deleted' = {}
    BY <2>1, <2>2 DEF RowsApart
  <2>5. \A q \in Jobs : job'[q].stage = "inserted"
                        => q # j /\ job'[q] = job[q]
    BY <2>1 DEF Others
  <2>6. \A q \in Jobs : job'[q].stage = "inserted"
                        => job'[q].row \notin Ids(runs') \cup deleted'
    BY <2>1, <2>5 DEF RowsApart
  <2> QED BY <2>3, <2>4, <2>5, <2>6 DEF RowsApart
<1>4. ASSUME NEW j \in Jobs, CountRuns(j) \/ PickRuns(j)
      PROVE  RowsApart'
  <2>1. UNCHANGED history /\ Others(j) /\ job'[j].stage # "inserted"
    BY <1>4, Counts, Picks
  <2>2. \A q \in Jobs : job'[q].stage = "inserted" => job'[q] = job[q]
    BY <2>1 DEF Others
  <2> QED BY <2>1, <2>2 DEF history, RowsApart, Ids
<1>5. ASSUME NEW j \in Jobs, DropRuns(j)
      PROVE  RowsApart'
  <2>1. /\ deleted' = deleted /\ runs' \subseteq runs
        /\ Ids(runs') \subseteq Ids(runs)
        /\ Others(j) /\ job'[j].stage = "telling"
    BY <1>5, Drops
  <2>2. \A q \in Jobs : job'[q].stage = "inserted" => job'[q] = job[q]
    BY <2>1 DEF Others
  <2> QED BY <2>1, <2>2 DEF RowsApart
<1>6. CASE DeleteRun
  <2>1. PICK r \in runs : /\ runs' = runs \ {r}
                          /\ deleted' = deleted \cup {r.id}
                          /\ Ids(runs') = Ids(runs) \ {r.id}
    BY <1>6, Deletes
  <2>2. job' = job /\ r.id \in Ids(runs)
    BY <1>6, Deletes DEF Ids
  <2> QED BY <2>1, <2>2 DEF RowsApart
<1> QED BY <1>1, <1>2, <1>3, <1>4, <1>5, <1>6, StepKinds DEF Stores

LEMMA InitRowsApart ==
    ASSUME Init
    PROVE  RowsApart
<1>1. \A j \in Jobs : job[j].stage # "inserted"
  <2>1. \A j \in Jobs : job[j] = Fresh("idle", FALSE)
    BY DEF Init
  <2> QED BY <2>1 DEF Fresh
<1>2. runs = {[id |-> i, by |-> "earlier"] : i \in 1..Cap} /\ deleted = {}
  BY DEF Init
<1>3. ASSUME NEW r \in runs, NEW s \in runs, r.id = s.id
      PROVE  r = s
  <2>1. PICK i \in 1..Cap : r = [id |-> i, by |-> "earlier"]
    BY <1>2
  <2>2. PICK k \in 1..Cap : s = [id |-> k, by |-> "earlier"]
    BY <1>2
  <2> QED BY <1>3, <2>1, <2>2
<1> QED BY <1>1, <1>2, <1>3 DEF RowsApart

(* As many rows as ids.                                                   *)
LEMMA IdsCount ==
    ASSUME RowsApart, IsFiniteSet(runs)
    PROVE  IsFiniteSet(Ids(runs)) /\ Cardinality(Ids(runs)) = Cardinality(runs)
<1> DEFINE f == [r \in runs |-> r.id]
<1>1. f \in Surjection(runs, Ids(runs))
  BY DEF Surjection, Ids
<1>2. f \in Injection(runs, Ids(runs))
  BY <1>1 DEF Injection, IsInjective, Surjection, RowsApart
<1> HIDE DEF f
<1> QED BY <1>1, <1>2, FS_Surjection

-----------------------------------------------------------------------------
(* A set of natural numbers has a least one, which stands in for          *)
(* induction.                                                             *)
LEMMA LeastNatural ==
    ASSUME NEW T \in SUBSET Nat, T # {}
    PROVE  \E x \in T : \A y \in T : x <= y
<1> DEFINE R == OpToRel(<, Nat)
<1>1. IsWellFoundedOn(R, Nat)
  BY NatLessThanWellFounded
<1>2. \A x, y \in Nat : x < y => <<x, y>> \in R
  BY DEF OpToRel
<1> HIDE DEF R
<1>3. \E x \in T : \A y \in T : ~(<<y, x>> \in R)
  BY <1>1, WFMin
<1>4. PICK x \in T : \A y \in T : ~(<<y, x>> \in R)
  BY <1>3
<1>5. ASSUME NEW y \in T
      PROVE  x <= y
  <2>1. x \in Nat /\ y \in Nat
    BY <1>4
  <2>2. ~(y < x)
    BY <2>1, <1>2, <1>4
  <2> QED BY <2>1, <2>2
<1> QED BY <1>4, <1>5

LEMMA IdsCountNext ==
    ASSUME RowsApart', IsFiniteSet(runs')
    PROVE  Cardinality(Ids(runs')) = Cardinality(runs')
<1> DEFINE f == [r \in runs' |-> r.id]
<1>1. f \in Surjection(runs', Ids(runs'))
  BY DEF Surjection, Ids
<1>2. f \in Injection(runs', Ids(runs'))
  BY <1>1 DEF Injection, IsInjective, Surjection, RowsApart
<1> HIDE DEF f
<1> QED BY <1>1, <1>2, FS_Surjection

(* Picking the n oldest of at most c + n rows leaves at most c.           *)
LEMMA OldestLeaves ==
    ASSUME IsFiniteSet(Ids(runs)), Ids(runs) \subseteq Nat,
           NEW n \in Nat, NEW c \in Nat, Cardinality(Ids(runs)) <= c + n
    PROVE  Cardinality(Ids(runs) \ Oldest(runs, n)) <= c
<1> DEFINE S == Ids(runs)
           Below(i) == {k \in S : k < i}
           D == S \ Oldest(runs, n)
<1>1. \A i \in S : IsFiniteSet(Below(i)) /\ Cardinality(Below(i)) \in Nat
  BY FS_Subset, FS_CardinalityType
<1>2. \A i \in S : i \in D <=> n <= Cardinality(Below(i))
  <2>1. \A i \in S : i \in Oldest(runs, n) <=> Cardinality(Below(i)) < n
    BY DEF Oldest
  <2> HIDE DEF Below, S
  <2> QED BY <1>1, <2>1
<1>3. D \subseteq S
  OBVIOUS
<1>4. CASE D = {}
  BY <1>4, FS_EmptySet
<1>5. CASE D # {}
  <2>1. PICK m \in D : \A i \in D : m <= i
    BY <1>3, <1>5, LeastNatural
  <2>2. Below(m) \cap D = {} /\ Below(m) \subseteq S
    BY <1>3, <2>1
  <2>3. n <= Cardinality(Below(m)) /\ Cardinality(Below(m)) \in Nat
    BY <1>1, <1>2, <1>3, <2>1
  <2>4. /\ IsFiniteSet(D) /\ IsFiniteSet(Below(m))
        /\ Cardinality(D) \in Nat /\ Cardinality(S) \in Nat
    BY <1>1, <1>3, <2>1, FS_Subset, FS_CardinalityType
  <2> HIDE DEF D, Below
  <2>5. Cardinality(D \cup Below(m)) = Cardinality(D) + Cardinality(Below(m))
    <3>1. D \cap Below(m) = {}
      BY <2>2
    <3> QED BY <2>3, <2>4, <3>1, FS_Union, FS_EmptySet
  <2>6. Cardinality(D \cup Below(m)) <= Cardinality(S)
    <3>1. D \cup Below(m) \in SUBSET S
      BY <1>3, <2>2
    <3> QED BY <3>1, FS_Subset
  <2> QED BY <2>3, <2>4, <2>5, <2>6 DEF D
<1> QED BY <1>4, <1>5

(* Why the cap holds again.  With no fault and no restart, the last job   *)
(* to count after the last commit knows the excess, and it or another     *)
(* takes at least that much away before it returns.                       *)
CapInv ==
    (/\ faults = 0 /\ restarts = 0
     /\ \A j \in Jobs : job[j].stage # "counting")
    => \/ Cardinality(runs) <= Cap
       \/ \E k \in Jobs : /\ job[k].stage = "picking"
                          /\ Cardinality(runs) <= Cap + job[k].overflow
       \/ \E k \in Jobs : /\ job[k].stage = "dropping"
                          /\ Cardinality(Ids(runs) \ job[k].doomed) <= Cap

(* Failures and restarts are not forgotten.                               *)
LEMMA Monotone ==
    ASSUME PipeInv, [Next]_vars, faults' = 0, restarts' = 0
    PROVE  faults = 0 /\ restarts = 0
<1>1. faults \in Nat /\ restarts \in Nat
  BY BoundsAssumption DEF PipeInv, BoundsOK
<1>2. /\ faults' = faults \/ faults' = faults + 1
      /\ restarts' = restarts \/ restarts' = restarts + 1
  BY DEF Next, vars, bounds, Fault, PostReview, JobStep, Persist, StartJob,
         Retrieve, ChatAnswers, ChatFails, ParseAnswer, InsertRun, CommitRun,
         CountRuns, PickRuns, DropRuns, TellBrowser, FinishJob, PersistFails,
         JobTimesOut, RestartWorker, DeleteRepo, DeleteRun
<1> QED BY <1>1, <1>2

(* A subset is no larger.                                                 *)
LEMMA Fewer ==
    ASSUME NEW S, IsFiniteSet(S), NEW T \in SUBSET S, NEW n \in Nat,
           Cardinality(S) <= n
    PROVE  IsFiniteSet(T) /\ Cardinality(T) <= n
BY FS_Subset, FS_CardinalityType

LEMMA CapStep ==
    ASSUME PipeInv, RowsApart, PipeInv', RowsApart', CapInv, [Next]_vars
    PROVE  CapInv'
<1>0. /\ clock \in Nat /\ Ids(runs) \subseteq 1..clock /\ Cap \in Nat
      /\ IsFiniteSet(runs) /\ IsFiniteSet(Ids(runs))
      /\ Cardinality(runs) \in Nat /\ Cardinality(Ids(runs)) = Cardinality(runs)
  BY Numbers, IdsCount, FS_CardinalityType
<1> SUFFICES ASSUME faults' = 0, restarts' = 0,
                    \A j \in Jobs : job'[j].stage # "counting"
             PROVE  \/ Cardinality(runs') <= Cap
                    \/ \E k \in Jobs :
                          /\ job'[k].stage = "picking"
                          /\ Cardinality(runs') <= Cap + job'[k].overflow
                    \/ \E k \in Jobs :
                          /\ job'[k].stage = "dropping"
                          /\ Cardinality(Ids(runs') \ job'[k].doomed) <= Cap
  BY DEF CapInv
<1>1. /\ faults = 0 /\ restarts = 0
  BY Monotone
<1>2. \A k \in Jobs : job[k].overflow \in Nat
  BY PipeFacts DEF Job
<1> DEFINE Safe == \/ Cardinality(runs') <= Cap
                   \/ \E k \in Jobs :
                         /\ job'[k].stage = "picking"
                         /\ Cardinality(runs') <= Cap + job'[k].overflow
                   \/ \E k \in Jobs :
                         /\ job'[k].stage = "dropping"
                         /\ Cardinality(Ids(runs') \ job'[k].doomed) <= Cap
(* Rows only go, and whoever was to take the excess away still is, or     *)
(* did.                                                                   *)
<1>3. ASSUME \A j \in Jobs : job[j].stage # "counting",
             runs' \subseteq runs, Ids(runs') \subseteq Ids(runs),
             \A k \in Jobs :
                (/\ job[k].stage = "picking"
                 /\ Cardinality(runs) <= Cap + job[k].overflow)
                => Safe \/ job'[k] = job[k],
             \A k \in Jobs :
                (/\ job[k].stage = "dropping"
                 /\ Cardinality(Ids(runs) \ job[k].doomed) <= Cap)
                => Safe \/ job'[k] = job[k]
      PROVE  Safe
  <2>1. CASE Cardinality(runs) <= Cap
    BY <1>0, <1>3, <2>1, Fewer
  <2>2. ASSUME NEW k \in Jobs, job[k].stage = "picking",
               Cardinality(runs) <= Cap + job[k].overflow, job'[k] = job[k]
        PROVE  Safe
    <3>1. Cap + job[k].overflow \in Nat
      BY <1>0, <1>2
    <3>2. Cardinality(runs') <= Cap + job[k].overflow
      BY <1>0, <1>3, <2>2, <3>1, Fewer
    <3> QED BY <2>2, <3>2
  <2>3. ASSUME NEW k \in Jobs, job[k].stage = "dropping",
               Cardinality(Ids(runs) \ job[k].doomed) <= Cap, job'[k] = job[k]
        PROVE  Safe
    <3>1. /\ IsFiniteSet(Ids(runs) \ job[k].doomed)
          /\ Ids(runs') \ job[k].doomed \in SUBSET (Ids(runs) \ job[k].doomed)
      BY <1>0, <1>3, FS_Subset
    <3>2. Cardinality(Ids(runs') \ job[k].doomed) <= Cap
      BY <1>0, <2>3, <3>1, Fewer
    <3> QED BY <2>3, <3>2
  <2> HIDE DEF Safe
  <2> QED BY <1>1, <1>3, <2>1, <2>2, <2>3 DEF CapInv
<1> HIDE DEF Safe
<1>4. ASSUME Calm
      PROVE  Safe
  <2>1. \A j \in Jobs : job[j].stage \in Storing => job'[j] = job[j]
    BY <1>4 DEF Calm, Leaves
  <2>2. runs' = runs /\ Ids(runs') = Ids(runs)
    BY <1>4 DEF Calm, history, Ids
  <2> QED BY <1>3, <2>1, <2>2 DEF Storing, Committed
<1>5. ASSUME NEW j \in Jobs, InsertRun(j), ForeignKeyHolds(j)
      PROVE  Safe
  <2>1. /\ runs' = runs /\ Ids(runs') = Ids(runs)
        /\ Others(j) /\ job[j].stage = "persisting"
    BY <1>5, Inserts DEF Ids
  <2>2. \A k \in Jobs : job[k].stage # "persisting" => job'[k] = job[k]
    BY <2>1 DEF Others
  <2> QED BY <1>3, <2>1, <2>2
<1>6. ASSUME NEW j \in Jobs, CommitRun(j)
      PROVE  Safe
  BY <1>6, Commits
<1>7. ASSUME NEW j \in Jobs, CountRuns(j)
      PROVE  Safe
  <2>1. runs' = runs
    BY <1>7, Counts DEF history
  <2> QED BY <1>0, <1>7, <2>1, Counts DEF Safe
<1>8. ASSUME NEW j \in Jobs, PickRuns(j)
      PROVE  Safe
  <2>1. /\ runs' = runs /\ Ids(runs') = Ids(runs) /\ Others(j)
        /\ job[j].stage = "picking" /\ job'[j].stage = "dropping"
        /\ job'[j].doomed = Oldest(runs, job[j].overflow)
    BY <1>8, Picks DEF history, Ids
  <2>2. \A k \in Jobs \ {j} : job'[k] = job[k]
    BY <2>1 DEF Others
  <2>3. Cardinality(runs) <= Cap + job[j].overflow => Safe
    <3>1. ASSUME Cardinality(runs) <= Cap + job[j].overflow
          PROVE  Cardinality(Ids(runs) \ Oldest(runs, job[j].overflow)) <= Cap
      BY <1>0, <1>2, <3>1, OldestLeaves
    <3> QED BY <2>1, <3>1 DEF Safe
  <2>4. \A q \in Jobs : job[q].stage # "counting"
    BY <2>1, <2>2
  <2> QED BY <1>3, <2>1, <2>2, <2>3, <2>4
<1>9. ASSUME NEW j \in Jobs, DropRuns(j)
      PROVE  Safe
  <2>1. /\ runs' \subseteq runs /\ Ids(runs') = Ids(runs) \ job[j].doomed
        /\ Others(j) /\ job[j].stage = "dropping"
    BY <1>9, Drops
  <2>2. \A k \in Jobs \ {j} : job'[k] = job[k]
    BY <2>1 DEF Others
  <2>3. Cardinality(Ids(runs) \ job[j].doomed) <= Cap => Safe
    <3>1. IsFiniteSet(runs')
      BY <1>0, <2>1, FS_Subset
    <3>2. Cardinality(Ids(runs')) = Cardinality(runs')
      BY <3>1, IdsCountNext
    <3> QED BY <2>1, <3>2 DEF Safe
  <2>4. \A q \in Jobs : job[q].stage # "counting"
    BY <2>1, <2>2
  <2>5. Ids(runs') \subseteq Ids(runs)
    BY <2>1
  <2> QED BY <1>3, <2>1, <2>2, <2>3, <2>4, <2>5
<1>10. ASSUME DeleteRun
       PROVE  Safe
  <2>1. runs' \subseteq runs /\ job' = job
    BY <1>10, Deletes
  <2>2. Ids(runs') \subseteq Ids(runs)
    BY <2>1 DEF Ids
  <2> QED BY <1>3, <2>1, <2>2
<1>11. Safe
  BY <1>4, <1>5, <1>6, <1>7, <1>8, <1>9, <1>10, StepKinds DEF Stores
<1> QED BY <1>11 DEF Safe

LEMMA InitCap ==
    ASSUME Init
    PROVE  CapInv
<1> DEFINE f == [i \in 1..Cap |-> [id |-> i, by |-> "earlier"]]
<1>1. f \in Surjection(1..Cap, runs)
  BY DEF Surjection, Init
<1>2. IsFiniteSet(1..Cap) /\ Cardinality(1..Cap) = Cap
  BY CapAssumption, FS_Interval
<1> HIDE DEF f
<1>3. Cardinality(runs) <= Cap
  BY <1>1, <1>2, FS_Surjection
<1> QED BY <1>3 DEF CapInv

(* FR-017: whatever the jobs, the users and the repository do, once       *)
(* nobody is storing a run and nothing has failed, the history is within  *)
(* its cap.                                                               *)
THEOREM CapIsKept == Spec => []CapHolds
<1> DEFINE I == PipeInv /\ RowsApart /\ CapInv
<1>1. Init => I
  BY InitPipeInv, InitRowsApart, InitCap
<1>2. I /\ [Next]_vars => I'
  <2> SUFFICES ASSUME I, [Next]_vars
               PROVE  I'
    OBVIOUS
  <2>1. PipeInv' /\ RowsApart'
    BY NextPipeInv, RowsApartStep
  <2> QED BY <2>1, CapStep
<1>3. I => CapHolds
  BY DEF CapInv, CapHolds, Persisting
<1> QED BY <1>1, <1>2, <1>3, PTL DEF Spec

-----------------------------------------------------------------------------
(* No transaction is open while a prune takes a run that began after it.  *)
NoRunIsOvertaken ==
    \A j, k \in Jobs :
        job[j].stage = "inserted" /\ job[k].stage = "dropping"
        => \A i \in job[k].doomed : i < job[j].row

(* Whatever is stored and older than a row that a prune picked was        *)
(* picked, too, however long ago that was.                                *)
DoomedAreOldest ==
    \A k \in Jobs :
        job[k].stage = "dropping"
        => \A i \in job[k].doomed, h \in Ids(runs) : h < i => h \in job[k].doomed

(* ORDER BY created_at ASC LIMIT n leaves no older row out.               *)
LEMMA OldestClosed ==
    ASSUME PipeInv, RowsApart, NEW n \in Nat,
           NEW i \in Oldest(runs, n), NEW h \in Ids(runs), h < i
    PROVE  h \in Oldest(runs, n)
<1> DEFINE Below(x) == {k \in Ids(runs) : k < x}
<1>1. IsFiniteSet(Ids(runs)) /\ Ids(runs) \subseteq Nat
  BY Numbers, IdsCount
<1>2. i \in Ids(runs) /\ Cardinality(Below(i)) < n
  BY DEF Oldest
<1>3. IsFiniteSet(Below(i)) /\ Below(h) \in SUBSET Below(i)
  BY <1>1, <1>2, FS_Subset
<1>4. Cardinality(Below(h)) <= Cardinality(Below(i))
  BY <1>3, FS_Subset
<1>5. Cardinality(Below(h)) \in Nat /\ Cardinality(Below(i)) \in Nat
  BY <1>3, FS_Subset, FS_CardinalityType
<1>6. Cardinality(Below(h)) < n
  BY <1>2, <1>4, <1>5
<1> QED BY <1>6 DEF Oldest

LEMMA DoomedStep ==
    ASSUME PipeInv, RowsApart, DoomedAreOldest, NoRunIsOvertaken, [Next]_vars
    PROVE  DoomedAreOldest'
<1>0. /\ Ids(runs) \subseteq Nat
      /\ \A k \in Jobs : /\ job[k].overflow \in Nat /\ job[k].row \in Nat
                         /\ job[k].doomed \subseteq Nat
  BY Numbers, PipeFacts DEF Job
<1>1. CASE Calm
  <2>1. \A k \in Jobs : job'[k].stage = "dropping" => job'[k] = job[k]
    BY <1>1 DEF Calm, Leaves, Storing, Committed
  <2> QED BY <1>1, <2>1 DEF Calm, history, DoomedAreOldest, Ids
<1>2. ASSUME NEW j \in Jobs, Ids(runs') \subseteq Ids(runs), Others(j),
             job'[j].stage # "dropping"
      PROVE  DoomedAreOldest'
  <2>1. \A k \in Jobs : job'[k].stage = "dropping" => job'[k] = job[k]
    BY <1>2 DEF Others
  <2> QED BY <1>2, <2>1 DEF DoomedAreOldest
<1>3. ASSUME NEW j \in Jobs, InsertRun(j), ForeignKeyHolds(j)
      PROVE  DoomedAreOldest'
  BY <1>2, <1>3, Inserts DEF Ids
<1>4. ASSUME NEW j \in Jobs, CommitRun(j)
      PROVE  DoomedAreOldest'
  <2>1. /\ Ids(runs') = Ids(runs) \cup {job[j].row}
        /\ Others(j) /\ job[j].stage = "inserted"
        /\ job'[j].stage = "counting"
    BY <1>4, Commits
  <2>2. \A k \in Jobs : job'[k].stage = "dropping" => job'[k] = job[k]
    BY <2>1 DEF Others
  <2>3. \A k \in Jobs : job[k].stage = "dropping"
                        => \A i \in job[k].doomed : ~(job[j].row < i)
    BY <1>0, <2>1 DEF NoRunIsOvertaken
  <2> QED BY <2>1, <2>2, <2>3 DEF DoomedAreOldest
<1>5. ASSUME NEW j \in Jobs, CountRuns(j)
      PROVE  DoomedAreOldest'
  BY <1>2, <1>5, Counts DEF Ids, history
<1>6. ASSUME NEW j \in Jobs, PickRuns(j)
      PROVE  DoomedAreOldest'
  <2>1. /\ Ids(runs') = Ids(runs) /\ Others(j)
        /\ job'[j].doomed = Oldest(runs, job[j].overflow)
    BY <1>6, Picks DEF history, Ids
  <2>2. \A i \in job'[j].doomed, h \in Ids(runs) :
            h < i => h \in job'[j].doomed
    BY <1>0, <2>1, OldestClosed
  <2> QED BY <2>1, <2>2 DEF DoomedAreOldest, Others
<1>7. ASSUME NEW j \in Jobs, DropRuns(j)
      PROVE  DoomedAreOldest'
  <2>1. Ids(runs') \subseteq Ids(runs) /\ Others(j) /\ job'[j].stage = "telling"
    BY <1>7, Drops
  <2> QED BY <1>2, <2>1
<1>8. CASE DeleteRun
  <2>1. Ids(runs') \subseteq Ids(runs) /\ job' = job
    BY <1>8, Deletes
  <2> QED BY <2>1 DEF DoomedAreOldest
<1> QED BY <1>1, <1>3, <1>4, <1>5, <1>6, <1>7, <1>8, StepKinds DEF Stores

(* What is known of an id that a job or a browser has: its run is         *)
(* stored, a user deleted it, or it is older than all that is stored or   *)
(* about to be.                                                           *)
Past(i) ==
    /\ \A h \in Ids(runs) : i < h
    /\ \A j \in Jobs : job[j].stage = "inserted" => i < job[j].row

Known(i) == i \in Ids(runs) \/ i \in deleted \/ Past(i)

LEMMA KnownStep ==
    ASSUME PipeInv, RowsApart, DoomedAreOldest, NoRunIsOvertaken, [Next]_vars,
           NEW i \in 0..clock, Known(i)
    PROVE  Known(i)'
<1>0. /\ clock \in Nat /\ i \in Nat /\ Ids(runs) \subseteq Nat
      /\ \A k \in Jobs : /\ job[k].row \in Nat
                         /\ job[k].doomed \subseteq Nat
  BY Numbers, PipeFacts DEF Job
<1>1. CASE Calm
  <2>1. \A j \in Jobs : job'[j].stage = "inserted" => job'[j] = job[j]
    BY <1>1 DEF Calm, Leaves, Storing
  <2> QED BY <1>1, <2>1 DEF Calm, history, Known, Past, Ids
<1>2. ASSUME NEW j \in Jobs, InsertRun(j), ForeignKeyHolds(j)
      PROVE  Known(i)'
  <2>1. /\ clock' = clock + 1 /\ runs' = runs /\ deleted' = deleted
        /\ Others(j) /\ job'[j].row = clock'
    BY <1>2, Inserts
  <2> QED BY <1>0, <2>1 DEF Others, Known, Past, Ids
<1>3. ASSUME NEW j \in Jobs, CommitRun(j)
      PROVE  Known(i)'
  <2>1. /\ deleted' = deleted /\ Ids(runs') = Ids(runs) \cup {job[j].row}
        /\ Others(j) /\ job[j].stage = "inserted"
        /\ job'[j].stage = "counting"
    BY <1>3, Commits
  <2>2. \A q \in Jobs : job'[q].stage = "inserted" => job'[q] = job[q]
    BY <2>1 DEF Others
  <2> QED BY <2>1, <2>2 DEF Known, Past
<1>4. ASSUME NEW j \in Jobs, CountRuns(j) \/ PickRuns(j)
      PROVE  Known(i)'
  <2>1. /\ UNCHANGED history /\ Others(j) /\ job'[j].stage # "inserted"
    BY <1>4, Counts, Picks
  <2>2. \A q \in Jobs : job'[q].stage = "inserted" => job'[q] = job[q]
    BY <2>1 DEF Others
  <2> QED BY <2>1, <2>2 DEF history, Known, Past, Ids
<1>5. ASSUME NEW j \in Jobs, DropRuns(j)
      PROVE  Known(i)'
  <2>1. /\ deleted' = deleted /\ Ids(runs') = Ids(runs) \ job[j].doomed
        /\ Others(j) /\ job[j].stage = "dropping"
        /\ job'[j].stage = "telling"
    BY <1>5, Drops
  <2>2. \A q \in Jobs : job'[q].stage = "inserted" => job'[q] = job[q]
    BY <2>1 DEF Others
  <2>3. CASE i \in Ids(runs) /\ i \in job[j].doomed
    <3>1. \A h \in Ids(runs') : i < h
      BY <1>0, <2>1, <2>3 DEF DoomedAreOldest
    <3>2. \A q \in Jobs : job'[q].stage = "inserted" => i < job'[q].row
      BY <2>1, <2>2, <2>3 DEF NoRunIsOvertaken
    <3> QED BY <3>1, <3>2 DEF Known, Past
  <2>4. CASE ~(i \in Ids(runs) /\ i \in job[j].doomed)
    BY <2>1, <2>2, <2>4 DEF Known, Past
  <2> QED BY <2>3, <2>4
<1>6. CASE DeleteRun
  <2>1. PICK r \in runs : /\ deleted' = deleted \cup {r.id}
                          /\ Ids(runs') = Ids(runs) \ {r.id}
    BY <1>6, Deletes
  <2>2. job' = job
    BY <1>6, Deletes
  <2> QED BY <2>1, <2>2 DEF Known, Past
<1> QED BY <1>1, <1>2, <1>3, <1>4, <1>5, <1>6, StepKinds DEF Stores

(* An id that a browser or a job has.                                     *)
Given(i) ==
    \/ i \in told
    \/ \E j \in Jobs : \/ job[j].run # 0 /\ i = job[j].run
                       \/ job[j].stage \in Committed /\ i = job[j].row

KnownInv == \A i \in Nat : Given(i) => Known(i)

LEMMA GivenStep ==
    ASSUME PipeInv, PipeInv', RowsApart, [Next]_vars, NEW i, Given(i)'
    PROVE  Given(i) \/ i \in Ids(runs')
<1>1. ASSUME NEW j \in Jobs, Others(j), told' = told,
             \/ job'[j].run \in {job[j].run} \cup
                                (IF job[j].stage \in Committed
                                 THEN {job[j].row} ELSE {})
             \/ job'[j].run = 0,
             job'[j].stage \in Committed
             => \/ job[j].stage \in Committed /\ job'[j].row = job[j].row
                \/ job'[j].row \in Ids(runs')
      PROVE  Given(i) \/ i \in Ids(runs')
  <2>1. CASE i \in told'
    BY <1>1, <2>1 DEF Given
  <2>2. CASE \E q \in Jobs \ {j} : \/ job'[q].run # 0 /\ i = job'[q].run
                                   \/ job'[q].stage \in Committed /\ i = job'[q].row
    BY <1>1, <2>2 DEF Given, Others
  <2>3. CASE job'[j].run # 0 /\ i = job'[j].run
    BY <1>1, <2>3 DEF Given
  <2>4. CASE job'[j].stage \in Committed /\ i = job'[j].row
    BY <1>1, <2>4 DEF Given
  <2> QED BY <2>1, <2>2, <2>3, <2>4 DEF Given
<1>2. CASE Calm
  <2>1. i \in told' => i # 0
    BY DEF PipeInv, HistoryOK
  <2>2. i \in told' => Given(i)
    BY <1>2, <2>1 DEF Calm, Given
  <2>3. \A j \in Jobs : /\ job'[j].run # 0 => job'[j].run = job[j].run
                        /\ job'[j].stage \in Committed => job'[j] = job[j]
    BY <1>2 DEF Calm, Leaves, Storing
  <2> QED BY <2>2, <2>3 DEF Given
<1>3. ASSUME NEW j \in Jobs, Stores(j)
      PROVE  Given(i) \/ i \in Ids(runs')
  <2>1. CASE InsertRun(j) /\ ForeignKeyHolds(j)
    BY <1>1, <2>1, Inserts DEF Committed
  <2>2. CASE CommitRun(j)
    BY <1>1, <2>2, Commits DEF KeepsRow
  <2>3. CASE CountRuns(j)
    BY <1>1, <2>3, Counts DEF KeepsRow, Committed
  <2>4. CASE PickRuns(j)
    BY <1>1, <2>4, Picks DEF KeepsRow, Committed
  <2>5. CASE DropRuns(j)
    BY <1>1, <2>5, Drops DEF Committed
  <2> QED BY <1>3, <2>1, <2>2, <2>3, <2>4, <2>5 DEF Stores
<1>4. CASE DeleteRun
  BY <1>4, Deletes DEF Given
<1> QED BY <1>2, <1>3, <1>4, StepKinds

LEMMA KnownInvStep ==
    ASSUME PipeInv, PipeInv', RowsApart, DoomedAreOldest, KnownInv,
           NoRunIsOvertaken, [Next]_vars
    PROVE  KnownInv'
<1> SUFFICES ASSUME NEW i \in Nat, Given(i)'
             PROVE  Known(i)'
  BY DEF KnownInv
<1>1. CASE Given(i)
  <2>1. i \in 0..clock
    BY <1>1, Numbers DEF Given
  <2> QED BY <1>1, <2>1, KnownStep DEF KnownInv
<1>2. CASE i \in Ids(runs')
  BY <1>2 DEF Known
<1> QED BY <1>1, <1>2, GivenStep

LEMMA InitTold ==
    ASSUME Init
    PROVE  DoomedAreOldest /\ KnownInv
<1>1. \A j \in Jobs : job[j].stage = "idle" /\ job[j].run = 0
  <2>1. \A j \in Jobs : job[j] = Fresh("idle", FALSE)
    BY DEF Init
  <2> QED BY <2>1 DEF Fresh
<1>2. told = {}
  BY DEF Init
<1> QED BY <1>1, <1>2 DEF DoomedAreOldest, KnownInv, Given, Committed

ToldPart == PipeInv /\ RowsApart /\ DoomedAreOldest /\ KnownInv

LEMMA ToldPartStep ==
    ASSUME ToldPart, NoRunIsOvertaken, [Next]_vars
    PROVE  ToldPart'
<1>1. PipeInv' /\ RowsApart'
  BY NextPipeInv, RowsApartStep DEF ToldPart
<1> QED BY <1>1, DoomedStep, KnownInvStep DEF ToldPart

LEMMA ToldMeans ==
    ASSUME ToldPart
    PROVE  ToldRunCanBeOpened
<1>1. \A id \in told : id \in Nat /\ Known(id)
  BY Numbers DEF ToldPart, KnownInv, Given
<1> QED BY <1>1 DEF ToldRunCanBeOpened, Known, Past, Ids

(* What goes when a prune returns is older than what stays.               *)
LEMMA PruneMeans ==
    ASSUME ToldPart, [Next]_vars, NEW j \in Jobs,
           At(j, "dropping"), ~At(j, "dropping")',
           NEW gone \in Ids(runs) \ Ids(runs'), NEW kept \in Ids(runs')
    PROVE  gone < kept
<1>0. PipeInv /\ RowsApart /\ Ids(runs) \subseteq Nat
  BY Numbers DEF ToldPart
<1>1. job[j].stage = "dropping" /\ job'[j].stage # "dropping"
  BY DEF At
<1>2. CASE Calm
  BY <1>2 DEF Calm, history, Ids
<1>3. ASSUME NEW k \in Jobs, Stores(k)
      PROVE  gone < kept
  <2>1. k = j
    <3>1. Others(k)
      BY <1>0, <1>3, Inserts, Commits, Counts, Picks, Drops DEF Stores
    <3> QED BY <1>1, <3>1 DEF Others
  <2>2. DropRuns(j)
    BY <1>0, <1>1, <1>3, <2>1, Inserts, Commits, Counts, Picks DEF Stores
  <2>3. Ids(runs') = Ids(runs) \ job[j].doomed
    BY <1>0, <2>2, Drops
  <2> QED BY <1>0, <1>1, <2>3 DEF ToldPart, DoomedAreOldest
<1>4. CASE DeleteRun
  BY <1>0, <1>1, <1>4, Deletes
<1> QED BY <1>0, <1>2, <1>3, <1>4, StepKinds

LEMMA ToldPartHolds == Spec /\ []NoRunIsOvertaken => []ToldPart
<1>1. Init => ToldPart
  BY InitPipeInv, InitRowsApart, InitTold DEF ToldPart
<1>2. ToldPart /\ NoRunIsOvertaken /\ [Next]_vars => ToldPart'
  BY ToldPartStep
<1> QED BY <1>1, <1>2, PTL DEF Spec

(* What /review relies on, for any number of jobs, any cap and any        *)
(* faults: a browser can open each run it was told of, until a user       *)
(* deletes it or all that is stored is newer, as long as no transaction   *)
(* is open while a prune takes a run that began after it.  If one is, its *)
(* late commit adds a run that is older than one already pruned.          *)
THEOREM ToldRunsOpen ==
    Spec /\ []NoRunIsOvertaken => []ToldRunCanBeOpened
BY ToldPartHolds, ToldMeans, PTL

(* FR-017, under the same condition: what a prune takes, by a count and a *)
(* choice that others have overtaken, is older than all that it leaves.   *)
THEOREM PrunesTakeOldest ==
    Spec /\ []NoRunIsOvertaken => PruneTakesOldest
<1>1. ToldPart /\ [Next]_vars
      => [\A j \in Jobs : At(j, "dropping") /\ ~At(j, "dropping")'
             => \A gone \in Ids(runs) \ Ids(runs'), kept \in Ids(runs') :
                    gone < kept]_vars
  BY PruneMeans
<1> QED BY <1>1, ToldPartHolds, PTL DEF Spec, PruneTakesOldest

-----------------------------------------------------------------------------
(* At most two jobs.                                                      *)
TwoJobs == \A i, j, k \in Jobs : i = j \/ i = k \/ j = k

(* With two jobs, at most one row is younger than an open one, and none   *)
(* while the other job has yet to commit; and what the other job counted  *)
(* is still there, but for what users deleted.                            *)
LateRows ==
    \A j \in Jobs : \A k \in Jobs \ {j} :
        /\ job[j].stage = "inserted"
           => /\ \A g, h \in Ids(runs) :
                    job[j].row < g /\ job[j].row < h => g = h
              /\ job[k].stage \in Before
                 => \A h \in Ids(runs) : h < job[j].row
        /\ job[k].stage = "picking" /\ job[j].stage \in Before
           => job[k].overflow + Cap <= Cardinality(runs) + Cardinality(deleted)

(* What a prune picked was stored before anything that begins now.        *)
DoomedAreOld ==
    \A k \in Jobs : job[k].stage = "dropping" => job[k].doomed \subseteq 1..clock

TwoInv ==
    /\ LateRows /\ DoomedAreOld /\ NoRunIsOvertaken
    /\ Cardinality(deleted) <= MaxDeletes

LEMMA RowCounts ==
    ASSUME PipeInv
    PROVE  /\ Cardinality(runs) \in Nat /\ Cardinality(deleted) \in Nat
           /\ \A j \in Jobs : job[j].overflow \in Nat
BY Numbers, FS_CardinalityType, PipeFacts DEF Job

(* One more element is at most one more.                                  *)
LEMMA OneMore ==
    ASSUME NEW S, IsFiniteSet(S), NEW x
    PROVE  /\ Cardinality(S) \in Nat /\ Cardinality(S \cup {x}) \in Nat
           /\ Cardinality(S) <= Cardinality(S \cup {x})
           /\ Cardinality(S \cup {x}) <= Cardinality(S) + 1
<1>1. Cardinality(S) \in Nat
  BY FS_CardinalityType
<1>2. CASE x \in S
  <2>1. S \cup {x} = S
    BY <1>2
  <2> QED BY <1>1, <2>1
<1>3. CASE x \notin S
  <2>1. Cardinality(S \cup {x}) = Cardinality(S) + 1
    BY <1>3, FS_AddElement
  <2> QED BY <1>1, <2>1
<1> QED BY <1>2, <1>3

LEMMA LateRowsStep ==
    ASSUME PipeInv, RowsApart, TwoJobs, LateRows, [Next]_vars
    PROVE  LateRows'
<1>0. /\ clock \in Nat /\ Ids(runs) \subseteq 1..clock /\ Cap \in Nat
      /\ \A j \in Jobs : job[j].row \in Nat
      /\ IsFiniteSet(runs) /\ IsFiniteSet(deleted)
  BY Numbers
<1>1. /\ Cardinality(runs) \in Nat /\ Cardinality(deleted) \in Nat
      /\ \A j \in Jobs : job[j].overflow \in Nat
  BY RowCounts
<1>2. CASE Calm
  <2>1. \A j \in Jobs : job'[j].stage \in Storing => job'[j] = job[j]
    BY <1>2 DEF Calm, Leaves
  <2>2. runs' = runs /\ deleted' = deleted /\ Ids(runs') = Ids(runs)
    BY <1>2 DEF Calm, history, Ids
  <2>3. CASE \A j \in Jobs : job'[j].stage \in Before => job[j].stage \in Before
    BY <2>1, <2>2, <2>3 DEF LateRows, Storing, Committed
  <2>4. CASE \A j \in Jobs : job'[j].stage \notin Storing
    BY <2>4 DEF LateRows, Storing, Committed
  <2> QED BY <1>2, <2>3, <2>4 DEF Calm
<1>3. ASSUME NEW c \in Jobs, InsertRun(c), ForeignKeyHolds(c)
      PROVE  LateRows'
  <2>1. /\ clock' = clock + 1 /\ runs' = runs /\ deleted' = deleted
        /\ Others(c) /\ job'[c].row = clock' /\ job[c].stage \in Before
        /\ job'[c].stage = "inserted" /\ Ids(runs') = Ids(runs)
    BY <1>3, Inserts DEF Before, Ids
  <2>2. \A h \in Ids(runs) : h < job'[c].row
    BY <1>0, <2>1
  <2>3. \A g \in Ids(runs) : ~(job'[c].row < g)
    BY <1>0, <2>1
  <2> QED BY <2>1, <2>2, <2>3 DEF LateRows, Others
<1>4. ASSUME NEW c \in Jobs, CommitRun(c)
      PROVE  LateRows'
  <2>1. /\ deleted' = deleted /\ Ids(runs') = Ids(runs) \cup {job[c].row}
        /\ runs' = runs \cup {[id |-> job[c].row, by |-> c]}
        /\ Others(c) /\ job[c].stage = "inserted" /\ job[c].stage \in Before
        /\ job'[c].stage = "counting" /\ job'[c].stage \notin Before
    BY <1>4, Commits DEF Before
  <2>2. /\ Cardinality(runs) <= Cardinality(runs')
        /\ Cardinality(runs') \in Nat
    BY <1>0, <2>1, OneMore
  <2>4. ASSUME NEW j \in Jobs, NEW k \in Jobs \ {j}, job'[j].stage = "inserted"
        PROVE  /\ \A g, h \in Ids(runs') :
                     job'[j].row < g /\ job'[j].row < h => g = h
               /\ job'[k].stage \notin Before
    <3>1. j # c /\ k = c /\ job'[j] = job[j]
      BY <2>1, <2>4 DEF TwoJobs, Others
    <3>2. \A h \in Ids(runs) : ~(job[j].row < h)
      BY <1>0, <2>1, <2>4, <3>1 DEF LateRows
    <3> QED BY <2>1, <3>1, <3>2
  <2>5. ASSUME NEW j \in Jobs, NEW k \in Jobs \ {j},
               job'[k].stage = "picking", job'[j].stage \in Before
        PROVE  job'[k].overflow + Cap
               <= Cardinality(runs') + Cardinality(deleted')
    <3>1. k # c /\ j # c /\ job'[k] = job[k] /\ job'[j] = job[j]
      BY <2>1, <2>5 DEF Others
    <3>2. job[k].overflow + Cap <= Cardinality(runs) + Cardinality(deleted)
      BY <2>5, <3>1 DEF LateRows
    <3> QED BY <1>0, <1>1, <2>1, <2>2, <3>1, <3>2
  <2> QED BY <2>4, <2>5 DEF LateRows
<1>5. ASSUME NEW c \in Jobs, CountRuns(c)
      PROVE  LateRows'
  <2>1. /\ runs' = runs /\ deleted' = deleted /\ Ids(runs') = Ids(runs)
        /\ Others(c) /\ job'[c].stage \notin Before
    BY <1>5, Counts DEF history, Ids, Before
  <2>2. job'[c].stage = "picking"
        => job'[c].overflow + Cap <= Cardinality(runs) + Cardinality(deleted)
    BY <1>0, <1>1, <1>5, Counts
  <2>3. job'[c].stage # "inserted"
    BY <2>1 DEF Before
  <2> QED BY <2>1, <2>2, <2>3 DEF LateRows, Others
<1>6. ASSUME NEW c \in Jobs, PickRuns(c)
      PROVE  LateRows'
  <2>1. /\ runs' = runs /\ deleted' = deleted /\ Ids(runs') = Ids(runs)
        /\ Others(c) /\ job'[c].stage = "dropping"
        /\ job'[c].stage \notin Before
    BY <1>6, Picks DEF history, Ids, Before
  <2> QED BY <2>1 DEF LateRows, Others
<1>7. ASSUME NEW c \in Jobs, DropRuns(c)
      PROVE  LateRows'
  <2>1. /\ Ids(runs') \subseteq Ids(runs) /\ Others(c)
        /\ job[c].stage = "dropping" /\ job'[c].stage = "telling"
        /\ job[c].stage \notin Before /\ job'[c].stage \notin Before
    BY <1>7, Drops DEF Before
  <2>2. \A j \in Jobs : \A k \in Jobs \ {j} :
            ~(job'[k].stage = "picking" /\ job'[j].stage \in Before)
    BY <2>1 DEF TwoJobs, Others
  <2> QED BY <2>1, <2>2 DEF LateRows, Others
<1>8. CASE DeleteRun
  <2>1. PICK r \in runs : /\ runs' = runs \ {r}
                          /\ deleted' = deleted \cup {r.id}
                          /\ Ids(runs') = Ids(runs) \ {r.id}
    BY <1>8, Deletes
  <2>2. job' = job /\ r.id \notin deleted
    BY <1>8, Deletes DEF RowsApart, Ids
  <2>3. Cardinality(runs') + Cardinality(deleted')
        = Cardinality(runs) + Cardinality(deleted)
    <3>1. Cardinality(runs') = Cardinality(runs) - 1
      BY <1>0, <2>1, FS_RemoveElement
    <3>2. Cardinality(deleted') = Cardinality(deleted) + 1
      BY <1>0, <2>1, <2>2, FS_AddElement
    <3> QED BY <1>1, <3>1, <3>2
  <2> QED BY <2>1, <2>2, <2>3 DEF LateRows
<1> QED BY <1>2, <1>3, <1>4, <1>5, <1>6, <1>7, <1>8, StepKinds DEF Stores

(* The newest row stored is never picked, and only it can be newer than   *)
(* an open one.                                                           *)
LEMMA NeverOvertaken ==
    ASSUME PipeInv, RowsApart, TwoJobs, TwoInv, MaxDeletes < Cap, [Next]_vars
    PROVE  NoRunIsOvertaken' /\ DoomedAreOld'
<1>0. /\ clock \in Nat /\ Ids(runs) \subseteq 1..clock /\ Cap \in Nat
      /\ MaxDeletes \in Nat
      /\ \A j \in Jobs : job[j].row \in Nat /\ job[j].doomed \subseteq Nat
      /\ IsFiniteSet(runs) /\ IsFiniteSet(Ids(runs))
      /\ Cardinality(runs) \in Nat /\ Cardinality(deleted) \in Nat
      /\ Cardinality(Ids(runs)) = Cardinality(runs)
      /\ \A j \in Jobs : job[j].overflow \in Nat
  BY Numbers, RowCounts, IdsCount, PipeFacts DEF Job
<1>1. ASSUME \A j \in Jobs : job'[j].stage = "inserted" => job'[j] = job[j],
             \A j \in Jobs : job'[j].stage = "dropping" => job'[j] = job[j],
             clock' = clock
      PROVE  NoRunIsOvertaken' /\ DoomedAreOld'
  BY <1>1 DEF NoRunIsOvertaken, DoomedAreOld, TwoInv
<1>2. CASE Calm
  BY <1>1, <1>2 DEF Calm, Leaves, Storing, Committed, history
<1>3. ASSUME NEW c \in Jobs, InsertRun(c), ForeignKeyHolds(c)
      PROVE  NoRunIsOvertaken' /\ DoomedAreOld'
  <2>1. /\ clock' = clock + 1 /\ Others(c)
        /\ job'[c].row = clock' /\ job'[c].stage = "inserted"
    BY <1>3, Inserts
  <2>2. ASSUME NEW k \in Jobs, job'[k].stage = "dropping"
        PROVE  /\ job'[k] = job[k] /\ job[k].doomed \subseteq 1..clock
               /\ k # c
    BY <2>1, <2>2 DEF Others, TwoInv, DoomedAreOld
  <2>3. DoomedAreOld'
    BY <1>0, <2>1, <2>2 DEF DoomedAreOld
  <2>4. ASSUME NEW j \in Jobs, NEW k \in Jobs, job'[j].stage = "inserted",
               job'[k].stage = "dropping", NEW i \in job'[k].doomed
        PROVE  i < job'[j].row
    <3>1. CASE j = c
      BY <1>0, <2>1, <2>2, <2>4, <3>1
    <3>2. CASE j # c
      BY <2>1, <2>2, <2>4, <3>2 DEF Others, TwoInv, NoRunIsOvertaken
    <3> QED BY <3>1, <3>2
  <2> QED BY <2>3, <2>4 DEF NoRunIsOvertaken
<1>4. ASSUME NEW c \in Jobs, CommitRun(c)
      PROVE  NoRunIsOvertaken' /\ DoomedAreOld'
  <2>1. Others(c) /\ job'[c].stage = "counting" /\ clock' = clock
    BY <1>4, Commits
  <2> QED BY <1>1, <2>1 DEF Others
<1>5. ASSUME NEW c \in Jobs, CountRuns(c)
      PROVE  NoRunIsOvertaken' /\ DoomedAreOld'
  <2>1. Others(c) /\ job'[c].stage \in {"picking", "telling"} /\ clock' = clock
    BY <1>5, Counts DEF history
  <2> QED BY <1>1, <2>1 DEF Others
<1>6. ASSUME NEW c \in Jobs, PickRuns(c)
      PROVE  NoRunIsOvertaken' /\ DoomedAreOld'
  <2>1. /\ clock' = clock /\ Others(c)
        /\ job[c].stage = "picking" /\ job'[c].stage = "dropping"
        /\ job'[c].doomed = Oldest(runs, job[c].overflow)
    BY <1>6, Picks DEF history
  <2>2. job'[c].doomed \subseteq Ids(runs)
    BY <2>1 DEF Oldest
  <2>3. DoomedAreOld'
    BY <1>0, <2>1, <2>2 DEF DoomedAreOld, TwoInv, Others
  <2>4. ASSUME NEW j \in Jobs, job[j].stage = "inserted",
               NEW i \in job'[c].doomed
        PROVE  i < job[j].row
    <3>1. j # c /\ job[j].stage \in Before /\ i \in Ids(runs)
          /\ i # job[j].row
      BY <2>1, <2>2, <2>4 DEF Before, RowsApart
    <3>2. job[c].overflow + Cap <= Cardinality(runs) + Cardinality(deleted)
      BY <2>1, <3>1 DEF TwoInv, LateRows
    <3>3. job[c].overflow < Cardinality(runs)
      BY <1>0, <3>2 DEF TwoInv
    <3>4. Cardinality({h \in Ids(runs) : h < i}) < job[c].overflow
      BY <2>1, <2>4 DEF Oldest
    <3>5. CASE job[j].row < i
      <4>1. \A h \in Ids(runs) : h # i => h < i
        <5>1. ASSUME NEW h \in Ids(runs), h # i
              PROVE  h < i
          <6>1. ~(job[j].row < h)
            BY <2>1, <2>4, <3>1, <3>5, <5>1 DEF TwoInv, LateRows
          <6> QED BY <1>0, <3>1, <3>5, <6>1
        <5> QED BY <5>1
      <4>2. {h \in Ids(runs) : h < i} = Ids(runs) \ {i}
        BY <1>0, <3>1, <4>1
      <4>3. Cardinality(Ids(runs) \ {i}) = Cardinality(runs) - 1
        BY <1>0, <3>1, FS_RemoveElement
      <4>4. Cardinality(runs) - 1 < job[c].overflow
        BY <3>4, <4>2, <4>3
      <4>5. job[c].overflow \in Nat
        BY <1>0
      <4> QED BY <1>0, <3>3, <4>4, <4>5
    <3> QED BY <1>0, <3>1, <3>5
  <2>5. NoRunIsOvertaken'
    BY <2>1, <2>4 DEF NoRunIsOvertaken, Others, TwoInv
  <2> QED BY <2>3, <2>5
<1>7. ASSUME NEW c \in Jobs, DropRuns(c)
      PROVE  NoRunIsOvertaken' /\ DoomedAreOld'
  <2>1. Others(c) /\ job'[c].stage = "telling" /\ clock' = clock
    BY <1>7, Drops
  <2> QED BY <1>1, <2>1 DEF Others
<1>8. CASE DeleteRun
  BY <1>1, <1>8, Deletes
<1> QED BY <1>2, <1>3, <1>4, <1>5, <1>6, <1>7, <1>8, StepKinds DEF Stores

LEMMA FewDeleted ==
    ASSUME PipeInv, RowsApart, Cardinality(deleted) <= MaxDeletes, [Next]_vars
    PROVE  Cardinality(deleted') <= MaxDeletes
<1>1. CASE DeleteRun
  <2>1. PICK r \in runs : deleted' = deleted \cup {r.id}
    BY <1>1, Deletes
  <2>2. /\ IsFiniteSet(deleted) /\ Cardinality(deleted) \in Nat
        /\ Cardinality(deleted) < MaxDeletes /\ MaxDeletes \in Nat
    BY <1>1, Numbers, RowCounts, Deletes
  <2>3. /\ Cardinality(deleted \cup {r.id}) <= Cardinality(deleted) + 1
        /\ Cardinality(deleted \cup {r.id}) \in Nat
    BY <2>2, OneMore
  <2> QED BY <2>1, <2>2, <2>3
<1>2. CASE Calm \/ \E j \in Jobs : Stores(j)
  <2>1. deleted' = deleted
    BY <1>2, Inserts, Commits, Counts, Picks, Drops DEF Calm, Stores, history
  <2> QED BY <2>1
<1> QED BY <1>1, <1>2, StepKinds

LEMMA InitTwo ==
    ASSUME Init
    PROVE  TwoInv
<1>1. \A j \in Jobs : job[j].stage = "idle"
  <2>1. \A j \in Jobs : job[j] = Fresh("idle", FALSE)
    BY DEF Init
  <2> QED BY <2>1 DEF Fresh
<1>2. Cardinality(deleted) <= MaxDeletes
  BY FS_EmptySet, BoundsAssumption DEF Init
<1> QED BY <1>1, <1>2 DEF TwoInv, LateRows, DoomedAreOld, NoRunIsOvertaken

(* The condition is met, whatever fails, when two jobs share the history  *)
(* and users delete fewer runs than the cap keeps: a transaction that is  *)
(* open can then be overtaken by one run only, which is the newest.       *)
(* With three it need not be.                                             *)
THEOREM TwoJobsAreEnough ==
    TwoJobs /\ MaxDeletes < Cap
    => (Spec => []ToldRunCanBeOpened /\ PruneTakesOldest)
<1> SUFFICES ASSUME TwoJobs, MaxDeletes < Cap
             PROVE  Spec => []ToldRunCanBeOpened /\ PruneTakesOldest
  OBVIOUS
<1> DEFINE I == PipeInv /\ RowsApart /\ TwoInv
<1>1. Init => I
  BY InitPipeInv, InitRowsApart, InitTwo
<1>2. I /\ [Next]_vars => I'
  <2> SUFFICES ASSUME I, [Next]_vars
               PROVE  I'
    OBVIOUS
  <2>1. PipeInv' /\ RowsApart'
    BY NextPipeInv, RowsApartStep
  <2>2. LateRows' /\ NoRunIsOvertaken' /\ DoomedAreOld'
    BY LateRowsStep, NeverOvertaken DEF TwoInv
  <2>3. (Cardinality(deleted) <= MaxDeletes)'
    BY FewDeleted DEF TwoInv
  <2> QED BY <2>1, <2>2, <2>3 DEF TwoInv
<1>3. I => NoRunIsOvertaken
  BY DEF TwoInv
<1>4. Spec => []NoRunIsOvertaken
  BY <1>1, <1>2, <1>3, PTL DEF Spec
<1> QED BY <1>4, ToldRunsOpen, PrunesTakeOldest, PTL
=============================================================================
