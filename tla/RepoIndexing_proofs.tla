------------------------ MODULE RepoIndexing_proofs ------------------------
(***************************************************************************)
(* For any number of requests, any subset of the faults and any max_tries: *)
(* the types, the chunks that never outlive their repository, the          *)
(* advertised index that is always stored, and the single step in which    *)
(* chunks appear.                                                          *)
(*                                                                         *)
(* The argument is one inductive invariant, IInv.  A transaction that has  *)
(* inserted chunks holds the foreign-key lock on its repository row, so    *)
(* that row cannot go away before it ends (OpenInserts); what it is about  *)
(* to delete belongs to the same repository (OpenDeletes); and a pass that *)
(* is still open has not committed before, because a second run of a job   *)
(* has another number (PassesAreNew), and a job not yet queued has stored  *)
(* nothing (QueuedOnce).                                                   *)
(*                                                                         *)
(* The second part is about one operator, whose requests take turns, and   *)
(* workers that are not killed: OneInv says that a job in flight and a     *)
(* handler about to queue another never name the same row.  From it follow *)
(* that one job at most is in flight, that a row which shows "indexing" is *)
(* owed an outcome or was given up (OwedInv), that nothing touches a row   *)
(* given up again (StuckStays), and that every step is one of              *)
(* RepoLifecycle or none.                                                  *)
(***************************************************************************)
EXTENDS RepoIndexingProps, FiniteSetTheorems, TLAPS

(* What a transaction inserted is its own pass, under the lock of its row. *)
OpenInserts ==
    \A j \in Posts : job[j].mine # {} =>
        /\ job[j].pc \in {"swap", "commit"}
        /\ job[j].repo = row.id
        /\ job[j].mine = {[repo |-> job[j].repo, by |-> j, try |-> job[j].try]}

(* What a transaction deletes belongs to its own repository.               *)
OpenDeletes ==
    \A j \in Posts : \A c \in job[j].doomed : c.repo = job[j].repo

(* A stored pass is of an earlier run, or of the run that has committed.   *)
PassesAreNew ==
    \A c \in chunks :
        /\ c.try <= job[c.by].try
        /\ c.try = job[c.by].try => job[c.by].pc \in {"close", "lost", "done", "dead"}

(* A handler that has yet to queue its job has not queued it before.       *)
QueuedOnce ==
    \A r \in Posts :
        post[r].pc \in {"idle", "mark", "enqueue"}
            => job[r].pc = "none" /\ job[r].try = 0

(* A job that is running has been given a number and a repository.         *)
HandlersKnowTheirRow ==
    /\ \A r \in Posts :
          post[r].pc \in {"mark", "enqueue", "rollback", "drop"}
              => post[r].repo \in Posts
    /\ \A j \in Posts : job[j].pc # "none" => job[j].repo \in Posts
    /\ \A j \in Posts : Running(job[j].pc) => job[j].try >= 1

IInv ==
    /\ TypeOK
    /\ NoStrayChunks
    /\ AdvertisedIndexStored
    /\ OpenInserts
    /\ OpenDeletes
    /\ PassesAreNew
    /\ QueuedOnce
    /\ HandlersKnowTheirRow
-----------------------------------------------------------------------------
USE NoRepoAssumption, FaultsAssumption, MaxTriesAssumption, OverlappingAssumption

(* What the helpers that move one process leave typed.                     *)
LEMMA AnswerType ==
    ASSUME TypeOK, NEW r \in Posts, NEW reply \in PostReply, Answer(r, reply)
    PROVE  post' \in [Posts -> PostRec]
<1>1. post[r] \in PostRec
  BY DEF TypeOK
<1>2. [post[r] EXCEPT !.pc = "done", !.reply = reply] \in PostRec
  BY <1>1 DEF PostRec, PostPc
<1>3. QED
  BY <1>2 DEF Answer, TypeOK

LEMMA ReplyType ==
    ASSUME TypeOK, NEW d \in Deletes, NEW reply \in DelReply, Reply(d, reply)
    PROVE  del' \in [Deletes -> DelRec]
<1>1. del[d] \in DelRec
  BY DEF TypeOK
<1>2. [del[d] EXCEPT !.pc = "done", !.reply = reply] \in DelRec
  BY <1>1 DEF DelRec, DelPc
<1>3. QED
  BY <1>2 DEF Reply, TypeOK

LEMMA QueueType ==
    ASSUME TypeOK, NEW r \in Posts, Queue(r)
    PROVE  job' \in [Posts -> JobRec]
<1>1. post[r].repo \in Posts \cup {NoRepo}
  BY DEF TypeOK, PostRec
<1>2. 0 \in 0..MaxTries
  OBVIOUS
<1>3. NoJob \in JobRec
  BY <1>2 DEF NoJob, JobRec, JobPc
<1>4. [NoJob EXCEPT !.pc = "queued", !.repo = post[r].repo] \in JobRec
  BY <1>1, <1>3 DEF JobRec, JobPc
<1>5. QED
  BY <1>4 DEF Queue, TypeOK

LEMMA GotoType ==
    ASSUME TypeOK, NEW j \in Posts, NEW pc \in JobPc, Goto(j, pc)
    PROVE  job' \in [Posts -> JobRec]
<1>1. job[j] \in JobRec
  BY DEF TypeOK
<1>2. [job[j] EXCEPT !.pc = pc] \in JobRec
  BY <1>1 DEF JobRec
<1>3. QED
  BY <1>2 DEF Goto, TypeOK

LEMMA EndedType ==
    ASSUME TypeOK, NEW j \in Posts, NEW pc \in JobPc
    PROVE  Ended(j, pc) \in JobRec
<1>1. job[j] \in JobRec
  BY DEF TypeOK
<1>2. QED
  BY <1>1 DEF Ended, JobRec

LEMMA EndType ==
    ASSUME TypeOK, NEW j \in Posts, NEW pc \in JobPc, End(j, pc)
    PROVE  job' \in [Posts -> JobRec]
BY EndedType DEF End, TypeOK

(* Deleting a repository keeps every table and job typed.                  *)
LEMMA DeleteRowType ==
    ASSUME TypeOK, NEW id, DeleteRow(id)
    PROVE  /\ row' \in Row \cup {Absent}
           /\ chunks' \in SUBSET Chunk
           /\ job' \in [Posts -> JobRec]
<1>1. CASE ~Exists(id)
  BY <1>1 DEF DeleteRow, TypeOK
<1>2. CASE Exists(id)
  <2>1. \A j \in Posts : Ended(j, "done") \in JobRec
    BY EndedType DEF JobPc
  <2>2. QED
    BY <1>2, <2>1 DEF DeleteRow, TypeOK
<1>3. QED
  BY <1>1, <1>2

(* Type correctness is preserved by every step.                            *)
LEMMA TypeStep ==
    ASSUME TypeOK, HandlersKnowTheirRow, [Next]_vars
    PROVE  TypeOK'
<1>0. \A r \in Posts : post[r] \in PostRec /\ job[r] \in JobRec
  BY DEF TypeOK
<1>1. ASSUME NEW r \in Posts, PostCreate(r) PROVE TypeOK'
  <2>1. row' \in Row
    BY <1>1 DEF PostCreate, Row, Absent
  <2>2. [post[r] EXCEPT !.pc = "enqueue", !.repo = r] \in PostRec
    BY <1>0 DEF PostRec, PostPc
  <2>3. QED
    BY <1>1, <2>1, <2>2 DEF PostCreate, TypeOK
<1>2. ASSUME NEW r \in Posts, PostFound(r) PROVE TypeOK'
  <2>1. CASE Pending(row)
    BY <1>2, <2>1, AnswerType DEF PostFound, TypeOK, PostReply
  <2>2. CASE ~Pending(row)
    <3>1. row \in Row /\ row.id \in Posts
      BY <1>2 DEF PostFound, TypeOK, Row
    <3>2. [post[r] EXCEPT !.pc = "mark", !.repo = row.id, !.seen = row] \in PostRec
      BY <1>0, <3>1 DEF PostRec, PostPc
    <3>3. QED
      BY <1>2, <2>2, <3>2 DEF PostFound, TypeOK
  <2>3. QED
    BY <2>1, <2>2
<1>3. ASSUME NEW r \in Posts, PostMark(r) PROVE TypeOK'
  <2>1. CASE Exists(post[r].repo)
    <3>1. row \in Row
      BY <2>1 DEF Exists, TypeOK, Absent
    <3>2. row' \in Row
      BY <1>3, <2>1, <3>1 DEF PostMark, Row
    <3>3. [post[r] EXCEPT !.pc = "enqueue"] \in PostRec
      BY <1>0 DEF PostRec, PostPc
    <3>4. QED
      BY <1>3, <2>1, <3>2, <3>3 DEF PostMark, TypeOK
  <2>2. CASE ~Exists(post[r].repo)
    BY <1>3, <2>2, AnswerType DEF PostMark, TypeOK, PostReply
  <2>3. QED
    BY <2>1, <2>2
<1>4. ASSUME NEW r \in Posts, PostEnqueue(r) PROVE TypeOK'
  BY <1>4, AnswerType, QueueType DEF PostEnqueue, TypeOK, PostReply
<1>5. ASSUME NEW r \in Posts, PostNoPool(r) PROVE TypeOK'
  BY <1>5, AnswerType DEF PostNoPool, TypeOK, PostReply
<1>6. ASSUME NEW r \in Posts, PostEnqueueFails(r) PROVE TypeOK'
  <2>1. [post[r] EXCEPT !.pc = "rollback"] \in PostRec
    BY <1>0 DEF PostRec, PostPc
  <2>2. job' \in [Posts -> JobRec]
    BY <1>6, QueueType DEF PostEnqueueFails, TypeOK
  <2>3. QED
    BY <1>6, <2>1, <2>2 DEF PostEnqueueFails, TypeOK
<1>7. ASSUME NEW r \in Posts, PostRollback(r) PROVE TypeOK'
  <2>1. [post[r] EXCEPT !.pc = "drop"] \in PostRec
    BY <1>0 DEF PostRec, PostPc
  <2>2. post' \in [Posts -> PostRec]
    BY <1>7, <2>1, AnswerType DEF PostRollback, TypeOK, PostReply
  <2>3. QED
    BY <1>7, <2>2 DEF PostRollback, TypeOK
<1>8. ASSUME NEW r \in Posts, PostDrop(r) PROVE TypeOK'
  BY <1>8, AnswerType, DeleteRowType DEF PostDrop, TypeOK, PostReply
<1>9. ASSUME NEW r \in Posts, PostCrash(r) PROVE TypeOK'
  BY <1>9, AnswerType DEF PostCrash, TypeOK, PostReply
<1>10. ASSUME NEW d \in Deletes, DelRead(d) PROVE TypeOK'
  <2>1. row # Absent => row.id \in Posts
    BY DEF TypeOK, Row
  <2>2. del[d] \in DelRec
    BY DEF TypeOK
  <2>3. row # Absent =>
          [del[d] EXCEPT !.pc = "delete", !.repo = row.id] \in DelRec
    BY <2>1, <2>2 DEF DelRec, DelPc
  <2>4. "missing" \in DelReply /\ "busy" \in DelReply
    BY DEF DelReply
  <2>5. del' \in [Deletes -> DelRec]
    <3>1. CASE Reply(d, "missing") \/ Reply(d, "busy")
      BY <2>4, <3>1, ReplyType
    <3>2. CASE row # Absent /\ del' = [del EXCEPT ![d].pc = "delete", ![d].repo = row.id]
      BY <2>3, <3>2 DEF TypeOK
    <3>3. QED
      BY <1>10, <3>1, <3>2 DEF DelRead
  <2>6. QED
    BY <1>10, <2>5 DEF DelRead, TypeOK
<1>11. ASSUME NEW d \in Deletes, DelStep(d) PROVE TypeOK'
  <2>3. del' \in [Deletes -> DelRec]
    BY <1>11, ReplyType DEF DelStep, DelExec, DelDeadlock, DelReply
  <2>4. row' \in Row \cup {Absent} /\ chunks' \in SUBSET Chunk
        /\ job' \in [Posts -> JobRec]
    BY <1>11, DeleteRowType DEF DelStep, DelExec, DelDeadlock, TypeOK
  <2>5. QED
    BY <1>11, <2>3, <2>4 DEF DelStep, DelExec, DelDeadlock, TypeOK
<1>12. ASSUME NEW j \in Posts, JobStart(j) PROVE TypeOK'
  <2>1. CASE job[j].try = MaxTries
    BY <1>12, <2>1, GotoType DEF JobStart, TypeOK, JobPc
  <2>2. CASE job[j].try # MaxTries
    <3>1. job[j].try + 1 \in 0..MaxTries
      BY <1>0, <2>2 DEF JobRec
    <3>2. \A pc \in JobPc :
            [job[j] EXCEPT !.try = job[j].try + 1, !.pc = pc] \in JobRec
      BY <1>0, <3>1 DEF JobRec
    <3>3. QED
      BY <1>12, <2>2, <3>2 DEF JobStart, TypeOK, JobPc
  <2>3. QED
    BY <2>1, <2>2
<1>13. ASSUME NEW j \in Posts, JobBuild(j) \/ JobClose(j) PROVE TypeOK'
  BY <1>13, GotoType DEF JobBuild, JobClose, TypeOK, JobPc
<1>14. ASSUME NEW j \in Posts, JobInsert(j) PROVE TypeOK'
  <2>1. [repo |-> job[j].repo, by |-> j, try |-> job[j].try] \in Chunk
    BY <1>0, <1>14 DEF JobInsert, HandlersKnowTheirRow, Running, JobRec, Chunk
  <2>2. [job[j] EXCEPT !.pc = "swap", !.mine =
           {[repo |-> job[j].repo, by |-> j, try |-> job[j].try]}] \in JobRec
    BY <1>0, <2>1 DEF JobRec, JobPc
  <2>3. job' \in [Posts -> JobRec]
    BY <1>14, <2>2, EndType DEF JobInsert, TypeOK, JobPc
  <2>4. QED
    BY <1>14, <2>3 DEF JobInsert, TypeOK
<1>15. ASSUME NEW j \in Posts, JobSwap(j) PROVE TypeOK'
  <2>1. [job[j] EXCEPT !.pc = "commit",
           !.doomed = {c \in chunks : c.repo = job[j].repo}] \in JobRec
    BY <1>0 DEF JobRec, JobPc, TypeOK
  <2>2. QED
    BY <1>15, <2>1 DEF JobSwap, TypeOK
<1>16. ASSUME NEW j \in Posts, JobCommit(j) PROVE TypeOK'
  <2>1. job[j].mine \in SUBSET Chunk
    BY <1>0 DEF JobRec
  <2>2. row' \in Row \cup {Absent}
    <3>1. CASE Exists(job[j].repo)
      <4>1. row \in Row
        BY <3>1 DEF Exists, TypeOK, Absent
      <4>2. QED
        BY <1>16, <2>1, <3>1, <4>1 DEF JobCommit, Row
    <3>2. CASE ~Exists(job[j].repo)
      BY <1>16, <3>2 DEF JobCommit, TypeOK
    <3>3. QED
      BY <3>1, <3>2
  <2>3. chunks' \in SUBSET Chunk
    BY <1>16, <2>1 DEF JobCommit, TypeOK
  <2>4. QED
    BY <1>16, <2>2, <2>3, EndType DEF JobCommit, TypeOK, JobPc
<1>17. ASSUME NEW j \in Posts, JobFail(j) PROVE TypeOK'
  <2>1. row' \in Row \cup {Absent}
    <3>1. CASE Exists(job[j].repo)
      <4>1. row \in Row
        BY <3>1 DEF Exists, TypeOK, Absent
      <4>2. QED
        BY <1>17, <3>1, <4>1 DEF JobFail, Row
    <3>2. CASE ~Exists(job[j].repo)
      BY <1>17, <3>2 DEF JobFail, TypeOK
    <3>3. QED
      BY <3>1, <3>2
  <2>2. QED
    BY <1>17, <2>1, EndType DEF JobFail, TypeOK, JobPc
<1>18. ASSUME NEW j \in Posts, WorkerCrash(j) \/ JobDies(j) PROVE TypeOK'
  BY <1>18, EndType DEF WorkerCrash, JobDies, TypeOK, JobPc
<1>19. CASE UNCHANGED vars
  BY <1>19 DEF vars, TypeOK
<1>20. QED
  BY <1>1, <1>2, <1>3, <1>4, <1>5, <1>6, <1>7, <1>8, <1>9, <1>10, <1>11,
     <1>12, <1>13, <1>14, <1>15, <1>16, <1>17, <1>18, <1>19
     DEF Next, PostStep, JobStep

-----------------------------------------------------------------------------
(* What the steps that rewrite a whole job record do to its fields.        *)

LEMMA QueueEffect ==
    ASSUME TypeOK, NEW r \in Posts, Queue(r)
    PROVE  /\ job'[r].pc = "queued" /\ job'[r].repo = post[r].repo
           /\ job'[r].try = 0 /\ job'[r].mine = {} /\ job'[r].doomed = {}
           /\ \A k \in Posts \ {r} : job'[k] = job[k]
<1>1. job \in [Posts -> JobRec]
  BY DEF TypeOK
<1>2. job'[r] = [NoJob EXCEPT !.pc = "queued", !.repo = post[r].repo]
  BY <1>1 DEF Queue
<1>3. QED
  BY <1>1, <1>2 DEF Queue, NoJob

LEMMA EndEffect ==
    ASSUME TypeOK, NEW j \in Posts, NEW pc, End(j, pc)
    PROVE  /\ job'[j].pc = pc /\ job'[j].repo = job[j].repo
           /\ job'[j].try = job[j].try
           /\ job'[j].mine = {} /\ job'[j].doomed = {}
           /\ \A k \in Posts \ {j} : job'[k] = job[k]
<1>1. job \in [Posts -> JobRec] /\ job[j] \in JobRec
  BY DEF TypeOK
<1>2. job'[j] = Ended(j, pc)
  BY <1>1 DEF End
<1>3. QED
  BY <1>1, <1>2 DEF End, Ended, JobRec

(* A repository delete takes no lock that a writing pass holds, so it      *)
(* disturbs no job but the empty ones it deadlocks with.                   *)
LEMMA DeleteRowEffect ==
    ASSUME TypeOK, NEW id, DeleteRow(id)
    PROVE  /\ \A j \in Posts :
                /\ job'[j].repo = job[j].repo /\ job'[j].try = job[j].try
                /\ job'[j].mine = job[j].mine
                /\ job'[j].doomed \subseteq job[j].doomed
                /\ \/ job'[j].pc = job[j].pc
                   \/ job[j].pc = "commit" /\ job[j].mine = {} /\ job'[j].pc = "done"
           /\ \/ UNCHANGED <<row, chunks>>
              \/ /\ row.id = id /\ ~ForeignKeyHeld(id)
                 /\ row' = Absent /\ chunks' = {c \in chunks : c.repo # row.id}
<1>1. job \in [Posts -> JobRec] /\ \A j \in Posts : job[j] \in JobRec
  BY DEF TypeOK
<1>2. CASE ~Exists(id)
  BY <1>1, <1>2 DEF DeleteRow
<1>3. CASE Exists(id)
  <2>1. \A j \in Posts \ CascadeVictims(id) : job'[j] = job[j]
    BY <1>1, <1>3 DEF DeleteRow
  <2>2. \A j \in CascadeVictims(id) :
          /\ job'[j] = Ended(j, "done")
          /\ job[j].pc = "commit" /\ job[j].mine = {}
    BY <1>1, <1>3 DEF DeleteRow, CascadeVictims
  <2>3. ASSUME NEW j \in Posts, job'[j] = Ended(j, "done"), job[j].mine = {},
               job[j].pc = "commit"
        PROVE  /\ job'[j].repo = job[j].repo /\ job'[j].try = job[j].try
               /\ job'[j].mine = job[j].mine
               /\ job'[j].doomed \subseteq job[j].doomed
               /\ job'[j].pc = "done"
    BY <1>1, <2>3 DEF Ended, JobRec
  <2>4. row.id = id /\ ~ForeignKeyHeld(id)
        /\ row' = Absent /\ chunks' = {c \in chunks : c.repo # row.id}
    BY <1>3 DEF DeleteRow, Exists
  <2>5. \A j \in Posts :
          /\ job'[j].repo = job[j].repo /\ job'[j].try = job[j].try
          /\ job'[j].mine = job[j].mine
          /\ job'[j].doomed \subseteq job[j].doomed
          /\ \/ job'[j].pc = job[j].pc
             \/ job[j].pc = "commit" /\ job[j].mine = {} /\ job'[j].pc = "done"
    BY <2>1, <2>2, <2>3
  <2>6. QED
    BY <2>4, <2>5
<1>4. QED
  BY <1>2, <1>3

-----------------------------------------------------------------------------
(* Each part of the invariant is preserved by every step.                  *)

(* The steps that touch neither row, nor chunks, nor jobs.                 *)
OnlyPost(r) == PostFound(r) \/ PostNoPool(r) \/ PostRollback(r) \/ PostCrash(r)
OnlyDel(d) == DelRead(d) \/ DelDeadlock(d)

(* The steps that move one job without ending its transaction, and those   *)
(* that end it.                                                            *)
Moves(j) == JobStart(j) \/ JobBuild(j) \/ JobSwap(j) \/ JobClose(j)
Ends(j) == JobCommit(j) \/ JobFail(j) \/ WorkerCrash(j) \/ JobDies(j)

LEMMA HandlersStep ==
    ASSUME TypeOK, HandlersKnowTheirRow, [Next]_vars
    PROVE  HandlersKnowTheirRow'
<1>0. /\ post \in [Posts -> PostRec] /\ job \in [Posts -> JobRec]
      /\ \A r \in Posts : post[r] \in PostRec /\ job[r] \in JobRec
  BY DEF TypeOK
<1>1. ASSUME NEW r \in Posts, OnlyPost(r) PROVE HandlersKnowTheirRow'
  <2>1. row # Absent => row.id \in Posts
    BY DEF TypeOK, Row
  <2>2. job' = job /\ \A k \in Posts : k # r => post'[k] = post[k]
    BY <1>0, <1>1 DEF OnlyPost, PostFound, PostNoPool, PostRollback, PostCrash,
       Answer
  <2>3. \/ post'[r].pc = "done"
        \/ post'[r].pc = "mark" /\ post'[r].repo \in Posts
        \/ /\ post[r].pc = "rollback" /\ post'[r].pc = "drop"
           /\ post'[r].repo = post[r].repo
    BY <1>0, <1>1, <2>1 DEF OnlyPost, PostFound, PostNoPool, PostRollback,
       PostCrash, Answer, PostRec
  <2>4. QED
    BY <2>2, <2>3 DEF HandlersKnowTheirRow
<1>2. ASSUME NEW r \in Posts, PostCreate(r) \/ PostMark(r) PROVE HandlersKnowTheirRow'
  BY <1>0, <1>2 DEF PostCreate, PostMark, Answer, HandlersKnowTheirRow, PostRec
<1>3. ASSUME NEW r \in Posts, PostEnqueue(r) \/ PostEnqueueFails(r)
      PROVE  HandlersKnowTheirRow'
  <2>1. post[r].repo \in Posts
    BY <1>3 DEF PostEnqueue, PostEnqueueFails, HandlersKnowTheirRow
  <2>2. \A k \in Posts : k # r => post'[k] = post[k]
    BY <1>0, <1>3 DEF PostEnqueue, PostEnqueueFails, Answer
  <2>3. post'[r].repo = post[r].repo
    BY <1>0, <1>3 DEF PostEnqueue, PostEnqueueFails, Answer, PostRec
  <2>4. job' = job \/ Queue(r)
    BY <1>3 DEF PostEnqueue, PostEnqueueFails
  <2>5. QED
    BY <2>1, <2>2, <2>3, <2>4, QueueEffect DEF HandlersKnowTheirRow, Running
<1>4. ASSUME NEW id, DeleteRow(id),
             \A k \in Posts : post'[k] = post[k] \/ post'[k].pc = "done"
      PROVE  HandlersKnowTheirRow'
  BY <1>4, DeleteRowEffect DEF HandlersKnowTheirRow, Running
<1>5. ASSUME NEW r \in Posts, PostDrop(r) PROVE HandlersKnowTheirRow'
  BY <1>0, <1>4, <1>5 DEF PostDrop, Answer, PostRec
<1>6. ASSUME NEW d \in Deletes, DelExec(d) PROVE HandlersKnowTheirRow'
  BY <1>4, <1>6 DEF DelExec
<1>7. ASSUME NEW d \in Deletes, OnlyDel(d) PROVE HandlersKnowTheirRow'
  BY <1>7 DEF OnlyDel, DelRead, DelDeadlock, HandlersKnowTheirRow
<1>8. ASSUME NEW j \in Posts, Moves(j) PROVE HandlersKnowTheirRow'
  BY <1>0, <1>8 DEF Moves, JobStart, JobBuild, JobSwap, JobClose, Goto,
     HandlersKnowTheirRow, Running, JobRec
<1>9. ASSUME NEW j \in Posts, JobInsert(j) PROVE HandlersKnowTheirRow'
  <2>1. post' = post /\ job[j].pc = "insert"
    BY <1>9 DEF JobInsert
  <2>2. /\ job'[j].repo = job[j].repo /\ job'[j].try = job[j].try
        /\ \A k \in Posts \ {j} : job'[k] = job[k]
    <3>1. CASE Exists(job[j].repo)
      BY <1>0, <1>9, <3>1 DEF JobInsert, JobRec
    <3>2. CASE ~Exists(job[j].repo)
      BY <1>9, <3>2, EndEffect DEF JobInsert
    <3>3. QED
      BY <3>1, <3>2
  <2>3. QED
    BY <2>1, <2>2 DEF HandlersKnowTheirRow, Running
<1>10. ASSUME NEW j \in Posts, Ends(j) PROVE HandlersKnowTheirRow'
  <2>1. job[j].pc # "none" /\ Running(job[j].pc) /\ post' = post
    BY <1>10 DEF Ends, JobCommit, JobFail, WorkerCrash, JobDies, Running
  <2>2. \E pc : End(j, pc)
    BY <1>10 DEF Ends, JobCommit, JobFail, WorkerCrash, JobDies
  <2>3. QED
    BY <2>1, <2>2, EndEffect DEF HandlersKnowTheirRow
<1>11. CASE UNCHANGED vars
  BY <1>11 DEF vars, HandlersKnowTheirRow
<1>12. QED
  BY <1>1, <1>2, <1>3, <1>5, <1>6, <1>7, <1>8, <1>9, <1>10, <1>11
     DEF Next, PostStep, DelStep, JobStep, OnlyPost, OnlyDel, Moves, Ends

LEMMA QueuedStep ==
    ASSUME TypeOK, QueuedOnce, [Next]_vars
    PROVE  QueuedOnce'
<1>0. /\ post \in [Posts -> PostRec] /\ job \in [Posts -> JobRec]
      /\ \A r \in Posts : post[r] \in PostRec /\ job[r] \in JobRec
  BY DEF TypeOK
<1>1. ASSUME NEW r \in Posts, OnlyPost(r) \/ PostCreate(r) \/ PostMark(r)
      PROVE  QueuedOnce'
  <2>1. job' = job /\ \A k \in Posts : k # r => post'[k] = post[k]
    BY <1>0, <1>1 DEF OnlyPost, PostFound, PostNoPool, PostRollback, PostCrash,
       PostCreate, PostMark, Answer
  <2>2. \/ post[r].pc \in {"idle", "mark"}
        \/ post'[r].pc \in {"drop", "done"}
    BY <1>0, <1>1 DEF OnlyPost, PostFound, PostNoPool, PostRollback, PostCrash,
       PostCreate, PostMark, Answer, PostRec
  <2>3. QED
    BY <2>1, <2>2 DEF QueuedOnce
<1>2. ASSUME NEW r \in Posts, PostEnqueue(r) \/ PostEnqueueFails(r)
      PROVE  QueuedOnce'
  <2>1. \A k \in Posts : k # r => post'[k] = post[k]
    BY <1>0, <1>2 DEF PostEnqueue, PostEnqueueFails, Answer
  <2>2. post'[r].pc \in {"rollback", "done"}
    BY <1>0, <1>2 DEF PostEnqueue, PostEnqueueFails, Answer, PostRec
  <2>3. job' = job \/ Queue(r)
    BY <1>2 DEF PostEnqueue, PostEnqueueFails
  <2>4. QED
    BY <2>1, <2>2, <2>3, QueueEffect DEF QueuedOnce
<1>3. ASSUME NEW id, DeleteRow(id),
             \A k \in Posts : post'[k] = post[k] \/ post'[k].pc = "done"
      PROVE  QueuedOnce'
  BY <1>3, DeleteRowEffect DEF QueuedOnce
<1>4. ASSUME NEW r \in Posts, PostDrop(r) PROVE QueuedOnce'
  BY <1>0, <1>3, <1>4 DEF PostDrop, Answer, PostRec
<1>5. ASSUME NEW d \in Deletes, DelExec(d) PROVE QueuedOnce'
  BY <1>3, <1>5 DEF DelExec
<1>6. ASSUME NEW d \in Deletes, OnlyDel(d) PROVE QueuedOnce'
  BY <1>6 DEF OnlyDel, DelRead, DelDeadlock, QueuedOnce
<1>7. ASSUME NEW j \in Posts, Moves(j) \/ JobInsert(j) \/ Ends(j)
      PROVE  QueuedOnce'
  <2>1. post' = post /\ job[j].pc # "none"
    BY <1>7 DEF Moves, JobStart, JobBuild, JobSwap, JobClose, JobInsert, Ends,
       JobCommit, JobFail, WorkerCrash, JobDies, Running
  <2>2. \A k \in Posts : k # j => job'[k] = job[k]
    BY <1>0, <1>7 DEF Moves, JobStart, JobBuild, JobSwap, JobClose, JobInsert,
       Ends, JobCommit, JobFail, WorkerCrash, JobDies, Goto, End
  <2>3. QED
    BY <2>1, <2>2 DEF QueuedOnce
<1>8. CASE UNCHANGED vars
  BY <1>8 DEF vars, QueuedOnce
<1>9. QED
  BY <1>1, <1>2, <1>4, <1>5, <1>6, <1>7, <1>8
     DEF Next, PostStep, DelStep, JobStep, OnlyPost, OnlyDel, Moves, Ends

(* A row under a foreign-key lock is still there after the step.           *)
LEMMA OpenInsertsStep ==
    ASSUME TypeOK, OpenInserts, [Next]_vars
    PROVE  OpenInserts'
<1>0. /\ post \in [Posts -> PostRec] /\ job \in [Posts -> JobRec]
      /\ \A r \in Posts : post[r] \in PostRec /\ job[r] \in JobRec
  BY DEF TypeOK
<1>1. ASSUME NEW r \in Posts, PostCreate(r) PROVE OpenInserts'
  <2>1. \A j \in Posts : job[j].mine # {} => job[j].repo = NoRepo
    BY <1>1 DEF PostCreate, OpenInserts, Absent
  <2>2. \A j \in Posts : job[j].mine = {}
    BY <1>0, <2>1 DEF OpenInserts, JobRec, Chunk
  <2>3. QED
    BY <1>1, <2>2 DEF PostCreate, OpenInserts
<1>2. ASSUME job' = job, row'.id = row.id PROVE OpenInserts'
  BY <1>2 DEF OpenInserts
<1>3. ASSUME NEW r \in Posts, OnlyPost(r) \/ PostMark(r) PROVE OpenInserts'
  <2>1. row'.id = row.id
    BY <1>3 DEF OnlyPost, PostFound, PostNoPool, PostRollback, PostCrash,
       PostMark, TypeOK, Row, Absent
  <2>2. QED
    BY <1>2, <1>3, <2>1 DEF OnlyPost, PostFound, PostNoPool, PostRollback,
       PostCrash, PostMark
<1>4. ASSUME NEW r \in Posts, PostEnqueue(r) \/ PostEnqueueFails(r)
      PROVE  OpenInserts'
  <2>1. row' = row /\ (job' = job \/ Queue(r))
    BY <1>4 DEF PostEnqueue, PostEnqueueFails
  <2>2. QED
    BY <2>1, QueueEffect DEF OpenInserts
<1>5. ASSUME NEW id, DeleteRow(id) PROVE OpenInserts'
  <2>1. CASE UNCHANGED <<row, chunks>>
    BY <1>5, <2>1, DeleteRowEffect DEF OpenInserts
  <2>2. CASE row.id = id /\ ~ForeignKeyHeld(id)
    <3>1. \A j \in Posts : job[j].mine = {}
      BY <2>2 DEF OpenInserts, ForeignKeyHeld
    <3>2. QED
      BY <1>5, <3>1, DeleteRowEffect DEF OpenInserts
  <2>3. QED
    BY <1>5, <2>1, <2>2, DeleteRowEffect
<1>6. ASSUME NEW r \in Posts, PostDrop(r) PROVE OpenInserts'
  BY <1>5, <1>6 DEF PostDrop
<1>7. ASSUME NEW d \in Deletes, DelExec(d) PROVE OpenInserts'
  BY <1>5, <1>7 DEF DelExec
<1>8. ASSUME NEW d \in Deletes, OnlyDel(d) PROVE OpenInserts'
  BY <1>8 DEF OnlyDel, DelRead, DelDeadlock, OpenInserts
<1>9. ASSUME NEW j \in Posts, Moves(j) PROVE OpenInserts'
  BY <1>0, <1>9 DEF Moves, JobStart, JobBuild, JobSwap, JobClose, Goto,
     OpenInserts, JobRec
<1>10. ASSUME NEW j \in Posts, JobInsert(j) PROVE OpenInserts'
  <2>1. row' = row
    BY <1>10 DEF JobInsert
  <2>2. CASE Exists(job[j].repo)
    <3>1. /\ job'[j].pc = "swap" /\ job'[j].repo = job[j].repo
          /\ job'[j].try = job[j].try
          /\ job'[j].mine =
               {[repo |-> job[j].repo, by |-> j, try |-> job[j].try]}
          /\ \A k \in Posts \ {j} : job'[k] = job[k]
      BY <1>0, <1>10, <2>2 DEF JobInsert, JobRec
    <3>2. QED
      BY <2>1, <2>2, <3>1 DEF OpenInserts, Exists
  <2>3. CASE ~Exists(job[j].repo)
    BY <1>10, <2>1, <2>3, EndEffect DEF JobInsert, OpenInserts
  <2>4. QED
    BY <2>2, <2>3
<1>11. ASSUME NEW j \in Posts, Ends(j) PROVE OpenInserts'
  <2>1. \E pc : End(j, pc)
    BY <1>11 DEF Ends, JobCommit, JobFail, WorkerCrash, JobDies
  <2>2. row'.id = row.id
    BY <1>11 DEF Ends, JobCommit, JobFail, WorkerCrash, JobDies, TypeOK, Row,
       Absent
  <2>3. QED
    BY <2>1, <2>2, EndEffect DEF OpenInserts
<1>12. CASE UNCHANGED vars
  BY <1>12 DEF vars, OpenInserts
<1>13. QED
  BY <1>1, <1>3, <1>4, <1>6, <1>7, <1>8, <1>9, <1>10, <1>11, <1>12
     DEF Next, PostStep, DelStep, JobStep, OnlyPost, OnlyDel, Moves, Ends

LEMMA OpenDeletesStep ==
    ASSUME TypeOK, OpenDeletes, [Next]_vars
    PROVE  OpenDeletes'
<1>0. /\ job \in [Posts -> JobRec] /\ \A r \in Posts : job[r] \in JobRec
  BY DEF TypeOK
<1>1. ASSUME job' = job PROVE OpenDeletes'
  BY <1>1 DEF OpenDeletes
<1>2. ASSUME NEW r \in Posts,
             OnlyPost(r) \/ PostCreate(r) \/ PostMark(r)
      PROVE  OpenDeletes'
  BY <1>1, <1>2 DEF OnlyPost, PostFound, PostNoPool, PostRollback, PostCrash,
     PostCreate, PostMark
<1>3. ASSUME NEW r \in Posts, PostEnqueue(r) \/ PostEnqueueFails(r)
      PROVE  OpenDeletes'
  <2>1. job' = job \/ Queue(r)
    BY <1>3 DEF PostEnqueue, PostEnqueueFails
  <2>2. QED
    BY <2>1, QueueEffect DEF OpenDeletes
<1>4. ASSUME NEW id, DeleteRow(id) PROVE OpenDeletes'
  BY <1>4, DeleteRowEffect DEF OpenDeletes
<1>5. ASSUME NEW r \in Posts, PostDrop(r) PROVE OpenDeletes'
  BY <1>4, <1>5 DEF PostDrop
<1>6. ASSUME NEW d \in Deletes, DelExec(d) PROVE OpenDeletes'
  BY <1>4, <1>6 DEF DelExec
<1>7. ASSUME NEW d \in Deletes, OnlyDel(d) PROVE OpenDeletes'
  BY <1>1, <1>7 DEF OnlyDel, DelRead, DelDeadlock
<1>8. ASSUME NEW j \in Posts, Moves(j) PROVE OpenDeletes'
  BY <1>0, <1>8 DEF Moves, JobStart, JobBuild, JobSwap, JobClose, Goto,
     OpenDeletes, JobRec
<1>9. ASSUME NEW j \in Posts, JobInsert(j) PROVE OpenDeletes'
  <2>1. CASE Exists(job[j].repo)
    <3>1. /\ job'[j].repo = job[j].repo /\ job'[j].doomed = job[j].doomed
          /\ \A k \in Posts \ {j} : job'[k] = job[k]
      BY <1>0, <1>9, <2>1 DEF JobInsert, JobRec
    <3>2. QED
      BY <3>1 DEF OpenDeletes
  <2>2. CASE ~Exists(job[j].repo)
    BY <1>9, <2>2, EndEffect DEF JobInsert, OpenDeletes
  <2>3. QED
    BY <2>1, <2>2
<1>10. ASSUME NEW j \in Posts, Ends(j) PROVE OpenDeletes'
  <2>1. \E pc : End(j, pc)
    BY <1>10 DEF Ends, JobCommit, JobFail, WorkerCrash, JobDies
  <2>2. QED
    BY <2>1, EndEffect DEF OpenDeletes
<1>11. CASE UNCHANGED vars
  BY <1>1, <1>11 DEF vars
<1>12. QED
  BY <1>2, <1>3, <1>5, <1>6, <1>7, <1>8, <1>9, <1>10, <1>11
     DEF Next, PostStep, DelStep, JobStep, OnlyPost, OnlyDel, Moves, Ends

(* The tables agree after every step: no stray chunk, and the listed pass  *)
(* stored.  Only a commit and a repository delete change `chunks`.         *)
LEMMA TablesStep ==
    ASSUME TypeOK, NoStrayChunks, AdvertisedIndexStored, OpenInserts,
           OpenDeletes, [Next]_vars
    PROVE  NoStrayChunks' /\ AdvertisedIndexStored'
<1>0. /\ job \in [Posts -> JobRec] /\ \A r \in Posts : job[r] \in JobRec
      /\ \A c \in chunks : c \in Chunk /\ c.repo \in Posts
      /\ row.id = NoRepo => chunks = {}
  BY DEF TypeOK, NoStrayChunks, Chunk
<1>1. ASSUME chunks' = chunks, row'.id = row.id,
             row'.listed \in {{}, row.listed}
      PROVE  NoStrayChunks' /\ AdvertisedIndexStored'
  BY <1>1 DEF NoStrayChunks, AdvertisedIndexStored
<1>2. ASSUME NEW r \in Posts, PostCreate(r)
      PROVE  NoStrayChunks' /\ AdvertisedIndexStored'
  BY <1>0, <1>2 DEF PostCreate, Absent, NoStrayChunks, AdvertisedIndexStored
<1>3. ASSUME NEW r \in Posts, PostMark(r)
      PROVE  NoStrayChunks' /\ AdvertisedIndexStored'
  <2>1. row'.id = row.id /\ row'.listed \in {{}, row.listed}
    BY <1>3 DEF PostMark, TypeOK, Row, Absent
  <2>2. QED
    BY <1>1, <1>3, <2>1 DEF PostMark
<1>4. ASSUME UNCHANGED <<row, chunks>>
      PROVE  NoStrayChunks' /\ AdvertisedIndexStored'
  BY <1>4 DEF NoStrayChunks, AdvertisedIndexStored
<1>5. ASSUME NEW r \in Posts, OnlyPost(r) \/ PostEnqueue(r) \/ PostEnqueueFails(r)
      PROVE  NoStrayChunks' /\ AdvertisedIndexStored'
  BY <1>4, <1>5 DEF OnlyPost, PostFound, PostNoPool, PostRollback, PostCrash,
     PostEnqueue, PostEnqueueFails
<1>6. ASSUME NEW id, DeleteRow(id)
      PROVE  NoStrayChunks' /\ AdvertisedIndexStored'
  <2>1. CASE UNCHANGED <<row, chunks>>
    BY <1>4, <2>1
  <2>2. CASE row' = Absent /\ chunks' = {c \in chunks : c.repo # row.id}
    BY <2>2 DEF NoStrayChunks, AdvertisedIndexStored, Absent
  <2>3. QED
    BY <1>6, <2>1, <2>2, DeleteRowEffect
<1>7. ASSUME NEW r \in Posts, PostDrop(r)
      PROVE  NoStrayChunks' /\ AdvertisedIndexStored'
  BY <1>6, <1>7 DEF PostDrop
<1>8. ASSUME NEW d \in Deletes, DelExec(d)
      PROVE  NoStrayChunks' /\ AdvertisedIndexStored'
  BY <1>6, <1>8 DEF DelExec
<1>9. ASSUME NEW d \in Deletes, OnlyDel(d)
      PROVE  NoStrayChunks' /\ AdvertisedIndexStored'
  BY <1>4, <1>9 DEF OnlyDel, DelRead, DelDeadlock
<1>10. ASSUME NEW j \in Posts,
              Moves(j) \/ JobInsert(j) \/ WorkerCrash(j) \/ JobDies(j)
       PROVE  NoStrayChunks' /\ AdvertisedIndexStored'
  BY <1>4, <1>10 DEF Moves, JobStart, JobBuild, JobSwap, JobClose, JobInsert,
     WorkerCrash, JobDies
<1>11. ASSUME NEW j \in Posts, JobFail(j)
       PROVE  NoStrayChunks' /\ AdvertisedIndexStored'
  <2>1. row'.id = row.id /\ row'.listed = row.listed
    BY <1>11 DEF JobFail, TypeOK, Row, Absent
  <2>2. QED
    BY <1>1, <1>11, <2>1 DEF JobFail
<1>12. ASSUME NEW j \in Posts, JobCommit(j)
       PROVE  NoStrayChunks' /\ AdvertisedIndexStored'
  <2>1. CASE Exists(job[j].repo)
    <3>1. row'.id = row.id /\ row'.listed = job[j].mine
      BY <1>12, <2>1 DEF JobCommit, Exists, TypeOK, Row, Absent
    <3>2. \A c \in job[j].mine : c.repo = row.id
      BY DEF OpenInserts
    <3>3. chunks' = (chunks \ job[j].doomed) \cup job[j].mine
      BY <1>12 DEF JobCommit
    <3>4. QED
      BY <3>1, <3>2, <3>3 DEF NoStrayChunks, AdvertisedIndexStored
  <2>2. CASE ~Exists(job[j].repo)
    <3>1. row' = row
      BY <1>12, <2>2 DEF JobCommit
    <3>2. job[j].mine = {} \/ (job[j].repo = row.id /\ row.id = NoRepo)
      BY <2>2 DEF Exists, OpenInserts
    <3>3. job[j].mine = {}
      BY <1>0, <3>2 DEF OpenInserts, JobRec, Chunk
    <3>4. \A c \in job[j].doomed : c.repo # row.id \/ row.id = NoRepo
      BY <2>2 DEF Exists, OpenDeletes
    <3>5. chunks' = chunks \ job[j].doomed
      BY <1>12, <3>3 DEF JobCommit
    <3>6. QED
      BY <1>0, <3>1, <3>4, <3>5 DEF NoStrayChunks, AdvertisedIndexStored
  <2>3. QED
    BY <2>1, <2>2
<1>13. CASE UNCHANGED vars
  BY <1>4, <1>13 DEF vars
<1>14. QED
  BY <1>2, <1>3, <1>5, <1>7, <1>8, <1>9, <1>10, <1>11, <1>12, <1>13
     DEF Next, PostStep, DelStep, JobStep, OnlyPost, OnlyDel, Moves

(* No pass is stored twice: a job is queued once, and every run has a      *)
(* number of its own.                                                      *)
LEMMA PassesStep ==
    ASSUME TypeOK, OpenInserts, QueuedOnce, PassesAreNew, [Next]_vars
    PROVE  PassesAreNew'
<1>0. /\ job \in [Posts -> JobRec]
      /\ \A r \in Posts : job[r] \in JobRec /\ job[r].try \in Nat
      /\ \A c \in chunks : c.by \in Posts /\ c.try \in Nat /\ c.try >= 1
  BY DEF TypeOK, JobRec, Chunk
<1>1. ASSUME chunks' \subseteq chunks, job' = job PROVE PassesAreNew'
  BY <1>1 DEF PassesAreNew
<1>2. ASSUME NEW r \in Posts, OnlyPost(r) \/ PostCreate(r) \/ PostMark(r)
      PROVE  PassesAreNew'
  BY <1>1, <1>2 DEF OnlyPost, PostFound, PostNoPool, PostRollback, PostCrash,
     PostCreate, PostMark
<1>3. ASSUME NEW r \in Posts, PostEnqueue(r) \/ PostEnqueueFails(r)
      PROVE  PassesAreNew'
  <2>1. chunks' = chunks /\ (job' = job \/ Queue(r))
    BY <1>3 DEF PostEnqueue, PostEnqueueFails
  <2>2. \A c \in chunks : c.by # r
    <3>1. job[r].try = 0
      BY <1>3 DEF PostEnqueue, PostEnqueueFails, QueuedOnce
    <3>2. QED
      BY <1>0, <3>1 DEF PassesAreNew
  <2>3. QED
    BY <1>0, <2>1, <2>2, QueueEffect DEF PassesAreNew
<1>4. ASSUME NEW id, DeleteRow(id) PROVE PassesAreNew'
  <2>1. chunks' \subseteq chunks
    BY <1>4, DeleteRowEffect
  <2>2. QED
    BY <1>0, <1>4, <2>1, DeleteRowEffect DEF PassesAreNew
<1>5. ASSUME NEW r \in Posts, PostDrop(r) PROVE PassesAreNew'
  BY <1>4, <1>5 DEF PostDrop
<1>6. ASSUME NEW d \in Deletes, DelExec(d) PROVE PassesAreNew'
  BY <1>4, <1>6 DEF DelExec
<1>7. ASSUME NEW d \in Deletes, OnlyDel(d) PROVE PassesAreNew'
  BY <1>1, <1>7 DEF OnlyDel, DelRead, DelDeadlock
<1>8. ASSUME NEW j \in Posts, JobStart(j) PROVE PassesAreNew'
  <2>1. /\ chunks' = chunks
        /\ \A k \in Posts \ {j} : job'[k] = job[k]
        /\ \/ job'[j].try = job[j].try /\ job'[j].pc = "dead"
           \/ job'[j].try = job[j].try + 1
    BY <1>0, <1>8 DEF JobStart, Goto, JobRec
  <2>2. QED
    BY <1>0, <2>1 DEF PassesAreNew
<1>9. ASSUME NEW j \in Posts, JobBuild(j) \/ JobSwap(j) \/ JobClose(j)
      PROVE  PassesAreNew'
  <2>1. /\ chunks' = chunks
        /\ \A k \in Posts \ {j} : job'[k] = job[k]
        /\ job'[j].try = job[j].try
        /\ job[j].pc \in {"close", "lost", "done", "dead"} => job'[j].pc = "done"
    BY <1>0, <1>9 DEF JobBuild, JobSwap, JobClose, Goto, JobRec
  <2>2. QED
    BY <1>0, <2>1 DEF PassesAreNew
<1>10. ASSUME NEW j \in Posts, JobInsert(j) PROVE PassesAreNew'
  <2>1. chunks' = chunks /\ job[j].pc = "insert"
    BY <1>10 DEF JobInsert
  <2>2. CASE Exists(job[j].repo)
    <3>1. job'[j].try = job[j].try /\ \A k \in Posts \ {j} : job'[k] = job[k]
      BY <1>0, <1>10, <2>2 DEF JobInsert, JobRec
    <3>2. QED
      BY <1>0, <2>1, <3>1 DEF PassesAreNew
  <2>3. CASE ~Exists(job[j].repo)
    BY <1>0, <1>10, <2>1, <2>3, EndEffect DEF JobInsert, PassesAreNew
  <2>4. QED
    BY <2>2, <2>3
<1>11. ASSUME NEW j \in Posts, Ends(j) PROVE PassesAreNew'
  <2>1. \E pc \in {"close", "lost", "done", "dead"} : End(j, pc)
    BY <1>11 DEF Ends, JobCommit, JobFail, WorkerCrash, JobDies
  <2>2. \A c \in chunks' \ chunks : c.by = j /\ c.try = job[j].try
    BY <1>11 DEF Ends, JobCommit, JobFail, WorkerCrash, JobDies, OpenInserts
  <2>3. QED
    BY <1>0, <2>1, <2>2, EndEffect DEF PassesAreNew
<1>12. CASE UNCHANGED vars
  BY <1>1, <1>12 DEF vars
<1>13. QED
  BY <1>2, <1>3, <1>5, <1>6, <1>7, <1>8, <1>9, <1>10, <1>11, <1>12
     DEF Next, PostStep, DelStep, JobStep, OnlyPost, OnlyDel, Ends

-----------------------------------------------------------------------------
(* The theorems.                                                           *)

(* IInv holds at the start, and no step leaves it.                         *)
THEOREM InitialStates == Init => IInv
<1> SUFFICES ASSUME Init PROVE IInv
  OBVIOUS
<1>1. /\ IdlePost \in PostRec /\ IdlePost.pc = "idle"
      /\ IdleDel \in DelRec
  BY DEF IdlePost, IdleDel, PostRec, DelRec, PostPc, PostReply, DelPc, DelReply
<1>2. 0 \in 0..MaxTries
  OBVIOUS
<1>3. /\ NoJob \in JobRec /\ NoJob.pc = "none" /\ NoJob.try = 0
      /\ NoJob.mine = {} /\ NoJob.doomed = {}
  BY <1>2 DEF NoJob, JobRec, JobPc
<1>4. TypeOK
  BY <1>1, <1>3 DEF Init, TypeOK
<1>5. NoStrayChunks /\ AdvertisedIndexStored /\ PassesAreNew
  BY DEF Init, NoStrayChunks, AdvertisedIndexStored, PassesAreNew, Absent
<1>6. OpenInserts /\ OpenDeletes
  BY <1>3 DEF Init, OpenInserts, OpenDeletes
<1>7. QueuedOnce /\ HandlersKnowTheirRow
  BY <1>1, <1>3 DEF Init, QueuedOnce, HandlersKnowTheirRow, Running
<1>8. QED
  BY <1>4, <1>5, <1>6, <1>7 DEF IInv

THEOREM Invariance == Spec => []IInv
<1>1. IInv /\ [Next]_vars => IInv'
  BY TypeStep, HandlersStep, QueuedStep, OpenInsertsStep, OpenDeletesStep,
     TablesStep, PassesStep DEF IInv
<1>2. QED
  BY <1>1, InitialStates, PTL DEF Spec

(* Type correctness, for all requests, faults and max_tries.               *)
THEOREM TypeCorrect == Spec => []TypeOK
BY Invariance, PTL DEF IInv

(* No chunk outlives its repository, however requests and jobs interleave. *)
THEOREM ChunksHaveTheirRow == Spec => []NoStrayChunks
BY Invariance, PTL DEF IInv

(* The pass that a row advertises is stored, however swaps interleave.     *)
THEOREM AdvertisedIsStored == Spec => []AdvertisedIndexStored
BY Invariance, PTL DEF IInv

(* Readers see new chunks only with the row that counts them.              *)
THEOREM SwapIsAtomic == Spec => ChunksAppearWithTheirRow
<1> DEFINE Together == ~(chunks' \subseteq chunks) =>
                          row'.indexed /\ row'.listed = chunks' \ chunks
<1>1. ASSUME IInv, [Next]_vars PROVE [Together]_vars
  <2>1. ASSUME ~(chunks' \subseteq chunks)
        PROVE  \E j \in Posts : JobCommit(j)
    <3>1. \A id : DeleteRow(id) => chunks' \subseteq chunks
      BY DEF DeleteRow
    <3>2. QED
      BY <1>1, <2>1, <3>1 DEF Next, vars, PostStep, DelStep, JobStep, PostCreate,
         PostFound, PostMark, PostEnqueue, PostNoPool, PostEnqueueFails,
         PostRollback, PostDrop, PostCrash, DelRead, DelExec, DelDeadlock,
         JobStart, JobBuild, JobInsert, JobSwap, JobFail, JobClose, WorkerCrash,
         JobDies
  <2>2. ASSUME NEW j \in Posts, JobCommit(j), ~(chunks' \subseteq chunks)
        PROVE  row'.indexed /\ row'.listed = chunks' \ chunks
    <3>1. /\ job[j].pc = "commit" /\ job[j].mine # {}
          /\ job[j].mine \subseteq Chunk
      BY <1>1, <2>2 DEF JobCommit, IInv, TypeOK, JobRec
    <3>2. Exists(job[j].repo)
      BY <1>1, <3>1 DEF IInv, OpenInserts, Chunk, Exists
    <3>3. row'.indexed /\ row'.listed = job[j].mine
      BY <1>1, <2>2, <3>2 DEF JobCommit, Exists, IInv, TypeOK, Row, Absent
    <3>4. job[j].mine \cap chunks = {}
      BY <1>1, <3>1 DEF IInv, OpenInserts, PassesAreNew
    <3>5. QED
      BY <2>2, <3>3, <3>4 DEF JobCommit
  <2>3. QED
    BY <2>1, <2>2
<1>2. QED
  BY <1>1, Invariance, PTL DEF Spec, ChunksAppearWithTheirRow

-----------------------------------------------------------------------------
(* One operator: at most one handler is between its first and last step.   *)
BusyPost(r) == post[r].pc \notin {"idle", "done"}
BusyDel(d) == del[d].pc \notin {"idle", "done"}

OneHandler ==
    /\ \A r, s \in Posts : BusyPost(r) /\ BusyPost(s) => r = s
    /\ \A c, d \in Deletes : BusyDel(c) /\ BusyDel(d) => c = d
    /\ \A r \in Posts, d \in Deletes : ~(BusyPost(r) /\ BusyDel(d))

(* Nobody takes the row of a POST away, and until the POST has queued its  *)
(* job nothing changes what it read or wrote.                              *)
PostsHoldTheirRow ==
    \A r \in Posts :
        /\ BusyPost(r) => row.id = post[r].repo
        /\ post[r].pc = "mark" => row = post[r].seen
        /\ post[r].pc = "enqueue" => Pending(row)

(* A job in flight for the row means that the row shows "indexing" and has *)
(* no handler that is about to queue another.                              *)
FlightsArePending ==
    \A j \in Posts : Live(j) /\ job[j].repo = row.id =>
        /\ Pending(row)
        /\ \A r \in Posts : post[r].pc \notin {"mark", "enqueue"}

(* No two live jobs have the same repository.                              *)
OneLiveJob ==
    \A j, k \in Posts : Live(j) /\ Live(k) /\ job[j].repo = job[k].repo => j = k

(* A POST that has not begun has given its id to no row and to no job.     *)
IdsAreFresh ==
    \A r \in Posts : post[r].pc = "idle" =>
        row.id # r /\ \A j \in Posts : job[j].repo # r

OneInv ==
    /\ TypeOK
    /\ HandlersKnowTheirRow
    /\ QueuedOnce
    /\ OneHandler
    /\ PostsHoldTheirRow
    /\ FlightsArePending
    /\ OneLiveJob
    /\ IdsAreFresh

(* The row of an outstanding pass lists nothing.                           *)
PendingListsNothing == Pending(row) => row.listed = {}

(* Who is answered is done, and a job is for the row of its POST.          *)
AnsweredIsDone == \A r \in Posts : post[r].reply # "none" => post[r].pc = "done"

JobsHaveTheirRow ==
    \A r \in Posts : job[r].pc # "none" => job[r].repo = post[r].repo

(* The guards of _register_async and delete_repo: nobody is about to touch *)
(* a row that shows "indexing" but the POST that made it so.               *)
MarksSettledRows ==
    \A r \in Posts : post[r].pc = "mark" => ~Pending(post[r].seen)

DeletesSettledRows ==
    \A d \in Deletes :
        del[d].pc = "delete" /\ del[d].repo = row.id => ~Pending(row)

(* A POST that rolls back although Redis took its job (the answer was      *)
(* lost) finds the row settled when that job is over.                      *)
OverJobsSettled ==
    \A r \in Posts :
        post[r].pc \in {"rollback", "drop"} /\ job[r].pc \in {"close", "done"}
            => ~Pending(row)

OwedInv ==
    /\ OneInv
    /\ PendingListsNothing
    /\ AnsweredIsDone
    /\ JobsHaveTheirRow
    /\ MarksSettledRows
    /\ DeletesSettledRows
    /\ OverJobsSettled
    /\ IndexingIsOwed

(* What the transaction of the row's job deletes is all that is stored.    *)
SwapIsWhole ==
    \A j \in Posts : job[j].pc = "commit" /\ job[j].repo = row.id
                       => job[j].doomed = chunks

(* A step of a job queues nothing and revives nothing; it changes the row  *)
(* only when it is the last of a job that was in flight for that row.      *)
JobSide(j) == Moves(j) \/ JobInsert(j) \/ Ends(j)

NoRevival ==
    \A k \in Posts : job'[k].repo = job[k].repo /\ (Live(k)' => Live(k))

LEMMA JobSideEffect ==
    ASSUME TypeOK, "crash" \notin Faults, NEW j \in Posts, JobSide(j)
    PROVE  /\ UNCHANGED <<post, del>>
           /\ NoRevival
           /\ \/ row' = row
              \/ /\ row'.id = row.id /\ ~Pending(row')
                 /\ Exists(job[j].repo) /\ Live(j) /\ ~Live(j)'
<1>0. /\ job \in [Posts -> JobRec] /\ \A k \in Posts : job[k] \in JobRec
  BY DEF TypeOK
<1>1. CASE Moves(j)
  <2>1. UNCHANGED <<post, del, row>> /\ \A k \in Posts : k # j => job'[k] = job[k]
    BY <1>0, <1>1 DEF Moves, JobStart, JobBuild, JobSwap, JobClose, Goto
  <2>2. job'[j].repo = job[j].repo
    BY <1>0, <1>1 DEF Moves, JobStart, JobBuild, JobSwap, JobClose, Goto, JobRec
  <2>3. Live(j)' => Live(j)
    BY <1>0, <1>1 DEF Moves, JobStart, JobBuild, JobSwap, JobClose, Goto, JobRec,
       Live, JobPc
  <2>4. QED
    BY <2>1, <2>2, <2>3 DEF NoRevival, Live
<1>2. CASE JobInsert(j)
  <2>1. UNCHANGED <<post, del, row>> /\ Live(j)
    BY <1>2 DEF JobInsert, Live, JobPc
  <2>2. job'[j].repo = job[j].repo /\ \A k \in Posts : k # j => job'[k] = job[k]
    <3>1. CASE Exists(job[j].repo)
      BY <1>0, <1>2, <3>1 DEF JobInsert, JobRec
    <3>2. CASE ~Exists(job[j].repo)
      BY <1>2, <3>2, EndEffect DEF JobInsert
    <3>3. QED
      BY <3>1, <3>2
  <2>3. QED
    BY <2>1, <2>2 DEF NoRevival, Live
<1>3. CASE Ends(j)
  <2>1. /\ UNCHANGED <<post, del>>
        /\ \E pc \in {"close", "done", "dead"} : End(j, pc)
    BY <1>3 DEF Ends, JobCommit, JobFail, WorkerCrash, JobDies
  <2>2. ~Live(j)' /\ NoRevival
    <3>1. /\ job'[j].pc \in {"close", "done", "dead"} /\ job'[j].repo = job[j].repo
          /\ \A k \in Posts \ {j} : job'[k] = job[k]
      BY <2>1, EndEffect
    <3>2. QED
      BY <3>1 DEF NoRevival, Live, JobPc
  <2>3. row' # row => /\ JobCommit(j) \/ JobFail(j)
                      /\ Exists(job[j].repo) /\ Live(j)
    BY <1>3 DEF Ends, JobCommit, JobFail, WorkerCrash, JobDies, Live, JobPc
  <2>4. row' # row => row'.id = row.id /\ ~Pending(row')
    <3>1. row \in Row \cup {Absent}
      BY DEF TypeOK
    <3>2. QED
      BY <2>3, <3>1 DEF JobCommit, JobFail, Pending, Row, Absent
  <2>5. QED
    BY <2>1, <2>2, <2>3, <2>4
<1>4. QED
  BY <1>1, <1>2, <1>3 DEF JobSide

(* Deleting a row revives no job either.                                   *)
LEMMA DeleteRowRevivesNothing ==
    ASSUME TypeOK, NEW id, DeleteRow(id)
    PROVE  NoRevival /\ (row' = row \/ row' = Absent)
<1>1. \A k \in Posts : /\ job'[k].repo = job[k].repo
                       /\ \/ job'[k].pc = job[k].pc
                          \/ job[k].pc = "commit" /\ job'[k].pc = "done"
  BY DeleteRowEffect
<1>2. row' = row \/ row' = Absent
  BY DEF DeleteRow
<1>3. QED
  BY <1>1, <1>2 DEF NoRevival, Live, JobPc

(* Every step is of one of these kinds.                                    *)
LEMMA StepKinds ==
    ASSUME [Next]_vars
    PROVE  \/ \E r \in Posts : \/ PostCreate(r) \/ OnlyPost(r) \/ PostMark(r)
                               \/ PostEnqueue(r) \/ PostEnqueueFails(r)
                               \/ PostDrop(r) \/ JobSide(r)
           \/ \E d \in Deletes : OnlyDel(d) \/ DelExec(d)
           \/ UNCHANGED vars
BY DEF Next, PostStep, DelStep, JobStep, OnlyPost, OnlyDel, JobSide, Moves, Ends

(* How each kind of step moves its handler.                                *)
LEMMA PostMoves ==
    ASSUME TypeOK, NEW r \in Posts,
           PostCreate(r) \/ OnlyPost(r) \/ PostMark(r) \/ PostEnqueue(r)
             \/ PostEnqueueFails(r) \/ PostDrop(r)
    PROVE  /\ del' = del /\ \A k \in Posts : k # r => post'[k] = post[k]
           /\ post[r].pc # "idle" => post'[r].repo = post[r].repo
           /\ post'[r].pc # "idle"
           /\ post[r].pc \notin {"idle", "done"} \/ (post[r].pc = "idle" /\ MayStart)
<1>0. /\ post \in [Posts -> PostRec] /\ post[r] \in PostRec
  BY DEF TypeOK
<1>1. CASE PostCreate(r) \/ PostFound(r)
  BY <1>0, <1>1 DEF PostCreate, PostFound, Answer, PostRec
<1>2. CASE PostMark(r) \/ PostEnqueue(r) \/ PostEnqueueFails(r) \/ PostDrop(r)
  BY <1>0, <1>2 DEF PostMark, PostEnqueue, PostEnqueueFails, PostDrop, Answer, PostRec
<1>3. CASE PostNoPool(r) \/ PostRollback(r) \/ PostCrash(r)
  BY <1>0, <1>3 DEF PostNoPool, PostRollback, PostCrash, Answer, PostRec
<1>4. QED
  BY <1>1, <1>2, <1>3 DEF OnlyPost

LEMMA DelMoves ==
    ASSUME TypeOK, NEW d \in Deletes, OnlyDel(d) \/ DelExec(d)
    PROVE  /\ post' = post /\ \A e \in Deletes : e # d => del'[e] = del[e]
           /\ del[d].pc = "delete" \/ (del[d].pc = "idle" /\ MayStart)
<1>0. /\ del \in [Deletes -> DelRec] /\ del[d] \in DelRec
  BY DEF TypeOK
<1>1. QED
  BY <1>0 DEF OnlyDel, DelRead, DelDeadlock, DelExec, Reply

(* The requests of one operator take turns.                                *)
LEMMA OneHandlerStep ==
    ASSUME ~Overlapping, "crash" \notin Faults, TypeOK, OneHandler, [Next]_vars
    PROVE  OneHandler'
<1>0. /\ post \in [Posts -> PostRec] /\ del \in [Deletes -> DelRec]
  BY DEF TypeOK
<1>1. ASSUME NEW r \in Posts,
             PostCreate(r) \/ OnlyPost(r) \/ PostMark(r) \/ PostEnqueue(r)
               \/ PostEnqueueFails(r) \/ PostDrop(r)
      PROVE  OneHandler'
  <2>1. \/ BusyPost(r)
        \/ /\ \A s \in Posts : ~BusyPost(s)
           /\ \A d \in Deletes : ~BusyDel(d)
    BY <1>1, PostMoves DEF MayStart, Busy, BusyPost, BusyDel
  <2>2. del' = del /\ \A k \in Posts : k # r => post'[k] = post[k]
    BY <1>1, PostMoves
  <2>3. QED
    BY <2>1, <2>2 DEF OneHandler, BusyPost, BusyDel
<1>2. ASSUME NEW d \in Deletes, OnlyDel(d) \/ DelExec(d) PROVE OneHandler'
  <2>1. \/ BusyDel(d)
        \/ /\ \A s \in Posts : ~BusyPost(s)
           /\ \A e \in Deletes : ~BusyDel(e)
    BY <1>2, DelMoves DEF MayStart, Busy, BusyPost, BusyDel
  <2>2. post' = post /\ \A e \in Deletes : e # d => del'[e] = del[e]
    BY <1>2, DelMoves
  <2>3. QED
    BY <2>1, <2>2 DEF OneHandler, BusyPost, BusyDel
<1>3. ASSUME UNCHANGED <<post, del>> PROVE OneHandler'
  BY <1>3 DEF OneHandler, BusyPost, BusyDel
<1>4. QED
  BY <1>1, <1>2, <1>3, StepKinds, JobSideEffect DEF vars

(* While a POST is under way only that POST changes its row, up to the     *)
(* moment its job is queued.                                               *)
LEMMA HoldStep ==
    ASSUME ~Overlapping, "crash" \notin Faults, OneInv, [Next]_vars
    PROVE  PostsHoldTheirRow'
<1>0. /\ TypeOK /\ OneHandler /\ PostsHoldTheirRow /\ FlightsArePending
      /\ HandlersKnowTheirRow
      /\ post \in [Posts -> PostRec] /\ \A r \in Posts : post[r] \in PostRec
  BY DEF OneInv, TypeOK
<1>1. ASSUME NEW r \in Posts,
             PostCreate(r) \/ OnlyPost(r) \/ PostMark(r) \/ PostEnqueue(r)
               \/ PostEnqueueFails(r) \/ PostDrop(r)
      PROVE  PostsHoldTheirRow'
  <2>1. \A k \in Posts : k # r => ~BusyPost(k) /\ post'[k] = post[k]
    BY <1>0, <1>1, PostMoves DEF OneHandler, MayStart, Busy, BusyPost
  <2>2. CASE PostCreate(r)
    <3>1. /\ post'[r].pc = "enqueue" /\ post'[r].repo = r
      BY <1>0, <2>2 DEF PostCreate, PostRec
    <3>2. row'.id = r /\ Pending(row')
      BY <2>2 DEF PostCreate, Absent, Pending
    <3>3. QED
      BY <2>1, <3>1, <3>2 DEF PostsHoldTheirRow, BusyPost
  <2>3. CASE PostFound(r)
    <3>1. /\ row' = row
          /\ \/ post'[r].pc = "done"
             \/ post'[r].pc = "mark" /\ post'[r].repo = row.id /\ post'[r].seen = row
      BY <1>0, <2>3 DEF PostFound, Answer, PostRec
    <3>2. QED
      BY <2>1, <3>1 DEF PostsHoldTheirRow, BusyPost
  <2>4. CASE PostMark(r)
    <3>1. /\ post[r].pc = "mark" /\ row.id = post[r].repo /\ row = post[r].seen
          /\ row.id \in Posts
      BY <1>0, <2>4 DEF PostMark, PostsHoldTheirRow, BusyPost, HandlersKnowTheirRow
    <3>2. Exists(post[r].repo) /\ row \in Row
      BY <1>0, <3>1 DEF Exists, TypeOK, Absent
    <3>3. row'.id = row.id /\ Pending(row')
      BY <2>4, <3>1, <3>2 DEF PostMark, Pending, Row
    <3>4. post'[r].pc = "enqueue" /\ post'[r].repo = post[r].repo
      BY <1>0, <2>4, <3>2 DEF PostMark, PostRec
    <3>5. QED
      BY <2>1, <3>1, <3>3, <3>4 DEF PostsHoldTheirRow, BusyPost
  <2>5. CASE PostEnqueue(r) \/ PostEnqueueFails(r) \/ PostNoPool(r)
               \/ PostRollback(r) \/ PostCrash(r)
    <3>1. /\ row' = row /\ post'[r].pc \in {"rollback", "drop", "done"}
          /\ post'[r].repo = post[r].repo /\ BusyPost(r)
      BY <1>0, <2>5 DEF PostEnqueue, PostEnqueueFails, PostNoPool, PostRollback,
         PostCrash, Answer, PostRec, BusyPost
    <3>2. QED
      BY <1>0, <2>1, <3>1 DEF PostsHoldTheirRow, BusyPost
  <2>6. CASE PostDrop(r)
    <3>1. post'[r].pc = "done"
      BY <1>0, <2>6 DEF PostDrop, Answer, PostRec
    <3>2. QED
      BY <2>1, <3>1 DEF PostsHoldTheirRow, BusyPost
  <2>7. QED
    BY <1>1, <2>2, <2>3, <2>4, <2>5, <2>6 DEF OnlyPost
<1>2. ASSUME NEW d \in Deletes, OnlyDel(d) PROVE PostsHoldTheirRow'
  BY <1>0, <1>2 DEF OnlyDel, DelRead, DelDeadlock, PostsHoldTheirRow, BusyPost
<1>3. ASSUME NEW d \in Deletes, DelExec(d) PROVE PostsHoldTheirRow'
  BY <1>0, <1>3 DEF DelExec, OneHandler, BusyDel, PostsHoldTheirRow, BusyPost
<1>4. ASSUME NEW j \in Posts, JobSide(j) PROVE PostsHoldTheirRow'
  <2>1. CASE row' = row
    BY <1>0, <1>4, <2>1, JobSideEffect DEF PostsHoldTheirRow, BusyPost
  <2>2. CASE row' # row
    <3>1. /\ row'.id = row.id /\ post' = post /\ Live(j) /\ job[j].repo = row.id
      BY <1>0, <1>4, <2>2, JobSideEffect DEF Exists
    <3>2. \A r \in Posts : post[r].pc \notin {"mark", "enqueue"}
      BY <1>0, <3>1 DEF FlightsArePending
    <3>3. QED
      BY <1>0, <3>1, <3>2 DEF PostsHoldTheirRow, BusyPost
  <2>3. QED
    BY <2>1, <2>2
<1>5. CASE UNCHANGED vars
  BY <1>0, <1>5 DEF vars, PostsHoldTheirRow, BusyPost
<1>6. QED
  BY <1>1, <1>2, <1>3, <1>4, <1>5, StepKinds

(* Ids are given once.                                                     *)
LEMMA FreshStep ==
    ASSUME ~Overlapping, "crash" \notin Faults, OneInv, [Next]_vars
    PROVE  IdsAreFresh'
<1>0. /\ TypeOK /\ PostsHoldTheirRow /\ IdsAreFresh /\ HandlersKnowTheirRow
      /\ post \in [Posts -> PostRec] /\ \A r \in Posts : post[r] \in PostRec
  BY DEF OneInv, TypeOK
<1>1. ASSUME NEW r \in Posts, PostCreate(r) PROVE IdsAreFresh'
  <2>1. /\ row'.id = r /\ job' = job /\ post'[r].pc = "enqueue"
        /\ \A k \in Posts : k # r => post'[k] = post[k]
    BY <1>0, <1>1 DEF PostCreate, Absent, PostRec
  <2>2. QED
    BY <1>0, <2>1 DEF IdsAreFresh
<1>2. ASSUME NEW r \in Posts,
             OnlyPost(r) \/ PostMark(r) \/ PostEnqueue(r)
               \/ PostEnqueueFails(r) \/ PostDrop(r)
      PROVE  IdsAreFresh'
  <2>1. /\ post'[r].pc # "idle"
        /\ \A k \in Posts : k # r => post'[k] = post[k]
    BY <1>0, <1>2, PostMoves
  <2>2. row'.id = row.id \/ row'.id = NoRepo
    <3>1. CASE PostMark(r)
      BY <1>0, <3>1 DEF PostMark, TypeOK, Row, Absent
    <3>2. CASE PostDrop(r)
      BY <1>0, <3>2, DeleteRowRevivesNothing DEF PostDrop, Absent
    <3>3. QED
      BY <1>2, <3>1, <3>2 DEF OnlyPost, PostFound, PostNoPool, PostRollback,
         PostCrash, PostEnqueue, PostEnqueueFails
  <2>3. \A k \in Posts : job'[k].repo = job[k].repo \/ job'[k].repo = row.id
    <3>1. CASE PostEnqueue(r) \/ PostEnqueueFails(r)
      <4>1. job' = job \/ Queue(r)
        BY <3>1 DEF PostEnqueue, PostEnqueueFails
      <4>2. post[r].repo = row.id
        BY <1>0, <3>1 DEF PostEnqueue, PostEnqueueFails, PostsHoldTheirRow, BusyPost
      <4>3. QED
        BY <1>0, <4>1, <4>2, QueueEffect
    <3>2. CASE PostDrop(r)
      BY <1>0, <3>2, DeleteRowRevivesNothing DEF PostDrop, NoRevival
    <3>3. CASE OnlyPost(r) \/ PostMark(r)
      BY <3>3 DEF OnlyPost, PostFound, PostNoPool, PostRollback, PostCrash, PostMark
    <3>4. QED
      BY <1>2, <3>1, <3>2, <3>3
  <2>4. QED
    BY <1>0, <2>1, <2>2, <2>3 DEF IdsAreFresh
<1>3. ASSUME NEW d \in Deletes, OnlyDel(d) \/ DelExec(d) PROVE IdsAreFresh'
  <2>1. post' = post
    BY <1>0, <1>3, DelMoves
  <2>2. row' = row \/ row' = Absent
    BY <1>0, <1>3, DeleteRowRevivesNothing DEF OnlyDel, DelRead, DelDeadlock, DelExec
  <2>3. \A k \in Posts : job'[k].repo = job[k].repo
    BY <1>0, <1>3, DeleteRowRevivesNothing
       DEF OnlyDel, DelRead, DelDeadlock, DelExec, NoRevival
  <2>4. QED
    BY <1>0, <2>1, <2>2, <2>3 DEF IdsAreFresh, Absent
<1>4. ASSUME NEW j \in Posts, JobSide(j) PROVE IdsAreFresh'
  <2>1. post' = post /\ row'.id = row.id /\ \A k \in Posts : job'[k].repo = job[k].repo
    BY <1>0, <1>4, JobSideEffect DEF NoRevival
  <2>2. QED
    BY <1>0, <2>1 DEF IdsAreFresh
<1>5. CASE UNCHANGED vars
  BY <1>0, <1>5 DEF vars, IdsAreFresh
<1>6. QED
  BY <1>1, <1>2, <1>3, <1>4, <1>5, StepKinds

(* A second job is queued only when the first has settled the row.         *)
LEMMA FlightStep ==
    ASSUME ~Overlapping, "crash" \notin Faults, OneInv, [Next]_vars
    PROVE  FlightsArePending' /\ OneLiveJob'
<1>0. /\ TypeOK /\ OneHandler /\ PostsHoldTheirRow /\ FlightsArePending
      /\ OneLiveJob /\ IdsAreFresh /\ HandlersKnowTheirRow
      /\ post \in [Posts -> PostRec] /\ \A r \in Posts : post[r] \in PostRec
  BY DEF OneInv, TypeOK
<1>1. \A k \in Posts : Live(k) => job[k].repo \in Posts
  BY <1>0 DEF HandlersKnowTheirRow, Live
<1>2. ASSUME NEW r \in Posts, PostCreate(r) PROVE FlightsArePending' /\ OneLiveJob'
  <2>1. row'.id = r /\ job' = job /\ post[r].pc = "idle"
    BY <1>2 DEF PostCreate, Absent
  <2>2. \A k \in Posts : job[k].repo # r
    BY <1>0, <2>1 DEF IdsAreFresh
  <2>3. QED
    BY <1>0, <2>1, <2>2 DEF FlightsArePending, OneLiveJob, Live
<1>3. ASSUME NEW r \in Posts, OnlyPost(r) PROVE FlightsArePending' /\ OneLiveJob'
  <2>1. row' = row /\ job' = job /\ \A k \in Posts : k # r => post'[k] = post[k]
    BY <1>0, <1>3, PostMoves DEF OnlyPost, PostFound, PostNoPool, PostRollback,
       PostCrash
  <2>2. post'[r].pc \in {"drop", "done"} \/ ~Pending(row)
    BY <1>0, <1>3 DEF OnlyPost, PostFound, PostNoPool, PostRollback, PostCrash,
       Answer, PostRec
  <2>3. QED
    BY <1>0, <2>1, <2>2 DEF FlightsArePending, OneLiveJob, Live
<1>4. ASSUME NEW r \in Posts, PostMark(r) PROVE FlightsArePending' /\ OneLiveJob'
  <2>1. job' = job /\ post[r].pc = "mark"
    BY <1>4 DEF PostMark
  <2>2. \A k \in Posts : Live(k) => job[k].repo # row.id
    BY <1>0, <2>1 DEF FlightsArePending
  <2>3. row'.id = row.id
    BY <1>0, <1>4 DEF PostMark, TypeOK, Row, Absent
  <2>4. QED
    BY <1>0, <2>1, <2>2, <2>3 DEF FlightsArePending, OneLiveJob, Live
<1>5. ASSUME NEW r \in Posts, PostEnqueue(r) \/ PostEnqueueFails(r)
      PROVE  FlightsArePending' /\ OneLiveJob'
  <2>1. /\ row' = row /\ post[r].pc = "enqueue"
        /\ post'[r].pc \in {"rollback", "done"}
        /\ \A k \in Posts : k # r => post'[k] = post[k]
        /\ job' = job \/ Queue(r)
    BY <1>0, <1>5 DEF PostEnqueue, PostEnqueueFails, Answer, PostRec
  <2>2. Pending(row) /\ row.id = post[r].repo
    BY <1>0, <2>1 DEF PostsHoldTheirRow, BusyPost
  <2>3. \A k \in Posts : k # r => post'[k].pc \notin {"mark", "enqueue"}
    BY <1>0, <2>1 DEF OneHandler, BusyPost
  <2>4. \A k \in Posts : Live(k) => job[k].repo # row.id
    BY <1>0, <2>1 DEF FlightsArePending
  <2>5. FlightsArePending'
    BY <2>1, <2>2, <2>3 DEF FlightsArePending
  <2>6. CASE job' = job
    BY <1>0, <2>5, <2>6 DEF OneLiveJob, Live
  <2>7. CASE Queue(r)
    <3>1. job'[r].repo = row.id /\ \A k \in Posts \ {r} : job'[k] = job[k]
      BY <1>0, <2>2, <2>7, QueueEffect
    <3>2. QED
      BY <1>0, <2>4, <2>5, <3>1 DEF OneLiveJob, Live
  <2>8. QED
    BY <2>1, <2>6, <2>7
<1>6. ASSUME NoRevival PROVE OneLiveJob'
  BY <1>0, <1>6 DEF NoRevival, OneLiveJob
<1>7. ASSUME NoRevival, row' = Absent PROVE FlightsArePending'
  BY <1>1, <1>7 DEF NoRevival, FlightsArePending, Absent
<1>8. ASSUME NoRevival, row' = row,
             \A r \in Posts : post'[r] = post[r] \/ post'[r].pc = "done"
      PROVE  FlightsArePending'
  BY <1>0, <1>8 DEF NoRevival, FlightsArePending
<1>9. ASSUME NEW r \in Posts, PostDrop(r) PROVE FlightsArePending' /\ OneLiveJob'
  <2>1. \A k \in Posts : post'[k] = post[k] \/ post'[k].pc = "done"
    BY <1>0, <1>9 DEF PostDrop, Answer, PostRec
  <2>2. QED
    BY <1>0, <1>6, <1>7, <1>8, <1>9, <2>1, DeleteRowRevivesNothing DEF PostDrop
<1>10. ASSUME NEW d \in Deletes, DelExec(d) PROVE FlightsArePending' /\ OneLiveJob'
  BY <1>0, <1>6, <1>7, <1>8, <1>10, DeleteRowRevivesNothing DEF DelExec
<1>11. ASSUME NEW d \in Deletes, OnlyDel(d) PROVE FlightsArePending' /\ OneLiveJob'
  BY <1>0, <1>11 DEF OnlyDel, DelRead, DelDeadlock, FlightsArePending, OneLiveJob,
     Live
<1>12. ASSUME NEW j \in Posts, JobSide(j) PROVE FlightsArePending' /\ OneLiveJob'
  <2>1. NoRevival /\ post' = post
    BY <1>0, <1>12, JobSideEffect
  <2>2. CASE row' = row
    BY <1>6, <1>8, <2>1, <2>2
  <2>3. CASE row' # row
    <3>1. /\ row'.id = row.id /\ job[j].repo = row.id /\ Live(j) /\ ~Live(j)'
      BY <1>0, <1>12, <2>3, JobSideEffect DEF Exists
    <3>2. \A k \in Posts : ~(Live(k)' /\ job'[k].repo = row'.id)
      BY <1>0, <2>1, <3>1 DEF NoRevival, OneLiveJob
    <3>3. QED
      BY <1>6, <2>1, <3>2 DEF FlightsArePending
  <2>4. QED
    BY <2>2, <2>3
<1>13. CASE UNCHANGED vars
  BY <1>0, <1>13 DEF vars, FlightsArePending, OneLiveJob, Live
<1>14. QED
  BY <1>2, <1>3, <1>4, <1>5, <1>9, <1>10, <1>11, <1>12, <1>13, StepKinds

(* For one operator and workers that are not killed, the guards of         *)
(* _register_async and delete_repo keep handlers and jobs off the same row. *)
THEOREM OneInvariance ==
    ASSUME ~Overlapping, "crash" \notin Faults
    PROVE  Spec => []OneInv
<1>1. Init => OneInv
  <2> SUFFICES ASSUME Init PROVE OneInv
    OBVIOUS
  <2>1. TypeOK /\ HandlersKnowTheirRow /\ QueuedOnce
    BY InitialStates DEF IInv
  <2>2. /\ \A r \in Posts : post[r].pc = "idle"
        /\ \A d \in Deletes : del[d].pc = "idle"
        /\ \A j \in Posts : job[j].pc = "none" /\ job[j].repo = NoRepo
        /\ row.id = NoRepo
    BY DEF Init, IdlePost, IdleDel, NoJob, Absent
  <2>3. QED
    BY <2>1, <2>2 DEF OneInv, OneHandler, PostsHoldTheirRow, FlightsArePending,
       OneLiveJob, IdsAreFresh, BusyPost, BusyDel, Live
<1>2. OneInv /\ [Next]_vars => OneInv'
  BY TypeStep, HandlersStep, QueuedStep, OneHandlerStep, HoldStep, FlightStep,
     FreshStep DEF OneInv
<1>3. QED
  BY <1>1, <1>2, PTL DEF Spec

(* At most one job is in flight for a repository: for one operator the 409 *)
(* guard of _register_async is enough.                                     *)
THEOREM OneJobInFlight ==
    ASSUME ~Overlapping, "crash" \notin Faults
    PROVE  Spec => []OneInFlight
<1>1. OneInv => OneInFlight
  <2> SUFFICES ASSUME OneInv, NEW id \in Posts PROVE Cardinality(InFlight(id)) <= 1
    BY DEF OneInFlight
  <2>1. CASE InFlight(id) = {}
    BY <2>1, FS_EmptySet
  <2>2. CASE InFlight(id) # {}
    <3>1. PICK j \in InFlight(id) : TRUE
      BY <2>2
    <3>2. InFlight(id) = {j}
      BY <3>1 DEF InFlight, OneInv, OneLiveJob
    <3>3. Cardinality({j}) = 1
      BY FS_Singleton
    <3>4. QED
      BY <3>2, <3>3
  <2>3. QED
    BY <2>1, <2>2
<1>2. QED
  BY <1>1, OneInvariance, PTL

-----------------------------------------------------------------------------
(* Every row that shows "indexing" is owed an outcome or was given up.     *)

LEMMA ListsStep ==
    ASSUME "crash" \notin Faults, OneInv, PendingListsNothing, [Next]_vars
    PROVE  PendingListsNothing'
<1>0. TypeOK /\ PostsHoldTheirRow
  BY DEF OneInv
<1>1. ASSUME NEW r \in Posts, PostCreate(r) PROVE PendingListsNothing'
  BY <1>1 DEF PostCreate, PendingListsNothing, Absent
<1>2. ASSUME NEW r \in Posts, PostMark(r) PROVE PendingListsNothing'
  <2>1. row = post[r].seen \/ row' = row
    BY <1>0, <1>2 DEF PostMark, PostsHoldTheirRow
  <2>2. row \in Row \/ row = Absent
    BY <1>0 DEF TypeOK
  <2>3. QED
    BY <1>2, <2>1, <2>2 DEF PostMark, PendingListsNothing, Row, Absent
<1>3. ASSUME row' \in {row, Absent} PROVE PendingListsNothing'
  BY <1>3 DEF PendingListsNothing, Absent
<1>4. ASSUME NEW id, DeleteRow(id) PROVE PendingListsNothing'
  BY <1>0, <1>3, <1>4, DeleteRowRevivesNothing
<1>5. ASSUME NEW j \in Posts, JobSide(j) PROVE PendingListsNothing'
  BY <1>0, <1>3, <1>5, JobSideEffect DEF PendingListsNothing
<1>6. QED
  BY <1>1, <1>2, <1>3, <1>4, <1>5, StepKinds DEF OnlyPost, PostFound, PostNoPool,
     PostRollback, PostCrash, PostEnqueue, PostEnqueueFails, PostDrop, OnlyDel,
     DelRead, DelDeadlock, DelExec, vars

(* A job in flight for a row that is there goes on, settles the row or     *)
(* dies.                                                                   *)
LEMMA FlightGoesOn ==
    ASSUME TypeOK, "crash" \notin Faults,
           NEW j \in Posts, JobSide(j), Live(j), Exists(job[j].repo)
    PROVE  Live(j)' \/ ~Pending(row') \/ job'[j].pc = "dead"
<1>0. job \in [Posts -> JobRec] /\ \A k \in Posts : job[k] \in JobRec
  BY DEF TypeOK
<1>1. CASE JobStart(j)
  <2>1. job'[j].pc \in {"build", "dead"}
    BY <1>0, <1>1 DEF JobStart, Goto, JobRec
  <2>2. QED
    BY <2>1 DEF Live, JobPc
<1>2. CASE JobBuild(j) \/ JobSwap(j)
  BY <1>0, <1>2 DEF JobBuild, JobSwap, Goto, JobRec, Live, JobPc
<1>3. CASE JobClose(j)
  BY <1>3 DEF JobClose, Live
<1>4. CASE JobInsert(j)
  BY <1>0, <1>4 DEF JobInsert, JobRec, Live, JobPc
<1>5. CASE JobCommit(j) \/ JobFail(j)
  <2>1. row \in Row
    BY DEF Exists, TypeOK, Absent
  <2>2. QED
    BY <1>5, <2>1 DEF JobCommit, JobFail, Pending, Row
<1>6. CASE WorkerCrash(j) \/ JobDies(j)
  <2>1. End(j, "dead")
    BY <1>6 DEF WorkerCrash, JobDies, Live
  <2>2. QED
    BY <2>1, EndEffect
<1>7. QED
  BY <1>1, <1>2, <1>3, <1>4, <1>5, <1>6 DEF JobSide, Moves, Ends

(* A job takes a step only while it is live or closing, and then no other  *)
(* job does.                                                               *)
LEMMA JobSideAlone ==
    ASSUME TypeOK, NEW j \in Posts, JobSide(j)
    PROVE  /\ \A k \in Posts : k # j => job'[k] = job[k]
           /\ Live(j) \/ job[j].pc = "close"
           /\ job[j].pc = "close" => "crash" \in Faults \/ job'[j].pc = "done"
<1>0. job \in [Posts -> JobRec] /\ job[j] \in JobRec
  BY DEF TypeOK
<1>1. \A k \in Posts : k # j => job'[k] = job[k]
  BY <1>0 DEF JobSide, Moves, JobStart, JobBuild, JobSwap, JobClose, JobInsert,
     Ends, JobCommit, JobFail, WorkerCrash, JobDies, Goto, End
<1>2. /\ Live(j) \/ job[j].pc = "close"
      /\ job[j].pc = "close" => JobClose(j) \/ WorkerCrash(j) \/ JobDies(j)
  BY DEF JobSide, Moves, JobStart, JobBuild, JobSwap, JobClose, JobInsert, Ends,
     JobCommit, JobFail, WorkerCrash, JobDies, Running, Live, JobPc
<1>3. job[j].pc = "close" /\ JobClose(j) => job'[j].pc = "done"
  BY <1>0 DEF JobClose, Goto, JobRec
<1>4. job[j].pc = "close" /\ JobDies(j) => job'[j].pc = "done"
  BY EndEffect DEF JobDies
<1>5. QED
  BY <1>1, <1>2, <1>3, <1>4 DEF WorkerCrash

(* What is over stays over.                                                *)
LEMMA WhatIsOver ==
    ASSUME "crash" \notin Faults, TypeOK, QueuedOnce, NEW k \in Posts, [Next]_vars
    PROVE  /\ job[k].pc = "dead" => /\ job'[k].pc = "dead"
                                    /\ job'[k].repo = job[k].repo
           /\ post[k].pc = "done" =>
                /\ post'[k] = post[k]
                /\ job[k].pc = "none" => job'[k].pc = "none"
<1>1. ASSUME NEW r \in Posts,
             PostCreate(r) \/ OnlyPost(r) \/ PostMark(r) \/ PostEnqueue(r)
               \/ PostEnqueueFails(r) \/ PostDrop(r),
             job' = job \/ (Queue(r) /\ post[r].pc = "enqueue")
               \/ \E id : DeleteRow(id)
      PROVE  /\ job[k].pc = "dead" => /\ job'[k].pc = "dead"
                                      /\ job'[k].repo = job[k].repo
             /\ post[k].pc = "done" =>
                  /\ post'[k] = post[k]
                  /\ job[k].pc = "none" => job'[k].pc = "none"
  <2>1. post[k].pc = "done" => k # r /\ post'[k] = post[k]
    BY <1>1, PostMoves
  <2>2. CASE job' = job
    BY <2>1, <2>2
  <2>3. CASE Queue(r) /\ post[r].pc = "enqueue"
    <3>1. job[r].pc = "none" /\ (k # r => job'[k] = job[k])
      BY <2>3, QueueEffect DEF QueuedOnce
    <3>2. QED
      BY <2>1, <3>1
  <2>4. ASSUME NEW id, DeleteRow(id)
        PROVE  /\ job'[k].repo = job[k].repo
               /\ job'[k].pc = job[k].pc \/ job[k].pc = "commit"
    BY <2>4, DeleteRowEffect
  <2>5. QED
    BY <1>1, <2>1, <2>2, <2>3, <2>4
<1>2. ASSUME NEW r \in Posts,
             PostCreate(r) \/ OnlyPost(r) \/ PostMark(r) \/ PostEnqueue(r)
               \/ PostEnqueueFails(r) \/ PostDrop(r)
      PROVE  job' = job \/ (Queue(r) /\ post[r].pc = "enqueue")
               \/ \E id : DeleteRow(id)
  BY <1>2 DEF PostCreate, OnlyPost, PostFound, PostNoPool, PostRollback, PostCrash,
     PostMark, PostEnqueue, PostEnqueueFails, PostDrop
<1>3. ASSUME NEW d \in Deletes, OnlyDel(d) \/ DelExec(d)
      PROVE  /\ post' = post /\ job'[k].repo = job[k].repo
             /\ job'[k].pc = job[k].pc \/ job[k].pc = "commit"
  <2>1. post' = post
    BY <1>3, DelMoves
  <2>2. CASE OnlyDel(d)
    BY <2>1, <2>2 DEF OnlyDel, DelRead, DelDeadlock
  <2>3. CASE DelExec(d)
    BY <2>1, <2>3, DeleteRowEffect DEF DelExec
  <2>4. QED
    BY <1>3, <2>2, <2>3
<1>4. ASSUME NEW j \in Posts, JobSide(j)
      PROVE  /\ post' = post
             /\ job[k].pc \in {"none", "dead"} => job'[k] = job[k]
  BY <1>4, JobSideEffect, JobSideAlone DEF Live
<1>5. QED
  BY <1>1, <1>2, <1>3, <1>4, StepKinds DEF vars

(* A row that was given up stays given up while it is there.               *)
LEMMA GivenUpStays ==
    ASSUME "crash" \notin Faults, TypeOK, QueuedOnce, AnsweredIsDone, GivenUp,
           row'.id = row.id, [Next]_vars
    PROVE  GivenUp'
<1>1. CASE \E r \in Posts : /\ post[r].repo = row.id
                            /\ post[r].reply \in {"unreachable", "cut"}
                            /\ job[r].pc = "none"
  <2>1. PICK r \in Posts : /\ post[r].repo = row.id
                           /\ post[r].reply \in {"unreachable", "cut"}
                           /\ job[r].pc = "none"
    BY <1>1
  <2>2. post[r].pc = "done"
    BY <2>1 DEF AnsweredIsDone
  <2>3. post'[r] = post[r] /\ job'[r].pc = "none"
    BY <2>1, <2>2, WhatIsOver
  <2>4. QED
    BY <2>1, <2>3 DEF GivenUp
<1>2. CASE \E j \in Posts : job[j].repo = row.id /\ job[j].pc = "dead"
  <2>1. PICK j \in Posts : job[j].repo = row.id /\ job[j].pc = "dead"
    BY <1>2
  <2>2. job'[j].pc = "dead" /\ job'[j].repo = job[j].repo
    BY <2>1, WhatIsOver
  <2>3. QED
    BY <2>1, <2>2 DEF GivenUp
<1>3. QED
  BY <1>1, <1>2 DEF GivenUp

LEMMA AnswersStep ==
    ASSUME "crash" \notin Faults, TypeOK, QueuedOnce, HandlersKnowTheirRow,
           AnsweredIsDone, JobsHaveTheirRow, MarksSettledRows, [Next]_vars
    PROVE  AnsweredIsDone' /\ JobsHaveTheirRow' /\ MarksSettledRows'
<1>0. /\ post \in [Posts -> PostRec] /\ \A r \in Posts : post[r] \in PostRec
      /\ job \in [Posts -> JobRec]
  BY DEF TypeOK
<1>1. ASSUME NEW r \in Posts,
             PostCreate(r) \/ OnlyPost(r) \/ PostMark(r) \/ PostEnqueue(r)
               \/ PostEnqueueFails(r) \/ PostDrop(r)
      PROVE  AnsweredIsDone' /\ JobsHaveTheirRow' /\ MarksSettledRows'
  <2>1. /\ \A k \in Posts : k # r => post'[k] = post[k]
        /\ post[r].pc # "idle" => post'[r].repo = post[r].repo
        /\ post[r].pc # "done"
    BY <1>1, PostMoves
  <2>2. post'[r].reply # "none" => post'[r].pc = "done"
    <3>1. post[r].reply = "none"
      BY <2>1 DEF AnsweredIsDone
    <3>2. CASE PostCreate(r) \/ PostFound(r) \/ PostMark(r)
      BY <1>0, <3>1, <3>2 DEF PostCreate, PostFound, PostMark, Answer, PostRec
    <3>3. CASE PostEnqueue(r) \/ PostEnqueueFails(r) \/ PostDrop(r)
      BY <1>0, <3>1, <3>3 DEF PostEnqueue, PostEnqueueFails, PostDrop, Answer, PostRec
    <3>4. CASE PostNoPool(r) \/ PostRollback(r) \/ PostCrash(r)
      BY <1>0, <3>1, <3>4 DEF PostNoPool, PostRollback, PostCrash, Answer, PostRec
    <3>5. QED
      BY <1>1, <3>2, <3>3, <3>4 DEF OnlyPost
  <2>3. AnsweredIsDone'
    BY <2>1, <2>2 DEF AnsweredIsDone
  <2>4. post'[r].pc = "mark" => ~Pending(post'[r].seen)
    <3>1. CASE PostFound(r)
      BY <1>0, <3>1 DEF PostFound, Answer, PostRec
    <3>2. CASE PostCreate(r) \/ PostMark(r)
      BY <1>0, <3>2 DEF PostCreate, PostMark, Answer, PostRec
    <3>3. CASE PostEnqueue(r) \/ PostEnqueueFails(r) \/ PostDrop(r)
      BY <1>0, <3>3 DEF PostEnqueue, PostEnqueueFails, PostDrop, Answer, PostRec
    <3>4. CASE PostNoPool(r) \/ PostRollback(r) \/ PostCrash(r)
      BY <1>0, <3>4 DEF PostNoPool, PostRollback, PostCrash, Answer, PostRec
    <3>5. QED
      BY <1>1, <3>1, <3>2, <3>3, <3>4 DEF OnlyPost
  <2>5. MarksSettledRows'
    BY <2>1, <2>4 DEF MarksSettledRows, Pending
  <2>6. JobsHaveTheirRow'
    <3>1. CASE PostCreate(r) \/ OnlyPost(r) \/ PostMark(r)
      <4>1. job' = job
        BY <3>1 DEF PostCreate, OnlyPost, PostFound, PostNoPool, PostRollback,
           PostCrash, PostMark
      <4>2. post[r].pc = "idle" => job[r].pc = "none"
        BY DEF QueuedOnce
      <4>3. QED
        BY <2>1, <4>1, <4>2 DEF JobsHaveTheirRow
    <3>2. CASE PostEnqueue(r) \/ PostEnqueueFails(r)
      <4>1. (job' = job \/ Queue(r)) /\ post[r].pc = "enqueue"
        BY <3>2 DEF PostEnqueue, PostEnqueueFails
      <4>2. QED
        BY <2>1, <4>1, QueueEffect DEF JobsHaveTheirRow
    <3>3. CASE PostDrop(r)
      <4>1. post[r].pc = "drop" /\ DeleteRow(post[r].repo)
        BY <3>3 DEF PostDrop
      <4>2. \A k \in Posts : /\ job'[k].repo = job[k].repo
                             /\ job'[k].pc # "none" => job[k].pc # "none"
        BY <4>1, DeleteRowEffect
      <4>3. QED
        BY <2>1, <4>1, <4>2 DEF JobsHaveTheirRow
    <3>4. QED
      BY <1>1, <3>1, <3>2, <3>3
  <2>7. QED
    BY <2>3, <2>5, <2>6
<1>2. ASSUME post' = post,
             \A k \in Posts : /\ job'[k].repo = job[k].repo
                              /\ job'[k].pc # "none" => job[k].pc # "none"
      PROVE  AnsweredIsDone' /\ JobsHaveTheirRow' /\ MarksSettledRows'
  BY <1>2 DEF AnsweredIsDone, JobsHaveTheirRow, MarksSettledRows, Pending
<1>3. ASSUME NEW d \in Deletes, OnlyDel(d) \/ DelExec(d)
      PROVE  AnsweredIsDone' /\ JobsHaveTheirRow' /\ MarksSettledRows'
  <2>1. post' = post
    BY <1>3, DelMoves
  <2>2. CASE OnlyDel(d)
    BY <1>2, <2>1, <2>2 DEF OnlyDel, DelRead, DelDeadlock
  <2>3. CASE DelExec(d)
    <3>1. \A k \in Posts : /\ job'[k].repo = job[k].repo
                           /\ job'[k].pc # "none" => job[k].pc # "none"
      BY <2>3, DeleteRowEffect DEF DelExec
    <3>2. QED
      BY <1>2, <2>1, <3>1
  <2>4. QED
    BY <1>3, <2>2, <2>3
<1>4. ASSUME NEW j \in Posts, JobSide(j)
      PROVE  AnsweredIsDone' /\ JobsHaveTheirRow' /\ MarksSettledRows'
  <2>1. post' = post /\ \A k \in Posts : job'[k].repo = job[k].repo
    BY <1>4, JobSideEffect DEF NoRevival
  <2>2. \A k \in Posts : job'[k].pc # "none" => job[k].pc # "none"
    BY <1>4, JobSideAlone DEF Live
  <2>3. QED
    BY <1>2, <2>1, <2>2
<1>5. CASE UNCHANGED vars
  BY <1>2, <1>5 DEF vars
<1>6. QED
  BY <1>1, <1>3, <1>4, <1>5, StepKinds

(* While one handler is at work on a settled row no other makes it show    *)
(* "indexing", and a job that ends has settled its row.                    *)
LEMMA SettledStep ==
    ASSUME ~Overlapping, "crash" \notin Faults, OwedInv, [Next]_vars
    PROVE  DeletesSettledRows' /\ OverJobsSettled'
<1>0. /\ TypeOK /\ OneHandler /\ PostsHoldTheirRow /\ HandlersKnowTheirRow
      /\ QueuedOnce /\ AnsweredIsDone /\ JobsHaveTheirRow /\ DeletesSettledRows
      /\ OverJobsSettled
      /\ post \in [Posts -> PostRec] /\ \A r \in Posts : post[r] \in PostRec
      /\ del \in [Deletes -> DelRec]
  BY DEF OwedInv, OneInv, TypeOK
<1>1. ASSUME NEW r \in Posts,
             PostCreate(r) \/ OnlyPost(r) \/ PostMark(r) \/ PostEnqueue(r)
               \/ PostEnqueueFails(r) \/ PostDrop(r)
      PROVE  DeletesSettledRows' /\ OverJobsSettled'
  <2>1. /\ del' = del /\ \A d \in Deletes : ~BusyDel(d)
        /\ \A k \in Posts : k # r => ~BusyPost(k) /\ post'[k] = post[k]
    BY <1>0, <1>1, PostMoves DEF OneHandler, MayStart, Busy, BusyPost, BusyDel
  <2>2. DeletesSettledRows'
    BY <2>1 DEF DeletesSettledRows, BusyDel
  <2>3. post'[r].pc \in {"rollback", "drop"} /\ job'[r].pc \in {"close", "done"}
          => ~Pending(row')
    <3>1. CASE PostCreate(r) \/ PostFound(r) \/ PostMark(r) \/ PostEnqueue(r)
               \/ PostNoPool(r) \/ PostCrash(r) \/ PostDrop(r)
      <4>1. post'[r].pc \notin {"rollback", "drop"}
        BY <1>0, <3>1 DEF PostCreate, PostFound, PostMark, PostEnqueue, PostNoPool,
           PostCrash, PostDrop, Answer, PostRec
      <4>2. QED
        BY <4>1
    <3>2. CASE PostEnqueueFails(r)
      <4>1. job[r].pc = "none" /\ (job' = job \/ Queue(r))
        BY <1>0, <3>2 DEF PostEnqueueFails, QueuedOnce
      <4>2. job'[r].pc \in {"none", "queued"}
        BY <1>0, <4>1, QueueEffect
      <4>3. QED
        BY <4>2
    <3>3. CASE PostRollback(r)
      BY <1>0, <3>3 DEF PostRollback, OverJobsSettled, Pending
    <3>4. QED
      BY <1>1, <3>1, <3>2, <3>3 DEF OnlyPost
  <2>4. OverJobsSettled'
    BY <2>1, <2>3 DEF OverJobsSettled, BusyPost
  <2>5. QED
    BY <2>2, <2>4
<1>2. ASSUME NEW d \in Deletes, OnlyDel(d) \/ DelExec(d)
      PROVE  DeletesSettledRows' /\ OverJobsSettled'
  <2>1. /\ post' = post /\ \A r \in Posts : ~BusyPost(r)
        /\ \A e \in Deletes : e # d => ~BusyDel(e) /\ del'[e] = del[e]
    BY <1>0, <1>2, DelMoves DEF OneHandler, MayStart, Busy, BusyPost, BusyDel
  <2>2. OverJobsSettled'
    BY <2>1 DEF OverJobsSettled, BusyPost
  <2>3. del'[d].pc = "delete" => row' = row /\ ~Pending(row)
    <3>1. del[d] \in DelRec
      BY <1>0
    <3>2. CASE DelRead(d)
      BY <1>0, <3>1, <3>2 DEF DelRead, Reply, DelRec
    <3>3. CASE DelExec(d) \/ DelDeadlock(d)
      BY <1>0, <3>1, <3>3 DEF DelExec, DelDeadlock, Reply, DelRec
    <3>4. QED
      BY <1>2, <3>2, <3>3 DEF OnlyDel
  <2>4. DeletesSettledRows'
    BY <2>1, <2>3 DEF DeletesSettledRows, BusyDel
  <2>5. QED
    BY <2>2, <2>4
<1>3. ASSUME NEW j \in Posts, JobSide(j)
      PROVE  DeletesSettledRows' /\ OverJobsSettled'
  <2>1. UNCHANGED <<post, del>> /\ (row' = row \/ (row'.id = row.id /\ ~Pending(row')))
    BY <1>0, <1>3, JobSideEffect
  <2>2. DeletesSettledRows'
    BY <1>0, <2>1 DEF DeletesSettledRows
  <2>3. ASSUME NEW r \in Posts, post[r].pc \in {"rollback", "drop"},
               job'[r].pc \in {"close", "done"}
        PROVE  ~Pending(row')
    <3>1. CASE job[r].pc \in {"close", "done"}
      BY <1>0, <2>1, <2>3, <3>1 DEF OverJobsSettled
    <3>2. CASE job[r].pc \notin {"close", "done"}
      <4>1. j = r /\ Live(r)
        BY <1>0, <1>3, <2>3, <3>2, JobSideAlone
      <4>2. Exists(job[r].repo)
        BY <1>0, <2>3, <4>1 DEF JobsHaveTheirRow, PostsHoldTheirRow, BusyPost, Live,
           HandlersKnowTheirRow, Exists
      <4>3. ~Live(r)' /\ job'[r].pc # "dead"
        BY <2>3 DEF Live
      <4>4. QED
        BY <1>0, <1>3, <4>1, <4>2, <4>3, FlightGoesOn
    <3>3. QED
      BY <3>1, <3>2
  <2>4. OverJobsSettled'
    BY <2>1, <2>3 DEF OverJobsSettled
  <2>5. QED
    BY <2>2, <2>4
<1>4. CASE UNCHANGED vars
  BY <1>0, <1>4 DEF vars, DeletesSettledRows, OverJobsSettled
<1>5. QED
  BY <1>1, <1>2, <1>3, <1>4, StepKinds

(* The UPDATE of _register_async meets the settled row that it read.       *)
LEMMA MarkEffect ==
    ASSUME TypeOK, PostsHoldTheirRow, HandlersKnowTheirRow, MarksSettledRows,
           NEW r \in Posts, PostMark(r)
    PROVE  /\ ~Pending(row) /\ Pending(row') /\ row'.id = row.id
           /\ post'[r].pc = "enqueue" /\ post'[r].repo = row'.id
<1>0. post \in [Posts -> PostRec] /\ post[r] \in PostRec
  BY DEF TypeOK
<1>1. /\ post[r].pc = "mark" /\ row.id = post[r].repo /\ row.id \in Posts
      /\ row = post[r].seen
  BY DEF PostMark, PostsHoldTheirRow, BusyPost, HandlersKnowTheirRow
<1>2. row \in Row /\ Exists(post[r].repo)
  BY <1>1 DEF TypeOK, Absent, Exists
<1>3. row'.id = row.id /\ Pending(row')
  BY <1>1, <1>2 DEF PostMark, Pending, Row
<1>4. post'[r].pc = "enqueue" /\ post'[r].repo = post[r].repo
  BY <1>0, <1>2 DEF PostMark, PostRec
<1>5. QED
  BY <1>1, <1>3, <1>4 DEF MarksSettledRows

LEMMA OwedStep ==
    ASSUME ~Overlapping, "crash" \notin Faults, OwedInv, [Next]_vars
    PROVE  IndexingIsOwed'
<1>0. /\ TypeOK /\ OneHandler /\ PostsHoldTheirRow /\ OneInv /\ QueuedOnce
      /\ HandlersKnowTheirRow /\ PendingListsNothing /\ IndexingIsOwed
      /\ AnsweredIsDone /\ JobsHaveTheirRow /\ MarksSettledRows /\ OverJobsSettled
      /\ post \in [Posts -> PostRec] /\ \A r \in Posts : post[r] \in PostRec
      /\ job \in [Posts -> JobRec] /\ \A r \in Posts : job[r] \in JobRec
  BY DEF OwedInv, OneInv, TypeOK
<1>1. ASSUME NEW r \in Posts, post'[r].repo = row'.id,
             post'[r].pc \in {"enqueue", "rollback", "drop"}
      PROVE  IndexingIsOwed'
  BY <1>1 DEF IndexingIsOwed, Owed
<1>2. ASSUME NEW r \in Posts,
             PostCreate(r) \/ PostMark(r) \/ PostEnqueueFails(r)
      PROVE  IndexingIsOwed'
  <2>1. CASE PostCreate(r)
    <3>1. /\ post'[r].pc = "enqueue" /\ post'[r].repo = r /\ row'.id = r
      BY <1>0, <2>1 DEF PostCreate, PostRec, Absent
    <3>2. QED
      BY <1>1, <3>1
  <2>2. CASE PostMark(r)
    BY <1>0, <1>1, <2>2, MarkEffect
  <2>3. CASE PostEnqueueFails(r)
    <3>1. /\ post'[r].pc = "rollback" /\ post'[r].repo = post[r].repo
          /\ row' = row /\ row.id = post[r].repo
      BY <1>0, <2>3 DEF PostEnqueueFails, PostRec, PostsHoldTheirRow, BusyPost
    <3>2. QED
      BY <1>1, <3>1
  <2>4. QED
    BY <1>2, <2>1, <2>2, <2>3
<1>3. ASSUME NEW r \in Posts, PostEnqueue(r) PROVE IndexingIsOwed'
  <2>1. row' = row /\ row.id = post[r].repo /\ Queue(r)
    BY <1>0, <1>3 DEF PostEnqueue, PostsHoldTheirRow, BusyPost
  <2>2. job'[r].pc = "queued" /\ job'[r].repo = row'.id
    BY <1>0, <2>1, QueueEffect
  <2>3. r \in InFlight(row.id)'
    BY <2>1, <2>2 DEF InFlight, Live, JobPc
  <2>4. QED
    BY <2>1, <2>3 DEF IndexingIsOwed, Owed
<1>4. ASSUME GivenUp, row'.id = row.id PROVE IndexingIsOwed'
  BY <1>0, <1>4, GivenUpStays DEF IndexingIsOwed
<1>5. ASSUME NEW r \in Posts, PostFound(r) PROVE IndexingIsOwed'
  <2>1. /\ row' = row /\ job' = job /\ post[r].pc = "idle"
        /\ \A k \in Posts : k # r => post'[k] = post[k]
    BY <1>0, <1>5 DEF PostFound, Answer
  <2>2. Owed => Owed'
    BY <2>1 DEF Owed, InFlight, Live
  <2>3. QED
    BY <1>0, <1>4, <2>1, <2>2 DEF IndexingIsOwed
<1>6. ASSUME NEW r \in Posts, row' = row, job' = job, job[r].pc = "none",
             post[r].repo = row.id, post'[r].repo = post[r].repo,
             post'[r].reply \in {"unreachable", "cut"}
      PROVE  IndexingIsOwed'
  BY <1>6 DEF IndexingIsOwed, GivenUp
<1>7. ASSUME NEW r \in Posts, PostNoPool(r) PROVE IndexingIsOwed'
  <2>1. /\ row' = row /\ job' = job /\ row.id = post[r].repo
        /\ job[r].pc = "none"
    BY <1>0, <1>7 DEF PostNoPool, PostsHoldTheirRow, BusyPost, QueuedOnce
  <2>2. post'[r].reply = "unreachable" /\ post'[r].repo = post[r].repo
    BY <1>0, <1>7 DEF PostNoPool, Answer, PostRec
  <2>3. QED
    BY <1>6, <2>1, <2>2
<1>8. ASSUME NEW r \in Posts, PostCrash(r) PROVE IndexingIsOwed'
  <2>1. /\ row' = row /\ job' = job /\ row.id = post[r].repo
        /\ post[r].pc \in {"mark", "enqueue", "rollback", "drop"}
        /\ row.id \in Posts
    BY <1>0, <1>8 DEF PostCrash, PostsHoldTheirRow, BusyPost, PostRec, PostPc,
       HandlersKnowTheirRow
  <2>2. CASE post[r].pc = "mark"
    BY <1>0, <2>1, <2>2 DEF PostsHoldTheirRow, MarksSettledRows, IndexingIsOwed
  <2>3. CASE post[r].pc # "mark"
    <3>1. post'[r].reply = "cut" /\ post'[r].repo = post[r].repo
      BY <1>0, <1>8, <2>3 DEF PostCrash, Answer, PostRec
    <3>2. CASE job[r].pc = "none"
      BY <1>6, <2>1, <3>1, <3>2
    <3>3. CASE job[r].pc # "none"
      <4>1. job[r].repo = row.id /\ post[r].pc \in {"rollback", "drop"}
        BY <1>0, <2>1, <2>3, <3>3 DEF JobsHaveTheirRow, QueuedOnce
      <4>2. CASE job[r].pc = "dead"
        BY <1>4, <2>1, <4>1, <4>2 DEF GivenUp
      <4>3. CASE job[r].pc \in {"close", "done"}
        BY <1>0, <2>1, <4>1, <4>3 DEF OverJobsSettled, IndexingIsOwed
      <4>4. CASE job[r].pc \notin {"dead", "close", "done"}
        <5>1. Live(r)
          BY <1>0, <3>3, <4>4 DEF Live, JobRec
        <5>2. r \in InFlight(row.id)'
          BY <2>1, <4>1, <5>1 DEF InFlight, Live
        <5>3. QED
          BY <2>1, <5>2 DEF IndexingIsOwed, Owed
      <4>5. QED
        BY <4>2, <4>3, <4>4
    <3>4. QED
      BY <3>2, <3>3
  <2>4. QED
    BY <2>2, <2>3
<1>9. ASSUME NEW r \in Posts, PostRollback(r) PROVE IndexingIsOwed'
  <2>1. row' = row /\ row.id = post[r].repo /\ row.id \in Posts
    BY <1>0, <1>9 DEF PostRollback, PostsHoldTheirRow, BusyPost, HandlersKnowTheirRow
  <2>2. CASE Pending(row)
    <3>1. Exists(post[r].repo) /\ ~row.indexed /\ row.listed = {}
      BY <1>0, <2>1, <2>2 DEF Exists, Pending, PendingListsNothing
    <3>2. post'[r].pc = "drop" /\ post'[r].repo = post[r].repo
      BY <1>0, <1>9, <3>1 DEF PostRollback, PostRec
    <3>3. QED
      BY <1>1, <2>1, <3>2
  <2>3. CASE ~Pending(row)
    BY <2>1, <2>3 DEF IndexingIsOwed
  <2>4. QED
    BY <2>2, <2>3
<1>10. ASSUME row' = Absent PROVE IndexingIsOwed'
  BY <1>10 DEF IndexingIsOwed, Pending, Absent
<1>11. ASSUME NEW r \in Posts, PostDrop(r) PROVE IndexingIsOwed'
  <2>1. Exists(post[r].repo)
    BY <1>0, <1>11 DEF PostDrop, PostsHoldTheirRow, BusyPost, Exists,
       HandlersKnowTheirRow
  <2>2. QED
    BY <1>10, <1>11, <2>1 DEF PostDrop, DeleteRow
<1>12. ASSUME UNCHANGED <<row, job, post>> PROVE IndexingIsOwed'
  BY <1>0, <1>12 DEF IndexingIsOwed, Owed, GivenUp, InFlight, Live
<1>13. ASSUME NEW d \in Deletes, DelExec(d) PROVE IndexingIsOwed'
  BY <1>10, <1>12, <1>13 DEF DelExec, DeleteRow
<1>14. ASSUME NEW j \in Posts, JobSide(j) PROVE IndexingIsOwed'
  <2> SUFFICES ASSUME Pending(row') PROVE IndexingIsOwed'
    BY DEF IndexingIsOwed
  <2>1. row' = row /\ post' = post
    BY <1>0, <1>14, JobSideEffect
  <2>2. ASSUME NEW k \in InFlight(row.id) PROVE IndexingIsOwed'
    <3>1. Live(k) /\ job[k].repo = row.id /\ Exists(job[k].repo) /\ k \in Posts
      BY <2>1, <2>2 DEF InFlight, Exists, Pending
    <3>2. job'[k].repo = row.id
      BY <1>0, <1>14, <3>1, JobSideEffect DEF NoRevival
    <3>3. Live(k)' \/ job'[k].pc = "dead"
      <4>1. CASE k = j
        BY <1>0, <1>14, <3>1, <4>1, FlightGoesOn
      <4>2. CASE k # j
        BY <1>0, <1>14, <3>1, <4>2, JobSideAlone DEF Live
      <4>3. QED
        BY <4>1, <4>2
    <3>4. CASE job'[k].pc = "dead"
      BY <2>1, <3>1, <3>2, <3>4 DEF IndexingIsOwed, GivenUp
    <3>5. CASE Live(k)'
      <4>1. k \in InFlight(row.id)'
        BY <2>1, <3>1, <3>2, <3>5 DEF InFlight
      <4>2. QED
        BY <2>1, <4>1 DEF IndexingIsOwed, Owed
    <3>6. QED
      BY <3>3, <3>4, <3>5
  <2>3. CASE \E r \in Posts : post[r].repo = row.id
                              /\ post[r].pc \in {"enqueue", "rollback", "drop"}
    BY <1>1, <2>1, <2>3
  <2>4. QED
    BY <1>0, <1>4, <2>1, <2>2, <2>3 DEF IndexingIsOwed, Owed
<1>15. QED
  BY <1>2, <1>3, <1>5, <1>7, <1>8, <1>9, <1>11, <1>12, <1>13, <1>14, StepKinds
     DEF OnlyPost, OnlyDel, DelRead, DelDeadlock, vars

(* OwedInv holds in every reachable state.                                 *)
THEOREM OwedInvariance ==
    ASSUME ~Overlapping, "crash" \notin Faults
    PROVE  Spec => []OwedInv
<1> DEFINE Rest == /\ PendingListsNothing /\ AnsweredIsDone /\ JobsHaveTheirRow
                   /\ MarksSettledRows /\ DeletesSettledRows /\ OverJobsSettled
                   /\ IndexingIsOwed
<1>1. Init => Rest
  <2> SUFFICES ASSUME Init PROVE Rest
    OBVIOUS
  <2>1. /\ row = Absent /\ ~Pending(row)
        /\ \A r \in Posts : post[r].pc = "idle" /\ post[r].reply = "none"
        /\ \A d \in Deletes : del[d].pc = "idle"
        /\ \A j \in Posts : job[j].pc = "none"
    BY DEF Init, IdlePost, IdleDel, NoJob, Absent, Pending
  <2>2. QED
    BY <2>1 DEF PendingListsNothing, AnsweredIsDone, JobsHaveTheirRow,
       MarksSettledRows, DeletesSettledRows, OverJobsSettled, IndexingIsOwed
<1>2. OneInv /\ Rest /\ [Next]_vars => Rest'
  <2> SUFFICES ASSUME OneInv, Rest, [Next]_vars PROVE Rest'
    OBVIOUS
  <2>1. OwedInv /\ TypeOK /\ QueuedOnce /\ HandlersKnowTheirRow
    BY DEF OwedInv, OneInv
  <2>2. PendingListsNothing'
    BY ListsStep
  <2>3. AnsweredIsDone' /\ JobsHaveTheirRow' /\ MarksSettledRows'
    BY <2>1, AnswersStep
  <2>4. DeletesSettledRows' /\ OverJobsSettled'
    BY <2>1, SettledStep
  <2>5. IndexingIsOwed'
    BY <2>1, OwedStep
  <2>6. QED
    BY <2>2, <2>3, <2>4, <2>5
<1>3. OneInv /\ Rest => OwedInv
  BY DEF OwedInv
<1>4. Spec => []OneInv
  BY OneInvariance
<1> HIDE DEF Rest
<1>5. QED
  BY <1>1, <1>2, <1>3, <1>4, PTL DEF Spec

(* For one operator and workers that are not killed, a row that shows      *)
(* "indexing" has a job in flight or its POST under way, or it was given   *)
(* up in one of the ways that GivenUp names: its POST enqueued nothing     *)
(* because the queue was unreachable (dispatch) or the API stopped, or its *)
(* job was cancelled, raised something else than an IndexError or had no   *)
(* tries left.  Nothing else of dispatch or _fill_repo leaves one behind.  *)
THEOREM OutcomeIsOwed ==
    ASSUME ~Overlapping, "crash" \notin Faults
    PROVE  Spec => []IndexingIsOwed
<1>1. Spec => []OwedInv
  BY OwedInvariance
<1>2. OwedInv => IndexingIsOwed
  BY DEF OwedInv
<1>3. QED
  BY <1>1, <1>2, PTL

-----------------------------------------------------------------------------
(* Every step of the registry is a step of the promised life cycle, or     *)
(* none of it.                                                             *)

LEMMA SwapStep ==
    ASSUME ~Overlapping, "crash" \notin Faults, IInv, OneInv, SwapIsWhole,
           [Next]_vars
    PROVE  SwapIsWhole'
<1>0. /\ TypeOK /\ NoStrayChunks /\ OpenInserts /\ OpenDeletes
      /\ HandlersKnowTheirRow /\ OneLiveJob /\ IdsAreFresh
      /\ job \in [Posts -> JobRec] /\ \A k \in Posts : job[k] \in JobRec
  BY DEF IInv, OneInv, TypeOK
<1>1. ASSUME NEW r \in Posts, PostCreate(r) PROVE SwapIsWhole'
  <2>1. row'.id = r /\ job' = job /\ post[r].pc = "idle"
    BY <1>1 DEF PostCreate, Absent
  <2>2. QED
    BY <1>0, <2>1 DEF IdsAreFresh, SwapIsWhole
<1>2. ASSUME UNCHANGED <<job, chunks>>, row'.id = row.id PROVE SwapIsWhole'
  BY <1>2 DEF SwapIsWhole
<1>3. ASSUME NEW r \in Posts, OnlyPost(r) \/ PostMark(r) PROVE SwapIsWhole'
  <2>1. UNCHANGED <<job, chunks>> /\ row'.id = row.id
    BY <1>0, <1>3 DEF OnlyPost, PostFound, PostNoPool, PostRollback, PostCrash,
       PostMark, TypeOK, Row, Absent
  <2>2. QED
    BY <1>2, <2>1
<1>4. ASSUME NEW r \in Posts, PostEnqueue(r) \/ PostEnqueueFails(r)
      PROVE  SwapIsWhole'
  <2>1. UNCHANGED <<row, chunks>> /\ (job' = job \/ Queue(r))
    BY <1>4 DEF PostEnqueue, PostEnqueueFails
  <2>2. QED
    BY <1>0, <2>1, QueueEffect DEF SwapIsWhole
<1>5. ASSUME NEW id, DeleteRow(id) PROVE SwapIsWhole'
  <2>1. CASE Exists(id)
    <3>1. row' = Absent /\ \A k \in Posts : /\ job'[k].repo = job[k].repo
                                           /\ job'[k].pc \in {job[k].pc, "done"}
      BY <1>0, <1>5, <2>1, DeleteRowEffect DEF DeleteRow
    <3>2. QED
      BY <1>0, <3>1 DEF SwapIsWhole, HandlersKnowTheirRow, Absent
  <2>2. CASE ~Exists(id)
    BY <1>2, <1>5, <2>2 DEF DeleteRow
  <2>3. QED
    BY <2>1, <2>2
<1>6. ASSUME NEW d \in Deletes, OnlyDel(d) PROVE SwapIsWhole'
  BY <1>2, <1>6 DEF OnlyDel, DelRead, DelDeadlock
<1>7. ASSUME NEW j \in Posts, JobSwap(j) PROVE SwapIsWhole'
  <2>1. /\ row' = row /\ chunks' = chunks /\ job'[j].repo = job[j].repo
        /\ job'[j].doomed = {c \in chunks : c.repo = job[j].repo}
        /\ \A k \in Posts : k # j => job'[k] = job[k]
    BY <1>0, <1>7 DEF JobSwap, JobRec
  <2>2. job[j].repo = row.id => job'[j].doomed = chunks
    BY <1>0, <2>1 DEF NoStrayChunks
  <2>3. QED
    BY <2>1, <2>2 DEF SwapIsWhole
<1>8. ASSUME NEW j \in Posts, JobSide(j), ~JobSwap(j), chunks' = chunks
      PROVE  SwapIsWhole'
  <2>1. row'.id = row.id /\ \A k \in Posts : job'[k].repo = job[k].repo
    BY <1>0, <1>8, JobSideEffect DEF NoRevival
  <2>2. \A k \in Posts : k # j => job'[k] = job[k]
    BY <1>0, <1>8 DEF JobSide, Moves, JobStart, JobBuild, JobSwap, JobClose,
       JobInsert, Ends, JobCommit, JobFail, WorkerCrash, JobDies, Goto, End
  <2>3. job'[j].pc # "commit"
    <3>1. CASE Moves(j)
      BY <1>0, <1>8, <3>1 DEF Moves, JobStart, JobBuild, JobClose, Goto, JobRec
    <3>2. CASE JobInsert(j)
      <4>1. CASE Exists(job[j].repo)
        BY <1>0, <3>2, <4>1 DEF JobInsert, JobRec
      <4>2. CASE ~Exists(job[j].repo)
        BY <1>0, <3>2, <4>2, EndEffect DEF JobInsert
      <4>3. QED
        BY <4>1, <4>2
    <3>3. CASE Ends(j)
      <4>1. \E pc \in {"close", "done", "dead"} : End(j, pc)
        BY <1>8, <3>3 DEF Ends, JobCommit, JobFail, WorkerCrash, JobDies
      <4>2. QED
        BY <1>0, <4>1, EndEffect
    <3>4. QED
      BY <1>8, <3>1, <3>2, <3>3 DEF JobSide
  <2>4. QED
    BY <1>8, <2>1, <2>2, <2>3 DEF SwapIsWhole
<1>9. ASSUME NEW j \in Posts, JobCommit(j), chunks' # chunks PROVE SwapIsWhole'
  <2>1. job[j].repo = row.id
    BY <1>0, <1>9 DEF JobCommit, OpenInserts, OpenDeletes, NoStrayChunks
  <2>2. Live(j) /\ JobSide(j)
    BY <1>9 DEF JobCommit, Live, JobPc, JobSide, Ends
  <2>3. /\ row'.id = row.id
        /\ \A k \in Posts : job'[k].repo = job[k].repo /\ (Live(k)' => Live(k))
    BY <1>0, <2>2, JobSideEffect DEF NoRevival
  <2>4. ~Live(j)'
    BY <1>0, <1>9, EndEffect DEF JobCommit, Live, JobPc
  <2>5. \A k \in Posts : ~(job'[k].pc = "commit" /\ job'[k].repo = row'.id)
    BY <1>0, <2>1, <2>2, <2>3, <2>4 DEF OneLiveJob, Live, JobPc
  <2>6. QED
    BY <2>5 DEF SwapIsWhole
<1>10. CASE UNCHANGED vars
  BY <1>2, <1>10 DEF vars
<1>11. ASSUME NEW j \in Posts, JobSide(j), ~JobSwap(j), chunks' # chunks
       PROVE  JobCommit(j)
  BY <1>11 DEF JobSide, Moves, JobStart, JobBuild, JobClose, JobInsert, Ends,
     JobFail, WorkerCrash, JobDies
<1>12. QED
  BY <1>1, <1>3, <1>4, <1>5, <1>6, <1>7, <1>8, <1>9, <1>10, <1>11, StepKinds
     DEF PostDrop, DelExec

(* A row that is stuck is not touched again: POST and DELETE refuse it, and *)
(* no job is left for it.                                                  *)
LEMMA StuckStays ==
    ASSUME ~Overlapping, "crash" \notin Faults, OwedInv, Stuck, [Next]_vars
    PROVE  Stuck' /\ row' = row
<1>0. /\ TypeOK /\ OneInv /\ PostsHoldTheirRow /\ QueuedOnce /\ AnsweredIsDone
      /\ HandlersKnowTheirRow /\ MarksSettledRows /\ DeletesSettledRows
      /\ Pending(row) /\ ~Owed /\ GivenUp
      /\ post \in [Posts -> PostRec] /\ \A r \in Posts : post[r] \in PostRec
  BY DEF OwedInv, OneInv, TypeOK, Stuck
<1>1. \A j \in Posts : Live(j) => job[j].repo # row.id
  BY <1>0 DEF Owed, InFlight
<1>2. ASSUME NEW r \in Posts,
             PostCreate(r) \/ OnlyPost(r) \/ PostMark(r) \/ PostEnqueue(r)
               \/ PostEnqueueFails(r) \/ PostDrop(r)
      PROVE  row' = row /\ ~Owed'
  <2>1. post[r].pc = "idle"
    <3>1. BusyPost(r) => row.id = post[r].repo
      BY <1>0 DEF PostsHoldTheirRow
    <3>2. post[r].pc \notin {"enqueue", "rollback", "drop"}
      BY <1>0, <3>1 DEF Owed, BusyPost
    <3>3. ~PostMark(r) /\ post[r].pc # "mark"
      BY <1>0 DEF PostMark, PostsHoldTheirRow, MarksSettledRows
    <3>4. post[r].pc # "done"
      BY <1>0, <1>2, PostMoves
    <3>5. QED
      BY <1>0, <3>2, <3>3, <3>4 DEF PostRec, PostPc
  <2>2. PostFound(r)
    BY <1>0, <1>2, <2>1 DEF PostCreate, OnlyPost, PostNoPool, PostRollback,
       PostCrash, PostMark, PostEnqueue, PostEnqueueFails, PostDrop, Pending, Absent
  <2>3. /\ row' = row /\ job' = job /\ post'[r].pc = "done"
        /\ \A k \in Posts : k # r => post'[k] = post[k]
    BY <1>0, <2>2 DEF PostFound, Answer, PostRec
  <2>4. QED
    BY <1>0, <2>3 DEF Owed, InFlight, Live
<1>3. ASSUME NoRevival, post' = post, row' = row PROVE ~Owed'
  BY <1>0, <1>1, <1>3 DEF NoRevival, Owed, InFlight
<1>4. ASSUME NEW d \in Deletes, OnlyDel(d) \/ DelExec(d) PROVE row' = row /\ ~Owed'
  <2>1. row' = row /\ job' = job /\ post' = post
    BY <1>0, <1>4 DEF OnlyDel, DelRead, DelDeadlock, DelExec, DeleteRow,
       DeletesSettledRows, Exists
  <2>2. QED
    BY <1>3, <2>1 DEF NoRevival, Live
<1>5. ASSUME NEW j \in Posts, JobSide(j) PROVE row' = row /\ ~Owed'
  BY <1>0, <1>1, <1>3, <1>5, JobSideEffect DEF Exists
<1>6. ASSUME UNCHANGED vars PROVE row' = row /\ ~Owed'
  BY <1>0, <1>3, <1>6 DEF vars, NoRevival, Live
<1>7. row' = row /\ ~Owed'
  BY <1>2, <1>4, <1>5, <1>6, StepKinds
<1>8. GivenUp'
  BY <1>0, <1>7, GivenUpStays
<1>9. QED
  BY <1>0, <1>7, <1>8 DEF Stuck

LEMMA LifecycleStep ==
    ASSUME ~Overlapping, "crash" \notin Faults, IInv, OwedInv, SwapIsWhole,
           [Next]_vars
    PROVE  [Lifecycle!Next]_(Lifecycle!vars)
<1>0. /\ TypeOK /\ NoStrayChunks /\ OpenInserts /\ OpenDeletes
      /\ PostsHoldTheirRow /\ FlightsArePending /\ HandlersKnowTheirRow
      /\ MarksSettledRows
      /\ row \in Row \/ row = Absent
      /\ \A k \in Posts : job[k] \in JobRec
  BY DEF IInv, OwedInv, OneInv, TypeOK
<1>1. /\ Status(Absent) = "absent" /\ ~Pending(Absent)
      /\ Pending(row) => Status(row) = "indexing"
      /\ Pending(row') => Status(row') = "indexing"
      /\ row # Absent /\ ~Pending(row) => Status(row) \in {"ready", "failed"}
      /\ ~Pending(row) => Status(row) # "indexing"
  BY <1>0 DEF Status, Pending, Absent, Row
<1>2. /\ Stuck => Stuck' /\ row' = row
      /\ Stuck => Pending(row)
      /\ Stuck' => Pending(row') /\ ~Owed'
  BY StuckStays DEF Stuck
<1>3. ASSUME UNCHANGED <<row, chunks>> PROVE [Lifecycle!Next]_(Lifecycle!vars)
  <2>1. CASE Stuck \/ ~Stuck'
    <3>1. Stuck' = Stuck
      BY <1>2, <2>1 DEF Stuck
    <3>2. QED
      BY <1>3, <3>1 DEF Lifecycle!vars
  <2>2. CASE ~Stuck /\ Stuck'
    BY <1>1, <1>2, <1>3, <2>2 DEF Lifecycle!Next, Lifecycle!Abandon
  <2>3. QED
    BY <2>1, <2>2
<1>4. ASSUME ~Pending(row), Pending(row'), chunks' = chunks, Owed'
      PROVE  Lifecycle!Next
  <2>1. /\ ~Stuck /\ ~Stuck' /\ Status(row') = "indexing"
        /\ Status(row) \in {"absent", "ready", "failed"}
    BY <1>1, <1>2, <1>4
  <2>2. QED
    BY <1>4, <2>1 DEF Lifecycle!Next, Lifecycle!Register
<1>5. ASSUME NEW r \in Posts, PostCreate(r) \/ PostMark(r) PROVE Lifecycle!Next
  <2>1. /\ ~Pending(row) /\ Pending(row') /\ chunks' = chunks
        /\ post'[r].pc = "enqueue" /\ post'[r].repo = row'.id
    <3>1. CASE PostCreate(r)
      BY <1>0, <3>1 DEF PostCreate, Pending, Absent, TypeOK, PostRec
    <3>2. CASE PostMark(r)
      <4>1. chunks' = chunks
        BY <3>2 DEF PostMark
      <4>2. QED
        BY <1>0, <3>2, <4>1, MarkEffect
    <3>3. QED
      BY <1>5, <3>1, <3>2
  <2>2. Owed'
    BY <2>1 DEF Owed
  <2>3. QED
    BY <1>4, <2>1, <2>2
<1>6. ASSUME NEW id, DeleteRow(id) PROVE [Lifecycle!Next]_(Lifecycle!vars)
  <2>1. CASE Exists(id)
    <3>1. row' = Absent /\ chunks' = {} /\ row # Absent
      BY <1>0, <1>6, <2>1 DEF DeleteRow, Exists, NoStrayChunks, Absent
    <3>2. ~Stuck /\ ~Stuck'
      BY <1>1, <1>2, <3>1
    <3>3. Status(row) \in {"indexing", "ready", "failed"} /\ Status(row') = "absent"
      BY <1>1, <3>1
    <3>4. QED
      BY <3>1, <3>2, <3>3 DEF Lifecycle!Next, Lifecycle!Settle,
         Lifecycle!Withdraw, Lifecycle!Drop
  <2>2. CASE ~Exists(id)
    BY <1>3, <1>6, <2>2 DEF DeleteRow
  <2>3. QED
    BY <2>1, <2>2
<1>7. ASSUME NEW j \in Posts, Live(j), Exists(job[j].repo)
      PROVE  ~Stuck /\ Pending(row) /\ row \in Row
  <2>1. j \in InFlight(row.id)
    BY <1>7 DEF InFlight, Exists
  <2>2. ~Stuck
    BY <2>1 DEF Stuck, Owed
  <2>3. QED
    BY <1>0, <1>7, <2>2 DEF FlightsArePending, Exists, Absent
<1>8. ASSUME NEW j \in Posts, JobFail(j) PROVE [Lifecycle!Next]_(Lifecycle!vars)
  <2>1. CASE Exists(job[j].repo)
    <3>1. row \in Row /\ Pending(row) /\ chunks' = chunks /\ ~Stuck
      BY <1>7, <1>8, <2>1 DEF JobFail, Live, JobPc
    <3>2. Status(row') = "failed" /\ ~Pending(row')
      BY <1>8, <2>1, <3>1 DEF JobFail, Status, Pending, Row
    <3>3. QED
      BY <1>1, <1>2, <3>1, <3>2 DEF Lifecycle!Next, Lifecycle!Settle,
         Lifecycle!Fail
  <2>2. CASE ~Exists(job[j].repo)
    BY <1>3, <1>8, <2>2 DEF JobFail
  <2>3. QED
    BY <2>1, <2>2
<1>9. ASSUME NEW j \in Posts, JobCommit(j) PROVE [Lifecycle!Next]_(Lifecycle!vars)
  <2>1. CASE Exists(job[j].repo)
    <3>1. row \in Row /\ Pending(row) /\ ~Stuck
      BY <1>7, <1>9, <2>1 DEF JobCommit, Live, JobPc
    <3>2. job[j].doomed = chunks
      BY <1>9, <2>1 DEF JobCommit, Exists, SwapIsWhole
    <3>3. Status(row') = "ready" /\ ~Pending(row')
      BY <1>9, <2>1, <3>1 DEF JobCommit, Status, Pending, Row
    <3>4. chunks' = job[j].mine
      BY <1>9, <3>2 DEF JobCommit
    <3>5. job[j].mine \in {{}} \cup {{p} : p \in Chunk}
      BY <1>0 DEF OpenInserts, JobRec
    <3>6. QED
      BY <1>1, <1>2, <3>1, <3>3, <3>4, <3>5
         DEF Lifecycle!Next, Lifecycle!Settle, Lifecycle!Publish
  <2>2. CASE ~Exists(job[j].repo)
    <3>1. job[j].repo \in Posts /\ job[j].repo # row.id
      BY <1>0, <1>9, <2>2 DEF JobCommit, HandlersKnowTheirRow, Exists
    <3>2. job[j].mine = {} /\ job[j].doomed \cap chunks = {}
      BY <1>0, <3>1 DEF OpenInserts, OpenDeletes, NoStrayChunks
    <3>3. QED
      BY <1>3, <1>9, <2>2, <3>2 DEF JobCommit
  <2>3. QED
    BY <2>1, <2>2
<1>10. QED
  BY <1>3, <1>5, <1>6, <1>8, <1>9
     DEF Next, vars, PostStep, DelStep, JobStep, PostFound, PostNoPool, PostCrash,
     PostEnqueue, PostEnqueueFails, PostRollback, PostDrop, DelRead, DelExec,
     DelDeadlock, JobStart, JobBuild, JobInsert, JobSwap, JobClose, WorkerCrash,
     JobDies

(* The registry implements the safety of its promise: each transaction of  *)
(* a handler or of a job moves the status and the index as RepoLifecycle   *)
(* allows, or leaves both alone; a row that is stuck stays as it is.       *)
THEOREM StepsOfTheLifecycle ==
    ASSUME ~Overlapping, "crash" \notin Faults
    PROVE  Spec => Lifecycle!Init /\ [][Lifecycle!Next]_(Lifecycle!vars)
<1>1. Init => Lifecycle!Init /\ SwapIsWhole
  BY DEF Init, Lifecycle!Init, SwapIsWhole, NoJob, Status, Absent, Stuck, Pending
<1>2. IInv /\ OwedInv /\ SwapIsWhole /\ [Next]_vars
        => SwapIsWhole' /\ [Lifecycle!Next]_(Lifecycle!vars)
  BY SwapStep, LifecycleStep DEF OwedInv
<1>3. QED
  BY <1>1, <1>2, Invariance, OwedInvariance, PTL DEF Spec
=============================================================================
