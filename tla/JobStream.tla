----------------------------- MODULE JobStream -----------------------------
(***************************************************************************)
(* The live stream of one job: a worker publishes frames on the job's      *)
(* Redis channel (jobs_stream/publisher.py, called by index_repo_job and   *)
(* review_job), and every WebSocket handler (jobs_stream/router.py)        *)
(* subscribes, looks the job up in arq, sends an init frame and then       *)
(* either the stored result or whatever the channel brings.                *)
(*                                                                         *)
(* Redis pub/sub keeps nothing: a frame reaches the handlers subscribed    *)
(* when it is published and nobody else.                                   *)
(***************************************************************************)
EXTENDS Integers, Sequences

CONSTANTS
    Conns,      \* WebSocket connections
    Guarded,    \* review_job catches every publish error; index_repo_job
                \* does not catch that of its success frame
    Faults,     \* a subset of StreamFaults
    MaxTries,   \* arq's max_tries
    MaxFrames   \* progress frames per run (a bound)

StreamFaults ==
    { "publish",  \* PUBLISH fails
      "dies",     \* the job ends by an exception or by job_timeout
      "crash",    \* the worker stops; arq runs the job again
      "expire",   \* arq drops the stored result after its TTL
      "redis",    \* a handler cannot reach Redis
      "drop" }    \* the client goes away

ASSUME GuardedAssumption == Guarded \in BOOLEAN
ASSUME StreamFaultsAssumption == Faults \subseteq StreamFaults
ASSUME BoundsAssumption == MaxTries \in Nat \ {0} /\ MaxFrames \in Nat

VARIABLES
    job,    \* the worker's side, and what arq has stored about it
    conn    \* the handlers

vars == <<job, conn>>

JobPc == {"queued", "running", "publish", "finish", "lost", "complete", "gone"}
Outcomes == {"success", "failed"}
Results == {"none", "raised"} \cup Outcomes

Frames == [kind : {"init"}, state : {"queued", "running", "success"}]
            \cup [kind : {"progress"}, n : 0..MaxFrames]
            \cup [kind : {"complete"}, state : Outcomes]

Complete(state) == [kind |-> "complete", state |-> state]

ConnPc == {"idle", "subscribed", "known", "fetch", "listen", "closed"}
Open(c) == conn[c].pc \notin {"idle", "closed"}

(* arq's Job.status(): a result, else the in-progress key, else the queue. *)
Status ==
    CASE job.pc = "queued" -> "queued"
      [] job.pc \in {"running", "publish", "finish", "lost"} -> "in_progress"
      [] job.pc = "complete" -> "complete"
      [] OTHER -> "not_found"

(* _map_state.                                                             *)
InitState(status) ==
    CASE status = "in_progress" -> "running"
      [] status = "complete" -> "success"
      [] OTHER -> "queued"

-----------------------------------------------------------------------------
(* The worker.                                                             *)

(* Mutant: the handlers subscribe after their init frame.                  *)
PublishToListeners(frame) ==
    conn' = [c \in Conns |-> IF conn[c].pc = "listen"
                             THEN [conn[c] EXCEPT !.buf = Append(@, frame)]
                             ELSE conn[c]]

(* publisher.publish: every open handler's subscription receives it.       *)
Publish(frame) ==
    conn' = [c \in Conns |-> IF Open(c)
                             THEN [conn[c] EXCEPT !.buf = Append(@, frame)]
                             ELSE conn[c]]

(* Mutant: no max_tries.                                                   *)
JobStartUnlimited ==
    /\ job.pc \in {"queued", "lost"}
    /\ job' = [job EXCEPT !.pc = "running", !.try = @ + 1, !.n = 0]
    /\ UNCHANGED conn

(* arq hands the job to a worker, or gives it up.                          *)
JobStart ==
    /\ job.pc \in {"queued", "lost"}
    /\ IF job.try = MaxTries
       THEN job' = [job EXCEPT !.pc = "complete", !.result = "raised"]
       ELSE job' = [job EXCEPT !.pc = "running", !.try = @ + 1, !.n = 0]
    /\ UNCHANGED conn

(* A progress frame; a publish error is logged and the frame is lost.      *)
JobProgress ==
    /\ job.pc = "running" /\ job.n < MaxFrames
    /\ job' = [job EXCEPT !.n = @ + 1]
    /\ \/ Publish([kind |-> "progress", n |-> job.n])
       \/ "publish" \in Faults /\ UNCHANGED conn

(* The work ends: a result, or an IndexError / ReviewError.                *)
JobWork ==
    /\ job.pc = "running"
    /\ \E o \in Outcomes : job' = [job EXCEPT !.pc = "publish", !.result = o]
    /\ UNCHANGED conn

(* The complete frame, before arq knows that the job has ended.            *)
JobPublish ==
    /\ job.pc = "publish"
    /\ job' = [job EXCEPT !.pc = "finish", !.told = TRUE]
    /\ Publish(Complete(job.result))

(* It cannot be published: swallowed, except for index_repo_job's success, *)
(* whose exception becomes the result of the job.                          *)
JobPublishFails ==
    /\ "publish" \in Faults
    /\ job.pc = "publish"
    /\ job' = [job EXCEPT !.pc = "finish",
                 !.result = IF Guarded \/ @ = "failed" THEN @ ELSE "raised"]
    /\ UNCHANGED conn

(* An uncaught exception, or the cancellation by job_timeout.              *)
JobDies ==
    /\ "dies" \in Faults
    /\ job.pc \in {"running", "publish"}
    /\ job' = [job EXCEPT !.pc = "finish", !.result = "raised"]
    /\ UNCHANGED conn

(* finish_job: the result is stored and the job leaves the queue, at once. *)
JobFinish ==
    /\ job.pc = "finish"
    /\ job' = [job EXCEPT !.pc = "complete"]
    /\ UNCHANGED conn

WorkerCrash ==
    /\ "crash" \in Faults
    /\ job.pc \in {"running", "publish", "finish"}
    /\ job' = [job EXCEPT !.pc = "lost", !.result = "none", !.told = FALSE]
    /\ UNCHANGED conn

ResultExpires ==
    /\ "expire" \in Faults
    /\ job.pc = "complete"
    /\ job' = [job EXCEPT !.pc = "gone"]
    /\ UNCHANGED conn

-----------------------------------------------------------------------------
(* The handler jobs_stream.  A send to a client that has gone ends it.     *)

Close(c, code) == [conn[c] EXCEPT !.pc = "closed", !.code = code, !.buf = <<>>]

Send(c, frame, next) ==
    [conn[c] EXCEPT !.sent = Append(@, frame), !.pc = next]

SendAndClose(c, frame) ==
    [conn[c] EXCEPT !.sent = Append(@, frame), !.pc = "closed", !.code = 1000,
                    !.buf = <<>>]

Becomes(c, rec) ==
    /\ conn' = [conn EXCEPT ![c] = IF conn[c].alive THEN rec ELSE Close(c, 1006)]
    /\ UNCHANGED job

(* accept and subscribe: frames published from here on are buffered.       *)
ConnSubscribe(c) ==
    /\ conn[c].pc = "idle"
    /\ conn' = [conn EXCEPT ![c].pc = "subscribed"]
    /\ UNCHANGED job

(* The state that the init frame reports is read once, here.               *)
ConnLookup(c) ==
    /\ conn[c].pc = "subscribed"
    /\ conn' = [conn EXCEPT ![c] = IF Status = "not_found"
                  THEN Close(c, 4404)
                  ELSE [@ EXCEPT !.pc = "known", !.seen = Status]]
    /\ UNCHANGED job

ConnRefused(c) ==
    /\ "redis" \in Faults
    /\ conn[c].pc \in {"idle", "subscribed"}
    /\ conn' = [conn EXCEPT ![c] = Close(c, 1011)]
    /\ UNCHANGED job

ConnInit(c) ==
    /\ conn[c].pc = "known"
    /\ Becomes(c, Send(c, [kind |-> "init", state |-> InitState(conn[c].seen)],
                       IF conn[c].seen = "complete" THEN "fetch" ELSE "listen"))

(* Mutant: the complete branch without its return.                         *)
ConnFetchGoesOn(c) ==
    /\ conn[c].pc = "fetch"
    /\ Becomes(c, Send(c, Complete("success"), "listen"))

(* The stored result, read after the status was: a failure only if it is   *)
(* still there and is a failure envelope.                                  *)
ConnFetch(c) ==
    /\ conn[c].pc = "fetch"
    /\ LET failed == job.pc = "complete" /\ job.result = "failed" IN
       Becomes(c, SendAndClose(c, Complete(IF failed THEN "failed" ELSE "success")))

(* Mutant: the loop forwards the complete frame and goes on listening.     *)
ConnForwardGoesOn(c) ==
    /\ conn[c].pc = "listen" /\ conn[c].buf # <<>>
    /\ Becomes(c, [Send(c, Head(conn[c].buf), "listen") EXCEPT !.buf = Tail(@)])

(* One message of the channel.                                             *)
ConnForward(c) ==
    /\ conn[c].pc = "listen" /\ conn[c].buf # <<>>
    /\ LET frame == Head(conn[c].buf) IN
       IF frame.kind = "complete"
       THEN Becomes(c, SendAndClose(c, frame))
       ELSE Becomes(c, [Send(c, frame, "listen") EXCEPT !.buf = Tail(@)])

(* Redis fails later: nothing catches that, and the socket is dropped      *)
(* without a close frame.                                                  *)
ConnBreaks(c) ==
    /\ "redis" \in Faults
    /\ conn[c].pc \in {"known", "fetch", "listen"}
    /\ conn' = [conn EXCEPT ![c] = Close(c, 1006)]
    /\ UNCHANGED job

(* The browser leaves; the handler learns it when it next sends.           *)
ClientLeaves(c) ==
    /\ "drop" \in Faults
    /\ Open(c) /\ conn[c].alive
    /\ conn' = [conn EXCEPT ![c].alive = FALSE]
    /\ UNCHANGED job

-----------------------------------------------------------------------------
Init ==
    /\ job = [pc |-> "queued", result |-> "none", told |-> FALSE, try |-> 0, n |-> 0]
    /\ conn = [c \in Conns |-> [pc |-> "idle", seen |-> "none", alive |-> TRUE,
                                code |-> 0, buf |-> <<>>, sent |-> <<>>]]

JobStep == JobStart \/ JobProgress \/ JobWork \/ JobPublish \/ JobFinish

ConnStep(c) == ConnLookup(c) \/ ConnInit(c) \/ ConnFetch(c) \/ ConnForward(c)

Next ==
    \/ JobStep \/ JobPublishFails \/ JobDies \/ WorkerCrash \/ ResultExpires
    \/ \E c \in Conns : ConnStep(c) \/ ConnSubscribe(c) \/ ConnRefused(c)
                        \/ ConnBreaks(c) \/ ClientLeaves(c)

Spec == Init /\ [][Next]_vars

(* Workers run the jobs they take, and the event loop resumes every open   *)
(* handler; clients are free to come or not.                               *)
FairSpec == Spec /\ WF_vars(JobStep) /\ \A c \in Conns : WF_vars(ConnStep(c))

-----------------------------------------------------------------------------
JobType == [pc : JobPc, result : Results, told : BOOLEAN, try : 0..MaxTries,
            n : 0..MaxFrames]
Seen == {"none", "queued", "in_progress", "complete"}
Codes == {0, 1000, 1006, 1011, 4404}
ConnType == [pc : ConnPc, seen : Seen, alive : BOOLEAN, code : Codes,
             buf : Seq(Frames), sent : Seq(Frames)]

(* Every variable has its type.                                            *)
TypeOK == job \in JobType /\ conn \in [Conns -> ConnType]

(* The wire protocol of jobs_stream_ws.md: init first and only first,      *)
(* complete last and only last, and the normal close code exactly after    *)
(* it, whatever has piled up in the subscription meanwhile.                *)
FrameOrder ==
    \A c \in Conns :
        LET sent == conn[c].sent
            last == Len(sent)
        IN  /\ \A i \in 1..last : sent[i].kind = "init" <=> i = 1
            /\ \A i \in 1..last : sent[i].kind = "complete" => i = last
            /\ conn[c].code = 1000
                 <=> last > 0 /\ sent[last].kind = "complete"
            /\ conn[c].code = 1000 => conn[c].pc = "closed"

(* Subscribing before the lookup closes the window it is meant to close: a *)
(* handler that found the job queued holds the complete frame once it has  *)
(* been published.                                                         *)
QueuedSubscriberMissesNothing ==
    \A c \in Conns :
        conn[c].pc \in {"known", "listen"} /\ conn[c].seen = "queued" /\ job.told
            => \E i \in DOMAIN conn[c].buf : conn[c].buf[i].kind = "complete"

(* ... and it delivers it: the handler ends.                               *)
QueuedSubscriberEnds ==
    \A c \in Conns :
        (conn[c].pc = "listen" /\ conn[c].seen = "queued" /\ job.told)
            ~> conn[c].pc = "closed"
=============================================================================
