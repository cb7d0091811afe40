------------------------ MODULE ProgressChannel_proofs ------------------------
(***************************************************************************)
(* The two ends of a job's progress channel.                               *)
(*                                                                         *)
(* The server's: the frames of a stream keep their order, and who          *)
(* subscribed to a queued job holds its end, for any number of             *)
(* connections, tries and frames.  The browser's: the page follows one job *)
(* at a time, for any repositories, number of jobs and of list requests,   *)
(* whatever the network does.                                              *)
(***************************************************************************)
EXTENDS JobStream, RepoPage, SequenceTheorems, TLAPS

(* What a handler has sent and received, by where it stands.               *)
Ordered(h) ==
    /\ \A i \in 1..Len(h.sent) : h.sent[i].kind = "init" <=> i = 1
    /\ \A i \in 1..Len(h.sent) : h.sent[i].kind = "complete" => i = Len(h.sent)
    /\ h.code = 1000
         <=> Len(h.sent) > 0 /\ h.sent[Len(h.sent)].kind = "complete"
    /\ h.pc # "closed" => h.code = 0
    /\ h.pc \in {"idle", "subscribed", "known"} => h.sent = <<>>
    /\ h.pc \in {"fetch", "listen"} => h.sent # <<>>
    /\ \A i \in 1..Len(h.buf) : h.buf[i].kind # "init"

(* The complete frame waits in the subscription of h.                      *)
Holds(h) == \E i \in 1..Len(h.buf) : h.buf[i].kind = "complete"

Hears(h, told) ==
    h.pc \in {"known", "listen"} /\ h.seen = "queued" /\ told => Holds(h)

(* What the worker has done when it has told its subscribers of the end.   *)
WorkerInv ==
    /\ job.pc = "publish" => job.result \in Outcomes
    /\ job.told => job.pc \in {"finish", "complete", "gone"}

StreamInv ==
    /\ TypeOK
    /\ WorkerInv
    /\ \A c \in Conns : Ordered(conn[c]) /\ Hears(conn[c], job.told)

-----------------------------------------------------------------------------
(* A frame of the worker, as its subscribers may receive it.               *)
Receivable(frame) == frame \in Frames /\ frame.kind # "init"

(* The records that a handler's steps make of it, field by field.          *)
LEMMA Buffered ==
    ASSUME NEW h \in ConnType, NEW buf \in Seq(Frames),
           NEW g, g = [h EXCEPT !.buf = buf]
    PROVE  /\ g \in ConnType /\ g.buf = buf /\ g.pc = h.pc /\ g.seen = h.seen
           /\ g.sent = h.sent /\ g.code = h.code
<1> DEFINE S == Seq(Frames)
<1>1. ConnType = [pc : ConnPc, seen : Seen, alive : BOOLEAN, code : Codes,
                  buf : S, sent : S]
  BY DEF ConnType
<1>2. buf \in S
  OBVIOUS
<1> HIDE DEF S
<1> QED BY <1>1, <1>2

LEMMA CloseFields ==
    ASSUME NEW c \in Conns, conn[c] \in ConnType, NEW code \in Codes
    PROVE  /\ Close(c, code) \in ConnType
           /\ Close(c, code).pc = "closed"
           /\ Close(c, code).code = code
           /\ Close(c, code).buf = <<>>
           /\ Close(c, code).sent = conn[c].sent
<1> DEFINE S == Seq(Frames)
           h == conn[c]
           g == Close(c, code)
           pc == "closed"
           buf == <<>>
<1>1. ConnType = [pc : ConnPc, seen : Seen, alive : BOOLEAN, code : Codes,
                  buf : S, sent : S]
  BY DEF ConnType
<1>2. h \in ConnType /\ pc \in ConnPc /\ buf \in S /\ code \in Codes
  BY DEF ConnPc, Codes, ConnType
<1>3. g = [h EXCEPT !.pc = pc, !.code = code, !.buf = buf]
  BY DEF Close
<1> HIDE DEF S, h, g, pc, buf
<1>4. /\ g \in ConnType
      /\ g.pc = pc /\ g.code = code /\ g.buf = buf /\ g.sent = h.sent
  BY <1>1, <1>2, <1>3
<1> QED BY <1>4 DEF g, h, pc, buf

LEMMA SendFields ==
    ASSUME NEW c \in Conns, conn[c] \in ConnType, NEW frame \in Frames, NEW next \in ConnPc
    PROVE  /\ Send(c, frame, next) \in ConnType
           /\ Send(c, frame, next).pc = next
           /\ Send(c, frame, next).sent = Append(conn[c].sent, frame)
           /\ Send(c, frame, next).buf = conn[c].buf
           /\ Send(c, frame, next).seen = conn[c].seen
           /\ Send(c, frame, next).code = conn[c].code
<1> DEFINE S == Seq(Frames)
           h == conn[c]
           g == Send(c, frame, next)
           sent == Append(h.sent, frame)
<1>1. ConnType = [pc : ConnPc, seen : Seen, alive : BOOLEAN, code : Codes,
                  buf : S, sent : S]
  BY DEF ConnType
<1>2. h \in ConnType /\ sent \in S /\ next \in ConnPc
  BY DEF ConnPc, Codes, ConnType
<1>3. g = [h EXCEPT !.sent = sent, !.pc = next]
  BY DEF Send
<1> HIDE DEF S, h, g, sent
<1>4. /\ g \in ConnType
      /\ g.pc = next /\ g.sent = sent /\ g.buf = h.buf /\ g.seen = h.seen /\ g.code = h.code
  BY <1>1, <1>2, <1>3
<1> QED BY <1>4 DEF g, h, sent

LEMMA LastSendFields ==
    ASSUME NEW c \in Conns, conn[c] \in ConnType, NEW frame \in Frames
    PROVE  /\ SendAndClose(c, frame) \in ConnType
           /\ SendAndClose(c, frame).pc = "closed"
           /\ SendAndClose(c, frame).code = 1000
           /\ SendAndClose(c, frame).buf = <<>>
           /\ SendAndClose(c, frame).sent = Append(conn[c].sent, frame)
<1> DEFINE S == Seq(Frames)
           h == conn[c]
           g == SendAndClose(c, frame)
           sent == Append(h.sent, frame)
           pc == "closed"
           code == 1000
           buf == <<>>
<1>1. ConnType = [pc : ConnPc, seen : Seen, alive : BOOLEAN, code : Codes,
                  buf : S, sent : S]
  BY DEF ConnType
<1>2. h \in ConnType /\ sent \in S /\ pc \in ConnPc /\ code \in Codes /\ buf \in S
  BY DEF ConnPc, Codes, ConnType
<1>3. g = [h EXCEPT !.sent = sent, !.pc = pc, !.code = code, !.buf = buf]
  BY DEF SendAndClose
<1> HIDE DEF S, h, g, sent, pc, code, buf
<1>4. /\ g \in ConnType
      /\ g.pc = pc /\ g.code = code /\ g.buf = buf /\ g.sent = sent
  BY <1>1, <1>2, <1>3
<1> QED BY <1>4 DEF g, h, sent, pc, code, buf

LEMMA Turned ==
    ASSUME NEW h \in ConnType, NEW pc \in ConnPc, NEW g, g = [h EXCEPT !.pc = pc]
    PROVE  /\ g \in ConnType /\ g.buf = h.buf /\ g.sent = h.sent /\ g.code = h.code
           /\ g.pc = pc
<1> DEFINE S == Seq(Frames)
<1>1. ConnType = [pc : ConnPc, seen : Seen, alive : BOOLEAN, code : Codes,
                  buf : S, sent : S]
  BY DEF ConnType
<1> HIDE DEF S
<1> QED BY <1>1

LEMMA Left ==
    ASSUME NEW h \in ConnType, NEW g, g = [h EXCEPT !.alive = FALSE]
    PROVE  /\ g \in ConnType /\ g.buf = h.buf /\ g.sent = h.sent /\ g.code = h.code
           /\ g.pc = h.pc /\ g.seen = h.seen
<1> DEFINE S == Seq(Frames)
<1>1. ConnType = [pc : ConnPc, seen : Seen, alive : BOOLEAN, code : Codes,
                  buf : S, sent : S]
  BY DEF ConnType
<1> HIDE DEF S
<1> QED BY <1>1

LEMMA ReceivedFrame ==
    ASSUME NEW h \in ConnType, Ordered(h), NEW frame, Receivable(frame),
           NEW g, g = [h EXCEPT !.buf = Append(@, frame)]
    PROVE  /\ g \in ConnType /\ Ordered(g)
           /\ g.pc = h.pc /\ g.seen = h.seen
           /\ Holds(h) => Holds(g)
           /\ frame.kind = "complete" => Holds(g)
<1> DEFINE buf == Append(h.buf, frame)
<1>1. /\ h.buf \in Seq(Frames) /\ frame \in Frames
      /\ buf \in Seq(Frames) /\ Len(buf) = Len(h.buf) + 1 /\ Len(h.buf) \in Nat
      /\ \A i \in 1..Len(h.buf) : buf[i] = h.buf[i]
      /\ buf[Len(h.buf) + 1] = frame
  BY DEF ConnType, Receivable
<1>0. g = [h EXCEPT !.buf = buf]
  OBVIOUS
<1> HIDE DEF buf
<1>2. /\ g \in ConnType /\ g.buf = buf /\ g.pc = h.pc /\ g.seen = h.seen
      /\ g.sent = h.sent /\ g.code = h.code
  BY <1>0, <1>1, Buffered
<1>3. \A i \in 1..Len(buf) : buf[i].kind # "init"
  BY <1>1 DEF Ordered, Receivable
<1>4. Ordered(g)
  BY <1>2, <1>3 DEF Ordered
<1>5. Holds(h) => Holds(g)
  BY <1>1, <1>2 DEF Holds
<1>6. frame.kind = "complete" => Holds(g)
  BY <1>1, <1>2 DEF Holds
<1> QED BY <1>2, <1>4, <1>5, <1>6

(* A publication reaches the subscriptions and nothing else.               *)
LEMMA Published ==
    ASSUME StreamInv, NEW frame, Receivable(frame), Publish(frame)
    PROVE  /\ conn' \in [Conns -> ConnType]
           /\ \A c \in Conns :
                /\ Ordered(conn'[c])
                /\ conn'[c].pc = conn[c].pc /\ conn'[c].seen = conn[c].seen
                /\ Holds(conn[c]) => Holds(conn'[c])
                /\ Open(c) /\ frame.kind = "complete" => Holds(conn'[c])
<1> SUFFICES ASSUME NEW c \in Conns
             PROVE  /\ conn'[c] \in ConnType /\ Ordered(conn'[c])
                    /\ conn'[c].pc = conn[c].pc /\ conn'[c].seen = conn[c].seen
                    /\ Holds(conn[c]) => Holds(conn'[c])
                    /\ Open(c) /\ frame.kind = "complete" => Holds(conn'[c])
  BY DEF Publish
<1>1. conn[c] \in ConnType /\ Ordered(conn[c])
  BY DEF StreamInv, TypeOK
<1>2. CASE Open(c)
  <2>1. conn'[c] = [conn[c] EXCEPT !.buf = Append(@, frame)]
    BY <1>2 DEF Publish
  <2> QED BY <1>1, <2>1, ReceivedFrame
<1>3. CASE ~Open(c)
  BY <1>1, <1>3 DEF Publish
<1> QED BY <1>2, <1>3

(* The worker's steps.                                                     *)
LEMMA WorkerStep ==
    ASSUME StreamInv,
           \/ JobStart \/ JobProgress \/ JobWork \/ JobPublish \/ JobPublishFails
           \/ JobDies \/ JobFinish \/ WorkerCrash \/ ResultExpires
    PROVE  StreamInv'
<1>1. /\ job \in JobType /\ WorkerInv
      /\ \A c \in Conns : Ordered(conn[c]) /\ Hears(conn[c], job.told)
      /\ conn \in [Conns -> ConnType]
  BY DEF StreamInv, TypeOK
<1>2. job' \in JobType /\ WorkerInv'
  <2>1. CASE JobStart
    <3>1. /\ job.pc \in {"queued", "lost"} /\ ~job.told
          /\ job.try \in 0..MaxTries /\ MaxTries \in Nat /\ MaxFrames \in Nat
      BY <1>1, <2>1, BoundsAssumption DEF JobStart, JobType, WorkerInv
    <3>2. CASE job.try = MaxTries
      BY <1>1, <2>1, <3>1, <3>2 DEF JobStart, JobType, JobPc, Results, WorkerInv
    <3>3. CASE job.try # MaxTries
      <4>1. job' = [job EXCEPT !.pc = "running", !.try = @ + 1, !.n = 0]
        BY <2>1, <3>3 DEF JobStart
      <4>2. job.try + 1 \in 0..MaxTries /\ 0 \in 0..MaxFrames
        BY <3>1, <3>3
      <4> QED BY <1>1, <3>1, <4>1, <4>2 DEF JobType, JobPc, WorkerInv
    <3> QED BY <3>2, <3>3
  <2>2. CASE JobProgress
    BY <1>1, <2>2, BoundsAssumption DEF JobProgress, JobType, JobPc, WorkerInv
  <2>3. CASE JobWork
    BY <1>1, <2>3 DEF JobWork, JobType, JobPc, Results, WorkerInv
  <2>4. CASE JobPublish
    BY <1>1, <2>4 DEF JobPublish, JobType, JobPc, WorkerInv
  <2>5. CASE JobPublishFails
    BY <1>1, <2>5 DEF JobPublishFails, JobType, JobPc, Results, WorkerInv
  <2>6. CASE JobDies
    BY <1>1, <2>6 DEF JobDies, JobType, JobPc, Results, WorkerInv
  <2>7. CASE JobFinish
    BY <1>1, <2>7 DEF JobFinish, JobType, JobPc, WorkerInv
  <2>8. CASE WorkerCrash
    BY <1>1, <2>8 DEF WorkerCrash, JobType, JobPc, Results, WorkerInv
  <2>9. CASE ResultExpires
    BY <1>1, <2>9 DEF ResultExpires, JobType, JobPc, WorkerInv
  <2> QED BY <2>1, <2>2, <2>3, <2>4, <2>5, <2>6, <2>7, <2>8, <2>9
<1>3. CASE JobPublish
  <2> DEFINE frame == Complete(job.result)
  <2>1. Receivable(frame) /\ frame.kind = "complete"
    BY <1>1, <1>3 DEF JobPublish, WorkerInv, Complete, Receivable, Frames
  <2>2. Publish(frame)
    BY <1>3 DEF JobPublish
  <2> HIDE DEF frame
  <2>3. ASSUME NEW c \in Conns PROVE Ordered(conn'[c]) /\ Hears(conn'[c], job'.told)
    <3>1. conn'[c].pc \in {"known", "listen"} => Open(c)
      BY <2>1, <2>2, Published DEF Open
    <3> QED BY <2>1, <2>2, <3>1, Published DEF Hears
  <2> QED BY <1>2, <2>1, <2>2, <2>3, Published DEF StreamInv, TypeOK
<1>4. CASE JobProgress /\ ~UNCHANGED conn
  <2> DEFINE frame == [kind |-> "progress", n |-> job.n]
  <2>1. Receivable(frame)
    BY <1>1 DEF JobType, Receivable, Frames
  <2>2. Publish(frame) /\ job'.told = job.told
    BY <1>1, <1>4 DEF JobProgress, JobType
  <2> HIDE DEF frame
  <2>3. ASSUME NEW c \in Conns PROVE Ordered(conn'[c]) /\ Hears(conn'[c], job'.told)
    BY <1>1, <2>1, <2>2, Published DEF Hears
  <2> QED BY <1>2, <2>1, <2>2, <2>3, Published DEF StreamInv, TypeOK
<1>5. CASE ~JobPublish /\ UNCHANGED conn
  <2>1. job'.told => job.told
    BY <1>1, <1>5 DEF JobStart, JobProgress, JobWork, JobPublishFails, JobDies,
                      JobFinish, WorkerCrash, ResultExpires, JobType
  <2>2. \A c \in Conns : Hears(conn'[c], job'.told)
    BY <1>1, <1>5, <2>1 DEF Hears
  <2> QED BY <1>1, <1>2, <1>5, <2>2 DEF StreamInv, TypeOK
<1>6. JobProgress \/ JobPublish \/ UNCHANGED conn
  BY DEF JobStart, JobWork, JobPublishFails, JobDies, JobFinish, WorkerCrash,
         ResultExpires
<1> QED BY <1>3, <1>4, <1>5, <1>6
-----------------------------------------------------------------------------
(* What a handler's step may do to the handler: nothing unheard of.        *)
Proper(h, told) == h \in ConnType /\ Ordered(h) /\ Hears(h, told)

(* A handler that closes without a last frame.                             *)
LEMMA ClosedHandler ==
    ASSUME NEW h \in ConnType, Ordered(h), NEW told, NEW g \in ConnType,
           g.pc = "closed", g.code \notin {0, 1000}, g.buf = <<>>, g.sent = h.sent,
           \A i \in 1..Len(h.sent) : h.sent[i].kind # "complete"
    PROVE  Proper(g, told)
<1>1. Len(g.buf) = 0 /\ h.sent \in Seq(Frames) /\ Len(h.sent) \in Nat
  BY DEF ConnType
<1>2. Ordered(g)
  BY <1>1 DEF Ordered
<1> QED BY <1>2 DEF Proper, Hears

(* A frame sent: the first is the init frame, and the complete frame the   *)
(* last, with the normal code.                                             *)
LEMMA Sent ==
    ASSUME NEW h \in ConnType, Ordered(h), h.code = 0, NEW frame \in Frames,
           frame.kind = "init" <=> h.sent = <<>>,
           NEW g \in ConnType, g.sent = Append(h.sent, frame),
           g.pc \notin {"idle", "subscribed", "known"},
           frame.kind = "complete" <=> g.code = 1000,
           g.pc # "closed" => g.code = 0,
           \A i \in 1..Len(g.buf) : g.buf[i].kind # "init"
    PROVE  Ordered(g)
<1> DEFINE last == Len(h.sent)
<1>1. /\ h.sent \in Seq(Frames) /\ last \in Nat
      /\ Len(g.sent) = last + 1 /\ g.sent[last + 1] = frame
      /\ \A i \in 1..last : g.sent[i] = h.sent[i]
      /\ h.sent = <<>> <=> last = 0
  BY DEF ConnType
<1> HIDE DEF last
<1>2. \A i \in 1..last : h.sent[i].kind # "complete"
  BY <1>1 DEF Ordered, last
<1>3. \A i \in 1..last : h.sent[i].kind = "init" <=> i = 1
  BY DEF Ordered, last
<1>4. \A i \in 1..(last + 1) : i \in 1..last \/ i = last + 1
  BY <1>1
<1>5. \A i \in 1..Len(g.sent) : g.sent[i].kind = "init" <=> i = 1
  BY <1>1, <1>3, <1>4
<1>6. \A i \in 1..Len(g.sent) : g.sent[i].kind = "complete" => i = Len(g.sent)
  BY <1>1, <1>2, <1>4
<1>7. g.sent # <<>>
  BY <1>1 DEF ConnType
<1> QED BY <1>1, <1>5, <1>6, <1>7 DEF Ordered

(* One handler steps, to where its step may bring it.                      *)
Moves(c, rec) == conn' = [conn EXCEPT ![c] = rec] /\ UNCHANGED job

LEMMA Stepped ==
    ASSUME StreamInv, NEW c \in Conns, NEW rec, Proper(rec, job.told), Moves(c, rec)
    PROVE  StreamInv'
<1>1. conn' \in [Conns -> ConnType] /\ conn'[c] = rec
  BY DEF StreamInv, TypeOK, Proper, Moves
<1>2. ASSUME NEW d \in Conns PROVE Ordered(conn'[d]) /\ Hears(conn'[d], job'.told)
  BY DEF StreamInv, TypeOK, Proper, Moves
<1> QED BY <1>1, <1>2 DEF StreamInv, TypeOK, WorkerInv, Moves

(* An open handler has sent no complete frame, and buffers no init frame.  *)
LEMMA Unended ==
    ASSUME NEW h \in ConnType, Ordered(h), h.pc # "closed"
    PROVE  /\ h.code = 0
           /\ \A i \in 1..Len(h.sent) : h.sent[i].kind # "complete"
           /\ \A i \in 1..Len(h.buf) : h.buf[i].kind # "init"
<1>1. h.sent \in Seq(Frames) /\ Len(h.sent) \in Nat
  BY DEF ConnType
<1>2. h.code = 0 /\ \A i \in 1..Len(h.sent) : h.sent[i].kind # "complete"
  BY <1>1 DEF Ordered
<1>3. \A i \in 1..Len(h.buf) : h.buf[i].kind # "init"
  BY DEF Ordered
<1> QED BY <1>2, <1>3

(* A handler may give up wherever it stands.                               *)
LEMMA CloseIsProper ==
    ASSUME StreamInv, NEW c \in Conns, conn[c].pc # "closed",
           NEW code \in {1006, 1011, 4404}
    PROVE  Proper(Close(c, code), job.told)
<1> DEFINE h == conn[c]
           g == Close(c, code)
<1>1. h \in ConnType /\ Ordered(h) /\ h.pc # "closed"
  BY DEF StreamInv, TypeOK
<1>2. /\ g \in ConnType /\ g.buf = <<>> /\ g.pc = "closed"
      /\ g.sent = h.sent /\ g.code = code
  BY <1>1, CloseFields DEF Codes
<1> HIDE DEF h, g
<1>3. Proper(g, job.told)
  BY <1>1, <1>2, Unended, ClosedHandler
<1> QED BY <1>3 DEF g

(* A handler steps to g, unless its client has gone.                       *)
LEMMA Became ==
    ASSUME StreamInv, NEW c \in Conns, NEW g, Becomes(c, g),
           conn[c].pc # "closed", Proper(g, job.told)
    PROVE  StreamInv'
<1>1. CASE conn[c].alive
  <2>1. Moves(c, g)
    BY <1>1 DEF Becomes, Moves
  <2> QED BY <2>1, Stepped
<1>2. CASE ~conn[c].alive
  <2>1. Moves(c, Close(c, 1006))
    BY <1>2 DEF Becomes, Moves
  <2>2. Proper(Close(c, 1006), job.told)
    BY CloseIsProper
  <2> QED BY <2>1, <2>2, Stepped
<1> QED BY <1>1, <1>2

(* Before the init frame.                                                  *)
LEMMA OpeningStep ==
    ASSUME StreamInv, NEW c \in Conns,
           ConnSubscribe(c) \/ ConnLookup(c) \/ ConnRefused(c)
    PROVE  StreamInv'
<1> DEFINE h == conn[c]
<1>1. /\ h \in ConnType /\ Ordered(h) /\ WorkerInv /\ conn \in [Conns -> ConnType]
      /\ job \in JobType
  BY DEF StreamInv, TypeOK
<1>2. CASE ConnSubscribe(c)
  <2> DEFINE g == [h EXCEPT !.pc = "subscribed"]
  <2>1. Moves(c, g) /\ h.pc = "idle"
    BY <1>1, <1>2 DEF ConnSubscribe, Moves
  <2>2. /\ g \in ConnType /\ g.pc = "subscribed" /\ g.sent = h.sent
        /\ g.buf = h.buf /\ g.code = h.code
    <3>1. "subscribed" \in ConnPc
      BY DEF ConnPc
    <3> QED BY <1>1, <3>1, Turned
  <2> HIDE DEF g, h
  <2>3. Ordered(g)
    BY <1>1, <2>1, <2>2 DEF Ordered
  <2>4. Proper(g, job.told)
    BY <2>2, <2>3 DEF Proper, Hears
  <2> QED BY <2>1, <2>4, Stepped
<1>3. CASE ConnRefused(c)
  <2>1. Moves(c, Close(c, 1011)) /\ conn[c].pc # "closed"
    BY <1>3 DEF ConnRefused, Moves
  <2>2. Proper(Close(c, 1011), job.told)
    BY <2>1, CloseIsProper
  <2> QED BY <2>1, <2>2, Stepped
<1>4. CASE ConnLookup(c) /\ Status = "not_found"
  <2>1. Moves(c, Close(c, 4404)) /\ conn[c].pc # "closed"
    BY <1>4 DEF ConnLookup, Moves
  <2>2. Proper(Close(c, 4404), job.told)
    BY <2>1, CloseIsProper
  <2> QED BY <2>1, <2>2, Stepped
<1>5. CASE ConnLookup(c) /\ Status # "not_found"
  <2> DEFINE seen == Status
             g == [h EXCEPT !.pc = "known", !.seen = seen]
  <2>1. Moves(c, g) /\ h.pc = "subscribed"
    BY <1>1, <1>5 DEF ConnLookup, Moves
  <2>2. seen \in Seen /\ "known" \in ConnPc
    BY <1>5 DEF Status, Seen, ConnPc
  <2>3. seen = "queued" => ~job.told
    BY <1>1 DEF Status, WorkerInv, JobType
  <2> HIDE DEF seen
  <2>4. /\ g \in ConnType /\ g.pc = "known" /\ g.sent = h.sent /\ g.seen = seen
        /\ g.buf = h.buf /\ g.code = h.code
    <3> DEFINE pc == "known"
    <3>1. g = [h EXCEPT !.pc = pc, !.seen = seen] /\ pc \in ConnPc /\ h \in ConnType
      BY <1>1, <2>2
    <3> HIDE DEF pc, h, g
    <3>2. /\ g \in ConnType /\ g.buf = h.buf /\ g.sent = h.sent /\ g.code = h.code
          /\ g.pc = pc /\ g.seen = seen
      <4> DEFINE S == Seq(Frames)
      <4>1. ConnType = [pc : ConnPc, seen : Seen, alive : BOOLEAN, code : Codes,
                        buf : S, sent : S]
        BY DEF ConnType
      <4> HIDE DEF S
      <4> QED BY <2>2, <3>1, <4>1
    <3> QED BY <3>2 DEF pc
  <2> HIDE DEF g, h
  <2>5. Ordered(g)
    BY <1>1, <2>1, <2>4 DEF Ordered
  <2>6. Proper(g, job.told)
    BY <2>3, <2>4, <2>5 DEF Proper, Hears
  <2> QED BY <2>1, <2>6, Stepped
<1> QED BY <1>2, <1>3, <1>4, <1>5

(* The last frame and the close.                                           *)
LEMMA EndStep ==
    ASSUME StreamInv, NEW c \in Conns, conn[c].pc \in {"fetch", "listen"},
           NEW frame \in Frames, frame.kind = "complete",
           Becomes(c, SendAndClose(c, frame))
    PROVE  StreamInv'
<1> DEFINE h == conn[c]
           g == SendAndClose(c, frame)
<1>1. h \in ConnType /\ Ordered(h) /\ h.pc # "closed" /\ h.sent # <<>>
  BY DEF StreamInv, TypeOK, Ordered
<1>2. /\ g \in ConnType /\ g.buf = <<>> /\ g.pc = "closed"
      /\ g.sent = Append(h.sent, frame) /\ g.code = 1000
  BY <1>1, LastSendFields
<1>3. Becomes(c, g) /\ conn[c].pc # "closed"
  BY <1>1
<1> HIDE DEF h, g
<1>4. \A i \in 1..Len(g.buf) : g.buf[i].kind # "init"
  BY <1>2
<1>5. /\ h.code = 0
      /\ frame.kind = "init" <=> h.sent = <<>>
      /\ frame.kind = "complete" <=> g.code = 1000
      /\ g.pc # "closed" => g.code = 0
      /\ g.pc \notin {"idle", "subscribed", "known"}
  BY <1>1, <1>2, Unended
<1>6. Ordered(g)
  BY <1>1, <1>2, <1>4, <1>5, Sent
<1>7. Proper(g, job.told)
  BY <1>2, <1>6 DEF Proper, Hears
<1> QED BY <1>3, <1>7, Became

(* The init frame.                                                         *)
LEMMA InitStep ==
    ASSUME StreamInv, NEW c \in Conns, ConnInit(c)
    PROVE  StreamInv'
<1> DEFINE h == conn[c]
           frame == [kind |-> "init", state |-> InitState(h.seen)]
           pc == IF h.seen = "complete" THEN "fetch" ELSE "listen"
           g == Send(c, frame, pc)
<1>1. /\ h \in ConnType /\ Ordered(h) /\ h.pc = "known" /\ h.sent = <<>>
      /\ Hears(h, job.told) /\ Becomes(c, g)
  BY DEF StreamInv, TypeOK, Ordered, ConnInit
<1>2. frame \in Frames /\ frame.kind = "init"
  BY DEF Frames, InitState
<1>3. pc \in ConnPc /\ pc \in {"fetch", "listen"}
  BY DEF ConnPc
<1> HIDE DEF frame, pc
<1>4. /\ g \in ConnType /\ g.buf = h.buf /\ g.pc = pc /\ g.seen = h.seen
      /\ g.sent = Append(h.sent, frame) /\ g.code = h.code
  BY <1>1, <1>2, <1>3, SendFields
<1>5. conn[c].pc # "closed"
  BY <1>1
<1> HIDE DEF h, g
<1>6. h.code = 0 /\ \A i \in 1..Len(g.buf) : g.buf[i].kind # "init"
  BY <1>1, <1>4, Unended
<1>7. /\ frame.kind = "init" <=> h.sent = <<>>
      /\ frame.kind = "complete" <=> g.code = 1000
      /\ g.pc # "closed" => g.code = 0
      /\ g.pc \notin {"idle", "subscribed", "known"}
  BY <1>1, <1>2, <1>3, <1>4, <1>6
<1>8. Ordered(g)
  <2>1. /\ h \in ConnType /\ Ordered(h) /\ h.code = 0 /\ frame \in Frames
        /\ g \in ConnType /\ g.sent = Append(h.sent, frame)
    BY <1>1, <1>2, <1>4, <1>6
  <2> QED BY <1>6, <1>7, <2>1, Sent
<1>9. Holds(h) => Holds(g)
  BY <1>4 DEF Holds
<1>10. Proper(g, job.told)
  BY <1>1, <1>3, <1>4, <1>8, <1>9 DEF Proper, Hears
<1> QED BY <1>1, <1>5, <1>10, Became

(* A progress frame forwarded leaves the end in the subscription.          *)
LEMMA ProgressStep ==
    ASSUME StreamInv, NEW c \in Conns, conn[c].pc = "listen", conn[c].buf # <<>>,
           Head(conn[c].buf).kind # "complete",
           Becomes(c, [Send(c, Head(conn[c].buf), "listen") EXCEPT !.buf = Tail(@)])
    PROVE  StreamInv'
<1> DEFINE h == conn[c]
           frame == Head(h.buf)
           rest == Tail(h.buf)
           f == Send(c, frame, "listen")
           g == [f EXCEPT !.buf = rest]
<1>1. /\ h \in ConnType /\ Ordered(h) /\ h.pc = "listen" /\ h.sent # <<>>
      /\ h.buf # <<>> /\ frame.kind # "complete" /\ Hears(h, job.told)
  BY DEF StreamInv, TypeOK, Ordered
<1>2. h.buf \in Seq(Frames) /\ h.sent \in Seq(Frames)
  BY <1>1 DEF ConnType
<1>3. /\ frame \in Frames /\ rest \in Seq(Frames) /\ frame = h.buf[1]
      /\ Len(h.buf) \in Nat /\ Len(h.buf) > 0 /\ Len(rest) = Len(h.buf) - 1
      /\ \A i \in 1..Len(rest) : rest[i] = h.buf[i + 1]
  BY <1>1, <1>2
<1>4. f.buf = h.buf /\ f \in ConnType /\ f.pc = "listen" /\ f.seen = h.seen
      /\ f.sent = Append(h.sent, frame) /\ f.code = h.code
  <2>1. "listen" \in ConnPc
    BY DEF ConnPc
  <2> HIDE DEF frame
  <2> QED BY <1>1, <1>3, <2>1, SendFields
<1>5. Becomes(c, g) /\ conn[c].pc # "closed"
  <2>1. Becomes(c, [f EXCEPT !.buf = Tail(@)])
    OBVIOUS
  <2>2. [f EXCEPT !.buf = Tail(@)] = g
    <3> HIDE DEF f
    <3> QED BY <1>4
  <2> QED BY <1>1, <2>1, <2>2
<1>6. g = [f EXCEPT !.buf = rest]
  OBVIOUS
<1> HIDE DEF h, frame, rest, f, g
<1>7. /\ g \in ConnType /\ g.buf = rest /\ g.pc = "listen" /\ g.seen = h.seen
      /\ g.sent = Append(h.sent, frame) /\ g.code = h.code
  <2>1. /\ g \in ConnType /\ g.buf = rest /\ g.pc = f.pc /\ g.seen = f.seen
        /\ g.sent = f.sent /\ g.code = f.code
    BY <1>3, <1>4, <1>6, Buffered
  <2> QED BY <1>4, <2>1
<1>8. \A i \in 1..Len(rest) : i + 1 \in 1..Len(h.buf)
  BY <1>3
<1>9. /\ h.code = 0 /\ frame.kind # "init"
      /\ \A i \in 1..Len(g.buf) : g.buf[i].kind # "init"
  <2>1. h.code = 0 /\ \A i \in 1..Len(h.buf) : h.buf[i].kind # "init"
    BY <1>1, Unended
  <2>2. 1 \in 1..Len(h.buf)
    BY <1>3
  <2> QED BY <1>3, <1>7, <1>8, <2>1, <2>2
<1>10. /\ frame.kind = "init" <=> h.sent = <<>>
       /\ frame.kind = "complete" <=> g.code = 1000
       /\ g.pc # "closed" => g.code = 0
       /\ g.pc \notin {"idle", "subscribed", "known"}
  BY <1>1, <1>7, <1>9
<1>11. Ordered(g)
  <2>1. /\ h \in ConnType /\ Ordered(h) /\ h.code = 0 /\ frame \in Frames
        /\ g \in ConnType /\ g.sent = Append(h.sent, frame)
    BY <1>1, <1>3, <1>7, <1>9
  <2> QED BY <1>9, <1>10, <2>1, Sent
<1>12. Holds(h) => Holds(g)
  <2>1. ASSUME NEW i \in 1..Len(h.buf), h.buf[i].kind = "complete"
        PROVE  i - 1 \in 1..Len(rest) /\ rest[i - 1].kind = "complete"
    <3>1. i # 1
      BY <1>1, <1>3, <2>1
    <3>2. i - 1 \in 1..Len(rest) /\ (i - 1) + 1 = i
      BY <1>3, <3>1
    <3> QED BY <1>3, <2>1, <3>2
  <2> QED BY <1>7, <2>1 DEF Holds
<1>13. Proper(g, job.told)
  BY <1>1, <1>7, <1>11, <1>12 DEF Proper, Hears
<1> QED BY <1>5, <1>13, Became

(* The steps of one handler, and of its client.                            *)
LEMMA HandlerStep ==
    ASSUME StreamInv, NEW c \in Conns,
           \/ ConnStep(c) \/ ConnSubscribe(c) \/ ConnRefused(c)
           \/ ConnBreaks(c) \/ ClientLeaves(c)
    PROVE  StreamInv'
<1> DEFINE h == conn[c]
<1>1. h \in ConnType /\ Ordered(h) /\ Hears(h, job.told) /\ conn \in [Conns -> ConnType]
  BY DEF StreamInv, TypeOK
<1>2. CASE ConnLookup(c) \/ ConnSubscribe(c) \/ ConnRefused(c)
  BY <1>2, OpeningStep
<1>3. CASE ConnInit(c)
  BY <1>3, InitStep
<1>4. CASE ConnFetch(c)
  <2> DEFINE failed == job.pc = "complete" /\ job.result = "failed"
             frame == Complete(IF failed THEN "failed" ELSE "success")
  <2>1. frame \in Frames /\ frame.kind = "complete"
    BY DEF Frames, Complete, Outcomes
  <2>2. h.pc \in {"fetch", "listen"} /\ Becomes(c, SendAndClose(c, frame))
    BY <1>4 DEF ConnFetch
  <2> HIDE DEF frame
  <2> QED BY <2>1, <2>2, EndStep
<1>5. CASE ConnForward(c)
  <2> DEFINE frame == Head(h.buf)
  <2>1. h.pc = "listen" /\ h.buf # <<>> /\ frame \in Frames
    BY <1>1, <1>5 DEF ConnForward, ConnType
  <2>2. CASE frame.kind = "complete"
    <3>1. Becomes(c, SendAndClose(c, frame)) /\ h.pc \in {"fetch", "listen"}
      BY <1>5, <2>1, <2>2 DEF ConnForward
    <3> QED BY <2>1, <2>2, <3>1, EndStep
  <2>3. CASE frame.kind # "complete"
    <3>1. Becomes(c, [Send(c, Head(h.buf), "listen") EXCEPT !.buf = Tail(@)])
      BY <1>5, <2>3 DEF ConnForward
    <3> QED BY <2>1, <2>3, <3>1, ProgressStep
  <2> QED BY <2>2, <2>3
<1>6. CASE ClientLeaves(c)
  <2> DEFINE g == [h EXCEPT !.alive = FALSE]
  <2>1. Moves(c, g)
    BY <1>1, <1>6 DEF ClientLeaves, Moves
  <2>2. /\ g \in ConnType /\ g.pc = h.pc /\ g.sent = h.sent /\ g.seen = h.seen
        /\ g.buf = h.buf /\ g.code = h.code
    BY <1>1, Left
  <2> HIDE DEF g, h
  <2>3. Ordered(g)
    BY <1>1, <2>2 DEF Ordered
  <2>4. Proper(g, job.told)
    BY <1>1, <2>2, <2>3 DEF Proper, Hears, Holds
  <2> QED BY <2>1, <2>4, Stepped
<1>7. CASE ConnBreaks(c)
  <2>1. Moves(c, Close(c, 1006)) /\ conn[c].pc # "closed"
    BY <1>7 DEF ConnBreaks, Moves
  <2>2. Proper(Close(c, 1006), job.told)
    BY <2>1, CloseIsProper
  <2> QED BY <2>1, <2>2, Stepped
<1> QED BY <1>2, <1>3, <1>4, <1>5, <1>6, <1>7 DEF ConnStep

-----------------------------------------------------------------------------
LEMMA StreamStart == Init => StreamInv
<1> SUFFICES ASSUME Init PROVE StreamInv
  OBVIOUS
<1> DEFINE idle == [pc |-> "idle", seen |-> "none", alive |-> TRUE,
                    code |-> 0, buf |-> <<>>, sent |-> <<>>]
<1>1. job \in JobType /\ WorkerInv
  BY BoundsAssumption DEF Init, JobType, JobPc, Results, WorkerInv
<1>2. <<>> \in Seq(Frames) /\ "idle" \in ConnPc
  BY DEF ConnPc
<1>3. idle \in ConnType
  BY <1>2 DEF ConnType, Seen, Codes
<1>4. idle.pc = "idle" /\ idle.code = 0 /\ Len(idle.sent) = 0 /\ Len(idle.buf) = 0
      /\ idle.sent = <<>>
  OBVIOUS
<1>5. conn = [c \in Conns |-> idle]
  BY DEF Init
<1> HIDE DEF idle
<1>6. Ordered(idle) /\ Hears(idle, job.told)
  BY <1>4 DEF Ordered, Hears
<1> QED BY <1>1, <1>3, <1>5, <1>6 DEF StreamInv, TypeOK

(* Every step of the worker or of a handler keeps the invariant: the one   *)
(* induction that the theorems below rest on.                              *)
THEOREM StreamInvariance == Spec => []StreamInv
<1>1. ASSUME StreamInv, [Next]_vars PROVE StreamInv'
  <2>1. CASE UNCHANGED vars
    BY <1>1, <2>1 DEF StreamInv, TypeOK, WorkerInv, vars
  <2>2. CASE JobStep \/ JobPublishFails \/ JobDies \/ WorkerCrash \/ ResultExpires
    BY <1>1, <2>2, WorkerStep DEF JobStep
  <2>3. CASE \E c \in Conns : ConnStep(c) \/ ConnSubscribe(c) \/ ConnRefused(c)
                             \/ ConnBreaks(c) \/ ClientLeaves(c)
    BY <1>1, <2>3, HandlerStep
  <2> QED BY <1>1, <2>1, <2>2, <2>3 DEF Next
<1> QED BY StreamStart, <1>1, PTL DEF Spec

(* The job and the handlers keep their types: a job is tried at most       *)
(* max_tries times, however often its worker stops (arq, worker.py).       *)
THEOREM StreamTypes == Spec => []TypeOK
<1>1. StreamInv => TypeOK
  BY DEF StreamInv
<1> QED BY StreamInvariance, <1>1, PTL

(* The wire protocol of router.py: init first and only first, complete     *)
(* last and only last, and the normal close code exactly after it.         *)
THEOREM FrameOrderHolds == Spec => []FrameOrder
<1>1. StreamInv => FrameOrder
  <2> SUFFICES ASSUME StreamInv, NEW c \in Conns
               PROVE  LET sent == conn[c].sent
                          last == Len(sent)
                      IN  /\ \A i \in 1..last : sent[i].kind = "init" <=> i = 1
                          /\ \A i \in 1..last : sent[i].kind = "complete" => i = last
                          /\ conn[c].code = 1000
                               <=> last > 0 /\ sent[last].kind = "complete"
                          /\ conn[c].code = 1000 => conn[c].pc = "closed"
    BY DEF FrameOrder
  <2>1. Ordered(conn[c])
    BY DEF StreamInv
  <2> QED BY <2>1 DEF Ordered
<1> QED BY StreamInvariance, <1>1, PTL

(* A handler that found the job queued holds the complete frame once the   *)
(* worker has published it: subscribing before the lookup leaves no window *)
(* (router.py, publisher.py).                                              *)
THEOREM MissesNothing == Spec => []QueuedSubscriberMissesNothing
<1>1. StreamInv => QueuedSubscriberMissesNothing
  <2> SUFFICES ASSUME StreamInv, NEW c \in Conns,
                      conn[c].pc \in {"known", "listen"}, conn[c].seen = "queued",
                      job.told
               PROVE  \E i \in DOMAIN conn[c].buf : conn[c].buf[i].kind = "complete"
    BY DEF QueuedSubscriberMissesNothing
  <2>1. Holds(conn[c])
    BY DEF StreamInv, Hears
  <2>2. conn[c].buf \in Seq(Frames)
    BY DEF StreamInv, TypeOK, ConnType
  <2>3. DOMAIN conn[c].buf = 1..Len(conn[c].buf)
    BY <2>2
  <2> QED BY <2>1, <2>3 DEF Holds
<1> QED BY StreamInvariance, <1>1, PTL

-----------------------------------------------------------------------------
(* The browser's end.                                                      *)

Alive == {"connecting", "open"}

(* As long as no onclose has emptied the variable of another WebSocket, it *)
(* holds the one that can deliver frames, and does so when nothing polls.  *)
SocketInv ==
    ~orphaned =>
        /\ \A j \in Jobs : channel[j] \in Alive => socket = j
        /\ ~fallback => socket # 0 /\ channel[socket] \in Alive
        /\ active = 0 => socket = 0

PageInv == PageTypeOK /\ SocketInv

-----------------------------------------------------------------------------
LEMMA JobsAreNumbered ==
    /\ \A j \in Jobs : j \in 0..MaxJobs /\ j # 0
    /\ 0 \in 0..MaxJobs
    /\ \A n \in 0..MaxJobs : n # 0 => n \in Jobs
BY PageBounds DEF Jobs

LEMMA RemovedList ==
    ASSUME NEW S, NEW s \in Seq(S), NEW i \in DOMAIN s
    PROVE  RemoveAt(s, i) \in Seq(S)
<1>1. /\ i \in Nat /\ i >= 1 /\ i <= Len(s) /\ Len(s) \in Nat
      /\ i - 1 \in 0..Len(s)
  OBVIOUS
<1>2. SubSeq(s, 1, i - 1) \in Seq(S) /\ SubSeq(s, i + 1, Len(s)) \in Seq(S)
  BY <1>1
<1> QED BY <1>2 DEF RemoveAt

(* A request for the list is one more in flight.                           *)
LEMMA AskedList ==
    ASSUME lists \in Seq(ListType), NEW then \in 0..MaxJobs
    PROVE  Ask(then) \in Seq(ListType)
<1>1. [rows |-> <<>>, then |-> then] \in ListType
  BY DEF ListType
<1> QED BY <1>1 DEF Ask

(* Closing touches the channel that the variable holds and no other.       *)
LEMMA ClosedSocket ==
    ASSUME PageTypeOK
    PROVE  /\ CloseSocket \in [Jobs -> ChannelState]
           /\ \A j \in Jobs : j # socket => CloseSocket[j] = channel[j]
           /\ \A j \in Jobs : j = socket => CloseSocket[j] \notin Alive
<1>1. \A c \in ChannelState : Closing(c) \in ChannelState /\ Closing(c) \notin Alive
  BY DEF Closing, ChannelState, Alive
<1>2. \A j \in Jobs : j # 0
  BY JobsAreNumbered
<1>3. channel \in [Jobs -> ChannelState] /\ socket \in 0..MaxJobs
  BY DEF PageTypeOK
<1>4. CASE socket = 0
  BY <1>2, <1>3, <1>4 DEF CloseSocket
<1>5. CASE socket # 0
  <2>1. CloseSocket = [channel EXCEPT ![socket] = Closing(channel[socket])]
    BY <1>5 DEF CloseSocket
  <2>2. socket \in Jobs
    BY <1>3, <1>5, JobsAreNumbered
  <2> QED BY <1>1, <1>3, <2>1, <2>2
<1> QED BY <1>4, <1>5

(* To follow j is to listen to j alone.                                    *)
LEMMA Followed ==
    ASSUME PageInv, NEW j \in Jobs, Follow(j), UNCHANGED <<orphaned, fallback>>
    PROVE  /\ channel' \in [Jobs -> ChannelState]
           /\ active' \in 0..MaxJobs /\ socket' \in 0..MaxJobs
           /\ SocketInv'
<1>1. /\ active' = j /\ socket' = j
      /\ channel' = [CloseSocket EXCEPT ![j] = "connecting"]
  BY DEF Follow
<1>2. channel' \in [Jobs -> ChannelState] /\ j \in 0..MaxJobs /\ j # 0
  BY <1>1, ClosedSocket, JobsAreNumbered DEF PageInv, ChannelState
<1>3. \A k \in Jobs : channel'[k] = IF k = j THEN "connecting" ELSE CloseSocket[k]
  BY <1>1, ClosedSocket DEF PageInv
<1>4. ~orphaned => \A k \in Jobs : channel'[k] \in Alive => k = j
  BY <1>3, ClosedSocket DEF PageInv, SocketInv
<1>5. channel'[j] \in Alive
  BY <1>3 DEF Alive
<1> QED BY <1>1, <1>2, <1>4, <1>5 DEF SocketInv

(* The fallback and its watch.                                             *)
LEMMA Fallback ==
    ASSUME PageTypeOK, NEW value \in BOOLEAN, SetFallback(value)
    PROVE  /\ fallback' = value
           /\ poller' \in BOOLEAN /\ (poller' => fallback')
<1>1. AnyIndexing(view) \in BOOLEAN
  BY DEF AnyIndexing
<1> QED BY <1>1 DEF SetFallback, PageTypeOK

(* To unfollow is to listen to nothing and to poll.                        *)
LEMMA Unfollowed ==
    ASSUME PageInv, NEW j \in Jobs, Unfollow(j)
    PROVE  /\ channel' \in [Jobs -> ChannelState]
           /\ active' \in 0..MaxJobs /\ socket' \in 0..MaxJobs
           /\ orphaned' \in BOOLEAN
           /\ fallback' \in BOOLEAN /\ poller' \in BOOLEAN /\ (poller' => fallback')
           /\ SocketInv'
<1>1. /\ active' = 0 /\ socket' = 0 /\ orphaned' = orphaned
      /\ channel' = [CloseSocket EXCEPT ![j] = "ending"] /\ SetFallback(TRUE)
  BY DEF Unfollow
<1>2. channel' \in [Jobs -> ChannelState] /\ 0 \in 0..MaxJobs
  BY <1>1, ClosedSocket, JobsAreNumbered DEF PageInv, ChannelState
<1>3. fallback' = TRUE /\ poller' \in BOOLEAN
  BY <1>1, Fallback DEF PageInv
<1>4. \A k \in Jobs : channel'[k] = IF k = j THEN "ending" ELSE CloseSocket[k]
  BY <1>1, ClosedSocket DEF PageInv
<1>5. ~orphaned => \A k \in Jobs : channel'[k] \notin Alive
  BY <1>4, ClosedSocket DEF PageInv, SocketInv, Alive
<1> QED BY <1>1, <1>2, <1>3, <1>5 DEF SocketInv, PageInv, PageTypeOK
-----------------------------------------------------------------------------
(* The steps that leave the page's WebSockets alone.                       *)
LEMMA QuietSocket ==
    ASSUME SocketInv, UNCHANGED <<channel, active, socket, fallback, orphaned>>
    PROVE  SocketInv'
BY DEF SocketInv

LEMMA ServerStep ==
    ASSUME PageInv,
           \/ \E j \in Jobs : Post(j) \/ JobEnds(j)
           \/ \E i \in DOMAIN lists : ListRead(i)
           \/ Delete
    PROVE  PageInv'
<1>1. PageTypeOK /\ SocketInv /\ lists \in Seq(ListType) /\ status \in Rows
      /\ posted \in [Jobs -> PostedType]
  BY DEF PageInv, PageTypeOK
<1>2. ASSUME NEW j \in Jobs, Post(j) PROVE PageInv'
  <2>1. PICK r \in Repos, from \in {"form", "card"} :
          /\ status' = [status EXCEPT ![r] = "indexing"]
          /\ posted' = [posted EXCEPT ![j] = [repo |-> r, state |-> "running", post |-> from]]
    BY <1>2 DEF Post
  <2>2. UNCHANGED <<channel, view, lists, follower>>
    BY <1>2 DEF Post
  <2>3. [repo |-> r, state |-> "running", post |-> from] \in PostedType
    BY DEF PostedType
  <2>4. status' \in Rows /\ posted' \in [Jobs -> PostedType]
    BY <1>1, <2>1, <2>3 DEF Rows
  <2> QED BY <1>1, <2>2, <2>4, QuietSocket DEF PageInv, PageTypeOK, follower
<1>3. ASSUME NEW j \in Jobs, JobEnds(j) PROVE PageInv'
  <2>1. /\ posted' = [posted EXCEPT ![j].state = "over"]
        /\ status' = [status EXCEPT ![posted[j].repo] = "settled"]
        /\ UNCHANGED <<channel, view, lists, follower>>
    BY <1>3 DEF JobEnds
  <2>2. status' \in Rows
    BY <1>1, <2>1 DEF Rows
  <2>3. [posted[j] EXCEPT !.state = "over"] \in PostedType
    BY <1>1 DEF PostedType
  <2>4. posted' \in [Jobs -> PostedType]
    BY <1>1, <2>1, <2>3
  <2> QED BY <1>1, <2>1, <2>2, <2>4, QuietSocket DEF PageInv, PageTypeOK, follower
<1>4. ASSUME NEW i \in DOMAIN lists, ListRead(i) PROVE PageInv'
  <2>1. /\ lists' = [lists EXCEPT ![i].rows = status]
        /\ UNCHANGED <<status, posted, channel, view, follower>>
    BY <1>4 DEF ListRead
  <2> DEFINE list == [lists[i] EXCEPT !.rows = status]
  <2>2. list \in ListType
    <3>1. lists[i] \in ListType
      BY <1>1
    <3> QED BY <1>1, <3>1 DEF ListType
  <2>3. lists' \in Seq(ListType)
    <3>1. lists' = [lists EXCEPT ![i] = list]
      BY <2>1
    <3>2. i \in 1..Len(lists)
      BY <1>1
    <3> HIDE DEF list
    <3>3. [lists EXCEPT ![i] = list] \in Seq(ListType)
      BY <1>1, <2>2, <3>2, ExceptSeq
    <3> QED BY <3>1, <3>3
  <2> QED BY <1>1, <2>1, <2>3, QuietSocket DEF PageInv, PageTypeOK, follower
<1>5. CASE Delete
  <2>1. status' \in Rows
    BY <1>1, <1>5 DEF Delete, Rows
  <2>2. lists' = Ask(0) /\ UNCHANGED <<posted, channel, view, follower>>
    BY <1>5 DEF Delete
  <2>3. lists' \in Seq(ListType)
    BY <1>1, <2>2, AskedList, JobsAreNumbered
  <2> QED BY <1>1, <2>1, <2>2, <2>3, QuietSocket DEF PageInv, PageTypeOK, follower
<1> QED BY <1>2, <1>3, <1>4, <1>5

(* The page's own steps.                                                   *)
LEMMA PageStep ==
    ASSUME PageInv, Page \/ \E j \in Jobs : Progress(j)
    PROVE  PageInv'
<1>1. /\ PageTypeOK /\ SocketInv /\ lists \in Seq(ListType) /\ view \in Rows
      /\ posted \in [Jobs -> PostedType]
  BY DEF PageInv, PageTypeOK
<1>2. \A j \in Jobs : j \in 0..MaxJobs
  BY JobsAreNumbered
<1>3. ASSUME NEW j \in Jobs, posted' = [posted EXCEPT ![j].post = "answered"]
      PROVE  posted' \in [Jobs -> PostedType]
  BY <1>1, <1>3 DEF PostedType
<1>4. ASSUME NEW j \in Jobs, Submitted(j) PROVE PageInv'
  <2>1. /\ posted' = [posted EXCEPT ![j].post = "answered"] /\ lists' = Ask(0)
        /\ Follow(j) /\ UNCHANGED <<status, view, fallback, poller, orphaned>>
    BY <1>4 DEF Submitted
  <2>2. posted' \in [Jobs -> PostedType] /\ lists' \in Seq(ListType)
    BY <1>1, <1>3, <2>1, AskedList, JobsAreNumbered
  <2> QED BY <1>1, <2>1, <2>2, Followed DEF PageInv, PageTypeOK
<1>5. ASSUME NEW j \in Jobs, Reindexed(j) PROVE PageInv'
  <2>1. /\ posted' = [posted EXCEPT ![j].post = "answered"] /\ lists' = Ask(j)
        /\ UNCHANGED <<status, channel, view, follower>>
    BY <1>5 DEF Reindexed
  <2>2. posted' \in [Jobs -> PostedType] /\ lists' \in Seq(ListType)
    BY <1>1, <1>2, <1>3, <2>1, AskedList
  <2> QED BY <1>1, <2>1, <2>2, QuietSocket DEF PageInv, PageTypeOK, follower
<1>6. ASSUME NEW i \in DOMAIN lists, NEW ok \in BOOLEAN, ListAnswered(i, ok)
      PROVE  PageInv'
  <2> DEFINE list == lists[i]
  <2>1. list \in ListType /\ list.rows # <<>>
    BY <1>1, <1>6 DEF ListAnswered
  <2>2. list.rows \in Rows /\ list.then \in 0..MaxJobs
    BY <2>1 DEF ListType
  <2>3. /\ view' \in Rows /\ lists' = RemoveAt(lists, i)
        /\ UNCHANGED <<status, posted, fallback, poller, orphaned>>
    BY <1>1, <1>6, <2>2 DEF ListAnswered
  <2>4. lists' \in Seq(ListType)
    BY <1>1, <2>3, RemovedList
  <2>5. CASE list.then = 0
    <3>1. UNCHANGED <<active, socket, channel>>
      BY <1>6, <2>5 DEF ListAnswered
    <3> QED BY <1>1, <2>3, <2>4, <3>1, QuietSocket DEF PageInv, PageTypeOK
  <2>6. CASE list.then # 0
    <3>1. Follow(list.then)
      BY <1>6, <2>6 DEF ListAnswered
    <3>2. list.then \in Jobs
      BY <2>2, <2>6, JobsAreNumbered
    <3> QED BY <1>1, <2>3, <2>4, <3>1, <3>2, Followed DEF PageInv, PageTypeOK
  <2> QED BY <2>5, <2>6
<1>7. CASE PollTick
  <2>1. /\ UNCHANGED <<status, posted, channel, view, active, socket, fallback, orphaned>>
        /\ poller' \in BOOLEAN /\ (poller' => fallback')
        /\ lists' = Ask(0) \/ lists' = lists
    BY <1>1, <1>7 DEF PollTick, PageTypeOK
  <2>2. lists' \in Seq(ListType)
    BY <1>1, <2>1, AskedList, JobsAreNumbered
  <2> QED BY <1>1, <2>1, <2>2, QuietSocket DEF PageInv, PageTypeOK
<1>8. ASSUME NEW j \in Jobs, Progress(j) PROVE PageInv'
  <2>1. lists' = Ask(0) /\ UNCHANGED <<status, posted, channel, view, follower>>
    BY <1>8 DEF Progress
  <2>2. lists' \in Seq(ListType)
    BY <1>1, <2>1, AskedList, JobsAreNumbered
  <2> QED BY <1>1, <2>1, <2>2, QuietSocket DEF PageInv, PageTypeOK, follower
<1> QED BY <1>4, <1>5, <1>6, <1>7, <1>8 DEF Page

(* The WebSockets' handlers.                                               *)
LEMMA ChannelStep ==
    ASSUME PageInv, NEW j \in Jobs, Channel(j)
    PROVE  PageInv'
<1>1. /\ PageTypeOK /\ SocketInv /\ lists \in Seq(ListType)
      /\ channel \in [Jobs -> ChannelState]
      /\ socket \in 0..MaxJobs /\ active \in 0..MaxJobs
  BY DEF PageInv, PageTypeOK
<1>2. j # 0 /\ j \in 0..MaxJobs /\ 0 \in 0..MaxJobs
  BY JobsAreNumbered
<1>3. CASE Opened(j)
  <2>1. /\ channel[j] = "connecting" /\ channel' = [channel EXCEPT ![j] = "open"]
        /\ SetFallback(FALSE)
        /\ UNCHANGED <<status, posted, view, lists, active, socket, orphaned>>
    BY <1>3 DEF Opened
  <2>2. fallback' = FALSE /\ poller' \in BOOLEAN /\ (poller' => fallback')
    BY <1>1, <2>1, Fallback
  <2>3. channel' \in [Jobs -> ChannelState]
    BY <1>1, <2>1 DEF ChannelState
  <2>4. ~orphaned => socket = j
    BY <1>1, <2>1 DEF SocketInv, Alive
  <2>5. SocketInv'
    BY <1>1, <1>2, <2>1, <2>2, <2>4 DEF SocketInv, Alive
  <2> QED BY <1>1, <2>1, <2>2, <2>3, <2>5 DEF PageInv, PageTypeOK
<1>4. CASE Completed(j)
  <2>1. lists' = Ask(0) /\ UNCHANGED <<status, posted, view>> /\ channel[j] = "open"
    BY <1>4 DEF Completed
  <2>2. lists' \in Seq(ListType)
    BY <1>1, <2>1, AskedList, JobsAreNumbered
  <2>3. CASE active = 0
    <3>1. channel' = [channel EXCEPT ![j] = "ending"] /\ UNCHANGED follower
      BY <1>4, <2>3 DEF Completed
    <3>2. channel' \in [Jobs -> ChannelState]
      BY <1>1, <3>1 DEF ChannelState
    <3>3. orphaned
      BY <1>1, <1>2, <2>1, <2>3 DEF SocketInv, Alive
    <3> QED BY <1>1, <2>1, <2>2, <3>1, <3>2, <3>3 DEF PageInv, PageTypeOK, SocketInv, follower
  <2>4. CASE active # 0
    <3>1. Unfollow(j)
      BY <1>4, <2>4 DEF Completed
    <3> QED BY <1>1, <2>1, <2>2, <3>1, Unfollowed DEF PageInv, PageTypeOK
  <2> QED BY <2>3, <2>4
<1>5. CASE Closed(j)
  <2>1. /\ channel[j] \in {"closing", "ending"}
        /\ channel' = [channel EXCEPT ![j] = "closed"] /\ LetGo(j)
        /\ UNCHANGED <<status, posted, view, lists, active, fallback, poller>>
    BY <1>5 DEF Closed
  <2>2. channel' \in [Jobs -> ChannelState]
    BY <1>1, <2>1 DEF ChannelState
  <2>3. socket' = 0 /\ orphaned' \in BOOLEAN
        /\ (~orphaned' => ~orphaned /\ socket \in {0, j})
    BY <1>1, <2>1 DEF LetGo, PageTypeOK
  <2>4. SocketInv'
    BY <1>1, <1>2, <2>1, <2>3 DEF SocketInv, Alive
  <2> QED BY <1>1, <1>2, <2>1, <2>2, <2>3, <2>4 DEF PageInv, PageTypeOK
<1>6. CASE Failed(j)
  <2>1. /\ channel' = [channel EXCEPT ![j] = "closed"] /\ LetGo(j)
        /\ SetFallback(TRUE)
        /\ UNCHANGED <<status, posted, view, lists, active>>
    BY <1>6 DEF Failed
  <2>2. channel' \in [Jobs -> ChannelState]
    BY <1>1, <2>1 DEF ChannelState
  <2>3. socket' = 0 /\ orphaned' \in BOOLEAN
        /\ (~orphaned' => ~orphaned /\ socket \in {0, j})
    BY <1>1, <2>1 DEF LetGo, PageTypeOK
  <2>4. fallback' = TRUE /\ poller' \in BOOLEAN
    BY <1>1, <2>1, Fallback
  <2>5. SocketInv'
    BY <1>1, <1>2, <2>1, <2>3, <2>4 DEF SocketInv, Alive
  <2> QED BY <1>1, <1>2, <2>1, <2>2, <2>3, <2>4, <2>5 DEF PageInv, PageTypeOK
<1> QED BY <1>3, <1>4, <1>5, <1>6 DEF Channel

-----------------------------------------------------------------------------
LEMMA PageStart == PageInit => PageInv
<1> SUFFICES ASSUME PageInit PROVE PageInv
  OBVIOUS
<1>1. status \in Rows /\ view \in Rows
  BY DEF PageInit, Rows
<1>2. NoJob \in PostedType
  BY DEF NoJob, PostedType
<1>3. posted \in [Jobs -> PostedType] /\ channel \in [Jobs -> ChannelState]
  BY <1>2 DEF PageInit, ChannelState
<1>4. lists \in Seq(ListType)
  <2>1. 0 \in 0..MaxJobs
    BY JobsAreNumbered
  <2>2. [rows |-> <<>>, then |-> 0] \in ListType
    BY <2>1 DEF ListType
  <2> QED BY <2>2 DEF PageInit
<1>5. SocketInv
  BY DEF PageInit, SocketInv, Alive
<1> QED BY <1>1, <1>3, <1>4, <1>5, JobsAreNumbered DEF PageInit, PageInv, PageTypeOK

(* Every handler keeps the invariant, and so does everything the server    *)
(* does meanwhile: the one induction of this module.                       *)
THEOREM PageInvariance == PageSpec => []PageInv
<1>1. ASSUME PageInv, [PageNext]_pageVars PROVE PageInv'
  <2>1. CASE UNCHANGED pageVars
    BY <1>1, <2>1 DEF PageInv, PageTypeOK, SocketInv, pageVars
  <2>2. CASE Server \/ Delete \/ \E j \in Jobs : Post(j)
    BY <1>1, <2>2, ServerStep DEF Server
  <2>3. CASE Page \/ \E j \in Jobs : Progress(j)
    BY <1>1, <2>3, PageStep
  <2>4. CASE \E j \in Jobs : Channel(j)
    BY <1>1, <2>4, ChannelStep
  <2> QED BY <1>1, <2>1, <2>2, <2>3, <2>4 DEF PageNext
<1> QED BY PageStart, <1>1, PTL DEF PageSpec

(* The page's variables keep their types, and its timer runs only while    *)
(* polling is the fallback (ReposPage.vue, startPolling and its watch).    *)
THEOREM PageTypes == PageSpec => []PageTypeOK
<1>1. PageInv => PageTypeOK
  BY DEF PageInv
<1> QED BY PageInvariance, <1>1, PTL

(* Unless an onclose has let go of the next WebSocket, the page listens to *)
(* one job at a time and, while fallbackToPolling is FALSE, to one that    *)
(* can still tell it of an end (useJobStream.ts, openSocket, closeSocket). *)
THEOREM OneChannel == PageSpec => []FollowsOneChannel
<1>1. PageInv => FollowsOneChannel
  <2> SUFFICES ASSUME PageInv, ~orphaned
               PROVE  /\ \A j, k \in Jobs : channel[j] = "open" /\ channel[k] = "open"
                                             => j = k
                      /\ ~fallback => \E j \in Jobs : channel[j] \notin {"none", "closed"}
    BY DEF FollowsOneChannel
  <2>1. \A j \in Jobs : channel[j] \in Alive => socket = j
    BY DEF PageInv, SocketInv
  <2>2. ~fallback => socket \in Jobs /\ channel[socket] \in Alive
    BY JobsAreNumbered DEF PageInv, SocketInv, PageTypeOK
  <2> QED BY <2>1, <2>2 DEF Alive
<1> QED BY PageInvariance, <1>1, PTL
=============================================================================
