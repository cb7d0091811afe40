---------------------------- MODULE Posting_proofs ----------------------------
(***************************************************************************)
(* What a receipt says and when a review may be posted twice, for any      *)
(* review, any cap and any number of requests.                             *)
(***************************************************************************)
EXTENDS Posting, FiniteSetTheorems, TLAPS

(* What posting/service has done of a request, by its state.               *)
Handled(q) ==
    /\ q.step \in {"none", "reading"} => q.calls = <<>>
    /\ q.step = "calling" => q.calls # <<>>
    /\ q.step # "answered" <=> q.answer = "none"
    /\ q.calls # <<>> =>
         /\ q.calls[1].inline = Inline(q.kept) /\ q.calls[1].body = Body(q.kept)
         /\ q.count = Cardinality(q.calls[Len(q.calls)].inline)
    /\ Len(q.calls) = 2 =>
         /\ q.calls[1].status = "position"
         /\ q.calls[2].inline = {} /\ q.calls[2].body = q.calls[1].body
    /\ q.answer = "receipt" =>
         q.calls # <<>> /\ q.calls[Len(q.calls)].status = "ok"
    /\ q.answer = "refused" =>
         \A k \in DOMAIN q.calls :
             q.calls[k].status \in {"position", "refused", "garbled"}

(* What the panel heard of a request.                                      *)
Told(q) ==
    /\ q.step = "none" => q.heard = "no"
    /\ q.heard \notin {"no", "lost"} => q.step = "answered" /\ q.answer = q.heard

(* What GitHub answers to a call that makes a review.                      *)
Made == {"ok", "garbled"}

(* A review is on GitHub exactly for the calls that GitHub has accepted.   *)
Accepted ==
    /\ \A g \in github :
         /\ g.call \in DOMAIN request[g.by].calls
         /\ request[g.by].calls[g.call].status \in Made
         /\ request[g.by].calls[g.call].inline = g.inline
         /\ request[g.by].calls[g.call].body = g.body
    /\ \A r \in Requests : \A k \in DOMAIN request[r].calls :
         request[r].calls[k].status \in Made =>
             \E g \in github : g.by = r /\ g.call = k

Unheard(q) == q.step # "none" /\ q.heard = "no"

(* Requests are sent in their order, and only by a panel that has heard of *)
(* all earlier ones and shows none of them as posted, as long as the       *)
(* object does not change under a request.                                 *)
InTurn ==
    /\ \A r, s \in Requests :
         s < r /\ request[r].step # "none" => request[s].step # "none"
    /\ \A r \in Requests :
         request[r].step # "none" => request[r].object <= panel.object

Uncrossed ==
    /\ \A r \in Requests : Unheard(request[r]) => panel.inFlight
    /\ \A r, s \in Requests :
         Unheard(request[r]) /\ Unheard(request[s]) => r = s
    /\ \A r \in Requests :
         request[r].heard = "receipt" /\ request[r].object = panel.object
             => panel.posted # 0
    /\ \A r, s \in Requests :
         s < r /\ request[r].step # "none" /\ request[s].object = request[r].object
             => request[s].heard \notin {"no", "receipt"}

PostInv ==
    /\ TypeOK
    /\ \A r \in Requests : Handled(request[r]) /\ Told(request[r])
    /\ Accepted
    /\ InTurn
    /\ ~panel.crossed => Uncrossed

-----------------------------------------------------------------------------
(* posting/mapper: the inline comments are located findings, and no more   *)
(* than the cap: each has its own rank among the located ones.             *)
LEMMA InlineWithinCap ==
    ASSUME NEW kept \in SUBSET Findings
    PROVE  /\ Inline(kept) \in SUBSET kept
           /\ Cardinality(Inline(kept)) \in 0..InlineCap
           /\ Inline(kept) \cup Body(kept) = kept
<1> DEFINE K == kept \cap Located
           Upto(f) == {g \in K : g <= f}
           rank == [f \in Inline(kept) |-> Cardinality(Upto(f))]
<1>1. Inline(kept) = {f \in K : Cardinality(Upto(f)) <= InlineCap}
  BY DEF Inline
<1>2. K \subseteq Nat /\ IsFiniteSet(K)
  <2>1. K \in SUBSET Findings
    OBVIOUS
  <2> QED BY <2>1, FS_Subset, FindingsAssumption
<1>3. \A f \in K : Upto(f) \in SUBSET K /\ f \in Upto(f)
  BY <1>2
<1>4. IsFiniteSet(Inline(kept))
  <2>1. Inline(kept) \in SUBSET K
    BY <1>1
  <2> QED BY <1>2, <2>1, FS_Subset
<1>5. \A f \in K : IsFiniteSet(Upto(f)) /\ Cardinality(Upto(f)) \in Nat \ {0}
  <2> SUFFICES ASSUME NEW f \in K
               PROVE  IsFiniteSet(Upto(f)) /\ Cardinality(Upto(f)) \in Nat \ {0}
    OBVIOUS
  <2>1. IsFiniteSet(Upto(f))
    BY <1>2, <1>3, FS_Subset
  <2>2. Cardinality(Upto(f)) \in Nat
    BY <2>1, FS_CardinalityType
  <2>3. Cardinality(Upto(f)) # 0
    BY <1>3, <2>1, FS_EmptySet
  <2> QED BY <2>1, <2>2, <2>3
<1>6. \A f, g \in K : f < g => Cardinality(Upto(f)) < Cardinality(Upto(g))
  <2> SUFFICES ASSUME NEW f \in K, NEW g \in K, f < g
               PROVE  Cardinality(Upto(f)) < Cardinality(Upto(g))
    OBVIOUS
  <2>1. Upto(f) \in SUBSET Upto(g) /\ g \notin Upto(f)
    BY <1>2
  <2>2. Upto(f) # Upto(g)
    BY <1>3, <2>1
  <2>3. /\ Cardinality(Upto(f)) <= Cardinality(Upto(g))
        /\ Cardinality(Upto(g)) = Cardinality(Upto(f)) => Upto(g) = Upto(f)
    BY <1>5, <2>1, FS_Subset
  <2> QED BY <1>5, <2>2, <2>3
<1>7. InlineCap \in Nat
  BY BoundsAssumption
<1>8. IsFiniteSet(1..InlineCap) /\ Cardinality(1..InlineCap) = InlineCap
  BY <1>7, FS_Interval
<1>9. Cardinality(Inline(kept)) \in Nat
  BY <1>4, FS_CardinalityType
<1>10. Cardinality(Inline(kept)) <= InlineCap
  <2> SUFFICES ASSUME InlineCap < Cardinality(Inline(kept)) PROVE FALSE
    BY <1>7, <1>9
  <2>1. rank \in [Inline(kept) -> 1..InlineCap]
    <3> SUFFICES ASSUME NEW f \in Inline(kept)
                 PROVE  Cardinality(Upto(f)) \in 1..InlineCap
      OBVIOUS
    <3>1. f \in K /\ Cardinality(Upto(f)) <= InlineCap
      BY <1>1
    <3>2. Cardinality(Upto(f)) \in Nat \ {0}
      BY <1>5, <3>1
    <3> QED BY <1>7, <3>1, <3>2
  <2> HIDE DEF rank
  <2>2. \E f, g \in Inline(kept) : f # g /\ rank[f] = rank[g]
    BY <1>4, <1>8, <2>1, FS_PigeonHole
  <2>3. PICK f, g \in Inline(kept) : f # g /\ rank[f] = rank[g]
    BY <2>2
  <2>4. f \in K /\ g \in K
    BY <1>1
  <2>5. Cardinality(Upto(f)) = Cardinality(Upto(g))
    BY <2>3 DEF rank
  <2>6. f < g \/ g < f
    BY <1>2, <2>3, <2>4
  <2>7. /\ Cardinality(Upto(f)) \in Nat
        /\ Cardinality(Upto(g)) \in Nat
        /\ f < g => Cardinality(Upto(f)) < Cardinality(Upto(g))
        /\ g < f => Cardinality(Upto(g)) < Cardinality(Upto(f))
    BY <1>5, <1>6, <2>4
  <2> HIDE DEF Upto, K
  <2> QED BY <2>5, <2>6, <2>7
<1> HIDE DEF Upto
<1>11. Inline(kept) \in SUBSET kept
  BY <1>1
<1> QED BY <1>7, <1>9, <1>10, <1>11 DEF Body

-----------------------------------------------------------------------------
(* A panel, and a request, of its type.                                    *)
LEMMA PanelFields ==
    ASSUME panel \in PanelType
    PROVE  /\ panel.object \in 0..MaxObjects /\ Kept \in SUBSET Findings
           /\ MaxObjects \in Nat /\ MaxRequests \in Nat
BY BoundsAssumption DEF PanelType, Kept

(* A request of its type is replaced by another.                           *)
LEMMA ReplacedRequest ==
    ASSUME TypeOK, NEW r \in Requests, NEW q \in RequestType,
           Len(q.calls) <= 2, request' = [request EXCEPT ![r] = q]
    PROVE  /\ request' \in [Requests -> RequestType]
           /\ \A s \in Requests : Len(request'[s].calls) <= 2
           /\ request'[r] = q
           /\ \A s \in Requests : s # r => request'[s] = request[s]
BY DEF TypeOK

LEMMA TypeInit == Init => TypeOK
<1> SUFFICES ASSUME Init PROVE TypeOK
  OBVIOUS
<1>1. panel \in PanelType
  BY FindingsAssumption, BoundsAssumption DEF Init, PanelType
<1>2. NoRequest \in RequestType /\ Len(NoRequest.calls) <= 2
  BY BoundsAssumption DEF NoRequest, RequestType, Steps, Errors
<1> QED BY <1>1, <1>2 DEF Init, TypeOK

(* The shapes of a step: the panel alone, a request and the panel, a       *)
(* request alone, a request and GitHub.                                    *)
LEMMA PanelTypes ==
    ASSUME TypeOK, Dismiss \/ Restore
    PROVE  TypeOK'
<1>1. PICK d \in SUBSET Findings : Show(d)
  BY DEF TypeOK, Dismiss, Restore, Kept, PanelType
<1>2. panel' \in PanelType
  <2> DEFINE crossed == panel.crossed \/ panel.inFlight
  <2>1. crossed \in BOOLEAN
    OBVIOUS
  <2>2. panel' = [panel EXCEPT !.object = @ + 1, !.dismissed = d, !.posted = 0,
                               !.inFlight = FALSE, !.crossed = crossed]
    BY <1>1 DEF Show
  <2>3. panel \in PanelType /\ panel.object + 1 \in 1..MaxObjects
    BY <1>1, BoundsAssumption DEF TypeOK, Show, PanelType
  <2>4. 0 \in 0..MaxRequests
    BY BoundsAssumption
  <2> HIDE DEF crossed
  <2> QED BY <2>1, <2>2, <2>3, <2>4 DEF PanelType
<1> QED BY <1>1, <1>2 DEF TypeOK, Show

LEMMA HearingTypes ==
    ASSUME TypeOK, NEW r \in Requests, Handled(request[r]),
           Submit(r) \/ Hear(r) \/ Lose(r)
    PROVE  TypeOK'
<1>1. request[r] \in RequestType /\ Len(request[r].calls) <= 2
  BY DEF TypeOK
<1>2. panel \in PanelType
  BY DEF TypeOK
<1>3. CASE Submit(r)
  <2> DEFINE q == [request[r] EXCEPT !.object = panel.object, !.kept = Kept,
                                     !.step = "reading"]
  <2>1. q \in RequestType /\ Len(q.calls) <= 2
    BY <1>1, <1>2, PanelFields DEF RequestType, Steps
  <2>2. request' = [request EXCEPT ![r] = q]
    BY <1>3 DEF Submit
  <2>3. panel' \in PanelType /\ github' = github
    BY <1>2, <1>3 DEF Submit, PanelType
  <2> HIDE DEF q
  <2> QED BY <2>1, <2>2, <2>3, ReplacedRequest DEF TypeOK
<1>4. CASE Hear(r)
  <2> DEFINE q == [request[r] EXCEPT !.heard = request[r].answer]
  <2>1. q \in RequestType /\ Len(q.calls) <= 2
    BY <1>1, <1>4 DEF RequestType, Hear, Handled
  <2>2. request' = [request EXCEPT ![r] = q]
    BY <1>4 DEF Hear
  <2>3. panel' \in PanelType /\ github' = github
    <3> DEFINE posted == IF request[r].answer = "receipt" THEN r ELSE panel.posted
    <3>1. posted \in 0..MaxRequests
      BY <1>2, PanelFields DEF PanelType, Requests
    <3>2. panel' = [panel EXCEPT !.posted = posted, !.inFlight = FALSE]
      BY <1>4 DEF Hear
    <3> HIDE DEF posted
    <3> QED BY <1>2, <1>4, <3>1, <3>2 DEF Hear, PanelType
  <2> HIDE DEF q
  <2> QED BY <2>1, <2>2, <2>3, ReplacedRequest DEF TypeOK
<1>5. CASE Lose(r)
  <2> DEFINE q == [request[r] EXCEPT !.heard = "lost"]
  <2>1. q \in RequestType /\ Len(q.calls) <= 2
    BY <1>1 DEF RequestType
  <2>2. request' = [request EXCEPT ![r] = q]
    BY <1>5 DEF Lose
  <2>3. panel' \in PanelType /\ github' = github
    BY <1>2, <1>5 DEF Lose, PanelType
  <2> HIDE DEF q
  <2> QED BY <2>1, <2>2, <2>3, ReplacedRequest DEF TypeOK
<1> QED BY <1>3, <1>4, <1>5

-----------------------------------------------------------------------------
(* What the endpoint and GitHub leave alone in a request p that becomes q. *)
Advances(p, q) ==
    /\ q \in RequestType /\ Len(q.calls) <= 2
    /\ Handled(q) /\ Told(q)
    /\ q.object = p.object /\ q.heard = p.heard
    /\ p.step # "none" /\ q.step # "none"

(* A call to GitHub, as the service makes it.                              *)
LEMMA NewCall ==
    ASSUME NEW r \in Requests, TypeOK,
           NEW inline \in SUBSET Findings, NEW body \in SUBSET Findings,
           Cardinality(inline) \in 0..InlineCap,
           request[r].step = "reading" =>
             inline = Inline(request[r].kept) /\ body = Body(request[r].kept),
           Handled(request[r]), Told(request[r]),
           \/ request[r].step = "reading"
           \/ /\ request[r].step = "calling" /\ Len(request[r].calls) = 1
              /\ LastCall(r).status = "position"
              /\ inline = {} /\ body = LastCall(r).body,
           Call(r, inline, body)
    PROVE  \E q : /\ request' = [request EXCEPT ![r] = q]
                  /\ Advances(request[r], q)
                  /\ \E c \in CallType : c.status = "none"
                                     /\ q.calls = Append(request[r].calls, c)
<1> DEFINE c == [inline |-> inline, body |-> body, status |-> "none"]
           q == [request[r] EXCEPT !.step = "calling",
                                   !.calls = Append(@, c),
                                   !.count = Cardinality(inline)]
<1>1. request[r] \in RequestType /\ Len(request[r].calls) <= 1
  <2>1. request[r] \in RequestType
    BY DEF TypeOK
  <2>2. request[r].step = "reading" => request[r].calls = <<>>
    BY DEF Handled
  <2>3. Len(request[r].calls) <= 1
    <3>1. CASE request[r].step = "reading"
      BY <2>2, <3>1
    <3>2. CASE request[r].step = "calling" /\ Len(request[r].calls) = 1
      BY <3>2
    <3> QED BY <3>1, <3>2
  <2> QED BY <2>1, <2>3
<1>2. request' = [request EXCEPT ![r] = q]
  BY DEF Call
<1>3. c \in CallType
  BY DEF CallType
<1> DEFINE more == Append(request[r].calls, c)
<1>a. more \in Seq(CallType) /\ Len(more) <= 2
  BY <1>1, <1>3 DEF RequestType
<1> HIDE DEF more
<1>4. /\ q \in RequestType
      /\ q.calls = more /\ q.step = "calling"
      /\ q.count = Cardinality(inline) /\ q.answer = request[r].answer
      /\ q.object = request[r].object /\ q.heard = request[r].heard
      /\ q.kept = request[r].kept
  <2>1. Cardinality(inline) \in 0..InlineCap /\ "calling" \in Steps
    BY DEF Steps
  <2>2. q = [request[r] EXCEPT !.step = "calling", !.calls = more,
                               !.count = Cardinality(inline)]
    BY DEF more
  <2> HIDE DEF q
  <2> QED BY <1>1, <1>a, <2>1, <2>2 DEF RequestType
<1>b. q.calls = Append(request[r].calls, c) /\ Len(q.calls) <= 2
  BY <1>4, <1>a DEF more
<1>5. /\ request[r].calls \in Seq(CallType)
      /\ \/ request[r].calls = <<>> /\ Len(q.calls) = 1 /\ q.calls[1] = c
         \/ /\ Len(request[r].calls) = 1 /\ Len(q.calls) = 2
            /\ q.calls[1] = request[r].calls[1] /\ q.calls[2] = c
            /\ q.calls[1].status = "position"
            /\ inline = {} /\ body = q.calls[1].body
  <2>1. request[r].calls \in Seq(CallType)
    BY <1>1 DEF RequestType
  <2>2. CASE request[r].step = "reading"
    BY <1>b, <2>1, <2>2 DEF Handled
  <2>3. CASE request[r].step = "calling" /\ Len(request[r].calls) = 1
             /\ LastCall(r).status = "position"
             /\ inline = {} /\ body = LastCall(r).body
    BY <1>b, <2>1, <2>3 DEF LastCall
  <2> QED BY <2>1, <2>2, <2>3
<1>6. c.inline = inline /\ c.body = body /\ c.status = "none"
  OBVIOUS
<1> HIDE DEF q, c
<1>7. Handled(q)
  <2>1. q.answer = "none"
    BY <1>4 DEF Handled
  <2>2. q.calls # <<>>
    BY <1>5
  <2>3. /\ q.calls[1].inline = Inline(q.kept) /\ q.calls[1].body = Body(q.kept)
        /\ q.count = Cardinality(q.calls[Len(q.calls)].inline)
    BY <1>4, <1>5, <1>6 DEF Handled
  <2>4. Len(q.calls) = 2 => /\ q.calls[1].status = "position"
                            /\ q.calls[2].inline = {}
                            /\ q.calls[2].body = q.calls[1].body
    BY <1>5, <1>6
  <2> QED BY <1>4, <1>5, <2>1, <2>2, <2>3, <2>4 DEF Handled
<1>8. Told(q)
  BY <1>4 DEF Told
<1> QED BY <1>2, <1>3, <1>4, <1>b, <1>6, <1>7, <1>8 DEF Advances

(* A step of the endpoint.                                                 *)
LEMMA EndpointStep ==
    ASSUME PostInv, NEW r \in Requests,
           RefuseEarly(r) \/ FirstCall(r) \/ FallBack(r) \/ Finish(r) \/ TimeOut(r)
    PROVE  /\ UNCHANGED <<panel, github>>
           /\ \E q : /\ request' = [request EXCEPT ![r] = q]
                     /\ Advances(request[r], q)
                     /\ \/ q.calls = request[r].calls
                        \/ \E c \in CallType :
                             /\ c.status = "none"
                             /\ q.calls = Append(request[r].calls, c)
<1>1. TypeOK /\ Handled(request[r]) /\ Told(request[r])
  BY DEF PostInv
<1>2. request[r] \in RequestType /\ Len(request[r].calls) <= 2
  BY <1>1 DEF TypeOK
<1>3. ASSUME NEW answer \in Errors \cup {"receipt"}, Answer(r, answer),
             request[r].step \in {"reading", "calling"},
             \/ answer = "down"
             \/ request[r].calls # <<>> /\ LastCall(r).status = "ok" /\ answer = "receipt"
             \/ /\ answer = "refused"
                /\ \A k \in DOMAIN request[r].calls :
                     request[r].calls[k].status \in {"position", "refused", "garbled"}
      PROVE  \E q : /\ request' = [request EXCEPT ![r] = q]
                    /\ Advances(request[r], q)
                    /\ q.calls = request[r].calls
  <2> DEFINE q == [request[r] EXCEPT !.step = "answered", !.answer = answer]
  <2>1. /\ q \in RequestType /\ Len(q.calls) <= 2
        /\ q.calls = request[r].calls /\ q.step = "answered"
        /\ q.answer = answer /\ q.count = request[r].count
        /\ q.object = request[r].object /\ q.heard = request[r].heard
        /\ q.kept = request[r].kept
    BY <1>2, <1>3 DEF RequestType, Steps
  <2>2. request' = [request EXCEPT ![r] = q]
    BY <1>3 DEF Answer
  <2> HIDE DEF q
  <2>3. Handled(q)
    BY <1>1, <1>3, <2>1 DEF Handled, LastCall, Errors
  <2>4. Told(q)
    BY <1>1, <1>3, <2>1 DEF Told, Handled
  <2> QED BY <1>3, <2>1, <2>2, <2>3, <2>4 DEF Advances
<1>4. CASE RefuseEarly(r)
  BY <1>1, <1>3, <1>4 DEF RefuseEarly, Handled, Errors
<1>5. CASE FirstCall(r)
  <2>1. request[r].kept \in SUBSET Findings
    BY <1>2 DEF RequestType
  <2> DEFINE I == Inline(request[r].kept)
             B == Body(request[r].kept)
  <2>2. I \in SUBSET Findings /\ B \in SUBSET Findings
        /\ Cardinality(I) \in 0..InlineCap
        /\ I = Inline(request[r].kept) /\ B = Body(request[r].kept)
    BY <2>1, InlineWithinCap
  <2>3. Call(r, I, B) /\ request[r].step = "reading"
    BY <1>5 DEF FirstCall
  <2> HIDE DEF I, B
  <2>4. \E q : /\ request' = [request EXCEPT ![r] = q]
               /\ Advances(request[r], q)
               /\ \E c \in CallType : c.status = "none"
                                  /\ q.calls = Append(request[r].calls, c)
    BY <1>1, <2>2, <2>3, NewCall
  <2> QED BY <1>5, <2>4 DEF FirstCall
<1>6. CASE FallBack(r)
  <2>1. /\ request[r].step = "calling" /\ Len(request[r].calls) = 1
        /\ LastCall(r).status = "position"
        /\ Call(r, {}, LastCall(r).body)
    BY <1>6 DEF FallBack, PositionError, BodyOnlyCall
  <2>2. request[r].calls \in Seq(CallType) /\ LastCall(r) \in CallType
    BY <1>2, <2>1 DEF RequestType, LastCall
  <2> DEFINE B == LastCall(r).body
             I == {}
  <2>3. B \in SUBSET Findings /\ I \in SUBSET Findings
    BY <2>2 DEF CallType
  <2>4. Cardinality(I) \in 0..InlineCap
    BY FS_EmptySet, BoundsAssumption
  <2>5. Call(r, I, B) /\ I = {} /\ B = LastCall(r).body
    BY <2>1
  <2> HIDE DEF I, B
  <2>6. \E q : /\ request' = [request EXCEPT ![r] = q]
               /\ Advances(request[r], q)
               /\ \E c \in CallType : c.status = "none"
                                  /\ q.calls = Append(request[r].calls, c)
    BY <1>1, <2>1, <2>3, <2>4, <2>5, NewCall
  <2> QED BY <1>6, <2>6 DEF FallBack
<1>7. CASE Finish(r)
  <2>1. request[r].step = "calling" /\ request[r].calls # <<>>
    BY <1>1, <1>7 DEF Finish, Handled
  <2>2. CASE LastCall(r).status = "ok" /\ Answer(r, "receipt")
    BY <1>3, <1>7, <2>1, <2>2 DEF Finish
  <2>3. CASE LastCall(r).status = "position" /\ Len(request[r].calls) = 2
             /\ Answer(r, "refused")
    <3>1. \A k \in DOMAIN request[r].calls :
             request[r].calls[k].status \in {"position", "refused", "garbled"}
      BY <1>1, <1>2, <2>3 DEF Handled, LastCall, RequestType
    <3> QED BY <1>3, <1>7, <2>1, <2>3, <3>1 DEF Finish, Errors
  <2>4. CASE LastCall(r).status \in {"refused", "garbled"} /\ Answer(r, "refused")
    <3>1. \A k \in DOMAIN request[r].calls :
             request[r].calls[k].status \in {"position", "refused", "garbled"}
      <4>1. request[r].calls \in Seq(CallType)
        BY <1>2 DEF RequestType
      <4>2. Len(request[r].calls) = 1 \/ Len(request[r].calls) = 2
        <5>1. Len(request[r].calls) \in Nat \ {0}
          BY <2>1, <4>1
        <5>2. Len(request[r].calls) <= 2
          BY <1>2
        <5>3. \A n \in Nat \ {0} : n <= 2 => n = 1 \/ n = 2
          OBVIOUS
        <5> QED BY <5>1, <5>2, <5>3, Zenon
      <4>3. CASE Len(request[r].calls) = 1
        BY <2>4, <4>1, <4>3 DEF LastCall
      <4>4. CASE Len(request[r].calls) = 2
        <5>1. request[r].calls[1].status = "position"
          BY <1>1, <4>4 DEF Handled
        <5>2. request[r].calls[2].status \in {"refused", "garbled"}
          BY <2>4, <4>4 DEF LastCall
        <5> QED BY <4>1, <4>4, <5>1, <5>2
      <4> QED BY <4>2, <4>3, <4>4
    <3> QED BY <1>3, <1>7, <2>1, <2>4, <3>1 DEF Finish, Errors
  <2>5. CASE LastCall(r).status = "down" /\ Answer(r, "down")
    BY <1>3, <1>7, <2>1, <2>5 DEF Finish, Errors
  <2> QED BY <1>7, <2>2, <2>3, <2>4, <2>5 DEF Finish
<1>8. CASE TimeOut(r)
  BY <1>3, <1>8 DEF TimeOut, Errors
<1> QED BY <1>4, <1>5, <1>6, <1>7, <1>8

(* One of the calls p has got a status in q.                               *)
Stamped(p, q, k, status) ==
    /\ DOMAIN q = DOMAIN p
    /\ q[k].status = status /\ q[k].inline = p[k].inline /\ q[k].body = p[k].body
    /\ \A i \in DOMAIN p : i # k => q[i] = p[i]

(* A step of GitHub: one call of a request gets its status.                *)
LEMMA GitHubAnswers ==
    ASSUME PostInv, NEW r \in Requests, NEW k \in DOMAIN request[r].calls,
           GitHubStep(r, k)
    PROVE  /\ UNCHANGED panel
           /\ request[r].calls[k].status = "none"
           /\ \E q : \E status \in Statuses :
                /\ request' = [request EXCEPT ![r] = q]
                /\ Advances(request[r], q)
                /\ Stamped(request[r].calls, q.calls, k, status)
                /\ \/ /\ status \in Made
                      /\ github' = github \cup
                           {[by |-> r, call |-> k,
                             inline |-> request[r].calls[k].inline,
                             body |-> request[r].calls[k].body]}
                   \/ status \notin Made /\ github' = github
<1>1. TypeOK /\ Handled(request[r]) /\ Told(request[r])
  BY DEF PostInv
<1>2. /\ request[r] \in RequestType /\ Len(request[r].calls) <= 2
      /\ request[r].calls \in Seq(CallType)
      /\ request[r].calls[k] \in CallType
      /\ k \in 1..Len(request[r].calls)
  <2>1. request[r] \in RequestType /\ Len(request[r].calls) <= 2
    BY <1>1 DEF TypeOK
  <2> QED BY <2>1 DEF RequestType
<1>3. request[r].calls[k].status = "none" /\ panel' = panel
  BY DEF GitHubStep
<1>4. PICK status \in Statuses :
        /\ request' = [request EXCEPT ![r].calls[k].status = status]
        /\ \/ /\ status \in Made
              /\ github' = github \cup
                   {[by |-> r, call |-> k,
                     inline |-> request[r].calls[k].inline,
                     body |-> request[r].calls[k].body]}
           \/ status \notin Made /\ github' = github
  BY DEF GitHubStep, Create, Decline, Statuses, Made
<1> DEFINE c == [request[r].calls[k] EXCEPT !.status = status]
           more == [request[r].calls EXCEPT ![k] = c]
           q == [request[r] EXCEPT !.calls = more]
<1>5. /\ c \in CallType /\ c.inline = request[r].calls[k].inline
      /\ c.body = request[r].calls[k].body /\ c.status = status
  BY <1>2 DEF CallType
<1>6. request' = [request EXCEPT ![r] = q]
  BY <1>4
<1> HIDE DEF c
<1>7. /\ more \in Seq(CallType) /\ Len(more) = Len(request[r].calls)
      /\ DOMAIN more = 1..Len(request[r].calls)
      /\ more[k] = c
      /\ \A i \in 1..Len(request[r].calls) : i # k => more[i] = request[r].calls[i]
  BY <1>2, <1>5
<1> HIDE DEF more
<1>8. /\ q \in RequestType /\ q.calls = more /\ q.step = request[r].step
      /\ q.kept = request[r].kept /\ q.count = request[r].count
      /\ q.answer = request[r].answer /\ q.object = request[r].object
      /\ q.heard = request[r].heard
  BY <1>2, <1>7 DEF RequestType
<1> HIDE DEF q
<1>9. request[r].calls # <<>> /\ request[r].step # "none"
  BY <1>1, <1>2 DEF Handled
<1>10. \A i \in 1..Len(more) : /\ more[i].inline = request[r].calls[i].inline
                               /\ more[i].body = request[r].calls[i].body
  BY <1>5, <1>7
<1>11. \A i \in 1..Len(more) :
         request[r].calls[i].status # "none" => more[i] = request[r].calls[i]
  BY <1>3, <1>7
<1>12. 1 \in 1..Len(more) /\ Len(more) \in 1..Len(more) /\ more # <<>>
  BY <1>2, <1>7, <1>9
<1>13. Handled(q)
  <2>1. /\ q.step \in {"none", "reading"} => q.calls = <<>>
        /\ q.step = "calling" => q.calls # <<>>
        /\ q.step # "answered" <=> q.answer = "none"
    BY <1>1, <1>8, <1>9, <1>12 DEF Handled
  <2>2. /\ q.calls[1].inline = Inline(q.kept) /\ q.calls[1].body = Body(q.kept)
        /\ q.count = Cardinality(q.calls[Len(q.calls)].inline)
    BY <1>1, <1>7, <1>8, <1>9, <1>10, <1>12 DEF Handled
  <2>3. Len(q.calls) = 2 => /\ q.calls[1].status = "position"
                            /\ q.calls[2].inline = {}
                            /\ q.calls[2].body = q.calls[1].body
    BY <1>1, <1>7, <1>8, <1>10, <1>11, <1>12 DEF Handled
  <2>4. q.answer = "receipt" => q.calls # <<>> /\ q.calls[Len(q.calls)].status = "ok"
    BY <1>1, <1>7, <1>8, <1>11, <1>12 DEF Handled
  <2>5. q.answer = "refused" =>
          \A i \in DOMAIN q.calls : q.calls[i].status \in {"position", "refused", "garbled"}
    BY <1>1, <1>2, <1>7, <1>8, <1>11 DEF Handled
  <2> QED BY <2>1, <2>2, <2>3, <2>4, <2>5 DEF Handled
<1>14. Told(q)
  BY <1>1, <1>8 DEF Told
<1>15. Advances(request[r], q)
  BY <1>2, <1>7, <1>8, <1>9, <1>13, <1>14 DEF Advances
<1>16. Stamped(request[r].calls, q.calls, k, status)
  BY <1>2, <1>5, <1>7, <1>8 DEF Stamped
<1> QED BY <1>3, <1>4, <1>6, <1>15, <1>16

-----------------------------------------------------------------------------
(* Neither the endpoint nor GitHub changes whose turn it is.               *)
LEMMA TurnKept ==
    ASSUME InTurn, ~panel.crossed => Uncrossed, TypeOK, NEW r \in Requests, NEW q,
           request' = [request EXCEPT ![r] = q], Advances(request[r], q),
           panel' = panel
    PROVE  InTurn' /\ (~panel'.crossed => Uncrossed')
<1>1. /\ q.object = request[r].object /\ q.heard = request[r].heard
      /\ request[r].step # "none" /\ q.step # "none"
  BY DEF Advances
<1>2. \A s \in Requests : /\ request'[s].object = request[s].object
                          /\ request'[s].heard = request[s].heard
                          /\ request'[s].step = "none" <=> request[s].step = "none"
  BY <1>1 DEF TypeOK
<1>3. \A s \in Requests : Unheard(request'[s]) <=> Unheard(request[s])
  BY <1>2 DEF Unheard
<1>4. InTurn'
  BY <1>2 DEF InTurn
<1>5. ASSUME ~panel.crossed PROVE Uncrossed'
  BY <1>2, <1>3, <1>5 DEF Uncrossed
<1> QED BY <1>4, <1>5

(* The endpoint, which posts nothing itself, keeps GitHub accounted for.   *)
LEMMA AcceptedKept ==
    ASSUME Accepted, TypeOK, NEW r \in Requests, NEW q,
           request' = [request EXCEPT ![r] = q], github' = github,
           \/ q.calls = request[r].calls
           \/ \E c \in CallType : /\ c.status = "none"
                                  /\ q.calls = Append(request[r].calls, c)
    PROVE  Accepted'
<1>1. /\ request'[r] = q
      /\ \A s \in Requests : s # r => request'[s] = request[s]
  BY DEF TypeOK
<1>2. request[r].calls \in Seq(CallType)
  BY DEF TypeOK, RequestType
<1>3. /\ \A k \in DOMAIN request[r].calls :
           k \in DOMAIN q.calls /\ q.calls[k] = request[r].calls[k]
      /\ \A k \in DOMAIN q.calls : q.calls[k].status \in Made =>
           k \in DOMAIN request[r].calls
  <2>1. CASE q.calls = request[r].calls
    BY <2>1
  <2>2. CASE \E c \in CallType : /\ c.status = "none"
                                 /\ q.calls = Append(request[r].calls, c)
    BY <1>2, <2>2 DEF Made
  <2> QED BY <2>1, <2>2
<1>4. \A s \in Requests :
        /\ \A k \in DOMAIN request[s].calls :
             /\ k \in DOMAIN request'[s].calls
             /\ request'[s].calls[k] = request[s].calls[k]
        /\ \A k \in DOMAIN request'[s].calls : request'[s].calls[k].status \in Made =>
             k \in DOMAIN request[s].calls
  BY <1>1, <1>3
<1>5. \A g \in github : g.by \in Requests
  BY DEF TypeOK, ReviewType
<1> QED BY <1>4, <1>5 DEF Accepted

(* GitHub creates a review exactly when it accepts a call.                 *)
LEMMA AcceptedMore ==
    ASSUME Accepted, TypeOK, NEW r \in Requests, NEW k \in DOMAIN request[r].calls,
           request[r].calls[k].status = "none",
           NEW q, NEW status \in Statuses,
           request' = [request EXCEPT ![r] = q],
           Stamped(request[r].calls, q.calls, k, status),
           NEW new, new.by = r, new.call = k,
           new.inline = request[r].calls[k].inline,
           new.body = request[r].calls[k].body,
           \/ status \in Made /\ github' = github \cup {new}
           \/ status \notin Made /\ github' = github
    PROVE  Accepted'
<1>1. /\ request'[r] = q
      /\ \A s \in Requests : s # r => request'[s] = request[s]
  BY DEF TypeOK
<1>2. /\ DOMAIN q.calls = DOMAIN request[r].calls
      /\ q.calls[k].status = status
      /\ q.calls[k].inline = request[r].calls[k].inline
      /\ q.calls[k].body = request[r].calls[k].body
      /\ \A i \in DOMAIN request[r].calls : i # k => q.calls[i] = request[r].calls[i]
  BY DEF Stamped
<1>3. \A g \in github : g.by \in Requests
  BY DEF TypeOK, ReviewType
<1>4. github' = github \/ (status \in Made /\ github' = github \cup {new})
  OBVIOUS
<1>5. ASSUME NEW g \in github
      PROVE  /\ g.call \in DOMAIN request'[g.by].calls
             /\ request'[g.by].calls[g.call].status \in Made
             /\ request'[g.by].calls[g.call].inline = g.inline
             /\ request'[g.by].calls[g.call].body = g.body
  <2>1. /\ g.by \in Requests
        /\ g.call \in DOMAIN request[g.by].calls
        /\ request[g.by].calls[g.call].status \in Made
        /\ request[g.by].calls[g.call].inline = g.inline
        /\ request[g.by].calls[g.call].body = g.body
    BY <1>3 DEF Accepted
  <2>2. CASE g.by # r
    BY <1>1, <2>1, <2>2
  <2>3. CASE g.by = r
    <3>1. g.call # k
      BY <2>1, <2>3 DEF Made
    <3> QED BY <1>1, <1>2, <2>1, <2>3, <3>1
  <2> QED BY <2>2, <2>3
<1>6. ASSUME status \in Made
      PROVE  /\ new.call \in DOMAIN request'[new.by].calls
             /\ request'[new.by].calls[new.call].status \in Made
             /\ request'[new.by].calls[new.call].inline = new.inline
             /\ request'[new.by].calls[new.call].body = new.body
  <2>1. /\ k \in DOMAIN request'[r].calls
        /\ request'[r].calls[k].status \in Made
        /\ request'[r].calls[k].inline = new.inline
        /\ request'[r].calls[k].body = new.body
    BY <1>1, <1>2, <1>6
  <2> QED BY <2>1
<1>7. ASSUME NEW s \in Requests, NEW i \in DOMAIN request'[s].calls,
             request'[s].calls[i].status \in Made
      PROVE  \E g \in github' : g.by = s /\ g.call = i
  <2>1. CASE s = r /\ i = k
    <3>1. status \in Made
      <4>1. request'[r].calls[k].status \in Made
        BY <1>7, <2>1, Zenon
      <4> QED BY <1>1, <1>2, <4>1, Zenon
    <3>2. github' = github \cup {new}
      BY <3>1, Zenon
    <3> QED BY <2>1, <3>2
  <2>2. CASE ~(s = r /\ i = k)
    <3>1. i \in DOMAIN request[s].calls /\ request[s].calls[i].status \in Made
      BY <1>1, <1>2, <1>7, <2>2
    <3>2. \E g \in github : g.by = s /\ g.call = i
      BY <3>1 DEF Accepted
    <3> QED BY <1>4, <3>2
  <2> QED BY <2>1, <2>2
<1> QED BY <1>4, <1>5, <1>6, <1>7 DEF Accepted

(* Dismissing and restoring show another object, of which nothing has been *)
(* sent: a POST under way makes the history crossed.                       *)
LEMMA TurnShown ==
    ASSUME TypeOK, InTurn, ~panel.crossed => Uncrossed,
           \A r \in Requests : Told(request[r]), NEW d, Show(d)
    PROVE  InTurn' /\ (~panel'.crossed => Uncrossed')
<1>1. /\ panel'.object = panel.object + 1 /\ request' = request
      /\ panel.object \in Nat
      /\ panel'.crossed <=> (panel.crossed \/ panel.inFlight)
  <2>1. panel \in PanelType /\ panel.object \in Nat
    BY DEF TypeOK, PanelType
  <2>2. panel'.object = panel.object + 1 /\ request' = request
    BY <2>1 DEF Show, PanelType
  <2>3. panel'.crossed = (panel.crossed \/ panel.inFlight)
    BY <2>1 DEF Show, PanelType
  <2> QED BY <2>1, <2>2, <2>3
<1>2. \A r \in Requests : request[r].object \in Nat
  BY DEF TypeOK, RequestType
<1>3. InTurn'
  BY <1>1, <1>2 DEF InTurn
<1>4. ASSUME ~panel'.crossed PROVE Uncrossed'
  <2>1. ~panel.crossed /\ ~panel.inFlight /\ Uncrossed
    BY <1>1, <1>4
  <2>2. \A r \in Requests : ~Unheard(request[r])
    BY <2>1 DEF Uncrossed
  <2>3. \A r \in Requests :
          request[r].heard = "receipt" => request[r].object # panel.object + 1
    <3> SUFFICES ASSUME NEW r \in Requests, request[r].heard = "receipt"
                 PROVE  request[r].object # panel.object + 1
      OBVIOUS
    <3>1. request[r].step # "none"
      BY DEF Told
    <3>2. request[r].object <= panel.object
      BY <3>1 DEF InTurn
    <3> QED BY <1>1, <1>2, <3>2
  <2> QED BY <1>1, <2>1, <2>2, <2>3 DEF Uncrossed
<1> QED BY <1>3, <1>4

(* submit: the request is the first that has not been sent, every earlier  *)
(* one has been heard of, and none of this object with a receipt.          *)
LEMMA TurnSubmitted ==
    ASSUME TypeOK, InTurn, ~panel.crossed => Uncrossed,
           \A r \in Requests : Handled(request[r]) /\ Told(request[r]),
           NEW r \in Requests, Submit(r)
    PROVE  /\ \A s \in Requests : Handled(request'[s]) /\ Told(request'[s])
           /\ InTurn' /\ (~panel'.crossed => Uncrossed')
<1>1. panel \in PanelType /\ request[r] \in RequestType
  BY DEF TypeOK
<1>2. /\ panel'.object = panel.object /\ panel'.posted = panel.posted
      /\ panel'.crossed = panel.crossed /\ panel'.inFlight = TRUE
  BY <1>1 DEF Submit, PanelType
<1>3. /\ request'[r].object = panel.object /\ request'[r].step = "reading"
      /\ request'[r].heard = request[r].heard
      /\ request'[r].calls = request[r].calls
      /\ request'[r].answer = request[r].answer
      /\ \A s \in Requests : s # r => request'[s] = request[s]
  BY <1>1 DEF Submit, TypeOK, RequestType
<1>4. /\ request[r].step = "none" /\ panel.posted = 0 /\ ~panel.inFlight
      /\ request[r].heard = "no" /\ request[r].calls = <<>>
      /\ request[r].answer = "none"
  BY DEF Submit, Idle, Told, Handled
<1>5. Handled(request'[r]) /\ Told(request'[r])
  <2>1. Handled(request'[r])
    BY <1>3, <1>4 DEF Handled
  <2>2. Told(request'[r])
    BY <1>3, <1>4 DEF Told
  <2> QED BY <2>1, <2>2
<1>6. \A s \in Requests : Handled(request'[s]) /\ Told(request'[s])
  BY <1>3, <1>5
<1>7. r \in Int /\ panel.object \in Int /\ Requests \subseteq Int
  BY <1>1, BoundsAssumption DEF PanelType, Requests
<1>8. \A s \in Requests : s < r => request[s].step # "none"
  BY DEF Submit
<1>9. \A s \in Requests : s > r => request[s].step = "none"
  BY <1>4, <1>7 DEF InTurn
<1>10. InTurn'
  <2>1. ASSUME NEW s \in Requests, NEW t \in Requests, t < s,
               request'[s].step # "none"
        PROVE  request'[t].step # "none"
    <3>1. CASE s = r
      BY <1>3, <1>7, <1>8, <2>1, <3>1
    <3>2. CASE s # r /\ t = r
      BY <1>3, <3>2
    <3>3. CASE s # r /\ t # r
      BY <1>3, <2>1, <3>3 DEF InTurn
    <3> QED BY <3>1, <3>2, <3>3
  <2>2. ASSUME NEW s \in Requests, request'[s].step # "none"
        PROVE  request'[s].object <= panel'.object
    BY <1>2, <1>3, <1>7, <2>2 DEF InTurn
  <2> QED BY <2>1, <2>2 DEF InTurn
<1>11. ASSUME ~panel'.crossed PROVE Uncrossed'
  <2>1. Uncrossed
    BY <1>2, <1>11
  <2>2. \A s \in Requests : ~Unheard(request[s])
    BY <1>4, <2>1 DEF Uncrossed
  <2>3. \A s \in Requests : Unheard(request'[s]) => s = r
    BY <1>3, <2>2
  <2>4. \A s \in Requests : request[s].heard = "receipt"
                              => request[s].object # panel.object
    BY <1>4, <2>1 DEF Uncrossed
  <2>5. \A s \in Requests :
          request'[s].heard = "receipt" /\ request'[s].object = panel'.object
              => panel'.posted # 0
    BY <1>2, <1>3, <1>4, <2>4
  <2>6. ASSUME NEW s \in Requests, NEW t \in Requests, t < s,
               request'[s].step # "none", request'[t].object = request'[s].object
        PROVE  request'[t].heard \notin {"no", "receipt"}
    <3>1. CASE s = r
      <4>1. t # r /\ request[t].step # "none" /\ request[t].object = panel.object
        BY <1>3, <1>7, <1>8, <2>6, <3>1
      <4>2. request[t].heard # "no"
        BY <2>2, <4>1 DEF Unheard
      <4>3. request[t].heard # "receipt"
        BY <2>4, <4>1
      <4> QED BY <1>3, <4>1, <4>2, <4>3
    <3>2. CASE s # r
      <4>1. request[s].step # "none" /\ s < r
        BY <1>3, <1>7, <1>9, <2>6, <3>2
      <4>2. t # r
        BY <1>7, <2>6, <4>1
      <4>3. request[t].heard \notin {"no", "receipt"}
        BY <1>3, <2>1, <2>6, <3>2, <4>1, <4>2 DEF Uncrossed
      <4> QED BY <1>3, <4>2, <4>3
    <3> QED BY <3>1, <3>2
  <2> QED BY <1>2, <2>3, <2>5, <2>6 DEF Uncrossed
<1> QED BY <1>6, <1>10, <1>11

(* The panel hears of a request, or gives it up.                           *)
LEMMA TurnHeard ==
    ASSUME TypeOK, InTurn, ~panel.crossed => Uncrossed,
           \A r \in Requests : Handled(request[r]) /\ Told(request[r]),
           NEW r \in Requests, Hear(r) \/ Lose(r)
    PROVE  /\ \A s \in Requests : Handled(request'[s]) /\ Told(request'[s])
           /\ InTurn' /\ (~panel'.crossed => Uncrossed')
<1>1. panel \in PanelType /\ request[r] \in RequestType
  BY DEF TypeOK
<1>2. /\ panel'.object = panel.object /\ panel'.crossed = panel.crossed
      /\ panel'.inFlight = FALSE
      /\ panel'.posted = panel.posted \/ panel'.posted = r
  BY <1>1 DEF Hear, Lose, PanelType
<1>3. /\ request'[r].object = request[r].object
      /\ request'[r].step = request[r].step
      /\ request'[r].calls = request[r].calls
      /\ request'[r].kept = request[r].kept
      /\ request'[r].count = request[r].count
      /\ request'[r].answer = request[r].answer
      /\ \/ request'[r].heard = request[r].answer /\ request[r].step = "answered"
            /\ (request[r].answer = "receipt" => panel'.posted = r)
         \/ request'[r].heard = "lost"
      /\ request[r].heard = "no" /\ request[r].step # "none"
      /\ \A s \in Requests : s # r => request'[s] = request[s]
  <2>1. CASE Hear(r)
    BY <1>1, <2>1 DEF Hear, TypeOK, RequestType, PanelType
  <2>2. CASE Lose(r)
    BY <1>1, <2>2 DEF Lose, TypeOK, RequestType
  <2> QED BY <2>1, <2>2
<1>4. Handled(request'[r]) /\ Told(request'[r])
  <2>1. Handled(request'[r])
    BY <1>3 DEF Handled
  <2>2. Told(request'[r])
    BY <1>3 DEF Told
  <2> QED BY <2>1, <2>2
<1>5. \A s \in Requests : Handled(request'[s]) /\ Told(request'[s])
  BY <1>3, <1>4
<1>6. InTurn'
  BY <1>2, <1>3 DEF InTurn
<1>7. ASSUME ~panel'.crossed PROVE Uncrossed'
  <2>1. Uncrossed
    BY <1>2, <1>7
  <2>2. Unheard(request[r])
    BY <1>3 DEF Unheard
  <2>3. \A s \in Requests : s # r => ~Unheard(request[s])
    BY <2>1, <2>2 DEF Uncrossed
  <2>4. request'[r].heard # "no"
    BY <1>1, <1>3 DEF RequestType, Errors
  <2>5. \A s \in Requests : ~Unheard(request'[s])
    BY <1>3, <2>3, <2>4 DEF Unheard
  <2>6. ASSUME NEW s \in Requests, request'[s].heard = "receipt",
               request'[s].object = panel'.object
        PROVE  panel'.posted # 0
    <3>1. r # 0
      BY BoundsAssumption DEF Requests
    <3>2. CASE s = r
      BY <1>3, <2>6, <3>1, <3>2
    <3>3. CASE s # r
      <4>1. panel.posted # 0
        BY <1>2, <1>3, <2>1, <2>6, <3>3 DEF Uncrossed
      <4> QED BY <1>2, <3>1, <4>1
    <3> QED BY <3>2, <3>3
  <2>7. ASSUME NEW s \in Requests, NEW t \in Requests, t < s,
               request'[s].step # "none", request'[t].object = request'[s].object
        PROVE  request'[t].heard \notin {"no", "receipt"}
    <3>1. request[s].step # "none" /\ request[t].object = request[s].object
      BY <1>3, <2>7
    <3>2. request[t].heard \notin {"no", "receipt"}
      BY <2>1, <2>7, <3>1 DEF Uncrossed
    <3>3. t # r
      BY <1>3, <3>2
    <3> QED BY <1>3, <3>2, <3>3
  <2> QED BY <2>5, <2>6, <2>7 DEF Uncrossed
<1> QED BY <1>5, <1>6, <1>7

-----------------------------------------------------------------------------
LEMMA PostInvInit == Init => PostInv
<1> SUFFICES ASSUME Init PROVE PostInv
  OBVIOUS
<1>1. TypeOK
  BY TypeInit
<1>2. \A r \in Requests : request[r] = NoRequest
  BY DEF Init
<1>3. /\ NoRequest.step = "none" /\ NoRequest.calls = <<>>
      /\ NoRequest.answer = "none" /\ NoRequest.heard = "no"
      /\ NoRequest.object = 0
  BY DEF NoRequest
<1>4. Handled(NoRequest) /\ Told(NoRequest)
  BY <1>3 DEF Handled, Told
<1>5. Accepted
  BY <1>2, <1>3 DEF Accepted, Init
<1>6. InTurn /\ Uncrossed
  BY <1>2, <1>3 DEF InTurn, Uncrossed, Unheard
<1> QED BY <1>1, <1>2, <1>4, <1>5, <1>6 DEF PostInv

(* A request that the endpoint or GitHub has advanced.                     *)
LEMMA PostInvAdvances ==
    ASSUME PostInv, NEW r \in Requests, NEW q,
           request' = [request EXCEPT ![r] = q], Advances(request[r], q),
           panel' = panel, github' \subseteq ReviewType, Accepted'
    PROVE  PostInv'
<1>1. q \in RequestType /\ Len(q.calls) <= 2 /\ Handled(q) /\ Told(q)
  BY DEF Advances
<1>2. TypeOK'
  BY <1>1, ReplacedRequest DEF PostInv, TypeOK
<1>3. \A s \in Requests : Handled(request'[s]) /\ Told(request'[s])
  BY <1>1, ReplacedRequest DEF PostInv
<1>4. InTurn' /\ (~panel'.crossed => Uncrossed')
  BY TurnKept DEF PostInv
<1> QED BY <1>2, <1>3, <1>4 DEF PostInv

LEMMA PostInvStep == PostInv /\ [Next]_vars => PostInv'
<1> SUFFICES ASSUME PostInv, [Next]_vars PROVE PostInv'
  OBVIOUS
<1>1. /\ TypeOK /\ Accepted /\ InTurn /\ (~panel.crossed => Uncrossed)
      /\ \A r \in Requests : Handled(request[r]) /\ Told(request[r])
  BY DEF PostInv
<1>2. CASE Dismiss \/ Restore
  <2>1. TypeOK'
    BY <1>1, <1>2, PanelTypes
  <2>2. PICK d : Show(d)
    BY <1>2 DEF Dismiss, Restore
  <2>3. request' = request /\ github' = github
    BY <2>2 DEF Show
  <2>4. InTurn' /\ (~panel'.crossed => Uncrossed')
    BY <1>1, <2>2, TurnShown
  <2>5. Accepted'
    BY <1>1, <2>3 DEF Accepted
  <2> QED BY <1>1, <2>1, <2>3, <2>4, <2>5 DEF PostInv
<1>3. ASSUME NEW r \in Requests, Submit(r) \/ Hear(r) \/ Lose(r) PROVE PostInv'
  <2>1. TypeOK'
    BY <1>1, <1>3, HearingTypes
  <2>2. /\ \A s \in Requests : Handled(request'[s]) /\ Told(request'[s])
        /\ InTurn' /\ (~panel'.crossed => Uncrossed')
    BY <1>1, <1>3, TurnSubmitted, TurnHeard
  <2>3. github' = github
    BY <1>3 DEF Submit, Hear, Lose
  <2>4. \A s \in Requests : request'[s].calls = request[s].calls
    <3>1. /\ request \in [Requests -> RequestType]
          /\ "calls" \in DOMAIN request[r]
      BY <1>1 DEF TypeOK, RequestType
    <3>2. CASE Submit(r)
      BY <3>1, <3>2 DEF Submit, RequestType
    <3>3. CASE Hear(r)
      BY <3>1, <3>3 DEF Hear, RequestType
    <3>4. CASE Lose(r)
      BY <3>1, <3>4 DEF Lose, RequestType
    <3> QED BY <1>3, <3>2, <3>3, <3>4
  <2>5. \A g \in github : g.by \in Requests
    BY <1>1 DEF TypeOK, ReviewType
  <2>6. Accepted'
    BY <1>1, <2>3, <2>4, <2>5 DEF Accepted
  <2> QED BY <2>1, <2>2, <2>6 DEF PostInv
<1>4. ASSUME NEW r \in Requests,
             RefuseEarly(r) \/ FirstCall(r) \/ FallBack(r) \/ Finish(r) \/ TimeOut(r)
      PROVE  PostInv'
  <2>1. PICK q : /\ request' = [request EXCEPT ![r] = q]
                 /\ Advances(request[r], q)
                 /\ \/ q.calls = request[r].calls
                    \/ \E c \in CallType :
                         /\ c.status = "none"
                         /\ q.calls = Append(request[r].calls, c)
    BY <1>4, EndpointStep
  <2>2. panel' = panel /\ github' = github
    BY <1>4, EndpointStep
  <2>3. Accepted'
    BY <1>1, <2>1, <2>2, AcceptedKept
  <2>4. github' \subseteq ReviewType
    BY <1>1, <2>2 DEF TypeOK
  <2> QED BY <2>1, <2>2, <2>3, <2>4, PostInvAdvances
<1>5. ASSUME NEW r \in Requests, NEW k \in DOMAIN request[r].calls, GitHubStep(r, k)
      PROVE  PostInv'
  <2> DEFINE new == [by |-> r, call |-> k, inline |-> request[r].calls[k].inline,
                     body |-> request[r].calls[k].body]
  <2>1. panel' = panel /\ request[r].calls[k].status = "none"
    BY <1>5, GitHubAnswers
  <2>2. PICK q : \E status \in Statuses :
          /\ request' = [request EXCEPT ![r] = q]
          /\ Advances(request[r], q)
          /\ Stamped(request[r].calls, q.calls, k, status)
          /\ \/ status \in Made /\ github' = github \cup {new}
             \/ status \notin Made /\ github' = github
    BY <1>5, GitHubAnswers
  <2>3. PICK status \in Statuses :
          /\ request' = [request EXCEPT ![r] = q]
          /\ Advances(request[r], q)
          /\ Stamped(request[r].calls, q.calls, k, status)
          /\ \/ status \in Made /\ github' = github \cup {new}
             \/ status \notin Made /\ github' = github
    BY <2>2
  <2>4. /\ new.by = r /\ new.call = k
        /\ new.inline = request[r].calls[k].inline
        /\ new.body = request[r].calls[k].body
    OBVIOUS
  <2>5. new \in ReviewType
    <3>1. /\ request[r].calls \in Seq(CallType) /\ Len(request[r].calls) <= 2
          /\ Len(request[r].calls) \in Nat
      BY <1>1 DEF TypeOK, RequestType
    <3>2. request[r].calls[k] \in CallType /\ k \in 1..2
      BY <3>1
    <3> QED BY <3>2 DEF ReviewType, CallType
  <2> HIDE DEF new
  <2>6. github' \subseteq ReviewType
    <3>1. github \subseteq ReviewType
      BY <1>1 DEF TypeOK
    <3>2. github' = github \/ github' = github \cup {new}
      BY <2>3, Zenon
    <3> QED BY <2>5, <3>1, <3>2, Zenon
  <2>7. Accepted'
    <3>1. Accepted /\ TypeOK
      BY <1>1
    <3>2. \/ status \in Made /\ github' = github \cup {new}
          \/ status \notin Made /\ github' = github
      BY <2>3, Zenon
    <3>3. /\ request' = [request EXCEPT ![r] = q]
          /\ Stamped(request[r].calls, q.calls, k, status)
      BY <2>3, Zenon
    <3> QED BY <2>1, <2>4, <3>1, <3>2, <3>3, AcceptedMore, Zenon
  <2> QED BY <2>1, <2>3, <2>6, <2>7, PostInvAdvances
<1>6. CASE UNCHANGED vars
  BY <1>1, <1>6 DEF vars, PostInv, TypeOK, Accepted, InTurn, Uncrossed
<1> QED BY <1>2, <1>3, <1>4, <1>5, <1>6 DEF Next

(* The inductive invariant of posting holds in every reachable state.      *)
THEOREM Invariance == Spec => []PostInv
BY PostInvInit, PostInvStep, PTL DEF Spec

(* Every variable keeps its type; in particular no request calls GitHub    *)
(* more than twice, and none has more inline comments than the cap         *)
(* (INLINE_COMMENT_CAP), however many findings are located.                *)
THEOREM TypeCorrect == Spec => []TypeOK
<1>1. PostInv => TypeOK
  BY DEF PostInv
<1> QED BY <1>1, Invariance, PTL

-----------------------------------------------------------------------------
LEMMA AnswersTrue == PostInv => AnswersAreTrue
<1> SUFFICES ASSUME PostInv, NEW r \in Requests, request[r].step = "answered"
             PROVE  /\ request[r].answer = "receipt" =>
                         \E g \in github :
                            /\ g.by = r /\ Cardinality(g.inline) = request[r].count
                            /\ Missing(g) = IF g.call = 1 THEN {}
                                            ELSE Inline(request[r].kept)
                    /\ request[r].answer = "refused" =>
                         \A g \in github :
                            g.by = r => request[r].calls[g.call].status = "garbled"
  BY DEF AnswersAreTrue
<1>1. /\ Handled(request[r]) /\ Accepted /\ request[r].calls \in Seq(CallType)
      /\ Len(request[r].calls) <= 2 /\ request[r].kept \in SUBSET Findings
  BY DEF PostInv, TypeOK, RequestType
<1>2. ASSUME request[r].answer = "receipt"
      PROVE  \E g \in github :
                /\ g.by = r /\ Cardinality(g.inline) = request[r].count
                /\ Missing(g) = IF g.call = 1 THEN {} ELSE Inline(request[r].kept)
  <2> DEFINE last == Len(request[r].calls)
             kept == request[r].kept
  <2>1. last \in DOMAIN request[r].calls /\ request[r].calls[last].status = "ok"
        /\ request[r].calls # <<>>
    BY <1>1, <1>2 DEF Handled
  <2>2. PICK g \in github : g.by = r /\ g.call = last
    BY <1>1, <2>1 DEF Accepted, Made
  <2>3. /\ g.inline = request[r].calls[last].inline
        /\ g.body = request[r].calls[last].body
    BY <1>1, <2>2 DEF Accepted
  <2>4. Cardinality(g.inline) = request[r].count
    BY <1>1, <2>1, <2>3 DEF Handled
  <2>5. Inline(kept) \in SUBSET kept /\ Inline(kept) \cup Body(kept) = kept
    BY <1>1, InlineWithinCap
  <2>6. last = 1 \/ last = 2
    <3>1. last \in Nat /\ last # 0 /\ last <= 2
      BY <1>1, <2>1
    <3>2. \A n \in Nat : n # 0 /\ n <= 2 => n = 1 \/ n = 2
      OBVIOUS
    <3> QED BY <3>1, <3>2, Zenon
  <2>7. CASE last = 1
    <3>1. g.inline = Inline(kept) /\ g.body = Body(kept)
      BY <1>1, <2>1, <2>3, <2>7 DEF Handled
    <3> QED BY <2>2, <2>4, <2>5, <2>7, <3>1 DEF Missing
  <2>8. CASE last = 2
    <3>1. g.inline = {} /\ g.body = Body(kept)
      BY <1>1, <2>1, <2>3, <2>8 DEF Handled
    <3>2. Missing(g) = Inline(kept)
      BY <2>2, <2>5, <3>1 DEF Missing, Body
    <3> QED BY <2>2, <2>4, <2>8, <3>2
  <2> QED BY <2>6, <2>7, <2>8
<1>3. ASSUME request[r].answer = "refused", NEW g \in github, g.by = r
      PROVE  request[r].calls[g.call].status = "garbled"
  BY <1>1, <1>3 DEF Handled, Accepted, Made
<1> QED BY <1>2, <1>3

(* What the service answers is what is on GitHub, for any review and any   *)
(* cap, with calls that time out, answers that are lost or garbled, and a  *)
(* fallback, which drops just the findings that stood inline               *)
(* (post_review_to_github).                                                *)
THEOREM AnswersHold == Spec => []AnswersAreTrue
BY Invariance, AnswersTrue, PTL

LEMMA NoDouble == PostInv => NoSilentDouble
<1> SUFFICES ASSUME PostInv, NEW g \in github, NEW h \in github,
                    g # h, g.by <= h.by,
                    request[g.by].object = request[h.by].object
             PROVE  /\ g.by # h.by
                    /\ \/ Retryable(request[g.by].heard)
                       \/ request[g.by].heard = "lost"
                       \/ request[g.by].calls[g.call].status = "garbled"
                       \/ panel.crossed
  BY DEF NoSilentDouble
<1>1. /\ TypeOK /\ Accepted /\ InTurn /\ (~panel.crossed => Uncrossed)
      /\ \A r \in Requests : Handled(request[r]) /\ Told(request[r])
  BY DEF PostInv
<1>2. g \in ReviewType /\ h \in ReviewType
  BY <1>1 DEF TypeOK
<1>3. /\ g.by \in Requests /\ h.by \in Requests
      /\ request[g.by] \in RequestType
      /\ request[h.by].calls \in Seq(CallType)
      /\ request[g.by].calls \in Seq(CallType)
      /\ Len(request[g.by].calls) <= 2
  BY <1>1, <1>2 DEF ReviewType, TypeOK, RequestType
<1>4. /\ g.call \in DOMAIN request[g.by].calls
      /\ request[g.by].calls[g.call].status \in Made
      /\ request[g.by].calls[g.call].inline = g.inline
      /\ request[g.by].calls[g.call].body = g.body
      /\ h.call \in DOMAIN request[h.by].calls
      /\ request[h.by].calls[h.call].status \in Made
      /\ request[h.by].calls[h.call].inline = h.inline
      /\ request[h.by].calls[h.call].body = h.body
  BY <1>1 DEF Accepted
<1>5. g.by # h.by
  <2> SUFFICES ASSUME g.by = h.by PROVE FALSE
    OBVIOUS
  <2>1. g.call # h.call
    <3> SUFFICES ASSUME g.call = h.call PROVE g = h
      OBVIOUS
    <3>1. g.inline = h.inline /\ g.body = h.body
      BY <1>4
    <3> QED BY <1>2, <3>1 DEF ReviewType
  <2>2. g.call \in 1..2 /\ h.call \in 1..2
    BY <1>2 DEF ReviewType
  <2>3. Len(request[g.by].calls) = 2
    <3>1. 2 \in DOMAIN request[g.by].calls
      BY <1>4, <2>1, <2>2
    <3>2. Len(request[g.by].calls) \in Nat /\ Len(request[g.by].calls) >= 2
      BY <1>3, <3>1
    <3>3. \A n \in Nat : n >= 2 /\ n <= 2 => n = 2
      OBVIOUS
    <3> QED BY <1>3, <3>2, <3>3, Zenon
  <2>4. request[g.by].calls[1].status = "position"
    BY <1>1, <1>3, <2>3 DEF Handled
  <2>5. g.call = 1 \/ h.call = 1
    BY <2>1, <2>2
  <2> QED BY <1>4, <2>4, <2>5 DEF Made
<1>6. ASSUME ~panel.crossed, request[g.by].calls[g.call].status # "garbled"
      PROVE  Retryable(request[g.by].heard) \/ request[g.by].heard = "lost"
  <2>1. g.by < h.by
    BY <1>3, <1>5, BoundsAssumption DEF Requests
  <2>2. request[h.by].calls # <<>>
    BY <1>3, <1>4
  <2>3. request[h.by].step # "none"
    BY <1>1, <1>3, <2>2 DEF Handled
  <2>4. request[g.by].heard \notin {"no", "receipt"}
    BY <1>1, <1>3, <1>6, <2>1, <2>3 DEF Uncrossed
  <2>5. request[g.by].heard # "refused"
    <3> SUFFICES ASSUME request[g.by].heard = "refused" PROVE FALSE
      OBVIOUS
    <3>1. request[g.by].answer = "refused"
      BY <1>1, <1>3 DEF Told
    <3> QED BY <1>1, <1>3, <1>4, <1>6, <3>1 DEF Handled, Made
  <2>6. request[g.by].heard \in {"refused", "down", "no", "receipt", "lost"}
    BY <1>3 DEF RequestType, Errors
  <2> QED BY <2>4, <2>5, <2>6 DEF Retryable
<1> QED BY <1>5, <1>6

(* For any review and any number of requests: GitHub gets one review of a  *)
(* request, and two of an object only after an answer that invited another *)
(* try, was lost, told of a review that GitHub garbled, or crossed a       *)
(* change of the object.                                                   *)
THEOREM DoublesAreNotSilent == Spec => []NoSilentDouble
BY Invariance, NoDouble, PTL
=============================================================================
