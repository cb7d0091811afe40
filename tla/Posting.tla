------------------------------- MODULE Posting -------------------------------
(***************************************************************************)
(* A loaded review goes to GitHub: the panel on the review page            *)
(* (PostToGitHubPanel.vue), the endpoint behind it (posting/service with   *)
(* posting/client and posting/mapper), and GitHub, of which the code       *)
(* assumes that a 4xx creates nothing.  A 5xx after creating one looks     *)
(* like a call that times out; a 200 or 201 that does not name what it     *)
(* created is refused by the service, whatever GitHub has done.            *)
(*                                                                         *)
(* A finding is its number in the review.  What the panel is shown is an   *)
(* object: dismissing or restoring a finding makes another one.  The event *)
(* and the wording are left out, and so is the countdown of a rate limit,  *)
(* which gates one of the three controls that call submit and not the      *)
(* other two (the button and the Retry of a toast).  Two panels share      *)
(* nothing but GitHub, so there is one.                                    *)
(***************************************************************************)
EXTENDS FiniteSets, Integers, Sequences

CONSTANTS
    Findings,     \* of the loaded review, numbered in its order
    Located,      \* those with a file and a line
    Stored,       \* dismissals the browser's storage may hold at first
    InlineCap,    \* INLINE_COMMENT_CAP
    MaxObjects,   \* objects the panel is shown (a bound)
    MaxRequests,  \* POSTs of the panel (a bound)
    Faults        \* what may happen: "timeout", "lost", "garbled"

ASSUME FindingsAssumption ==
    /\ Findings \subseteq Nat /\ IsFiniteSet(Findings)
    /\ Located \subseteq Findings /\ Stored \subseteq SUBSET Findings
ASSUME BoundsAssumption ==
    /\ InlineCap \in Nat
    /\ {MaxObjects, MaxRequests} \subseteq Nat \ {0}

VARIABLES
    panel,    \* what it is shown, and inFlight and posted
    request,  \* POST /api/review/post: its handler, and what became of it
    github    \* the reviews on the pull request

vars == <<panel, request, github>>

Requests == 1..MaxRequests

-----------------------------------------------------------------------------
(* posting/mapper: located findings up to the cap become inline comments,  *)
(* the others bullets of the body.                                         *)

(* Mutant: no cap.                                                         *)
AllInline(kept) == kept \cap Located

Inline(kept) ==
    {f \in kept \cap Located :
       Cardinality({g \in kept \cap Located : g <= f}) <= InlineCap}

Body(kept) == kept \ Inline(kept)

(* What GitHub's status means to posting/client.  "position" is the 422    *)
(* that posting/service takes for a position outside the diff, "down" a    *)
(* 429 or 5xx, or any status it does not expect, "garbled" a 200 or 201    *)
(* that is not JSON or lacks the number or the URL of the review it made   *)
(* ("refused" if it made none).                                            *)
Statuses == {"ok", "position", "refused", "down", "garbled"}

Retryable(answer) == answer = "down"

NoRequest ==
    [object |-> 0, kept |-> {}, step |-> "none", calls |-> <<>>,
     answer |-> "none", count |-> 0, heard |-> "no"]

-----------------------------------------------------------------------------
(* The panel.                                                              *)

(* keptResult of the page.                                                 *)
Kept == Findings \ panel.dismissed

(* The watch on the review shown.  crossed remembers, for the properties,  *)
(* that a POST was under way.                                              *)
Show(dismissed) ==
    /\ panel.object < MaxObjects
    /\ panel' = [panel EXCEPT !.object = @ + 1,
                              !.dismissed = dismissed,
                              !.posted = 0,
                              !.inFlight = FALSE,
                              !.crossed = @ \/ panel.inFlight]
    /\ UNCHANGED <<request, github>>

Dismiss == \E f \in Kept : Show(panel.dismissed \cup {f})

Restore == \E f \in panel.dismissed : Show(panel.dismissed \ {f})

(* Mutant: a double click posts twice.                                     *)
NotPosted == panel.posted = 0

(* The early return of submit.                                             *)
Idle == ~panel.inFlight /\ panel.posted = 0

Submit(r) ==
    /\ Idle
    /\ request[r].step = "none"
    /\ \A s \in Requests : s < r => request[s].step # "none"
    /\ panel' = [panel EXCEPT !.inFlight = TRUE]
    /\ request' = [request EXCEPT ![r].object = panel.object,
                                  ![r].kept = Kept,
                                  ![r].step = "reading"]
    /\ UNCHANGED github

(* The answer reaches the panel, whichever object it shows by now.         *)
Hear(r) ==
    /\ request[r].step = "answered" /\ request[r].heard = "no"
    /\ request' = [request EXCEPT ![r].heard = request[r].answer]
    /\ panel' = [panel EXCEPT !.posted =
                                IF request[r].answer = "receipt" THEN r ELSE @,
                              !.inFlight = FALSE]
    /\ UNCHANGED github

(* The browser gives up on the request, and its handler goes on: fetch     *)
(* rejects, and the panel shows an internal error without a retry.         *)
Lose(r) ==
    /\ "lost" \in Faults
    /\ request[r].step # "none" /\ request[r].heard = "no"
    /\ request' = [request EXCEPT ![r].heard = "lost"]
    /\ panel' = [panel EXCEPT !.inFlight = FALSE]
    /\ UNCHANGED github

-----------------------------------------------------------------------------
(* The endpoint.                                                           *)

Answer(r, answer) ==
    request' = [request EXCEPT ![r].step = "answered", ![r].answer = answer]

Call(r, inline, body) ==
    request' = [request EXCEPT
                  ![r].step = "calling",
                  ![r].calls = Append(@, [inline |-> inline, body |-> body,
                                          status |-> "none"]),
                  ![r].count = Cardinality(inline)]

(* No usable URL, or no token in the settings.                             *)
RefuseEarly(r) ==
    /\ request[r].step = "reading"
    /\ Answer(r, "refused")
    /\ UNCHANGED <<panel, github>>

FirstCall(r) ==
    /\ request[r].step = "reading"
    /\ Call(r, Inline(request[r].kept), Body(request[r].kept))
    /\ UNCHANGED <<panel, github>>

LastCall(r) == request[r].calls[Len(request[r].calls)]

(* Mutant: the receipt counts the comments of the first call.              *)
BodyOnlyUncounted(r, body) ==
    request' = [request EXCEPT
                  ![r].calls = Append(@, [inline |-> {}, body |-> body,
                                          status |-> "none"])]

BodyOnlyCall(r, body) == Call(r, {}, body)

PositionError(r) == LastCall(r).status = "position"

(* Once more, without the comments and with the same body.                 *)
FallBack(r) ==
    /\ request[r].step = "calling" /\ Len(request[r].calls) = 1
    /\ PositionError(r)
    /\ BodyOnlyCall(r, LastCall(r).body)
    /\ UNCHANGED <<panel, github>>

(* A garbled answer raises: a rejection, or a plain 500, and neither       *)
(* offers a retry.                                                         *)
Finish(r) ==
    /\ request[r].step = "calling"
    /\ LET status == LastCall(r).status IN
       \/ /\ status = "ok" /\ Answer(r, "receipt")
       \/ /\ status = "position" /\ Len(request[r].calls) = 2
          /\ Answer(r, "refused")
       \/ /\ status \in {"refused", "down"}
          /\ Answer(r, status)
       \/ status = "garbled" /\ Answer(r, "refused")
    /\ UNCHANGED <<panel, github>>

(* httpx gives up, whatever GitHub does with the call.                     *)
TimeOut(r) ==
    /\ "timeout" \in Faults
    /\ request[r].step = "calling"
    /\ Answer(r, "down")
    /\ UNCHANGED <<panel, github>>

-----------------------------------------------------------------------------
(* GitHub, which a call reaches even if nobody waits for its answer.       *)

Create(r, k, status) ==
    /\ github' = github \cup
                   {[by |-> r, call |-> k,
                     inline |-> request[r].calls[k].inline,
                     body |-> request[r].calls[k].body]}
    /\ request' = [request EXCEPT ![r].calls[k].status = status]

Decline(r, k, status) ==
    /\ request' = [request EXCEPT ![r].calls[k].status = status]
    /\ UNCHANGED github

GitHubStep(r, k) ==
    /\ request[r].calls[k].status = "none"
    /\ \/ Create(r, k, "ok")
       \/ "garbled" \in Faults /\ Create(r, k, "garbled")
       \/ \E status \in {"position", "refused", "down"} : Decline(r, k, status)
    /\ UNCHANGED panel

-----------------------------------------------------------------------------
Init ==
    /\ \E dismissed \in Stored :
         panel = [object |-> 1, dismissed |-> dismissed, inFlight |-> FALSE,
                  posted |-> 0, crossed |-> FALSE]
    /\ request = [r \in Requests |-> NoRequest]
    /\ github = {}

Next ==
    \/ Dismiss \/ Restore
    \/ \E r \in Requests :
         \/ Submit(r) \/ Hear(r) \/ Lose(r)
         \/ RefuseEarly(r) \/ FirstCall(r) \/ FallBack(r) \/ Finish(r)
         \/ TimeOut(r)
         \/ \E k \in DOMAIN request[r].calls : GitHubStep(r, k)

Spec == Init /\ [][Next]_vars

-----------------------------------------------------------------------------
Errors == {"refused", "down"}
Steps == {"none", "reading", "calling", "answered"}
CallType == [inline : SUBSET Findings, body : SUBSET Findings,
             status : Statuses \cup {"none"}]

PanelType == [object : 1..MaxObjects, dismissed : SUBSET Findings,
              inFlight : BOOLEAN, posted : 0..MaxRequests, crossed : BOOLEAN]
RequestType == [object : 0..MaxObjects, kept : SUBSET Findings, step : Steps,
                calls : Seq(CallType), answer : Errors \cup {"none", "receipt"},
                count : 0..InlineCap,
                heard : Errors \cup {"no", "receipt", "lost"}]
ReviewType == [by : Requests, call : 1..2, inline : SUBSET Findings,
               body : SUBSET Findings]

(* Every variable has its type; a request makes two calls at most, and the *)
(* receipt's count respects the cap on inline comments.                    *)
TypeOK ==
    /\ panel \in PanelType
    /\ request \in [Requests -> RequestType]
    /\ \A r \in Requests : Len(request[r].calls) <= 2
    /\ github \subseteq ReviewType

(* The findings of a request that its review has neither as a comment nor  *)
(* as a bullet.                                                            *)
Missing(g) == request[g.by].kept \ (g.inline \cup g.body)

(* What the service answers is what is on GitHub (post_review_to_github).  *)
(* A receipt's comment count is that of the review it posted, and what is  *)
(* missing there is exactly the findings GitHub would not place, with      *)
(* those posted beside them: nothing without a fallback, and no bullet     *)
(* ever.  specs/006-pr-review-posting/spec.md:110, SC-003, wants them as   *)
(* bullets after the fallback, but service.py:99 posts the body as it was. *)
(* After an answer that offers no retry nothing is there, nor will be,     *)
(* but for a review that GitHub answered for in a way the service could    *)
(* not read.                                                               *)
AnswersAreTrue ==
    \A r \in Requests : request[r].step = "answered" =>
        /\ request[r].answer = "receipt" =>
             \E g \in github :
                 /\ g.by = r /\ Cardinality(g.inline) = request[r].count
                 /\ Missing(g) = IF g.call = 1 THEN {} ELSE Inline(request[r].kept)
        /\ request[r].answer = "refused" =>
             \A g \in github :
                 g.by = r => request[r].calls[g.call].status = "garbled"

(* GitHub gets one review of a request at most, however its calls end, and *)
(* two of the same object only if the reviewer was offered a retry of the  *)
(* earlier, or was told of an internal error because its answer was lost,  *)
(* or of a refusal because GitHub's was garbled, or the object changed     *)
(* while a POST was under way (post_review_to_github and its fallback,     *)
(* submit's early return).                                                 *)
NoSilentDouble ==
    \A g, h \in github :
        LET earlier == request[g.by]
            later == request[h.by]
        IN  g # h /\ g.by <= h.by /\ earlier.object = later.object =>
                /\ g.by # h.by
                /\ \/ Retryable(earlier.heard)
                   \/ earlier.heard = "lost"
                   \/ earlier.calls[g.call].status = "garbled"
                   \/ panel.crossed
=============================================================================
