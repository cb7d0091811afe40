---------------------------- MODULE ReviewContext ----------------------------
(***************************************************************************)
(* What one review of an indexed repository adds to its prompt and its     *)
(* findings: the chunks that RetrievalService.search finds and trims to a  *)
(* token budget, and the git history of the windows into which             *)
(* collapse_diff_to_windows merges the hunks of the diff.  Meanwhile the   *)
(* repository is indexed again or deleted, and the worker restarted with   *)
(* another embedding model, which starts the review over.                  *)
(*                                                                         *)
(* A model stands for the pair of provider and model, a chunk is its       *)
(* number in the pass that stored it, with the space of its vector.  Files *)
(* are treated one by one, so the diff has one.  RepoIndexing has the      *)
(* steps of a pass, TemporalCache those of a lookup: here they are one.    *)
(***************************************************************************)
EXTENDS Integers, FiniteSets, SequencesExt

CONSTANTS
    Diffs,        \* [queries, hunks]: hunks with text, headers "+start,length"
    Models,       \* embedding models a worker may be started with
    NoModel,      \* embedding_model of a repository never indexed
    Cost,         \* token_count of the chunks of a pass, by number
    Scores,       \* similarities within DISTANCE_FLOOR
    TopK,         \* DEFAULT_TOP_K
    Budget,       \* DEFAULT_TOKEN_BUDGET
    NearBy,       \* hunks at most so far apart share a window (5)
    MaxRange,     \* _MAX_LINE_RANGE
    MaxWindows,   \* _MAX_WINDOWS_PER_FILE
    MaxPasses     \* passes that are committed (a bound)

ASSUME DiffsAssumption ==
    \A d \in Diffs : /\ d.queries \in Nat /\ IsFiniteSet(d.hunks)
                     /\ \A h \in d.hunks : h.start \in Nat /\ h.length \in Nat
ASSUME ChunksAssumption ==
    /\ NoModel \notin Models /\ Scores \subseteq Nat
    /\ Cost \in Seq(Nat) /\ {TopK, Budget} \subseteq Nat
ASSUME BoundsAssumption ==
    /\ MaxPasses \in Nat
    /\ {NearBy, MaxRange, MaxWindows} \subseteq Nat \ {0}

VARIABLES
    repo,      \* the repository row and its chunks
    passes,    \* how many passes were committed
    model,     \* what the worker embeds with
    diff,      \* of the review
    pc,        \* where the review is
    vectors,   \* the model its queries were embedded with
    asked,     \* how many of them were answered
    best,      \* the chunks found so far, with their best score
    left,      \* those not yet weighed against the budget
    selected,  \* those that go into the prompt
    windows,   \* the line windows of the file
    pool       \* the places of those whose history was found

environment == <<repo, passes, model>>
search == <<vectors, asked, best, left, selected>>
history == <<windows, pool>>
vars == <<environment, diff, pc, search, history>>

Chunk == [pass : 1..MaxPasses, no : DOMAIN Cost, space : Models]

-----------------------------------------------------------------------------
(* Hunks to windows: a range is <<first line, last line>>.                 *)

(* _extract_rhs_hunks drops what has no line in the new file.              *)
Ranges(hunks) ==
    {<<h.start, h.start + h.length - 1>> :
       h \in {k \in hunks : k.start > 0 /\ k.length > 0}}

Earlier(r, s) == r[1] < s[1] \/ (r[1] = s[1] /\ r[2] < s[2])

Sorted(ranges) ==
    CHOOSE s \in [1..Cardinality(ranges) -> ranges] :
        \A i, j \in DOMAIN s : i < j => Earlier(s[i], s[j])

Larger(m, n) == IF m < n THEN n ELSE m

(* Mutant: a hunk inside another cuts the window short.                    *)
MergeToLast(merged, r) ==
    IF merged # <<>> /\ r[1] - Last(merged)[2] <= NearBy
    THEN Front(merged) \o << <<Last(merged)[1], r[2]>> >>
    ELSE Append(merged, r)

Merge(merged, r) ==
    IF merged # <<>> /\ r[1] - Last(merged)[2] <= NearBy
    THEN Front(merged) \o << <<Last(merged)[1], Larger(Last(merged)[2], r[2])>> >>
    ELSE Append(merged, r)

(* Mutant: one line too many.                                              *)
ClampLate(r) ==
    IF r[2] - r[1] + 1 > MaxRange THEN <<r[1], r[1] + MaxRange>> ELSE r

Clamp(r) ==
    IF r[2] - r[1] + 1 > MaxRange THEN <<r[1], r[1] + MaxRange - 1>> ELSE r

Collapse(hunks) ==
    LET merged == FoldLeft(Merge, <<>>, Sorted(Ranges(hunks)))
        kept == IF Len(merged) < MaxWindows THEN Len(merged) ELSE MaxWindows
    IN  [i \in 1..kept |-> Clamp(merged[i])]

(* _attach_temporal_context: a finding gets the history of the first       *)
(* window of the pool that holds its line, here named by its first line.   *)
Holding(line) ==
    {i \in DOMAIN windows : windows[i][1] <= line /\ line <= windows[i][2]}

History(line) ==
    IF Holding(line) \cap pool = {} THEN 0
    ELSE windows[Min(Holding(line) \cap pool)][1]

-----------------------------------------------------------------------------
Init ==
    /\ repo = [exists |-> TRUE, ready |-> FALSE, model |-> NoModel, chunks |-> {}]
    /\ passes = 0
    /\ model \in Models
    /\ diff \in Diffs
    /\ pc = "check"
    /\ vectors = NoModel /\ asked = 0 /\ best = <<>> /\ left = {}
    /\ selected = <<>> /\ windows = <<>> /\ pool = {}

(* search reads the row once, and _retrieve_context turns its refusals     *)
(* into those of a review.                                                 *)
Answers == repo.exists /\ repo.ready

Comparable == repo.model = NoModel \/ repo.model = model

(* Mutant: the persisted model is not compared with the active one.        *)
CheckAnyModel ==
    /\ pc = "check" /\ Answers
    /\ pc' = IF diff.queries = 0 THEN "source" ELSE "embed"
    /\ UNCHANGED <<environment, diff, search, history>>

Check ==
    /\ pc = "check" /\ Answers /\ Comparable
    /\ pc' = IF diff.queries = 0 THEN "source" ELSE "embed"
    /\ UNCHANGED <<environment, diff, search, history>>

Refuse ==
    /\ pc = "check" /\ ~(Answers /\ Comparable)
    /\ pc' = "refused"
    /\ UNCHANGED <<environment, diff, search, history>>

Embed ==
    /\ pc = "embed"
    /\ \/ pc' = "ask" /\ vectors' = model
       \/ pc' = "refused" /\ UNCHANGED vectors   \* ProviderError
    /\ UNCHANGED <<environment, diff, asked, best, left, selected, history>>

(* One SELECT per query, each on what is committed when it starts.  The    *)
(* distances are arbitrary: any chunks, up to TopK, may be near enough.    *)
Ask ==
    /\ pc = "ask"
    /\ \E near \in SUBSET repo.chunks :
         /\ Cardinality(near) <= TopK
         /\ \E score \in [near -> Scores] :
              best' = [c \in DOMAIN best \cup near |->
                         IF c \notin near THEN best[c]
                         ELSE IF c \in DOMAIN best THEN Larger(best[c], score[c])
                         ELSE score[c]]
    /\ asked' = asked + 1
    /\ IF asked' = diff.queries
       THEN pc' = "trim" /\ left' = DOMAIN best'
       ELSE UNCHANGED <<pc, left>>
    /\ UNCHANGED <<environment, diff, vectors, selected, history>>

-----------------------------------------------------------------------------
(* The budget: candidates by descending score, each taken if it still fits.*)

Tokens(chosen) ==
    FoldLeft(LAMBDA sum, c : sum + Cost[c.no], 0, chosen)

(* Mutant: the tokens so far are compared, without those of the chunk.     *)
FitsSoFar(c) == Tokens(selected) < Budget

Fits(c) == Tokens(selected) + Cost[c.no] <= Budget

Trim ==
    /\ pc = "trim" /\ left # {}
    /\ \E c \in left :
         /\ \A d \in left : best[d] <= best[c]
         /\ selected' = IF Fits(c) THEN Append(selected, c) ELSE selected
         /\ left' = left \ {c}
    /\ UNCHANGED <<environment, diff, pc, vectors, asked, best, history>>

EndSearch ==
    /\ pc = "trim" /\ left = {}
    /\ pc' = "source"
    /\ UNCHANGED <<environment, diff, search, history>>

(* _resolve_repo_source, and the windows if the repository is still there. *)
MakeWindows ==
    /\ pc = "source"
    /\ windows' = IF repo.exists THEN Collapse(diff.hunks) ELSE <<>>
    /\ pc' = "history"
    /\ UNCHANGED <<environment, diff, search, pool>>

(* A SELECT fails, in search or in _resolve_repo_source: nobody catches    *)
(* the error, and the review ends with what it had found.                  *)
DatabaseFails ==
    /\ pc \in {"check", "ask", "source"}
    /\ pc' = "refused"
    /\ asked' = 0 /\ best' = <<>> /\ selected' = <<>>
    /\ UNCHANGED <<environment, diff, vectors, left, history>>

(* fetch_temporal_pool_for_review: every lookup may come back empty.       *)
FetchHistory ==
    /\ pc = "history"
    /\ pool' \in SUBSET DOMAIN windows
    /\ pc' = "done"
    /\ UNCHANGED <<environment, diff, search, windows>>

-----------------------------------------------------------------------------
Ended == pc \in {"refused", "done"}

(* POST /api/index (_register_async) clears indexed_at and keeps the       *)
(* chunks and their model until a pass replaces them.                      *)
PostReindex ==
    /\ ~Ended /\ Answers
    /\ repo' = [repo EXCEPT !.ready = FALSE]
    /\ UNCHANGED <<passes, model, diff, pc, search, history>>

(* replace_chunks, by a job of the same worker.                            *)
Swap ==
    /\ ~Ended /\ repo.exists /\ passes < MaxPasses
    /\ passes' = passes + 1
    /\ \E count \in 0..Len(Cost) :
         repo' = [exists |-> TRUE, ready |-> TRUE, model |-> model,
                  chunks |-> {[pass |-> passes', no |-> n, space |-> model] :
                                n \in 1..count}]
    /\ UNCHANGED <<model, diff, pc, search, history>>

(* delete_repo refuses a row that waits for its pass, but not one whose    *)
(* pass failed, which look alike here.                                     *)
Delete ==
    /\ ~Ended /\ repo.exists
    /\ repo' = [exists |-> FALSE, ready |-> FALSE, model |-> NoModel, chunks |-> {}]
    /\ UNCHANGED <<passes, model, diff, pc, search, history>>

(* The worker is started again, on other settings perhaps, and arq runs    *)
(* the review once more.                                                   *)
Restart ==
    /\ ~Ended
    /\ model' \in Models
    /\ pc' = "check"
    /\ vectors' = NoModel /\ asked' = 0 /\ best' = <<>> /\ left' = {}
    /\ selected' = <<>> /\ windows' = <<>> /\ pool' = {}
    /\ UNCHANGED <<repo, passes, diff>>

Next ==
    \/ Check \/ Refuse \/ Embed \/ Ask \/ Trim \/ EndSearch
    \/ MakeWindows \/ FetchHistory \/ DatabaseFails
    \/ PostReindex \/ Swap \/ Delete \/ Restart

Spec == Init /\ [][Next]_vars

-----------------------------------------------------------------------------
(* Every variable has its type, and no window is longer than the lookups   *)
(* allow.                                                                  *)
TypeOK ==
    /\ repo \in [exists : BOOLEAN, ready : BOOLEAN, model : Models \cup {NoModel},
                 chunks : SUBSET Chunk]
    /\ passes \in 0..MaxPasses
    /\ model \in Models
    /\ pc \in {"check", "embed", "ask", "trim", "source", "history",
               "refused", "done"}
    /\ vectors \in Models \cup {NoModel}
    /\ asked \in 0..diff.queries
    /\ DOMAIN best \subseteq Chunk /\ \A c \in DOMAIN best : best[c] \in Scores
    /\ left \subseteq DOMAIN best
    /\ selected \in Seq(DOMAIN best)
    /\ pool \subseteq DOMAIN windows /\ Len(windows) <= MaxWindows
    /\ \A w \in ToSet(windows) : w[1] <= w[2] /\ w[2] - w[1] < MaxRange

(* A chunk is compared with a query only if both were embedded with one    *)
(* model, whatever was indexed, re-indexed or restarted since the search   *)
(* looked at the repository (the comparison in search, and that a worker's *)
(* model outlives none of its reviews).                                    *)
ContextIsComparable ==
    \A c \in DOMAIN best : c.space = vectors

LeftOut == DOMAIN best \ (left \cup ToSet(selected))

DoesNotFit(c) ==
    \E n \in 0..Len(selected) :
        /\ \A i \in 1..n : best[selected[i]] >= best[c]
        /\ Tokens(SubSeq(selected, 1, n)) + Cost[c.no] > Budget

(* What goes into the prompt is within the budget, in the order of its     *)
(* scores and without repeats; and a chunk is left out only if it, or one  *)
(* left out that scores at least as high, does not fit beside what scores  *)
(* at least as high as that one: nothing gives way to a lower score (the   *)
(* trimming in search).  What becomes of the chunks below the first that   *)
(* does not fit is left open.  The code goes on with them                  *)
(* (retrieval.py:230); specs/005-rag-indexing/spec.md:124 drops them, and  *)
(* so does step 5 of contracts/retrieval_algorithm.md.                     *)
ContextIsTheBest ==
    /\ Tokens(selected) <= Budget
    /\ \A i, j \in DOMAIN selected :
         i < j => /\ selected[i] # selected[j]
                  /\ best[selected[i]] >= best[selected[j]]
    /\ pc # "ask" =>
         \A c \in LeftOut :
             \E d \in LeftOut : best[d] >= best[c] /\ DoesNotFit(d)

(* The lines of the new file that the diff touches, and those of them that *)
(* begin a window: no touched line is close before them.                   *)
Touched == UNION {r[1]..r[2] : r \in Ranges(diff.hunks)}

Begins == {l \in Touched : \A n \in 1..NearBy : l - n \notin Touched}

(* The windows a line should be in: the last to begin before it, if that   *)
(* is one of the first MaxWindows, began less than MaxRange lines ago and  *)
(* has a touched line after this one.                                      *)
WindowOf(line) ==
    {b \in Begins :
       /\ b <= line /\ line < b + MaxRange
       /\ Cardinality({a \in Begins : a <= b}) <= MaxWindows
       /\ \E t \in Touched : line <= t /\ \A a \in Begins : ~(b < a /\ a <= t)}

(* The windows hold the lines they should, none of them twice, and a       *)
(* finding gets the history of the window of its line if the lookup found  *)
(* one: however the hunks touch, nest or nearly meet                       *)
(* (collapse_diff_to_windows with _attach_temporal_context).  A deleted    *)
(* repository has no history.                                              *)
FindingsGetTheirHistory ==
    pc \in {"history", "done"} /\ repo.exists =>
        \A line \in {t + n : t \in Touched, n \in 0..NearBy} :
            /\ {windows[i][1] : i \in Holding(line)} = WindowOf(line)
            /\ pc = "done" =>
                 {History(line)} \ {0} = {windows[i][1] : i \in Holding(line) \cap pool}
=============================================================================
