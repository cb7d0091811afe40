------------------------- MODULE RepoIndexingProps -------------------------
(***************************************************************************)
(* What RepoIndexing has to get right.  The first group holds for every    *)
(* interleaving and every fault; the second for the operator whose         *)
(* requests do not overlap; the third is what the documents promise and    *)
(* some interleaving or fault breaks.                                      *)
(***************************************************************************)
EXTENDS RepoIndexing

PostRec == [pc : PostPc, reply : PostReply, repo : Posts \cup {NoRepo},
            seen : Row \cup {Absent}]

DelRec == [pc : DelPc, reply : DelReply, repo : Posts \cup {NoRepo}]

JobRec == [pc : JobPc, repo : Posts \cup {NoRepo}, try : 0..MaxTries,
           mine : SUBSET Chunk, doomed : SUBSET Chunk]

(* Every variable has its type.                                            *)
TypeOK ==
    /\ row \in Row \cup {Absent}
    /\ chunks \in SUBSET Chunk
    /\ post \in [Posts -> PostRec]
    /\ del \in [Deletes -> DelRec]
    /\ job \in [Posts -> JobRec]

-----------------------------------------------------------------------------
(* Whatever overlaps and whatever fails.                                   *)

(* No chunk outlives its repository: a pass that is still writing when its *)
(* repository is deleted, rolled back or re-created stores nothing         *)
(* (run_for_existing_repo, replace_chunks, delete_repo_by_id).             *)
NoStrayChunks == \A c \in chunks : c.repo = row.id

(* The chunks that indexed_at and chunk_count advertise are all stored: no *)
(* concurrent swap deletes the chunks of the pass the row names, although  *)
(* each swap deletes all but its own (replace_chunks).                     *)
AdvertisedIndexStored == row.listed \subseteq chunks

(* The chunks of a pass reach readers only in the step that makes the row  *)
(* ready and counts them: no other step adds one (replace_chunks and its   *)
(* single commit).                                                         *)
ChunksAppearWithTheirRow ==
    [][~(chunks' \subseteq chunks) =>
         row'.indexed /\ row'.listed = chunks' \ chunks]_vars

-----------------------------------------------------------------------------
(* When the requests of one operator do not overlap.                       *)

(* The guard of _register_async admits one job at a time.                  *)
OneInFlight ==
    \A id \in Posts : Cardinality(InFlight(id)) <= 1

(* A job will settle the row, or its POST is still under way.  Nothing     *)
(* else ever would: POST and DELETE refuse a row that shows "indexing".    *)
Owed ==
    \/ InFlight(row.id) # {}
    \/ \E r \in Posts : post[r].repo = row.id
                        /\ post[r].pc \in {"enqueue", "rollback", "drop"}

(* The ways in which the code gives a row up: its POST enqueued nothing,   *)
(* because the queue was unreachable, whose JobError dispatch does not     *)
(* catch, or because the API stopped; or its job was cancelled, raised     *)
(* something other than an IndexError, or had no tries left.               *)
GivenUp ==
    \/ \E r \in Posts : /\ post[r].repo = row.id
                        /\ post[r].reply \in {"unreachable", "cut"}
                        /\ job[r].pc = "none"
    \/ \E j \in Posts : job[j].repo = row.id /\ job[j].pc = "dead"

(* A row that shows "indexing" is owed an outcome, unless it was given up, *)
(* and then it shows it for ever (dispatch, run_for_existing_repo).  This  *)
(* is less than the documents want: after a POST that found no queue,      *)
(* specs/005-rag-indexing/spec.md:118, FR-015, and :60 allow no such row.  *)
IndexingIsOwed == Pending(row) => Owed \/ GivenUp

(* A repository that shows "indexing" does not show it for ever, unless it *)
(* was given up (dispatch with its rollback, and the jobs of arq).         *)
IndexingSettles == Pending(row) ~> ~Pending(row) \/ GivenUp

(* A row that was given up and that nobody can change any more.            *)
Stuck == Pending(row) /\ ~Owed /\ GivenUp

(* The registry implements its promise, in which a row may get stuck.      *)
Lifecycle ==
    INSTANCE RepoLifecycle WITH
        Passes <- Chunk, index <- chunks,
        status <- IF Stuck THEN "stuck" ELSE Status(row)

ImplementsLifecycle == Lifecycle!Spec

-----------------------------------------------------------------------------
(* What the documents promise.                                             *)

(* _delete_if_pristine: "Drop the row only if it has no chunks".           *)
RollbackDropsNoIndex == \A r \in Posts : post[r].pc = "drop" => chunks = {}
=============================================================================
