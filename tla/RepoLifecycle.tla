--------------------------- MODULE RepoLifecycle ---------------------------
(***************************************************************************)
(* What the registry promises about one repository, whatever requests,     *)
(* queues and transactions it takes to get there: a status that moves      *)
(* absent -> indexing -> ready | failed, and an index that is replaced as  *)
(* a whole.  It is the state diagram of the wire statuses of _repo_status  *)
(* (indexing/service.py) and of the replacement of replace_chunks          *)
(* (indexing/store.py), with one status that the documents do not have: a  *)
(* repository may be given up, to show "indexing" for ever.                *)
(***************************************************************************)
CONSTANT Passes   \* the chunk sets that passes of jobs may store

VARIABLES
    status,   \* "absent", "indexing", "ready", "failed" or "stuck"
    index     \* the stored chunk sets: one at most

vars == <<status, index>>

Init == status = "absent" /\ index = {}

(* A new repository, or a new pass over a settled one.                     *)
Register ==
    /\ status \in {"absent", "ready", "failed"}
    /\ status' = "indexing"
    /\ UNCHANGED index

(* The old index is replaced by the new one, or by nothing.                *)
Publish ==
    /\ status = "indexing"
    /\ status' = "ready"
    /\ index' \in {{}} \cup {{p} : p \in Passes}

(* A failed pass leaves the stored index as it was.                        *)
Fail ==
    /\ status = "indexing"
    /\ status' = "failed"
    /\ UNCHANGED index

(* The queue did not take the job.                                         *)
Withdraw ==
    /\ status = "indexing"
    /\ status' = "absent"
    /\ index' = {}

(* Nobody is left to settle it, and nothing else can be done with it.      *)
Abandon ==
    /\ status = "indexing"
    /\ status' = "stuck"
    /\ UNCHANGED index

(* The operator deletes a settled repository.                              *)
Drop ==
    /\ status \in {"ready", "failed"}
    /\ status' = "absent"
    /\ index' = {}

Settle == Publish \/ Fail \/ Withdraw

Next == Register \/ Settle \/ Abandon \/ Drop

Spec == Init /\ [][Next]_vars /\ WF_vars(Settle)
=============================================================================
