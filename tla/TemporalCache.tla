---------------------------- MODULE TemporalCache ----------------------------
(***************************************************************************)
(* The clones that answer `git log -L` for reviews (review/git_temporal).  *)
(*                                                                         *)
(* Every lookup of a window (fetch_temporal_context) takes the lock of its *)
(* source, clones the repository or reuses the clone on disk, fetching it  *)
(* first when its directory is older than an hour, and reads the history   *)
(* after the lock has been released.  The age of a clone is the mtime of   *)
(* its directory, which every use sets to now; the five directories with   *)
(* the latest mtime survive the eviction that follows each new clone.      *)
(*                                                                         *)
(* Lookups take seconds and ages are counted in hours, so time passes only *)
(* while nobody looks up.                                                  *)
(***************************************************************************)
EXTENDS FiniteSets, Integers, Sequences, SequencesExt

CONSTANTS
    Sources,   \* the https sources
    Lookups,   \* the calls of fetch_temporal_context
    Nobody,    \* who holds a free lock
    Cap,       \* _MAX_CACHED_REPOS
    StaleAge,  \* _STALE_CLONE_S, in units of time
    MaxTime,   \* how long the cache is watched (a bound)
    Faults     \* a subset of CacheFaults

CacheFaults ==
    { "clone",    \* git clone fails or exceeds its timeout
      "fetch",    \* git fetch fails or exceeds its timeout
      "log",      \* git log fails or exceeds its timeout
      "crash" }   \* the worker stops, or its job is cancelled; /var/tmp stays

ASSUME SourcesAssumption == Sources # {}
ASSUME NobodyAssumption == Nobody \notin Lookups
ASSUME CapAssumption == Cap \in Nat \ {0}
ASSUME TimesAssumption == StaleAge \in Nat /\ MaxTime \in Nat
ASSUME CacheFaultsAssumption == Faults \subseteq CacheFaults

VARIABLES
    now,
    recent,  \* the directories on disk, the one touched longest ago first
    dir,     \* what the directory of a source holds
    lock,    \* _clone_locks: who holds the lock of a source
    call     \* the lookups

vars == <<now, recent, dir, lock, call>>

Time == 0..MaxTime
CallPc == {"idle", "wait", "clone", "fetch", "log", "done", "cut", "raised"}
Answers == {"none", "nothing", "history"}

NoDir == [whole |-> FALSE, touched |-> 0]

Present(s) == s \in Range(recent)

(* rmtree, of a directory that may be there.                               *)
Without(order, s) == RemoveFirst(order, s)

(* Mutant: a touched directory keeps its old place too.                    *)
TouchedTwice(order, s) == Append(order, s)

(* os.utime, or the mtime that a new directory starts with.                *)
Touched(order, s) == Append(Without(order, s), s)

-----------------------------------------------------------------------------
(* _clone_or_reuse, under the lock of the source.                          *)

Goto(c, pc) == call' = [call EXCEPT ![c].pc = pc]

Answer(c, answer) ==
    call' = [call EXCEPT ![c].pc = "done", ![c].answer = answer]

Release(s) == lock' = [lock EXCEPT ![s] = Nobody]

Lookup(c) ==
    /\ call[c].pc = "idle"
    /\ \E s \in Sources :
         call' = [call EXCEPT ![c].pc = "wait", ![c].source = s]
    /\ UNCHANGED <<now, recent, dir, lock>>

(* git clone makes the directory before it fills it.                       *)
CloneBegins(c) ==
    LET s == call[c].source IN
    /\ call[c].pc = "wait" /\ lock[s] = Nobody /\ ~Present(s)
    /\ lock' = [lock EXCEPT ![s] = c]
    /\ recent' = Append(recent, s)
    /\ dir' = [dir EXCEPT ![s] = [whole |-> FALSE, touched |-> now]]
    /\ Goto(c, "clone")
    /\ UNCHANGED now

(* Mutant: nothing is evicted.                                             *)
CloneEndsKeepingAll(c) ==
    LET s == call[c].source IN
    /\ call[c].pc = "clone" /\ Present(s)
    /\ recent' = Touched(recent, s)
    /\ dir' = [dir EXCEPT ![s] = [whole |-> TRUE, touched |-> now]]
    /\ Release(s)
    /\ Goto(c, "log")
    /\ UNCHANGED now

(* The clone is complete; _evict_if_needed then drops the directories with *)
(* the oldest mtime, be they in use, half made or the new one itself.      *)
CloneEnds(c) ==
    LET s == call[c].source
        excess == IF Len(recent) > Cap THEN Len(recent) - Cap ELSE 0
        kept == SubSeq(recent, excess + 1, Len(recent))
        order == IF s \in Range(kept) THEN Touched(kept, s) ELSE kept
        new == [whole |-> TRUE, touched |-> now]
    IN
    /\ call[c].pc = "clone" /\ Present(s)
    /\ recent' = order
    /\ dir' = [d \in Sources |-> CASE d \notin Range(order) -> NoDir
                                   [] d \in Range(order) /\ d = s -> new
                                   [] OTHER -> dir[d]]
    /\ Release(s)
    /\ Goto(c, "log")
    /\ UNCHANGED now

(* Mutant: the directory of a failed clone is not removed.                 *)
CloneFailsKeepingIt(c) ==
    LET s == call[c].source IN
    /\ call[c].pc = "clone"
    /\ "clone" \in Faults \/ ~Present(s)
    /\ Release(s)
    /\ Answer(c, "nothing")
    /\ UNCHANGED <<now, recent, dir>>

(* Mutant: the lock is not released on the way out.                        *)
CloneFailsLocked(c) ==
    LET s == call[c].source IN
    /\ call[c].pc = "clone"
    /\ "clone" \in Faults \/ ~Present(s)
    /\ recent' = Without(recent, s)
    /\ dir' = [dir EXCEPT ![s] = NoDir]
    /\ Answer(c, "nothing")
    /\ UNCHANGED <<now, lock>>

(* git fails, is killed by the timeout, or has lost its directory to an    *)
(* eviction: what is left of it is removed.                                *)
CloneFails(c) ==
    LET s == call[c].source IN
    /\ call[c].pc = "clone"
    /\ "clone" \in Faults \/ ~Present(s)
    /\ recent' = Without(recent, s)
    /\ dir' = [dir EXCEPT ![s] = NoDir]
    /\ Release(s)
    /\ Answer(c, "nothing")
    /\ UNCHANGED now

(* The git of another lookup fails, and removes its directory, after       *)
(* _evict_if_needed has listed it and before p.stat() asks for its mtime:  *)
(* the FileNotFoundError ends the lookup, and nothing is evicted.          *)
EvictionRaises(c) ==
    LET s == call[c].source IN
    /\ "clone" \in Faults
    /\ call[c].pc = "clone" /\ Present(s) /\ Len(recent) > Cap
    /\ \E d \in Lookups :
         LET t == call[d].source IN
         /\ call[d].pc = "clone" /\ t # s /\ Present(t)
         /\ recent' = Without(recent, t)
         /\ dir' = [dir EXCEPT ![s].whole = TRUE, ![t] = NoDir]
    /\ Release(s)
    /\ Goto(c, "raised")
    /\ UNCHANGED now

(* A directory of at most an hour is used as it is, and touched.           *)
Reuse(c) ==
    LET s == call[c].source IN
    /\ call[c].pc = "wait" /\ lock[s] = Nobody /\ Present(s)
    /\ now - dir[s].touched <= StaleAge
    /\ recent' = Touched(recent, s)
    /\ dir' = [dir EXCEPT ![s].touched = now]
    /\ Goto(c, "log")
    /\ UNCHANGED <<now, lock>>

FetchBegins(c) ==
    LET s == call[c].source IN
    /\ call[c].pc = "wait" /\ lock[s] = Nobody /\ Present(s)
    /\ now - dir[s].touched > StaleAge
    /\ lock' = [lock EXCEPT ![s] = c]
    /\ Goto(c, "fetch")
    /\ UNCHANGED <<now, recent, dir>>

(* A fetch that fails, on a broken or vanished directory too, only costs   *)
(* freshness; the directory is touched all the same.                       *)
FetchEnds(c) ==
    LET s == call[c].source IN
    /\ call[c].pc = "fetch"
    /\ \E ok \in BOOLEAN :
         /\ ok => Present(s) /\ dir[s].whole
         /\ ~ok => "fetch" \in Faults \/ ~Present(s) \/ ~dir[s].whole
         /\ IF Present(s)
            THEN /\ recent' = Touched(recent, s)
                 /\ dir' = [dir EXCEPT ![s].touched = now]
            ELSE UNCHANGED <<recent, dir>>
    /\ Release(s)
    /\ Goto(c, "log")
    /\ UNCHANGED now

(* git log, without the lock: nothing is the answer to every failure.      *)
Log(c) ==
    LET s == call[c].source IN
    /\ call[c].pc = "log"
    /\ \/ /\ Present(s) /\ dir[s].whole
          /\ call' = [call EXCEPT ![c].pc = "done", ![c].answer = "history"]
       \/ /\ "log" \in Faults \/ ~Present(s) \/ ~dir[s].whole
          /\ Answer(c, "nothing")
    /\ UNCHANGED <<now, recent, dir, lock>>

-----------------------------------------------------------------------------
Ended == {"done", "cut", "raised"}

Busy == \E c \in Lookups : call[c].pc \notin Ended \cup {"idle"}

Tick ==
    /\ ~Busy /\ now < MaxTime
    /\ now' = now + 1
    /\ UNCHANGED <<recent, dir, lock, call>>

(* The locks live in the worker and go with it; what git had cloned so far *)
(* stays on disk, since the handler of a failed clone does not run.        *)
WorkerStops ==
    /\ "crash" \in Faults /\ Busy
    /\ lock' = [s \in Sources |-> Nobody]
    /\ call' = [c \in Lookups |->
                 CASE call[c].pc = "clone" -> [call[c] EXCEPT !.pc = "cut"]
                   [] call[c].pc \in {"wait", "fetch", "log"} -> [call[c] EXCEPT !.pc = "done"]
                   [] OTHER -> call[c]]
    /\ UNCHANGED <<now, recent, dir>>

Init ==
    /\ now = 0
    /\ recent = <<>>
    /\ dir = [s \in Sources |-> NoDir]
    /\ lock = [s \in Sources |-> Nobody]
    /\ call = [c \in Lookups |-> [pc |-> "idle", source |-> CHOOSE s \in Sources : TRUE,
                                  answer |-> "none"]]

Step(c) ==
    \/ CloneBegins(c) \/ CloneEnds(c) \/ CloneFails(c) \/ EvictionRaises(c)
    \/ Reuse(c) \/ FetchBegins(c) \/ FetchEnds(c) \/ Log(c)

Next ==
    \/ \E c \in Lookups : Lookup(c) \/ Step(c)
    \/ Tick \/ WorkerStops

Spec == Init /\ [][Next]_vars

(* A subprocess ends or is killed by its timeout, and the event loop       *)
(* resumes who may go on; a lock is asked for finitely often.              *)
FairSpec == Spec /\ \A c \in Lookups : WF_vars(Step(c))

-----------------------------------------------------------------------------
DirType == [whole : BOOLEAN, touched : Time]
CallType == [pc : CallPc, source : Sources, answer : Answers]

(* Every variable has its type, and no directory is there twice.           *)
TypeOK ==
    /\ now \in Time
    /\ recent \in Seq(Sources) /\ IsInjective(recent)
    /\ dir \in [Sources -> DirType]
    /\ lock \in [Sources -> Lookups \cup {Nobody}]
    /\ call \in [Lookups -> CallType]

(* The lookups whose new directory no eviction has made room for.          *)
Making == {c \in Lookups : call[c].pc \in {"clone", "cut", "raised"}}

(* What is on disk beyond the cap of five is never more than the clones    *)
(* being made, cut off by the end of a worker or followed by an eviction   *)
(* that raised, although each clone counts and evicts on its own, may lose *)
(* its directory to another or fail (_evict_if_needed, called at           *)
(* git_temporal.py:196 when the clone is already there).  This is what the *)
(* code keeps to, and weaker than what                                     *)
(* specs/008-git-temporal-analysis/spec.md:92 asks for: at most five at    *)
(* any time, with the eviction before a new clone is materialised.         *)
CacheBounded == Len(recent) <= Cap + Cardinality(Making)

(* A directory without a complete clone is being cloned right now, by the  *)
(* holder of its lock, or was left by a lookup cut off with its worker:    *)
(* no failure or eviction leaves one that later lookups would reuse        *)
(* (_clone_or_reuse).                                                      *)
HalfClonesAreBeingMade ==
    \A s \in Range(recent) :
        ~dir[s].whole => \E c \in Lookups :
                            /\ call[c].source = s
                            /\ \/ call[c].pc = "clone" /\ lock[s] = c
                               \/ call[c].pc = "cut"

(* Every lookup ends, whoever fails before it under the same lock.         *)
LookupsEnd == \A c \in Lookups : call[c].pc = "wait" ~> call[c].pc \in Ended
=============================================================================
