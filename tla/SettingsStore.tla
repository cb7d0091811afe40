---------------------------- MODULE SettingsStore ----------------------------
(***************************************************************************)
(* Settings that an operator saves at run time (settings_store/).          *)
(*                                                                         *)
(* Rows of `app_settings` win over the environment a process was deployed  *)
(* with.  Secrets are encrypted with a master key that the first process   *)
(* to start generates into a key file on a volume shared by the API and    *)
(* the worker (master_key.py).  POST /api/settings writes one row per      *)
(* field, reads all rows back and copies them over the environment of ITS  *)
(* process (runtime.py); the API does the same once when it starts.        *)
(*                                                                         *)
(* A value is identified with the POST that stored it, None stands for "no *)
(* row" and, in an environment, for the value the process was deployed     *)
(* with; a master key is identified with the process that generated it.    *)
(*                                                                         *)
(* The volume of the key file works: a key that cannot be made there       *)
(* (master_key.py:29-31, 47-51) is not modelled.                           *)
(***************************************************************************)
EXTENDS Naturals

CONSTANTS
    Posts,        \* the POST /api/settings requests
    Fields,       \* the whitelisted settings
    Secrets,      \* those that are encrypted
    None,         \* no value
    Overlapping,  \* may requests overlap?
    Faults,       \* a subset of SettingsFaults
    MaxBoots      \* how often a process starts (a bound)

SettingsFaults ==
    { "api_crash", "worker_crash",  \* a process stops and is restarted
      "db" }                        \* a transaction of app_settings fails

ASSUME SecretsAssumption == Secrets \subseteq Fields
ASSUME NoneAssumption == None \notin Posts
ASSUME OverlapAssumption == Overlapping \in BOOLEAN
ASSUME SettingsFaultsAssumption == Faults \subseteq SettingsFaults
ASSUME MaxBootsAssumption == MaxBoots \in Nat \ {0}

VARIABLES
    keyfile,  \* the key file: "absent", "empty", or the key in it
    store,    \* the rows of app_settings
    proc,     \* the API and the worker process
    post      \* the handlers of POST /api/settings

vars == <<keyfile, store, proc, post>>

Procs == {"api", "worker"}
Key == Procs

Value == Posts \cup {None}
Cell == [value : Posts, key : Key \cup {"plain"}]
NoCell == [value |-> None, key |-> "plain"]

(* "behind" is "up" after an error that was logged or answered 500: the    *)
(* environment has not been brought in step with the rows.                 *)
ProcPc == {"down", "resolve", "make", "write", "reread", "load", "apply",
           "up", "behind"}
PostPc == {"idle", "write", "load", "apply", "done"}
PostReply == {"none", "saved", "locked", "error", "lost"}

NoValues == [f \in Fields |-> None]

Active(p) == post[p].pc \notin {"idle", "done"}
MayStart == Overlapping \/ \A p \in Posts : ~Active(p)

-----------------------------------------------------------------------------
(* The key file, resolved by whichever process first needs its settings    *)
(* (Settings._resolve_master_key, resolve_from_file).                      *)

(* Settings are cached, so the key is what the file held when they were    *)
(* last built; "unset" is an empty cache.                                  *)
FileKey == IF keyfile \in Key THEN keyfile ELSE "locked"

Master(s) == IF proc[s].master = "unset" THEN FileKey ELSE proc[s].master

(* Where a process goes once it has its settings: only the API applies the *)
(* stored ones (_lifespan); the worker has no such hook.                   *)
Booted(s) == IF s = "api" THEN "load" ELSE "up"

Holds(s, key) == proc' = [proc EXCEPT ![s].pc = Booted(s), ![s].master = key]

Start(s) ==
    /\ proc[s].pc = "down" /\ proc[s].boots < MaxBoots
    /\ proc' = [proc EXCEPT ![s] = [pc |-> "resolve", master |-> "unset",
                   env |-> NoValues, view |-> NoValues, boots |-> @.boots + 1]]
    /\ UNCHANGED <<keyfile, store, post>>

(* The file is read; an absent or an empty one has to be made.             *)
KeyRead(s) ==
    /\ proc[s].pc = "resolve"
    /\ IF keyfile \in Key
       THEN Holds(s, keyfile)
       ELSE proc' = [proc EXCEPT ![s].pc = "make"]
    /\ UNCHANGED <<keyfile, store, post>>

(* Mutant: the file is opened without O_EXCL.                              *)
KeyMakeOverwrites(s) ==
    /\ proc[s].pc = "make"
    /\ keyfile' = "empty"
    /\ proc' = [proc EXCEPT ![s].pc = "write"]
    /\ UNCHANGED <<store, post>>

(* O_CREAT | O_EXCL: one process creates it, the others read it again.     *)
KeyMake(s) ==
    /\ proc[s].pc = "make"
    /\ IF keyfile = "absent"
       THEN keyfile' = "empty" /\ proc' = [proc EXCEPT ![s].pc = "write"]
       ELSE UNCHANGED keyfile /\ proc' = [proc EXCEPT ![s].pc = "reread"]
    /\ UNCHANGED <<store, post>>

KeyWrite(s) ==
    /\ proc[s].pc = "write"
    /\ keyfile' = s
    /\ Holds(s, s)
    /\ UNCHANGED <<store, post>>

(* Mutant: the empty string is taken for a key.                            *)
KeyRereadUnchecked(s) ==
    /\ proc[s].pc = "reread"
    /\ Holds(s, keyfile)
    /\ UNCHANGED <<keyfile, store, post>>

(* The file of another process, which may not have written it yet.         *)
KeyReread(s) ==
    /\ proc[s].pc = "reread"
    /\ Holds(s, FileKey)
    /\ UNCHANGED <<keyfile, store, post>>

-----------------------------------------------------------------------------
(* Applying the rows: get_effective_settings reads them, and the loop that *)
(* fills os.environ runs after the session has been closed.                *)

(* A row whose key is not the one at hand decrypts to nothing.             *)
Effective(key) ==
    [f \in Fields |-> IF store[f].key \in {"plain", key} THEN store[f].value
                                                         ELSE None]

Applied(view) == [proc EXCEPT !["api"].env = view, !["api"].master = "unset",
                              !["api"].pc = "up"]

BootLoad ==
    /\ proc["api"].pc = "load"
    /\ proc' = [proc EXCEPT !["api"].pc = "apply",
                            !["api"].view = Effective(Master("api"))]
    /\ UNCHANGED <<keyfile, store, post>>

(* An error while starting is logged, and the API runs on its environment. *)
BootLoadFails ==
    /\ "db" \in Faults
    /\ proc["api"].pc = "load"
    /\ proc' = [proc EXCEPT !["api"].pc = "behind"]
    /\ UNCHANGED <<keyfile, store, post>>

BootApply ==
    /\ proc["api"].pc = "apply"
    /\ proc' = Applied(proc["api"].view)
    /\ UNCHANGED <<keyfile, store, post>>
-----------------------------------------------------------------------------
(* POST /api/settings (post_settings).                                     *)

Goto(p, pc) == post' = [post EXCEPT ![p].pc = pc]

Answer(p, reply) == post' = [post EXCEPT ![p].pc = "done", ![p].reply = reply]

(* Validated as a whole before the first write: secrets need a usable key. *)
PostCheck(p) ==
    /\ post[p].pc = "idle" /\ MayStart
    /\ proc["api"].pc \in {"up", "behind"}
    /\ \E fields \in SUBSET Fields \ {{}} : \E cleared \in SUBSET fields :
         IF (fields \ cleared) \cap Secrets # {}
         THEN /\ proc' = [proc EXCEPT !["api"].master = Master("api")]
              /\ IF Master("api") = "locked"
                 THEN Answer(p, "locked")
                 ELSE post' = [post EXCEPT ![p].pc = "write", ![p].todo = fields,
                                           ![p].cleared = cleared]
         ELSE /\ UNCHANGED proc
              /\ post' = [post EXCEPT ![p].pc = "write", ![p].todo = fields,
                                      ![p].cleared = cleared]
    /\ UNCHANGED <<keyfile, store>>

(* One transaction per field, in the order the client sent them.           *)
PostWrite(p) ==
    /\ post[p].pc = "write"
    /\ \E f \in post[p].todo :
         /\ store' = [store EXCEPT ![f] =
              IF f \in post[p].cleared THEN NoCell
              ELSE [value |-> p, key |-> IF f \in Secrets THEN Master("api")
                                                          ELSE "plain"]]
         /\ post' = [post EXCEPT ![p].todo = @ \ {f},
                        ![p].pc = IF post[p].todo = {f} THEN "load" ELSE @]
    /\ UNCHANGED <<keyfile, proc>>

PostLoad(p) ==
    /\ post[p].pc = "load"
    /\ post' = [post EXCEPT ![p].pc = "apply",
                            ![p].view = Effective(Master("api"))]
    /\ UNCHANGED <<keyfile, store, proc>>

(* Mutant: a cleared setting does not fall back to the deployed value.     *)
PostApplyKeepsCleared(p) ==
    /\ post[p].pc = "apply"
    /\ proc' = Applied([f \in Fields |-> IF post[p].view[f] = None
                                         THEN proc["api"].env[f]
                                         ELSE post[p].view[f]])
    /\ Answer(p, "saved")
    /\ UNCHANGED <<keyfile, store>>

(* The environment and the caches change in one go; the answer follows.    *)
PostApply(p) ==
    /\ post[p].pc = "apply"
    /\ proc' = Applied(post[p].view)
    /\ Answer(p, "saved")
    /\ UNCHANGED <<keyfile, store>>

(* A transaction fails: what was written stays, nothing is applied.        *)
PostFails(p) ==
    /\ "db" \in Faults
    /\ post[p].pc \in {"write", "load"}
    /\ Answer(p, "error")
    /\ proc' = [proc EXCEPT !["api"].pc = "behind"]
    /\ UNCHANGED <<keyfile, store>>

-----------------------------------------------------------------------------
Stop(s) == proc' = [proc EXCEPT ![s].pc = "down"]

ApiCrash ==
    /\ "api_crash" \in Faults
    /\ proc["api"].pc # "down"
    /\ Stop("api")
    /\ post' = [p \in Posts |-> IF Active(p)
                                THEN [post[p] EXCEPT !.pc = "done", !.reply = "lost"]
                                ELSE post[p]]
    /\ UNCHANGED <<keyfile, store>>

WorkerCrash ==
    /\ "worker_crash" \in Faults
    /\ proc["worker"].pc # "down"
    /\ Stop("worker")
    /\ UNCHANGED <<keyfile, store, post>>

Init ==
    /\ keyfile = "absent"
    /\ store = [f \in Fields |-> NoCell]
    /\ proc = [s \in Procs |-> [pc |-> "down", master |-> "unset",
                  env |-> NoValues, view |-> NoValues, boots |-> 0]]
    /\ post = [p \in Posts |-> [pc |-> "idle", reply |-> "none", todo |-> {},
                                cleared |-> {}, view |-> NoValues]]

BootStep(s) == Start(s) \/ KeyRead(s) \/ KeyMake(s) \/ KeyWrite(s) \/ KeyReread(s)

PostStep(p) == PostWrite(p) \/ PostLoad(p) \/ PostApply(p)

Next ==
    \/ \E s \in Procs : BootStep(s)
    \/ BootLoad \/ BootLoadFails \/ BootApply
    \/ \E p \in Posts : PostCheck(p) \/ PostStep(p) \/ PostFails(p)
    \/ ApiCrash \/ WorkerCrash

Spec == Init /\ [][Next]_vars

(* The processes are started, and an event loop resumes its handlers.      *)
FairSpec ==
    /\ Spec
    /\ \A s \in Procs : WF_vars(BootStep(s))
    /\ WF_vars(BootLoad \/ BootApply)
    /\ \A p \in Posts : WF_vars(PostStep(p))

-----------------------------------------------------------------------------
(* Every variable has its type.                                            *)
TypeOK ==
    /\ keyfile \in {"absent", "empty"} \cup Key
    /\ store \in [Fields -> Cell \cup {NoCell}]
    /\ proc \in [Procs -> [pc : ProcPc, master : Key \cup {"unset", "locked"},
                           env : [Fields -> Value], view : [Fields -> Value],
                           boots : 0..MaxBoots]]
    /\ post \in [Posts -> [pc : PostPc, reply : PostReply, todo : SUBSET Fields,
                           cleared : SUBSET Fields, view : [Fields -> Value]]]

(* Both processes generate keys when they start together, and either may   *)
(* die half-way: what was encrypted stays readable with the key in the     *)
(* file, which is the one any later process will hold (resolve_from_file). *)
SecretsStayReadable ==
    \A f \in Fields : store[f].key \in {"plain", keyfile}

(* The API runs on the rows once nobody is saving: a stored value wins, a  *)
(* cleared one gives way to the deployed one, also after a restart in the  *)
(* middle of a POST (apply_store_overrides_to_env).                        *)
ApiRunsOnStoredSettings ==
    proc["api"].pc = "up" /\ (\A p \in Posts : ~Active(p))
        => \A f \in Fields : proc["api"].env[f] = store[f].value
=============================================================================
