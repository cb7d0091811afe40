------------------------ MODULE SettingsStore_proofs ------------------------
(***************************************************************************)
(* Proofs about SettingsStore: the stored secrets stay readable, and the   *)
(* API runs on the stored settings when its operator waits for each        *)
(* answer.                                                                 *)
(*                                                                         *)
(* Both rest on KeyInv, which says of the key file that it is written once *)
(* and that a process which holds a key holds the one in it.               *)
(***************************************************************************)
EXTENDS SettingsStore, TLAPS

(* The fields of p that are still to be encrypted.                         *)
ToEncrypt(p) == (post[p].todo \ post[p].cleared) \cap Secrets

(* The file is empty while its creator, the only one, has yet to write.    *)
OneCreator ==
    /\ \A s \in Procs : proc[s].pc = "write" => keyfile = "empty"
    /\ \A s, t \in Procs : proc[s].pc = "write" /\ proc[t].pc = "write" => s = t

HeldIsInFile == \A s \in Procs : proc[s].master \in Key => proc[s].master = keyfile

(* Handlers run in a started API.                                          *)
ActiveNeedsApi ==
    \A p \in Posts : Active(p) => proc["api"].pc \in {"up", "behind"}

(* Where a secret is stored or about to be, the API has the key.           *)
SecretsHaveKey ==
    /\ \A f \in Fields : store[f].key \in Key =>
         store[f].key = keyfile /\ Master("api") = keyfile
    /\ \A p \in Posts : post[p].pc = "write" /\ ToEncrypt(p) # {} =>
         keyfile \in Key /\ Master("api") = keyfile

KeyInv == TypeOK /\ OneCreator /\ HeldIsInFile /\ ActiveNeedsApi /\ SecretsHaveKey

(* What was read and is about to be applied is what is stored.             *)
ReadIsStored ==
    /\ proc["api"].pc = "apply" =>
         \A f \in Fields : proc["api"].view[f] = store[f].value
    /\ \A p \in Posts : post[p].pc = "apply" =>
         \A f \in Fields : post[p].view[f] = store[f].value

OneActive == \A p, q \in Posts : Active(p) /\ Active(q) => p = q

StepInv == KeyInv /\ ReadIsStored /\ OneActive /\ ApiRunsOnStoredSettings

-----------------------------------------------------------------------------
(* Keys are not the words that stand for the absence of one.               *)
LEMMA KeysAreKeys == /\ "absent" \notin Key /\ "empty" \notin Key
                     /\ "plain" \notin Key /\ "locked" \notin Key /\ "unset" \notin Key
BY DEF Key, Procs

(* The initial states satisfy KeyInv.                                      *)
LEMMA KeyInitial == Init => KeyInv
<1> SUFFICES ASSUME Init PROVE KeyInv OBVIOUS
<1> USE DEF Init, NoValues, Procs
<1>1. TypeOK
  BY MaxBootsAssumption DEF TypeOK, Value, Key, ProcPc, PostPc, PostReply
<1>2. OneCreator /\ HeldIsInFile /\ ActiveNeedsApi
  BY DEF OneCreator, HeldIsInFile, ActiveNeedsApi, Key, Active
<1>3. SecretsHaveKey BY DEF SecretsHaveKey, NoCell, Key
<1> QED BY <1>1, <1>2, <1>3 DEF KeyInv

(* What a key at hand decrypts.                                            *)
LEMMA EffectiveType ==
    ASSUME TypeOK, NEW key PROVE Effective(key) \in [Fields -> Value]
BY DEF TypeOK, Effective, Value, Cell, NoCell

(* The file gets a key once, and keeps it.                                 *)
LEMMA KeyIsFinal ==
    ASSUME KeyInv, [Next]_vars, keyfile \in Key
    PROVE  keyfile' = keyfile
<1> USE KeysAreKeys DEF KeyInv
<1>1. \A s \in Procs : proc[s].pc # "write" BY DEF OneCreator
<1>2. ASSUME NEW s \in Procs, BootStep(s) PROVE keyfile' = keyfile
  BY <1>1, <1>2 DEF BootStep, Start, KeyRead, KeyMake, KeyWrite, KeyReread
<1>3. ASSUME BootLoad \/ BootLoadFails \/ BootApply PROVE keyfile' = keyfile
  BY <1>3 DEF BootLoad, BootLoadFails, BootApply
<1>4. ASSUME NEW p \in Posts, PostCheck(p) \/ PostStep(p) \/ PostFails(p)
      PROVE keyfile' = keyfile
  BY <1>4 DEF PostCheck, PostStep, PostWrite, PostLoad, PostApply, PostFails
<1>5. ASSUME ApiCrash \/ WorkerCrash PROVE keyfile' = keyfile
  BY <1>5 DEF ApiCrash, WorkerCrash
<1> QED BY <1>2, <1>3, <1>4, <1>5 DEF Next, vars

-----------------------------------------------------------------------------
(* What an update of one process, or of one handler, leaves behind.        *)

ProcType == [pc : ProcPc, master : Key \cup {"unset", "locked"},
             env : [Fields -> Value], view : [Fields -> Value], boots : 0..MaxBoots]

PostType == [pc : PostPc, reply : PostReply, todo : SUBSET Fields,
             cleared : SUBSET Fields, view : [Fields -> Value]]

(* The other processes stay as they are.                                   *)
OnlyProc(s) ==
    /\ proc' \in [Procs -> ProcType]
    /\ \A q \in Procs : q # s => proc'[q] = proc[q]

(* The other handlers stay as they are.                                    *)
OnlyPost(p) ==
    /\ post' \in [Posts -> PostType]
    /\ \A q \in Posts : q # p => post'[q] = post[q]

(* The types of the records.                                               *)
LEMMA RecordTypes ==
    ASSUME TypeOK
    PROVE  proc \in [Procs -> ProcType] /\ post \in [Posts -> PostType]
BY DEF TypeOK, ProcType, PostType

(* A process gets a new record.                                            *)
LEMMA Updated ==
    ASSUME TypeOK, NEW s \in Procs, NEW r \in ProcType, proc' = [proc EXCEPT ![s] = r]
    PROVE  OnlyProc(s) /\ proc'[s] = r
BY RecordTypes DEF OnlyProc

(* A handler gets a new record.                                            *)
LEMMA PostUpdated ==
    ASSUME TypeOK, NEW p \in Posts, NEW r \in PostType, post' = [post EXCEPT ![p] = r]
    PROVE  OnlyPost(p) /\ post'[p] = r
BY RecordTypes DEF OnlyPost

(* A process moves.                                                        *)
LEMMA Moved ==
    ASSUME TypeOK, NEW s \in Procs, NEW pc \in ProcPc,
           proc' = [proc EXCEPT ![s].pc = pc]
    PROVE  /\ OnlyProc(s)
           /\ proc'[s].pc = pc /\ proc'[s].master = proc[s].master
           /\ proc'[s].env = proc[s].env /\ proc'[s].view = proc[s].view
<1> DEFINE r == [proc[s] EXCEPT !.pc = pc]
<1>1. /\ r \in ProcType
      /\ r.pc = pc /\ r.master = proc[s].master
      /\ r.env = proc[s].env /\ r.view = proc[s].view
  BY RecordTypes DEF ProcType
<1>2. proc' = [proc EXCEPT ![s] = r] OBVIOUS
<1> HIDE DEF r
<1>3. OnlyProc(s) /\ proc'[s] = r BY <1>1, <1>2, Updated
<1>4. QED BY <1>1, <1>3

(* A process has its settings.                                             *)
LEMMA Held ==
    ASSUME TypeOK, NEW s \in Procs, NEW key \in Key \cup {"unset", "locked"},
           Holds(s, key)
    PROVE  /\ OnlyProc(s)
           /\ proc'[s].pc \in {"load", "up"} /\ proc'[s].master = key
           /\ s = "api" => proc'[s].pc = "load"
<1> DEFINE r == [proc[s] EXCEPT !.pc = Booted(s), !.master = key]
<1>1. Booted(s) \in ProcPc BY DEF Booted, ProcPc
<1>2. r \in ProcType /\ r.pc = Booted(s) /\ r.master = key
  BY <1>1, RecordTypes DEF ProcType
<1>3. proc' = [proc EXCEPT ![s] = r] BY DEF Holds
<1> HIDE DEF r
<1>4. OnlyProc(s) /\ proc'[s] = r BY <1>2, <1>3, Updated
<1>5. QED BY <1>2, <1>4 DEF Booted

(* Settings are applied.                                                   *)
LEMMA WasApplied ==
    ASSUME TypeOK, NEW view \in [Fields -> Value], proc' = Applied(view)
    PROVE  /\ OnlyProc("api")
           /\ proc'["api"].pc = "up" /\ proc'["api"].master = "unset"
           /\ proc'["api"].env = view
<1> DEFINE r == [proc["api"] EXCEPT !.env = view, !.master = "unset", !.pc = "up"]
<1>1. "up" \in ProcPc /\ "api" \in Procs BY DEF ProcPc, Procs
<1>2. r \in ProcType /\ r.pc = "up" /\ r.master = "unset" /\ r.env = view
  BY <1>1, RecordTypes DEF ProcType
<1>3. proc' = [proc EXCEPT !["api"] = r] BY DEF Applied
<1> HIDE DEF r
<1>4. OnlyProc("api") /\ proc'["api"] = r BY <1>1, <1>2, <1>3, Updated
<1>5. QED BY <1>2, <1>4

(* A step that leaves the key file and the rows alone preserves KeyInv when *)
(* the process that moves holds what it held or what is in the file.       *)
LEMMA ProcStep ==
    ASSUME KeyInv, NEW s \in Procs, OnlyProc(s),
           UNCHANGED <<keyfile, store>>, post' \in [Posts -> PostType],
           proc'[s].pc = "write" => proc[s].pc = "write",
           proc'[s].master \in {proc[s].master, "unset", FileKey},
           \A p \in Posts : Active(p)' => proc'["api"].pc \in {"up", "behind"},
           \A p \in Posts : post'[p].pc = "write" /\ ToEncrypt(p)' # {} =>
               \/ post[p].pc = "write" /\ ToEncrypt(p) # {}
               \/ Master("api") \in Key
    PROVE  KeyInv'
<1> USE KeysAreKeys DEF KeyInv
<1>1. TypeOK' BY DEF TypeOK, OnlyProc, ProcType, PostType
<1>2. OneCreator' BY DEF OneCreator, OnlyProc
<1>3. HeldIsInFile' BY DEF HeldIsInFile, OnlyProc, FileKey
<1>4. ActiveNeedsApi' BY DEF ActiveNeedsApi
<1>5. "api" \in Procs BY DEF Procs
<1>6. keyfile \in Key /\ Master("api") = keyfile => Master("api")' = keyfile'
  BY <1>5 DEF OnlyProc, Master, FileKey
<1>7. Master("api") \in Key => keyfile \in Key /\ Master("api") = keyfile
  BY <1>5 DEF HeldIsInFile, Master, FileKey
<1>8. SecretsHaveKey'
  <2>1. \A f \in Fields : store'[f].key \in Key =>
          store'[f].key = keyfile' /\ Master("api")' = keyfile'
    BY <1>6 DEF SecretsHaveKey
  <2>2. \A p \in Posts : post'[p].pc = "write" /\ ToEncrypt(p)' # {} =>
          keyfile' \in Key /\ Master("api")' = keyfile'
    BY <1>6, <1>7 DEF SecretsHaveKey
  <2>3. QED BY <2>1, <2>2 DEF SecretsHaveKey
<1> QED BY <1>1, <1>2, <1>3, <1>4, <1>8

-----------------------------------------------------------------------------
(* KeyInv is inductive: the steps that start a process.                    *)
LEMMA KeyInvBoot ==
    ASSUME KeyInv, NEW s \in Procs, BootStep(s)
    PROVE  KeyInv'
<1> USE KeysAreKeys
<1>0. TypeOK /\ proc[s] \in ProcType /\ post \in [Posts -> PostType]
  BY RecordTypes DEF KeyInv
<1>1. "api" \in Procs BY DEF Procs
<1>2. \A p \in Posts : Active(p) => proc["api"].pc \in {"up", "behind"}
  BY DEF KeyInv, ActiveNeedsApi
<1>3. CASE Start(s)
  <2> DEFINE r == [pc |-> "resolve", master |-> "unset", env |-> NoValues,
                   view |-> NoValues, boots |-> proc[s].boots + 1]
  <2>1. r \in ProcType
    BY <1>0, <1>3, MaxBootsAssumption DEF Start, ProcType, ProcPc, NoValues, Value
  <2>2. OnlyProc(s) /\ proc'[s] = r
    <3>1. proc' = [proc EXCEPT ![s] = r] BY <1>3 DEF Start
    <3>2. QED BY <1>0, <2>1, <3>1, Updated
  <2>3. UNCHANGED <<keyfile, store, post>> /\ proc[s].pc = "down" BY <1>3 DEF Start
  <2>4. \A p \in Posts : Active(p)' => proc'["api"].pc \in {"up", "behind"}
    BY <1>1, <1>2, <2>2, <2>3 DEF OnlyProc, Active
  <2>5. QED BY <1>0, <2>2, <2>3, <2>4, ProcStep DEF ToEncrypt
<1>4. CASE KeyRead(s) \/ KeyReread(s)
  <2>1. UNCHANGED <<keyfile, store, post>> /\ proc[s].pc \in {"resolve", "reread"}
    BY <1>4 DEF KeyRead, KeyReread
  <2>2. FileKey \in Key \cup {"unset", "locked"} BY DEF FileKey
  <2>3. /\ OnlyProc(s)
        /\ proc'[s].pc # "write"
        /\ proc'[s].master \in {proc[s].master, FileKey}
    <3>1. CASE Holds(s, FileKey)
      BY <1>0, <2>2, <3>1, Held
    <3>2. CASE proc' = [proc EXCEPT ![s].pc = "make"]
      <4>1. "make" \in ProcPc BY DEF ProcPc
      <4>2. QED BY <1>0, <3>2, <4>1, Moved
    <3>3. QED BY <1>4, <3>1, <3>2 DEF KeyRead, KeyReread, FileKey
  <2>4. \A p \in Posts : Active(p)' => proc'["api"].pc \in {"up", "behind"}
    BY <1>1, <1>2, <2>1, <2>3 DEF OnlyProc, Active
  <2>5. QED BY <1>0, <2>1, <2>3, <2>4, ProcStep DEF ToEncrypt
<1>5. CASE KeyMake(s) /\ keyfile # "absent"
  <2>1. "reread" \in ProcPc BY DEF ProcPc
  <2>2. UNCHANGED <<keyfile, store, post>> /\ proc[s].pc = "make"
    BY <1>5 DEF KeyMake
  <2>3. OnlyProc(s) /\ proc'[s].pc = "reread" /\ proc'[s].master = proc[s].master
    <3>1. proc' = [proc EXCEPT ![s].pc = "reread"] BY <1>5 DEF KeyMake
    <3>2. QED BY <1>0, <2>1, <3>1, Moved
  <2>4. \A p \in Posts : Active(p)' => proc'["api"].pc \in {"up", "behind"}
    BY <1>1, <1>2, <2>2, <2>3 DEF OnlyProc, Active
  <2>5. QED BY <1>0, <2>2, <2>3, <2>4, ProcStep DEF ToEncrypt
<1>6. CASE KeyMake(s) /\ keyfile = "absent"
  <2>1. "write" \in ProcPc BY DEF ProcPc
  <2>2. keyfile' = "empty" /\ UNCHANGED <<store, post>> /\ proc[s].pc = "make"
    BY <1>6 DEF KeyMake
  <2>3. OnlyProc(s) /\ proc'[s].pc = "write" /\ proc'[s].master = proc[s].master
    <3>1. proc' = [proc EXCEPT ![s].pc = "write"] BY <1>6 DEF KeyMake
    <3>2. QED BY <1>0, <2>1, <3>1, Moved
  <2>4. TypeOK' BY <1>0, <2>2, <2>3 DEF TypeOK, OnlyProc, ProcType
  <2>5. \A q \in Procs : proc[q].pc # "write" /\ proc[q].master \notin Key
    BY <1>6 DEF KeyInv, OneCreator, HeldIsInFile
  <2>6. OneCreator' /\ HeldIsInFile'
    BY <2>2, <2>3, <2>5 DEF OneCreator, HeldIsInFile, OnlyProc
  <2>7. ActiveNeedsApi'
    BY <1>1, <1>2, <2>2, <2>3 DEF OnlyProc, Active, ActiveNeedsApi
  <2>8. /\ \A f \in Fields : store[f].key \notin Key
        /\ \A p \in Posts : ~(post[p].pc = "write" /\ ToEncrypt(p) # {})
    BY <1>6 DEF KeyInv, SecretsHaveKey
  <2>9. SecretsHaveKey' BY <2>2, <2>8 DEF SecretsHaveKey, ToEncrypt
  <2>10. QED BY <2>4, <2>6, <2>7, <2>9 DEF KeyInv
<1>7. CASE KeyWrite(s)
  <2>1. keyfile = "empty" BY <1>7 DEF KeyWrite, KeyInv, OneCreator
  <2>2. keyfile' = s /\ UNCHANGED <<store, post>> /\ proc[s].pc = "write"
    BY <1>7 DEF KeyWrite
  <2>3. /\ OnlyProc(s) /\ proc'[s].master = s
        /\ proc'[s].pc \in {"load", "up"}
    BY <1>0, <1>7, Held DEF KeyWrite, Key
  <2>4. TypeOK' BY <1>0, <2>2, <2>3 DEF TypeOK, OnlyProc, ProcType, Key
  <2>5. \A q \in Procs : /\ proc[q].master \notin Key
                         /\ q # s => proc[q].pc # "write"
    BY <2>1, <2>2 DEF KeyInv, HeldIsInFile, OneCreator
  <2>6. OneCreator' /\ HeldIsInFile'
    <3>1. \A q \in Procs : proc'[q].pc # "write" BY <2>3, <2>5 DEF OnlyProc
    <3>2. \A q \in Procs : proc'[q].master \in Key => q = s
      BY <2>5, <2>3 DEF OnlyProc
    <3>3. QED BY <2>2, <2>3, <3>1, <3>2 DEF OneCreator, HeldIsInFile
  <2>7. ActiveNeedsApi'
    BY <1>1, <1>2, <2>2, <2>3 DEF OnlyProc, Active, ActiveNeedsApi
  <2>8. /\ \A f \in Fields : store[f].key \notin Key
        /\ \A p \in Posts : ~(post[p].pc = "write" /\ ToEncrypt(p) # {})
    BY <2>1 DEF KeyInv, SecretsHaveKey
  <2>9. SecretsHaveKey' BY <2>2, <2>8 DEF SecretsHaveKey, ToEncrypt
  <2>10. QED BY <2>4, <2>6, <2>7, <2>9 DEF KeyInv
<1> QED BY <1>3, <1>4, <1>5, <1>6, <1>7 DEF BootStep

-----------------------------------------------------------------------------
(* What the steps after that do, field by field.                           *)

(* A key at hand is a key or none.                                         *)
LEMMA MasterType == ASSUME TypeOK PROVE Master("api") \in Key \cup {"locked"}
<1>1. "api" \in Procs BY DEF Procs
<1>2. proc["api"].master \in Key \cup {"unset", "locked"}
  BY <1>1, RecordTypes DEF ProcType
<1>3. QED BY <1>2 DEF Master, FileKey

(* The steps of a start that read and apply the rows.                      *)
LEMMA BootFacts ==
    ASSUME TypeOK, BootLoad \/ BootLoadFails \/ BootApply
    PROVE  /\ OnlyProc("api") /\ UNCHANGED <<keyfile, store, post>>
           /\ proc["api"].pc \in {"load", "apply"}
           /\ proc'["api"].pc \in {"apply", "behind", "up"}
           /\ proc'["api"].master \in {proc["api"].master, "unset"}
           /\ proc'["api"].pc = "apply" =>
                proc'["api"].view = Effective(Master("api"))
           /\ proc'["api"].pc = "up" =>
                /\ proc["api"].pc = "apply"
                /\ proc'["api"].env = proc["api"].view
<1>0. "api" \in Procs /\ {"apply", "behind"} \subseteq ProcPc BY DEF Procs, ProcPc
<1>1. CASE BootLoad
  <2> DEFINE r == [proc["api"] EXCEPT !.pc = "apply", !.view = Effective(Master("api"))]
  <2>1. /\ r \in ProcType /\ r.pc = "apply" /\ r.master = proc["api"].master
        /\ r.view = Effective(Master("api"))
    BY <1>0, RecordTypes, EffectiveType DEF ProcType
  <2>2. proc' = [proc EXCEPT !["api"] = r] BY <1>1 DEF BootLoad
  <2> HIDE DEF r
  <2>3. OnlyProc("api") /\ proc'["api"] = r BY <1>0, <2>1, <2>2, Updated
  <2>4. QED BY <1>1, <2>1, <2>3 DEF BootLoad
<1>2. CASE BootLoadFails
  BY <1>0, <1>2, Moved DEF BootLoadFails
<1>3. CASE BootApply
  <2>1. proc["api"].view \in [Fields -> Value] BY <1>0, RecordTypes DEF ProcType
  <2>2. QED BY <1>3, <2>1, WasApplied DEF BootApply
<1>4. QED BY <1>1, <1>2, <1>3

(* A handler validates its fields.                                         *)
LEMMA PostCheckFacts ==
    ASSUME TypeOK, NEW p \in Posts, PostCheck(p)
    PROVE  /\ OnlyProc("api") /\ OnlyPost(p) /\ UNCHANGED <<keyfile, store>>
           /\ MayStart /\ ~Active(p)
           /\ proc["api"].pc \in {"up", "behind"}
           /\ proc'["api"].pc = proc["api"].pc
           /\ proc'["api"].master \in {proc["api"].master, Master("api")}
           /\ proc'["api"].env = proc["api"].env
           /\ post'[p].pc \in {"done", "write"}
           /\ post'[p].pc = "write" /\ ToEncrypt(p)' # {} => Master("api") \in Key
<1>0. "api" \in Procs /\ {"done", "write"} \subseteq PostPc
  BY DEF Procs, PostPc
<1> DEFINE Saves(fields, cleared) ==
        IF (fields \ cleared) \cap Secrets # {}
        THEN /\ proc' = [proc EXCEPT !["api"].master = Master("api")]
             /\ IF Master("api") = "locked"
                THEN Answer(p, "locked")
                ELSE post' = [post EXCEPT ![p].pc = "write", ![p].todo = fields,
                                          ![p].cleared = cleared]
        ELSE /\ UNCHANGED proc
             /\ post' = [post EXCEPT ![p].pc = "write", ![p].todo = fields,
                                     ![p].cleared = cleared]
<1>a. PICK fields \in SUBSET Fields : \E cleared \in SUBSET fields : Saves(fields, cleared)
  BY DEF PostCheck
<1>b. PICK cleared \in SUBSET fields : Saves(fields, cleared) BY <1>a
<1>1. cleared \in SUBSET Fields /\ Saves(fields, cleared) BY <1>b
<1>2. /\ OnlyProc("api") /\ proc'["api"].pc = proc["api"].pc
      /\ proc'["api"].master \in {proc["api"].master, Master("api")}
      /\ proc'["api"].env = proc["api"].env
  <2>1. CASE UNCHANGED proc BY <2>1, RecordTypes DEF OnlyProc
  <2>2. CASE proc' = [proc EXCEPT !["api"].master = Master("api")]
    <3> DEFINE r == [proc["api"] EXCEPT !.master = Master("api")]
    <3>1. /\ r \in ProcType /\ r.pc = proc["api"].pc /\ r.env = proc["api"].env
          /\ r.master = Master("api")
      BY <1>0, RecordTypes, MasterType DEF ProcType
    <3>2. proc' = [proc EXCEPT !["api"] = r] BY <2>2
    <3> HIDE DEF r
    <3>3. OnlyProc("api") /\ proc'["api"] = r BY <1>0, <3>1, <3>2, Updated
    <3>4. QED BY <3>1, <3>3
  <2>3. QED BY <1>1, <2>1, <2>2
<1>3. CASE post' = [post EXCEPT ![p].pc = "write", ![p].todo = fields,
                               ![p].cleared = cleared]
  <2> DEFINE r == [post[p] EXCEPT !.pc = "write", !.todo = fields, !.cleared = cleared]
  <2>1. r \in PostType /\ r.pc = "write" /\ r.todo = fields /\ r.cleared = cleared
    BY <1>0, RecordTypes DEF PostType
  <2>2. post' = [post EXCEPT ![p] = r] BY <1>3
  <2> HIDE DEF r
  <2>3. OnlyPost(p) /\ post'[p] = r BY <2>1, <2>2, PostUpdated
  <2>4. ToEncrypt(p)' = (fields \ cleared) \cap Secrets
    BY <2>1, <2>3 DEF ToEncrypt
  <2>5. CASE (fields \ cleared) \cap Secrets = {}
    BY <1>2, <2>1, <2>3, <2>4, <2>5 DEF PostCheck, Active
  <2>6. CASE (fields \ cleared) \cap Secrets # {} /\ Master("api") # "locked"
    <3>1. Master("api") \in Key BY <2>6, MasterType
    <3>2. QED BY <1>2, <2>1, <2>3, <3>1 DEF PostCheck, Active
  <2>7. CASE (fields \ cleared) \cap Secrets # {} /\ Master("api") = "locked"
    <3>1. post'[p].pc = "done" BY <1>1, <2>7, RecordTypes DEF Answer, PostType
    <3>2. QED BY <2>1, <2>3, <3>1
  <2>8. QED BY <2>5, <2>6, <2>7
<1>4. CASE Answer(p, "locked")
  <2> DEFINE r == [post[p] EXCEPT !.pc = "done", !.reply = "locked"]
  <2>1. r \in PostType /\ r.pc = "done"
    BY <1>0, RecordTypes DEF PostType, PostReply
  <2>2. post' = [post EXCEPT ![p] = r] BY <1>4 DEF Answer
  <2> HIDE DEF r
  <2>3. OnlyPost(p) /\ post'[p] = r BY <2>1, <2>2, PostUpdated
  <2>4. QED BY <1>2, <2>1, <2>3 DEF PostCheck, Active
<1>5. QED BY <1>1, <1>3, <1>4

(* A field is written; the handler stays active.                           *)
LEMMA PostWriteFacts ==
    ASSUME TypeOK, NEW p \in Posts, PostWrite(p)
    PROVE  /\ OnlyPost(p) /\ UNCHANGED <<keyfile, proc>>
           /\ post[p].pc = "write" /\ post'[p].pc \in {"write", "load"}
           /\ post'[p].cleared = post[p].cleared
           /\ \E f \in post[p].todo :
                /\ post'[p].todo = post[p].todo \ {f}
                /\ store' = [store EXCEPT ![f] =
                     IF f \in post[p].cleared THEN NoCell
                     ELSE [value |-> p, key |-> IF f \in Secrets THEN Master("api")
                                                                 ELSE "plain"]]
<1>0. {"write", "load"} \subseteq PostPc BY DEF PostPc
<1>1. PICK f \in post[p].todo :
        /\ store' = [store EXCEPT ![f] =
             IF f \in post[p].cleared THEN NoCell
             ELSE [value |-> p, key |-> IF f \in Secrets THEN Master("api")
                                                         ELSE "plain"]]
        /\ post' = [post EXCEPT ![p].todo = @ \ {f},
                       ![p].pc = IF post[p].todo = {f} THEN "load" ELSE @]
  BY DEF PostWrite
<1> DEFINE r == [post[p] EXCEPT !.todo = @ \ {f},
                                !.pc = IF post[p].todo = {f} THEN "load" ELSE @]
<1>2. post[p].pc = "write" /\ UNCHANGED <<keyfile, proc>> BY DEF PostWrite
<1>3. /\ r \in PostType /\ r.pc \in {"write", "load"}
      /\ r.todo = post[p].todo \ {f} /\ r.cleared = post[p].cleared
  BY <1>0, <1>2, RecordTypes DEF PostType
<1>4. post' = [post EXCEPT ![p] = r] BY <1>1
<1> HIDE DEF r
<1>5. OnlyPost(p) /\ post'[p] = r BY <1>3, <1>4, PostUpdated
<1>6. QED BY <1>1, <1>2, <1>3, <1>5

(* The rows are read, applied, or not because of an error.                 *)
LEMMA PostEndFacts ==
    ASSUME TypeOK, NEW p \in Posts, PostLoad(p) \/ PostApply(p) \/ PostFails(p)
    PROVE  /\ OnlyProc("api") /\ OnlyPost(p) /\ UNCHANGED <<keyfile, store>>
           /\ Active(p) /\ post'[p].pc \in {"apply", "done"}
           /\ proc'["api"].pc \in {proc["api"].pc, "up", "behind"}
           /\ proc'["api"].master \in {proc["api"].master, "unset"}
           /\ post'[p].pc = "apply" =>
                post'[p].view = Effective(Master("api")) /\ UNCHANGED proc
           /\ post'[p].pc = "done" => proc'["api"].pc \in {"up", "behind"}
           /\ post'[p].pc = "done" /\ proc'["api"].pc = "up" =>
                post[p].pc = "apply" /\ proc'["api"].env = post[p].view
<1>0. /\ "api" \in Procs /\ {"apply", "done"} \subseteq PostPc
      /\ "behind" \in ProcPc /\ {"saved", "error"} \subseteq PostReply
  BY DEF Procs, PostPc, ProcPc, PostReply
<1>1. CASE PostLoad(p)
  <2> DEFINE r == [post[p] EXCEPT !.pc = "apply", !.view = Effective(Master("api"))]
  <2>1. r \in PostType /\ r.pc = "apply" /\ r.view = Effective(Master("api"))
    BY <1>0, RecordTypes, EffectiveType DEF PostType
  <2>2. post' = [post EXCEPT ![p] = r] BY <1>1 DEF PostLoad
  <2> HIDE DEF r
  <2>3. OnlyPost(p) /\ post'[p] = r BY <2>1, <2>2, PostUpdated
  <2>4. OnlyProc("api") BY <1>1, RecordTypes DEF PostLoad, OnlyProc
  <2>5. QED BY <1>1, <2>1, <2>3, <2>4 DEF PostLoad, Active
<1>2. ASSUME NEW reply \in {"saved", "error"}, Answer(p, reply)
      PROVE  OnlyPost(p) /\ post'[p].pc = "done"
  <2> DEFINE r == [post[p] EXCEPT !.pc = "done", !.reply = reply]
  <2>1. r \in PostType /\ r.pc = "done" BY <1>0, RecordTypes DEF PostType
  <2>2. post' = [post EXCEPT ![p] = r] BY <1>2 DEF Answer
  <2> HIDE DEF r
  <2>3. QED BY <2>1, <2>2, PostUpdated
<1>3. CASE PostApply(p)
  <2>1. post[p].view \in [Fields -> Value] BY RecordTypes DEF PostType
  <2>2. /\ OnlyProc("api") /\ proc'["api"].pc = "up"
        /\ proc'["api"].master = "unset" /\ proc'["api"].env = post[p].view
    BY <1>3, <2>1, WasApplied DEF PostApply
  <2>3. OnlyPost(p) /\ post'[p].pc = "done" BY <1>2, <1>3 DEF PostApply
  <2>4. QED BY <1>3, <2>2, <2>3 DEF PostApply, Active
<1>4. CASE PostFails(p)
  <2>1. /\ OnlyProc("api") /\ proc'["api"].pc = "behind"
        /\ proc'["api"].master = proc["api"].master
    BY <1>0, <1>4, Moved DEF PostFails
  <2>2. OnlyPost(p) /\ post'[p].pc = "done" BY <1>2, <1>4 DEF PostFails
  <2>3. QED BY <1>4, <2>1, <2>2 DEF PostFails, Active
<1>5. QED BY <1>1, <1>3, <1>4

(* A process stops; an API takes its handlers with it.                     *)
LEMMA CrashFacts ==
    ASSUME TypeOK, NEW s \in Procs,
           \/ s = "api" /\ ApiCrash
           \/ s = "worker" /\ WorkerCrash
    PROVE  /\ OnlyProc(s) /\ UNCHANGED <<keyfile, store>>
           /\ proc'[s].pc = "down" /\ proc'[s].master = proc[s].master
           /\ post' \in [Posts -> PostType]
           /\ s = "api" => \A p \in Posts : post'[p].pc \in {"idle", "done"}
           /\ s = "worker" => UNCHANGED post
<1>0. "down" \in ProcPc /\ "done" \in PostPc /\ "lost" \in PostReply
  BY DEF PostPc, ProcPc, PostReply
<1>1. OnlyProc(s) /\ proc'[s].pc = "down" /\ proc'[s].master = proc[s].master
  <2>1. proc' = [proc EXCEPT ![s].pc = "down"] BY DEF ApiCrash, WorkerCrash, Stop
  <2>2. QED BY <1>0, <2>1, Moved
<1>2. CASE s = "api" /\ ApiCrash
  <2> DEFINE r(p) == IF Active(p) THEN [post[p] EXCEPT !.pc = "done", !.reply = "lost"]
                                  ELSE post[p]
  <2>1. \A p \in Posts : r(p) \in PostType /\ r(p).pc \in {"idle", "done"}
    BY <1>0, RecordTypes DEF PostType, Active
  <2>2. post' = [p \in Posts |-> r(p)] BY <1>2 DEF ApiCrash
  <2> HIDE DEF r
  <2>3. QED BY <1>1, <1>2, <2>1, <2>2 DEF ApiCrash
<1>3. CASE s = "worker" /\ WorkerCrash
  BY <1>1, <1>3, RecordTypes DEF WorkerCrash
<1>4. QED BY <1>2, <1>3

-----------------------------------------------------------------------------
(* KeyInv is inductive: the steps of a started process.                    *)
LEMMA KeyInvStep ==
    ASSUME KeyInv, [Next]_vars
    PROVE  KeyInv'
<1> USE KeysAreKeys
<1>0. /\ TypeOK /\ "api" \in Procs /\ "worker" \in Procs
      /\ post \in [Posts -> PostType] /\ proc \in [Procs -> ProcType]
  BY RecordTypes DEF KeyInv, Procs
<1>1. \A p \in Posts : Active(p) => proc["api"].pc \in {"up", "behind"}
  BY DEF KeyInv, ActiveNeedsApi
<1>2. Master("api") \in {proc["api"].master, FileKey} BY DEF Master
<1>3. ASSUME NEW s \in Procs, BootStep(s) PROVE KeyInv'
  BY <1>3, KeyInvBoot
<1>4. CASE BootLoad \/ BootLoadFails \/ BootApply
  <2>1. /\ OnlyProc("api") /\ UNCHANGED <<keyfile, store, post>>
        /\ proc["api"].pc \in {"load", "apply"}
        /\ proc'["api"].pc \in {"apply", "behind", "up"}
        /\ proc'["api"].master \in {proc["api"].master, "unset"}
    BY <1>0, <1>4, BootFacts
  <2>2. \A p \in Posts : ~Active(p)' BY <1>1, <2>1 DEF Active
  <2>3. QED BY <1>0, <2>1, <2>2, ProcStep DEF ToEncrypt
<1>5. ASSUME NEW p \in Posts, PostCheck(p) PROVE KeyInv'
  <2>1. /\ OnlyProc("api") /\ OnlyPost(p) /\ UNCHANGED <<keyfile, store>>
        /\ proc["api"].pc \in {"up", "behind"}
        /\ proc'["api"].pc = proc["api"].pc
        /\ proc'["api"].master \in {proc["api"].master, Master("api")}
        /\ post'[p].pc = "write" /\ ToEncrypt(p)' # {} => Master("api") \in Key
    BY <1>0, <1>5, PostCheckFacts
  <2>2. \A q \in Posts : q # p => post'[q] = post[q] BY <2>1 DEF OnlyPost
  <2>3. QED BY <1>0, <1>2, <2>1, <2>2, ProcStep DEF ToEncrypt, OnlyPost
<1>6. ASSUME NEW p \in Posts, PostWrite(p) PROVE KeyInv'
  <2>1. PICK f \in post[p].todo :
          /\ post'[p].todo = post[p].todo \ {f}
          /\ store' = [store EXCEPT ![f] =
               IF f \in post[p].cleared THEN NoCell
               ELSE [value |-> p, key |-> IF f \in Secrets THEN Master("api")
                                                           ELSE "plain"]]
    BY <1>0, <1>6, PostWriteFacts
  <2>2. /\ OnlyPost(p) /\ UNCHANGED <<keyfile, proc>>
        /\ post[p].pc = "write" /\ post'[p].cleared = post[p].cleared
    BY <1>0, <1>6, PostWriteFacts
  <2>3. f \in Fields BY <1>0, <2>1 DEF PostType
  <2>4. f \in Secrets \ post[p].cleared =>
          Master("api") \in Key /\ Master("api") = keyfile
    BY <2>1, <2>2 DEF KeyInv, SecretsHaveKey, ToEncrypt
  <2> DEFINE cell == IF f \in post[p].cleared THEN NoCell
                     ELSE [value |-> p, key |-> IF f \in Secrets THEN Master("api")
                                                                 ELSE "plain"]
  <2>5. /\ cell \in Cell \cup {NoCell}
        /\ cell.key \in Key => Master("api") = keyfile /\ cell.key = keyfile
    BY <2>4 DEF Cell, NoCell
  <2>6. store' = [store EXCEPT ![f] = cell] BY <2>1
  <2> HIDE DEF cell
  <2>7. store' \in [Fields -> Cell \cup {NoCell}] BY <1>0, <2>5, <2>6 DEF TypeOK
  <2>8. TypeOK' BY <1>0, <2>2, <2>7 DEF TypeOK, OnlyPost, PostType
  <2>9. OneCreator' /\ HeldIsInFile' /\ ActiveNeedsApi'
    <3>1. OneCreator' /\ HeldIsInFile'
      BY <2>2 DEF KeyInv, OneCreator, HeldIsInFile
    <3>2. Active(p) BY <2>2 DEF Active
    <3>3. QED BY <1>1, <2>2, <3>1, <3>2 DEF ActiveNeedsApi, Active, OnlyPost
  <2>10. SecretsHaveKey'
    <3>1. Master("api")' = Master("api") BY <2>2 DEF Master, FileKey
    <3>2. \A g \in Fields : store'[g] = IF g = f THEN cell ELSE store[g]
      BY <1>0, <2>3, <2>6 DEF TypeOK
    <3>3. \A g \in Fields : store'[g].key \in Key =>
            store'[g].key = keyfile' /\ Master("api")' = keyfile'
      BY <2>2, <2>5, <3>1, <3>2 DEF KeyInv, SecretsHaveKey
    <3>4. \A q \in Posts : ToEncrypt(q)' \subseteq ToEncrypt(q)
      BY <2>1, <2>2 DEF ToEncrypt, OnlyPost
    <3>5. \A q \in Posts : post'[q].pc = "write" => post[q].pc = "write"
      BY <2>2 DEF OnlyPost
    <3>6. QED BY <2>2, <3>1, <3>3, <3>4, <3>5 DEF KeyInv, SecretsHaveKey
  <2>11. QED BY <2>8, <2>9, <2>10 DEF KeyInv
<1>7. ASSUME NEW p \in Posts, PostLoad(p) \/ PostApply(p) \/ PostFails(p) PROVE KeyInv'
  <2>1. /\ OnlyProc("api") /\ OnlyPost(p) /\ UNCHANGED <<keyfile, store>>
        /\ Active(p) /\ post'[p].pc \in {"apply", "done"}
        /\ proc'["api"].pc \in {proc["api"].pc, "up", "behind"}
        /\ proc'["api"].master \in {proc["api"].master, "unset"}
    BY <1>0, <1>7, PostEndFacts
  <2>2. \A q \in Posts : q # p => post'[q] = post[q] BY <2>1 DEF OnlyPost
  <2>3. proc'["api"].pc \in {"up", "behind"} BY <1>1, <2>1
  <2>4. QED BY <1>0, <2>1, <2>2, <2>3, ProcStep DEF ToEncrypt, OnlyPost
<1>8. CASE ApiCrash
  <2>1. /\ OnlyProc("api") /\ UNCHANGED <<keyfile, store>>
        /\ proc'["api"].pc = "down" /\ proc'["api"].master = proc["api"].master
        /\ post' \in [Posts -> PostType]
        /\ \A p \in Posts : post'[p].pc \in {"idle", "done"}
    BY <1>0, <1>8, CrashFacts
  <2>2. \A p \in Posts : ~Active(p)' BY <2>1 DEF Active
  <2>3. QED BY <1>0, <2>1, <2>2, ProcStep
<1>9. CASE WorkerCrash
  <2>1. /\ OnlyProc("worker") /\ UNCHANGED <<keyfile, store, post>>
        /\ proc'["worker"].pc = "down" /\ proc'["worker"].master = proc["worker"].master
    BY <1>0, <1>9, CrashFacts
  <2>2. proc'["api"] = proc["api"] BY <1>0, <2>1 DEF OnlyProc
  <2>3. \A p \in Posts : Active(p)' => proc'["api"].pc \in {"up", "behind"}
    BY <1>1, <2>1, <2>2 DEF Active
  <2>4. QED BY <1>0, <2>1, <2>3, ProcStep DEF ToEncrypt
<1>10. CASE UNCHANGED vars
  <2>1. TypeOK' BY <1>0, <1>10 DEF TypeOK, vars
  <2>2. OneCreator' /\ HeldIsInFile'
    BY <1>10 DEF KeyInv, OneCreator, HeldIsInFile, vars
  <2>3. ActiveNeedsApi' BY <1>10 DEF KeyInv, ActiveNeedsApi, Active, vars
  <2>4. SecretsHaveKey'
    BY <1>10 DEF KeyInv, SecretsHaveKey, ToEncrypt, Master, FileKey, vars
  <2>5. QED BY <2>1, <2>2, <2>3, <2>4 DEF KeyInv
<1> QED
  BY <1>3, <1>4, <1>5, <1>6, <1>7, <1>8, <1>9, <1>10 DEF Next, PostStep

(* Every variable of the settings store keeps its type: what a handler     *)
(* stores is encrypted with a key, although processes cache the absence of *)
(* one (crypto.encrypt after post_settings' check).                        *)
THEOREM TypeCorrect == Spec => []TypeOK
<1>1. KeyInv /\ [Next]_vars => KeyInv' BY KeyInvStep
<1>2. KeyInv => TypeOK BY DEF KeyInv
<1>3. QED BY KeyInitial, <1>1, <1>2, PTL DEF Spec

(* Whatever processes start together, stop half-way or start again, and    *)
(* however POSTs overlap, a stored secret is encrypted with the key in the *)
(* file (resolve_from_file).                                               *)
THEOREM SecretsReadable == Spec => []SecretsStayReadable
<1>1. KeyInv /\ [Next]_vars => KeyInv' BY KeyInvStep
<1>2. KeyInv => SecretsStayReadable
  <2> SUFFICES ASSUME KeyInv, NEW f \in Fields
               PROVE  store[f].key \in {"plain", keyfile}
    BY DEF SecretsStayReadable
  <2>1. store[f].key \in Key \cup {"plain"} BY DEF KeyInv, TypeOK, Cell, NoCell
  <2>2. QED BY <2>1 DEF KeyInv, SecretsHaveKey
<1>3. QED BY KeyInitial, <1>1, <1>2, PTL DEF Spec

-----------------------------------------------------------------------------
(* With one POST at a time, the API runs on what is stored.                *)

(* The API decrypts every row, so it reads what was stored.                *)
LEMMA ReadsStored ==
    ASSUME KeyInv, NEW f \in Fields
    PROVE  Effective(Master("api"))[f] = store[f].value
<1>1. store[f].key \in Key \cup {"plain"} BY DEF KeyInv, TypeOK, Cell, NoCell
<1>2. store[f].key \in {"plain", Master("api")} BY <1>1 DEF KeyInv, SecretsHaveKey
<1>3. QED BY <1>2 DEF Effective

(* The initial states satisfy StepInv.                                     *)
LEMMA StepInitial == Init => StepInv
<1> SUFFICES ASSUME Init PROVE StepInv OBVIOUS
<1>1. KeyInv BY KeyInitial
<1>2. proc["api"].pc = "down" BY DEF Init, Procs
<1>3. \A p \in Posts : post[p].pc = "idle" BY DEF Init
<1>4. QED BY <1>1, <1>2, <1>3
      DEF StepInv, ReadIsStored, OneActive, Active, ApiRunsOnStoredSettings

(* StepInv is inductive if POSTs do not overlap.                           *)
LEMMA StepInvStep ==
    ASSUME ~Overlapping, StepInv, [Next]_vars
    PROVE  StepInv'
<1>0. /\ KeyInv /\ TypeOK /\ "api" \in Procs /\ "worker" \in Procs
      /\ \A p \in Posts : Active(p) => proc["api"].pc \in {"up", "behind"}
  BY DEF StepInv, KeyInv, Procs, ActiveNeedsApi
<1>11. KeyInv' BY KeyInvStep DEF StepInv
<1>1. ASSUME UNCHANGED <<store, post>>, proc'["api"] = proc["api"] PROVE StepInv'
  BY <1>11, <1>1 DEF StepInv, ReadIsStored, OneActive, Active, ApiRunsOnStoredSettings
<1>2. ASSUME proc'["api"].pc \notin {"up", "apply"}, \A p \in Posts : ~Active(p)'
      PROVE  StepInv'
  BY <1>11, <1>2 DEF StepInv, ReadIsStored, OneActive, Active, ApiRunsOnStoredSettings
<1>3. ASSUME NEW s \in Procs, BootStep(s) PROVE StepInv'
  <2>1. UNCHANGED <<store, post>>
    BY <1>3 DEF BootStep, Start, KeyRead, KeyMake, KeyWrite, KeyReread
  <2>2. /\ proc[s].pc \in {"down", "resolve", "make", "write", "reread"}
        /\ s = "api" => proc'["api"].pc \in {"resolve", "make", "write", "reread", "load"}
        /\ s # "api" => proc'["api"] = proc["api"]
    <3>1. CASE Start(s) BY <1>0, <3>1, RecordTypes DEF Start
    <3>2. ASSUME NEW pc \in {"make", "write", "reread"}, proc' = [proc EXCEPT ![s].pc = pc]
          PROVE  /\ s = "api" => proc'["api"].pc = pc
                 /\ s # "api" => proc'["api"] = proc["api"]
      <4>1. pc \in ProcPc BY DEF ProcPc
      <4>2. QED BY <1>0, <3>2, <4>1, Moved DEF OnlyProc
    <3>3. ASSUME NEW key \in Key \cup {"unset", "locked"}, Holds(s, key)
          PROVE  /\ s = "api" => proc'["api"].pc = "load"
                 /\ s # "api" => proc'["api"] = proc["api"]
      BY <1>0, <3>3, Held DEF OnlyProc
    <3>4. CASE KeyRead(s) BY <3>2, <3>3, <3>4 DEF KeyRead
    <3>5. CASE KeyMake(s) BY <3>2, <3>5 DEF KeyMake
    <3>6. CASE KeyWrite(s) BY <3>3, <3>6 DEF KeyWrite, Key
    <3>7. CASE KeyReread(s) BY <3>3, <3>7 DEF KeyReread, FileKey
    <3>8. QED BY <1>3, <3>1, <3>4, <3>5, <3>6, <3>7 DEF BootStep
  <2>3. CASE s # "api" BY <1>1, <2>1, <2>2, <2>3
  <2>4. CASE s = "api"
    <3>1. \A p \in Posts : ~Active(p)' BY <1>0, <2>1, <2>2, <2>4 DEF Active
    <3>2. QED BY <1>2, <2>2, <2>4, <3>1
  <2>5. QED BY <2>3, <2>4
<1>4. CASE BootLoad \/ BootLoadFails \/ BootApply
  <2>1. /\ OnlyProc("api") /\ UNCHANGED <<keyfile, store, post>>
        /\ proc["api"].pc \in {"load", "apply"}
        /\ proc'["api"].pc = "apply" => proc'["api"].view = Effective(Master("api"))
        /\ proc'["api"].pc = "up" =>
             proc["api"].pc = "apply" /\ proc'["api"].env = proc["api"].view
    BY <1>0, <1>4, BootFacts
  <2>2. \A p \in Posts : ~Active(p)' /\ post'[p].pc # "apply"
    BY <1>0, <2>1 DEF Active
  <2>3. ReadIsStored' BY <1>0, <2>1, <2>2, ReadsStored DEF ReadIsStored
  <2>4. ApiRunsOnStoredSettings'
    BY <2>1 DEF StepInv, ReadIsStored, ApiRunsOnStoredSettings
  <2>5. QED BY <1>11, <2>2, <2>3, <2>4 DEF StepInv, OneActive
<1>5. ASSUME NEW p \in Posts, PostCheck(p) PROVE StepInv'
  <2>1. /\ OnlyPost(p) /\ UNCHANGED <<keyfile, store>>
        /\ MayStart
        /\ proc'["api"].pc = proc["api"].pc /\ proc["api"].pc # "apply"
        /\ proc'["api"].env = proc["api"].env
        /\ post'[p].pc \in {"done", "write"}
    BY <1>0, <1>5, PostCheckFacts
  <2>2. \A q \in Posts : q # p => post'[q] = post[q] /\ ~Active(q)
    BY <2>1 DEF MayStart, OnlyPost
  <2>3. ReadIsStored' BY <2>1, <2>2 DEF ReadIsStored, Active
  <2>4. OneActive' BY <2>2 DEF OneActive, Active
  <2>5. ApiRunsOnStoredSettings'
    <3>1. \A q \in Posts : ~Active(q) BY <2>1 DEF MayStart
    <3>2. QED BY <2>1, <3>1 DEF StepInv, ApiRunsOnStoredSettings
  <2>6. QED BY <1>11, <2>3, <2>4, <2>5 DEF StepInv
<1>6. ASSUME NEW p \in Posts, PostWrite(p) PROVE StepInv'
  <2>1. /\ OnlyPost(p) /\ UNCHANGED <<keyfile, proc>>
        /\ post[p].pc = "write" /\ post'[p].pc \in {"write", "load"}
    BY <1>0, <1>6, PostWriteFacts
  <2>2. Active(p) /\ Active(p)' BY <2>1 DEF Active
  <2>3. \A q \in Posts : q # p => post'[q] = post[q] /\ ~Active(q)
    BY <2>1, <2>2 DEF OnlyPost, StepInv, OneActive
  <2>4. ReadIsStored' BY <1>0, <2>1, <2>2, <2>3 DEF ReadIsStored, Active
  <2>5. OneActive' BY <2>3 DEF OneActive, Active
  <2>6. ApiRunsOnStoredSettings' BY <2>2 DEF ApiRunsOnStoredSettings
  <2>7. QED BY <1>11, <2>4, <2>5, <2>6 DEF StepInv
<1>7. ASSUME NEW p \in Posts, PostLoad(p) \/ PostApply(p) \/ PostFails(p) PROVE StepInv'
  <2>1. /\ OnlyPost(p) /\ UNCHANGED <<keyfile, store>>
        /\ Active(p) /\ post'[p].pc \in {"apply", "done"}
        /\ post'[p].pc = "apply" =>
             post'[p].view = Effective(Master("api")) /\ UNCHANGED proc
        /\ post'[p].pc = "done" => proc'["api"].pc \in {"up", "behind"}
        /\ post'[p].pc = "done" /\ proc'["api"].pc = "up" =>
             post[p].pc = "apply" /\ proc'["api"].env = post[p].view
    BY <1>0, <1>7, PostEndFacts
  <2>2. \A q \in Posts : q # p => post'[q] = post[q] /\ ~Active(q)
    BY <2>1 DEF OnlyPost, StepInv, OneActive
  <2>3. ReadIsStored'
    <3>1. proc'["api"].pc # "apply" BY <1>0, <2>1
    <3>2. QED BY <1>0, <2>1, <2>2, <3>1, ReadsStored DEF ReadIsStored, Active
  <2>4. OneActive' BY <2>2 DEF OneActive, Active
  <2>5. ApiRunsOnStoredSettings'
    <3>1. CASE post'[p].pc = "apply"
      BY <3>1 DEF ApiRunsOnStoredSettings, Active
    <3>2. CASE post'[p].pc = "done"
      BY <2>1, <3>2 DEF StepInv, ReadIsStored, ApiRunsOnStoredSettings
    <3>3. QED BY <2>1, <3>1, <3>2
  <2>6. QED BY <1>11, <2>3, <2>4, <2>5 DEF StepInv
<1>8. CASE ApiCrash
  <2>1. /\ proc'["api"].pc = "down"
        /\ \A p \in Posts : post'[p].pc \in {"idle", "done"}
    BY <1>0, <1>8, CrashFacts
  <2>2. QED BY <1>2, <2>1 DEF Active
<1>9. CASE WorkerCrash
  BY <1>0, <1>1, <1>9, CrashFacts DEF OnlyProc
<1>10. CASE UNCHANGED vars BY <1>1, <1>10 DEF vars
<1> QED
  BY <1>3, <1>4, <1>5, <1>6, <1>7, <1>8, <1>9, <1>10 DEF Next, PostStep

(* An operator who waits for each answer finds the API running on exactly  *)
(* the stored settings, whichever transactions fail and whichever process  *)
(* stops (apply_store_overrides_to_env).  The hypothesis is needed: of two *)
(* POSTs that overlap, the one that read the rows first may apply them     *)
(* last.                                                                   *)
THEOREM ApiFollowsStore ==
    ASSUME ~Overlapping
    PROVE  Spec => []ApiRunsOnStoredSettings
<1>1. StepInv /\ [Next]_vars => StepInv' BY StepInvStep
<1>2. StepInv => ApiRunsOnStoredSettings BY DEF StepInv
<1>3. QED BY StepInitial, <1>1, <1>2, PTL DEF Spec
=============================================================================
