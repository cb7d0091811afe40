------------------------- MODULE TemporalCache_proofs -------------------------
(***************************************************************************)
(* The cache of clones stays bounded, and a directory without a complete   *)
(* clone is accounted for, for any sources, lookups, cap and ages.         *)
(***************************************************************************)
EXTENDS TemporalCache, FiniteSetTheorems, TLAPS

-----------------------------------------------------------------------------
(* Orders of directories: each is there once.                              *)

Order(q) == q \in Seq(Sources) /\ IsInjective(q)

LEMMA OrderFacts ==
    ASSUME NEW q, Order(q)
    PROVE  /\ Len(q) \in Nat /\ DOMAIN q = 1..Len(q)
           /\ \A i \in 1..Len(q) : q[i] \in Sources
           /\ \A i, j \in 1..Len(q) : q[i] = q[j] => i = j
           /\ \A s : s \in Range(q) <=> \E i \in 1..Len(q) : q[i] = s
BY DEF Order, IsInjective, Range

LEMMA OrderIntro ==
    ASSUME NEW q \in Seq(Sources),
           \A i, j \in 1..Len(q) : q[i] = q[j] => i = j
    PROVE  Order(q)
BY DEF Order, IsInjective

(* Removing one directory.                                                 *)
LEMMA Removed ==
    ASSUME NEW order, Order(order), NEW s
    PROVE  /\ Order(Without(order, s))
           /\ Range(Without(order, s)) = Range(order) \ {s}
           /\ Len(Without(order, s)) =
                IF s \in Range(order) THEN Len(order) - 1 ELSE Len(order)
<1> DEFINE n == Len(order)
           q == Without(order, s)
<1>1. /\ n \in Nat
      /\ \A i \in 1..n : order[i] \in Sources
      /\ \A i, j \in 1..n : order[i] = order[j] => i = j
      /\ \A t : t \in Range(order) <=> \E i \in 1..n : order[i] = t
      /\ order \in Seq(Sources)
  BY OrderFacts DEF Order
<1>2. CASE s \notin Range(order)
  <2>1. q = order
    BY <1>1, <1>2 DEF Without, RemoveFirst
  <2> QED BY <1>2, <2>1
<1>3. CASE s \in Range(order)
  <2> DEFINE I == {i \in 1..n : order[i] = s}
             k == Min(I)
  <2>1. PICK i \in 1..n : order[i] = s
    BY <1>1, <1>3
  <2>2. I = {i}
    BY <1>1, <2>1
  <2>3. k = i
    <3>1. \E x \in {i} : \A y \in {i} : x <= y
      BY <2>1
    <3> QED BY <2>1, <2>2, <3>1 DEF Min
  <2>4. q = RemoveAt(order, i)
    <3>1. SelectInSeq(order, LAMBDA v : v = s) = i
      <4>1. SelectInSeq(order, LAMBDA v : v = s) = IF I # {} THEN k ELSE 0
        BY DEF SelectInSeq
      <4> QED BY <2>2, <2>3, <4>1
    <3> QED BY <2>1, <3>1 DEF Without, RemoveFirst
  <2> DEFINE a == SubSeq(order, 1, i - 1)
             b == SubSeq(order, i + 1, n)
  <2>5. /\ a \in Seq(Sources) /\ Len(a) = i - 1
        /\ \A j \in 1..(i - 1) : a[j] = order[j]
    BY <1>1, <2>1
  <2>6. /\ b \in Seq(Sources) /\ Len(b) = n - i
        /\ \A j \in 1..(n - i) : b[j] = order[i + j]
    BY <1>1, <2>1
  <2>7. q = a \o b
    BY <2>4 DEF RemoveAt
  <2> HIDE DEF a, b, q, I, k
  <2>8. q \in Seq(Sources) /\ Len(q) = n - 1
    BY <1>1, <2>1, <2>5, <2>6, <2>7
  <2>9. \A j \in 1..(n - 1) : q[j] = IF j < i THEN order[j] ELSE order[j + 1]
    BY <1>1, <2>1, <2>5, <2>6, <2>7
  <2>10. Order(q)
    <3>1. \A j, m \in 1..(n - 1) : q[j] = q[m] => j = m
      BY <1>1, <2>1, <2>9
    <3> QED BY <2>8, <3>1, OrderIntro
  <2>11. \A t : t \in Range(q) <=> \E j \in 1..(n - 1) : q[j] = t
    BY <2>8, <2>10, OrderFacts
  <2>12. ASSUME NEW t PROVE t \in Range(q) <=> t \in Range(order) /\ t # s
    <3>1. ASSUME t \in Range(q) PROVE t \in Range(order) /\ t # s
      <4>1. PICK j \in 1..(n - 1) : q[j] = t
        BY <2>11, <3>1
      <4> QED BY <1>1, <2>1, <2>9, <4>1
    <3>2. ASSUME t \in Range(order), t # s PROVE t \in Range(q)
      <4>1. PICK j \in 1..n : order[j] = t
        BY <1>1, <3>2
      <4>2. CASE j < i
        BY <1>1, <2>1, <2>9, <2>11, <4>1, <4>2
      <4>3. CASE j > i
        <5>1. j - 1 \in 1..(n - 1) /\ ~(j - 1 < i) /\ (j - 1) + 1 = j
          BY <1>1, <2>1, <4>3
        <5> QED BY <2>9, <2>11, <4>1, <5>1
      <4> QED BY <2>1, <3>2, <4>1, <4>2, <4>3
    <3> QED BY <3>1, <3>2
  <2> QED BY <1>3, <2>8, <2>10, <2>12 DEF q
<1> QED BY <1>2, <1>3

(* A directory becomes the one touched last.                               *)
LEMMA Appended ==
    ASSUME NEW order, Order(order), NEW s \in Sources, s \notin Range(order)
    PROVE  /\ Order(Append(order, s))
           /\ Range(Append(order, s)) = Range(order) \cup {s}
           /\ Len(Append(order, s)) = Len(order) + 1
<1> DEFINE n == Len(order)
           q == Append(order, s)
<1>1. /\ n \in Nat
      /\ \A i \in 1..n : order[i] \in Sources
      /\ \A i, j \in 1..n : order[i] = order[j] => i = j
      /\ \A t : t \in Range(order) <=> \E i \in 1..n : order[i] = t
      /\ order \in Seq(Sources)
  BY OrderFacts DEF Order
<1>2. /\ q \in Seq(Sources) /\ Len(q) = n + 1 /\ q[n + 1] = s
      /\ \A i \in 1..n : q[i] = order[i]
  BY <1>1
<1> HIDE DEF q, n
<1>3. \A i \in 1..(n + 1) : i \in 1..n \/ i = n + 1
  BY <1>1
<1>4. \A i, j \in 1..(n + 1) : q[i] = q[j] => i = j
  BY <1>1, <1>2, <1>3
<1>5. Order(q)
  BY <1>2, <1>4, OrderIntro
<1>6. \A t : t \in Range(q) <=> \E i \in 1..(n + 1) : q[i] = t
  BY <1>2, <1>5, OrderFacts
<1>7. \A t : t \in Range(q) <=> t \in Range(order) \/ t = s
  <2>1. n + 1 \in 1..(n + 1) /\ \A i \in 1..n : i \in 1..(n + 1)
    BY <1>1
  <2> QED BY <1>1, <1>2, <1>3, <1>6, <2>1
<1> QED BY <1>2, <1>5, <1>7 DEF q, n

LEMMA TouchedOrder ==
    ASSUME NEW order, Order(order), NEW s \in Range(order)
    PROVE  /\ Order(Touched(order, s))
           /\ Range(Touched(order, s)) = Range(order)
           /\ Len(Touched(order, s)) = Len(order)
<1> DEFINE q == Without(order, s)
<1>1. s \in Sources /\ Len(order) \in Nat
  BY OrderFacts
<1>2. Order(q) /\ Range(q) = Range(order) \ {s} /\ Len(q) = Len(order) - 1
  BY Removed
<1>3. /\ Order(Append(q, s)) /\ Range(Append(q, s)) = Range(q) \cup {s}
      /\ Len(Append(q, s)) = Len(q) + 1
  BY <1>1, <1>2, Appended
<1> QED BY <1>1, <1>2, <1>3 DEF Touched

(* What the eviction leaves.                                               *)
LEMMA Kept ==
    ASSUME NEW order, Order(order), NEW e \in 0..Len(order)
    PROVE  /\ Order(SubSeq(order, e + 1, Len(order)))
           /\ Range(SubSeq(order, e + 1, Len(order))) \subseteq Range(order)
           /\ Len(SubSeq(order, e + 1, Len(order))) = Len(order) - e
<1> DEFINE n == Len(order)
           q == SubSeq(order, e + 1, n)
<1>1. /\ n \in Nat
      /\ \A i, j \in 1..n : order[i] = order[j] => i = j
      /\ \A t : t \in Range(order) <=> \E i \in 1..n : order[i] = t
      /\ order \in Seq(Sources) /\ e \in Nat /\ e <= n
  BY OrderFacts DEF Order
<1>2. /\ q \in Seq(Sources) /\ Len(q) = n - e
      /\ \A i \in 1..(n - e) : q[i] = order[e + i]
  BY <1>1
<1> HIDE DEF q, n
<1>3. \A i \in 1..(n - e) : e + i \in 1..n
  BY <1>1
<1>4. \A i, j \in 1..(n - e) : q[i] = q[j] => i = j
  BY <1>1, <1>2, <1>3
<1>5. Order(q)
  BY <1>2, <1>4, OrderIntro
<1>6. \A t : t \in Range(q) <=> \E i \in 1..(n - e) : q[i] = t
  BY <1>2, <1>5, OrderFacts
<1>7. Range(q) \subseteq Range(order)
  BY <1>1, <1>2, <1>3, <1>6
<1> QED BY <1>2, <1>5, <1>7 DEF q, n
-----------------------------------------------------------------------------
(* A lookup that works on a directory holds its lock.                      *)
LocksHeld ==
    \A c \in Lookups : call[c].pc \in {"clone", "fetch"} => lock[call[c].source] = c

(* The sources of R that a lookup of M works on, or worked on when cut.    *)
SourcesOf(M, of, R) == {s \in R : \E c \in M : of[c].source = s}

(* Above the cap there are only directories for which no eviction has made *)
(* room: the directories are counted, not the lookups, since a lookup may  *)
(* have lost its directory to an eviction.                                 *)
Bounded ==
    /\ IsFiniteSet(Making)
    /\ Len(recent) <= Cap + Cardinality(SourcesOf(Making, call, Range(recent)))

CacheInv == TypeOK /\ LocksHeld /\ HalfClonesAreBeingMade /\ Bounded

LEMMA SourcesCounted ==
    ASSUME NEW M, IsFiniteSet(M), NEW of, NEW R
    PROVE  /\ IsFiniteSet(SourcesOf(M, of, R))
           /\ Cardinality(SourcesOf(M, of, R)) \in Nat
           /\ Cardinality(SourcesOf(M, of, R)) <= Cardinality(M)
<1> DEFINE T == SourcesOf(M, of, R)
           S == {c \in M : of[c].source \in R}
           f == [c \in S |-> of[c].source]
<1>1. IsFiniteSet(S) /\ Cardinality(S) <= Cardinality(M)
  BY FS_Subset
<1>2. f \in [S -> T]
  BY DEF SourcesOf
<1>3. \A s \in T : \E c \in S : f[c] = s
  BY DEF SourcesOf
<1>4. f \in Surjection(S, T)
  BY <1>2, <1>3 DEF Surjection
<1> HIDE DEF f, S, T
<1>5. IsFiniteSet(T) /\ Cardinality(T) <= Cardinality(S)
  BY <1>1, <1>4, FS_Surjection
<1>6. Cardinality(T) \in Nat /\ Cardinality(S) \in Nat /\ Cardinality(M) \in Nat
  BY <1>1, <1>5, FS_CardinalityType
<1> QED BY <1>1, <1>5, <1>6 DEF T

(* What one lookup's step does to the lookups.                             *)
Advanced(c, pc) ==
    /\ call' \in [Lookups -> CallType]
    /\ \A d \in Lookups : d # c => call'[d] = call[d]
    /\ call'[c].pc = pc /\ call'[c].source = call[c].source

LEMMA Advance ==
    ASSUME TypeOK, NEW c \in Lookups
    PROVE  /\ \A pc \in CallPc : Goto(c, pc) => Advanced(c, pc)
           /\ \A answer \in Answers : Answer(c, answer) => Advanced(c, "done")
<1>1. call \in [Lookups -> CallType]
  BY DEF TypeOK
<1>2. ASSUME NEW pc \in CallPc, Goto(c, pc) PROVE Advanced(c, pc)
  <2>1. call' = [call EXCEPT ![c] = [call[c] EXCEPT !.pc = pc]]
    BY <1>2 DEF Goto
  <2>2. [call[c] EXCEPT !.pc = pc] \in CallType
    BY <1>1 DEF CallType
  <2>3. call[c] \in CallType
    BY <1>1
  <2> QED BY <1>1, <2>1, <2>2, <2>3 DEF Advanced, CallType
<1>3. ASSUME NEW answer \in Answers, Answer(c, answer) PROVE Advanced(c, "done")
  <2> DEFINE rec == [call[c] EXCEPT !.pc = "done", !.answer = answer]
  <2>1. call[c] \in CallType /\ "done" \in CallPc
    BY <1>1 DEF CallPc
  <2>2. rec \in CallType /\ rec.pc = "done" /\ rec.source = call[c].source
    BY <2>1 DEF CallType
  <2>3. call' = [call EXCEPT ![c] = rec]
    BY <1>1, <1>3, <2>1 DEF Answer, CallType
  <2> HIDE DEF rec
  <2> QED BY <1>1, <2>2, <2>3 DEF Advanced
<1> QED BY <1>2, <1>3

LEMMA Settled ==
    ASSUME TypeOK, NEW c \in Lookups, NEW pc, Advanced(c, pc)
    PROVE  /\ pc \in {"clone", "cut", "raised"} => Making' = Making \cup {c}
           /\ pc \notin {"clone", "cut", "raised"} => Making' = Making \ {c}
           /\ call[c].source \in Sources
BY DEF TypeOK, Making, Advanced, CallType

(* A step that changes no order of magnitude: the same lookups make the    *)
(* same directories.                                                       *)
LEMMA SameBound ==
    ASSUME Bounded, Making' = Making, Range(recent') = Range(recent),
           Len(recent') = Len(recent),
           \A c \in Making : call'[c].source = call[c].source
    PROVE  Bounded'
<1>1. SourcesOf(Making, call', Range(recent)) = SourcesOf(Making, call, Range(recent))
  BY DEF SourcesOf
<1> QED BY <1>1 DEF Bounded
(* A step of c disturbs no lock that another lookup holds.                 *)
Undisturbed(c) ==
    LET s == call[c].source IN
    /\ \A t \in Sources : t # s => lock'[t] = lock[t]
    /\ lock[s] \in {Nobody, c} \/ lock'[s] = lock[s]

LEMMA LocksKept ==
    ASSUME TypeOK, LocksHeld, NEW c \in Lookups, NEW pc, Advanced(c, pc),
           Undisturbed(c),
           pc \in {"clone", "fetch"} => lock'[call[c].source] = c
    PROVE  LocksHeld'
<1> SUFFICES ASSUME NEW d \in Lookups, call'[d].pc \in {"clone", "fetch"}
             PROVE  lock'[call'[d].source] = d
  BY DEF LocksHeld
<1>1. CASE d = c
  BY <1>1 DEF Advanced
<1>2. CASE d # c
  <2>1. call'[d] = call[d] /\ call[d].source \in Sources
    BY <1>2 DEF Advanced, TypeOK, CallType
  <2>2. lock[call[d].source] = d
    BY <2>1 DEF LocksHeld
  <2>3. d # Nobody
    BY NobodyAssumption
  <2> QED BY <1>2, <2>1, <2>2, <2>3 DEF Undisturbed
<1> QED BY <1>1, <1>2

(* It leaves no half clone unaccounted for, if it says what becomes of its *)
(* own directory.                                                          *)
LEMMA HalfKept ==
    ASSUME TypeOK, HalfClonesAreBeingMade, NEW c \in Lookups, NEW pc, Advanced(c, pc),
           Undisturbed(c),
           \A t \in Range(recent') :
               t # call[c].source => t \in Range(recent) /\ dir'[t] = dir[t],
           NEW s, s = call[c].source,
           \/ s \notin Range(recent')
           \/ dir'[s].whole
           \/ pc = "clone" /\ lock'[s] = c
           \/ /\ s \in Range(recent) /\ dir'[s].whole = dir[s].whole
              /\ call[c].pc \notin {"clone", "cut"}
    PROVE  HalfClonesAreBeingMade'
<1> SUFFICES ASSUME NEW t \in Range(recent'), ~dir'[t].whole
             PROVE  \E d \in Lookups :
                        /\ call'[d].source = t
                        /\ \/ call'[d].pc = "clone" /\ lock'[t] = d
                           \/ call'[d].pc = "cut"
  BY DEF HalfClonesAreBeingMade
<1>1. CASE t # s
  <2>1. t \in Range(recent) /\ ~dir[t].whole
    BY <1>1
  <2>2. PICK d \in Lookups :
            /\ call[d].source = t
            /\ (call[d].pc = "clone" /\ lock[t] = d) \/ call[d].pc = "cut"
    BY <2>1 DEF HalfClonesAreBeingMade
  <2>3. d # c /\ t \in Sources
    BY <1>1, <2>2 DEF TypeOK, CallType
  <2>4. call'[d] = call[d] /\ lock'[t] = lock[t]
    BY <1>1, <2>3 DEF Advanced, Undisturbed
  <2> QED BY <2>2, <2>4
<1>2. CASE t = s /\ pc = "clone" /\ lock'[s] = c
  BY <1>2 DEF Advanced
<1>3. CASE /\ t = s /\ s \in Range(recent) /\ dir'[s].whole = dir[s].whole
           /\ call[c].pc \notin {"clone", "cut"}
  <2>1. PICK d \in Lookups :
            /\ call[d].source = t
            /\ (call[d].pc = "clone" /\ lock[t] = d) \/ call[d].pc = "cut"
    BY <1>3 DEF HalfClonesAreBeingMade
  <2>2. d # c /\ d # Nobody
    BY <1>3, <2>1, NobodyAssumption
  <2>3. call'[d] = call[d]
    BY <2>2 DEF Advanced
  <2>4. lock[t] = d => lock'[t] = d
    BY <1>3, <2>2 DEF Undisturbed
  <2> QED BY <2>1, <2>3, <2>4
<1> QED BY <1>1, <1>2, <1>3

-----------------------------------------------------------------------------
LEMMA DirFacts ==
    ASSUME TypeOK, NEW c \in Lookups
    PROVE  /\ call[c].source \in Sources /\ Order(recent) /\ Len(recent) \in Nat
           /\ now \in Time /\ dir \in [Sources -> DirType]
           /\ lock \in [Sources -> Lookups \cup {Nobody}]
           /\ \A whole \in BOOLEAN : [whole |-> whole, touched |-> now] \in DirType
           /\ NoDir \in DirType /\ NoDir.whole = FALSE
           /\ \A d \in DirType : [d EXCEPT !.touched = now] \in DirType
           /\ \A d \in DirType : [d EXCEPT !.touched = now].whole = d.whole
<1>1. call[c].source \in Sources
  BY DEF TypeOK, CallType
<1>2. Order(recent) /\ now \in Time
  BY DEF TypeOK, Order
<1>3. 0 \in Time
  BY TimesAssumption DEF Time
<1> QED BY <1>1, <1>2, <1>3, OrderFacts DEF TypeOK, DirType, NoDir

LEMMA CloneBeginsStep ==
    ASSUME CacheInv, NEW c \in Lookups, CloneBegins(c)
    PROVE  CacheInv'
<1> DEFINE s == call[c].source
           new == [whole |-> FALSE, touched |-> now]
<1>1. /\ call[c].pc = "wait" /\ lock[s] = Nobody /\ s \notin Range(recent)
      /\ lock' = [lock EXCEPT ![s] = c] /\ recent' = Append(recent, s)
      /\ dir' = [dir EXCEPT ![s] = new] /\ now' = now
      /\ Goto(c, "clone")
  BY DEF CloneBegins, Present
<1>2. /\ s \in Sources /\ Order(recent) /\ Len(recent) \in Nat /\ new \in DirType
      /\ dir \in [Sources -> DirType] /\ lock \in [Sources -> Lookups \cup {Nobody}]
      /\ TypeOK
  BY DirFacts DEF CacheInv
<1>3. Advanced(c, "clone")
  BY <1>1, <1>2, Advance DEF CallPc
<1>4. /\ Order(recent') /\ Range(recent') = Range(recent) \cup {s}
      /\ Len(recent') = Len(recent) + 1
  BY <1>1, <1>2, Appended
<1> HIDE DEF new
<1>5. TypeOK'
  BY <1>1, <1>2, <1>3, <1>4 DEF TypeOK, Order, Advanced
<1>6. Undisturbed(c) /\ lock'[s] = c
  BY <1>1, <1>2 DEF Undisturbed
<1>7. LocksHeld'
  BY <1>2, <1>3, <1>6, LocksKept DEF CacheInv
<1>8. HalfClonesAreBeingMade'
  <2>1. \A t \in Range(recent') : t # s => t \in Range(recent) /\ dir'[t] = dir[t]
    BY <1>1, <1>2, <1>4
  <2> QED BY <1>2, <1>3, <1>6, <2>1, HalfKept DEF CacheInv
<1>9. Bounded'
  <2> DEFINE old == SourcesOf(Making, call, Range(recent))
             now2 == SourcesOf(Making', call', Range(recent'))
  <2>1. Making' = Making \cup {c} /\ c \notin Making /\ IsFiniteSet(Making)
    BY <1>1, <1>2, <1>3, Settled DEF Making, CacheInv, Bounded
  <2>2. IsFiniteSet(Making')
    BY <2>1, FS_AddElement
  <2>3. IsFiniteSet(old) /\ Cardinality(old) \in Nat /\ s \notin old
    BY <1>1, <2>1, SourcesCounted DEF SourcesOf
  <2>4. \A d \in Making : d # c /\ call'[d].source = call[d].source
    BY <1>3, <2>1 DEF Advanced, Making
  <2>5. call'[c].source = s
    BY <1>3 DEF Advanced
  <2>7. now2 = old \cup {s}
    <3>1. \A t : t \in now2 => t \in old \cup {s}
      BY <1>4, <2>1, <2>4, <2>5 DEF SourcesOf
    <3>2. \A t : t \in old \cup {s} => t \in now2
      BY <1>4, <2>1, <2>4, <2>5 DEF SourcesOf
    <3> QED BY <3>1, <3>2
  <2>8. Cardinality(now2) = Cardinality(old) + 1
    BY <2>3, <2>7, FS_AddElement
  <2>9. Len(recent) <= Cap + Cardinality(old)
    BY DEF CacheInv, Bounded
  <2> HIDE DEF old
  <2> QED BY <1>2, <1>4, <2>2, <2>3, <2>8, <2>9, CapAssumption DEF Bounded
<1> QED BY <1>5, <1>7, <1>8, <1>9 DEF CacheInv

LEMMA CloneEndsStep ==
    ASSUME CacheInv, NEW c \in Lookups, CloneEnds(c)
    PROVE  CacheInv'
<1> DEFINE s == call[c].source
           excess == IF Len(recent) > Cap THEN Len(recent) - Cap ELSE 0
           kept == SubSeq(recent, excess + 1, Len(recent))
           order == IF s \in Range(kept) THEN Touched(kept, s) ELSE kept
           new == [whole |-> TRUE, touched |-> now]
<1>1. /\ call[c].pc = "clone" /\ recent' = order /\ now' = now
      /\ dir' = [d \in Sources |-> CASE d \notin Range(order) -> NoDir
                                      [] d \in Range(order) /\ d = s -> new
                                      [] OTHER -> dir[d]]
      /\ lock' = [lock EXCEPT ![s] = Nobody]
      /\ Goto(c, "log")
  BY DEF CloneEnds, Release
<1>2. /\ s \in Sources /\ Order(recent) /\ Len(recent) \in Nat /\ new \in DirType
      /\ dir \in [Sources -> DirType] /\ lock \in [Sources -> Lookups \cup {Nobody}]
      /\ NoDir \in DirType /\ TypeOK
  BY DirFacts DEF CacheInv
<1>3. Advanced(c, "log")
  BY <1>1, <1>2, Advance DEF CallPc
<1>4. /\ Order(order) /\ Range(order) \subseteq Range(recent)
      /\ Len(order) \in Nat /\ Len(order) <= Cap
  <2>1. excess \in 0..Len(recent) /\ Len(recent) - excess <= Cap
    BY <1>2, CapAssumption
  <2> HIDE DEF excess
  <2>2. /\ Order(kept) /\ Range(kept) \subseteq Range(recent)
        /\ Len(kept) = Len(recent) - excess
    BY <1>2, <2>1, Kept
  <2> HIDE DEF kept
  <2>3. /\ Order(order) /\ Range(order) = Range(kept) /\ Len(order) = Len(kept)
    BY <2>2, TouchedOrder
  <2> HIDE DEF order
  <2>4. Len(order) \in Nat
    BY <2>3, OrderFacts
  <2> QED BY <2>1, <2>2, <2>3, <2>4
<1>5. new.whole = TRUE
  OBVIOUS
<1> HIDE DEF excess, kept, order, new
<1>6. dir' \in [Sources -> DirType]
  BY <1>1, <1>2
<1>7. TypeOK'
  BY <1>1, <1>2, <1>3, <1>4, <1>6 DEF TypeOK, Order, Advanced
<1>8. lock[s] = c
  BY <1>1 DEF CacheInv, LocksHeld
<1>9. Undisturbed(c)
  BY <1>1, <1>2, <1>8 DEF Undisturbed
<1>10. LocksHeld'
  BY <1>2, <1>3, <1>9, LocksKept DEF CacheInv
<1>11. HalfClonesAreBeingMade'
  <2>1. \A t \in Range(recent) : t \in Sources
    BY <1>2, OrderFacts
  <2>2. \A t \in Range(recent') : t # s => t \in Range(recent) /\ dir'[t] = dir[t]
    BY <1>1, <1>4, <2>1
  <2>3. s \notin Range(recent') \/ dir'[s].whole
    BY <1>1, <1>2, <1>5
  <2> QED BY <1>2, <1>3, <1>9, <2>2, <2>3, HalfKept DEF CacheInv
<1>12. Bounded'
  <2>1. IsFiniteSet(Making')
    <3>1. Making' = Making \ {c}
      BY <1>2, <1>3, Settled
    <3> QED BY <3>1, FS_RemoveElement DEF CacheInv, Bounded
  <2> DEFINE sources == SourcesOf(Making', call', Range(recent'))
  <2>2. Cardinality(sources) \in Nat
    BY <2>1, SourcesCounted
  <2> HIDE DEF sources
  <2>3. Len(recent') <= Cap + Cardinality(sources)
    BY <1>1, <1>4, <2>2, CapAssumption
  <2> QED BY <2>1, <2>3 DEF Bounded, sources
<1> QED BY <1>7, <1>10, <1>11, <1>12 DEF CacheInv

LEMMA CloneFailsStep ==
    ASSUME CacheInv, NEW c \in Lookups, CloneFails(c)
    PROVE  CacheInv'
<1> DEFINE s == call[c].source
<1>1. /\ call[c].pc = "clone" /\ recent' = Without(recent, s) /\ now' = now
      /\ dir' = [dir EXCEPT ![s] = NoDir]
      /\ lock' = [lock EXCEPT ![s] = Nobody]
      /\ Answer(c, "nothing")
  BY DEF CloneFails, Release
<1>2. /\ s \in Sources /\ Order(recent) /\ Len(recent) \in Nat
      /\ dir \in [Sources -> DirType] /\ lock \in [Sources -> Lookups \cup {Nobody}]
      /\ NoDir \in DirType /\ TypeOK
  BY DirFacts DEF CacheInv
<1>3. Advanced(c, "done")
  BY <1>1, <1>2, Advance DEF Answers
<1>4. /\ Order(recent') /\ Range(recent') = Range(recent) \ {s}
      /\ Len(recent') = IF s \in Range(recent) THEN Len(recent) - 1 ELSE Len(recent)
  BY <1>1, <1>2, Removed
<1>5. TypeOK'
  BY <1>1, <1>2, <1>3, <1>4 DEF TypeOK, Order, Advanced
<1>6. lock[s] = c
  BY <1>1 DEF CacheInv, LocksHeld
<1>7. Undisturbed(c)
  BY <1>1, <1>2, <1>6 DEF Undisturbed
<1>8. LocksHeld'
  BY <1>2, <1>3, <1>7, LocksKept DEF CacheInv
<1>9. HalfClonesAreBeingMade'
  <2>1. \A t \in Range(recent') : t # s => t \in Range(recent) /\ dir'[t] = dir[t]
    BY <1>1, <1>2, <1>4, OrderFacts
  <2>2. s \notin Range(recent')
    BY <1>4
  <2> QED BY <1>2, <1>3, <1>7, <2>1, <2>2, HalfKept DEF CacheInv
<1>10. Bounded'
  <2> DEFINE old == SourcesOf(Making, call, Range(recent))
             left == SourcesOf(Making', call', Range(recent'))
  <2>1. Making' = Making \ {c} /\ c \in Making /\ IsFiniteSet(Making)
    BY <1>1, <1>2, <1>3, Settled DEF Making, CacheInv, Bounded
  <2>2. IsFiniteSet(Making')
    BY <2>1, FS_RemoveElement
  <2>3. IsFiniteSet(old) /\ Cardinality(old) \in Nat
    BY <2>1, SourcesCounted
  <2>4. \A d \in Making : d # c => call'[d] = call[d]
    BY <1>3 DEF Advanced, Making
  <2>5. left = old \ {s}
    <3>1. \A t : t \in left => t \in old \ {s}
      BY <1>4, <2>1, <2>4 DEF SourcesOf
    <3>2. \A t : t \in old \ {s} => t \in left
      BY <1>4, <2>1, <2>4 DEF SourcesOf
    <3> QED BY <3>1, <3>2
  <2>6. s \in Range(recent) <=> s \in old
    BY <2>1 DEF SourcesOf
  <2>7. Cardinality(left) = IF s \in old THEN Cardinality(old) - 1 ELSE Cardinality(old)
    BY <2>3, <2>5, FS_RemoveElement
  <2>8. Len(recent) <= Cap + Cardinality(old)
    BY DEF CacheInv, Bounded
  <2> HIDE DEF old, left
  <2>9. Len(recent') <= Cap + Cardinality(left)
    BY <1>2, <1>4, <2>3, <2>6, <2>7, <2>8, CapAssumption
  <2> QED BY <2>2, <2>9 DEF Bounded, left
<1> QED BY <1>5, <1>8, <1>9, <1>10 DEF CacheInv

(* An eviction that raises: the directory that vanished is one that        *)
(* another lookup was making, and the one just made takes its place.       *)
LEMMA EvictionRaisesStep ==
    ASSUME CacheInv, NEW c \in Lookups, EvictionRaises(c)
    PROVE  CacheInv'
<1> DEFINE s == call[c].source
<1>1. /\ call[c].pc = "clone" /\ s \in Range(recent) /\ now' = now
      /\ lock' = [lock EXCEPT ![s] = Nobody] /\ Goto(c, "raised")
  BY DEF EvictionRaises, Release, Present
<1>2. PICK d \in Lookups :
          /\ call[d].pc = "clone" /\ call[d].source # s
          /\ call[d].source \in Range(recent)
          /\ recent' = Without(recent, call[d].source)
          /\ dir' = [dir EXCEPT ![s].whole = TRUE, ![call[d].source] = NoDir]
  BY DEF EvictionRaises, Present
<1> DEFINE t == call[d].source
<1>3. /\ s \in Sources /\ t \in Sources /\ Order(recent) /\ Len(recent) \in Nat
      /\ dir \in [Sources -> DirType] /\ lock \in [Sources -> Lookups \cup {Nobody}]
      /\ NoDir \in DirType /\ TypeOK
  BY DirFacts DEF CacheInv
<1>4. Advanced(c, "raised")
  BY <1>1, <1>3, Advance DEF CallPc
<1>5. /\ Order(recent') /\ Range(recent') = Range(recent) \ {t}
      /\ Len(recent') = Len(recent) - 1
  BY <1>2, <1>3, Removed
<1>6. /\ dir' \in [Sources -> DirType] /\ dir'[s].whole
      /\ \A u \in Sources : u # s /\ u # t => dir'[u] = dir[u]
  <2>1. [dir[s] EXCEPT !.whole = TRUE] \in DirType
    BY <1>3 DEF DirType
  <2>2. dir' = [[dir EXCEPT ![s] = [dir[s] EXCEPT !.whole = TRUE]]
                  EXCEPT ![t] = NoDir]
    BY <1>2, <1>3
  <2>3. dir'[s] = [dir[s] EXCEPT !.whole = TRUE]
    BY <1>2, <1>3, <2>2
  <2>4. dir[s] \in DirType
    BY <1>3
  <2> QED BY <1>3, <2>1, <2>2, <2>3, <2>4 DEF DirType
<1>7. TypeOK'
  BY <1>1, <1>3, <1>4, <1>5, <1>6 DEF TypeOK, Order, Advanced
<1>8. lock[s] = c
  BY <1>1 DEF CacheInv, LocksHeld
<1>9. Undisturbed(c)
  BY <1>1, <1>3, <1>8 DEF Undisturbed
<1>10. LocksHeld'
  BY <1>3, <1>4, <1>9, LocksKept DEF CacheInv
<1>11. HalfClonesAreBeingMade'
  <2>1. \A u \in Range(recent') : u # s => u \in Range(recent) /\ dir'[u] = dir[u]
    BY <1>3, <1>5, <1>6, OrderFacts
  <2> QED BY <1>3, <1>4, <1>6, <1>9, <2>1, HalfKept DEF CacheInv
<1>12. Bounded'
  <2> DEFINE old == SourcesOf(Making, call, Range(recent))
             left == SourcesOf(Making', call', Range(recent'))
  <2>1. /\ Making' = Making /\ c \in Making /\ d \in Making
        /\ IsFiniteSet(Making)
    <3>1. c \in Making /\ d \in Making /\ IsFiniteSet(Making)
      BY <1>1, <1>2 DEF Making, CacheInv, Bounded
    <3>2. Making' = Making \cup {c}
      BY <1>3, <1>4, Settled
    <3> QED BY <3>1, <3>2
  <2>2. \A e \in Making : call'[e].source = call[e].source
    BY <1>4 DEF Advanced, Making
  <2>3. IsFiniteSet(old) /\ Cardinality(old) \in Nat
    BY <2>1, SourcesCounted
  <2>4. left = old \ {t} /\ t \in old
    BY <1>2, <1>5, <2>1, <2>2 DEF SourcesOf
  <2>5. Cardinality(left) = Cardinality(old) - 1
    BY <2>3, <2>4, FS_RemoveElement
  <2>6. Len(recent) <= Cap + Cardinality(old)
    BY DEF CacheInv, Bounded
  <2> HIDE DEF old, left
  <2>7. Len(recent') <= Cap + Cardinality(left)
    BY <1>3, <1>5, <2>3, <2>5, <2>6, CapAssumption
  <2> QED BY <2>1, <2>7 DEF Bounded, left
<1> QED BY <1>7, <1>10, <1>11, <1>12 DEF CacheInv

(* The steps that make and remove no directory.                            *)
LEMMA UseStep ==
    ASSUME CacheInv, NEW c \in Lookups, NEW pc, Advanced(c, pc),
           call[c].pc \notin {"clone", "cut", "raised"},
           pc \notin {"clone", "cut", "raised"},
           Order(recent'), Range(recent') = Range(recent), Len(recent') = Len(recent),
           now' = now, dir' \in [Sources -> DirType],
           \A t \in Sources : dir'[t].whole = dir[t].whole,
           \A t \in Sources : t # call[c].source => dir'[t] = dir[t],
           lock' \in [Sources -> Lookups \cup {Nobody}],
           Undisturbed(c), pc = "fetch" => lock'[call[c].source] = c
    PROVE  CacheInv'
<1> DEFINE s == call[c].source
<1>1. TypeOK /\ s \in Sources /\ \A t \in Range(recent) : t \in Sources
  <2>1. TypeOK /\ s \in Sources /\ recent \in Seq(Sources)
    BY DirFacts DEF CacheInv, TypeOK
  <2> QED BY <2>1 DEF Range
<1>2. TypeOK'
  BY <1>1 DEF TypeOK, Order, Advanced
<1>3. LocksHeld'
  BY <1>1, LocksKept DEF CacheInv
<1>4. HalfClonesAreBeingMade'
  <2>1. \A t \in Range(recent') : t # s => t \in Range(recent) /\ dir'[t] = dir[t]
    BY <1>1
  <2>2. s \notin Range(recent') \/ (s \in Range(recent) /\ dir'[s].whole = dir[s].whole)
    BY <1>1
  <2> QED BY <1>1, <2>1, <2>2, HalfKept DEF CacheInv
<1>5. Bounded'
  <2>1. Making' = Making
    <3>1. Making' = Making \ {c} /\ c \notin Making
      BY <1>1, Settled DEF Making
    <3> QED BY <3>1
  <2>2. \A d \in Making : call'[d].source = call[d].source
    BY DEF Advanced, Making
  <2> QED BY <2>1, <2>2, SameBound DEF CacheInv
<1> QED BY <1>2, <1>3, <1>4, <1>5 DEF CacheInv

(* The age of a directory changes, and nothing else of it.                 *)
LEMMA TouchedDir ==
    ASSUME TypeOK, NEW s \in Sources, dir' = [dir EXCEPT ![s].touched = now]
    PROVE  /\ dir' \in [Sources -> DirType]
           /\ \A t \in Sources : dir'[t].whole = dir[t].whole
           /\ \A t \in Sources : t # s => dir'[t] = dir[t]
BY DEF TypeOK, DirType

LEMMA UsesStep ==
    ASSUME CacheInv, NEW c \in Lookups,
           Reuse(c) \/ FetchBegins(c) \/ FetchEnds(c) \/ Log(c)
    PROVE  CacheInv'
<1> DEFINE s == call[c].source
<1>1. /\ s \in Sources /\ Order(recent) /\ Len(recent) \in Nat
      /\ dir \in [Sources -> DirType] /\ lock \in [Sources -> Lookups \cup {Nobody}]
      /\ TypeOK
  BY DirFacts DEF CacheInv
<1>2. CASE Reuse(c)
  <2>1. /\ call[c].pc = "wait" /\ lock[s] = Nobody /\ s \in Range(recent)
        /\ recent' = Touched(recent, s) /\ dir' = [dir EXCEPT ![s].touched = now]
        /\ Goto(c, "log") /\ UNCHANGED <<now, lock>>
    BY <1>2 DEF Reuse, Present
  <2>2. Advanced(c, "log")
    BY <1>1, <2>1, Advance DEF CallPc
  <2>3. Order(recent') /\ Range(recent') = Range(recent) /\ Len(recent') = Len(recent)
    BY <1>1, <2>1, TouchedOrder
  <2>4. Undisturbed(c) /\ lock' \in [Sources -> Lookups \cup {Nobody}]
    BY <1>1, <2>1 DEF Undisturbed
  <2> QED BY <1>1, <2>1, <2>2, <2>3, <2>4, TouchedDir, UseStep
<1>3. CASE FetchBegins(c)
  <2>1. /\ call[c].pc = "wait" /\ lock[s] = Nobody
        /\ lock' = [lock EXCEPT ![s] = c]
        /\ Goto(c, "fetch") /\ UNCHANGED <<now, recent, dir>>
    BY <1>3 DEF FetchBegins
  <2>2. Advanced(c, "fetch")
    BY <1>1, <2>1, Advance DEF CallPc
  <2>3. /\ Undisturbed(c) /\ lock' \in [Sources -> Lookups \cup {Nobody}]
        /\ lock'[s] = c
    BY <1>1, <2>1 DEF Undisturbed
  <2> QED BY <1>1, <2>1, <2>2, <2>3, UseStep
<1>4. CASE FetchEnds(c)
  <2>1. /\ call[c].pc = "fetch" /\ lock' = [lock EXCEPT ![s] = Nobody]
        /\ Goto(c, "log") /\ now' = now
        /\ \/ /\ s \in Range(recent) /\ recent' = Touched(recent, s)
              /\ dir' = [dir EXCEPT ![s].touched = now]
           \/ UNCHANGED <<recent, dir>>
    BY <1>4 DEF FetchEnds, Present, Release
  <2>2. Advanced(c, "log")
    BY <1>1, <2>1, Advance DEF CallPc
  <2>3. lock[s] = c
    BY <2>1 DEF CacheInv, LocksHeld
  <2>4. Undisturbed(c) /\ lock' \in [Sources -> Lookups \cup {Nobody}]
    BY <1>1, <2>1, <2>3 DEF Undisturbed
  <2>5. CASE s \in Range(recent) /\ recent' = Touched(recent, s)
             /\ dir' = [dir EXCEPT ![s].touched = now]
    <3>1. Order(recent') /\ Range(recent') = Range(recent) /\ Len(recent') = Len(recent)
      BY <1>1, <2>5, TouchedOrder
    <3> QED BY <1>1, <2>1, <2>2, <2>4, <2>5, <3>1, TouchedDir, UseStep
  <2>6. CASE UNCHANGED <<recent, dir>>
    BY <1>1, <2>1, <2>2, <2>4, <2>6, UseStep
  <2> QED BY <2>1, <2>5, <2>6
<1>5. CASE Log(c)
  <2>1. /\ call[c].pc = "log" /\ UNCHANGED <<now, recent, dir, lock>>
        /\ Answer(c, "history") \/ Answer(c, "nothing")
    BY <1>5 DEF Log, Answer
  <2>2. Advanced(c, "done")
    BY <1>1, <2>1, Advance DEF Answers
  <2>3. Undisturbed(c)
    BY <2>1 DEF Undisturbed
  <2> QED BY <1>1, <2>1, <2>2, <2>3, UseStep
<1> QED BY <1>2, <1>3, <1>4, <1>5

-----------------------------------------------------------------------------
LEMMA LookupStep ==
    ASSUME CacheInv, NEW c \in Lookups, Lookup(c)
    PROVE  CacheInv'
<1>1. PICK s \in Sources :
        call' = [call EXCEPT ![c].pc = "wait", ![c].source = s]
  BY DEF Lookup
<1>2. call[c].pc = "idle" /\ UNCHANGED <<now, recent, dir, lock>>
  BY DEF Lookup
<1>3. call \in [Lookups -> CallType]
  BY DEF CacheInv, TypeOK
<1>4. /\ call' \in [Lookups -> CallType] /\ call'[c].pc = "wait"
      /\ \A d \in Lookups : d # c => call'[d] = call[d]
  <2> DEFINE rec == [call[c] EXCEPT !.pc = "wait", !.source = s]
  <2>1. rec \in CallType /\ rec.pc = "wait"
    BY <1>3 DEF CallType, CallPc
  <2>2. call' = [call EXCEPT ![c] = rec]
    BY <1>1, <1>3 DEF CallType
  <2> HIDE DEF rec
  <2> QED BY <1>3, <2>1, <2>2
<1>5. TypeOK'
  BY <1>2, <1>4 DEF CacheInv, TypeOK
<1>6. LocksHeld'
  BY <1>2, <1>4 DEF CacheInv, LocksHeld
<1>7. HalfClonesAreBeingMade'
  <2> SUFFICES ASSUME NEW t \in Range(recent), ~dir[t].whole
               PROVE  \E d \in Lookups :
                          /\ call'[d].source = t
                          /\ \/ call'[d].pc = "clone" /\ lock[t] = d
                             \/ call'[d].pc = "cut"
    BY <1>2 DEF HalfClonesAreBeingMade
  <2>1. PICK d \in Lookups :
            /\ call[d].source = t
            /\ (call[d].pc = "clone" /\ lock[t] = d) \/ call[d].pc = "cut"
    BY DEF CacheInv, HalfClonesAreBeingMade
  <2>2. d # c
    BY <1>2, <2>1
  <2> QED BY <1>4, <2>1, <2>2
<1>8. Bounded'
  <2>1. Making' = Making /\ c \notin Making
    BY <1>2, <1>4 DEF Making
  <2>2. \A d \in Making : call'[d].source = call[d].source
    BY <1>4, <2>1 DEF Making
  <2> QED BY <1>2, <2>1, <2>2, SameBound DEF CacheInv
<1> QED BY <1>5, <1>6, <1>7, <1>8 DEF CacheInv

(* The worker stops: its locks go, the directories stay.                   *)
LEMMA StopStep ==
    ASSUME CacheInv, WorkerStops
    PROVE  CacheInv'
<1>1. /\ lock' = [s \in Sources |-> Nobody] /\ UNCHANGED <<now, recent, dir>>
      /\ call' = [c \in Lookups |->
                 CASE call[c].pc = "clone" -> [call[c] EXCEPT !.pc = "cut"]
                   [] call[c].pc \in {"wait", "fetch", "log"} -> [call[c] EXCEPT !.pc = "done"]
                   [] OTHER -> call[c]]
  BY DEF WorkerStops
<1>2. call \in [Lookups -> CallType]
  BY DEF CacheInv, TypeOK
<1>3. ASSUME NEW c \in Lookups
      PROVE  /\ call'[c] \in CallType
             /\ call'[c].source = call[c].source
             /\ call'[c].pc \notin {"clone", "fetch"}
             /\ call[c].pc \in {"clone", "cut"} => call'[c].pc = "cut"
             /\ call'[c].pc = "cut" => call[c].pc \in {"clone", "cut"}
             /\ call'[c].pc = "raised" <=> call[c].pc = "raised"
  <2>1. call[c] \in CallType
    BY <1>2
  <2>2. CASE call[c].pc = "clone"
    <3>1. call'[c] = [call[c] EXCEPT !.pc = "cut"]
      BY <1>1, <2>2
    <3> QED BY <2>1, <2>2, <3>1 DEF CallType, CallPc
  <2>3. CASE call[c].pc \in {"wait", "fetch", "log"}
    <3>1. call'[c] = [call[c] EXCEPT !.pc = "done"]
      BY <1>1, <2>3
    <3> QED BY <2>1, <2>3, <3>1 DEF CallType, CallPc
  <2>4. CASE call[c].pc \notin {"clone", "wait", "fetch", "log"}
    <3>1. call'[c] = call[c]
      BY <1>1, <2>4
    <3> QED BY <2>1, <2>4, <3>1
  <2> QED BY <2>2, <2>3, <2>4
<1>4. call' \in [Lookups -> CallType]
  BY <1>1, <1>3
<1>5. TypeOK'
  BY <1>1, <1>4 DEF CacheInv, TypeOK
<1>6. LocksHeld'
  BY <1>3 DEF LocksHeld
<1>7. HalfClonesAreBeingMade'
  BY <1>1, <1>3 DEF CacheInv, HalfClonesAreBeingMade
<1>8. Bounded'
  <2>1. Making' = Making
    BY <1>3 DEF Making
  <2>2. \A d \in Making : call'[d].source = call[d].source
    BY <1>3 DEF Making
  <2> QED BY <1>1, <2>1, <2>2, SameBound DEF CacheInv
<1> QED BY <1>5, <1>6, <1>7, <1>8 DEF CacheInv

LEMMA TickStep ==
    ASSUME CacheInv, Tick
    PROVE  CacheInv'
<1>1. now \in Time /\ now < MaxTime /\ now' = now + 1
      /\ UNCHANGED <<recent, dir, lock, call>>
  BY DEF CacheInv, TypeOK, Tick
<1>2. now' \in Time
  BY <1>1, TimesAssumption DEF Time
<1> QED BY <1>1, <1>2 DEF CacheInv, TypeOK, LocksHeld, HalfClonesAreBeingMade, Bounded,
                          Making

LEMMA Start == Init => CacheInv
<1> SUFFICES ASSUME Init PROVE CacheInv
  OBVIOUS
<1>1. (CHOOSE s \in Sources : TRUE) \in Sources
  BY SourcesAssumption
<1>2. call \in [Lookups -> CallType] /\ \A c \in Lookups : call[c].pc = "idle"
  BY <1>1 DEF Init, CallType, CallPc, Answers
<1>3. recent \in Seq(Sources) /\ Len(recent) = 0 /\ IsInjective(recent)
      /\ Range(recent) = {}
  BY DEF Init, IsInjective, Range
<1>4. dir \in [Sources -> DirType] /\ now \in Time
  BY TimesAssumption DEF Init, NoDir, DirType, Time
<1>5. TypeOK
  BY <1>2, <1>3, <1>4 DEF Init, TypeOK
<1>6. Making = {} /\ SourcesOf(Making, call, Range(recent)) = {}
  BY <1>2, <1>3 DEF Making, SourcesOf
<1>7. Bounded
  BY <1>3, <1>6, CapAssumption, FS_EmptySet DEF Bounded
<1> QED BY <1>2, <1>3, <1>5, <1>7 DEF CacheInv, LocksHeld, HalfClonesAreBeingMade

(* Every step of a lookup, of the clock and of a worker's end keeps the    *)
(* invariant: the one induction of this module.                            *)
THEOREM Invariance == Spec => []CacheInv
<1>1. ASSUME CacheInv, [Next]_vars PROVE CacheInv'
  <2>1. CASE UNCHANGED vars
    BY <1>1, <2>1 DEF CacheInv, TypeOK, LocksHeld, HalfClonesAreBeingMade, Bounded,
                      Making, vars
  <2>2. ASSUME NEW c \in Lookups, Lookup(c) PROVE CacheInv'
    BY <1>1, <2>2, LookupStep
  <2>3. ASSUME NEW c \in Lookups, Step(c) PROVE CacheInv'
    BY <1>1, <2>3, CloneBeginsStep, CloneEndsStep, CloneFailsStep,
       EvictionRaisesStep, UsesStep DEF Step
  <2>4. CASE Tick
    BY <1>1, <2>4, TickStep
  <2>5. CASE WorkerStops
    BY <1>1, <2>5, StopStep
  <2> QED BY <1>1, <2>1, <2>2, <2>3, <2>4, <2>5 DEF Next
<1> QED BY Start, <1>1, PTL DEF Spec

(* The variables of the cache keep their types, and no directory is listed *)
(* twice (_clone_or_reuse, _evict_if_needed).                              *)
THEOREM TypeCorrect == Spec => []TypeOK
<1>1. CacheInv => TypeOK
  BY DEF CacheInv
<1> QED BY Invariance, <1>1, PTL

(* Beyond the cap, the cache holds at most one directory for each clone    *)
(* being made, cut off or followed by an eviction that raised              *)
(* (_evict_if_needed).                                                     *)
THEOREM CacheIsBounded == Spec => []CacheBounded
<1>1. CacheInv => CacheBounded
  <2> SUFFICES ASSUME CacheInv PROVE Len(recent) <= Cap + Cardinality(Making)
    BY DEF CacheBounded
  <2> DEFINE sources == SourcesOf(Making, call, Range(recent))
  <2>1. /\ IsFiniteSet(Making) /\ Len(recent) <= Cap + Cardinality(sources)
        /\ Len(recent) \in Nat
    BY DEF CacheInv, Bounded, TypeOK
  <2>2. Cardinality(sources) \in Nat /\ Cardinality(sources) <= Cardinality(Making)
    BY <2>1, SourcesCounted
  <2>3. Cardinality(Making) \in Nat
    BY <2>1, FS_CardinalityType
  <2> HIDE DEF sources
  <2> QED BY <2>1, <2>2, <2>3, CapAssumption
<1> QED BY Invariance, <1>1, PTL

(* A directory without a complete clone is being cloned by the holder of   *)
(* its lock or was left by a lookup cut off with its worker: no failure    *)
(* and no eviction leaves one (_clone, _clone_or_reuse).                   *)
THEOREM HalfClonesAreKnown == Spec => []HalfClonesAreBeingMade
<1>1. CacheInv => HalfClonesAreBeingMade
  BY DEF CacheInv
<1> QED BY Invariance, <1>1, PTL
=============================================================================
