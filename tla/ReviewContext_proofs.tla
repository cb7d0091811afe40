------------------------- MODULE ReviewContext_proofs -------------------------
(***************************************************************************)
(* What a review adds to its prompt and its findings is comparable, the    *)
(* best within the budget, and the history of the right lines, for any     *)
(* diffs, chunks, models and bounds.                                       *)
(*                                                                         *)
(* The folds over sequences are functions on finite sets that CHOOSE       *)
(* picks: before anything can be said of the tokens of a prompt or of the  *)
(* windows of a diff, such a function must be shown to exist, and its      *)
(* value to be the one that the loops of search and of                     *)
(* collapse_diff_to_windows leave.                                         *)
(***************************************************************************)
EXTENDS ReviewContext, FiniteSetTheorems, WellFoundedInduction, TLAPS

(* What may be compared with the queries.  A repository that is ready has  *)
(* a model; what it holds has that model; and between the check and the    *)
(* last query it holds chunks of the worker's model only.                  *)
IndexInv ==
    /\ \A c \in repo.chunks : c.space = repo.model
    /\ repo.ready => repo.model \in Models
    /\ pc \in {"embed", "ask"} => repo.chunks = {} \/ repo.model = model
    /\ pc = "ask" => vectors = model
    /\ ContextIsComparable

(* How far the search has come.                                            *)
SearchInv ==
    /\ diff \in Diffs
    /\ pc \in {"check", "embed", "refused"} => asked = 0 /\ best = <<>>
    /\ pc \in {"check", "embed", "refused", "ask"} => selected = <<>>
    /\ pc \in {"embed", "ask"} => asked < diff.queries
    /\ pc # "trim" => left = {}

(* What the loop of search leaves: each chunk that is left out fits        *)
(* nowhere among those that score at least as high.                        *)
TrimmedExactly ==
    /\ Tokens(selected) <= Budget
    /\ \A i, j \in DOMAIN selected :
         i < j => /\ selected[i] # selected[j]
                  /\ best[selected[i]] >= best[selected[j]]
    /\ pc # "ask" =>
         \A c \in DOMAIN best \ (left \cup ToSet(selected)) :
             \E n \in 0..Len(selected) :
                 /\ \A i \in 1..n : best[selected[i]] >= best[c]
                 /\ Tokens(SubSeq(selected, 1, n)) + Cost[c.no] > Budget

(* What was chosen scores at least what is left.                           *)
TrimInv ==
    /\ \A i \in DOMAIN selected :
         selected[i] \notin left /\ \A d \in left : best[d] <= best[selected[i]]
    /\ TrimmedExactly

(* The windows are those of the diff, unless the repository is gone.       *)
WindowInv ==
    /\ windows \in {<<>>, Collapse(diff.hunks)}
    /\ pc \in {"history", "done"} /\ repo.exists => windows = Collapse(diff.hunks)
    /\ pc # "done" => pool = {}

ContextInv == TypeOK /\ IndexInv /\ SearchInv /\ TrimInv /\ WindowInv

WindowsAreBounded(ws) ==
    /\ Len(ws) <= MaxWindows
    /\ \A w \in ToSet(ws) : w[1] <= w[2] /\ w[2] - w[1] < MaxRange

-----------------------------------------------------------------------------
(* Induction, from the well-foundedness of the natural numbers.            *)

(* A set of natural numbers has a least one, which stands in for           *)
(* induction.                                                              *)
LEMMA LeastNatural ==
    ASSUME NEW T \in SUBSET Nat, T # {}
    PROVE  \E x \in T : \A y \in T : x <= y
<1> DEFINE R == OpToRel(<, Nat)
<1>1. IsWellFoundedOn(R, Nat)
  BY NatLessThanWellFounded
<1>2. \A x, y \in Nat : x < y => <<x, y>> \in R
  BY DEF OpToRel
<1> HIDE DEF R
<1>3. \E x \in T : \A y \in T : ~(<<y, x>> \in R)
  BY <1>1, WFMin
<1>4. PICK x \in T : \A y \in T : ~(<<y, x>> \in R)
  BY <1>3
<1>5. ASSUME NEW y \in T
      PROVE  x <= y
  <2>1. x \in Nat /\ y \in Nat
    BY <1>4
  <2>2. ~(y < x)
    BY <2>1, <1>2, <1>4
  <2> QED BY <2>1, <2>2
<1> QED BY <1>4, <1>5

(* Induction on the numbers of a set: what holds of 0 and passes to the    *)
(* next one is true of all.                                                *)
LEMMA Inductive ==
    ASSUME NEW T \in SUBSET Nat, 0 \in T, \A n \in Nat : n \in T => n + 1 \in T
    PROVE  T = Nat
<1> SUFFICES ASSUME Nat \ T # {} PROVE FALSE
  OBVIOUS
<1> DEFINE B == Nat \ T
<1>1. B \in SUBSET Nat /\ B # {}
  OBVIOUS
<1> HIDE DEF B
<1>2. PICK x \in B : \A y \in B : x <= y
  BY <1>1, LeastNatural
<1>3. x \in Nat /\ x # 0 /\ x \notin T
  BY <1>1 DEF B
<1>4. x - 1 \in Nat /\ ~(x <= x - 1) /\ (x - 1) + 1 = x
  BY <1>3
<1>5. x - 1 \in T
  BY <1>2, <1>4 DEF B
<1> QED BY <1>3, <1>4, <1>5

(* A recursion that takes the elements of a finite set out one by one, as  *)
(* the folds of the community modules do, has a solution.                  *)
Picks(pick, D) == \A s \in SUBSET D : s # {} => pick[s] \in s

Folded(f, D, base, pick, step) ==
    \A s \in SUBSET D :
        f[s] = IF s = {} THEN base ELSE step[f[s \ {pick[s]}], pick[s]]

LEMMA Recursion ==
    ASSUME NEW D, IsFiniteSet(D), NEW V, NEW base \in V,
           NEW pick, Picks(pick, D), NEW step \in [V \X D -> V]
    PROVE  \E f \in [SUBSET D -> V] : Folded(f, D, base, pick, step)
<1> DEFINE Small(n) == {s \in SUBSET D : Cardinality(s) <= n}
           Solves(f, n) == \A s \in Small(n) :
              f[s] = IF s = {} THEN base ELSE step[f[s \ {pick[s]}], pick[s]]
           T == {n \in Nat : \E f \in [Small(n) -> V] : Solves(f, n)}
<1>1. \A s \in SUBSET D : IsFiniteSet(s) /\ Cardinality(s) \in Nat
  BY FS_Subset, FS_CardinalityType
<1>2. ASSUME NEW n \in Nat, NEW s \in Small(n + 1), s # {}
      PROVE  /\ s \ {pick[s]} \in Small(n) /\ pick[s] \in D
             /\ s \ {pick[s]} \in Small(n + 1)
  <2>1. pick[s] \in s /\ IsFiniteSet(s) /\ Cardinality(s) \in Nat
    BY <1>1, <1>2 DEF Picks
  <2>2. Cardinality(s \ {pick[s]}) = Cardinality(s) - 1
    BY <2>1, FS_RemoveElement
  <2> QED BY <2>1, <2>2
<1>3. 0 \in T
  <2>1. \A s \in Small(0) : s = {}
    BY <1>1, FS_EmptySet
  <2> DEFINE f == [s \in Small(0) |-> base]
  <2>2. f \in [Small(0) -> V] /\ Solves(f, 0)
    BY <2>1
  <2> QED BY <2>2
<1>4. ASSUME NEW n \in Nat, n \in T
      PROVE  n + 1 \in T
  <2>1. PICK f \in [Small(n) -> V] : Solves(f, n)
    BY <1>4
  <2> DEFINE val(s) == IF s = {} THEN base ELSE step[f[s \ {pick[s]}], pick[s]]
             g == [s \in Small(n + 1) |-> val(s)]
  <2>2. ASSUME NEW s \in Small(n + 1) PROVE val(s) \in V
    <3>1. CASE s = {}
      BY <3>1
    <3>2. CASE s # {}
      <4>1. f[s \ {pick[s]}] \in V /\ pick[s] \in D
        BY <1>2, <3>2
      <4> QED BY <3>2, <4>1
    <3> QED BY <3>1, <3>2
  <2>3. \A s \in Small(n) : s \in Small(n + 1) /\ g[s] = f[s]
    <3>1. \A s \in Small(n) : s \in Small(n + 1)
      BY <1>1
    <3> QED BY <2>1, <3>1
  <2>4. ASSUME NEW s \in Small(n + 1), s # {}
        PROVE  g[s] = step[g[s \ {pick[s]}], pick[s]]
    <3>1. g[s \ {pick[s]}] = f[s \ {pick[s]}]
      BY <1>2, <2>3, <2>4
    <3> QED BY <2>4, <3>1
  <2>5. \A s \in Small(n + 1) : s = {} => g[s] = base
    OBVIOUS
  <2>6. g \in [Small(n + 1) -> V] /\ n + 1 \in Nat
    <3> HIDE DEF val, Small
    <3> QED BY <2>2
  <2>7. Solves(g, n + 1)
    <3> HIDE DEF g, Small
    <3> QED BY <2>4, <2>5
  <2> HIDE DEF g, Solves
  <2> QED BY <2>6, <2>7
<1>5. T = Nat
  <2>1. T \in SUBSET Nat
    OBVIOUS
  <2> HIDE DEF T
  <2> QED BY <1>3, <1>4, <2>1, Inductive
<1>6. Cardinality(D) \in T
  BY <1>1, <1>5
<1>7. Small(Cardinality(D)) = SUBSET D
  BY FS_Subset
<1> QED BY <1>6, <1>7 DEF Folded

-----------------------------------------------------------------------------
(* The tokens of a prompt.                                                 *)

(* FoldLeft takes the greatest place first.                                *)
LEMMA MaxOfSome ==
    ASSUME NEW n \in Nat, NEW s \in SUBSET (1..n), s # {}
    PROVE  Max(s) \in s /\ \A y \in s : y <= Max(s)
<1> DEFINE T == {n - x : x \in s}
<1>1. T \in SUBSET Nat /\ T # {}
  OBVIOUS
<1> HIDE DEF T
<1>2. PICK t \in T : \A u \in T : t <= u
  BY <1>1, LeastNatural
<1>3. PICK x \in s : t = n - x
  BY <1>2 DEF T
<1>4. \A y \in s : n - x <= n - y
  BY <1>2, <1>3 DEF T
<1>5. \A y \in s : x >= y
  BY <1>4
<1>6. \E z \in s : \A y \in s : z >= y
  BY <1>5
<1>7. Max(s) \in s /\ \A y \in s : Max(s) >= y
  BY <1>6 DEF Max
<1> QED BY <1>7

(* The prefixes of a sequence, as FoldLeft takes them apart.               *)
LEMMA Prefix ==
    ASSUME NEW k \in Nat, k # 0
    PROVE  /\ Max(1..k) = k /\ (1..k) \ {k} = 1..(k - 1) /\ 1..k # {}
           /\ \A n \in Nat : k <= n => 1..k \in SUBSET (1..n)
<1>1. k \in 1..k /\ 1..k \in SUBSET (1..k)
  OBVIOUS
<1>2. Max(1..k) \in 1..k /\ k <= Max(1..k)
  BY <1>1, MaxOfSome
<1> QED BY <1>2

(* The tokens of a sequence of chunks, as running sums.                    *)
Sums(m, seq) ==
    /\ m \in [0..Len(seq) -> Nat] /\ m[0] = 0
    /\ \A k \in 1..Len(seq) : m[k] = m[k - 1] + Cost[seq[k].no]

HaveCost(S) == \A x \in S : x.no \in DOMAIN Cost

(* Tokens is the last of the running sums.                                 *)
LEMMA TokensAreSums ==
    ASSUME NEW S, HaveCost(S), NEW seq \in Seq(S)
    PROVE  \E m : Sums(m, seq) /\ Tokens(seq) = m[Len(seq)]
<1> DEFINE n == Len(seq)
           D == DOMAIN seq
           Eqn(f) == f = [s \in SUBSET D |-> IF s = {} THEN 0
                            ELSE f[s \ {Max(s)}] + Cost[seq[Max(s)].no]]
           c == CHOOSE f : Eqn(f)
           m == [k \in 0..n |-> c[1..k]]
<1>1. n \in Nat /\ D = 1..n /\ \A i \in D : Cost[seq[i].no] \in Nat
  BY ChunksAssumption DEF HaveCost
<1>2. \E f : Eqn(f)
  <2> DEFINE pick == [s \in SUBSET D |-> Max(s)]
             step == [p \in Nat \X D |-> p[1] + Cost[seq[p[2]].no]]
  <2>1. IsFiniteSet(D)
    BY <1>1, FS_Interval
  <2>2. Picks(pick, D)
    BY <1>1, MaxOfSome DEF Picks
  <2>3. step \in [Nat \X D -> Nat]
    BY <1>1
  <2>4. \A v \in Nat, i \in D : step[v, i] = v + Cost[seq[i].no]
    OBVIOUS
  <2>5. \A s \in SUBSET D : pick[s] = Max(s)
    OBVIOUS
  <2> HIDE DEF step, pick, D
  <2>6. PICK f \in [SUBSET D -> Nat] : Folded(f, D, 0, pick, step)
    BY <2>1, <2>2, <2>3, Recursion
  <2>7. ASSUME NEW s \in SUBSET D, s # {}
        PROVE  f[s] = f[s \ {Max(s)}] + Cost[seq[Max(s)].no]
    <3>1. f[s \ {pick[s]}] \in Nat /\ pick[s] \in D
      BY <2>2, <2>7 DEF Picks
    <3> QED BY <2>4, <2>5, <2>6, <2>7, <3>1 DEF Folded
  <2>8. Eqn(f)
    BY <2>6, <2>7 DEF Folded
  <2> QED BY <2>8
<1>3. Eqn(c)
  BY <1>2
<1>4. Tokens(seq) = c[D]
  BY DEF Tokens, FoldLeft, MapThenFoldSet
<1> HIDE DEF c
<1>5. m[0] = 0
  <2>1. 1..0 = {} /\ {} \in SUBSET D
    OBVIOUS
  <2>2. c[{}] = 0
    BY <1>3, <2>1
  <2> QED BY <1>1, <2>1, <2>2
<1>6. ASSUME NEW k \in 1..n
      PROVE  m[k] = m[k - 1] + Cost[seq[k].no]
  <2>1. 1..k \in SUBSET D /\ 1..k # {} /\ Max(1..k) = k /\ (1..k) \ {k} = 1..(k - 1)
    BY <1>1, Prefix
  <2>2. c[1..k] = c[(1..k) \ {Max(1..k)}] + Cost[seq[Max(1..k)].no]
    <3> HIDE DEF D
    <3> QED BY <1>3, <2>1
  <2>3. k \in 0..n /\ k - 1 \in 0..n
    BY <1>1
  <2> QED BY <2>1, <2>2, <2>3
<1>7. \A k \in 0..n : m[k] \in Nat
  <2> DEFINE T == {k \in Nat : k <= n => m[k] \in Nat}
  <2> HIDE DEF m
  <2>1. 0 \in T
    BY <1>5
  <2>2. ASSUME NEW k \in Nat, k \in T PROVE k + 1 \in T
    BY <1>1, <1>6, <2>2
  <2>3. T \in SUBSET Nat
    OBVIOUS
  <2> HIDE DEF T
  <2>4. T = Nat
    BY <2>1, <2>2, <2>3, Inductive
  <2> QED BY <1>1, <2>4 DEF T
<1>8. m = [k \in 0..n |-> m[k]]
  OBVIOUS
<1>9. m[n] = c[D]
  BY <1>1
<1> HIDE DEF m
<1>10. Sums(m, seq)
  BY <1>5, <1>6, <1>7, <1>8 DEF Sums
<1> QED BY <1>4, <1>9, <1>10

(* Sequences that agree have the same running sums.                        *)
LEMMA SumsAreUnique ==
    ASSUME NEW S, HaveCost(S), NEW s \in Seq(S), NEW t \in Seq(S),
           Len(s) <= Len(t), \A k \in 1..Len(s) : s[k] = t[k],
           NEW m, Sums(m, s), NEW l, Sums(l, t)
    PROVE  m[Len(s)] = l[Len(s)]
<1> DEFINE T == {k \in Nat : k <= Len(s) => m[k] = l[k]}
<1>1. Len(s) \in Nat /\ Len(t) \in Nat
  OBVIOUS
<1>2. 0 \in T
  BY DEF Sums
<1>3. ASSUME NEW k \in Nat, k \in T PROVE k + 1 \in T
  BY <1>1, <1>3 DEF Sums
<1>4. T \in SUBSET Nat
  OBVIOUS
<1> HIDE DEF T
<1>5. T = Nat
  BY <1>2, <1>3, <1>4, Inductive
<1> QED BY <1>1, <1>5 DEF T

(* What the chunks of the prompt cost: nothing, and with one more chunk    *)
(* its cost more.                                                          *)
LEMMA TokensOfSome ==
    ASSUME NEW S, HaveCost(S)
    PROVE  /\ Tokens(<<>>) = 0
           /\ \A s \in Seq(S) : Tokens(s) \in Nat
           /\ \A s \in Seq(S), x \in S : Tokens(Append(s, x)) = Tokens(s) + Cost[x.no]
<1>1. ASSUME NEW s \in Seq(S) PROVE Tokens(s) \in Nat
  BY TokensAreSums DEF Sums
<1>2. Tokens(<<>>) = 0
  <2>1. <<>> \in Seq(S) /\ Len(<<>>) = 0
    OBVIOUS
  <2> QED BY <2>1, TokensAreSums DEF Sums
<1>3. ASSUME NEW s \in Seq(S), NEW x \in S
      PROVE  Tokens(Append(s, x)) = Tokens(s) + Cost[x.no]
  <2> DEFINE t == Append(s, x)
  <2>1. /\ t \in Seq(S) /\ Len(t) = Len(s) + 1 /\ Len(s) \in Nat
        /\ \A k \in 1..Len(s) : t[k] = s[k]
        /\ t[Len(t)] = x
    OBVIOUS
  <2>2. PICK m : Sums(m, s) /\ Tokens(s) = m[Len(s)]
    BY TokensAreSums
  <2> HIDE DEF t
  <2>3. PICK l : Sums(l, t) /\ Tokens(t) = l[Len(t)]
    BY <2>1, TokensAreSums
  <2>4. m[Len(s)] = l[Len(s)]
    <3>1. Len(s) <= Len(t)
      BY <2>1
    <3> QED BY <2>1, <2>2, <2>3, <3>1, SumsAreUnique
  <2>5. l[Len(t)] = l[Len(t) - 1] + Cost[t[Len(t)].no] /\ Len(t) - 1 = Len(s)
    BY <2>1, <2>3 DEF Sums
  <2>6. Tokens(t) = Tokens(s) + Cost[x.no]
    BY <2>1, <2>2, <2>3, <2>4, <2>5
  <2> QED BY <2>6 DEF t
<1> QED BY <1>1, <1>2, <1>3

-----------------------------------------------------------------------------
(* The windows of a diff.                                                  *)

(* Ranges and windows: <<first line, last line>>.                          *)
Pairs == Int \X Int

(* Ranges are ordered by their first line and then by their last.          *)
LEMMA EarlierOrders ==
    /\ \A a, b \in Pairs : a # b => Earlier(a, b) \/ Earlier(b, a)
    /\ \A a \in Pairs : ~Earlier(a, a)
    /\ \A a, b, c \in Pairs : Earlier(a, b) /\ Earlier(b, c) => Earlier(a, c)
    /\ \A a, b \in Pairs : Earlier(a, b) => a[1] <= b[1]
BY DEF Pairs, Earlier

InOrder(s, n) == \A i, j \in 1..n : i < j => Earlier(s[i], s[j])

(* One more range finds its place in a sorted sequence.                    *)
LEMMA Inserted ==
    ASSUME NEW R \in SUBSET Pairs, NEW x \in R, NEW n \in Nat,
           NEW s \in [1..n -> R \ {x}], InOrder(s, n)
    PROVE  \E t \in [1..(n + 1) -> R] : InOrder(t, n + 1)
<1> DEFINE before(i) == i <= n /\ Earlier(s[i], x)
           val(i) == IF before(i) THEN s[i]
                     ELSE IF i = 1 \/ Earlier(s[i - 1], x) THEN x ELSE s[i - 1]
           t == [i \in 1..(n + 1) |-> val(i)]
<1>1. \A i \in 1..n : s[i] \in R /\ s[i] # x /\ s[i] \in Pairs
  OBVIOUS
<1>2. x \in Pairs
  OBVIOUS
<1>3. \A i \in 1..n : Earlier(s[i], x) \/ Earlier(x, s[i])
  BY <1>1, <1>2, EarlierOrders
<1>4. \A i, j \in 1..n : i < j /\ Earlier(s[j], x) => Earlier(s[i], x)
  BY <1>1, <1>2, EarlierOrders DEF InOrder
<1>5. \A i, j \in 1..n : i <= j /\ ~Earlier(s[i], x) => ~Earlier(s[j], x)
  BY <1>4
<1>6. \A i \in 1..(n + 1) : val(i) \in R
  BY <1>1
<1>7. ASSUME NEW i \in 1..(n + 1), NEW j \in 1..(n + 1), i < j
      PROVE  Earlier(val(i), val(j))
  <2>1. i \in 1..n /\ j - 1 \in 1..n /\ i <= j - 1
    BY <1>7
  <2>2. CASE before(i)
    <3>1. val(i) = s[i] /\ Earlier(s[i], x)
      BY <2>2
    <3>2. CASE before(j)
      BY <1>7, <2>1, <3>1, <3>2 DEF InOrder
    <3>3. CASE ~before(j) /\ Earlier(s[j - 1], x)
      BY <1>7, <3>1, <3>3
    <3>4. CASE ~before(j) /\ ~Earlier(s[j - 1], x)
      <4>1. i # j - 1 /\ j # 1 /\ i < j - 1
        BY <1>7, <2>1, <3>1, <3>4
      <4> QED BY <2>1, <3>1, <3>4, <4>1 DEF InOrder
    <3> QED BY <3>2, <3>3, <3>4
  <2>3. CASE ~before(i)
    <3>1. ~Earlier(s[i], x) /\ ~Earlier(s[j - 1], x)
      BY <1>5, <2>1, <2>3
    <3>2. ~before(j)
      BY <1>5, <1>7, <2>1, <3>1
    <3>3. val(j) = s[j - 1] /\ Earlier(x, s[j - 1])
      BY <1>3, <1>7, <2>1, <3>1, <3>2
    <3>4. val(i) = x \/ (i # 1 /\ val(i) = s[i - 1])
      BY <2>3
    <3>5. i # 1 => Earlier(s[i - 1], s[j - 1])
      BY <2>1 DEF InOrder
    <3> QED BY <3>3, <3>4, <3>5
  <2> QED BY <2>2, <2>3
<1> HIDE DEF val
<1>8. t \in [1..(n + 1) -> R]
  BY <1>6
<1>9. InOrder(t, n + 1)
  BY <1>7 DEF InOrder
<1> HIDE DEF t
<1> QED BY <1>8, <1>9

(* Every finite set of ranges can be sorted.                               *)
LEMMA SortedExists ==
    ASSUME NEW R \in SUBSET Pairs, IsFiniteSet(R)
    PROVE  \E s \in [1..Cardinality(R) -> R] : InOrder(s, Cardinality(R))
<1> DEFINE Sortable(Q) == \E s \in [1..Cardinality(Q) -> Q] : InOrder(s, Cardinality(Q))
           T == {n \in Nat : \A Q \in SUBSET Pairs :
                               IsFiniteSet(Q) /\ Cardinality(Q) = n => Sortable(Q)}
<1>1. 0 \in T
  <2>1. ASSUME NEW Q \in SUBSET Pairs, IsFiniteSet(Q), Cardinality(Q) = 0
        PROVE  Sortable(Q)
    <3> DEFINE s == [i \in 1..0 |-> i]
    <3>1. s \in [1..0 -> Q]
      OBVIOUS
    <3> HIDE DEF s
    <3>2. InOrder(s, 0)
      BY DEF InOrder
    <3> QED BY <2>1, <3>1, <3>2
  <2> QED BY <2>1
<1>2. ASSUME NEW n \in Nat, n \in T
      PROVE  n + 1 \in T
  <2>1. ASSUME NEW Q \in SUBSET Pairs, IsFiniteSet(Q), Cardinality(Q) = n + 1
        PROVE  Sortable(Q)
    <3>1. Q # {}
      BY <2>1, FS_EmptySet
    <3>2. PICK x \in Q : TRUE
      BY <3>1
    <3>3. IsFiniteSet(Q \ {x}) /\ Cardinality(Q \ {x}) = n
      <4>1. IsFiniteSet(Q \ {x}) /\ Cardinality(Q \ {x}) = Cardinality(Q) - 1
        BY <2>1, FS_RemoveElement
      <4> QED BY <2>1, <4>1
    <3> DEFINE P == Q \ {x}
    <3>4. P \in SUBSET Pairs /\ IsFiniteSet(P) /\ Cardinality(P) = n
      BY <3>3
    <3> HIDE DEF P
    <3>5. Sortable(P)
      BY <1>2, <3>4
    <3>6. PICK s \in [1..n -> P] : InOrder(s, n)
      BY <3>4, <3>5
    <3>7. \E t \in [1..(n + 1) -> Q] : InOrder(t, n + 1)
      BY <3>2, <3>6, Inserted DEF P
    <3> QED BY <2>1, <3>7
  <2> QED BY <2>1
<1>3. T \in SUBSET Nat
  OBVIOUS
<1>4. Cardinality(R) \in Nat
  BY FS_CardinalityType
<1> HIDE DEF T
<1>5. Cardinality(R) \in T
  BY <1>1, <1>2, <1>3, <1>4, Inductive
<1> QED BY <1>5 DEF T

(* Sorted gives each range once.                                           *)
LEMMA SortedFacts ==
    ASSUME NEW R \in SUBSET Pairs, IsFiniteSet(R)
    PROVE  /\ Cardinality(R) \in Nat
           /\ Sorted(R) \in [1..Cardinality(R) -> R]
           /\ InOrder(Sorted(R), Cardinality(R))
           /\ \A r \in R : \E i \in 1..Cardinality(R) : Sorted(R)[i] = r
<1> DEFINE n == Cardinality(R)
           s == Sorted(R)
<1>1. n \in Nat
  BY FS_CardinalityType
<1>2. s \in [1..n -> R] /\ InOrder(s, n)
  BY SortedExists DEF Sorted, InOrder
<1>3. \A i, j \in 1..n : s[i] = s[j] => i = j
  <2>1. \A i \in 1..n : s[i] \in Pairs
    BY <1>2
  <2>2. \A i, j \in 1..n : i < j => s[i] # s[j]
    BY <1>2, <2>1, EarlierOrders DEF InOrder
  <2> QED BY <1>1, <2>2
<1> HIDE DEF s
<1>4. s \in Injection(1..n, R)
  BY <1>2, <1>3 DEF Injection, IsInjective
<1>5. IsFiniteSet(1..n) /\ Cardinality(1..n) = n
  BY <1>1, FS_Interval
<1>6. s \in Surjection(1..n, R)
  BY <1>4, <1>5, FS_Injection
<1>7. \A r \in R : \E i \in 1..n : s[i] = r
  BY <1>6 DEF Surjection
<1> QED BY <1>1, <1>2, <1>7 DEF s

(* n windows, from lo[i] to hi[i], gather the lines of L: they are         *)
(* disjoint and more than NearBy apart, begin and end with lines of L and  *)
(* have no longer gap inside.                                              *)
Gathers(lo, hi, n, L) ==
    /\ \A i \in 1..n : lo[i] <= hi[i] /\ lo[i] \in L /\ hi[i] \in L
    /\ \A i, j \in 1..n : i < j => hi[i] + NearBy < lo[j]
    /\ \A l \in L : \E i \in 1..n : lo[i] <= l /\ l <= hi[i]
    /\ \A i \in 1..n : \A l \in Int :
         lo[i] < l /\ l <= hi[i] => \E k \in 1..NearBy : l - k \in L

(* A range has no gap inside.                                              *)
LEMMA InsideARange ==
    ASSUME NEW a \in Int, NEW b \in Int, NEW l \in Int, a < l, l <= b
    PROVE  \E k \in 1..NearBy : l - k \in a..b
<1>1. 1 \in 1..NearBy /\ l - 1 \in a..b
  BY BoundsAssumption
<1> QED BY <1>1

(* A range that begins close to the last window, or inside it, is joined   *)
(* to it.                                                                  *)
LEMMA JoinedWindow ==
    ASSUME NEW n \in Nat, n # 0, NEW lo \in [1..n -> Int], NEW hi \in [1..n -> Int],
           NEW L \in SUBSET Int, Gathers(lo, hi, n, L),
           NEW a \in Int, NEW b \in Int, a <= b, a - hi[n] <= NearBy, lo[n] <= a,
           NEW new \in [1..n -> Int], \A i \in 1..n : i < n => new[i] = hi[i],
           new[n] = Larger(hi[n], b)
    PROVE  Gathers(lo, new, n, L \cup a..b)
<1> DEFINE M == L \cup a..b
<1>1. /\ NearBy \in Nat /\ NearBy >= 1 /\ n \in 1..n
      /\ lo[n] \in Int /\ hi[n] \in Int /\ new[n] \in Int
  BY BoundsAssumption
<1>2. /\ hi[n] <= new[n] /\ b <= new[n] /\ (new[n] = hi[n] \/ new[n] = b)
      /\ \A i \in 1..n : hi[i] <= new[i]
  <2>1. /\ hi[n] <= new[n] /\ b <= new[n] /\ (new[n] = hi[n] \/ new[n] = b)
    BY <1>1 DEF Larger
  <2>2. ASSUME NEW i \in 1..n PROVE hi[i] <= new[i]
    <3>1. CASE i = n
      BY <2>1, <3>1
    <3>2. CASE i # n
      <4>1. i < n /\ hi[i] \in Int
        BY <3>2
      <4> QED BY <4>1
    <3> QED BY <3>1, <3>2
  <2> QED BY <2>1, <2>2
<1>3. L \subseteq M /\ b \in M /\ a..b \subseteq M
  OBVIOUS
<1> HIDE DEF M
<1>4. \A i \in 1..n : lo[i] <= new[i] /\ lo[i] \in M /\ new[i] \in M
  <2>1. ASSUME NEW i \in 1..n
        PROVE  lo[i] <= new[i] /\ lo[i] \in M /\ new[i] \in M
    <3>1. lo[i] <= hi[i] /\ lo[i] \in L /\ hi[i] \in L
      BY DEF Gathers
    <3>2. new[i] = hi[i] \/ new[i] = b
      BY <1>1, <1>2
    <3> QED BY <1>2, <1>3, <3>1, <3>2
  <2> QED BY <2>1
<1>5. \A i, j \in 1..n : i < j => new[i] + NearBy < lo[j]
  <2>1. \A i, j \in 1..n : i < j => i < n
    BY <1>1
  <2> QED BY <2>1 DEF Gathers
<1>6. ASSUME NEW l \in M
      PROVE  \E i \in 1..n : lo[i] <= l /\ l <= new[i]
  <2>1. CASE l \in L
    <3>1. PICK i \in 1..n : lo[i] <= l /\ l <= hi[i]
      BY <2>1 DEF Gathers
    <3>2. lo[i] <= l /\ l <= new[i]
      BY <1>2, <2>1, <3>1
    <3> QED BY <3>2
  <2>2. CASE l \in a..b
    BY <1>1, <1>2, <2>2
  <2> QED BY <2>1, <2>2 DEF M
<1>7. ASSUME NEW i \in 1..n, NEW l \in Int, lo[i] < l, l <= new[i]
      PROVE  \E k \in 1..NearBy : l - k \in M
  <2>1. CASE l <= hi[i]
    <3>1. \E k \in 1..NearBy : l - k \in L
      BY <1>7, <2>1 DEF Gathers
    <3> QED BY <1>3, <3>1
  <2>2. CASE ~(l <= hi[i]) /\ a < l
    <3>1. l <= b
      BY <1>1, <1>2, <1>7, <2>2
    <3> QED BY <1>3, <2>2, <3>1, InsideARange
  <2>3. CASE ~(l <= hi[i]) /\ l <= a
    <3>1. i = n
      BY <1>1, <1>7, <2>3
    <3>2. l - hi[n] \in 1..NearBy /\ l - (l - hi[n]) = hi[n]
      BY <1>1, <2>3, <3>1
    <3>3. hi[n] \in M
      BY <1>1, <1>3 DEF Gathers
    <3> QED BY <3>2, <3>3
  <2> QED BY <2>1, <2>2, <2>3
<1>8. Gathers(lo, new, n, M)
  BY <1>4, <1>5, <1>6, <1>7 DEF Gathers
<1> QED BY <1>8 DEF M

(* Any other range begins a window.                                        *)
Ends(hi, n, a) == n # 0 => hi[n] + NearBy < a

Extends(p, lo, n, a) ==
    /\ p \in [1..(n + 1) -> Int] /\ \A i \in 1..n : p[i] = lo[i]
    /\ p[n + 1] = a

LEMMA BegunWindow ==
    ASSUME NEW n \in Nat, NEW lo \in [1..n -> Int], NEW hi \in [1..n -> Int],
           NEW L \in SUBSET Int, Gathers(lo, hi, n, L),
           NEW a \in Int, NEW b \in Int, a <= b, Ends(hi, n, a),
           NEW p, Extends(p, lo, n, a), NEW q, Extends(q, hi, n, b)
    PROVE  Gathers(p, q, n + 1, L \cup a..b)
<1> USE DEF Extends
<1> DEFINE M == L \cup a..b
<1>1. /\ NearBy \in Nat /\ NearBy >= 1
      /\ n + 1 \in 1..(n + 1) /\ \A i \in 1..n : i \in 1..(n + 1)
      /\ \A i \in 1..(n + 1) : i \in 1..n \/ i = n + 1
  BY BoundsAssumption
<1>2. L \subseteq M /\ a \in M /\ b \in M /\ a..b \subseteq M
  OBVIOUS
<1>3. ASSUME NEW i \in 1..n PROVE hi[i] + NearBy < a
  <2>1. n \in 1..n /\ hi[n] + NearBy < a /\ hi[n] \in Int /\ hi[i] \in Int
    BY DEF Ends
  <2>2. CASE i = n
    BY <2>1, <2>2
  <2>3. CASE i # n
    <3>1. i < n /\ lo[n] <= hi[n] /\ lo[n] \in Int
      BY <2>1, <2>3 DEF Gathers
    <3>2. hi[i] + NearBy < lo[n]
      BY <2>1, <3>1 DEF Gathers
    <3> QED BY <1>1, <2>1, <3>1, <3>2
  <2> QED BY <2>2, <2>3
<1> HIDE DEF M
<1>4. \A i \in 1..(n + 1) : p[i] <= q[i] /\ p[i] \in M /\ q[i] \in M
  <2>1. \A i \in 1..n : p[i] <= q[i] /\ p[i] \in L /\ q[i] \in L
    BY DEF Gathers
  <2> QED BY <1>1, <1>2, <2>1
<1>5. \A i, j \in 1..(n + 1) : i < j => q[i] + NearBy < p[j]
  <2>1. \A i, j \in 1..n : i < j => q[i] + NearBy < p[j]
    BY DEF Gathers
  <2>2. \A i \in 1..n : q[i] + NearBy < p[n + 1]
    BY <1>3
  <2>3. \A i, j \in 1..(n + 1) : i < j => i \in 1..n
    OBVIOUS
  <2> QED BY <1>1, <2>1, <2>2, <2>3
<1>6. ASSUME NEW l \in M
      PROVE  \E i \in 1..(n + 1) : p[i] <= l /\ l <= q[i]
  <2>1. CASE l \in L
    <3>1. PICK i \in 1..n : lo[i] <= l /\ l <= hi[i]
      BY <2>1 DEF Gathers
    <3> QED BY <1>1, <3>1
  <2>2. CASE l \in a..b
    BY <1>1, <2>2
  <2> QED BY <2>1, <2>2 DEF M
<1>7. ASSUME NEW i \in 1..(n + 1), NEW l \in Int, p[i] < l, l <= q[i]
      PROVE  \E k \in 1..NearBy : l - k \in M
  <2>1. CASE i = n + 1
    <3>1. a < l /\ l <= b
      BY <1>7, <2>1
    <3> QED BY <1>2, <3>1, InsideARange
  <2>2. CASE i \in 1..n
    <3>1. \E k \in 1..NearBy : l - k \in L
      BY <1>7, <2>2 DEF Gathers
    <3> QED BY <1>2, <3>1
  <2> QED BY <1>1, <2>1, <2>2
<1>8. Gathers(p, q, n + 1, M)
  BY <1>4, <1>5, <1>6, <1>7 DEF Gathers
<1> QED BY <1>8 DEF M

Firsts(ws) == [i \in 1..Len(ws) |-> ws[i][1]]
Lasts(ws) == [i \in 1..Len(ws) |-> ws[i][2]]

Gathered(ws, L) == Gathers(Firsts(ws), Lasts(ws), Len(ws), L)

(* The windows, column by column.                                          *)
LEMMA PairsOf ==
    ASSUME NEW ws \in Seq(Pairs)
    PROVE  /\ Len(ws) \in Nat
           /\ \A i \in 1..Len(ws) : ws[i] \in Pairs
           /\ Firsts(ws) \in [1..Len(ws) -> Int] /\ Lasts(ws) \in [1..Len(ws) -> Int]
           /\ \A i \in 1..Len(ws) : Firsts(ws)[i] = ws[i][1] /\ Lasts(ws)[i] = ws[i][2]
<1>1. Len(ws) \in Nat /\ \A i \in 1..Len(ws) : ws[i] \in Pairs
  OBVIOUS
<1>2. \A r \in Pairs : r[1] \in Int /\ r[2] \in Int
  BY DEF Pairs
<1> QED BY <1>1, <1>2 DEF Firsts, Lasts

(* A range joins the last window or begins another.                        *)
Joins(ws, r) == ws # <<>> /\ r[1] - Last(ws)[2] <= NearBy

LEMMA JoinedRange ==
    ASSUME NEW ws \in Seq(Pairs), NEW r \in Pairs, Joins(ws, r)
    PROVE  /\ Len(ws) # 0 /\ Merge(ws, r) \in Seq(Pairs)
           /\ Len(Merge(ws, r)) = Len(ws)
           /\ \A i \in 1..Len(ws) : i < Len(ws) => Merge(ws, r)[i] = ws[i]
           /\ Merge(ws, r)[Len(ws)] = <<ws[Len(ws)][1], Larger(ws[Len(ws)][2], r[2])>>
<1> DEFINE n == Len(ws)
           front == SubSeq(ws, 1, n - 1)
           last == <<ws[n][1], Larger(ws[n][2], r[2])>>
<1>1. n \in Nat /\ n # 0
  BY PairsOf DEF Joins
<1>2. n \in 1..n /\ ws[n] \in Pairs /\ n - 1 \in 0..n
  BY <1>1, PairsOf
<1>3. last \in Pairs
  BY <1>2 DEF Pairs, Larger
<1>4. Merge(ws, r) = front \o <<last>>
  BY DEF Merge, Joins, Front, Last
<1>5. /\ front \in Seq(Pairs) /\ Len(front) = n - 1
      /\ \A i \in 1..(n - 1) : front[i] = ws[i]
  BY <1>1
<1> HIDE DEF last, front
<1>6. ASSUME NEW S, NEW s \in Seq(S), NEW x \in S
      PROVE  /\ s \o <<x>> \in Seq(S) /\ Len(s \o <<x>>) = Len(s) + 1
             /\ \A i \in 1..Len(s) : (s \o <<x>>)[i] = s[i]
             /\ (s \o <<x>>)[Len(s) + 1] = x
  OBVIOUS
<1>7. /\ front \o <<last>> \in Seq(Pairs) /\ Len(front \o <<last>>) = n
      /\ \A i \in 1..(n - 1) : (front \o <<last>>)[i] = ws[i]
      /\ (front \o <<last>>)[n] = last
  <2>1. /\ front \o <<last>> \in Seq(Pairs) /\ Len(front \o <<last>>) = Len(front) + 1
        /\ \A i \in 1..Len(front) : (front \o <<last>>)[i] = front[i]
        /\ (front \o <<last>>)[Len(front) + 1] = last
    BY <1>3, <1>5, <1>6
  <2>2. Len(front) + 1 = n
    BY <1>1, <1>5
  <2> QED BY <1>5, <2>1, <2>2
<1>8. \A i \in 1..n : i < n => i \in 1..(n - 1)
  BY <1>1
<1> QED BY <1>1, <1>4, <1>7, <1>8 DEF last

(* One turn of the loop over the sorted ranges.                            *)
LEMMA MergeGathers ==
    ASSUME NEW ws \in Seq(Pairs), NEW L \in SUBSET Int, Gathered(ws, L),
           NEW r \in Pairs, r[1] <= r[2],
           \A i \in 1..Len(ws) : ws[i][1] <= r[1]
    PROVE  /\ Merge(ws, r) \in Seq(Pairs)
           /\ Gathered(Merge(ws, r), L \cup r[1]..r[2])
           /\ \A i \in 1..Len(Merge(ws, r)) : Merge(ws, r)[i][1] <= r[1]
<1> DEFINE n == Len(ws)
           new == Merge(ws, r)
           a == r[1]
           b == r[2]
<1>1. /\ n \in Nat /\ a \in Int /\ b \in Int /\ a <= b
      /\ Firsts(ws) \in [1..n -> Int] /\ Lasts(ws) \in [1..n -> Int]
      /\ \A i \in 1..n : /\ Firsts(ws)[i] = ws[i][1] /\ Lasts(ws)[i] = ws[i][2]
                         /\ Firsts(ws)[i] <= a
  BY PairsOf DEF Pairs
<1>2. Gathers(Firsts(ws), Lasts(ws), n, L)
  BY DEF Gathered
<1>3. CASE Joins(ws, r)
  <2>1. /\ n # 0 /\ new \in Seq(Pairs) /\ Len(new) = n
        /\ \A i \in 1..n : i < n => new[i] = ws[i]
        /\ new[n] = <<ws[n][1], Larger(ws[n][2], b)>>
    BY <1>3, JoinedRange
  <2>2. n \in 1..n /\ a - ws[n][2] <= NearBy
    BY <1>1, <1>3, <2>1 DEF Joins, Last
  <2> HIDE DEF new, a, b
  <2>3. /\ Firsts(new) \in [1..n -> Int] /\ Lasts(new) \in [1..n -> Int]
        /\ \A i \in 1..n : Firsts(new)[i] = new[i][1] /\ Lasts(new)[i] = new[i][2]
    BY <2>1, PairsOf
  <2>4. \A i \in 1..n : /\ Firsts(new)[i] = Firsts(ws)[i]
                        /\ (i < n => Lasts(new)[i] = Lasts(ws)[i])
    <3>1. ASSUME NEW i \in 1..n
          PROVE  new[i][1] = ws[i][1] /\ (i < n => new[i][2] = ws[i][2])
      <4>1. CASE i = n
        BY <2>1, <4>1
      <4>2. CASE i # n
        <5>1. i < n
          BY <1>1, <4>2
        <5> QED BY <2>1, <5>1
      <4> QED BY <4>1, <4>2
    <3> QED BY <1>1, <2>3, <3>1
  <2>5. Firsts(new) = Firsts(ws)
    BY <1>1, <2>3, <2>4
  <2>6. Lasts(new)[n] = Larger(Lasts(ws)[n], b)
    BY <1>1, <2>1, <2>2, <2>3
  <2>7. Gathers(Firsts(ws), Lasts(new), n, L \cup a..b)
    <3> DEFINE lo == Firsts(ws)
               hi == Lasts(ws)
               nw == Lasts(new)
    <3>1. a - hi[n] <= NearBy /\ lo[n] <= a
      BY <1>1, <2>2
    <3> HIDE DEF lo, hi, nw
    <3>2. /\ lo \in [1..n -> Int] /\ hi \in [1..n -> Int] /\ nw \in [1..n -> Int]
          /\ Gathers(lo, hi, n, L) /\ nw[n] = Larger(hi[n], b)
          /\ \A i \in 1..n : i < n => nw[i] = hi[i]
      BY <1>1, <1>2, <2>3, <2>4, <2>6 DEF lo, hi, nw
    <3> HIDE DEF n
    <3>3. Gathers(lo, nw, n, L \cup a..b)
      <4>1. n \in Nat /\ n # 0 /\ a \in Int /\ b \in Int /\ a <= b
        BY <1>1, <2>1
      <4> QED BY <3>1, <3>2, <4>1, JoinedWindow, Zenon
    <3> QED BY <3>3 DEF lo, nw
  <2>8. Gathered(new, L \cup a..b)
    BY <2>1, <2>5, <2>7 DEF Gathered
  <2>9. \A i \in 1..n : new[i][1] <= a
    BY <1>1, <2>3, <2>4
  <2> QED BY <2>1, <2>8, <2>9 DEF new, a, b
<1>4. CASE ~Joins(ws, r)
  <2>1. /\ new \in Seq(Pairs) /\ Len(new) = n + 1 /\ new[n + 1] = r
        /\ \A i \in 1..n : new[i] = ws[i]
    <3>1. new = Append(ws, r)
      BY <1>4 DEF Merge, Joins
    <3> QED BY <3>1
  <2>2. n # 0 => Lasts(ws)[n] + NearBy < a
    <3>1. n # 0 => n \in 1..n /\ ~(a - ws[n][2] <= NearBy)
      BY <1>1, <1>4 DEF Joins, Last
    <3>2. NearBy \in Nat
      BY BoundsAssumption
    <3> QED BY <1>1, <3>1, <3>2
  <2> HIDE DEF new, a, b
  <2>3. /\ Firsts(new) \in [1..(n + 1) -> Int] /\ Lasts(new) \in [1..(n + 1) -> Int]
        /\ \A i \in 1..(n + 1) : Firsts(new)[i] = new[i][1] /\ Lasts(new)[i] = new[i][2]
    BY <2>1, PairsOf
  <2>4. /\ \A i \in 1..n : i \in 1..(n + 1)
        /\ n + 1 \in 1..(n + 1) /\ \A i \in 1..(n + 1) : i \in 1..n \/ i = n + 1
    BY <1>1
  <2>5. /\ \A i \in 1..n : Firsts(new)[i] = Firsts(ws)[i] /\ Lasts(new)[i] = Lasts(ws)[i]
        /\ Firsts(new)[n + 1] = a /\ Lasts(new)[n + 1] = b
    <3>1. \A i \in 1..n : Firsts(new)[i] = ws[i][1] /\ Lasts(new)[i] = ws[i][2]
      BY <2>1, <2>3, <2>4
    <3>2. Firsts(new)[n + 1] = r[1] /\ Lasts(new)[n + 1] = r[2]
      BY <2>1, <2>3, <2>4
    <3> QED BY <1>1, <3>1, <3>2 DEF a, b
  <2>6. Gathers(Firsts(new), Lasts(new), n + 1, L \cup a..b)
    <3> DEFINE lo == Firsts(ws)
               hi == Lasts(ws)
               p == Firsts(new)
               q == Lasts(new)
    <3> HIDE DEF lo, hi, p, q
    <3>1. /\ lo \in [1..n -> Int] /\ hi \in [1..n -> Int] /\ Gathers(lo, hi, n, L)
          /\ Extends(p, lo, n, a) /\ Extends(q, hi, n, b) /\ Ends(hi, n, a)
      BY <1>1, <1>2, <2>2, <2>3, <2>5 DEF lo, hi, p, q, Extends, Ends
    <3> HIDE DEF n
    <3>2. Gathers(p, q, n + 1, L \cup a..b)
      <4>1. n \in Nat /\ a \in Int /\ b \in Int /\ a <= b
        BY <1>1
      <4> QED BY <3>1, <4>1, BegunWindow, Zenon
    <3> QED BY <3>2 DEF p, q
  <2>7. Gathered(new, L \cup a..b)
    BY <2>1, <2>6 DEF Gathered
  <2>8. \A i \in 1..(n + 1) : new[i][1] <= a
    <3>1. a <= a
      BY <1>1
    <3> QED BY <1>1, <2>3, <2>4, <2>5, <3>1
  <2> QED BY <2>1, <2>7, <2>8 DEF new, a, b
<1> QED BY <1>3, <1>4

(* A turn of the loop leaves a sequence of windows.                        *)
LEMMA MergeInSeq ==
    ASSUME NEW ws \in Seq(Pairs), NEW r \in Pairs
    PROVE  Merge(ws, r) \in Seq(Pairs)
<1>1. CASE Joins(ws, r)
  BY <1>1, JoinedRange
<1>2. CASE ~Joins(ws, r)
  BY <1>2 DEF Merge, Joins
<1> QED BY <1>1, <1>2

(* The loop over the ranges, one after the other.                          *)
MergesUp(m, s, n) ==
    m[0] = <<>> /\ \A k \in 1..n : m[k] = Merge(m[k - 1], s[k])

LEMMA MergeLoop ==
    ASSUME NEW n \in Nat, NEW s \in [1..n -> Pairs]
    PROVE  \E m : MergesUp(m, s, n) /\ FoldLeft(Merge, <<>>, s) = m[n]
<1> DEFINE D == DOMAIN s
           V == Seq(Pairs)
           Eqn(f) == f = [t \in SUBSET D |-> IF t = {} THEN <<>>
                            ELSE Merge(f[t \ {Max(t)}], s[Max(t)])]
           c == CHOOSE f : Eqn(f)
           m == [k \in 0..n |-> c[1..k]]
<1>1. D = 1..n /\ \A i \in D : s[i] \in Pairs
  OBVIOUS
<1>2. \E f : Eqn(f)
  <2> DEFINE pick == [t \in SUBSET D |-> Max(t)]
             step == [p \in V \X D |-> Merge(p[1], s[p[2]])]
  <2>1. IsFiniteSet(D)
    BY <1>1, FS_Interval
  <2>2. Picks(pick, D)
    BY <1>1, MaxOfSome DEF Picks
  <2>3. step \in [V \X D -> V]
    <3>1. \A p \in V \X D : Merge(p[1], s[p[2]]) \in V
      BY <1>1, MergeInSeq
    <3> QED BY <3>1
  <2>4. \A v \in V, i \in D : step[v, i] = Merge(v, s[i])
    OBVIOUS
  <2>5. \A t \in SUBSET D : pick[t] = Max(t)
    OBVIOUS
  <2>6. <<>> \in V
    OBVIOUS
  <2> HIDE DEF step, pick, D, V
  <2>7. PICK f \in [SUBSET D -> V] : Folded(f, D, <<>>, pick, step)
    BY <2>1, <2>2, <2>3, <2>6, Recursion
  <2>8. ASSUME NEW t \in SUBSET D, t # {}
        PROVE  f[t] = Merge(f[t \ {Max(t)}], s[Max(t)])
    <3>1. f[t \ {pick[t]}] \in V /\ pick[t] \in D
      BY <2>2, <2>8 DEF Picks
    <3> QED BY <2>4, <2>5, <2>7, <2>8, <3>1 DEF Folded
  <2>9. Eqn(f)
    BY <2>7, <2>8 DEF Folded
  <2> QED BY <2>9
<1>3. Eqn(c)
  BY <1>2
<1>4. FoldLeft(Merge, <<>>, s) = c[D]
  BY DEF FoldLeft, MapThenFoldSet
<1> HIDE DEF c
<1>5. m[0] = <<>>
  <2>1. 1..0 = {} /\ {} \in SUBSET D
    OBVIOUS
  <2>2. c[{}] = <<>>
    BY <1>3, <2>1
  <2> QED BY <2>1, <2>2
<1>6. ASSUME NEW k \in 1..n
      PROVE  m[k] = Merge(m[k - 1], s[k])
  <2>1. 1..k \in SUBSET D /\ 1..k # {} /\ Max(1..k) = k /\ (1..k) \ {k} = 1..(k - 1)
    <3>1. k \in Nat /\ k # 0 /\ k <= n
      OBVIOUS
    <3>2. Max(1..k) = k /\ (1..k) \ {k} = 1..(k - 1)
      <4> HIDE DEF D, m
      <4> QED BY <3>1, Prefix
    <3>3. 1..k \subseteq 1..n /\ 1..k # {}
      BY <3>1
    <3> HIDE DEF D
    <3> QED BY <1>1, <3>2, <3>3
  <2>2. c[1..k] = Merge(c[(1..k) \ {Max(1..k)}], s[Max(1..k)])
    <3> HIDE DEF D
    <3> QED BY <1>3, <2>1
  <2>3. k \in 0..n /\ k - 1 \in 0..n
    OBVIOUS
  <2>4. m[k] = c[1..k] /\ m[k - 1] = c[1..(k - 1)]
    BY <2>3
  <2> HIDE DEF m
  <2> QED BY <2>1, <2>2, <2>4
<1>7. m[n] = c[D]
  BY <1>1
<1> HIDE DEF m
<1>8. MergesUp(m, s, n)
  BY <1>5, <1>6 DEF MergesUp
<1> QED BY <1>4, <1>7, <1>8

LinesOf(R) == UNION {r[1]..r[2] : r \in R}

(* What collapse_diff_to_windows has before it clamps.                     *)
LEMMA MergedAll ==
    ASSUME NEW R \in SUBSET Pairs, IsFiniteSet(R), \A r \in R : r[1] <= r[2]
    PROVE  /\ FoldLeft(Merge, <<>>, Sorted(R)) \in Seq(Pairs)
           /\ Gathered(FoldLeft(Merge, <<>>, Sorted(R)), LinesOf(R))
<1> DEFINE n == Cardinality(R)
           s == Sorted(R)
           L(k) == UNION {s[i][1]..s[i][2] : i \in 1..k}
<1>1. /\ n \in Nat /\ s \in [1..n -> R] /\ s \in [1..n -> Pairs] /\ InOrder(s, n)
      /\ \A r \in R : \E i \in 1..n : s[i] = r
  BY SortedFacts
<1> HIDE DEF s, n
<1>2. PICK m : MergesUp(m, s, n) /\ FoldLeft(Merge, <<>>, s) = m[n]
  BY <1>1, MergeLoop
<1> DEFINE Good(k) == /\ m[k] \in Seq(Pairs) /\ Gathered(m[k], L(k))
                      /\ \A i \in 1..Len(m[k]) : \A j \in 1..n : k <= j =>
                           m[k][i][1] <= s[j][1]
           T == {k \in Nat : k <= n => Good(k)}
<1>3. 0 \in T
  <2>1. m[0] = <<>> /\ L(0) = {} /\ Len(<<>>) = 0
    BY <1>2 DEF MergesUp
  <2>2. Gathered(<<>>, {})
    BY DEF Gathered, Gathers, Firsts, Lasts
  <2>3. Good(0)
    BY <2>1, <2>2
  <2> QED BY <2>3
<1>4. ASSUME NEW k \in Nat, k \in T
      PROVE  k + 1 \in T
  <2> SUFFICES ASSUME k + 1 <= n PROVE Good(k + 1)
    OBVIOUS
  <2> DEFINE r == s[k + 1]
             ws == m[k]
  <2>1. Good(k) /\ k + 1 \in 1..n /\ k <= k + 1
    BY <1>1, <1>4
  <2>2. r \in Pairs /\ r[1] <= r[2] /\ r[1] \in Int
    BY <1>1, <2>1 DEF Pairs
  <2>3. m[k + 1] = Merge(ws, r)
    <3>1. (k + 1) - 1 = k
      OBVIOUS
    <3> QED BY <1>2, <2>1, <3>1 DEF MergesUp
  <2>4. L(k) \in SUBSET Int
    OBVIOUS
  <2>5. L(k + 1) = L(k) \cup r[1]..r[2]
    <3>1. 1..(k + 1) = 1..k \cup {k + 1}
      OBVIOUS
    <3> QED BY <3>1
  <2>6. \A i \in 1..Len(ws) : ws[i][1] <= r[1]
    BY <2>1
  <2>7. /\ Merge(ws, r) \in Seq(Pairs)
        /\ Gathered(Merge(ws, r), L(k) \cup r[1]..r[2])
        /\ \A i \in 1..Len(Merge(ws, r)) : Merge(ws, r)[i][1] <= r[1]
    <3> DEFINE K == L(k)
    <3>1. ws \in Seq(Pairs) /\ Gathered(ws, K) /\ K \in SUBSET Int
      BY <2>1, <2>4
    <3> HIDE DEF K, L, r, ws
    <3>2. /\ Merge(ws, r) \in Seq(Pairs)
          /\ Gathered(Merge(ws, r), K \cup r[1]..r[2])
          /\ \A i \in 1..Len(Merge(ws, r)) : Merge(ws, r)[i][1] <= r[1]
      BY <2>2, <2>6, <3>1, MergeGathers
    <3> QED BY <3>2 DEF K
  <2>8. \A j \in 1..n : k + 1 <= j => s[j] \in Pairs /\ r[1] <= s[j][1] /\ s[j][1] \in Int
    <3>1. \A j \in 1..n : s[j] \in Pairs /\ s[j][1] \in Int
      BY <1>1 DEF Pairs
    <3>2. \A j \in 1..n : k + 1 < j => Earlier(r, s[j])
      BY <1>1, <2>1 DEF InOrder
    <3>3. \A j \in 1..n : k + 1 < j => r[1] <= s[j][1]
      BY <2>2, <3>1, <3>2, EarlierOrders
    <3>4. \A j \in 1..n : k + 1 <= j => k + 1 < j \/ j = k + 1
      OBVIOUS
    <3> QED BY <2>2, <3>1, <3>3, <3>4
  <2>9. ASSUME NEW i \in 1..Len(m[k + 1]), NEW j \in 1..n, k + 1 <= j
        PROVE  m[k + 1][i][1] <= s[j][1]
    <3>1. m[k + 1][i][1] \in Int /\ m[k + 1][i][1] <= r[1]
      <4>1. m[k + 1] \in Seq(Pairs)
        BY <2>3, <2>7
      <4>2. m[k + 1][i] \in Pairs
        BY <4>1
      <4> QED BY <2>3, <2>7, <4>2 DEF Pairs
    <3> QED BY <2>2, <2>8, <2>9, <3>1
  <2> HIDE DEF L
  <2> QED BY <2>3, <2>5, <2>7, <2>9
<1>5. T \in SUBSET Nat
  OBVIOUS
<1> HIDE DEF T
<1>6. T = Nat
  BY <1>3, <1>4, <1>5, Inductive
<1>7. Good(n)
  <2>1. n \in T /\ n <= n
    BY <1>1, <1>6
  <2> HIDE DEF Good
  <2> QED BY <2>1 DEF T
<1>8. L(n) = LinesOf(R)
  <2>1. L(n) \subseteq LinesOf(R)
    BY <1>1 DEF LinesOf
  <2>2. LinesOf(R) \subseteq L(n)
    BY <1>1 DEF LinesOf
  <2> QED BY <2>1, <2>2
<1>9. FoldLeft(Merge, <<>>, s) \in Seq(Pairs) /\ Gathered(FoldLeft(Merge, <<>>, s), LinesOf(R))
  <2> HIDE DEF L
  <2> QED BY <1>2, <1>7, <1>8
<1> QED BY <1>9 DEF s

(* The ranges of a diff are finitely many, and each has a line.            *)
LEMMA RangesOfDiff ==
    ASSUME NEW d \in Diffs
    PROVE  /\ Ranges(d.hunks) \in SUBSET Pairs /\ IsFiniteSet(Ranges(d.hunks))
           /\ \A r \in Ranges(d.hunks) : 1 <= r[1] /\ r[1] <= r[2]
<1> DEFINE H == {h \in d.hunks : h.start > 0 /\ h.length > 0}
           range == [h \in H |-> <<h.start, h.start + h.length - 1>>]
           R == Ranges(d.hunks)
<1>1. /\ IsFiniteSet(d.hunks) /\ H \in SUBSET d.hunks
      /\ \A h \in H : h.start \in Nat /\ h.length \in Nat /\ h.start > 0 /\ h.length > 0
  BY DiffsAssumption
<1>2. IsFiniteSet(H)
  BY <1>1, FS_Subset
<1>3. R = {range[h] : h \in H}
  BY DEF Ranges
<1>4. range \in Surjection(H, R)
  BY <1>3 DEF Surjection
<1>5. \A h \in H : range[h] \in Pairs /\ 1 <= range[h][1] /\ range[h][1] <= range[h][2]
  BY <1>1 DEF Pairs
<1> HIDE DEF H, range, R
<1>6. IsFiniteSet(R)
  BY <1>2, <1>4, FS_Surjection
<1>7. R \in SUBSET Pairs /\ \A r \in R : 1 <= r[1] /\ r[1] <= r[2]
  BY <1>3, <1>5
<1> QED BY <1>6, <1>7 DEF R

(* The windows before and after the cut.                                   *)
Merged(hunks) == FoldLeft(Merge, <<>>, Sorted(Ranges(hunks)))

Kept(hunks) == IF Len(Merged(hunks)) < MaxWindows THEN Len(Merged(hunks)) ELSE MaxWindows

(* The merged windows gather the lines that the diff touches.              *)
LEMMA MergedDiff ==
    ASSUME NEW d \in Diffs
    PROVE  /\ Merged(d.hunks) \in Seq(Pairs)
           /\ Gathered(Merged(d.hunks), LinesOf(Ranges(d.hunks)))
           /\ LinesOf(Ranges(d.hunks)) \in SUBSET (Nat \ {0})
<1> DEFINE R == Ranges(d.hunks)
<1>1. R \in SUBSET Pairs /\ IsFiniteSet(R) /\ \A r \in R : 1 <= r[1] /\ r[1] <= r[2]
  BY RangesOfDiff
<1> HIDE DEF R
<1>2. /\ FoldLeft(Merge, <<>>, Sorted(R)) \in Seq(Pairs)
      /\ Gathered(FoldLeft(Merge, <<>>, Sorted(R)), LinesOf(R))
  BY <1>1, MergedAll
<1>3. LinesOf(R) \in SUBSET (Nat \ {0})
  <2>1. ASSUME NEW r \in R PROVE r[1]..r[2] \in SUBSET (Nat \ {0})
    BY <1>1, <2>1 DEF Pairs
  <2> QED BY <2>1 DEF LinesOf
<1> QED BY <1>2, <1>3 DEF R, Merged

(* What is left of them: the first windows, clamped.                       *)
LEMMA ClampedRange ==
    ASSUME NEW r \in Pairs, r[1] <= r[2]
    PROVE  /\ Clamp(r) \in Pairs /\ Clamp(r)[1] = r[1]
           /\ Clamp(r)[1] <= Clamp(r)[2] /\ Clamp(r)[2] - Clamp(r)[1] < MaxRange
           /\ \A l \in Int : l <= Clamp(r)[2] <=> l <= r[2] /\ l < r[1] + MaxRange
<1>1. r[1] \in Int /\ r[2] \in Int /\ MaxRange \in Nat /\ MaxRange >= 1
  BY BoundsAssumption DEF Pairs
<1>2. CASE r[2] - r[1] + 1 > MaxRange
  <2>1. Clamp(r) = <<r[1], r[1] + MaxRange - 1>>
    BY <1>2 DEF Clamp
  <2> QED BY <1>1, <1>2, <2>1 DEF Pairs
<1>3. CASE ~(r[2] - r[1] + 1 > MaxRange)
  <2>1. Clamp(r) = r
    BY <1>3 DEF Clamp
  <2> QED BY <1>1, <1>3, <2>1
<1> QED BY <1>2, <1>3

(* What collapse_diff_to_windows returns.                                  *)
LEMMA CollapsedDiff ==
    ASSUME NEW d \in Diffs
    PROVE  /\ Kept(d.hunks) \in Nat /\ Kept(d.hunks) <= Len(Merged(d.hunks))
           /\ Kept(d.hunks) <= MaxWindows
           /\ \A i \in 1..Len(Merged(d.hunks)) : i <= MaxWindows => i <= Kept(d.hunks)
           /\ Collapse(d.hunks) = [i \in 1..Kept(d.hunks) |-> Clamp(Merged(d.hunks)[i])]
           /\ Collapse(d.hunks) \in Seq(Pairs)
           /\ Len(Collapse(d.hunks)) = Kept(d.hunks)
           /\ WindowsAreBounded(Collapse(d.hunks))
<1> DEFINE m == Merged(d.hunks)
           k == Kept(d.hunks)
           ws == Collapse(d.hunks)
<1>1. m \in Seq(Pairs) /\ Gathered(m, LinesOf(Ranges(d.hunks)))
  BY MergedDiff
<1>2. ws = [i \in 1..k |-> Clamp(m[i])]
  BY DEF Collapse, Kept, Merged
<1> HIDE DEF ws, m
<1>3. Len(m) \in Nat /\ MaxWindows \in Nat
  BY <1>1, BoundsAssumption
<1>4. k = IF Len(m) < MaxWindows THEN Len(m) ELSE MaxWindows
  BY DEF Kept, m
<1> HIDE DEF k
<1>5. /\ k \in Nat /\ k <= Len(m) /\ k <= MaxWindows
      /\ \A i \in 1..Len(m) : i <= MaxWindows => i <= k
  BY <1>3, <1>4
<1>6. \A i \in 1..k : m[i] \in Pairs /\ m[i][1] <= m[i][2]
  <2>1. \A i \in 1..Len(m) : m[i] \in Pairs /\ Firsts(m)[i] = m[i][1] /\ Lasts(m)[i] = m[i][2]
    BY <1>1, PairsOf
  <2>2. \A i \in 1..Len(m) : Firsts(m)[i] <= Lasts(m)[i]
    BY <1>1 DEF Gathered, Gathers
  <2>3. \A i \in 1..k : i \in 1..Len(m)
    BY <1>3, <1>5
  <2> QED BY <2>1, <2>2, <2>3
<1>7. \A i \in 1..k : /\ ws[i] \in Pairs /\ ws[i][1] <= ws[i][2]
                      /\ ws[i][2] - ws[i][1] < MaxRange
  BY <1>2, <1>6, ClampedRange
<1>8. ws \in Seq(Pairs) /\ Len(ws) = k /\ DOMAIN ws = 1..k
  BY <1>2, <1>5, <1>7
<1>9. WindowsAreBounded(ws)
  BY <1>5, <1>7, <1>8 DEF WindowsAreBounded, ToSet
<1> QED BY <1>2, <1>5, <1>8, <1>9 DEF m, k, ws

-----------------------------------------------------------------------------
(* The steps.                                                              *)

(* A review starts with nothing found.                                     *)
LEMMA ContextStart == Init => ContextInv
<1> SUFFICES ASSUME Init PROVE ContextInv
  OBVIOUS
<1>1. /\ repo = [exists |-> TRUE, ready |-> FALSE, model |-> NoModel, chunks |-> {}]
      /\ passes = 0 /\ model \in Models /\ diff \in Diffs /\ pc = "check"
      /\ vectors = NoModel /\ asked = 0 /\ best = <<>> /\ left = {}
      /\ selected = <<>> /\ windows = <<>> /\ pool = {}
  BY DEF Init
<1>2. DOMAIN best = {} /\ DOMAIN selected = {} /\ DOMAIN windows = {}
  BY <1>1
<1>3. TypeOK
  <2>1. diff.queries \in Nat /\ MaxPasses \in Nat /\ MaxWindows \in Nat
    BY <1>1, DiffsAssumption, BoundsAssumption
  <2>2. 0 \in 0..MaxPasses /\ 0 \in 0..diff.queries
    BY <2>1
  <2>3. selected \in Seq(DOMAIN best) /\ Len(windows) <= MaxWindows /\ ToSet(windows) = {}
    BY <1>1, <2>1 DEF ToSet
  <2> QED BY <1>1, <1>2, <2>2, <2>3 DEF TypeOK
<1>4. IndexInv
  BY <1>1, <1>2 DEF IndexInv, ContextIsComparable
<1>5. SearchInv /\ WindowInv
  BY <1>1 DEF SearchInv, WindowInv
<1>6. TrimInv
  <2>1. Tokens(selected) = 0
    <3>1. HaveCost({})
      BY DEF HaveCost
    <3> QED BY <1>1, <3>1, TokensOfSome
  <2>2. 0 <= Budget
    BY ChunksAssumption
  <2> QED BY <1>1, <1>2, <2>1, <2>2 DEF TrimInv, TrimmedExactly
<1> QED BY <1>3, <1>4, <1>5, <1>6 DEF ContextInv

(* What the index becomes while the review goes on.                        *)
LEMMA EnvironmentStep ==
    ASSUME ContextInv, PostReindex \/ Swap \/ Delete
    PROVE  ContextInv'
<1>1. /\ UNCHANGED <<model, diff, pc, search, history>>
      /\ repo.exists
  BY DEF PostReindex, Swap, Delete, Answers
<1>2. UNCHANGED <<vectors, asked, best, left, selected, windows, pool>>
  BY <1>1 DEF search, history
<1>3. /\ repo \in [exists : BOOLEAN, ready : BOOLEAN, model : Models \cup {NoModel},
                   chunks : SUBSET Chunk]
      /\ passes \in 0..MaxPasses /\ MaxPasses \in Nat /\ model \in Models
  BY BoundsAssumption DEF ContextInv, TypeOK
<1>4. SearchInv' /\ TrimInv'
  BY <1>1, <1>2 DEF ContextInv, SearchInv, TrimInv, TrimmedExactly
<1>5. WindowInv'
  BY <1>1, <1>2 DEF ContextInv, WindowInv
<1>6. ContextIsComparable'
  BY <1>2 DEF ContextInv, IndexInv, ContextIsComparable
<1>7. ASSUME /\ repo' \in [exists : BOOLEAN, ready : BOOLEAN,
                           model : Models \cup {NoModel}, chunks : SUBSET Chunk]
             /\ passes' \in 0..MaxPasses
             /\ \A c \in repo'.chunks : c.space = repo'.model
             /\ repo'.ready => repo'.model \in Models
             /\ \/ repo'.chunks = repo.chunks /\ repo'.model = repo.model
                \/ repo'.chunks = {} \/ repo'.model = model
      PROVE  ContextInv'
  <2>1. TypeOK'
    BY <1>1, <1>2, <1>7 DEF ContextInv, TypeOK
  <2>2. IndexInv'
    BY <1>1, <1>2, <1>6, <1>7 DEF ContextInv, IndexInv
  <2> QED BY <1>4, <1>5, <2>1, <2>2 DEF ContextInv
<1>8. CASE PostReindex
  <2>1. repo' = [repo EXCEPT !.ready = FALSE] /\ passes' = passes
    BY <1>8 DEF PostReindex
  <2> QED BY <1>3, <1>7, <2>1 DEF ContextInv, IndexInv
<1>9. CASE Swap
  <2>1. PICK count \in 0..Len(Cost) :
          repo' = [exists |-> TRUE, ready |-> TRUE, model |-> model,
                   chunks |-> {[pass |-> passes', no |-> n, space |-> model] :
                                 n \in 1..count}]
    BY <1>9 DEF Swap
  <2>2. passes' = passes + 1 /\ passes' \in 1..MaxPasses
    BY <1>3, <1>9 DEF Swap
  <2>3. \A n \in 1..count : n \in DOMAIN Cost
    BY ChunksAssumption
  <2>4. repo'.chunks \in SUBSET Chunk
    BY <1>3, <2>1, <2>2, <2>3 DEF Chunk
  <2>5. /\ repo'.model = model /\ \A c \in repo'.chunks : c.space = model
        /\ repo' \in [exists : BOOLEAN, ready : BOOLEAN,
                      model : Models \cup {NoModel}, chunks : SUBSET Chunk]
    BY <1>3, <2>1, <2>4
  <2>6. passes' \in 0..MaxPasses
    BY <1>3, <2>2
  <2> QED BY <1>3, <1>7, <2>5, <2>6
<1>10. CASE Delete
  <2>1. /\ repo' = [exists |-> FALSE, ready |-> FALSE, model |-> NoModel, chunks |-> {}]
        /\ passes' = passes
    BY <1>10 DEF Delete
  <2> QED BY <1>3, <1>7, <2>1
<1> QED BY <1>8, <1>9, <1>10

(* The steps of a review before and after its search, which compare        *)
(* nothing.                                                                *)
LEMMA CheckStep ==
    ASSUME ContextInv, Check \/ Refuse \/ Embed
    PROVE  ContextInv'
<1>1. /\ pc \in {"check", "embed"} /\ pc' \in {"embed", "source", "refused", "ask"}
      /\ UNCHANGED <<environment, diff, asked, best, left, selected, history>>
  BY DEF Check, Refuse, Embed, search
<1>2. UNCHANGED <<repo, passes, model, asked, best, left, selected, windows, pool>>
  BY <1>1 DEF environment, history
<1>3. /\ asked = 0 /\ best = <<>> /\ selected = <<>> /\ left = {} /\ diff \in Diffs
      /\ DOMAIN best = {} /\ DOMAIN selected = {}
  BY <1>1 DEF ContextInv, SearchInv
<1>4. vectors' \in Models \cup {NoModel} /\ (pc' = "ask" => vectors' = model)
  BY DEF Check, Refuse, Embed, search, ContextInv, TypeOK
<1>5. pc' = "embed" => Check
  BY DEF Check, Refuse, Embed
<1>6. pc' = "embed" => repo.chunks = {} \/ repo.model = model
  BY <1>5, ChunksAssumption DEF Check, Comparable, Answers, ContextInv, IndexInv
<1>7. pc' = "ask" => pc = "embed"
  BY DEF Check, Refuse, Embed
<1>8. pc' \in {"embed", "ask"} => asked < diff.queries
  <2>1. diff.queries \in Nat
    BY <1>3, DiffsAssumption
  <2> QED BY <1>3, <1>5, <1>7, <2>1 DEF Check, ContextInv, SearchInv
<1>9. TypeOK'
  BY <1>1, <1>2, <1>4 DEF ContextInv, TypeOK
<1>10. IndexInv'
  BY <1>1, <1>2, <1>3, <1>4, <1>6, <1>7 DEF ContextInv, IndexInv, ContextIsComparable
<1>11. SearchInv'
  BY <1>1, <1>2, <1>3, <1>8 DEF SearchInv
<1>12. TrimInv'
  BY <1>1, <1>2, <1>3 DEF ContextInv, TrimInv, TrimmedExactly
<1>13. WindowInv'
  BY <1>1, <1>2 DEF ContextInv, WindowInv
<1> QED BY <1>9, <1>10, <1>11, <1>12, <1>13 DEF ContextInv

(* The worker starts the review over.                                      *)
LEMMA RestartStep ==
    ASSUME ContextInv, Restart
    PROVE  ContextInv'
<1>1. /\ UNCHANGED <<repo, passes, diff>> /\ model' \in Models /\ pc' = "check"
      /\ vectors' = NoModel /\ asked' = 0 /\ best' = <<>> /\ left' = {}
      /\ selected' = <<>> /\ windows' = <<>> /\ pool' = {}
  BY DEF Restart
<1>2. DOMAIN best' = {} /\ DOMAIN selected' = {} /\ DOMAIN windows' = {}
  BY <1>1
<1>3. diff \in Diffs /\ diff.queries \in Nat /\ MaxWindows \in Nat
  BY DiffsAssumption, BoundsAssumption DEF ContextInv, SearchInv
<1>4. TypeOK'
  <2>1. selected' \in Seq(DOMAIN best') /\ Len(windows') <= MaxWindows
        /\ ToSet(windows') = {} /\ asked' \in 0..diff'.queries
    BY <1>1, <1>3 DEF ToSet
  <2> QED BY <1>1, <1>2, <2>1 DEF ContextInv, TypeOK
<1>5. IndexInv'
  BY <1>1, <1>2 DEF ContextInv, IndexInv, ContextIsComparable
<1>6. SearchInv' /\ WindowInv'
  BY <1>1, <1>3 DEF SearchInv, WindowInv
<1>7. TrimInv'
  <2>1. Tokens(selected') = 0
    <3>1. HaveCost({})
      BY DEF HaveCost
    <3> QED BY <1>1, <3>1, TokensOfSome
  <2>2. 0 <= Budget
    BY ChunksAssumption
  <2> QED BY <1>1, <1>2, <2>1, <2>2 DEF TrimInv, TrimmedExactly
<1> QED BY <1>4, <1>5, <1>6, <1>7 DEF ContextInv

(* The end of the search, the windows and their history.                   *)
LEMMA HistoryStep ==
    ASSUME ContextInv, EndSearch \/ MakeWindows \/ FetchHistory,
           WindowsAreBounded(Collapse(diff.hunks))
    PROVE  ContextInv'
<1>1. /\ pc \in {"trim", "source", "history"} /\ pc' \in {"source", "history", "done"}
      /\ (pc = "trim" => left = {}) /\ UNCHANGED <<environment, diff, search>>
  BY DEF EndSearch, MakeWindows, FetchHistory
<1>2. UNCHANGED <<repo, passes, model, vectors, asked, best, left, selected>>
  BY <1>1 DEF environment, search
<1>3. left = {}
  BY <1>1 DEF ContextInv, SearchInv
<1>4. IndexInv' /\ SearchInv'
  BY <1>1, <1>2, <1>3 DEF ContextInv, IndexInv, SearchInv, ContextIsComparable
<1>5. TrimInv'
  BY <1>1, <1>2 DEF ContextInv, TrimInv, TrimmedExactly
<1>6. /\ WindowInv' /\ pool' \subseteq DOMAIN windows'
  <2>1. CASE EndSearch
    BY <1>1, <1>2, <2>1 DEF EndSearch, history, ContextInv, WindowInv, TypeOK
  <2>2. CASE MakeWindows
    BY <1>1, <1>2, <2>2 DEF MakeWindows, ContextInv, WindowInv
  <2>3. CASE FetchHistory
    BY <1>1, <1>2, <2>3 DEF FetchHistory, ContextInv, WindowInv
  <2> QED BY <2>1, <2>2, <2>3
<1>7. WindowsAreBounded(windows')
  <2>1. WindowsAreBounded(<<>>)
    BY BoundsAssumption DEF WindowsAreBounded, ToSet
  <2> QED BY <1>1, <1>6, <2>1 DEF WindowInv
<1>8. TypeOK'
  BY <1>1, <1>2, <1>6, <1>7 DEF ContextInv, TypeOK, WindowsAreBounded
<1> QED BY <1>4, <1>5, <1>6, <1>8 DEF ContextInv

(* A review that the database fails has found nothing.                     *)
LEMMA DatabaseStep ==
    ASSUME ContextInv, DatabaseFails
    PROVE  ContextInv'
<1>1. /\ pc \in {"check", "ask", "source"} /\ pc' = "refused"
      /\ asked' = 0 /\ best' = <<>> /\ selected' = <<>>
      /\ UNCHANGED <<repo, passes, model, diff, vectors, left, windows, pool>>
  BY DEF DatabaseFails, environment, history
<1>2. DOMAIN best' = {} /\ DOMAIN selected' = {}
  BY <1>1
<1>3. left = {} /\ diff \in Diffs /\ diff.queries \in Nat
  BY <1>1, DiffsAssumption DEF ContextInv, SearchInv
<1>4. TypeOK'
  <2>1. selected' \in Seq(DOMAIN best') /\ asked' \in 0..diff'.queries
    BY <1>1, <1>3
  <2> QED BY <1>1, <1>2, <1>3, <2>1 DEF ContextInv, TypeOK
<1>5. IndexInv'
  BY <1>1, <1>2 DEF ContextInv, IndexInv, ContextIsComparable
<1>6. SearchInv' /\ WindowInv'
  BY <1>1, <1>3 DEF ContextInv, SearchInv, WindowInv
<1>7. TrimInv'
  <2>1. Tokens(selected') = 0
    <3>1. HaveCost({})
      BY DEF HaveCost
    <3> QED BY <1>1, <3>1, TokensOfSome
  <2>2. 0 <= Budget
    BY ChunksAssumption
  <2> QED BY <1>1, <1>2, <2>1, <2>2 DEF TrimInv, TrimmedExactly
<1> QED BY <1>4, <1>5, <1>6, <1>7 DEF ContextInv

(* A query is answered with chunks of one model.                           *)
LEMMA AskStep ==
    ASSUME ContextInv, Ask
    PROVE  ContextInv'
<1>1. /\ pc = "ask" /\ UNCHANGED <<repo, passes, model, diff, vectors, selected, windows, pool>>
      /\ asked' = asked + 1
  BY DEF Ask, environment, history
<1>2. PICK near \in SUBSET repo.chunks : \E score \in [near -> Scores] :
         best' = [c \in DOMAIN best \cup near |->
                    IF c \notin near THEN best[c]
                    ELSE IF c \in DOMAIN best THEN Larger(best[c], score[c])
                    ELSE score[c]]
  BY DEF Ask
<1>3. /\ diff \in Diffs /\ diff.queries \in Nat /\ asked \in 0..diff.queries
      /\ asked < diff.queries /\ left = {} /\ selected = <<>> /\ vectors = model
      /\ DOMAIN selected = {} /\ near \subseteq Chunk
      /\ DOMAIN best \subseteq Chunk /\ \A c \in DOMAIN best : best[c] \in Scores
  BY <1>1, DiffsAssumption DEF ContextInv, SearchInv, IndexInv, TypeOK
<1>4. \/ asked' < diff.queries /\ pc' = "ask" /\ left' = {}
      \/ pc' = "trim" /\ left' = DOMAIN best'
  BY <1>1, <1>3 DEF Ask
<1>5. asked' \in 0..diff.queries
  BY <1>1, <1>3
<1>6. \A c \in DOMAIN best' : /\ c \in DOMAIN best \/ c \in near
                              /\ c \in Chunk /\ best'[c] \in Scores
  BY <1>2, <1>3 DEF Larger
<1>7. TypeOK'
  <2>1. selected' \in Seq(DOMAIN best')
    BY <1>1, <1>3
  <2> QED BY <1>1, <1>4, <1>5, <1>6, <2>1 DEF ContextInv, TypeOK
<1>8. IndexInv'
  <2>1. \A c \in near : c.space = model
    BY <1>1 DEF ContextInv, IndexInv
  <2>2. ContextIsComparable'
    BY <1>1, <1>3, <1>6, <2>1 DEF ContextInv, IndexInv, ContextIsComparable
  <2> QED BY <1>1, <1>4, <2>2 DEF ContextInv, IndexInv
<1>9. SearchInv' /\ WindowInv'
  BY <1>1, <1>3, <1>4 DEF ContextInv, SearchInv, WindowInv
<1>10. TrimInv'
  BY <1>1, <1>3, <1>4 DEF ContextInv, TrimInv, TrimmedExactly
<1> QED BY <1>7, <1>8, <1>9, <1>10 DEF ContextInv

(* A chunk is taken or left out.                                           *)
LEMMA TrimStep ==
    ASSUME ContextInv, Trim
    PROVE  ContextInv'
<1>1. /\ pc = "trim"
      /\ UNCHANGED <<repo, passes, model, diff, pc, vectors, asked, best, windows, pool>>
  BY DEF Trim, environment, history
<1>2. PICK c \in left :
         /\ \A d \in left : best[d] <= best[c]
         /\ selected' = IF Fits(c) THEN Append(selected, c) ELSE selected
         /\ left' = left \ {c}
  BY DEF Trim
<1>3. /\ left \subseteq DOMAIN best /\ DOMAIN best \subseteq Chunk
      /\ selected \in Seq(DOMAIN best) /\ Len(selected) \in Nat
      /\ DOMAIN selected = 1..Len(selected)
      /\ \A d \in DOMAIN best : best[d] \in Nat
      /\ \A i \in 1..Len(selected) : selected[i] \in DOMAIN best
  <2>1. /\ left \subseteq DOMAIN best /\ DOMAIN best \subseteq Chunk
        /\ selected \in Seq(DOMAIN best) /\ \A d \in DOMAIN best : best[d] \in Scores
    BY DEF ContextInv, TypeOK
  <2>2. ASSUME NEW S, NEW s \in Seq(S)
        PROVE  /\ Len(s) \in Nat /\ DOMAIN s = 1..Len(s)
               /\ \A i \in 1..Len(s) : s[i] \in S
    OBVIOUS
  <2>3. /\ Len(selected) \in Nat /\ DOMAIN selected = 1..Len(selected)
        /\ \A i \in 1..Len(selected) : selected[i] \in DOMAIN best
    BY <2>1, <2>2
  <2>4. \A d \in DOMAIN best : best[d] \in Nat
    BY <2>1, ChunksAssumption
  <2> QED BY <2>1, <2>3, <2>4
<1>4. HaveCost(DOMAIN best) /\ Cost[c.no] \in Nat /\ Budget \in Nat
  <2>1. \A x \in Chunk : x.no \in DOMAIN Cost
    BY DEF Chunk
  <2>2. HaveCost(DOMAIN best) /\ c.no \in DOMAIN Cost
    BY <1>2, <1>3, <2>1 DEF HaveCost
  <2> QED BY <2>2, ChunksAssumption
<1>5. /\ \A i \in DOMAIN selected :
           selected[i] \notin left /\ \A d \in left : best[d] <= best[selected[i]]
      /\ Tokens(selected) <= Budget /\ Tokens(selected) \in Nat
      /\ \A i, j \in DOMAIN selected :
           i < j => /\ selected[i] # selected[j]
                    /\ best[selected[i]] >= best[selected[j]]
  BY <1>3, <1>4, TokensOfSome DEF ContextInv, TrimInv, TrimmedExactly
<1> DEFINE Misfit(x, s) == \E n \in 0..Len(s) :
                 /\ \A i \in 1..n : best[s[i]] >= best[x]
                 /\ Tokens(SubSeq(s, 1, n)) + Cost[x.no] > Budget
<1>6. \A x \in DOMAIN best \ (left \cup ToSet(selected)) : Misfit(x, selected)
  BY <1>1 DEF ContextInv, TrimInv, TrimmedExactly
<1>7. SearchInv' /\ WindowInv' /\ IndexInv'
  BY <1>1, <1>2 DEF ContextInv, SearchInv, WindowInv, IndexInv, ContextIsComparable
<1>8. CASE Fits(c)
  <2>1. selected' = Append(selected, c)
    BY <1>2, <1>8
  <2>2. /\ selected' \in Seq(DOMAIN best) /\ Len(selected') = Len(selected) + 1
        /\ DOMAIN selected' = 1..(Len(selected) + 1)
        /\ \A i \in 1..Len(selected) : selected'[i] = selected[i]
        /\ selected'[Len(selected) + 1] = c
    <3>1. ASSUME NEW S, NEW s \in Seq(S), NEW x \in S
          PROVE  /\ Append(s, x) \in Seq(S) /\ Len(Append(s, x)) = Len(s) + 1
                 /\ DOMAIN Append(s, x) = 1..(Len(s) + 1)
                 /\ \A i \in 1..Len(s) : Append(s, x)[i] = s[i]
                 /\ Append(s, x)[Len(s) + 1] = x
      OBVIOUS
    <3>2. c \in DOMAIN best
      BY <1>2, <1>3
    <3> QED BY <1>3, <2>1, <3>1, <3>2
  <2>3. Tokens(selected') <= Budget
    <3>1. Tokens(Append(selected, c)) = Tokens(selected) + Cost[c.no]
      BY <1>2, <1>3, <1>4, TokensOfSome
    <3> QED BY <1>8, <2>1, <3>1 DEF Fits
  <2>4. TypeOK'
    BY <1>1, <1>2, <2>2 DEF ContextInv, TypeOK
  <2>5. \A i \in DOMAIN selected' :
           selected'[i] \notin left' /\ \A d \in left' : best[d] <= best[selected'[i]]
    BY <1>2, <1>3, <1>5, <2>2
  <2>6. \A i, j \in DOMAIN selected' :
           i < j => /\ selected'[i] # selected'[j]
                    /\ best[selected'[i]] >= best[selected'[j]]
    BY <1>2, <1>3, <1>5, <2>2
  <2>7. ASSUME NEW x \in DOMAIN best \ (left' \cup ToSet(selected'))
        PROVE  Misfit(x, selected')
    <3>1. x # c /\ x \notin left /\ x \notin ToSet(selected)
      BY <1>2, <1>3, <2>2, <2>7 DEF ToSet
    <3>2. PICK n \in 0..Len(selected) :
             /\ \A i \in 1..n : best[selected[i]] >= best[x]
             /\ Tokens(SubSeq(selected, 1, n)) + Cost[x.no] > Budget
      BY <1>6, <3>1
    <3>3. n \in 0..Len(selected') /\ \A i \in 1..n : i \in 1..Len(selected)
      BY <1>3, <2>2
    <3>4. SubSeq(selected', 1, n) = SubSeq(selected, 1, n)
      BY <1>3, <2>2, <3>3
    <3> QED BY <2>2, <3>2, <3>3, <3>4
  <2>8. TrimInv'
    BY <1>1, <2>3, <2>5, <2>6, <2>7 DEF TrimInv, TrimmedExactly
  <2> QED BY <1>7, <2>4, <2>8 DEF ContextInv
<1>9. CASE ~Fits(c)
  <2>1. selected' = selected
    BY <1>2, <1>9
  <2>2. TypeOK'
    BY <1>1, <1>2, <2>1 DEF ContextInv, TypeOK
  <2>3. Misfit(c, selected)
    <3>1. SubSeq(selected, 1, Len(selected)) = selected
      BY <1>3
    <3>2. Tokens(SubSeq(selected, 1, Len(selected))) + Cost[c.no] > Budget
      <4>1. ~(Tokens(selected) + Cost[c.no] <= Budget)
        BY <1>9 DEF Fits
      <4>2. Tokens(selected) + Cost[c.no] > Budget
        BY <1>4, <1>5, <4>1
      <4>3. Tokens(SubSeq(selected, 1, Len(selected))) = Tokens(selected)
        BY <3>1, Zenon
      <4> QED BY <4>2, <4>3
    <3>3. ASSUME NEW i \in 1..Len(selected) PROVE best[selected[i]] >= best[c]
      <4>1. best[c] <= best[selected[i]]
        BY <1>2, <1>3, <1>5
      <4>2. best[c] \in Nat /\ best[selected[i]] \in Nat
        BY <1>2, <1>3
      <4> QED BY <4>1, <4>2
    <3>4. Len(selected) \in 0..Len(selected)
      BY <1>3
    <3> QED BY <3>2, <3>3, <3>4
  <2>4. \A x \in DOMAIN best \ (left' \cup ToSet(selected)) : Misfit(x, selected)
    <3> HIDE DEF Misfit
    <3> QED BY <1>2, <1>6, <2>3
  <2>5. \A i \in DOMAIN selected :
           selected[i] \notin left' /\ \A d \in left' : best[d] <= best[selected[i]]
    BY <1>2, <1>5
  <2>6. TrimInv'
    BY <1>1, <1>5, <2>1, <2>4, <2>5 DEF TrimInv, TrimmedExactly
  <2> QED BY <1>7, <2>2, <2>6 DEF ContextInv
<1> QED BY <1>8, <1>9

(* Every step of the review, of the indexer and of the operator keeps the  *)
(* invariant: the one induction of this module over what happens.          *)
THEOREM ContextInvariance == Spec => []ContextInv
<1>1. Init => ContextInv
  BY ContextStart
<1>2. ContextInv /\ [Next]_vars => ContextInv'
  <2> SUFFICES ASSUME ContextInv, [Next]_vars PROVE ContextInv'
    OBVIOUS
  <2>1. CASE Check \/ Refuse \/ Embed
    BY <2>1, CheckStep
  <2>2. CASE Ask
    BY <2>2, AskStep
  <2>3. CASE Trim
    BY <2>3, TrimStep
  <2>4. CASE EndSearch \/ MakeWindows \/ FetchHistory
    <3>1. WindowsAreBounded(Collapse(diff.hunks))
      BY CollapsedDiff DEF ContextInv, SearchInv
    <3> QED BY <2>4, <3>1, HistoryStep
  <2>5. CASE PostReindex \/ Swap \/ Delete
    BY <2>5, EnvironmentStep
  <2>6. CASE Restart
    BY <2>6, RestartStep
  <2>7. CASE DatabaseFails
    BY <2>7, DatabaseStep
  <2>8. CASE UNCHANGED vars
    BY <2>8 DEF vars, environment, search, history, ContextInv, TypeOK, IndexInv,
         SearchInv, TrimInv, WindowInv, ContextIsComparable, TrimmedExactly
  <2> QED BY <2>1, <2>2, <2>3, <2>4, <2>5, <2>6, <2>7, <2>8 DEF Next
<1> QED BY <1>1, <1>2, PTL DEF Spec

-----------------------------------------------------------------------------
(* The lines of the windows.                                               *)

(* Begins, for any lines touched.                                          *)
BeginsOf(L) == {l \in L : \A n \in 1..NearBy : l - n \notin L}

(* The windows come one after the other.                                   *)
LEMMA WindowsAscend ==
    ASSUME NEW n \in Nat, NEW lo \in [1..n -> Int], NEW hi \in [1..n -> Int],
           NEW L \in SUBSET Int, Gathers(lo, hi, n, L)
    PROVE  \A i, j \in 1..n : /\ lo[i] <= hi[i] /\ lo[i] \in L /\ hi[i] \in L
                              /\ i < j => hi[i] + NearBy < lo[j] /\ lo[i] < lo[j]
                              /\ lo[i] < lo[j] => i < j /\ hi[i] + NearBy < lo[j]
                              /\ i # j => lo[i] # lo[j]
<1>1. NearBy \in Nat /\ NearBy >= 1
  BY BoundsAssumption
<1>2. \A i, j \in 1..n : /\ lo[i] <= hi[i] /\ lo[i] \in L /\ hi[i] \in L
                         /\ i < j => hi[i] + NearBy < lo[j]
  BY DEF Gathers
<1>3. \A i, j \in 1..n : i < j => hi[i] + NearBy < lo[j] /\ lo[i] < lo[j]
  BY <1>1, <1>2
<1>4. \A i, j \in 1..n : i < j \/ i = j \/ j < i
  OBVIOUS
<1>5. \A i, j \in 1..n : lo[i] < lo[j] => i < j
  BY <1>3, <1>4
<1>6. \A i, j \in 1..n : i # j => lo[i] # lo[j]
  BY <1>3, <1>4
<1> QED BY <1>2, <1>3, <1>5, <1>6

(* The lines that begin a window are the first lines of the windows.       *)
LEMMA WindowsBegin ==
    ASSUME NEW n \in Nat, NEW lo \in [1..n -> Int], NEW hi \in [1..n -> Int],
           NEW L \in SUBSET Int, Gathers(lo, hi, n, L)
    PROVE  /\ \A i \in 1..n : lo[i] \in BeginsOf(L)
           /\ \A l \in BeginsOf(L) : \E i \in 1..n : l = lo[i]
<1>1. NearBy \in Nat /\ NearBy >= 1
  BY BoundsAssumption
<1>2. \A i, j \in 1..n : /\ lo[i] <= hi[i] /\ lo[i] \in L /\ hi[i] \in L
                         /\ i < j => hi[i] + NearBy < lo[j] /\ lo[i] < lo[j]
  BY WindowsAscend
<1>3. ASSUME NEW i \in 1..n, NEW k \in 1..NearBy, lo[i] - k \in L
      PROVE  FALSE
  <2>1. PICK j \in 1..n : lo[j] <= lo[i] - k /\ lo[i] - k <= hi[j]
    BY <1>3 DEF Gathers
  <2>2. i < j \/ i = j \/ j < i
    OBVIOUS
  <2>3. k \in Nat /\ 1 <= k /\ k <= NearBy
    BY <1>1
  <2> QED BY <1>1, <1>2, <2>1, <2>2, <2>3
<1>4. \A i \in 1..n : lo[i] \in BeginsOf(L)
  BY <1>2, <1>3 DEF BeginsOf
<1>5. ASSUME NEW l \in BeginsOf(L)
      PROVE  \E i \in 1..n : l = lo[i]
  <2>1. l \in L /\ l \in Int /\ \A k \in 1..NearBy : l - k \notin L
    BY DEF BeginsOf
  <2>2. PICK i \in 1..n : lo[i] <= l /\ l <= hi[i]
    BY <2>1 DEF Gathers
  <2>3. ~(lo[i] < l)
    BY <2>1, <2>2 DEF Gathers
  <2>4. l = lo[i]
    BY <2>1, <2>2, <2>3
  <2> QED BY <2>4
<1> QED BY <1>4, <1>5

(* A window is as far down as there are beginnings up to its own.          *)
Ranked(lo, n, L) ==
    \A i \in 1..n : Cardinality({a \in BeginsOf(L) : a <= lo[i]}) = i

LEMMA RankOfWindow ==
    ASSUME NEW n \in Nat, NEW lo \in [1..n -> Int], NEW hi \in [1..n -> Int],
           NEW L \in SUBSET Int, Gathers(lo, hi, n, L)
    PROVE  Ranked(lo, n, L)
<1> SUFFICES ASSUME NEW i \in 1..n
             PROVE  Cardinality({a \in BeginsOf(L) : a <= lo[i]}) = i
  BY DEF Ranked
<1> DEFINE A == {a \in BeginsOf(L) : a <= lo[i]}
           f == [j \in 1..i |-> lo[j]]
<1>1. \A j, k \in 1..n : /\ j < k => lo[j] < lo[k]
                         /\ lo[j] < lo[k] => j < k
                         /\ j # k => lo[j] # lo[k]
  BY WindowsAscend
<1>2. /\ \A j \in 1..n : lo[j] \in BeginsOf(L)
      /\ \A l \in BeginsOf(L) : \E j \in 1..n : l = lo[j]
  BY WindowsBegin
<1>3. \A j \in 1..i : j \in 1..n /\ f[j] = lo[j] /\ lo[j] <= lo[i]
  <2>1. \A j \in 1..i : j \in 1..n /\ (j < i \/ j = i)
    OBVIOUS
  <2> QED BY <1>1, <2>1
<1>4. ASSUME NEW a \in A PROVE \E j \in 1..i : f[j] = a
  <2>1. PICK j \in 1..n : a = lo[j]
    BY <1>2
  <2>2. ~(i < j)
    BY <1>1, <2>1
  <2>3. j \in 1..i
    BY <2>2
  <2> QED BY <2>1, <2>3
<1>5. f \in [1..i -> A]
  BY <1>2, <1>3
<1>6. \A j, k \in 1..i : f[j] = f[k] => j = k
  BY <1>1, <1>3
<1>7. DOMAIN f = 1..i
  OBVIOUS
<1> HIDE DEF f, A
<1>8. f \in Surjection(1..i, A)
  BY <1>4, <1>5 DEF Surjection
<1>9. f \in Injection(1..i, A)
  BY <1>5, <1>6, <1>7 DEF Injection, IsInjective
<1>10. IsFiniteSet(1..i) /\ Cardinality(1..i) = i
  <2>1. 1 \in Int /\ i \in Int /\ 1 <= i
    OBVIOUS
  <2>2. IsFiniteSet(1..i) /\ Cardinality(1..i) = IF 1 > i THEN 0 ELSE i - 1 + 1
    BY <2>1, FS_Interval
  <2> QED BY <2>1, <2>2
<1>11. Cardinality(A) = Cardinality(1..i)
  BY <1>8, <1>9, <1>10, FS_Surjection
<1> QED BY <1>10, <1>11 DEF A

(* From the first line of a window, the lines up to its last are those     *)
(* with a touched line after them and before the next beginning.           *)
Reached(lo, hi, n, L) ==
    \A i \in 1..n, line \in Int : lo[i] <= line =>
      ((\E t \in L : line <= t /\ \A a \in BeginsOf(L) : ~(lo[i] < a /\ a <= t))
         <=> line <= hi[i])

LEMMA ReachOfWindow ==
    ASSUME NEW n \in Nat, NEW lo \in [1..n -> Int], NEW hi \in [1..n -> Int],
           NEW L \in SUBSET Int, Gathers(lo, hi, n, L)
    PROVE  Reached(lo, hi, n, L)
<1> SUFFICES ASSUME NEW i \in 1..n, NEW line \in Int, lo[i] <= line
             PROVE  (\E t \in L : line <= t /\ \A a \in BeginsOf(L) : ~(lo[i] < a /\ a <= t))
                      <=> line <= hi[i]
  BY DEF Reached
<1>1. NearBy \in Nat /\ NearBy >= 1
  BY BoundsAssumption
<1>2. \A j, k \in 1..n : /\ lo[j] <= hi[j] /\ lo[j] \in L /\ hi[j] \in L
                         /\ j < k => hi[j] + NearBy < lo[k] /\ lo[j] < lo[k]
                         /\ lo[j] < lo[k] => j < k /\ hi[j] + NearBy < lo[k]
  BY WindowsAscend
<1>3. /\ \A j \in 1..n : lo[j] \in BeginsOf(L)
      /\ \A l \in BeginsOf(L) : \E j \in 1..n : l = lo[j]
  BY WindowsBegin
<1>4. ASSUME line <= hi[i]
      PROVE  \E t \in L : line <= t /\ \A a \in BeginsOf(L) : ~(lo[i] < a /\ a <= t)
  <2>1. ASSUME NEW a \in BeginsOf(L), lo[i] < a, a <= hi[i]
        PROVE  FALSE
    <3>1. PICK j \in 1..n : a = lo[j]
      BY <1>3
    <3>2. hi[i] + NearBy < lo[j]
      BY <1>2, <2>1, <3>1
    <3> QED BY <1>1, <2>1, <3>1, <3>2
  <2> QED BY <1>2, <1>4, <2>1
<1>5. ASSUME NEW t \in L, line <= t, \A a \in BeginsOf(L) : ~(lo[i] < a /\ a <= t)
      PROVE  line <= hi[i]
  <2>1. PICK j \in 1..n : lo[j] <= t /\ t <= hi[j]
    BY DEF Gathers
  <2>2. ~(lo[i] < lo[j])
    BY <1>3, <1>5, <2>1
  <2>3. ~(i < j)
    BY <1>2, <2>2
  <2>4. CASE j < i
    <3>1. hi[j] + NearBy < lo[i]
      BY <1>2, <2>4
    <3> QED BY <1>1, <1>5, <2>1, <3>1
  <2>5. CASE j = i
    BY <1>5, <2>1, <2>5
  <2> QED BY <2>3, <2>4, <2>5
<1> QED BY <1>4, <1>5

(* The lines that a window keeps once it is clamped.                       *)
Keeps(m, i, line) ==
    m[i][1] <= line /\ line <= m[i][2] /\ line < m[i][1] + MaxRange

(* The lines of the property, as those of the ranges.                      *)
LEMMA TouchedLines ==
    Touched = LinesOf(Ranges(diff.hunks)) /\ Begins = BeginsOf(Touched)
BY DEF Touched, LinesOf, Begins, BeginsOf

(* The windows that a line calls for are those that keep it.               *)
LEMMA RangeOfWindow ==
    ASSUME diff \in Diffs, NEW line \in Int
    PROVE  \A l \in Int :
             l \in WindowOf(line) <=>
               \E i \in 1..Kept(diff.hunks) :
                 l = Merged(diff.hunks)[i][1] /\ Keeps(Merged(diff.hunks), i, line)
<1> DEFINE m == Merged(diff.hunks)
           n == Len(m)
           lo == Firsts(m)
           hi == Lasts(m)
           k == Kept(diff.hunks)
<1>1. m \in Seq(Pairs) /\ Gathered(m, Touched) /\ Touched \in SUBSET (Nat \ {0})
  BY MergedDiff, TouchedLines
<1>2. k \in Nat /\ k <= n /\ k <= MaxWindows /\ \A i \in 1..n : i <= MaxWindows => i <= k
  BY CollapsedDiff
<1> HIDE DEF m, k
<1>3. /\ n \in Nat /\ lo \in [1..n -> Int] /\ hi \in [1..n -> Int]
      /\ \A i \in 1..n : lo[i] = m[i][1] /\ hi[i] = m[i][2]
  BY <1>1, PairsOf
<1>4. Gathers(lo, hi, n, Touched) /\ Touched \in SUBSET Int /\ MaxWindows \in Nat
  BY <1>1, BoundsAssumption DEF Gathered
<1> HIDE DEF n, lo, hi
<1>5. /\ \A i \in 1..n : lo[i] \in Begins
      /\ \A l \in Begins : \E i \in 1..n : l = lo[i]
  BY <1>3, <1>4, WindowsBegin, TouchedLines
<1>6. ASSUME NEW i \in 1..n
      PROVE  lo[i] \in WindowOf(line) <=> i <= MaxWindows /\ Keeps(m, i, line)
  <2>1. Cardinality({a \in Begins : a <= lo[i]}) = i
    <3>1. Ranked(lo, n, Touched)
      BY <1>3, <1>4, RankOfWindow
    <3> QED BY <3>1, TouchedLines DEF Ranked
  <2>2. lo[i] <= line =>
          ((\E t \in Touched : line <= t /\ \A a \in Begins : ~(lo[i] < a /\ a <= t))
             <=> line <= hi[i])
    <3>1. Reached(lo, hi, n, Touched)
      BY <1>3, <1>4, ReachOfWindow
    <3> QED BY <3>1, TouchedLines DEF Reached
  <2>3. lo[i] \in Begins /\ lo[i] = m[i][1] /\ hi[i] = m[i][2]
    BY <1>3, <1>5
  <2> QED BY <2>1, <2>2, <2>3 DEF WindowOf, Keeps
<1>7. ASSUME NEW l \in Int
      PROVE  l \in WindowOf(line) <=> \E i \in 1..k : l = m[i][1] /\ Keeps(m, i, line)
  <2>1. ASSUME l \in WindowOf(line)
        PROVE  \E i \in 1..k : l = m[i][1] /\ Keeps(m, i, line)
    <3>1. PICK i \in 1..n : l = lo[i]
      BY <1>5, <2>1 DEF WindowOf
    <3>2. i <= MaxWindows /\ Keeps(m, i, line)
      BY <1>6, <2>1, <3>1
    <3>3. i \in 1..k
      BY <1>2, <3>2
    <3> QED BY <1>3, <3>1, <3>2, <3>3
  <2>2. ASSUME NEW i \in 1..k, l = m[i][1], Keeps(m, i, line)
        PROVE  l \in WindowOf(line)
    <3>1. i \in 1..n /\ i <= MaxWindows
      BY <1>2, <1>3, <1>4
    <3> QED BY <1>3, <1>6, <2>2, <3>1
  <2> QED BY <2>1, <2>2
<1> QED BY <1>7 DEF m, k

(* No line is kept by two windows.                                         *)
LEMMA WindowsAreApart ==
    ASSUME NEW d \in Diffs, NEW line \in Int,
           NEW i \in 1..Kept(d.hunks), NEW j \in 1..Kept(d.hunks),
           Keeps(Merged(d.hunks), i, line), Keeps(Merged(d.hunks), j, line)
    PROVE  i = j
<1> DEFINE m == Merged(d.hunks)
           n == Len(m)
           lo == Firsts(m)
           hi == Lasts(m)
           L == LinesOf(Ranges(d.hunks))
<1>1. m \in Seq(Pairs) /\ Gathered(m, L) /\ L \in SUBSET (Nat \ {0})
  BY MergedDiff
<1>2. Kept(d.hunks) \in Nat /\ Kept(d.hunks) <= n
  BY CollapsedDiff
<1>3. Keeps(m, i, line) /\ Keeps(m, j, line)
  OBVIOUS
<1> HIDE DEF m, L
<1>4. /\ n \in Nat /\ lo \in [1..n -> Int] /\ hi \in [1..n -> Int]
      /\ \A a \in 1..n : lo[a] = m[a][1] /\ hi[a] = m[a][2]
  BY <1>1, PairsOf
<1>5. Gathers(lo, hi, n, L) /\ L \in SUBSET Int /\ NearBy \in Nat
  BY <1>1, BoundsAssumption DEF Gathered
<1> HIDE DEF n, lo, hi
<1>6. i \in 1..n /\ j \in 1..n
  BY <1>2, <1>4
<1>7. /\ i < j => hi[i] + NearBy < lo[j]
      /\ j < i => hi[j] + NearBy < lo[i]
  BY <1>4, <1>5, <1>6, WindowsAscend
<1>8. lo[i] <= line /\ line <= hi[i] /\ lo[j] <= line /\ line <= hi[j]
  BY <1>3, <1>4, <1>6 DEF Keeps
<1> QED BY <1>4, <1>5, <1>6, <1>7, <1>8

(* A window holds the lines it keeps.                                      *)
LEMMA HoldingWindows ==
    ASSUME diff \in Diffs, windows = Collapse(diff.hunks), NEW line \in Int
    PROVE  /\ Holding(line) = {i \in 1..Kept(diff.hunks) : Keeps(Merged(diff.hunks), i, line)}
           /\ \A i \in Holding(line) : /\ windows[i][1] = Merged(diff.hunks)[i][1]
                                       /\ windows[i][1] \in Nat \ {0}
           /\ \A i, j \in Holding(line) : i = j
<1> DEFINE m == Merged(diff.hunks)
           n == Len(m)
           k == Kept(diff.hunks)
<1>1. m \in Seq(Pairs) /\ Gathered(m, Touched) /\ Touched \in SUBSET (Nat \ {0})
  BY MergedDiff, TouchedLines
<1>2. /\ k \in Nat /\ k <= n /\ windows = [i \in 1..k |-> Clamp(m[i])]
  BY CollapsedDiff
<1>3. \A i, j \in 1..k : Keeps(m, i, line) /\ Keeps(m, j, line) => i = j
  BY WindowsAreApart
<1> HIDE DEF m, k
<1>4. \A i \in 1..k : m[i] \in Pairs /\ m[i][1] <= m[i][2] /\ m[i][1] \in Nat \ {0}
  <2>1. n \in Nat /\ \A i \in 1..n : m[i] \in Pairs /\ Firsts(m)[i] = m[i][1] /\ Lasts(m)[i] = m[i][2]
    BY <1>1, PairsOf
  <2>2. \A i \in 1..n : Firsts(m)[i] <= Lasts(m)[i] /\ Firsts(m)[i] \in Touched
    BY <1>1 DEF Gathered, Gathers
  <2>3. \A i \in 1..k : i \in 1..n
    BY <1>2, <2>1
  <2> QED BY <1>1, <2>1, <2>2, <2>3
<1>5. ASSUME NEW i \in 1..k
      PROVE  /\ windows[i][1] = m[i][1]
             /\ windows[i][1] <= line /\ line <= windows[i][2] <=> Keeps(m, i, line)
  <2>1. windows[i] = Clamp(m[i])
    BY <1>2
  <2>2. /\ Clamp(m[i])[1] = m[i][1]
        /\ line <= Clamp(m[i])[2] <=> line <= m[i][2] /\ line < m[i][1] + MaxRange
    BY <1>4, ClampedRange
  <2> QED BY <2>1, <2>2 DEF Keeps
<1>6. DOMAIN windows = 1..k
  BY <1>2
<1>7. Holding(line) = {i \in 1..k : Keeps(m, i, line)}
  BY <1>5, <1>6 DEF Holding
<1> QED BY <1>3, <1>4, <1>5, <1>7 DEF m, k

(* A line has the history of its window, if the lookup found it.           *)
LEMMA HistoryOfLine ==
    ASSUME diff \in Diffs, windows = Collapse(diff.hunks), NEW line \in Int
    PROVE  /\ {windows[i][1] : i \in Holding(line)} = WindowOf(line)
           /\ {History(line)} \ {0} = {windows[i][1] : i \in Holding(line) \cap pool}
<1> DEFINE m == Merged(diff.hunks)
           k == Kept(diff.hunks)
           H == Holding(line)
<1>1. /\ H = {i \in 1..k : Keeps(m, i, line)}
      /\ \A i \in H : windows[i][1] = m[i][1] /\ windows[i][1] \in Nat \ {0}
      /\ \A i, j \in H : i = j
  BY HoldingWindows
<1>2. \A l \in Int : l \in WindowOf(line) <=> \E i \in 1..k : l = m[i][1] /\ Keeps(m, i, line)
  BY RangeOfWindow
<1>3. \A l \in WindowOf(line) : l \in Int
  BY MergedDiff, TouchedLines DEF WindowOf, Begins
<1> HIDE DEF m, k, H
<1>4. {windows[i][1] : i \in H} = WindowOf(line)
  BY <1>1, <1>2, <1>3
<1>5. CASE H \cap pool = {}
  <2>1. History(line) = 0
    BY <1>5 DEF History, H
  <2> QED BY <1>4, <1>5, <2>1 DEF H
<1>6. CASE H \cap pool # {}
  <2>1. PICK i \in H : i \in pool
    BY <1>6
  <2>2. H \cap pool = {i}
    BY <1>1, <2>1
  <2>3. H \in SUBSET Nat
    BY <1>1
  <2>4. Min({i}) = i
    BY <2>1, <2>3 DEF Min
  <2>5. History(line) = windows[Min(H \cap pool)][1]
    BY <1>6 DEF History, H
  <2>6. History(line) = windows[i][1]
    BY <2>2, <2>4, <2>5
  <2>7. windows[i][1] # 0
    BY <1>1, <2>1
  <2>8. {History(line)} \ {0} = {windows[j][1] : j \in H \cap pool}
    BY <2>2, <2>6, <2>7
  <2> QED BY <1>4, <2>8 DEF H
<1> QED BY <1>5, <1>6

-----------------------------------------------------------------------------
(* The variables of a review keep their types, and no window is longer     *)
(* or further down the file than the lookups allow (retrieval/service.py   *)
(* and review/git_temporal.py).                                            *)
THEOREM ContextTypes == Spec => []TypeOK
<1>1. ContextInv => TypeOK
  BY DEF ContextInv
<1> QED BY <1>1, ContextInvariance, PTL

(* A chunk is compared with a query of its own model only, although the    *)
(* repository may be indexed again or deleted between any two queries and  *)
(* the worker restarted (indexing/retrieval.py, search).                     *)
THEOREM OneModel == Spec => []ContextIsComparable
<1>1. ContextInv => ContextIsComparable
  BY DEF ContextInv, IndexInv
<1> QED BY <1>1, ContextInvariance, PTL

(* The prompt holds no more tokens than the budget, in the order of the    *)
(* scores, and leaves out a chunk only if it or a better one left out does *)
(* not fit beside what scores at least as high (indexing/retrieval.py).    *)
THEOREM BestWithinBudget == Spec => []ContextIsTheBest
<1>1. ContextInv => ContextIsTheBest
  <2> SUFFICES ASSUME TrimmedExactly, \A c \in DOMAIN best : best[c] \in Nat
               PROVE  ContextIsTheBest
    BY ChunksAssumption DEF ContextInv, TrimInv, TypeOK
  <2>1. ASSUME pc # "ask", NEW c \in LeftOut
        PROVE  c \in LeftOut /\ best[c] >= best[c] /\ DoesNotFit(c)
    BY <2>1 DEF TrimmedExactly, LeftOut, DoesNotFit
  <2> QED BY <2>1 DEF TrimmedExactly, ContextIsTheBest
<1> QED BY <1>1, ContextInvariance, PTL

(* The windows are those that the hunks of the diff call for, none twice,  *)
(* and a finding has the history of the window of its line, for any hunks  *)
(* (collapse_diff_to_windows, _attach_temporal_context).                   *)
THEOREM HistoryOfTheLine == Spec => []FindingsGetTheirHistory
<1>1. ContextInv => FindingsGetTheirHistory
  <2> SUFFICES ASSUME ContextInv, pc \in {"history", "done"}, repo.exists,
                      NEW line \in {t + n : t \in Touched, n \in 0..NearBy}
               PROVE  /\ {windows[i][1] : i \in Holding(line)} = WindowOf(line)
                      /\ pc = "done" =>
                           {History(line)} \ {0} =
                             {windows[i][1] : i \in Holding(line) \cap pool}
    BY DEF FindingsGetTheirHistory
  <2>1. diff \in Diffs /\ windows = Collapse(diff.hunks)
    BY DEF ContextInv, SearchInv, WindowInv
  <2>2. line \in Int
    <3>1. Touched \in SUBSET (Nat \ {0}) /\ NearBy \in Nat
      BY <2>1, MergedDiff, TouchedLines, BoundsAssumption
    <3> QED BY <3>1
  <2> QED BY <2>1, <2>2, HistoryOfLine
<1> QED BY <1>1, ContextInvariance, PTL
=============================================================================
