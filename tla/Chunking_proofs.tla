--------------------------- MODULE Chunking_proofs ---------------------------
(***************************************************************************)
(* Every line of text reaches the index under its own number, for any      *)
(* files and any sizes of chunks and windows.                              *)
(*                                                                         *)
(* Of what a stretch of text costs, the proofs up to LinesAreNamedRight    *)
(* use nothing: the routes and the halving may decide on any cost.  The    *)
(* types need it to be a number, and the end of the halving that a single  *)
(* line costs its weight.                                                  *)
(***************************************************************************)
EXTENDS Chunking, SequenceTheorems, FiniteSetTheorems,
        WellFoundedInduction, TLAPS

(* Where the text of a file ends.                                          *)
EndOf(f) == 2 * f.lines + 1

Blank(f, b1, b2) ==
    \A l \in 1..f.lines : b1 <= 2 * l - 1 /\ 2 * l - 1 < b2 => f.weight[l] = 0

(* A chunk that lies in the file and names its lines.                      *)
Named(f, c) ==
    /\ 1 <= c.from /\ c.from < c.to /\ c.to <= EndOf(f)
    /\ c.start = LineOf(c.from)
    /\ LineOf(c.to - 1) <= c.end /\ c.end <= LineOf(c.to)

Good(f, s) ==
    /\ s \in Seq(ChunkType)
    /\ \A i \in 1..Len(s) : Named(f, s[i])

(* All text before p is in s.                                              *)
Covers(f, s, p) ==
    \A l \in 1..f.lines : f.weight[l] > 0 /\ 2 * l - 1 < p =>
        \E i \in 1..Len(s) : Holds(s[i], l)

Sorted(s) == \A i, j \in 1..Len(s) : i < j => s[i].to <= s[j].from

Before(s, p) == \A i \in 1..Len(s) : s[i].to <= p

(* What the tree chunker has made of the text before p.                    *)
Made(f, s, p) == Good(f, s) /\ Covers(f, s, p) /\ Sorted(s) /\ Before(s, p)

-----------------------------------------------------------------------------
(* Places and text.                                                        *)

LEMMA Weighed ==
    ASSUME NEW f, IsFile(f)
    PROVE  /\ f.lines \in Nat /\ f.lines >= 1
           /\ \A l \in 1..f.lines : f.weight[l] \in Nat
           /\ EndOf(f) \in Nat
BY DEF IsFile, EndOf

LEMMA BlankIs ==
    ASSUME NEW b1, NEW b2
    PROVE  IsBlank(b1, b2) <=> Blank(file, b1, b2)
BY DEF IsBlank, Blank, Text

(* A stretch with text has room for a line.                                *)
LEMMA HasText ==
    ASSUME IsFile(file), NEW b1 \in Nat, NEW b2 \in Nat, ~IsBlank(b1, b2)
    PROVE  b1 < b2
<1>1. PICK l \in 1..file.lines : b1 <= 2 * l - 1 /\ 2 * l - 1 < b2
  BY DEF IsBlank, Text
<1>2. l \in Nat
  BY <1>1, Weighed
<1> QED BY <1>1, <1>2

LEMMA GapIsNamed ==
    ASSUME NEW b1 \in Nat, NEW b2 \in Nat, 1 <= b1, b1 < b2, b2 <= EndOf(file)
    PROVE  /\ GapChunk(b1, b2) \in ChunkType /\ Named(file, GapChunk(b1, b2))
           /\ GapChunk(b1, b2).from = b1 /\ GapChunk(b1, b2).to = b2
<1>1. Larger(b1, b2 - 1) = b2 - 1
  BY DEF Larger
<1>2. GapChunk(b1, b2) = [from |-> b1, to |-> b2, start |-> LineOf(b1),
                          end |-> LineOf(b2 - 1)]
  BY <1>1 DEF GapChunk, Chunk
<1>3. LineOf(b1) \in Nat /\ LineOf(b2 - 1) \in Nat /\ LineOf(b2 - 1) <= LineOf(b2)
  BY DEF LineOf
<1> QED BY <1>2, <1>3 DEF ChunkType, Named

LEMMA DeclIsNamed ==
    ASSUME NEW d \in Interval, 1 <= d.from, d.from < d.to, d.to <= EndOf(file)
    PROVE  /\ DeclChunk(d) \in ChunkType /\ Named(file, DeclChunk(d))
           /\ DeclChunk(d).from = d.from /\ DeclChunk(d).to = d.to
<1>1. d.from \in Nat /\ d.to \in Nat /\ d.to - 1 \in Nat
  BY DEF Interval
<1>2. DeclChunk(d) = [from |-> d.from, to |-> d.to, start |-> LineOf(d.from),
                      end |-> LineOf(d.to)]
  BY DEF DeclChunk, Chunk
<1>3. LineOf(d.from) \in Nat /\ LineOf(d.to) \in Nat /\ LineOf(d.to - 1) <= LineOf(d.to)
  BY <1>1 DEF LineOf
<1> QED BY <1>1, <1>2, <1>3 DEF ChunkType, Named

LEMMA LinesAreNamed ==
    ASSUME IsFile(file), NEW first \in Nat, NEW last \in Nat,
           1 <= first, first <= last, last <= file.lines
    PROVE  /\ Lines(first, last) \in ChunkType /\ Named(file, Lines(first, last))
           /\ Lines(first, last).from = 2 * first - 1 /\ Lines(first, last).to = 2 * last
<1>1. Lines(first, last) = [from |-> 2 * first - 1, to |-> 2 * last,
                            start |-> first, end |-> last]
  BY DEF Lines, Chunk
<1>2. 2 * first - 1 \in Nat /\ 2 * last \in Nat
  OBVIOUS
<1>3. /\ LineOf(2 * first - 1) = first /\ LineOf(2 * last - 1) = last
      /\ LineOf(2 * last) = last
  BY DEF LineOf
<1> QED BY <1>1, <1>2, <1>3, Weighed DEF ChunkType, Named, EndOf

-----------------------------------------------------------------------------
(* What the chunkers make grows to the right.                              *)

LEMMA Longer ==
    ASSUME NEW s \in Seq(ChunkType), NEW c \in ChunkType
    PROVE  /\ Append(s, c) \in Seq(ChunkType)
           /\ Len(Append(s, c)) = Len(s) + 1
           /\ \A i \in 1..Len(s) : Append(s, c)[i] = s[i]
           /\ Append(s, c)[Len(s) + 1] = c
<1> QED BY AppendProperties

(* A chunk that starts where the text is done covers it to its own end.    *)
LEMMA Covered ==
    ASSUME NEW f, IsFile(f), NEW s, NEW p \in Nat, NEW q \in Nat,
           Good(f, s), Covers(f, s, p),
           NEW c \in ChunkType, Named(f, c), c.from <= p, q <= c.to
    PROVE  Good(f, Append(s, c)) /\ Covers(f, Append(s, c), q)
<1>1. s \in Seq(ChunkType) /\ Len(s) \in Nat
  BY DEF Good
<1>2. Good(f, Append(s, c))
  <2> SUFFICES ASSUME NEW i \in 1..Len(Append(s, c))
               PROVE  Named(f, Append(s, c)[i])
    BY <1>1, Longer DEF Good
  <2>1. CASE i <= Len(s)
    BY <1>1, <2>1, Longer DEF Good
  <2>2. CASE i > Len(s)
    <3>1. i = Len(s) + 1
      BY <1>1, <2>2, Longer
    <3> QED BY <1>1, <3>1, Longer
  <2> QED BY <1>1, <2>1, <2>2
<1>3. Covers(f, Append(s, c), q)
  <2> SUFFICES ASSUME NEW l \in 1..f.lines, f.weight[l] > 0, 2 * l - 1 < q
               PROVE  \E i \in 1..Len(Append(s, c)) : Holds(Append(s, c)[i], l)
    BY DEF Covers
  <2>1. l \in Nat /\ c.from \in Nat /\ c.to \in Nat
    BY Weighed DEF ChunkType
  <2>2. CASE 2 * l - 1 < p
    <3>1. PICK i \in 1..Len(s) : Holds(s[i], l)
      BY <2>2 DEF Covers
    <3>2. i \in 1..Len(Append(s, c)) /\ Append(s, c)[i] = s[i]
      BY <1>1, Longer
    <3> QED BY <3>1, <3>2
  <2>3. CASE 2 * l - 1 >= p
    <3>1. Holds(c, l)
      BY <2>1, <2>3 DEF Holds
    <3>2. Len(s) + 1 \in 1..Len(Append(s, c)) /\ Append(s, c)[Len(s) + 1] = c
      BY <1>1, Longer
    <3> QED BY <3>1, <3>2
  <2> QED BY <2>1, <2>2, <2>3
<1> QED BY <1>2, <1>3

LEMMA CoversLess ==
    ASSUME NEW f, IsFile(f), NEW s, NEW p \in Nat, NEW q \in Nat, q <= p,
           Covers(f, s, p)
    PROVE  Covers(f, s, q)
<1> SUFFICES ASSUME NEW l \in 1..f.lines, f.weight[l] > 0, 2 * l - 1 < q
             PROVE  \E i \in 1..Len(s) : Holds(s[i], l)
  BY DEF Covers
<1>1. l \in Nat
  BY Weighed
<1>2. 2 * l - 1 < p
  BY <1>1
<1> QED BY <1>2 DEF Covers

(* Blank text needs no chunk.                                              *)
LEMMA CoversBlank ==
    ASSUME NEW f, IsFile(f), NEW s, NEW p \in Nat, NEW q \in Nat,
           Covers(f, s, p), Blank(f, p, q)
    PROVE  Covers(f, s, q)
<1> SUFFICES ASSUME NEW l \in 1..f.lines, f.weight[l] > 0, 2 * l - 1 < q
             PROVE  \E i \in 1..Len(s) : Holds(s[i], l)
  BY DEF Covers
<1>1. l \in Nat
  BY Weighed
<1>2. 2 * l - 1 < p
  BY <1>1 DEF Blank
<1> QED BY <1>2 DEF Covers

LEMMA Skip ==
    ASSUME NEW f, IsFile(f), NEW s, NEW p \in Nat, NEW q \in Nat, p <= q,
           Made(f, s, p), Blank(f, p, q)
    PROVE  Made(f, s, q)
<1>1. Before(s, q)
  <2> SUFFICES ASSUME NEW i \in 1..Len(s)
               PROVE  s[i].to <= q
    BY DEF Before
  <2>1. s \in Seq(ChunkType) /\ s[i].to <= p
    BY DEF Made, Good, Before
  <2>2. s[i] \in ChunkType
    BY <2>1
  <2>3. s[i].to \in Nat
    BY <2>2 DEF ChunkType
  <2> QED BY <2>1, <2>3
<1> QED BY <1>1, CoversBlank DEF Made

LEMMA Extend ==
    ASSUME NEW f, IsFile(f), NEW s, NEW p \in Nat, Made(f, s, p),
           NEW c \in ChunkType, Named(f, c), c.from = p
    PROVE  Made(f, Append(s, c), c.to)
<1>1. s \in Seq(ChunkType) /\ Len(s) \in Nat /\ c.from \in Nat /\ c.to \in Nat
      /\ c.from < c.to
  BY DEF Made, Good, ChunkType, Named
<1>2. Good(f, Append(s, c)) /\ Covers(f, Append(s, c), c.to)
  BY <1>1, Covered DEF Made
<1>3. \A i \in 1..Len(s) : s[i].to \in Nat /\ s[i].to <= p
  <2> SUFFICES ASSUME NEW i \in 1..Len(s)
               PROVE  s[i].to \in Nat /\ s[i].to <= p
    OBVIOUS
  <2>1. s[i] \in ChunkType
    BY <1>1
  <2> QED BY <2>1 DEF ChunkType, Made, Before
<1>4. \A i \in 1..Len(Append(s, c)) : i <= Len(s) \/ i = Len(s) + 1
  BY <1>1, Longer
<1>5. Sorted(Append(s, c))
  <2> SUFFICES ASSUME NEW i \in 1..Len(Append(s, c)), NEW j \in 1..Len(Append(s, c)),
                      i < j
               PROVE  Append(s, c)[i].to <= Append(s, c)[j].from
    BY DEF Sorted
  <2>1. i \in 1..Len(s) /\ Append(s, c)[i] = s[i]
    BY <1>1, <1>4, Longer
  <2>2. CASE j <= Len(s)
    BY <1>1, <2>1, <2>2, Longer DEF Made, Sorted
  <2>3. CASE j = Len(s) + 1
    BY <1>1, <1>3, <2>1, <2>3, Longer
  <2> QED BY <1>4, <2>2, <2>3
<1>6. Before(Append(s, c), c.to)
  <2> SUFFICES ASSUME NEW i \in 1..Len(Append(s, c))
               PROVE  Append(s, c)[i].to <= c.to
    BY DEF Before
  <2>1. CASE i <= Len(s)
    <3>1. i \in 1..Len(s) /\ Append(s, c)[i] = s[i]
      BY <1>1, <2>1, Longer
    <3> QED BY <1>1, <1>3, <3>1
  <2>2. CASE i = Len(s) + 1
    BY <1>1, <2>2, Longer
  <2> QED BY <1>4, <2>1, <2>2
<1> QED BY <1>2, <1>5, <1>6 DEF Made

(* A declaration merged into the last chunk, which ends with it then.      *)
LEMMA Stretch ==
    ASSUME NEW f, IsFile(f), NEW s \in Seq(ChunkType), NEW c \in ChunkType,
           NEW p \in Nat, NEW q \in Nat, p < q, q <= EndOf(f),
           Made(f, Append(s, c), p),
           NEW e \in ChunkType, e.from = c.from, e.start = c.start,
           e.to = q, e.end = LineOf(q)
    PROVE  Made(f, Append(s, e), q)
<1> DEFINE old == Append(s, c)
           new == Append(s, e)
<1>1. /\ old \in Seq(ChunkType) /\ new \in Seq(ChunkType)
      /\ Len(s) \in Nat /\ Len(old) = Len(s) + 1 /\ Len(new) = Len(s) + 1
      /\ \A i \in 1..Len(s) : old[i] = s[i] /\ new[i] = s[i]
      /\ old[Len(s) + 1] = c /\ new[Len(s) + 1] = e
  BY Longer
<1>2. Good(f, old) /\ Covers(f, old, p) /\ Sorted(old) /\ Before(old, p)
  BY DEF Made
<1> HIDE DEF old, new
<1>3. /\ c.from \in Nat /\ c.to \in Nat /\ Named(f, c) /\ c.to <= p
      /\ c.from < c.to
  <2>1. Len(s) + 1 \in 1..Len(old)
    BY <1>1
  <2>2. Named(f, c) /\ c.to <= p
    BY <1>1, <1>2, <2>1 DEF Good, Before
  <2> QED BY <2>2 DEF ChunkType, Named
<1>4. \A i \in 1..Len(s) : i \in 1..Len(old) /\ s[i].to \in Nat /\ s[i].to <= p
  <2> SUFFICES ASSUME NEW i \in 1..Len(s)
               PROVE  i \in 1..Len(old) /\ s[i].to \in Nat /\ s[i].to <= p
    OBVIOUS
  <2>1. s[i] \in ChunkType /\ i \in 1..Len(old)
    BY <1>1
  <2> QED BY <1>1, <1>2, <2>1 DEF ChunkType, Before
<1>5. \A i \in 1..Len(new) : i \in 1..Len(s) \/ i = Len(s) + 1
  BY <1>1
<1>6. Good(f, new)
  <2>1. Named(f, e)
    <3>1. q - 1 \in Nat /\ LineOf(q - 1) <= LineOf(q) /\ LineOf(q) \in Nat
      BY <1>3 DEF LineOf
    <3> QED BY <1>3, <3>1 DEF Named
  <2>2. \A i \in 1..Len(s) : Named(f, s[i])
    BY <1>1, <1>2, <1>4 DEF Good
  <2> QED BY <1>1, <1>5, <2>1, <2>2 DEF Good
<1>7. Covers(f, new, q)
  <2> SUFFICES ASSUME NEW l \in 1..f.lines, f.weight[l] > 0, 2 * l - 1 < q
               PROVE  \E i \in 1..Len(new) : Holds(new[i], l)
    BY DEF Covers
  <2>1. l \in Nat /\ Len(s) + 1 \in 1..Len(new)
    BY <1>1, Weighed
  <2>2. CASE 2 * l - 1 >= p
    <3>1. Holds(e, l)
      BY <1>3, <2>1, <2>2 DEF Holds
    <3> QED BY <1>1, <2>1, <3>1
  <2>3. CASE 2 * l - 1 < p
    <3>1. PICK i \in 1..Len(old) : Holds(old[i], l)
      BY <1>2, <2>3 DEF Covers
    <3>2. CASE i \in 1..Len(s)
      <4>1. i \in 1..Len(new)
        BY <1>1, <3>2
      <4> QED BY <1>1, <3>1, <3>2, <4>1
    <3>3. CASE i = Len(s) + 1
      <4>1. Holds(c, l)
        BY <1>1, <3>1, <3>3
      <4>2. Holds(e, l)
        BY <1>3, <2>1, <4>1 DEF Holds
      <4> QED BY <1>1, <2>1, <4>2
    <3> QED BY <1>1, <3>2, <3>3
  <2> QED BY <2>1, <2>2, <2>3
<1>8. Sorted(new)
  <2> SUFFICES ASSUME NEW i \in 1..Len(new), NEW j \in 1..Len(new), i < j
               PROVE  new[i].to <= new[j].from
    BY DEF Sorted
  <2>1. i \in 1..Len(s) /\ i \in 1..Len(old) /\ j \in 1..Len(old)
    BY <1>1
  <2>2. old[i].to <= old[j].from
    BY <1>2, <2>1 DEF Sorted
  <2>3. CASE j \in 1..Len(s)
    BY <1>1, <2>1, <2>2, <2>3
  <2>4. CASE j = Len(s) + 1
    BY <1>1, <2>1, <2>2, <2>4
  <2> QED BY <1>5, <2>3, <2>4
<1>9. Before(new, q)
  <2> SUFFICES ASSUME NEW i \in 1..Len(new)
               PROVE  new[i].to <= q
    BY DEF Before
  <2>1. CASE i \in 1..Len(s)
    BY <1>1, <1>4, <2>1
  <2>2. CASE i = Len(s) + 1
    BY <1>1, <2>2
  <2> QED BY <1>5, <2>1, <2>2
<1> QED BY <1>6, <1>7, <1>8, <1>9 DEF Made, new

-----------------------------------------------------------------------------
(* The nested calls of the tree chunker.                                   *)

Frames(f) == [node : Interval, left : SUBSET f.decls]

(* The declarations left in a frame lie in its node, one after the other.  *)
Apart(f, fr) ==
    /\ fr.node.to <= EndOf(f)
    /\ \A d \in fr.left : 0 < d.from /\ d.from < d.to /\ d.to <= fr.node.to
    /\ \A d, e \in fr.left : d = e \/ d.to <= e.from \/ e.to <= d.from

(* A frame goes on at p.                                                   *)
GoesOn(fr, p) == p <= fr.node.to /\ \A d \in fr.left : p <= d.from

Nested(f, ns, p) ==
    /\ ns \in Seq(Frames(f)) /\ Len(ns) >= 1
    /\ p >= 1
    /\ ns[1].node.to = EndOf(f)
    /\ \A i \in 1..Len(ns) : Apart(f, ns[i])
    /\ GoesOn(ns[Len(ns)], p)
    /\ \A i \in 1..(Len(ns) - 1) : GoesOn(ns[i], ns[i + 1].node.to)

LEMMA FrameFields ==
    ASSUME NEW f, IsFile(f), NEW fr \in Frames(f)
    PROVE  /\ fr.node \in Interval /\ fr.node.to \in Nat
           /\ fr.left \subseteq f.decls
           /\ \A d \in fr.left : d \in Interval /\ d.from \in Nat /\ d.to \in Nat
BY DEF Frames, Interval, IsFile

(* The outermost declarations of a node are disjoint.                      *)
LEMMA TopsAreApart ==
    ASSUME IsFile(file), NEW n \in Interval, n.to <= EndOf(file)
    PROVE  /\ Frame(n) \in Frames(file) /\ Frame(n).node = n
           /\ Apart(file, Frame(n))
           /\ \A p \in Nat : p <= n.from /\ p <= n.to => GoesOn(Frame(n), p)
<1>1. Frame(n) = [node |-> n, left |-> Tops(n)]
  BY DEF Frame
<1>2. Tops(n) \subseteq file.decls
  BY DEF Tops, Inside
<1>3. Frame(n) \in Frames(file) /\ Frame(n).node = n /\ Frame(n).left = Tops(n)
  BY <1>1, <1>2 DEF Frames
<1>4. \A d \in Tops(n) : /\ d \in Interval /\ d.from \in Nat /\ d.to \in Nat
                         /\ 0 < d.from /\ d.from < d.to
                         /\ n.from <= d.from /\ d.to <= n.to
  BY DEF Tops, Inside, IsFile, Interval
<1>5. \A d, e \in Tops(n) : d = e \/ d.to <= e.from \/ e.to <= d.from
  <2> SUFFICES ASSUME NEW d \in Tops(n), NEW e \in Tops(n)
               PROVE  d = e \/ d.to <= e.from \/ e.to <= d.from
    OBVIOUS
  <2>1. d \in file.decls /\ e \in file.decls /\ d \in Inside(n) /\ e \in Inside(n)
    BY DEF Tops, Inside
  <2>2. \/ d.to <= e.from \/ e.to <= d.from
        \/ d.from <= e.from /\ e.to <= d.to
        \/ e.from <= d.from /\ d.to <= e.to
    BY <2>1 DEF IsFile
  <2> QED BY <2>1, <2>2 DEF Tops
<1>6. \A p \in Nat : p <= n.from /\ p <= n.to => GoesOn(Frame(n), p)
  BY <1>3, <1>4 DEF GoesOn, Interval
<1> QED BY <1>3, <1>4, <1>5, <1>6 DEF Apart

(* The innermost call goes on at q with some of the declarations left.     *)
LEMMA Turned ==
    ASSUME NEW f, IsFile(f), NEW ns, NEW p, Nested(f, ns, p),
           NEW q \in Nat, q >= 1,
           NEW ms \in Seq(Frames(f)), Len(ms) = Len(ns),
           \A i \in 1..Len(ns) : i # Len(ns) => ms[i] = ns[i],
           ms[Len(ns)].node = ns[Len(ns)].node,
           ms[Len(ns)].left \subseteq ns[Len(ns)].left,
           GoesOn(ms[Len(ns)], q)
    PROVE  Nested(f, ms, q)
<1> DEFINE n == Len(ns)
<1>1. ns \in Seq(Frames(f)) /\ n \in Nat /\ n \in 1..n
  BY DEF Nested
<1>7. \A i \in 1..n : ms[i].node = ns[i].node /\ ms[i].left \subseteq ns[i].left
  OBVIOUS
<1>8. \A i \in 1..n : Apart(f, ms[i])
  <2> SUFFICES ASSUME NEW i \in 1..n
               PROVE  Apart(f, ms[i])
    OBVIOUS
  <2>1. Apart(f, ns[i])
    BY DEF Nested
  <2> QED BY <1>7, <2>1 DEF Apart
<1>10. \A i \in 1..(n - 1) : GoesOn(ms[i], ms[i + 1].node.to)
  <2> SUFFICES ASSUME NEW i \in 1..(n - 1)
               PROVE  GoesOn(ms[i], ms[i + 1].node.to)
    OBVIOUS
  <2>1. i \in 1..n /\ i + 1 \in 1..n /\ i # n
    BY <1>1
  <2>2. GoesOn(ns[i], ns[i + 1].node.to)
    BY DEF Nested
  <2> QED BY <1>7, <2>1, <2>2
<1>11. 1 \in 1..n /\ ms[1].node.to = EndOf(f)
  BY <1>1, <1>7 DEF Nested
<1> QED BY <1>1, <1>8, <1>10, <1>11 DEF Nested

(* A call for a node in which the caller goes on at the node's end.        *)
LEMMA Pushed ==
    ASSUME NEW f, IsFile(f), NEW ns, NEW p, Nested(f, ns, p),
           NEW fr \in Frames(f), Apart(f, fr),
           NEW q \in Nat, q >= 1, GoesOn(fr, q),
           GoesOn(ns[Len(ns)], fr.node.to)
    PROVE  Nested(f, Append(ns, fr), q)
<1> DEFINE n == Len(ns)
           ms == Append(ns, fr)
<1>1. ns \in Seq(Frames(f)) /\ n \in Nat /\ n \in 1..n
  BY DEF Nested
<1>2. /\ ms \in Seq(Frames(f)) /\ Len(ms) = n + 1 /\ ms[n + 1] = fr
      /\ \A i \in 1..n : ms[i] = ns[i]
  BY <1>1, AppendProperties
<1> HIDE DEF ms
<1>3. \A i \in 1..(n + 1) : Apart(f, ms[i])
  <2> SUFFICES ASSUME NEW i \in 1..(n + 1)
               PROVE  Apart(f, ms[i])
    OBVIOUS
  <2>1. CASE i \in 1..n
    BY <1>2, <2>1 DEF Nested
  <2>2. CASE i = n + 1
    BY <1>2, <2>2
  <2> QED BY <1>1, <2>1, <2>2
<1>4. \A i \in 1..n : GoesOn(ms[i], ms[i + 1].node.to)
  <2> SUFFICES ASSUME NEW i \in 1..n
               PROVE  GoesOn(ms[i], ms[i + 1].node.to)
    OBVIOUS
  <2>1. CASE i = n
    BY <1>1, <1>2, <2>1
  <2>2. CASE i \in 1..(n - 1)
    <3>1. i + 1 \in 1..n
      BY <1>1, <2>2
    <3>2. GoesOn(ns[i], ns[i + 1].node.to)
      BY <2>2 DEF Nested
    <3> QED BY <1>2, <3>1, <3>2
  <2> QED BY <1>1, <2>1, <2>2
<1>5. 1 \in 1..n /\ ms[1].node.to = EndOf(f)
  BY <1>1, <1>2 DEF Nested
<1>6. Len(ms) - 1 = n
  BY <1>1, <1>2
<1> QED BY <1>1, <1>2, <1>3, <1>4, <1>5, <1>6 DEF Nested, ms

(* A call returns: its caller goes on at the end of the node.              *)
LEMMA Popped ==
    ASSUME NEW f, IsFile(f), NEW ns, NEW p \in Nat, Nested(f, ns, p),
           Len(ns) # 1
    PROVE  /\ Nested(f, SubSeq(ns, 1, Len(ns) - 1), ns[Len(ns)].node.to)
           /\ ns[Len(ns)].node.to >= p
<1> DEFINE n == Len(ns)
           ms == SubSeq(ns, 1, n - 1)
<1>1. ns \in Seq(Frames(f)) /\ n \in Nat /\ n >= 2 /\ n - 1 \in 1..n
  <2>1. ns \in Seq(Frames(f)) /\ n \in Nat /\ n >= 1 /\ n # 1
    BY DEF Nested
  <2> HIDE DEF n
  <2>2. n >= 2 /\ n - 1 \in 1..n
    BY <2>1
  <2> QED BY <2>1, <2>2
<1>2. /\ ms \in Seq(Frames(f)) /\ Len(ms) = n - 1
      /\ \A i \in 1..(n - 1) : ms[i] = ns[i]
  BY <1>1, SubSeqProperties
<1> HIDE DEF ms
<1>3. \A i \in 1..(n - 1) : Apart(f, ms[i])
  BY <1>1, <1>2 DEF Nested
<1>4. n - 1 \in 1..(n - 1) /\ (n - 1) + 1 = n
  BY <1>1
<1>5. GoesOn(ms[n - 1], ns[n].node.to)
  <2>1. GoesOn(ns[n - 1], ns[(n - 1) + 1].node.to)
    BY <1>4 DEF Nested
  <2> QED BY <1>2, <1>4, <2>1
<1>6. \A i \in 1..((n - 1) - 1) : GoesOn(ms[i], ms[i + 1].node.to)
  <2> SUFFICES ASSUME NEW i \in 1..((n - 1) - 1)
               PROVE  GoesOn(ms[i], ms[i + 1].node.to)
    OBVIOUS
  <2>1. i \in 1..(n - 1) /\ i + 1 \in 1..(n - 1)
    BY <1>1
  <2>2. GoesOn(ns[i], ns[i + 1].node.to)
    BY <2>1 DEF Nested
  <2> QED BY <1>2, <2>1, <2>2
<1>7. ns[n].node.to >= p /\ p >= 1
  BY <1>1 DEF Nested, GoesOn
<1>8. ns[n].node.to >= 1 /\ ns[n].node.to \in Nat
  BY <1>1, <1>7, FrameFields
<1>9. 1 \in 1..(n - 1) /\ ms[1].node.to = EndOf(f)
  BY <1>1, <1>2 DEF Nested
<1> QED BY <1>1, <1>2, <1>3, <1>5, <1>6, <1>7, <1>8, <1>9 DEF Nested, ms

-----------------------------------------------------------------------------
(* One turn of the loop of _chunk_subtree.                                 *)

(* While the tree chunker runs, the chunks and the pending one hold the    *)
(* text up to pos.                                                         *)
Growing ==
    /\ mode = "ast"
    /\ chunks \in Seq(ChunkType)
    /\ pending \in Seq(ChunkType) /\ Len(pending) <= 1
    /\ pos \in Nat
    /\ Made(file, Flushed, pos)
    /\ Nested(file, nodes, pos)

(* All text of the file is in a chunk.                                     *)
Chunked == Good(file, chunks) /\ Covers(file, chunks, EndOf(file))

LEMMA Joined ==
    ASSUME NEW s \in Seq(ChunkType)
    PROVE  /\ s \o <<>> = s
           /\ \A c \in ChunkType : s \o <<c>> = Append(s, c)
<1>1. s \o <<>> = s
  BY ConcatEmptySeq
<1>2. ASSUME NEW c \in ChunkType
      PROVE  s \o <<c>> = Append(s, c)
  BY AppendIsConcat
<1> QED BY <1>1, <1>2

LEMMA OnePending ==
    ASSUME NEW t \in Seq(ChunkType), Len(t) <= 1, t # <<>>
    PROVE  t[1] \in ChunkType /\ t = << t[1] >>
<1>1. Len(t) \in Nat /\ Len(t) # 0
  BY EmptySeq
<1>2. Len(t) = 1
  BY <1>1
<1>3. t[1] \in ChunkType
  BY <1>2
<1>4. t = << t[1] >>
  BY <1>2, <1>3
<1> QED BY <1>3, <1>4

LEMMA SortedStart ==
    ASSUME NEW s \in Seq(ChunkType), NEW t \in Seq(ChunkType), Sorted(s \o t)
    PROVE  Sorted(s)
<1>1. /\ Len(s) \in Nat /\ Len(t) \in Nat /\ Len(s \o t) = Len(s) + Len(t)
      /\ \A i \in 1..Len(s) : (s \o t)[i] = s[i]
  BY ConcatProperties
<1> SUFFICES ASSUME NEW i \in 1..Len(s), NEW j \in 1..Len(s), i < j
             PROVE  s[i].to <= s[j].from
  BY DEF Sorted
<1>2. i \in 1..Len(s \o t) /\ j \in 1..Len(s \o t)
  BY <1>1
<1>3. (s \o t)[i].to <= (s \o t)[j].from
  BY <1>2 DEF Sorted
<1> QED BY <1>1, <1>3

(* What is known of the declaration that the loop takes.                   *)
LEMMA NextDecl ==
    ASSUME IsFile(file), pos \in Nat, Nested(file, nodes, pos),
           NEW d, d \in Left, IsNext(d)
    PROVE  /\ d \in Interval /\ d.from \in Nat /\ d.to \in Nat
           /\ 1 <= pos /\ pos <= d.from /\ d.from < d.to
           /\ d.to <= Node.to /\ Node.to <= EndOf(file) /\ Node.to \in Nat
           /\ \A e \in Left : d.from <= e.from
           /\ \A e \in Left \ {d} : d.to <= e.from
<1> DEFINE n == Len(nodes)
<1>1. nodes \in Seq(Frames(file)) /\ n \in Nat /\ n \in 1..n
  BY DEF Nested
<1>2. nodes[n] \in Frames(file) /\ Apart(file, nodes[n]) /\ GoesOn(nodes[n], pos)
  BY <1>1 DEF Nested
<1>3. /\ nodes[n].node \in Interval /\ nodes[n].node.to \in Nat
      /\ \A e \in Left : e \in Interval /\ e.from \in Nat /\ e.to \in Nat
  BY <1>2, FrameFields DEF Left
<1>4. /\ \A e \in Left : 0 < e.from /\ e.from < e.to /\ e.to <= Node.to
      /\ Node.to <= EndOf(file)
      /\ \A e \in Left : d = e \/ d.to <= e.from \/ e.to <= d.from
      /\ pos <= d.from
  BY <1>2 DEF Apart, GoesOn, Left, Node
<1>5. \A e \in Left : d.from <= e.from
  BY DEF IsNext
<1>6. \A e \in Left \ {d} : d.to <= e.from
  <2> SUFFICES ASSUME NEW e \in Left \ {d}
               PROVE  d.to <= e.from
    OBVIOUS
  <2>1. d.from <= e.from /\ e.from < e.to
    BY <1>4, <1>5
  <2>2. d.to <= e.from \/ e.to <= d.from
    BY <1>4
  <2> QED BY <1>3, <2>1, <2>2
<1>7. 1 <= pos
  BY DEF Nested
<1> QED BY <1>3, <1>4, <1>5, <1>6, <1>7 DEF Node

(* The loop has taken d.                                                   *)
LEMMA Taken ==
    ASSUME IsFile(file), pos \in Nat, Nested(file, nodes, pos),
           NEW d, d \in Left, IsNext(d)
    PROVE  /\ Nested(file, Without(d), d.to)
           /\ Len(Without(d)) = Len(nodes)
           /\ GoesOn(Without(d)[Len(nodes)], d.to)
<1>1. /\ d.to \in Nat /\ d.to >= 1 /\ d.to <= Node.to
      /\ \A e \in Left \ {d} : d.to <= e.from
  BY NextDecl
<1> DEFINE n == Len(nodes)
           L == Left \ {d}
           ms == Without(d)
<1>2. nodes \in Seq(Frames(file)) /\ n \in Nat /\ n \in 1..n
  BY DEF Nested
<1>3. PICK fr : fr = [nodes[n] EXCEPT !.left = L]
  OBVIOUS
<1>4. fr \in Frames(file) /\ fr.node = Node /\ fr.left = L /\ L \subseteq nodes[n].left
  <2>1. nodes[n] \in Frames(file) /\ nodes[n].node = Node /\ nodes[n].left = Left
    BY <1>2 DEF Node, Left
  <2>2. nodes[n].node \in Interval /\ Left \subseteq file.decls
    BY <2>1, FrameFields
  <2>3. L \subseteq Left /\ L \in SUBSET file.decls
    BY <2>2
  <2> HIDE DEF L, n
  <2> QED BY <1>3, <2>1, <2>2, <2>3 DEF Frames
<1>5. ms = [nodes EXCEPT ![n] = fr]
  BY <1>3 DEF Without, Left
<1>6. /\ ms \in Seq(Frames(file)) /\ Len(ms) = n
      /\ ms[n] = fr /\ \A i \in 1..n : i # n => ms[i] = nodes[i]
  BY <1>2, <1>4, <1>5, ExceptSeq
<1>7. GoesOn(ms[n], d.to)
  BY <1>1, <1>4, <1>6 DEF GoesOn
<1> HIDE DEF ms
<1>8. Nested(file, ms, d.to)
  BY <1>1, <1>4, <1>6, <1>7, Turned DEF Node
<1> QED BY <1>6, <1>7, <1>8 DEF ms

(* The text between pos and q, which emit_gap indexes or leaves out.       *)
LEMMA GapMade ==
    ASSUME IsFile(file), Growing, NEW q \in Nat, pos <= q, q <= EndOf(file)
    PROVE  /\ Flushed \in Seq(ChunkType)
           /\ IsBlank(pos, q) => Made(file, Flushed, q)
           /\ ~IsBlank(pos, q) =>
                 /\ Append(Flushed, GapChunk(pos, q)) \in Seq(ChunkType)
                 /\ Made(file, Append(Flushed, GapChunk(pos, q)), q)
<1>1. pos \in Nat /\ pos >= 1 /\ Made(file, Flushed, pos) /\ Flushed \in Seq(ChunkType)
  BY DEF Growing, Nested, Made, Good
<1>2. IsBlank(pos, q) => Made(file, Flushed, q)
  BY <1>1, BlankIs, Skip
<1>3. ASSUME ~IsBlank(pos, q)
      PROVE  /\ Append(Flushed, GapChunk(pos, q)) \in Seq(ChunkType)
             /\ Made(file, Append(Flushed, GapChunk(pos, q)), q)
  <2>1. pos < q
    BY <1>1, <1>3, HasText
  <2>2. PICK c : c = GapChunk(pos, q)
    OBVIOUS
  <2>3. c \in ChunkType /\ Named(file, c) /\ c.from = pos /\ c.to = q
    BY <1>1, <2>1, <2>2, GapIsNamed
  <2>4. Made(file, Append(Flushed, c), c.to)
    BY <1>1, <2>3, Extend
  <2> QED BY <2>2, <2>3, <2>4 DEF Made, Good
<1> QED BY <1>1, <1>2, <1>3

(* Nothing is pending after a flush.                                       *)
LEMMA AfterFlush ==
    ASSUME NEW s \in Seq(ChunkType), chunks' = s, pending' = <<>>
    PROVE  /\ chunks' \in Seq(ChunkType) /\ Flushed' = s
           /\ pending' \in Seq(ChunkType) /\ Len(pending') <= 1
BY Joined, EmptySeq DEF Flushed

LEMMA SkipGapGrows ==
    ASSUME IsFile(file), Growing, file' = file, mode' = mode,
           NEW d, d \in Left, IsNext(d), SkipGap(d)
    PROVE  Growing'
<1>1. /\ d.from \in Nat /\ d.to \in Nat /\ d.from >= 1
      /\ pos <= d.from /\ d.from <= Node.to /\ d.from <= EndOf(file)
      /\ \A e \in Left : d.from <= e.from
  <2>1. EndOf(file) \in Nat
    BY Weighed
  <2> QED BY <2>1, NextDecl DEF Growing
<1>2. pos' = d.from /\ nodes' = nodes
  BY DEF SkipGap
<1>3. Nested(file, nodes, d.from)
  <2> DEFINE n == Len(nodes)
  <2>1. nodes \in Seq(Frames(file)) /\ n \in Nat /\ n \in 1..n
    BY DEF Growing, Nested
  <2>2. GoesOn(nodes[n], d.from)
    BY <1>1 DEF GoesOn, Left, Node
  <2> QED BY <1>1, <2>1, <2>2 DEF Growing, Nested
<1>4. CASE IsBlank(pos, d.from)
  <2>1. chunks' = chunks /\ pending' = pending
    BY <1>4 DEF SkipGap
  <2>2. Flushed' = Flushed /\ Made(file, Flushed, d.from)
    BY <1>1, <1>4, <2>1, GapMade DEF Flushed
  <2> QED BY <1>1, <1>2, <1>3, <2>1, <2>2 DEF Growing
<1>5. CASE ~IsBlank(pos, d.from)
  <2>1. PICK s : s = Append(Flushed, GapChunk(pos, d.from))
    OBVIOUS
  <2>2. chunks' = s /\ pending' = <<>>
    BY <1>5, <2>1 DEF SkipGap, Pending
  <2>3. s \in Seq(ChunkType) /\ Made(file, s, d.from)
    BY <1>1, <1>5, <2>1, GapMade
  <2>4. /\ chunks' \in Seq(ChunkType) /\ Flushed' = s
        /\ pending' \in Seq(ChunkType) /\ Len(pending') <= 1
    BY <2>2, <2>3, AfterFlush
  <2> QED BY <1>1, <1>2, <1>3, <2>3, <2>4 DEF Growing
<1> QED BY <1>4, <1>5

LEMMA DescendGrows ==
    ASSUME IsFile(file), Growing, file' = file, mode' = mode,
           NEW d, d \in Left, IsNext(d), Descend(d)
    PROVE  Growing'
<1>1. /\ d \in Interval /\ d.from \in Nat /\ d.to \in Nat /\ d.from >= 1
      /\ d.from < d.to /\ d.to <= EndOf(file)
  <2>1. EndOf(file) \in Nat
    BY Weighed
  <2> QED BY <2>1, NextDecl DEF Growing
<1>2. d.from = pos
  <2>1. pos \in Nat /\ pos <= d.from /\ pos >= d.from
    BY NextDecl DEF Growing, Descend
  <2> QED BY <1>1, <2>1
<1>3. pos' = d.from /\ nodes' = Append(Without(d), Frame(d))
  BY DEF Descend
<1>4. Nested(file, Append(Without(d), Frame(d)), d.from)
  <2>1. /\ Frame(d) \in Frames(file) /\ Frame(d).node = d
        /\ Apart(file, Frame(d)) /\ GoesOn(Frame(d), d.from)
    BY <1>1, TopsAreApart
  <2>2. PICK ms : ms = Without(d)
    OBVIOUS
  <2>3. Nested(file, ms, d.to) /\ GoesOn(ms[Len(ms)], d.to)
    BY <2>2, Taken DEF Growing
  <2> QED BY <1>1, <2>1, <2>2, <2>3, Pushed
<1>5. Flushed \in Seq(ChunkType) /\ Made(file, Flushed, d.from)
  BY <1>2 DEF Growing, Made, Good
<1>6. chunks' = Flushed /\ pending' = <<>>
  BY DEF Descend, Pending
<1>7. /\ chunks' \in Seq(ChunkType) /\ Flushed' = Flushed
      /\ pending' \in Seq(ChunkType) /\ Len(pending') <= 1
  BY <1>5, <1>6, AfterFlush
<1> QED BY <1>1, <1>3, <1>4, <1>5, <1>7 DEF Growing

LEMMA EmitLeafGrows ==
    ASSUME IsFile(file), Growing, file' = file, mode' = mode,
           NEW d, d \in Left, IsNext(d), EmitLeaf(d)
    PROVE  Growing'
<1>1. /\ d \in Interval /\ d.from \in Nat /\ d.to \in Nat /\ d.from >= 1
      /\ d.from < d.to /\ d.to <= EndOf(file) /\ pos = d.from
  <2>1. EndOf(file) \in Nat
    BY Weighed
  <2>2. pos \in Nat /\ pos >= d.from
    BY DEF Growing, EmitLeaf
  <2> QED BY <2>1, <2>2, NextDecl DEF Growing
<1>2. pos' = d.to /\ nodes' = Without(d)
  BY DEF EmitLeaf
<1>3. Nested(file, Without(d), d.to)
  BY Taken DEF Growing
<1>4. PICK c : c = DeclChunk(d)
  OBVIOUS
<1>5. c \in ChunkType /\ Named(file, c) /\ c.from = pos /\ c.to = d.to
  BY <1>1, <1>4, DeclIsNamed
<1>6. PICK s : s = Append(Flushed, c)
  OBVIOUS
<1>7. Made(file, s, d.to)
  BY <1>5, <1>6, Extend DEF Growing
<1>8. s \in Seq(ChunkType)
  BY <1>7 DEF Made, Good
<1>9. chunks' = s /\ pending' = <<>>
  BY <1>4, <1>6 DEF EmitLeaf, Pending
<1>10. /\ chunks' \in Seq(ChunkType) /\ Flushed' = s
       /\ pending' \in Seq(ChunkType) /\ Len(pending') <= 1
  BY <1>8, <1>9, AfterFlush
<1> QED BY <1>1, <1>2, <1>3, <1>7, <1>10 DEF Growing

LEMMA MergeGrows ==
    ASSUME IsFile(file), Growing, file' = file, mode' = mode,
           NEW d, d \in Left, IsNext(d), Merge(d)
    PROVE  Growing'
<1>1. /\ d \in Interval /\ d.from \in Nat /\ d.to \in Nat /\ d.from >= 1
      /\ d.from < d.to /\ d.to <= EndOf(file) /\ pos = d.from
  <2>1. EndOf(file) \in Nat
    BY Weighed
  <2>2. pos \in Nat /\ pos >= d.from
    BY DEF Growing, Merge
  <2> QED BY <2>1, <2>2, NextDecl DEF Growing
<1>2. pos' = d.to /\ nodes' = Without(d)
  BY DEF Merge
<1>3. Nested(file, Without(d), d.to)
  BY Taken DEF Growing
<1>4. CASE chunks' = Flushed /\ pending' = << DeclChunk(d) >>
  <2>1. PICK c : c = DeclChunk(d)
    OBVIOUS
  <2>2. c \in ChunkType /\ Named(file, c) /\ c.from = pos /\ c.to = d.to
    BY <1>1, <2>1, DeclIsNamed
  <2>3. Flushed \in Seq(ChunkType)
    BY DEF Growing, Made, Good
  <2>4. Flushed' = Append(Flushed, c)
    <3>1. Flushed' = Flushed \o << c >>
      BY <1>4, <2>1 DEF Flushed
    <3> QED BY <2>2, <2>3, <3>1, Joined
  <2>5. Made(file, Append(Flushed, c), d.to)
    BY <2>2, Extend DEF Growing
  <2>6. pending' \in Seq(ChunkType) /\ Len(pending') <= 1
    BY <1>4, <2>1, <2>2
  <2> QED BY <1>1, <1>2, <1>3, <1>4, <2>3, <2>4, <2>5, <2>6 DEF Growing
<1>5. CASE /\ pending # <<>> /\ chunks' = chunks
           /\ pending' = << [pending[1] EXCEPT !.to = d.to, !.end = LineOf(d.to)] >>
  <2>1. PICK c : c = pending[1]
    OBVIOUS
  <2>2. /\ c \in ChunkType /\ pending = << c >> /\ chunks \in Seq(ChunkType)
    BY <1>5, <2>1, OnePending DEF Growing
  <2>3. PICK e : e = [c EXCEPT !.to = d.to, !.end = LineOf(d.to)]
    OBVIOUS
  <2>4. LineOf(d.to) \in Nat
    BY <1>1 DEF LineOf
  <2>5. /\ e \in ChunkType /\ e.from = c.from /\ e.start = c.start
        /\ e.to = d.to /\ e.end = LineOf(d.to)
    BY <1>1, <2>2, <2>3, <2>4 DEF ChunkType
  <2>6. Flushed = Append(chunks, c)
    <3>1. Flushed = chunks \o << c >>
      BY <2>2 DEF Flushed
    <3> QED BY <2>2, <3>1, Joined
  <2>7. Made(file, Append(chunks, c), pos) /\ pos \in Nat
    BY <2>6 DEF Growing
  <2>8. Made(file, Append(chunks, e), d.to)
    BY <1>1, <2>2, <2>5, <2>7, Stretch
  <2>9. pending' = << e >>
    BY <1>5, <2>1, <2>3
  <2>10. Flushed' = Append(chunks, e)
    <3>1. Flushed' = chunks \o << e >>
      BY <1>5, <2>9 DEF Flushed
    <3> QED BY <2>2, <2>5, <3>1, Joined
  <2>11. pending' \in Seq(ChunkType) /\ Len(pending') <= 1
    BY <2>5, <2>9
  <2> QED BY <1>1, <1>2, <1>3, <1>5, <2>2, <2>8, <2>10, <2>11 DEF Growing
<1> QED BY <1>4, <1>5 DEF Merge, FlushFirst, Pending

(* The innermost call returns; the outermost one has chunked the file.     *)
LEMMA ReturnGrows ==
    ASSUME IsFile(file), Growing, file' = file, mode' = mode, Return
    PROVE  /\ phase' = "ast" => Growing'
           /\ phase' = "cap" => Chunked' /\ Sorted(chunks')
           /\ phase' \in {"ast", "cap"} /\ chunks' \in Seq(ChunkType)
<1> DEFINE n == Len(nodes)
           q == Node.to
<1>1. nodes \in Seq(Frames(file)) /\ n \in Nat /\ n \in 1..n
  BY DEF Growing, Nested
<1>2. /\ q \in Nat /\ q <= EndOf(file) /\ pos \in Nat /\ pos <= q
  <2>1. nodes[n] \in Frames(file) /\ Apart(file, nodes[n]) /\ GoesOn(nodes[n], pos)
    BY <1>1 DEF Growing, Nested
  <2> QED BY <2>1, FrameFields DEF Apart, GoesOn, Growing, Node
<1> HIDE DEF q
<1>3. PICK s : /\ s = IF IsBlank(pos, q) THEN Flushed
                      ELSE Append(Flushed, GapChunk(pos, q))
  OBVIOUS
<1>4. s \in Seq(ChunkType) /\ Made(file, s, q)
  BY <1>2, <1>3, GapMade
<1>5. chunks' = s /\ pending' = <<>> /\ pos' = q
  BY <1>3 DEF Return, Pending, q
<1>6. /\ chunks' \in Seq(ChunkType) /\ Flushed' = s
      /\ pending' \in Seq(ChunkType) /\ Len(pending') <= 1
  BY <1>4, <1>5, AfterFlush
<1>7. CASE n = 1
  <2>1. phase' = "cap"
    BY <1>7 DEF Return
  <2>2. q = EndOf(file)
    BY <1>7 DEF Growing, Nested, Node, q
  <2>3. Good(file, s) /\ Covers(file, s, EndOf(file)) /\ Sorted(s)
    BY <1>4, <2>2 DEF Made
  <2>4. Chunked' = (Good(file', chunks') /\ Covers(file', chunks', EndOf(file')))
    BY DEF Chunked
  <2> QED BY <1>5, <1>6, <2>1, <2>3, <2>4
<1>8. CASE n # 1
  <2>1. phase' = "ast" /\ nodes' = SubSeq(nodes, 1, n - 1)
    BY <1>8 DEF Return
  <2>2. Nested(file, SubSeq(nodes, 1, n - 1), q)
    BY <1>8, Popped DEF Growing, Node, q
  <2> QED BY <1>2, <1>4, <1>5, <1>6, <2>1, <2>2 DEF Growing
<1> QED BY <1>7, <1>8

LEMMA TreeStepGrows ==
    ASSUME IsFile(file), Growing, TreeStep
    PROVE  /\ file' = file /\ mode' = "ast"
           /\ phase' = "ast" => Growing'
           /\ phase' = "cap" => Chunked'
           /\ phase' \in {"ast", "cap"}
           /\ Sorted(chunks') /\ chunks' \in Seq(ChunkType)
<1>1. file' = file /\ mode' = mode /\ mode = "ast"
  BY DEF TreeStep, Growing
<1>2. ASSUME Growing'
      PROVE  Sorted(chunks') /\ chunks' \in Seq(ChunkType)
  <2>1. Sorted(Flushed') /\ chunks' \in Seq(ChunkType) /\ pending' \in Seq(ChunkType)
    BY <1>2 DEF Growing, Made
  <2>2. Flushed' = chunks' \o pending'
    BY DEF Flushed
  <2> QED BY <2>1, <2>2, SortedStart
<1>3. ASSUME NEW d \in Left, IsNext(d), SkipGap(d) \/ Descend(d) \/ EmitLeaf(d) \/ Merge(d)
      PROVE  phase' = "ast" /\ Growing'
  <2>1. phase' = "ast"
    BY <1>3 DEF TreeStep, SkipGap, Descend, EmitLeaf, Merge
  <2> QED BY <1>1, <1>3, <2>1, SkipGapGrows, DescendGrows, EmitLeafGrows, MergeGrows
<1>4. CASE Return
  BY <1>1, <1>2, <1>4, ReturnGrows
<1> QED BY <1>1, <1>2, <1>3, <1>4 DEF TreeStep

-----------------------------------------------------------------------------
(* chunk_markdown and chunk_sliding.                                       *)

(* The lines behind at are done.                                           *)
Done(f, s, a) == a \in Nat /\ a <= f.lines /\ Good(f, s) /\ Covers(f, s, 2 * a + 1)

Sectioned == mode = "sections" /\ Done(file, chunks, at)

Slid ==
    /\ mode \in {"sections", "sliding"}
    /\ region.end \in Nat /\ at < region.end /\ region.end <= file.lines
    /\ mode = "sliding" => region.end = file.lines
    /\ Done(file, chunks, at)

(* The newline of a line is no text.                                       *)
LEMMA WholeLine ==
    ASSUME NEW f, IsFile(f), NEW s, NEW n \in Nat, Covers(f, s, 2 * n)
    PROVE  Covers(f, s, 2 * n + 1)
<1> SUFFICES ASSUME NEW l \in 1..f.lines, f.weight[l] > 0, 2 * l - 1 < 2 * n + 1
             PROVE  \E i \in 1..Len(s) : Holds(s[i], l)
  BY DEF Covers
<1>1. l \in Nat
  BY Weighed
<1>2. 2 * l - 1 < 2 * n
  BY <1>1
<1> QED BY <1>2 DEF Covers

LEMMA NothingDone ==
    ASSUME NEW f, IsFile(f)
    PROVE  Done(f, <<>>, 0)
<1>1. Good(f, <<>>)
  BY EmptySeq DEF Good
<1>2. Covers(f, <<>>, 2 * 0 + 1)
  <2> SUFFICES ASSUME NEW l \in 1..f.lines, 2 * l - 1 < 2 * 0 + 1
               PROVE  FALSE
    BY DEF Covers
  <2>1. l \in Nat /\ l >= 1
    BY Weighed
  <2> QED BY <2>1
<1> QED BY <1>1, <1>2, Weighed DEF Done

(* A chunk of the lines behind at, up to the line end.                     *)
LEMMA LinesDone ==
    ASSUME IsFile(file), Done(file, chunks, at),
           NEW end \in Nat, at < end, end <= file.lines
    PROVE  Done(file, Append(chunks, Lines(at + 1, end)), end)
<1>1. at \in Nat /\ file.lines \in Nat
  BY Weighed DEF Done
<1>2. PICK c : c = Lines(at + 1, end)
  OBVIOUS
<1>3. c \in ChunkType /\ Named(file, c) /\ c.from = 2 * (at + 1) - 1 /\ c.to = 2 * end
  BY <1>1, <1>2, LinesAreNamed
<1>4. c.from <= 2 * at + 1 /\ 2 * end <= c.to /\ 2 * at + 1 \in Nat /\ 2 * end \in Nat
  BY <1>1, <1>3
<1>5. Good(file, Append(chunks, c)) /\ Covers(file, Append(chunks, c), 2 * end)
  BY <1>3, <1>4, Covered DEF Done
<1> QED BY <1>2, <1>5, WholeLine DEF Done

(* A new route starts from no chunk at all.                                *)
LEMMA FallBackBegins ==
    ASSUME IsFile(file), NEW raised, FallBack(raised)
    PROVE  /\ file' = file /\ chunks' = <<>>
           /\ \/ phase' = "sections" /\ mode' = "sections" /\ Sectioned'
              \/ phase' = "sliding" /\ mode' = "sliding" /\ Slid'
<1>1. file' = file /\ chunks' = <<>> /\ Done(file, <<>>, 0)
  BY NothingDone DEF FallBack
<1>2. file.lines \in Nat /\ file.lines >= 1
  BY Weighed
<1>3. CASE file.language = "markdown" /\ ~raised
  <2>1. phase' = "sections" /\ mode' = "sections" /\ at' = 0
    BY <1>3 DEF FallBack
  <2> QED BY <1>1, <2>1 DEF Sectioned
<1>4. CASE ~(file.language = "markdown" /\ ~raised)
  <2>1. /\ phase' = "sliding" /\ mode' = "sliding" /\ at' = 0
        /\ region' = [base |-> 0, end |-> file.lines]
    BY <1>4 DEF FallBack, Slide
  <2>2. region'.end = file.lines
    BY <2>1
  <2> QED BY <1>1, <1>2, <2>1, <2>2 DEF Slid
<1> QED BY <1>1, <1>3, <1>4

LEMMA SectionDone ==
    ASSUME IsFile(file), Sectioned, Section
    PROVE  /\ file' = file /\ mode' = mode /\ chunks' \in Seq(ChunkType)
           /\ \/ phase' = "sections" /\ Sectioned'
              \/ phase' = "sliding" /\ Slid'
<1>1. file' = file /\ mode' = mode /\ mode = "sections" /\ phase = "sections"
  BY DEF Section, Sectioned
<1>2. Done(file, chunks, at) /\ at \in Nat /\ at < file.lines /\ file.lines \in Nat
  BY Weighed DEF Section, Sectioned, Done
<1>3. PICK end \in Boundaries :
        \/ IsBlank(2 * at + 1, 2 * end) /\ at' = end /\ UNCHANGED <<phase, region, chunks>>
        \/ Slide(at, end) /\ UNCHANGED chunks
        \/ /\ chunks' = Append(chunks, Lines(at + 1, end)) /\ at' = end
           /\ UNCHANGED <<phase, region>>
  BY DEF Section
<1>4. end \in Nat /\ at < end /\ end <= file.lines
  <2>1. file.headings \subseteq 2..file.lines
    BY DEF IsFile
  <2> QED BY <1>2, <2>1 DEF Boundaries
<1>5. CASE IsBlank(2 * at + 1, 2 * end) /\ at' = end /\ UNCHANGED <<phase, region, chunks>>
  <2>1. Covers(file, chunks, 2 * at + 1) /\ Blank(file, 2 * at + 1, 2 * end)
    BY <1>2, <1>5, BlankIs DEF Done
  <2>2. 2 * at + 1 \in Nat /\ 2 * end \in Nat
    BY <1>2, <1>4
  <2>3. Covers(file, chunks, 2 * end + 1)
    BY <1>4, <2>1, <2>2, CoversBlank, WholeLine
  <2> QED BY <1>1, <1>2, <1>4, <1>5, <2>3 DEF Sectioned, Done, Good
<1>6. CASE Slide(at, end) /\ UNCHANGED chunks
  <2>1. phase' = "sliding" /\ at' = at /\ region' = [base |-> at, end |-> end]
    BY <1>6 DEF Slide
  <2>2. region'.end = end
    BY <2>1
  <2> QED BY <1>1, <1>2, <1>4, <1>6, <2>1, <2>2 DEF Slid, Done, Good
<1>7. CASE /\ chunks' = Append(chunks, Lines(at + 1, end)) /\ at' = end
           /\ UNCHANGED <<phase, region>>
  <2>1. Done(file, Append(chunks, Lines(at + 1, end)), end)
    BY <1>2, <1>4, LinesDone
  <2> QED BY <1>1, <1>7, <2>1 DEF Sectioned, Done, Good
<1> QED BY <1>3, <1>5, <1>6, <1>7

(* Windows leave nothing out because a step is no longer than a window.    *)
LEMMA StepFits ==
    Step \in Nat /\ Step >= 1 /\ Step <= Window /\ Window \in Nat /\ Window >= 1
BY SizesAssumption DEF Step, Larger

LEMMA WindowDone ==
    ASSUME IsFile(file), Slid, SlideWindow
    PROVE  /\ file' = file /\ mode' = mode /\ chunks' \in Seq(ChunkType)
           /\ \/ phase' = "sections" /\ Sectioned'
              \/ phase' = "sliding" /\ Slid'
              \/ phase' = "cap" /\ mode' = "sliding" /\ Chunked'
<1> DEFINE end == Smaller(region.end, at + Window)
<1>1. /\ file' = file /\ mode' = mode /\ region' = region /\ phase = "sliding"
      /\ chunks' = Append(chunks, Lines(at + 1, end))
      /\ IF end = region.end
            THEN /\ phase' = IF mode = "sections" THEN "sections" ELSE "cap"
                 /\ at' = end
            ELSE at' = at + Step /\ UNCHANGED phase
  BY DEF SlideWindow
<1>2. /\ Done(file, chunks, at) /\ at \in Nat /\ file.lines \in Nat
      /\ region.end \in Nat /\ at < region.end /\ region.end <= file.lines
  BY Weighed DEF Slid, Done
<1>3. /\ end \in Nat /\ at < end /\ end <= file.lines
      /\ end # region.end => end = at + Window /\ end < region.end
  BY <1>2, StepFits DEF Smaller
<1> HIDE DEF end
<1>4. Done(file, chunks', end)
  BY <1>1, <1>2, <1>3, LinesDone
<1>5. CASE end = region.end /\ mode = "sections"
  BY <1>1, <1>4, <1>5 DEF Sectioned, Done, Good
<1>6. CASE end = region.end /\ mode = "sliding"
  <2>1. end = file.lines
    BY <1>6 DEF Slid
  <2>2. Good(file, chunks') /\ Covers(file, chunks', EndOf(file))
    BY <1>4, <2>1 DEF Done, EndOf
  <2>3. Chunked' = (Good(file', chunks') /\ Covers(file', chunks', EndOf(file')))
    BY DEF Chunked
  <2> QED BY <1>1, <1>6, <2>2, <2>3 DEF Good
<1>7. CASE end # region.end
  <2>1. at' = at + Step /\ phase' = "sliding" /\ at' \in Nat /\ at' <= end
    BY <1>1, <1>2, <1>3, <1>7, StepFits
  <2>2. Covers(file, chunks', 2 * at' + 1)
    <3>1. 2 * at' + 1 \in Nat /\ 2 * end + 1 \in Nat /\ 2 * at' + 1 <= 2 * end + 1
      BY <1>3, <2>1
    <3>2. Covers(file, chunks', 2 * end + 1)
      BY <1>4 DEF Done
    <3> QED BY <3>1, <3>2, CoversLess
  <2>3. at' < region.end /\ at' <= file.lines
    BY <1>2, <1>3, <1>7, <2>1
  <2>4. Good(file, chunks')
    BY <1>4 DEF Done
  <2> QED BY <1>1, <1>2, <2>1, <2>2, <2>3, <2>4 DEF Slid, Done, Good
<1> QED BY <1>5, <1>6, <1>7 DEF Slid

LEMMA SectionsDone ==
    ASSUME IsFile(file), Sectioned, SectionsEnd
    PROVE  Chunked
<1>1. at = file.lines
  BY Weighed DEF Sectioned, Done, SectionsEnd
<1> QED BY <1>1 DEF Sectioned, Done, Chunked, EndOf

-----------------------------------------------------------------------------
(* _enforce_chunk_token_cap and _split_chunk_recursive.                    *)

CallType == [from : Nat, to : Nat, start : Nat, depth : Nat]

PieceType == [from : Nat, to : Nat, start : Nat, end : Nat, cut : BOOLEAN]

(* A call knows the line it starts on.                                     *)
Starts(c) == c.from >= 1 /\ c.to >= 1 /\ c.start = LineOf(c.from)

Cites(p) ==
    /\ p.start = LineOf(p.from)
    /\ LineOf(p.to - 1) <= p.end /\ p.end <= LineOf(p.to)

(* Line l is in a piece, or in a call still to be made.                    *)
Kept(ps, cs, l) ==
    \/ \E i \in 1..Len(ps) : Holds(ps[i], l)
    \/ \E i \in 1..Len(cs) : Holds(cs[i], l)

CallsOK(cs) == cs \in Seq(CallType) /\ \A i \in 1..Len(cs) : Starts(cs[i])

PiecesOK(ps) == ps \in Seq(PieceType) /\ \A i \in 1..Len(ps) : Cites(ps[i])

(* Each line with text of the first k chunks is kept.                      *)
KeepsAll(f, s, k, ps, cs) ==
    \A i \in 1..k : \A l \in 1..f.lines :
        f.weight[l] > 0 /\ Holds(s[i], l) => Kept(ps, cs, l)

Halved ==
    /\ Chunked
    /\ capped \in 0..Len(chunks)
    /\ CallsOK(calls) /\ PiecesOK(pieces)
    /\ KeepsAll(file, chunks, capped, pieces, calls)

LEMMA AnotherPiece ==
    ASSUME NEW ps, PiecesOK(ps), NEW p \in PieceType, Cites(p)
    PROVE  /\ PiecesOK(Append(ps, p))
           /\ \A cs, l : Kept(ps, cs, l) => Kept(Append(ps, p), cs, l)
           /\ \A cs, l : Holds(p, l) => Kept(Append(ps, p), cs, l)
<1> DEFINE n == Len(ps)
           qs == Append(ps, p)
<1>1. /\ qs \in Seq(PieceType) /\ n \in Nat /\ Len(qs) = n + 1
      /\ qs[n + 1] = p /\ \A i \in 1..n : qs[i] = ps[i]
  BY AppendProperties DEF PiecesOK
<1> HIDE DEF qs
<1>2. \A i \in 1..Len(qs) : i \in 1..n \/ i = n + 1
  BY <1>1
<1>3. PiecesOK(qs)
  <2> SUFFICES ASSUME NEW i \in 1..Len(qs)
               PROVE  Cites(qs[i])
    BY <1>1 DEF PiecesOK
  <2>1. CASE i \in 1..n
    BY <1>1, <2>1 DEF PiecesOK
  <2>2. CASE i = n + 1
    BY <1>1, <2>2
  <2> QED BY <1>2, <2>1, <2>2
<1>4. \A cs, l : Kept(ps, cs, l) => Kept(qs, cs, l)
  <2>1. \A i \in 1..n : i \in 1..Len(qs) /\ qs[i] = ps[i]
    BY <1>1
  <2> QED BY <2>1 DEF Kept
<1>5. \A cs, l : Holds(p, l) => Kept(qs, cs, l)
  <2>1. n + 1 \in 1..Len(qs) /\ qs[n + 1] = p
    BY <1>1
  <2> QED BY <2>1 DEF Kept
<1> QED BY <1>3, <1>4, <1>5 DEF qs

(* Over is a question with an answer, whatever the text costs.             *)
LEMMA OverIs == ASSUME NEW c PROVE Over(c) \in BOOLEAN
BY DEF Over

LEMMA NextChunk ==
    ASSUME Halved, capped < Len(chunks), NEW c, c = chunks[capped + 1]
    PROVE  /\ c \in ChunkType /\ Named(file, c)
           /\ c.from \in Nat /\ c.to \in Nat /\ c.start \in Nat /\ c.end \in Nat
           /\ capped + 1 \in 0..Len(chunks)
           /\ \A ps, cs :
                (/\ \A l : Kept(pieces, calls, l) => Kept(ps, cs, l)
                 /\ \A l \in 1..file.lines :
                       file.weight[l] > 0 /\ Holds(c, l) => Kept(ps, cs, l))
                => KeepsAll(file, chunks, capped + 1, ps, cs)
<1>1. /\ chunks \in Seq(ChunkType) /\ Len(chunks) \in Nat /\ capped \in Nat
      /\ capped + 1 \in 1..Len(chunks)
  BY DEF Halved, Chunked, Good
<1>2. c \in ChunkType /\ Named(file, c)
  BY <1>1 DEF Halved, Chunked, Good
<1>3. \A i \in 1..(capped + 1) : i \in 1..capped \/ i = capped + 1
  BY <1>1
<1>4. ASSUME NEW ps, NEW cs,
             \A l : Kept(pieces, calls, l) => Kept(ps, cs, l),
             \A l \in 1..file.lines :
                file.weight[l] > 0 /\ Holds(c, l) => Kept(ps, cs, l)
      PROVE  KeepsAll(file, chunks, capped + 1, ps, cs)
  <2> SUFFICES ASSUME NEW i \in 1..(capped + 1), NEW l \in 1..file.lines,
                      file.weight[l] > 0, Holds(chunks[i], l)
               PROVE  Kept(ps, cs, l)
    BY DEF KeepsAll
  <2>1. CASE i \in 1..capped
    BY <1>4, <2>1 DEF Halved, KeepsAll
  <2>2. CASE i = capped + 1
    BY <1>4, <2>2
  <2> QED BY <1>3, <2>1, <2>2
<1>5. c.from \in Nat /\ c.to \in Nat /\ c.start \in Nat /\ c.end \in Nat
  BY <1>2 DEF ChunkType
<1> QED BY <1>1, <1>2, <1>4, <1>5

LEMMA KeepChunkKeeps ==
    ASSUME IsFile(file), Halved, KeepChunk
    PROVE  Halved'
<1>1. PICK c : c = chunks[capped + 1]
  OBVIOUS
<1>2. PICK p : p = Piece(c, Over(c))
  OBVIOUS
<1>3. /\ file' = file /\ chunks' = chunks /\ calls' = calls
      /\ capped' = capped + 1 /\ pieces' = Append(pieces, p) /\ capped < Len(chunks)
  BY <1>1, <1>2 DEF KeepChunk
<1>4. /\ c \in ChunkType /\ Named(file, c)
      /\ c.from \in Nat /\ c.to \in Nat /\ c.start \in Nat /\ c.end \in Nat
  BY <1>1, <1>3, NextChunk
<1>5. /\ p \in PieceType /\ p.from = c.from /\ p.to = c.to
      /\ p.start = c.start /\ p.end = c.end
  BY <1>2, <1>4, OverIs DEF Piece, PieceType
<1>6. Cites(p) /\ \A l : Holds(c, l) <=> Holds(p, l)
  BY <1>4, <1>5 DEF Named, Cites, Holds
<1>7. /\ PiecesOK(pieces')
      /\ \A l : Kept(pieces, calls, l) => Kept(pieces', calls, l)
      /\ \A l : Holds(c, l) => Kept(pieces', calls, l)
  BY <1>3, <1>5, <1>6, AnotherPiece DEF Halved
<1>8. capped + 1 \in 0..Len(chunks) /\ KeepsAll(file, chunks, capped + 1, pieces', calls)
  BY <1>1, <1>3, <1>7, NextChunk
<1> QED BY <1>3, <1>7, <1>8 DEF Halved, Chunked

(* The lines that splitlines() leaves out have no text.                    *)
LEMMA SplitEndsHold ==
    ASSUME IsFile(file), NEW c, Named(file, c), c.from \in Nat, c.to \in Nat,
           NEW to \in SplitEnds(c)
    PROVE  /\ to \in Nat /\ to >= 1 /\ to <= c.to
           /\ \A n \in 1..file.lines :
                 file.weight[n] > 0 /\ 2 * n - 1 < c.to => 2 * n - 1 < to
<1>1. PICK last : last = LineOf(c.to - 1)
  OBVIOUS
<1>2. last \in Nat /\ last >= 1 /\ 2 * last - 1 <= c.to /\ c.to <= 2 * last + 1
  BY <1>1 DEF Named, LineOf
<1>3. CASE to = Smaller(c.to, 2 * last)
  BY <1>2, <1>3, Weighed DEF Smaller, Named
<1>4. CASE /\ to = 2 * (last - 1) /\ c.to = 2 * last /\ file.weight[last] = 0
           /\ LineOf(c.from) < last
  <2>1. LineOf(c.from) \in Nat /\ LineOf(c.from) >= 1
    BY DEF Named, LineOf
  <2>2. ASSUME NEW n \in 1..file.lines, file.weight[n] > 0, 2 * n - 1 < c.to
        PROVE  2 * n - 1 < to
    <3>1. n # last
      BY <1>4, <2>2
    <3>2. n \in Nat
      BY Weighed
    <3> QED BY <1>2, <1>4, <2>2, <3>1, <3>2
  <2> QED BY <1>2, <1>4, <2>1, <2>2
<1> QED BY <1>1, <1>3, <1>4 DEF SplitEnds

LEMMA SplitChunkKeeps ==    ASSUME IsFile(file), Halved, SplitChunk
    PROVE  Halved'
<1>1. PICK c : c = chunks[capped + 1]
  OBVIOUS
<1>2. PICK to \in SplitEnds(c) :
        calls' = << [from |-> c.from, to |-> to, start |-> c.start, depth |-> 1] >>
  BY <1>1 DEF SplitChunk
<1> DEFINE k == [from |-> c.from, to |-> to, start |-> c.start, depth |-> 1]
<1>3. /\ file' = file /\ chunks' = chunks /\ pieces' = pieces
      /\ capped' = capped + 1 /\ calls = <<>> /\ calls' = << k >>
      /\ capped < Len(chunks)
  BY <1>2 DEF SplitChunk
<1>4. /\ c \in ChunkType /\ Named(file, c)
      /\ c.from \in Nat /\ c.to \in Nat /\ c.start \in Nat /\ c.end \in Nat
  BY <1>1, <1>3, NextChunk
<1>5. /\ to \in Nat /\ to >= 1
      /\ \A n \in 1..file.lines :
            file.weight[n] > 0 /\ 2 * n - 1 < c.to => 2 * n - 1 < to
  BY <1>4, SplitEndsHold
<1>6. /\ k \in CallType /\ Starts(k)
      /\ \A l \in 1..file.lines :
            file.weight[l] > 0 /\ Holds(c, l) => Holds(k, l)
  <2>1. k \in CallType /\ k.from = c.from /\ k.to = to /\ k.start = c.start
    BY <1>4, <1>5 DEF CallType
  <2>2. Starts(k)
    BY <1>4, <1>5, <2>1 DEF Starts, Named
  <2> QED BY <1>5, <2>1, <2>2 DEF Holds
<1> HIDE DEF k
<1>7. /\ CallsOK(<< k >>)
      /\ \A l : Kept(pieces, <<>>, l) => Kept(pieces, << k >>, l)
      /\ \A l : Holds(k, l) => Kept(pieces, << k >>, l)
  <2>1. << k >> \in Seq(CallType) /\ Len(<< k >>) = 1 /\ << k >>[1] = k
    BY <1>6
  <2>2. CallsOK(<< k >>)
    BY <1>6, <2>1 DEF CallsOK
  <2>3. \A l : Kept(pieces, <<>>, l) => Kept(pieces, << k >>, l)
    BY DEF Kept
  <2>4. \A l : Holds(k, l) => Kept(pieces, << k >>, l)
    <3>1. 1 \in 1..Len(<< k >>)
      BY <2>1
    <3> QED BY <2>1, <3>1 DEF Kept
  <2> QED BY <2>2, <2>3, <2>4
<1>8. capped + 1 \in 0..Len(chunks) /\ KeepsAll(file, chunks, capped + 1, pieces, << k >>)
  BY <1>1, <1>3, <1>6, <1>7, NextChunk
<1> QED BY <1>3, <1>7, <1>8 DEF Halved, Chunked

LEMMA FirstCall ==
    ASSUME NEW cs, CallsOK(cs), cs # <<>>
    PROVE  /\ Head(cs) \in CallType /\ Starts(Head(cs)) /\ CallsOK(Tail(cs))
           /\ \A ps, l : Kept(ps, cs, l) => Holds(Head(cs), l) \/ Kept(ps, Tail(cs), l)
<1> DEFINE n == Len(cs)
           t == Tail(cs)
<1>1. /\ cs \in Seq(CallType) /\ n \in Nat /\ n >= 1
      /\ Head(cs) = cs[1] /\ t \in Seq(CallType) /\ Len(t) = n - 1
      /\ \A i \in 1..(n - 1) : t[i] = cs[i + 1]
  BY EmptySeq, HeadTailProperties DEF CallsOK
<1> HIDE DEF t
<1>2. Head(cs) \in CallType /\ Starts(Head(cs))
  <2>1. 1 \in 1..n
    BY <1>1
  <2> QED BY <1>1, <2>1 DEF CallsOK
<1>3. CallsOK(t)
  <2> SUFFICES ASSUME NEW i \in 1..Len(t)
               PROVE  Starts(t[i])
    BY <1>1 DEF CallsOK
  <2>1. i \in 1..(n - 1) /\ i + 1 \in 1..n
    BY <1>1
  <2> QED BY <1>1, <2>1 DEF CallsOK
<1>4. ASSUME NEW ps, NEW l, Kept(ps, cs, l)
      PROVE  Holds(Head(cs), l) \/ Kept(ps, t, l)
  <2>1. ASSUME NEW i \in 1..n, Holds(cs[i], l)
        PROVE  Holds(Head(cs), l) \/ Kept(ps, t, l)
    <3>1. CASE i = 1
      BY <1>1, <2>1, <3>1
    <3>2. CASE i # 1
      <4>1. i - 1 \in 1..Len(t) /\ t[i - 1] = cs[(i - 1) + 1] /\ (i - 1) + 1 = i
        BY <1>1, <3>2
      <4> QED BY <2>1, <4>1 DEF Kept
    <3> QED BY <3>1, <3>2
  <2>2. ASSUME NEW i \in 1..Len(ps), Holds(ps[i], l)
        PROVE  Kept(ps, t, l)
    BY <2>2 DEF Kept
  <2> QED BY <1>4, <2>1, <2>2 DEF Kept
<1> QED BY <1>2, <1>3, <1>4 DEF t

LEMMA TwoCalls ==
    ASSUME NEW t, CallsOK(t),
           NEW a \in CallType, Starts(a), NEW b \in CallType, Starts(b)
    PROVE  /\ CallsOK(<< a, b >> \o t)
           /\ \A ps, l : Holds(a, l) \/ Holds(b, l) \/ Kept(ps, t, l)
                            => Kept(ps, << a, b >> \o t, l)
<1> DEFINE n == Len(t)
           two == << a, b >>
           cs == two \o t
<1>1. two \in Seq(CallType) /\ Len(two) = 2 /\ two[1] = a /\ two[2] = b
  OBVIOUS
<1> HIDE DEF two
<1>2. /\ cs \in Seq(CallType) /\ n \in Nat /\ Len(cs) = n + 2
      /\ \A i \in 1..(2 + n) : cs[i] = IF i <= 2 THEN two[i] ELSE t[i - 2]
  <2>1. t \in Seq(CallType) /\ n \in Nat
    BY DEF CallsOK
  <2>2. /\ cs \in Seq(CallType) /\ Len(cs) = Len(two) + n
        /\ \A i \in 1..(Len(two) + n) :
              cs[i] = IF i <= Len(two) THEN two[i] ELSE t[i - Len(two)]
    BY <1>1, <2>1, ConcatProperties
  <2> HIDE DEF cs, n
  <2> QED BY <1>1, <2>1, <2>2
<1> HIDE DEF cs
<1>3. /\ 1 \in 1..Len(cs) /\ cs[1] = a /\ 2 \in 1..Len(cs) /\ cs[2] = b
      /\ \A i \in 1..n : i + 2 \in 1..Len(cs) /\ cs[i + 2] = t[i]
      /\ \A i \in 1..Len(cs) : i = 1 \/ i = 2 \/ \E j \in 1..n : i = j + 2
  <2>1. 1 \in 1..Len(cs) /\ cs[1] = a /\ 2 \in 1..Len(cs) /\ cs[2] = b
    BY <1>1, <1>2
  <2>2. \A i \in 1..n : i + 2 \in 1..Len(cs) /\ cs[i + 2] = t[i]
    <3> SUFFICES ASSUME NEW i \in 1..n
                 PROVE  i + 2 \in 1..Len(cs) /\ cs[i + 2] = t[i]
      OBVIOUS
    <3>1. i + 2 \in 1..(2 + n) /\ ~(i + 2 <= 2) /\ (i + 2) - 2 = i
      BY <1>2
    <3> QED BY <1>2, <3>1
  <2>3. \A i \in 1..Len(cs) : i = 1 \/ i = 2 \/ \E j \in 1..n : i = j + 2
    <3> SUFFICES ASSUME NEW i \in 1..Len(cs), i # 1, i # 2
                 PROVE  \E j \in 1..n : i = j + 2
      OBVIOUS
    <3>1. i - 2 \in 1..n /\ i = (i - 2) + 2
      BY <1>2
    <3> QED BY <3>1
  <2> QED BY <2>1, <2>2, <2>3
<1>4. CallsOK(cs)
  <2> SUFFICES ASSUME NEW i \in 1..Len(cs)
               PROVE  Starts(cs[i])
    BY <1>2 DEF CallsOK
  <2>1. ASSUME NEW j \in 1..n, i = j + 2
        PROVE  Starts(cs[i])
    BY <1>3, <2>1 DEF CallsOK
  <2> QED BY <1>3, <2>1
<1>5. ASSUME NEW ps, NEW l, Holds(a, l) \/ Holds(b, l) \/ Kept(ps, t, l)
      PROVE  Kept(ps, cs, l)
  <2>1. CASE Holds(a, l) \/ Holds(b, l)
    BY <1>3, <2>1 DEF Kept
  <2>2. CASE \E i \in 1..Len(ps) : Holds(ps[i], l)
    BY <2>2 DEF Kept
  <2>3. ASSUME NEW i \in 1..n, Holds(t[i], l)
        PROVE  Kept(ps, cs, l)
    <3>1. i + 2 \in 1..Len(cs) /\ Holds(cs[i + 2], l)
      BY <1>3, <2>3
    <3> QED BY <3>1 DEF Kept
  <2> QED BY <1>5, <2>1, <2>2, <2>3 DEF Kept
<1> QED BY <1>4, <1>5 DEF cs, two

(* Every line of a call is in one of its halves, and each half knows the   *)
(* line it starts on.                                                      *)
LEMMA HalvesHold ==
    ASSUME NEW c \in CallType, Starts(c)
    PROVE  \E a, b \in CallType :
             /\ Halves(c) = << a, b >> /\ Starts(a) /\ Starts(b)
             /\ \A l \in Nat : Holds(c, l) => Holds(a, l) \/ Holds(b, l)
<1> DEFINE mid == Larger(1, LineCount(c) \div 2)
           line == LineOf(c.from) + mid
<1>1. c.from \in Nat /\ c.to \in Nat /\ c.start \in Nat /\ c.depth \in Nat
  BY DEF CallType
<1>2. LineOf(c.from) \in Nat /\ LineOf(c.from) >= 1 /\ LineCount(c) \in Int
  BY <1>1 DEF Starts, LineOf, LineCount
<1>3. mid \in Nat /\ mid >= 1
  <2>1. LineCount(c) \div 2 \in Int
    BY <1>2
  <2> QED BY <2>1 DEF Larger
<1>4. line \in Nat /\ line >= 2
  <2> HIDE DEF mid
  <2> QED BY <1>2, <1>3
<1>5. PICK a : a = [from |-> c.from, to |-> 2 * (line - 1), start |-> c.start,
                    depth |-> c.depth + 1]
  OBVIOUS
<1>6. PICK b : b = [from |-> 2 * line - 1, to |-> c.to, start |-> c.start + mid,
                    depth |-> c.depth + 1]
  OBVIOUS
<1>7. Halves(c) = << a, b >>
  BY <1>5, <1>6 DEF Halves
<1>8. c.start + mid = line
  BY DEF Starts
<1> HIDE DEF mid, line
<1>9. /\ a \in CallType /\ a.from = c.from /\ a.to = 2 * (line - 1)
      /\ a.start = c.start
  BY <1>1, <1>4, <1>5 DEF CallType
<1>10. /\ b \in CallType /\ b.from = 2 * line - 1 /\ b.to = c.to
       /\ b.start = line
  BY <1>1, <1>3, <1>4, <1>6, <1>8 DEF CallType
<1>11. Starts(a) /\ Starts(b)
  <2>1. LineOf(2 * line - 1) = line
    BY <1>4 DEF LineOf
  <2> QED BY <1>1, <1>4, <1>9, <1>10, <2>1 DEF Starts
<1>12. \A l \in Nat : Holds(c, l) => Holds(a, l) \/ Holds(b, l)
  BY <1>1, <1>4, <1>9, <1>10 DEF Holds
<1> QED BY <1>7, <1>9, <1>10, <1>11, <1>12

LEMMA SplitKeeps ==
    ASSUME IsFile(file), Halved, Split
    PROVE  Halved'
<1>1. PICK c : c = Head(calls)
  OBVIOUS
<1>2. PICK t : t = Tail(calls)
  OBVIOUS
<1>3. file' = file /\ chunks' = chunks /\ capped' = capped /\ calls # <<>>
  BY DEF Split
<1>4. /\ c \in CallType /\ Starts(c) /\ CallsOK(t)
      /\ \A ps, l : Kept(ps, calls, l) => Holds(c, l) \/ Kept(ps, t, l)
  BY <1>1, <1>2, <1>3, FirstCall DEF Halved
<1>5. SUFFICES /\ CallsOK(calls') /\ PiecesOK(pieces')
               /\ \A l \in Nat : Kept(pieces, calls, l) => Kept(pieces', calls', l)
  <2>1. \A l \in 1..file.lines : l \in Nat
    BY Weighed
  <2>2. KeepsAll(file, chunks, capped, pieces', calls')
    BY <1>5, <2>1 DEF Halved, KeepsAll
  <2> QED BY <1>3, <1>5, <2>2 DEF Halved, Chunked
<1>6. CASE ~Over(c) /\ calls' = Tail(calls)
              /\ pieces' = Append(pieces,
                             [from |-> c.from, to |-> c.to, start |-> c.start,
                              end |-> c.start + LineCount(c) - 1, cut |-> FALSE])
  <2>1. PICK p : p = [from |-> c.from, to |-> c.to, start |-> c.start,
                      end |-> c.start + LineCount(c) - 1, cut |-> FALSE]
    OBVIOUS
  <2>2. c.from \in Nat /\ c.to \in Nat /\ c.start \in Nat
    BY <1>4 DEF CallType
  <2>3. /\ c.start + LineCount(c) - 1 = LineOf(c.to - 1)
        /\ LineOf(c.to - 1) \in Nat /\ LineOf(c.to - 1) <= LineOf(c.to)
    BY <1>4, <2>2 DEF Starts, LineCount, LineOf
  <2>4. /\ p \in PieceType /\ p.from = c.from /\ p.to = c.to
        /\ p.start = c.start /\ p.end = LineOf(c.to - 1)
    BY <2>1, <2>2, <2>3 DEF PieceType
  <2>5. Cites(p)
    BY <1>4, <2>2, <2>3, <2>4 DEF Cites, Starts, LineOf
  <2>6. \A l : Holds(c, l) => Holds(p, l)
    BY <2>4 DEF Holds
  <2>7. pieces' = Append(pieces, p) /\ calls' = t
    BY <1>2, <1>6, <2>1
  <2>8. /\ PiecesOK(Append(pieces, p))
        /\ \A l : Kept(pieces, t, l) => Kept(Append(pieces, p), t, l)
        /\ \A l : Holds(p, l) => Kept(Append(pieces, p), t, l)
    BY <2>4, <2>5, AnotherPiece DEF Halved
  <2> QED BY <1>4, <2>6, <2>7, <2>8
<1>7. CASE calls' = Halves(c) \o Tail(calls) /\ pieces' = pieces
  <2>1. PICK a \in CallType, b \in CallType :
           /\ Halves(c) = << a, b >> /\ Starts(a) /\ Starts(b)
           /\ \A l \in Nat : Holds(c, l) => Holds(a, l) \/ Holds(b, l)
    BY <1>4, HalvesHold
  <2>2. calls' = << a, b >> \o t
    BY <1>2, <1>7, <2>1
  <2>3. /\ CallsOK(<< a, b >> \o t)
        /\ \A ps, l : Holds(a, l) \/ Holds(b, l) \/ Kept(ps, t, l)
                         => Kept(ps, << a, b >> \o t, l)
    BY <1>4, <2>1, TwoCalls
  <2> HIDE DEF Halved
  <2>4. PiecesOK(pieces')
    BY <1>7 DEF Halved
  <2>5. \A l \in Nat : Kept(pieces, calls, l) => Kept(pieces', calls', l)
    BY <1>4, <1>7, <2>1, <2>2, <2>3
  <2> QED BY <2>2, <2>3, <2>4, <2>5
<1>8. CASE calls' = calls /\ pieces' = pieces
  BY <1>8 DEF Halved
<1> QED BY <1>1, <1>6, <1>7, <1>8 DEF Split

-----------------------------------------------------------------------------
(* The invariant: what each phase has made of the file.                    *)

Uncapped == capped = 0 /\ calls = <<>> /\ pieces = <<>>

Capping == {"cap", "done", "RecursionError", "ValueError"}

ChunkInv ==
    /\ IsFile(file)
    /\ phase \in Phases
    /\ phase = "dispatch" =>
          mode = "none" /\ chunks = <<>> /\ pending = <<>> /\ Uncapped
    /\ phase = "ast" => Growing /\ Uncapped
    /\ phase = "sections" => Sectioned /\ Uncapped
    /\ phase = "sliding" => Slid /\ Uncapped
    /\ phase \in Capping => Halved
    /\ phase = "done" => calls = <<>> /\ capped = Len(chunks)
    /\ mode = "ast" => chunks \in Seq(ChunkType) /\ Sorted(chunks)

(* The cap is enforced on a file that is in chunks as a whole.             *)
LEMMA CapBegins ==
    ASSUME Chunked, Uncapped
    PROVE  Halved
<1>1. /\ CallsOK(<<>>) /\ PiecesOK(<<>>)
      /\ 0 \in 0..Len(chunks)
      /\ KeepsAll(file, chunks, 0, <<>>, <<>>)
  <2>1. Len(chunks) \in Nat
    BY DEF Chunked, Good
  <2>2. CallsOK(<<>>) /\ PiecesOK(<<>>)
    BY EmptySeq DEF CallsOK, PiecesOK
  <2>3. KeepsAll(file, chunks, 0, <<>>, <<>>)
    BY DEF KeepsAll
  <2> QED BY <2>1, <2>2, <2>3
<1> QED BY <1>1 DEF Halved, Uncapped

LEMMA Begins == Init => ChunkInv
<1> SUFFICES ASSUME Init PROVE ChunkInv
  OBVIOUS
<1>1. IsFile(file)
  BY FilesAssumption DEF Init
<1> QED BY <1>1 DEF Init, ChunkInv, Capping, Uncapped, Phases

(* A blank file is indexed by nothing.                                     *)
LEMMA DispatchGoesOn ==
    ASSUME ChunkInv, Dispatch
    PROVE  ChunkInv'
<1>1. /\ IsFile(file) /\ phase = "dispatch" /\ mode = "none"
      /\ chunks = <<>> /\ pending = <<>> /\ Uncapped
  BY DEF ChunkInv, Dispatch
<1>2. CASE /\ IsBlank(1, 2 * file.lines) /\ phase' = "done"
           /\ UNCHANGED <<file, mode, astVars, lineVars, chunks, capVars>>
  <2>1. /\ file' = file /\ mode' = mode /\ chunks' = <<>>
        /\ calls' = <<>> /\ capped' = 0 /\ pieces' = <<>>
    BY <1>1, <1>2 DEF capVars, Uncapped
  <2>2. Good(file, <<>>) /\ Covers(file, <<>>, 1)
    BY <1>1, NothingDone DEF Done
  <2>3. Covers(file, <<>>, 2 * file.lines)
    <3>1. 2 * file.lines \in Nat
      BY <1>1, Weighed
    <3> QED BY <1>1, <1>2, <2>2, <3>1, BlankIs, CoversBlank
  <2>4. Covers(file, <<>>, EndOf(file))
    BY <1>1, <2>3, Weighed, WholeLine DEF EndOf
  <2>5. Halved
    BY <1>1, <2>2, <2>4, CapBegins DEF Chunked
  <2>6. Halved'
    BY <1>1, <2>1, <2>5 DEF Halved, Chunked, Uncapped
  <2> QED BY <1>1, <1>2, <2>1, <2>6, EmptySeq DEF ChunkInv, Capping, Phases
<1>3. ASSUME NEW raised, FallBack(raised)
      PROVE  ChunkInv'
  <2>1. capped' = 0 /\ calls' = <<>> /\ pieces' = <<>>
    BY <1>1, <1>3 DEF FallBack, capVars, Uncapped
  <2> QED BY <1>1, <1>3, <2>1, FallBackBegins DEF ChunkInv, Capping, Phases, Uncapped
<1>4. CASE /\ phase' = "ast" /\ mode' = "ast"
           /\ nodes' = << Frame(Root) >> /\ pos' = 1
           /\ UNCHANGED <<file, pending, pendingTokens, lineVars, chunks, capVars>>
  <2>1. /\ file' = file /\ chunks' = <<>> /\ pending' = <<>>
        /\ capped' = 0 /\ calls' = <<>> /\ pieces' = <<>>
    BY <1>1, <1>4 DEF capVars, Uncapped
  <2>2. Root \in Interval /\ Root.from = 1 /\ Root.to = EndOf(file) /\ EndOf(file) \in Nat
        /\ 1 <= EndOf(file)
    BY <1>1, Weighed DEF Root, Interval, EndOf
  <2>3. PICK fr : fr = Frame(Root)
    OBVIOUS
  <2>4. fr \in Frames(file) /\ fr.node = Root /\ Apart(file, fr) /\ GoesOn(fr, 1)
    BY <1>1, <2>2, <2>3, TopsAreApart
  <2>5. Nested(file, << fr >>, 1)
    <3>1. /\ << fr >> \in Seq(Frames(file)) /\ Len(<< fr >>) = 1
          /\ << fr >>[1] = fr
      BY <2>4
    <3> QED BY <2>2, <2>4, <3>1 DEF Nested
  <2>6. Made(file, <<>>, 1)
    <3>1. Good(file, <<>>) /\ Covers(file, <<>>, 1)
      BY <1>1, NothingDone DEF Done
    <3> QED BY <3>1 DEF Made, Sorted, Before
  <2>7. Flushed' = <<>>
    BY <2>1, EmptySeq, ConcatEmptySeq DEF Flushed
  <2>8. Growing'
    BY <1>4, <2>1, <2>3, <2>5, <2>6, <2>7, EmptySeq DEF Growing
  <2>9. Sorted(<<>>)
    BY DEF Sorted
  <2> QED BY <1>1, <1>4, <2>1, <2>8, <2>9, EmptySeq DEF ChunkInv, Capping, Phases, Uncapped
<1> QED BY <1>2, <1>3, <1>4 DEF Dispatch

LEMMA ChunkerGoesOn ==
    ASSUME ChunkInv, TreeStep \/ TreeFails \/ Section \/ SectionsEnd \/ SlideWindow
    PROVE  ChunkInv'
<1>1. IsFile(file)
  BY DEF ChunkInv
<1>2. Uncapped' /\ Uncapped
  <2>1. phase \in {"ast", "sections", "sliding"}
    BY DEF TreeStep, TreeFails, Section, SectionsEnd, SlideWindow
  <2>2. UNCHANGED capVars
    BY DEF TreeStep, TreeFails, FallBack, Section, SectionsEnd, SlideWindow
  <2> QED BY <2>1, <2>2 DEF ChunkInv, Uncapped, capVars
<1>3. Chunked' => Halved'
  <2>1. ASSUME Chunked' PROVE CallsOK(<<>>) /\ PiecesOK(<<>>) /\ 0 \in 0..Len(chunks')
    BY <2>1, EmptySeq DEF Chunked, Good, CallsOK, PiecesOK
  <2>2. KeepsAll(file', chunks', 0, <<>>, <<>>)
    BY DEF KeepsAll
  <2> QED BY <1>2, <2>1, <2>2 DEF Halved, Uncapped
<1>4. CASE TreeStep
  <2>1. phase = "ast" /\ Growing
    BY <1>4 DEF TreeStep, ChunkInv
  <2> QED BY <1>1, <1>2, <1>3, <1>4, <2>1, TreeStepGrows DEF ChunkInv, Capping, Phases
<1>5. CASE TreeFails
  <2>1. FallBack(FALSE)
    BY <1>5 DEF TreeFails
  <2> QED BY <1>1, <1>2, <2>1, FallBackBegins DEF ChunkInv, Capping, Phases
<1>6. CASE Section
  <2>1. Sectioned
    BY <1>6 DEF Section, ChunkInv
  <2> QED BY <1>1, <1>2, <1>6, <2>1, SectionDone DEF ChunkInv, Capping, Phases, Sectioned
<1>7. CASE SectionsEnd
  <2>1. Sectioned /\ Chunked
    BY <1>1, <1>7, SectionsDone DEF SectionsEnd, ChunkInv
  <2>2. /\ phase' = "cap" /\ mode' = mode /\ file' = file /\ chunks' = chunks
    BY <1>7 DEF SectionsEnd
  <2>3. Chunked'
    BY <2>1, <2>2 DEF Chunked
  <2> QED BY <1>1, <1>3, <2>1, <2>2, <2>3 DEF ChunkInv, Capping, Phases, Sectioned
<1>8. CASE SlideWindow
  <2>1. Slid
    BY <1>8 DEF SlideWindow, ChunkInv
  <2> QED BY <1>1, <1>2, <1>3, <1>8, <2>1, WindowDone DEF ChunkInv, Capping, Phases, Slid
<1> QED BY <1>4, <1>5, <1>6, <1>7, <1>8

LEMMA CapGoesOn ==
    ASSUME ChunkInv,
           EncodeRaises \/ KeepChunk \/ SplitChunk \/ Split \/ CapEnds
    PROVE  ChunkInv'
<1>1. IsFile(file) /\ phase = "cap" /\ Halved
  BY DEF ChunkInv, Capping, EncodeRaises, KeepChunk, SplitChunk, Split, CapEnds
<1>2. /\ file' = file /\ mode' = mode /\ chunks' = chunks
      /\ phase' \in Capping
      /\ phase' = "done" => CapEnds
  BY <1>1 DEF Capping, EncodeRaises, KeepChunk, SplitChunk, Split, CapEnds
<1>3. Halved'
  <2>1. CASE EncodeRaises \/ CapEnds
    BY <1>1, <2>1 DEF EncodeRaises, CapEnds, capVars, Halved, Chunked
  <2> QED BY <1>1, <2>1, KeepChunkKeeps, SplitChunkKeeps, SplitKeeps
<1>4. phase' = "done" => calls' = <<>> /\ capped' = Len(chunks')
  BY <1>2 DEF CapEnds, capVars
<1> QED BY <1>1, <1>2, <1>3, <1>4 DEF ChunkInv, Capping, Phases

LEMMA Standing == ASSUME ChunkInv, UNCHANGED vars PROVE ChunkInv'
BY DEF vars, astVars, lineVars, capVars, ChunkInv, Growing, Flushed, Sectioned,
       Slid, Uncapped, Halved, Chunked

(* Every phase of chunking keeps what the ones before it have made.        *)
THEOREM Invariance == Spec => []ChunkInv
<1>1. ChunkInv /\ [Next]_vars => ChunkInv'
  BY DispatchGoesOn, ChunkerGoesOn, CapGoesOn, Standing DEF Next
<1> QED BY Begins, <1>1, PTL DEF Spec

-----------------------------------------------------------------------------
LEMMA InvIndexes == ChunkInv => EveryLineIndexed
<1> SUFFICES ASSUME ChunkInv, phase = "done",
                    NEW l \in 1..file.lines, file.weight[l] > 0
             PROVE  \E i \in DOMAIN pieces : Holds(pieces[i], l)
  BY DEF EveryLineIndexed
<1>1. IsFile(file) /\ Halved /\ calls = <<>> /\ capped = Len(chunks)
  BY DEF ChunkInv, Capping
<1>2. l \in Nat /\ 2 * l - 1 < EndOf(file)
  BY <1>1, Weighed DEF EndOf
<1>3. PICK k \in 1..Len(chunks) : Holds(chunks[k], l)
  BY <1>1, <1>2 DEF Halved, Chunked, Covers
<1>4. Kept(pieces, <<>>, l)
  BY <1>1, <1>3 DEF Halved, KeepsAll
<1>5. PICK i \in 1..Len(pieces) : Holds(pieces[i], l)
  <2>1. ~ \E i \in 1..Len(<<>>) : TRUE
    BY EmptySeq
  <2> QED BY <1>4, <2>1 DEF Kept
<1>6. DOMAIN pieces = 1..Len(pieces)
  BY <1>1 DEF Halved, PiecesOK
<1> QED BY <1>5, <1>6

(* Every line with text on it is indexed, for any files, any sizes and any *)
(* costs of text, whichever chunkers a file passes through and wherever    *)
(* the tree chunker gives up (indexing/chunker, ast_chunker, service).     *)
THEOREM EveryLineIsIndexed == Spec => []EveryLineIndexed
<1> QED BY Invariance, InvIndexes, PTL

LEMMA InvIsOnce == ChunkInv => TextOnce
<1> SUFFICES ASSUME ChunkInv, mode = "ast",
                    NEW i \in DOMAIN chunks, NEW j \in DOMAIN chunks, i < j
             PROVE  chunks[i].to <= chunks[j].from
  BY DEF TextOnce
<1>1. chunks \in Seq(ChunkType) /\ Sorted(chunks)
  BY DEF ChunkInv
<1>2. DOMAIN chunks = 1..Len(chunks)
  BY <1>1
<1> QED BY <1>1, <1>2 DEF Sorted

(* The tree chunker indexes no text twice and keeps the order of the file, *)
(* for any nesting of declarations (ast_chunker._chunk_subtree).           *)
THEOREM TextIsOnce == Spec => []TextOnce
<1> QED BY Invariance, InvIsOnce, PTL

(* Line numbers computed from the places name the lines of the places.     *)
LEMMA CitedIsText ==
    ASSUME NEW p \in PieceType, Cites(p)
    PROVE  /\ \A l \in 1..file.lines : Holds(p, l) => l \in p.start..p.end
           /\ \A l \in p.start..p.end :
                 Holds(p, l) \/ p.from = 2 * l \/ p.to = 2 * l - 1
<1>1. /\ p.from \in Nat /\ p.to \in Nat /\ p.start \in Nat /\ p.end \in Nat
      /\ p.start = (p.from + 1) \div 2
      /\ (p.to - 1 + 1) \div 2 <= p.end /\ p.end <= (p.to + 1) \div 2
  BY DEF PieceType, Cites, LineOf
<1>2. ASSUME NEW l \in 1..file.lines, Holds(p, l)
      PROVE  l \in p.start..p.end
  <2>1. p.from <= 2 * l - 1 /\ 2 * l - 1 < p.to /\ l \in Int
    BY <1>2 DEF Holds
  <2> QED BY <1>1, <2>1
<1>3. ASSUME NEW l \in p.start..p.end
      PROVE  Holds(p, l) \/ p.from = 2 * l \/ p.to = 2 * l - 1
  <2>1. l \in Int /\ p.start <= l /\ l <= p.end
    BY <1>3
  <2>2. p.from <= 2 * l /\ 2 * l - 1 <= p.to
    BY <1>1, <2>1
  <2> QED BY <1>1, <2>1, <2>2 DEF Holds
<1> QED BY <1>2, <1>3

LEMMA InvNames == ChunkInv => LinesNameText
<1> SUFFICES ASSUME ChunkInv, NEW i \in DOMAIN pieces
             PROVE  pieces[i] \in PieceType /\ Cites(pieces[i])
  BY CitedIsText DEF LinesNameText
<1>1. CASE pieces = <<>>
  BY <1>1
<1>2. CASE Halved
  <2>1. pieces \in Seq(PieceType)
    BY <1>2 DEF Halved, PiecesOK
  <2>2. i \in 1..Len(pieces)
    BY <2>1
  <2> QED BY <1>2, <2>2 DEF Halved, PiecesOK
<1> QED BY <1>1, <1>2 DEF ChunkInv, Capping, Uncapped, Phases

(* The lines stored with a piece hold its text and each has a part of it,  *)
(* if only a newline, through every shift of line numbers on the way       *)
(* (ast_chunker.emit_gap, chunker.chunk_markdown,                          *)
(* service._split_chunk_recursive).                                        *)
THEOREM LinesAreNamedRight == Spec => []LinesNameText
<1> QED BY Invariance, InvNames, PTL
-----------------------------------------------------------------------------
(* The types of all variables.  What pends must stay within the target, so *)
(* that here the tokens of a stretch of text have to be a number.  They    *)
(* are a fold over its lines: a function on sets of lines that CHOOSE      *)
(* picks, and which must be shown to exist.                                *)

(* A set of natural numbers has a least one, which stands in for           *)
(* induction.                                                              *)
LEMMA LeastNatural ==
    ASSUME NEW T \in SUBSET Nat, T # {}
    PROVE  \E x \in T : \A y \in T : x <= y
<1> DEFINE R == OpToRel(<, Nat)
<1>1. IsWellFoundedOn(R, Nat)
  BY NatLessThanWellFounded
<1>2. \A x, y \in Nat : x < y => <<x, y>> \in R
  BY DEF OpToRel
<1> HIDE DEF R
<1>3. \E x \in T : \A y \in T : ~(<<y, x>> \in R)
  BY <1>1, WFMin
<1>4. PICK x \in T : \A y \in T : ~(<<y, x>> \in R)
  BY <1>3
<1>5. ASSUME NEW y \in T
      PROVE  x <= y
  <2>1. x \in Nat /\ y \in Nat
    BY <1>4
  <2>2. ~(y < x)
    BY <2>1, <1>2, <1>4
  <2> QED BY <2>1, <2>2
<1> QED BY <1>4, <1>5

LEMMA Inductive ==
    ASSUME NEW T \in SUBSET Nat, 0 \in T, \A n \in Nat : n \in T => n + 1 \in T
    PROVE  T = Nat
<1> SUFFICES ASSUME Nat \ T # {} PROVE FALSE
  OBVIOUS
<1> DEFINE B == Nat \ T
<1>1. B \in SUBSET Nat /\ B # {}
  OBVIOUS
<1> HIDE DEF B
<1>2. PICK x \in B : \A y \in B : x <= y
  BY <1>1, LeastNatural
<1>3. x \in Nat /\ x # 0 /\ x \notin T
  BY <1>1 DEF B
<1>4. x - 1 \in Nat /\ ~(x <= x - 1) /\ (x - 1) + 1 = x
  BY <1>3
<1>5. x - 1 \in T
  BY <1>2, <1>4 DEF B
<1> QED BY <1>3, <1>4, <1>5

(* A sum over a finite set that takes its elements out one by one.         *)
Picks(pick, D) == \A s \in SUBSET D : s # {} => pick[s] \in s

SumsUp(f, D, pick, w) ==
    \A s \in SUBSET D :
        f[s] = IF s = {} THEN 0 ELSE w[pick[s]] + f[s \ {pick[s]}]

Small(D, n) == {s \in SUBSET D : Cardinality(s) <= n}

LEMMA OneLess ==
    ASSUME NEW D, IsFiniteSet(D), NEW pick, Picks(pick, D),
           NEW n \in Nat, NEW s \in Small(D, n + 1), s # {}
    PROVE  /\ pick[s] \in D
           /\ s \ {pick[s]} \in Small(D, n) /\ s \ {pick[s]} \in Small(D, n + 1)
<1>1. /\ pick[s] \in s /\ IsFiniteSet(s) /\ Cardinality(s) \in Nat
      /\ Cardinality(s) <= n + 1
  BY FS_Subset, FS_CardinalityType DEF Picks, Small
<1>2. Cardinality(s \ {pick[s]}) = Cardinality(s) - 1
  BY <1>1, FS_RemoveElement
<1> QED BY <1>1, <1>2 DEF Small

(* There is such a function, and its values are natural numbers.           *)
LEMMA SumExists ==
    ASSUME NEW D, IsFiniteSet(D), NEW pick, Picks(pick, D),
           NEW w \in [D -> Nat]
    PROVE  \E f \in [SUBSET D -> Nat] : SumsUp(f, D, pick, w)
<1> DEFINE val(f, s) == IF s = {} THEN 0 ELSE w[pick[s]] + f[s \ {pick[s]}]
           Solves(f, n) == \A s \in Small(D, n) : f[s] = val(f, s)
           T == {n \in Nat : \E f \in [Small(D, n) -> Nat] : Solves(f, n)}
<1>1. \A s \in SUBSET D : IsFiniteSet(s) /\ Cardinality(s) \in Nat
  BY FS_Subset, FS_CardinalityType
<1>2. 0 \in T
  <2>1. \A s \in Small(D, 0) : s = {}
    BY <1>1, FS_EmptySet DEF Small
  <2> DEFINE f == [s \in Small(D, 0) |-> 0]
  <2>2. f \in [Small(D, 0) -> Nat] /\ Solves(f, 0)
    BY <2>1
  <2> QED BY <2>2
<1>3. ASSUME NEW n \in Nat, n \in T
      PROVE  n + 1 \in T
  <2>1. PICK f \in [Small(D, n) -> Nat] : Solves(f, n)
    BY <1>3
  <2> DEFINE g == [s \in Small(D, n + 1) |-> val(f, s)]
  <2>2. ASSUME NEW s \in Small(D, n + 1) PROVE val(f, s) \in Nat
    <3>1. CASE s = {}
      BY <3>1
    <3>2. CASE s # {}
      <4>1. f[s \ {pick[s]}] \in Nat /\ w[pick[s]] \in Nat
        BY <3>2, OneLess
      <4> QED BY <3>2, <4>1
    <3> QED BY <3>1, <3>2
  <2>3. \A s \in Small(D, n) : s \in Small(D, n + 1) /\ g[s] = f[s]
    <3>1. \A s \in Small(D, n) : s \in Small(D, n + 1)
      BY <1>1 DEF Small
    <3> QED BY <2>1, <3>1
  <2>4. ASSUME NEW s \in Small(D, n + 1), s # {}
        PROVE  g[s] = w[pick[s]] + g[s \ {pick[s]}]
    <3>1. g[s \ {pick[s]}] = f[s \ {pick[s]}]
      BY <2>3, <2>4, OneLess
    <3> QED BY <2>4, <3>1
  <2>5. \A s \in Small(D, n + 1) : s = {} => g[s] = 0
    OBVIOUS
  <2>6. g \in [Small(D, n + 1) -> Nat] /\ n + 1 \in Nat
    <3> HIDE DEF val
    <3> QED BY <2>2
  <2>7. Solves(g, n + 1)
    <3> HIDE DEF g
    <3> QED BY <2>4, <2>5
  <2> HIDE DEF g, Solves
  <2> QED BY <2>6, <2>7
<1>4. T = Nat
  <2>1. T \in SUBSET Nat
    OBVIOUS
  <2> HIDE DEF T
  <2> QED BY <1>2, <1>3, <2>1, Inductive
<1>5. Cardinality(D) \in T
  BY <1>1, <1>4
<1>6. Small(D, Cardinality(D)) = SUBSET D
  BY FS_Subset DEF Small
<1> QED BY <1>5, <1>6 DEF SumsUp

(* Any such function sums up to natural numbers.                           *)
LEMMA SumIsNatural ==
    ASSUME NEW D, IsFiniteSet(D), NEW pick, Picks(pick, D),
           NEW w \in [D -> Nat], NEW f, SumsUp(f, D, pick, w)
    PROVE  f[D] \in Nat
<1> DEFINE T == {n \in Nat : \A s \in Small(D, n) : f[s] \in Nat}
<1>1. \A s \in SUBSET D : IsFiniteSet(s) /\ Cardinality(s) \in Nat
  BY FS_Subset, FS_CardinalityType
<1>2. 0 \in T
  BY <1>1, FS_EmptySet DEF Small, SumsUp
<1>3. ASSUME NEW n \in Nat, n \in T
      PROVE  n + 1 \in T
  <2> SUFFICES ASSUME NEW s \in Small(D, n + 1)
               PROVE  f[s] \in Nat
    OBVIOUS
  <2>1. s \in SUBSET D
    BY DEF Small
  <2>2. f[s] = IF s = {} THEN 0 ELSE w[pick[s]] + f[s \ {pick[s]}]
    BY <2>1 DEF SumsUp
  <2>3. CASE s = {}
    BY <2>3, <2>2
  <2>4. CASE s # {}
    <3>1. f[s \ {pick[s]}] \in Nat /\ w[pick[s]] \in Nat
      BY <1>3, <2>4, OneLess
    <3> QED BY <2>4, <2>2, <3>1
  <2> QED BY <2>3, <2>4
<1>4. T \in SUBSET Nat
  OBVIOUS
<1> HIDE DEF T
<1>5. T = Nat
  BY <1>2, <1>3, <1>4, Inductive
<1>6. Cardinality(D) \in Nat /\ D \in Small(D, Cardinality(D))
  BY <1>1 DEF Small
<1> QED BY <1>5, <1>6 DEF T

(* The tokens of a stretch of text are such a sum over its lines.          *)
LEMMA TokensAreSums ==
    ASSUME IsFile(file), NEW b1, NEW b2
    PROVE  LET D == Text(b1, b2)
               w == [l \in D |-> file.weight[l]]
           IN  /\ IsFiniteSet(D) /\ w \in [D -> Nat]
               /\ \E c, pick : /\ Picks(pick, D) /\ SumsUp(c, D, pick, w)
                              /\ Tokens(b1, b2) = c[D]
<1> DEFINE D == Text(b1, b2)
           Eqn(f) == f = [s \in SUBSET D |-> IF s = {} THEN 0
                            ELSE file.weight[CHOOSE x \in s : TRUE]
                                   + f[s \ {CHOOSE x \in s : TRUE}]]
           c == CHOOSE f : Eqn(f)
           pick == [s \in SUBSET D |-> CHOOSE x \in s : TRUE]
           w == [l \in D |-> file.weight[l]]
<1>1. IsFiniteSet(D) /\ w \in [D -> Nat]
  <2>1. D \subseteq 1..file.lines /\ file.lines \in Nat
    BY Weighed DEF Text
  <2>2. IsFiniteSet(1..file.lines)
    BY <2>1, FS_Interval
  <2> HIDE DEF D
  <2>3. IsFiniteSet(D)
    BY <2>1, <2>2, FS_Subset
  <2> QED BY <2>1, <2>3, Weighed
<1>2. Picks(pick, D)
  BY DEF Picks
<1>3. \A s \in SUBSET D : pick[s] = CHOOSE x \in s : TRUE
  OBVIOUS
<1>4. \A l \in D : w[l] = file.weight[l]
  OBVIOUS
<1>5. Tokens(b1, b2) = c[D]
  BY DEF Tokens, MapThenSumSet, MapThenFoldSet
<1>6. \E f : Eqn(f)
  <2> HIDE DEF pick, w, D
  <2>1. PICK f \in [SUBSET D -> Nat] : SumsUp(f, D, pick, w)
    BY <1>1, <1>2, SumExists
  <2>2. ASSUME NEW s \in SUBSET D
        PROVE  f[s] = IF s = {} THEN 0
                      ELSE file.weight[CHOOSE x \in s : TRUE]
                             + f[s \ {CHOOSE x \in s : TRUE}]
    <3>1. s # {} => pick[s] \in D
      BY <1>2 DEF Picks
    <3> QED BY <1>3, <1>4, <2>1, <3>1 DEF SumsUp
  <2>3. Eqn(f)
    BY <2>1, <2>2
  <2> QED BY <2>3
<1>7. Eqn(c)
  BY <1>6
<1> HIDE DEF c, w, pick, D
<1>8. SumsUp(c, D, pick, w)
  <2> SUFFICES ASSUME NEW s \in SUBSET D
               PROVE  c[s] = IF s = {} THEN 0 ELSE w[pick[s]] + c[s \ {pick[s]}]
    BY DEF SumsUp
  <2>1. s # {} => pick[s] \in D
    BY <1>2 DEF Picks
  <2>2. c[s] = IF s = {} THEN 0
               ELSE file.weight[CHOOSE x \in s : TRUE]
                      + c[s \ {CHOOSE x \in s : TRUE}]
    BY <1>7
  <2> QED BY <1>3, <1>4, <2>1, <2>2
<1> QED BY <1>1, <1>2, <1>5, <1>8 DEF w, D

LEMMA TokensAreNatural ==
    ASSUME IsFile(file), NEW b1, NEW b2
    PROVE  Tokens(b1, b2) \in Nat
<1> DEFINE D == Text(b1, b2)
           w == [l \in D |-> file.weight[l]]
<1>1. PICK c, pick : /\ Picks(pick, D) /\ SumsUp(c, D, pick, w)
                     /\ Tokens(b1, b2) = c[D]
  BY TokensAreSums
<1>2. IsFiniteSet(D) /\ w \in [D -> Nat]
  BY TokensAreSums
<1> HIDE DEF D, w
<1> QED BY <1>1, <1>2, SumIsNatural

(* Text on one line at most costs what that line costs.                    *)
LEMMA TokensOfALine ==
    ASSUME IsFile(file), NEW b1, NEW b2, NEW max \in Nat,
           \A l \in Text(b1, b2) : file.weight[l] <= max,
           \A k, l \in Text(b1, b2) : k = l
    PROVE  Tokens(b1, b2) <= max
<1> DEFINE D == Text(b1, b2)
           w == [l \in D |-> file.weight[l]]
<1>1. PICK c, pick : /\ Picks(pick, D) /\ SumsUp(c, D, pick, w)
                     /\ Tokens(b1, b2) = c[D]
  BY TokensAreSums
<1>2. w \in [D -> Nat] /\ \A l \in D : w[l] <= max
  BY TokensAreSums
<1> HIDE DEF w, D
<1>3. c[{}] = 0
  <2>1. {} \in SUBSET D
    OBVIOUS
  <2> QED BY <1>1, <2>1 DEF SumsUp
<1>4. CASE D = {}
  BY <1>1, <1>3, <1>4
<1>5. CASE D # {}
  <2>1. D \in SUBSET D
    OBVIOUS
  <2>2. pick[D] \in D
    BY <1>1, <1>5, <2>1 DEF Picks
  <2>3. D \ {pick[D]} = {}
    BY <2>2 DEF D
  <2>4. c[D] = w[pick[D]] + c[D \ {pick[D]}]
    BY <1>1, <1>5, <2>1 DEF SumsUp
  <2>5. w[pick[D]] \in Nat /\ w[pick[D]] <= max
    BY <1>2, <2>2
  <2> QED BY <1>1, <1>3, <2>3, <2>4, <2>5
<1> QED BY <1>4, <1>5

-----------------------------------------------------------------------------
(* The variables of the tree chunker, of the line chunkers and of the cap. *)
TreeTypes ==
    /\ nodes \in Seq(Frames(file)) /\ pos \in Nat
    /\ pending \in Seq(ChunkType) /\ Len(pending) <= 1
    /\ pendingTokens \in 0..Target

LineTypes == region \in [base : Nat, end : Nat] /\ at \in Nat

Depths == [from : Nat, to : Nat, start : Nat, depth : 1..RecursionLimit]

CapTypes ==
    capped \in 0..Len(chunks) /\ calls \in Seq(Depths) /\ pieces \in Seq(PieceType)

Modes == {"none", "ast", "sections", "sliding"}

LEMMA TypesAre ==
    TypeOK <=> /\ IsFile(file) /\ phase \in Phases /\ mode \in Modes
               /\ TreeTypes /\ LineTypes /\ CapTypes /\ chunks \in Seq(ChunkType)
BY DEF TypeOK, TreeTypes, LineTypes, CapTypes, Modes, Frames, Depths, PieceType

(* Whatever the phase, chunks is a sequence of chunks.                     *)
LEMMA ChunksAre == ChunkInv => chunks \in Seq(ChunkType)
BY EmptySeq DEF ChunkInv, Capping, Phases, Growing, Sectioned, Slid, Done, Halved,
                Chunked, Good

LEMMA ChunksStay == ChunkInv' => chunks' \in Seq(ChunkType)
BY EmptySeq DEF ChunkInv, Capping, Phases, Growing, Sectioned, Slid, Done, Halved,
                Chunked, Good

LEMMA Sizes ==
    /\ Target \in Nat /\ Target >= 1 /\ RecursionLimit \in Nat
    /\ RecursionLimit >= 1 /\ 0 \in 0..Target
BY SizesAssumption

(* What pends joins a declaration only if the target allows both.          *)
LEMMA PendingFits ==
    ASSUME IsFile(file), pendingTokens \in 0..Target, TreeStep
    PROVE  pendingTokens' \in 0..Target
<1>1. CASE pendingTokens' = pendingTokens \/ pendingTokens' = 0
  BY <1>1, Sizes
<1>2. ASSUME NEW d \in Left, Merge(d)
      PROVE  pendingTokens' \in 0..Target
  <2>1. PICK n : n = Tokens(d.from, d.to)
    OBVIOUS
  <2>2. n \in Nat
    BY <2>1, TokensAreNatural
  <2>3. /\ n <= Target
        /\ \/ pendingTokens' = n
           \/ ~(pendingTokens + n > Target) /\ pendingTokens' = pendingTokens + n
    BY <1>2, <2>1 DEF Merge, FlushFirst, Pending
  <2> QED BY <2>2, <2>3, Sizes
<1> QED
  BY <1>1, <1>2 DEF TreeStep, SkipGap, Descend, EmitLeaf, Return, Pending

(* The outermost call returns to chunk_repo and leaves nothing behind.     *)
LEMMA LastReturn ==
    ASSUME IsFile(file), Growing, TreeStep, phase' # "ast"
    PROVE  nodes' = <<>> /\ pos' \in Nat /\ pending' = <<>>
<1>1. Return /\ Len(nodes) = 1
  BY DEF TreeStep, SkipGap, Descend, EmitLeaf, Merge, Return
<1>2. nodes \in Seq(Frames(file)) /\ Node = nodes[1].node
  BY <1>1 DEF Growing, Nested, Node
<1>3. nodes[1] \in Frames(file)
  BY <1>1, <1>2
<1>4. Node.to \in Nat
  BY <1>2, <1>3, FrameFields
<1>5. nodes' = SubSeq(nodes, 1, 0) /\ pos' = Node.to /\ pending' = <<>>
  BY <1>1 DEF Return, Pending
<1> QED BY <1>2, <1>4, <1>5

FellBack == \E raised : FallBack(raised)

LEMMA TreeTypesStep ==
    ASSUME ChunkInv, ChunkInv', TreeTypes, [Next]_vars
    PROVE  TreeTypes'
<1>1. IsFile(file)
  BY DEF ChunkInv
<1>2. CASE FellBack
  <2>1. /\ nodes' = <<>> /\ pos' = pos /\ pending' = <<>> /\ pendingTokens' = 0
    BY <1>2 DEF FellBack, FallBack, Pending
  <2> QED BY <2>1, Sizes, EmptySeq DEF TreeTypes
<1>3. CASE phase' = "ast"
  <2>1. /\ nodes' \in Seq(Frames(file')) /\ pos' \in Nat
        /\ pending' \in Seq(ChunkType) /\ Len(pending') <= 1
    BY <1>3 DEF ChunkInv, Growing, Nested
  <2>2. pendingTokens' \in 0..Target
    <3>1. CASE TreeStep
      BY <1>1, <3>1, PendingFits DEF TreeTypes
    <3>2. CASE FellBack
      BY <3>2, Sizes DEF FellBack, FallBack, Pending
    <3>3. CASE ~TreeStep /\ ~FellBack
      <4>1. pendingTokens' = pendingTokens
        BY <3>3 DEF FellBack, Next, vars, astVars, Dispatch, TreeFails, Section,
                    SectionsEnd, SlideWindow, EncodeRaises, KeepChunk, SplitChunk,
                    Split, CapEnds
      <4> QED BY <4>1 DEF TreeTypes
    <3> QED BY <3>1, <3>2, <3>3
  <2> QED BY <2>1, <2>2 DEF TreeTypes
<1>4. CASE TreeStep /\ phase' # "ast"
  <2>1. Growing
    BY <1>4 DEF ChunkInv, TreeStep
  <2>2. nodes' = <<>> /\ pos' \in Nat /\ pending' = <<>>
    BY <1>1, <1>4, <2>1, LastReturn
  <2>3. pendingTokens' \in 0..Target
    BY <1>1, <1>4, PendingFits DEF TreeTypes
  <2> QED BY <2>2, <2>3, EmptySeq DEF TreeTypes
<1>5. CASE ~TreeStep /\ ~FellBack /\ phase' # "ast"
  <2>1. UNCHANGED <<file, astVars>>
    BY <1>5 DEF FellBack, Next, vars, astVars, Dispatch, TreeFails, Section,
                SectionsEnd, SlideWindow, EncodeRaises, KeepChunk, SplitChunk,
                    Split, CapEnds
  <2> QED BY <2>1 DEF TreeTypes, astVars
<1> QED BY <1>2, <1>3, <1>4, <1>5

LEMMA SlideTypes ==
    ASSUME NEW base \in Nat, NEW end \in Nat, Slide(base, end)
    PROVE  LineTypes'
BY DEF Slide, LineTypes

(* The lines a section or a window ends at are lines of the file.          *)
LEMMA LineTypesStep ==
    ASSUME ChunkInv, ChunkInv', LineTypes, [Next]_vars
    PROVE  LineTypes'
<1>1. IsFile(file) /\ file.lines \in Nat /\ file.headings \subseteq 2..file.lines
  <2>1. IsFile(file)
    BY DEF ChunkInv
  <2> QED BY <2>1, Weighed DEF IsFile
<1>2. ASSUME NEW raised, FallBack(raised)
      PROVE  LineTypes'
  <2>1. CASE file.language = "markdown" /\ ~raised
    BY <1>2, <2>1 DEF FallBack, LineTypes
  <2>2. CASE ~(file.language = "markdown" /\ ~raised)
    BY <1>1, <1>2, <2>2, SlideTypes DEF FallBack
  <2> QED BY <2>1, <2>2
<1>3. CASE Section
  <2>1. PICK end \in Boundaries :
          (at' = end /\ UNCHANGED region) \/ Slide(at, end)
    BY <1>3 DEF Section
  <2>2. end \in Nat
    BY <1>1, <2>1 DEF Boundaries
  <2>3. CASE at' = end /\ UNCHANGED region
    BY <2>2, <2>3 DEF LineTypes
  <2>4. CASE Slide(at, end)
    BY <2>2, <2>4, SlideTypes DEF LineTypes
  <2> QED BY <2>1, <2>3, <2>4
<1>4. CASE SlideWindow
  <2>1. region.end \in Nat /\ at \in Nat
    BY DEF LineTypes
  <2>2. Smaller(region.end, at + Window) \in Nat /\ at + Step \in Nat
    BY <2>1, StepFits DEF Smaller
  <2>3. region' = region
        /\ (at' = Smaller(region.end, at + Window) \/ at' = at + Step)
    BY <1>4 DEF SlideWindow
  <2> QED BY <2>2, <2>3 DEF LineTypes
<1>5. CASE ~(\E raised : FallBack(raised)) /\ ~Section /\ ~SlideWindow
  <2>1. UNCHANGED lineVars
    BY <1>5 DEF Next, vars, lineVars, Dispatch, TreeStep, TreeFails,
                SectionsEnd, EncodeRaises, KeepChunk, SplitChunk, Split, CapEnds
  <2> QED BY <2>1 DEF LineTypes, lineVars
<1> QED BY <1>2, <1>3, <1>4, <1>5

(* A call that has not yet reached Python's limit calls itself twice, one  *)
(* deeper.                                                                 *)
LEMMA DeeperCalls ==
    ASSUME NEW c \in Depths, Starts(c), c.depth < RecursionLimit,
           NEW t \in Seq(Depths)
    PROVE  Halves(c) \o t \in Seq(Depths)
<1> DEFINE mid == Larger(1, LineCount(c) \div 2)
           line == LineOf(c.from) + mid
<1>1. /\ c.from \in Nat /\ c.to \in Nat /\ c.start \in Nat /\ c.depth \in Nat
      /\ c.depth + 1 \in 1..RecursionLimit
  BY Sizes DEF Depths
<1>2. LineOf(c.from) \in Nat /\ LineOf(c.from) >= 1 /\ LineCount(c) \in Int
  BY <1>1 DEF Starts, LineOf, LineCount
<1>3. mid \in Nat /\ mid >= 1
  <2>1. LineCount(c) \div 2 \in Int
    BY <1>2
  <2> QED BY <2>1 DEF Larger
<1>4. line \in Nat /\ line >= 2
  <2> HIDE DEF mid
  <2> QED BY <1>2, <1>3
<1>5. PICK a : a = [from |-> c.from, to |-> 2 * (line - 1), start |-> c.start,
                    depth |-> c.depth + 1]
  OBVIOUS
<1>6. PICK b : b = [from |-> 2 * line - 1, to |-> c.to, start |-> c.start + mid,
                    depth |-> c.depth + 1]
  OBVIOUS
<1>7. Halves(c) = << a, b >>
  BY <1>5, <1>6 DEF Halves
<1> HIDE DEF mid, line
<1>8. a \in Depths /\ b \in Depths
  <2>1. 2 * (line - 1) \in Nat /\ 2 * line - 1 \in Nat /\ c.start + mid \in Nat
    BY <1>1, <1>3, <1>4
  <2> QED BY <1>1, <1>5, <1>6, <2>1 DEF Depths
<1>9. << a, b >> \in Seq(Depths)
  BY <1>8
<1> QED BY <1>7, <1>9, ConcatProperties

LEMMA SplitTypes ==
    ASSUME Halved, Halved', CapTypes, Split
    PROVE  CapTypes'
<1>1. /\ capped' \in 0..Len(chunks') /\ pieces' \in Seq(PieceType)
  BY DEF Halved, PiecesOK
<1>2. calls # <<>> /\ calls \in Seq(Depths)
  BY DEF Split, CapTypes
<1>3. Head(calls) \in Depths /\ Tail(calls) \in Seq(Depths)
  BY <1>2, HeadTailProperties
<1>4. Starts(Head(calls))
  BY <1>2, FirstCall DEF Halved
<1>5. \/ calls' = Tail(calls) \/ calls' = calls
      \/ Head(calls).depth < RecursionLimit
         /\ calls' = Halves(Head(calls)) \o Tail(calls)
  BY DEF Split
<1>6. calls' \in Seq(Depths)
  BY <1>2, <1>3, <1>4, <1>5, DeeperCalls
<1> QED BY <1>1, <1>6 DEF CapTypes

LEMMA CapTypesStep ==
    ASSUME ChunkInv, ChunkInv', CapTypes, [Next]_vars
    PROVE  CapTypes'
<1>1. CASE Uncapped'
  <2>1. chunks' \in Seq(ChunkType)
    BY ChunksStay
  <2>2. Len(chunks') \in Nat
    BY <2>1
  <2> QED BY <1>1, <2>2, EmptySeq DEF Uncapped, CapTypes
<1>2. CASE ~Uncapped'
  <2>1. phase' \in Capping /\ Halved'
    BY <1>2 DEF ChunkInv, Capping, Phases
  <2>2. capped' \in 0..Len(chunks') /\ pieces' \in Seq(PieceType)
    BY <2>1 DEF Halved, PiecesOK
  <2>3. calls' \in Seq(Depths)
    <3>1. CASE Split
      <4>1. Halved
        BY <3>1 DEF Split, ChunkInv, Capping
      <4> QED BY <2>1, <3>1, <4>1, SplitTypes DEF CapTypes
    <3>2. CASE SplitChunk
      <4>1. phase = "cap" /\ Halved /\ capped < Len(chunks)
        BY <3>2 DEF SplitChunk, ChunkInv, Capping
      <4>2. PICK c : c = chunks[capped + 1]
        OBVIOUS
      <4>3. Named(file, c) /\ c.from \in Nat /\ c.to \in Nat /\ c.start \in Nat
        BY <4>1, <4>2, NextChunk
      <4>4. PICK to \in SplitEnds(c) :
              calls' = << [from |-> c.from, to |-> to, start |-> c.start,
                           depth |-> 1] >>
        BY <3>2, <4>2 DEF SplitChunk
      <4>5. to \in Nat
        BY <4>3, SplitEndsHold DEF ChunkInv
      <4>6. [from |-> c.from, to |-> to, start |-> c.start, depth |-> 1] \in Depths
        BY <4>3, <4>5, Sizes DEF Depths
      <4> QED BY <4>4, <4>6
    <3>3. CASE ~Split /\ ~SplitChunk
      <4>1. calls' = calls
        BY <3>3 DEF Next, vars, capVars, Dispatch, FallBack, TreeStep, TreeFails,
                    Section, SectionsEnd, SlideWindow, EncodeRaises, KeepChunk,
                    CapEnds
      <4> QED BY <4>1 DEF CapTypes
    <3> QED BY <3>1, <3>2, <3>3
  <2> QED BY <2>2, <2>3 DEF CapTypes
<1> QED BY <1>1, <1>2

LEMMA ModeStep ==
    ASSUME mode \in Modes, [Next]_vars
    PROVE  mode' \in Modes
BY DEF Modes, Next, vars, Dispatch, FallBack, TreeStep, TreeFails, Section,
       SectionsEnd, SlideWindow, EncodeRaises, KeepChunk, SplitChunk, Split,
       CapEnds

LEMMA TypesBegin == Init => TypeOK
<1> SUFFICES ASSUME Init PROVE TypeOK
  OBVIOUS
<1>1. ChunkInv
  BY Begins
<1>2. IsFile(file) /\ phase \in Phases /\ mode \in Modes /\ chunks \in Seq(ChunkType)
  BY <1>1, ChunksAre DEF ChunkInv, Init, Modes
<1>3. TreeTypes
  BY Sizes, EmptySeq DEF Init, TreeTypes
<1>4. LineTypes
  BY DEF Init, LineTypes
<1>5. CapTypes
  BY EmptySeq DEF Init, CapTypes
<1> QED BY <1>2, <1>3, <1>4, <1>5, TypesAre

(* Every variable keeps its type; in particular what pends stays within    *)
(* the target, and no call of the halving goes deeper than Python allows.  *)
THEOREM ChunkingTypes == Spec => []TypeOK
<1>1. ASSUME ChunkInv, ChunkInv', TypeOK, [Next]_vars
      PROVE  TypeOK'
  <2>1. mode \in Modes /\ TreeTypes /\ LineTypes /\ CapTypes
    BY <1>1, TypesAre
  <2>2. TreeTypes' /\ LineTypes' /\ CapTypes' /\ mode' \in Modes
    BY <1>1, <2>1, TreeTypesStep, LineTypesStep, CapTypesStep, ModeStep
  <2>3. IsFile(file') /\ phase' \in Phases /\ chunks' \in Seq(ChunkType)
    BY <1>1, ChunksStay DEF ChunkInv
  <2> QED
    BY <2>2, <2>3 DEF TypeOK, TreeTypes, LineTypes, CapTypes, Modes, Frames,
                      Depths, PieceType
<1> QED BY <1>1, TypesBegin, Invariance, PTL DEF Spec

-----------------------------------------------------------------------------
(* When the halving ends.                                                  *)

(* No line is over the cap by itself.                                      *)
ShortLines == \A f \in Files : \A l \in 1..f.lines : f.weight[l] <= Cap

(* Q[d] + 1 lines at most are left at depth d, and one at the last.        *)
InTime(Q) ==
    /\ Q \in [1..RecursionLimit -> Nat]
    /\ \A f \in Files : f.lines <= Q[1] + 1
    /\ \A d \in 1..(RecursionLimit - 1) : Q[d] \div 2 <= Q[d + 1]
    /\ Q[RecursionLimit] = 0

Shrunk(Q, cs) == \A i \in 1..Len(cs) : LineCount(cs[i]) <= Q[cs[i].depth] + 1

HalvingInv == /\ file \in Files /\ HalvingEnds
              /\ \E Q : InTime(Q) /\ Shrunk(Q, calls)

(* One line that is over the cap is so by itself.                          *)
LEMMA LineIsOver ==
    ASSUME IsFile(file), NEW c, c.from \in Nat, c.to \in Nat, c.to >= 1,
           LineCount(c) <= 1, Over(c)
    PROVE  \E l \in 1..file.lines :
             file.weight[l] > Cap /\ Text(c.from, c.to) = {l}
<1>1. \A k \in Text(c.from, c.to) : /\ k \in 1..file.lines /\ k \in Nat
                                    /\ file.weight[k] \in Nat
  BY Weighed DEF Text
<1>2. ASSUME NEW k \in Text(c.from, c.to)
      PROVE  LineOf(c.from) <= k /\ k <= LineOf(c.to - 1)
  <2>1. k \in Nat /\ c.from <= 2 * k - 1 /\ 2 * k - 1 < c.to
    BY <1>1 DEF Text
  <2> QED BY <2>1 DEF LineOf
<1>3. LineOf(c.from) \in Int /\ LineOf(c.to - 1) \in Int
      /\ LineOf(c.to - 1) <= LineOf(c.from)
  BY DEF LineCount, LineOf
<1>4. \A k, l \in Text(c.from, c.to) : k = l
  BY <1>1, <1>2, <1>3
<1>5. Cap \in Nat
  BY SizesAssumption
<1>6. Tokens(c.from, c.to) \in Nat /\ Tokens(c.from, c.to) > Cap
  BY TokensAreNatural DEF Over
<1>7. ~ \A k \in Text(c.from, c.to) : file.weight[k] <= Cap
  <2>1. ASSUME \A k \in Text(c.from, c.to) : file.weight[k] <= Cap
        PROVE  Tokens(c.from, c.to) <= Cap
    BY <1>4, <1>5, <2>1, TokensOfALine
  <2> QED BY <1>5, <1>6, <2>1
<1>8. PICK l \in Text(c.from, c.to) : ~(file.weight[l] <= Cap)
  BY <1>7
<1>9. Text(c.from, c.to) = {l}
  BY <1>4, <1>8
<1>10. l \in 1..file.lines /\ file.weight[l] > Cap
  BY <1>1, <1>5, <1>8
<1> QED BY <1>9, <1>10

(* Both halves are shorter by half, but for one line.                      *)
LEMMA HalvesAreShorter ==
    ASSUME NEW c \in Depths, Starts(c)
    PROVE  \E a, b \in CallType :
             /\ Halves(c) = << a, b >>
             /\ a.depth = c.depth + 1 /\ b.depth = c.depth + 1
             /\ \A q \in Nat :
                  (LineCount(c) - 1) \div 2 <= q
                  => LineCount(a) <= q + 1 /\ LineCount(b) <= q + 1
<1> DEFINE n == LineCount(c)
           mid == Larger(1, n \div 2)
           line == LineOf(c.from) + mid
<1>1. c.from \in Nat /\ c.to \in Nat /\ c.start \in Nat /\ c.depth \in Nat
  BY DEF Depths
<1>2. LineOf(c.from) \in Nat /\ LineOf(c.from) >= 1 /\ n \in Int
  BY <1>1 DEF Starts, LineOf, LineCount
<1>3. n = LineOf(c.to - 1) - LineOf(c.from) + 1
  BY DEF LineCount
<1> HIDE DEF n
<1>4. mid = (IF 1 > n \div 2 THEN 1 ELSE n \div 2) /\ mid \in Nat /\ mid >= 1
  <2>1. n \div 2 \in Int
    BY <1>2
  <2> QED BY <2>1 DEF Larger, n
<1>5. ASSUME NEW q \in Nat, (n - 1) \div 2 <= q
      PROVE  mid <= q + 1 /\ n - mid <= q + 1
  <2> HIDE DEF mid
  <2> QED BY <1>2, <1>4, <1>5
<1> HIDE DEF mid
<1>6. line \in Nat /\ line >= 2
  BY <1>2, <1>4
<1>7. PICK a : a = [from |-> c.from, to |-> 2 * (line - 1), start |-> c.start,
                    depth |-> c.depth + 1]
  OBVIOUS
<1>8. PICK b : b = [from |-> 2 * line - 1, to |-> c.to, start |-> c.start + mid,
                    depth |-> c.depth + 1]
  OBVIOUS
<1>9. Halves(c) = << a, b >>
  BY <1>7, <1>8 DEF Halves, mid, n
<1>10. line - mid = LineOf(c.from)
  BY <1>2, <1>4
<1> HIDE DEF line
<1>11. /\ a \in CallType /\ a.from = c.from /\ a.to = 2 * (line - 1)
       /\ a.depth = c.depth + 1
  BY <1>1, <1>6, <1>7 DEF CallType
<1>12. /\ b \in CallType /\ b.from = 2 * line - 1 /\ b.to = c.to
       /\ b.depth = c.depth + 1
  BY <1>1, <1>4, <1>6, <1>8 DEF CallType
<1>13. LineCount(a) = mid
  <2>1. LineOf(a.to - 1) = line - 1
    BY <1>6, <1>11 DEF LineOf
  <2> QED BY <1>2, <1>4, <1>6, <1>10, <1>11, <2>1 DEF LineCount
<1>14. LineCount(b) = n - mid
  <2>1. LineOf(b.from) = line
    BY <1>6, <1>12 DEF LineOf
  <2>2. LineOf(c.to - 1) \in Int
    BY <1>1 DEF LineOf
  <2> QED BY <1>2, <1>3, <1>4, <1>6, <1>10, <1>12, <2>1, <2>2 DEF LineCount
<1> QED BY <1>5, <1>9, <1>11, <1>12, <1>13, <1>14 DEF n

(* The first call is about no more lines than the file has.                *)
LEMMA FirstCallIsShort ==
    ASSUME IsFile(file), Halved, SplitChunk, NEW Q, InTime(Q), file \in Files
    PROVE  Shrunk(Q, calls')
<1>1. PICK c : c = chunks[capped + 1]
  OBVIOUS
<1>2. PICK to \in SplitEnds(c) :
        calls' = << [from |-> c.from, to |-> to, start |-> c.start, depth |-> 1] >>
  BY <1>1 DEF SplitChunk
<1> DEFINE k == [from |-> c.from, to |-> to, start |-> c.start, depth |-> 1]
<1>3. calls' = << k >> /\ capped < Len(chunks)
  BY <1>2 DEF SplitChunk
<1>4. Named(file, c) /\ c.from \in Nat /\ c.to \in Nat
  BY <1>1, <1>3, NextChunk
<1>5. /\ to \in Nat /\ to >= 1 /\ to <= 2 * file.lines + 1
  BY <1>4, SplitEndsHold, Weighed DEF Named, EndOf
<1>6. k.from = c.from /\ k.to = to /\ k.depth = 1
  OBVIOUS
<1> HIDE DEF k
<1>7. LineCount(k) <= file.lines
  <2>1. LineOf(to - 1) <= file.lines /\ LineOf(to - 1) \in Int
    BY <1>5, Weighed DEF LineOf
  <2>2. LineOf(c.from) >= 1 /\ LineOf(c.from) \in Nat
    BY <1>4 DEF Named, LineOf
  <2> QED BY <1>6, <2>1, <2>2, Weighed DEF LineCount
<1>8. file.lines <= Q[1] + 1 /\ Q[1] \in Nat
  BY Sizes DEF InTime
<1>9. LineCount(k) \in Int
  BY <1>4, <1>5, <1>6 DEF LineCount, LineOf
<1>10. Len(<< k >>) = 1 /\ << k >>[1] = k
  OBVIOUS
<1> QED BY <1>3, <1>6, <1>7, <1>8, <1>9, <1>10, Weighed DEF Shrunk

LEMMA HalvingGoesOn ==
    ASSUME IsFile(file), Halved, CapTypes, file \in Files,
           NEW Q, InTime(Q), Shrunk(Q, calls), Split
    PROVE  Shrunk(Q, calls') /\ HalvingEnds'
<1>1. PICK c : c = Head(calls)
  OBVIOUS
<1>2. PICK t : t = Tail(calls)
  OBVIOUS
<1>3. calls # <<>> /\ calls \in Seq(Depths)
  BY DEF Split, CapTypes
<1>4. /\ c \in Depths /\ t \in Seq(Depths) /\ c = calls[1] /\ Len(calls) \in Nat
      /\ Len(calls) >= 1 /\ Len(t) = Len(calls) - 1
      /\ \A i \in 1..Len(t) : t[i] = calls[i + 1]
  BY <1>1, <1>2, <1>3, EmptySeq, HeadTailProperties
<1>5. Starts(c)
  BY <1>1, <1>3, FirstCall DEF Halved
<1>6. /\ c.from \in Nat /\ c.to \in Nat /\ c.to >= 1 /\ LineCount(c) \in Int
      /\ c.depth \in 1..RecursionLimit /\ c.depth \in Nat
  BY <1>4, <1>5, Sizes DEF Depths, Starts, LineCount, LineOf
<1>7. LineCount(c) <= Q[c.depth] + 1 /\ Q[c.depth] \in Nat
  BY <1>4, <1>6 DEF Shrunk, InTime
<1>8. Shrunk(Q, t)
  <2> SUFFICES ASSUME NEW i \in 1..Len(t)
               PROVE  LineCount(t[i]) <= Q[t[i].depth] + 1
    BY DEF Shrunk
  <2>1. i + 1 \in 1..Len(calls) /\ t[i] = calls[i + 1]
    BY <1>4
  <2> QED BY <2>1 DEF Shrunk
<1>9. CASE ~Over(c)
  BY <1>1, <1>2, <1>8, <1>9 DEF Split, HalvingEnds
<1>10. CASE Over(c) /\ c.depth >= RecursionLimit
  <2>1. c.depth = RecursionLimit
    BY <1>6, <1>10, Sizes
  <2>2. Q[RecursionLimit] = 0
    BY DEF InTime
  <2>3. LineCount(c) <= 1
    BY <1>6, <1>7, <2>1, <2>2
  <2>4. calls' = calls /\ file' = file
    BY <1>1, <1>6, <1>10, Sizes DEF Split
  <2>5. \E l \in 1..file.lines :
           file.weight[l] > Cap /\ Text(c.from, c.to) = {l}
    BY <1>6, <1>10, <2>3, LineIsOver
  <2> QED BY <1>1, <1>3, <2>4, <2>5 DEF HalvingEnds, Shrunk, Text
<1>11. CASE Over(c) /\ c.depth < RecursionLimit
  <2>3. c.depth < RecursionLimit /\ c.depth \in 1..(RecursionLimit - 1)
    BY <1>6, <1>11, Sizes
  <2>4. phase' = "cap" /\ calls' = Halves(c) \o t
    BY <1>1, <1>2, <1>6, <1>11, <2>3, Sizes DEF Split
  <2>5. PICK a \in CallType, b \in CallType :
             /\ Halves(c) = << a, b >>
             /\ a.depth = c.depth + 1 /\ b.depth = c.depth + 1
             /\ \A q \in Nat :
                  (LineCount(c) - 1) \div 2 <= q
                  => LineCount(a) <= q + 1 /\ LineCount(b) <= q + 1
    BY <1>4, <1>5, HalvesAreShorter
  <2>6. /\ Q[c.depth] \div 2 <= Q[c.depth + 1]
        /\ Q[c.depth + 1] \in Nat
    <3>1. c.depth + 1 \in 1..RecursionLimit
      BY <1>6, <2>3, Sizes
    <3> QED BY <2>3, <3>1 DEF InTime
  <2>7. (LineCount(c) - 1) \div 2 <= Q[c.depth + 1]
    BY <1>6, <1>7, <2>6
  <2>10. LineCount(a) <= Q[a.depth] + 1 /\ LineCount(b) <= Q[b.depth] + 1
    BY <2>5, <2>6, <2>7
  <2> DEFINE two == << a, b >>
             cs == two \o t
  <2>11. two \in Seq(CallType) /\ Len(two) = 2 /\ two[1] = a /\ two[2] = b
    OBVIOUS
  <2>12. t \in Seq(CallType)
    BY <1>1, <1>2, <1>3, FirstCall DEF Halved, CallsOK
  <2> HIDE DEF two
  <2>13. /\ Len(cs) = Len(two) + Len(t)
         /\ \A i \in 1..(Len(two) + Len(t)) :
               cs[i] = IF i <= Len(two) THEN two[i] ELSE t[i - Len(two)]
    BY <2>11, <2>12, ConcatProperties
  <2> HIDE DEF cs
  <2>14. Shrunk(Q, cs)
    <3> SUFFICES ASSUME NEW i \in 1..Len(cs)
                 PROVE  LineCount(cs[i]) <= Q[cs[i].depth] + 1
      BY DEF Shrunk
    <3>1. Len(t) \in Nat /\ i \in 1..(2 + Len(t))
      BY <1>4, <2>11, <2>13
    <3>2. CASE i = 1
      BY <2>10, <2>11, <2>13, <3>1, <3>2
    <3>3. CASE i = 2
      BY <2>10, <2>11, <2>13, <3>1, <3>3
    <3>4. CASE i > 2
      <4>1. i - 2 \in 1..Len(t) /\ cs[i] = t[i - 2]
        BY <2>11, <2>13, <3>1, <3>4
      <4> QED BY <1>8, <4>1 DEF Shrunk
    <3> QED BY <3>1, <3>2, <3>3, <3>4
  <2> QED BY <2>4, <2>5, <2>14 DEF cs, two, HalvingEnds
<1> QED BY <1>6, <1>9, <1>10, <1>11, Sizes

LEMMA HalvingStep ==
    ASSUME ChunkInv, TypeOK, HalvingInv, [Next]_vars
    PROVE  HalvingInv'
<1>1. PICK Q : InTime(Q) /\ Shrunk(Q, calls)
  BY DEF HalvingInv
<1>2. IsFile(file) /\ file \in Files /\ CapTypes
  BY TypesAre DEF HalvingInv
<1>3. file' = file
  BY DEF Next, vars, Dispatch, FallBack, TreeStep, TreeFails, Section,
         SectionsEnd, SlideWindow, EncodeRaises, KeepChunk, SplitChunk, Split,
         CapEnds
<1>4. CASE SplitChunk
  <2>1. Halved /\ phase' = "cap"
    BY <1>4 DEF SplitChunk, ChunkInv, Capping
  <2>2. Shrunk(Q, calls')
    BY <1>1, <1>2, <1>4, <2>1, FirstCallIsShort
  <2> QED BY <1>1, <1>2, <1>3, <2>1, <2>2 DEF HalvingInv, HalvingEnds
<1>5. CASE Split
  <2>1. Halved
    BY <1>5 DEF Split, ChunkInv, Capping
  <2>2. HalvingEnds' /\ Shrunk(Q, calls')
    BY <1>1, <1>2, <1>5, <2>1, HalvingGoesOn
  <2> QED BY <1>1, <1>2, <1>3, <2>2 DEF HalvingInv
<1>6. CASE UNCHANGED vars
  <2>1. UNCHANGED <<file, phase, calls>>
    BY <1>6 DEF vars
  <2> QED
    BY <2>1 DEF HalvingInv, HalvingEnds, Shrunk, LineCount, LineOf, Text
<1>7. CASE Next /\ ~SplitChunk /\ ~Split
  <2>1. calls' = calls /\ phase' # "RecursionError"
    BY <1>7 DEF Next, capVars, Dispatch, FallBack, Slide, TreeStep, SkipGap,
                Descend, EmitLeaf, Merge, Return, TreeFails, Section,
                SectionsEnd, SlideWindow, EncodeRaises, KeepChunk, CapEnds
  <2> QED BY <1>1, <1>2, <1>3, <2>1 DEF HalvingInv, HalvingEnds
<1> QED BY <1>4, <1>5, <1>6, <1>7

LEMMA HalvingBegins ==
    ASSUME Init, NEW Q, InTime(Q)
    PROVE  HalvingInv
BY DEF Init, HalvingInv, HalvingEnds, Shrunk

(* "Halves until each half fits the cap" (_split_chunk_recursive): the     *)
(* halving of any chunk of any file ends before Python stops it, unless it *)
(* comes to a line that is over the cap by itself, as it must if a chunk   *)
(* of several lines holds one.  The recursion limit has to allow the       *)
(* halvings of the longest file; Python's, a thousand, allows any.         *)
THEOREM HalvingStopsAtOverlongLines ==
    (\E Q : InTime(Q)) => (Spec => []HalvingEnds)
<1> SUFFICES ASSUME \E Q : InTime(Q)
             PROVE  Spec => []HalvingEnds
  OBVIOUS
<1>1. Init => HalvingInv
  BY HalvingBegins
<1>2. ChunkInv /\ TypeOK /\ HalvingInv /\ [Next]_vars => HalvingInv'
  BY HalvingStep
<1>3. HalvingInv => HalvingEnds
  BY DEF HalvingInv
<1> QED BY <1>1, <1>2, <1>3, Invariance, ChunkingTypes, PTL DEF Spec

(* So files without an overlong line are halved to the end.                *)
THEOREM ShortLinesAreHalvedInTime ==
    ShortLines /\ (\E Q : InTime(Q)) => (Spec => [](phase # "RecursionError"))
<1> SUFFICES ASSUME ShortLines, \E Q : InTime(Q)
             PROVE  Spec => [](phase # "RecursionError")
  OBVIOUS
<1>1. file \in Files /\ IsFile(file) /\ HalvingEnds => phase # "RecursionError"
  <2> SUFFICES ASSUME file \in Files, IsFile(file), HalvingEnds,
                      phase = "RecursionError"
               PROVE  FALSE
    OBVIOUS
  <2>1. PICK l \in 1..file.lines : file.weight[l] > Cap
    BY DEF HalvingEnds
  <2>2. file.weight[l] \in Nat /\ file.weight[l] <= Cap /\ Cap \in Nat
    BY <2>1, Weighed, SizesAssumption DEF ShortLines
  <2> QED BY <2>1, <2>2
<1>2. Init => file \in Files
  BY DEF Init
<1>3. file \in Files /\ [Next]_vars => (file \in Files)'
  BY DEF Next, vars, Dispatch, FallBack, TreeStep, TreeFails, Section,
         SectionsEnd, SlideWindow, EncodeRaises, KeepChunk, SplitChunk, Split,
         CapEnds
<1>4. ChunkInv => IsFile(file)
  BY DEF ChunkInv
<1> QED BY <1>1, <1>2, <1>3, <1>4, HalvingStopsAtOverlongLines, Invariance, PTL
        DEF Spec
=============================================================================
