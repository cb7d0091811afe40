------------------------------ MODULE Chunking ------------------------------
(***************************************************************************)
(* How one source file becomes the pieces of text that are embedded:       *)
(* indexing/chunker routes it to the syntax-tree chunker (ast_chunker), to *)
(* the heading splitter or to the sliding window, and indexing/service     *)
(* then halves every chunk over the token cap.                             *)
(*                                                                         *)
(* A file is its lines, each with the tokens it costs (0: blank), and the  *)
(* declarations of its syntax tree, nested or disjoint.  Places are those  *)
(* of the code's byte offsets: 2l-1 is the text of line l, 2l the newline  *)
(* that ends it, and an interval holds the places from .. to-1.            *)
(* Indentation and newlines cost no tokens, a declaration starts its line, *)
(* and only newlines end lines (splitlines() also breaks at form feeds and *)
(* the like).  Line numbers are computed as the code computes them, apart from  *)
(* the places they are meant to name.                                      *)
(***************************************************************************)
EXTENDS FiniteSetsExt, Integers, Sequences

CONSTANTS
    Files,           \* the files of the repository that survive the filters
    Target,          \* DEFAULT_TARGET_TOKENS
    Cap,             \* MAX_CHUNK_TOKENS
    Window,          \* SLIDING_WINDOW_LINES
    Overlap,         \* SLIDING_OVERLAP_LINES
    MarkdownMax,     \* MARKDOWN_MAX_LINES
    RecursionLimit   \* Python's limit on nested calls (a bound)

VARIABLES
    file,
    phase,    \* where chunk_repo and _enforce_chunk_token_cap stand
    mode,     \* the route that produced the chunks
    nodes,    \* the nested calls of _chunk_subtree, innermost last
    pos,      \* prev_end_byte of the innermost one
    pending,  \* the chunk of the declarations not flushed yet, if any
    pendingTokens,
    region,   \* the lines chunk_sliding works on
    at,       \* lines already behind chunk_markdown or chunk_sliding
    chunks,   \* what the chunker returns
    capped,   \* how many chunks _enforce_chunk_token_cap has seen
    calls,    \* the pending calls of _split_chunk_recursive, next one first
    pieces    \* what is embedded

vars == <<file, phase, mode, nodes, pos, pending, pendingTokens, region, at,
          chunks, capped, calls, pieces>>

astVars == <<nodes, pos, pending, pendingTokens>>
lineVars == <<region, at>>
capVars == <<capped, calls, pieces>>

Interval == [from : Nat, to : Nat]

(* What the model expects of the files: some text, and declarations whose  *)
(* intervals lie in the file, are not empty and do not cross.              *)
IsFile(f) ==
    /\ f.lines \in Nat \ {0}
    /\ f.weight \in [1..f.lines -> Nat]
    /\ f.decls \subseteq Interval
    /\ \A d \in f.decls :
         0 < d.from /\ d.from < d.to /\ d.to <= 2 * f.lines + 1
    /\ \A d, e \in f.decls : \/ d.to <= e.from \/ e.to <= d.from
                             \/ (d.from <= e.from /\ e.to <= d.to)
                             \/ (e.from <= d.from /\ d.to <= e.to)
    /\ f.headings \subseteq 2..f.lines
    /\ f.language \in {"code", "markdown", "plain"}

ASSUME FilesAssumption == \A f \in Files : IsFile(f)
ASSUME SizesAssumption ==
    /\ {Target, Cap, Window, RecursionLimit} \subseteq Nat \ {0}
    /\ {Overlap, MarkdownMax} \subseteq Nat

Larger(a, b) == IF a > b THEN a ELSE b
Smaller(a, b) == IF a < b THEN a ELSE b

LineOf(place) == (place + 1) \div 2

Text(b1, b2) ==
    {l \in 1..file.lines : b1 <= 2 * l - 1 /\ 2 * l - 1 < b2}

IsBlank(b1, b2) == \A l \in Text(b1, b2) : file.weight[l] = 0

Tokens(b1, b2) == MapThenSumSet(LAMBDA l : file.weight[l], Text(b1, b2))

Chunk(b1, b2, first, last) ==
    [from |-> b1, to |-> b2, start |-> first, end |-> last]

(* Lines first..last joined by newlines.                                   *)
Lines(first, last) == Chunk(2 * first - 1, 2 * last, first, last)

-----------------------------------------------------------------------------
(* chunk_repo and _dispatch_chunker_with_mode: which chunker a file gets.  *)

Root == [from |-> 1, to |-> 2 * file.lines + 1]

(* _find_top_splittables: the outermost declarations inside a node.        *)
Inside(n) ==
    {d \in file.decls : d # n /\ n.from <= d.from /\ d.to <= n.to}

(* Mutant: the walk goes on inside a declaration.                          *)
TopsAndInner(n) == Inside(n)

Tops(n) ==
    {d \in Inside(n) :
       \A e \in Inside(n) : e.from <= d.from /\ d.to <= e.to => e = d}

Frame(n) == [node |-> n, left |-> Tops(n)]

Pending(chunk, tokens) == pending' = chunk /\ pendingTokens' = tokens

Slide(base, end) ==
    /\ phase' = "sliding"
    /\ region' = [base |-> base, end |-> end]
    /\ at' = base

(* The tree gave nothing: a Markdown file is split at its headings, any    *)
(* other file gets the sliding window, and so does a Markdown file if      *)
(* chunk_with_treesitter itself raised.                                    *)
FallBack(raised) ==
    /\ chunks' = <<>> /\ nodes' = <<>> /\ Pending(<<>>, 0)
    /\ IF file.language = "markdown" /\ ~raised
         THEN /\ phase' = "sections" /\ at' = 0
              /\ mode' = "sections" /\ UNCHANGED region
         ELSE Slide(0, file.lines) /\ mode' = "sliding"
    /\ UNCHANGED <<file, pos, capVars>>

Dispatch ==
    /\ phase = "dispatch"
    /\ \/ /\ IsBlank(1, 2 * file.lines)
          /\ phase' = "done"
          /\ UNCHANGED <<file, mode, astVars, lineVars, chunks, capVars>>
       \* no grammar for it, no declaration in it, or the parser raises
       \/ /\ ~IsBlank(1, 2 * file.lines)
          /\ \E raised \in BOOLEAN : FallBack(raised)
       \/ /\ ~IsBlank(1, 2 * file.lines)
          /\ file.language # "plain" /\ Tops(Root) # {}
          /\ phase' = "ast" /\ mode' = "ast"
          /\ nodes' = <<Frame(Root)>> /\ pos' = 1
          /\ UNCHANGED <<file, pending, pendingTokens, lineVars, chunks, capVars>>

-----------------------------------------------------------------------------
(* _chunk_subtree.                                                         *)

Node == nodes[Len(nodes)].node

Left == nodes[Len(nodes)].left

(* The loop takes them in source order.                                    *)
IsNext(d) == \A e \in Left : d.from <= e.from

Without(d) == [nodes EXCEPT ![Len(nodes)].left = @ \ {d}]

(* flush_pending, as the chunks it leaves.                                 *)
Flushed == chunks \o pending

(* The gap after a declaration begins with the newline that ends it, so    *)
(* its first line is the declaration's last.                               *)
GapChunk(b1, b2) == Chunk(b1, b2, LineOf(b1), LineOf(Larger(b1, b2 - 1)))

DeclChunk(d) == Chunk(d.from, d.to, LineOf(d.from), LineOf(d.to))

(* emit_gap: text between two declarations is a chunk of its own, and      *)
(* what is pending goes out before it.                                     *)
SkipGap(d) ==
    /\ pos < d.from
    /\ IF IsBlank(pos, d.from)
         THEN UNCHANGED <<chunks, pending, pendingTokens>>
         ELSE /\ chunks' = Append(Flushed, GapChunk(pos, d.from))
              /\ Pending(<<>>, 0)
    /\ pos' = d.from
    /\ UNCHANGED <<phase, nodes>>

(* A declaration over the target that holds declarations is entered.       *)
Descend(d) ==
    /\ pos >= d.from
    /\ Tokens(d.from, d.to) > Target /\ Tops(d) # {}
    /\ chunks' = Flushed /\ Pending(<<>>, 0)
    /\ nodes' = Append(Without(d), Frame(d))
    /\ pos' = d.from
    /\ UNCHANGED phase

(* One over the target that holds none is a chunk, however large.          *)
EmitLeaf(d) ==
    /\ pos >= d.from
    /\ Tokens(d.from, d.to) > Target /\ Tops(d) = {}
    /\ chunks' = Append(Flushed, DeclChunk(d)) /\ Pending(<<>>, 0)
    /\ nodes' = Without(d) /\ pos' = d.to
    /\ UNCHANGED phase

(* Mutant: the declaration at hand is not counted.                         *)
PendingOver(tokens) == pending = <<>> \/ pendingTokens > Target

FlushFirst(tokens) == pending = <<>> \/ pendingTokens + tokens > Target

(* Any other joins the pending ones, which are flushed first if the sum    *)
(* would exceed the target.                                                *)
Merge(d) ==
    LET tokens == Tokens(d.from, d.to)
        first == FlushFirst(tokens)
    IN
    /\ pos >= d.from /\ tokens <= Target
    /\ \/ /\ first
          /\ chunks' = Flushed /\ Pending(<<DeclChunk(d)>>, tokens)
       \/ /\ ~first
          /\ Pending(<< [pending[1] EXCEPT !.to = d.to,
                                           !.end = LineOf(d.to)] >>,
                     pendingTokens + tokens)
          /\ UNCHANGED chunks
    /\ nodes' = Without(d) /\ pos' = d.to
    /\ UNCHANGED phase

(* The loop is over: flush, emit the text that follows the last            *)
(* declaration, return to the caller.                                      *)
Return ==
    /\ Left = {}
    /\ chunks' = IF IsBlank(pos, Node.to) THEN Flushed
                 ELSE Append(Flushed, GapChunk(pos, Node.to))
    /\ Pending(<<>>, 0)
    /\ pos' = Node.to
    /\ nodes' = SubSeq(nodes, 1, Len(nodes) - 1)
    /\ phase' = IF Len(nodes) = 1 THEN "cap" ELSE "ast"

TreeStep ==
    /\ phase = "ast"
    /\ \/ \E d \in Left : IsNext(d) /\ SkipGap(d)
       \/ \E d \in Left : IsNext(d) /\ Descend(d)
       \/ \E d \in Left : IsNext(d) /\ EmitLeaf(d)
       \/ \E d \in Left : IsNext(d) /\ Merge(d)
       \/ Return
    /\ UNCHANGED <<file, mode, lineVars, capVars>>

(* Anything it raises, the counting of tokens included, discards the       *)
(* chunks made so far (chunk_with_treesitter).                             *)
TreeFails == phase = "ast" /\ FallBack(FALSE)

-----------------------------------------------------------------------------
(* chunk_markdown and chunk_sliding.                                       *)

(* Where a section may end: before a later heading, or with the file.      *)
Boundaries == {h - 1 : h \in {g \in file.headings : g - 1 > at}}
                  \cup {file.lines}

Section ==
    /\ phase = "sections" /\ at < file.lines
    /\ \E end \in Boundaries :
         LET blank == IsBlank(2 * at + 1, 2 * end) IN
         /\ \A b \in Boundaries : end <= b
         /\ \/ /\ blank
               /\ at' = end
               /\ UNCHANGED <<phase, region, chunks>>
            \/ /\ ~blank /\ end - at > MarkdownMax
               /\ Slide(at, end)
               /\ UNCHANGED chunks
            \/ /\ ~blank /\ end - at <= MarkdownMax
               /\ chunks' = Append(chunks, Lines(at + 1, end))
               /\ at' = end
               /\ UNCHANGED <<phase, region>>
    /\ UNCHANGED <<file, mode, astVars, capVars>>

SectionsEnd ==
    /\ phase = "sections" /\ at >= file.lines
    /\ phase' = "cap"
    /\ UNCHANGED <<file, mode, astVars, lineVars, chunks, capVars>>

Step == Larger(1, Window - Overlap)

(* One window.  The text after the last one is never looked at again, and  *)
(* a sliding section returns to the splitter of sections.                  *)
SlideWindow ==
    /\ phase = "sliding"
    /\ LET end == Smaller(region.end, at + Window) IN
       /\ chunks' = Append(chunks, Lines(at + 1, end))
       /\ IF end = region.end
            THEN /\ phase' = IF mode = "sections" THEN "sections" ELSE "cap"
                 /\ at' = end
            ELSE at' = at + Step /\ UNCHANGED phase
    /\ UNCHANGED <<file, mode, region, astVars, capVars>>

-----------------------------------------------------------------------------
(* _enforce_chunk_token_cap and _split_chunk_recursive.                    *)

Piece(c, cut) ==
    [from |-> c.from, to |-> c.to, start |-> c.start, end |-> c.end,
     cut |-> cut]

LineCount(c) == LineOf(c.to - 1) - LineOf(c.from) + 1

Over(c) == Tokens(c.from, c.to) > Cap

(* Where the lines of a chunk over the cap end: splitlines() sees none     *)
(* after a last newline, so that a last line without text counts or not,   *)
(* as it holds blanks or nothing.                                          *)
SplitEnds(c) ==
    LET last == LineOf(c.to - 1) IN
    {Smaller(c.to, 2 * last)}
      \cup {to \in {2 * (last - 1)} : /\ c.to = 2 * last /\ file.weight[last] = 0
                                     /\ LineOf(c.from) < last}

(* The encoder refuses text that spells one of its special tokens, and     *)
(* nobody catches it.                                                      *)
EncodeRaises ==
    /\ phase = "cap" /\ calls = <<>> /\ capped < Len(chunks)
    /\ phase' = "ValueError"
    /\ UNCHANGED <<file, mode, astVars, lineVars, chunks, capVars>>

(* A chunk within the cap, or one line over it, which is truncated.        *)
KeepChunk ==
    /\ phase = "cap" /\ calls = <<>> /\ capped < Len(chunks)
    /\ LET c == chunks[capped + 1] IN
       /\ Over(c) => \E to \in SplitEnds(c) : LineCount([c EXCEPT !.to = to]) <= 1
       /\ pieces' = Append(pieces, Piece(c, Over(c)))
    /\ capped' = capped + 1
    /\ UNCHANGED <<file, phase, mode, astVars, lineVars, chunks, calls>>

(* Any other chunk over the cap is split by its lines.                     *)
SplitChunk ==
    /\ phase = "cap" /\ calls = <<>> /\ capped < Len(chunks)
    /\ LET c == chunks[capped + 1] IN
       /\ Over(c)
       /\ \E to \in SplitEnds(c) :
            /\ LineCount([c EXCEPT !.to = to]) > 1
            /\ calls' = << [from |-> c.from, to |-> to, start |-> c.start,
                            depth |-> 1] >>
    /\ capped' = capped + 1
    /\ UNCHANGED <<file, phase, mode, astVars, lineVars, chunks, pieces>>

(* Mutant: the second half starts one line late.                           *)
HalvesApart(c) ==
    LET mid == Larger(1, LineCount(c) \div 2)
        cut == LineOf(c.from) + mid
    IN  << [from |-> c.from, to |-> 2 * (cut - 1), start |-> c.start,
            depth |-> c.depth + 1],
           [from |-> 2 * cut + 1, to |-> c.to, start |-> c.start + mid,
            depth |-> c.depth + 1] >>

(* Mutants: the second half has the line number of the first, and both     *)
(* halves have the middle line.                                            *)
HalvesUnshifted(c) ==
    LET mid == Larger(1, LineCount(c) \div 2)
        cut == LineOf(c.from) + mid
    IN  << [from |-> c.from, to |-> 2 * (cut - 1), start |-> c.start,
            depth |-> c.depth + 1],
           [from |-> 2 * cut - 1, to |-> c.to, start |-> c.start,
            depth |-> c.depth + 1] >>

HalvesTwice(c) ==
    LET mid == Larger(1, LineCount(c) \div 2)
        cut == LineOf(c.from) + mid
    IN  << [from |-> c.from, to |-> 2 * (cut - 1), start |-> c.start,
            depth |-> c.depth + 1],
           [from |-> 2 * cut - 3, to |-> c.to, start |-> c.start + mid - 1,
            depth |-> c.depth + 1] >>

Halves(c) ==
    LET mid == Larger(1, LineCount(c) \div 2)
        cut == LineOf(c.from) + mid
    IN  << [from |-> c.from, to |-> 2 * (cut - 1), start |-> c.start,
            depth |-> c.depth + 1],
           [from |-> 2 * cut - 1, to |-> c.to, start |-> c.start + mid,
            depth |-> c.depth + 1] >>

(* A call that fits returns its lines; any other calls itself on the two   *)
(* halves.  Half of one line is that line.                                 *)
Split ==
    /\ phase = "cap" /\ calls # <<>>
    /\ LET c == Head(calls) IN
       \/ /\ ~Over(c)
          /\ pieces' = Append(pieces,
                         [from |-> c.from, to |-> c.to, start |-> c.start,
                          end |-> c.start + LineCount(c) - 1, cut |-> FALSE])
          /\ calls' = Tail(calls)
          /\ UNCHANGED phase
       \/ /\ Over(c) /\ c.depth < RecursionLimit
          /\ calls' = Halves(c) \o Tail(calls)
          /\ UNCHANGED <<phase, pieces>>
       \/ /\ Over(c) /\ c.depth >= RecursionLimit
          /\ phase' = "RecursionError"
          /\ UNCHANGED <<calls, pieces>>
    /\ UNCHANGED <<file, mode, astVars, lineVars, chunks, capped>>

CapEnds ==
    /\ phase = "cap" /\ calls = <<>> /\ capped = Len(chunks)
    /\ phase' = "done"
    /\ UNCHANGED <<file, mode, astVars, lineVars, chunks, capVars>>

-----------------------------------------------------------------------------
Init ==
    /\ file \in Files
    /\ phase = "dispatch" /\ mode = "none"
    /\ nodes = <<>> /\ pos = 1 /\ pending = <<>> /\ pendingTokens = 0
    /\ region = [base |-> 0, end |-> 0] /\ at = 0
    /\ chunks = <<>>
    /\ capped = 0 /\ calls = <<>> /\ pieces = <<>>

Next ==
    \/ Dispatch
    \/ TreeStep \/ TreeFails
    \/ Section \/ SectionsEnd \/ SlideWindow
    \/ EncodeRaises \/ KeepChunk \/ SplitChunk \/ Split \/ CapEnds

Spec == Init /\ [][Next]_vars

Phases ==
    {"dispatch", "ast", "sections", "sliding", "cap", "done",
     "RecursionError", "ValueError"}

ChunkType == [from : Nat, to : Nat, start : Nat, end : Nat]

(* Every variable has its type.                                            *)
TypeOK ==
    /\ IsFile(file)
    /\ phase \in Phases
    /\ mode \in {"none", "ast", "sections", "sliding"}
    /\ nodes \in Seq([node : Interval, left : SUBSET file.decls])
    /\ pos \in Nat /\ at \in Nat
    /\ pending \in Seq(ChunkType) /\ Len(pending) <= 1
    /\ pendingTokens \in 0..Target
    /\ region \in [base : Nat, end : Nat]
    /\ chunks \in Seq(ChunkType)
    /\ capped \in 0..Len(chunks)
    /\ calls \in Seq([from : Nat, to : Nat, start : Nat,
                      depth : 1..RecursionLimit])
    /\ pieces \in Seq([from : Nat, to : Nat, start : Nat, end : Nat,
                       cut : BOOLEAN])

Holds(c, l) == c.from <= 2 * l - 1 /\ 2 * l - 1 < c.to

(* Whatever the route, every line with text on it reaches the index: none  *)
(* falls between two declarations, two windows, two sections or two halves *)
(* (ast_chunker._chunk_subtree, chunker.chunk_sliding and chunk_markdown,  *)
(* service._split_chunk_recursive).                                        *)
EveryLineIndexed ==
    phase = "done" =>
        \A l \in 1..file.lines : file.weight[l] > 0 =>
            \E i \in DOMAIN pieces : Holds(pieces[i], l)

(* The syntax-tree chunker indexes no text twice and keeps the order of    *)
(* the file, however declarations nest (ast_chunker._chunk_subtree).       *)
TextOnce ==
    mode = "ast" =>
        \A i, j \in DOMAIN chunks : i < j => chunks[i].to <= chunks[j].from

(* The lines stored with a piece, which a review cites, hold all of its    *)
(* text and no line without a part in it, through the shifts of            *)
(* chunk_markdown and of the halving.  The part may be a newline: a piece  *)
(* of a gap may begin with the one that ends the declaration before it,    *)
(* whose last line is then its first (ast_chunker.py:274), although        *)
(* specs/015-ast-chunker says that adjacent chunks never share start or    *)
(* end lines.  A declaration that ends with a newline may name the line    *)
(* after it.                                                               *)
LinesNameText ==
    \A i \in DOMAIN pieces :
        LET p == pieces[i] IN
        /\ \A l \in 1..file.lines : Holds(p, l) => l \in p.start..p.end
        /\ \A l \in p.start..p.end :
             Holds(p, l) \/ p.from = 2 * l \/ p.to = 2 * l - 1

(* "A chunk's lines are sliced into halves until each half fits the cap"   *)
(* (service.py:107).  They are, unless a chunk of several lines has one    *)
(* that is over the cap by itself: half of one line is that line, and      *)
(* _split_chunk_recursive calls itself until Python stops it.  Nothing     *)
(* else makes it do so.                                                    *)
HalvingEnds ==
    phase = "RecursionError" =>
        /\ calls # <<>>
        /\ \E l \in 1..file.lines :
              /\ file.weight[l] > Cap
              /\ Text(Head(calls).from, Head(calls).to) = {l}
=============================================================================
