----------------------------- MODULE MCChunking -----------------------------
(***************************************************************************)
(* Chunking for TLC: every file of a few lines and every nesting of up to  *)
(* three declarations in it, with lines that are blank, short, over the    *)
(* target of the tree chunker, and over the cap.                           *)
(***************************************************************************)
EXTENDS Chunking

CONSTANTS MaxLines, Weights, MaxDecls

(* What a declaration over lines a..b spans; Markdown headings keep their  *)
(* newline, other declarations do not.                                     *)
Spans(n, newline) ==
    {[from |-> 2 * ab[1] - 1, to |-> 2 * ab[2] + newline] :
       ab \in {x \in (1..n) \X (1..n) : x[1] <= x[2]}}

Apart(d, e) == \/ d.to <= e.from \/ e.to <= d.from
               \/ (d.from <= e.from /\ e.to <= d.to)
               \/ (e.from <= d.from /\ d.to <= e.to)

Trees(n) == {D \in UNION {kSubset(k, Spans(n, 0)) : k \in 0..MaxDecls} :
               \A d, e \in D : Apart(d, e)}

(* A declaration begins and ends with text.                                *)
Fits(D, w) == \A d \in D : w[LineOf(d.from)] > 0 /\ w[LineOf(d.to - 1)] > 0

Code == {[lines |-> MaxLines, weight |-> w, decls |-> D, headings |-> {},
          language |-> "code"] :
           w \in [1..MaxLines -> Weights], D \in Trees(MaxLines)}

Markdown ==
    {[lines |-> MaxLines, weight |-> w, headings |-> H \ {1},
      decls |-> {[from |-> 2 * h - 1, to |-> 2 * h + 1] : h \in H},
      language |-> "markdown"] :
       w \in [1..MaxLines -> Weights], H \in SUBSET (1..MaxLines)}

Plain == {[lines |-> MaxLines + 1, weight |-> w, decls |-> {},
           headings |-> {}, language |-> "plain"] :
            w \in [1..(MaxLines + 1) -> Weights]}

MCFiles == {f \in Code \cup Markdown \cup Plain : Fits(f.decls, f.weight)}
=============================================================================
