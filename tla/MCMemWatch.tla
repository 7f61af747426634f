----------------------------- MODULE MCMemWatch -----------------------------
(* MemWatch on four pages. *)
EXTENDS MemWatch, TLC

Span(a, b) == [lo |-> a, hi |-> b]

(* Three textures share pages, a fourth one has its page to itself.  There are
   fewer watches than textures. *)
MCTextures == {Span(0, 0), Span(0, 1), Span(1, 2), Span(3, 3)}

\* Entries of the texture cache are interchangeable.
Symmetry == Permutations(Entries)

=============================================================================
