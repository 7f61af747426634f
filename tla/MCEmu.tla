------------------------------- MODULE MCEmu -------------------------------
(* Emu on small instances. Contexts, and textures, are interchangeable. *)
EXTENDS Emu, TLC

Symmetry == Permutations(Ctx) \cup Permutations(Tex)

=============================================================================
