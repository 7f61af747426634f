------------------------------- MODULE MCAudio -------------------------------
(* Audio on a ring of a few cells. *)
EXTENDS Audio
=============================================================================
