--------------------------- MODULE MCProfileEditor ---------------------------
(* ProfileEditor with one other goroutine and lists of up to two profiles. *)
(* No more than three arrays are in use at once: one is left to allocate.  *)
EXTENDS ProfileEditor

MCSymmetry == Permutations(Arrays) \cup Permutations(Texts) \cup Permutations(Languages)
=============================================================================
