----------------------------- MODULE MCLiveSession -----------------------------
(* LiveSession for TLC: what is named in LiveSession.cfg is interchangeable. *)
EXTENDS LiveSession, TLC
Symmetry ==
    Permutations(Sessions) \cup Permutations(Recordings) \cup Permutations(Egresses)
================================================================================
