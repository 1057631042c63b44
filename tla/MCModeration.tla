----------------------------- MODULE MCModeration -----------------------------
(***************************************************************************)
(* Instances of Moderation for TLC.  Reviews and sessions are              *)
(* interchangeable.                                                        *)
(***************************************************************************)
EXTENDS Moderation, TLC

Permuted == Permutations(Reviews) \cup Permutations(Sessions)
=============================================================================
