---------------------------- MODULE MCLRURecency ----------------------------
(***************************************************************************)
(* Instance of LRURecency for TLC.                                         *)
(***************************************************************************)
EXTENDS LRURecency, TLC

\* Every id exists in the store from the start; reading it may fail or not.
MCInit == RInit /\ backing \in [Key -> {Unread, Blank}]
MCSpec == MCInit /\ [][RNext]_rvars

KeySymmetry == Permutations(Key)
=============================================================================
