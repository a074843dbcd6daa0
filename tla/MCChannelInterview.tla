------------------------- MODULE MCChannelInterview -------------------------
(* Instances of ChannelInterview for TLC. *)
EXTENDS ChannelInterview, TLC
CONSTANTS r1, r2, r3, e1, e2, i1, i2
Symmetric == Permutations(Requests) \cup Permutations(Events) \cup Permutations(Ids)
=============================================================================
