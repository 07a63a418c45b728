---------------------------- MODULE MCFriendship ----------------------------
(***************************************************************************)
(* Friendship for TLC: an LPN with two groups, one more than it reports;   *)
(* m1 is for the LPN, the other messages for the group it reports.         *)
(***************************************************************************)
EXTENDS Friendship

CONSTANTS a, m1, first, second
MCGroupList == [l \in Lpn |-> <<first, second>>]
MCDst == [m \in Msgs |-> IF m = m1 THEN a ELSE first]
=============================================================================
