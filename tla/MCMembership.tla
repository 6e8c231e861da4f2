---------------------------- MODULE MCMembership ----------------------------
(***************************************************************************)
(* Small workspaces for Membership.                                        *)
(***************************************************************************)
EXTENDS Membership, TLC

CONSTANTS u1, u2, u3

JustOne == {u1}
Two == {u1, u2}
Second == {u2}
Nobody == {}
OneInvited == {<<u1, u3>>}
Alike == Permutations(Clients)

=============================================================================
