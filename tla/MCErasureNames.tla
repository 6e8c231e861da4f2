---------------------------- MODULE MCErasureNames ----------------------------
(***************************************************************************)
(* Two erasures of a workspace that a third member owns, and a comment      *)
(* that mentions both.                                                      *)
(***************************************************************************)
EXTENDS Erasure

MCTwoNames == {<<[ids |-> {"p", "q"}, names |-> {"p", "q"}]>>}

=============================================================================
