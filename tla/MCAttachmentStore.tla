-------------------------- MODULE MCAttachmentStore --------------------------
(***************************************************************************)
(* A few uploads, a grace of two or three ticks and a batch of one, so that *)
(* a run takes several batches and meets its ceiling.                       *)
(***************************************************************************)
EXTENDS AttachmentStore, TLC

\* The uploads are alike: nothing tells one file from another.
AlikeFiles == Permutations(Files)
=============================================================================
