------------------------- MODULE MCApprovalEngine --------------------------
(* Small instances of ApprovalEngine: approvers in order, of whom one may be an   *)
(* administrator, and an administrator who was not assigned.                      *)
EXTENDS ApprovalEngine, TLC

CONSTANTS ann, bob, eve, root, h1, h2

TwoApprovers == <<ann, bob>>
ThreeApprovers == <<ann, bob, eve>>
OneAdmin == {root}
TwoAdmins == {bob, root}
NoAdmin == {}
OneHandler == {h1}
TwoHandlers == {h1, h2}
Interchangeable == Permutations(Handlers)
=============================================================================
