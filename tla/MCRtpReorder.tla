----------------------------- MODULE MCRtpReorder -----------------------------
(* Instances of RtpReorder: sequence numbers wrap after a few rings. *)
EXTENDS RtpReorder, TLC

CONSTANTS p1, p2, bad
MCPayload == {p1, p2}
Symm == Permutations(MCPayload)
=============================================================================
