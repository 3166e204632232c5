------------------------- MODULE MCIncidentApproval -------------------------
(* Small instances of IncidentApproval: costs below, above and far above   *)
(* the threshold.                                                          *)
EXTENDS IncidentApproval, TLC

Symmetry == Permutations(Requests) \cup Permutations(Approvals)
=============================================================================
