--------------------------- MODULE MCCampaignSend ----------------------------
(***************************************************************************)
(* Small instances of CampaignSend. Two attempts stand for the three of    *)
(* campaign and broadcast jobs; event broadcasts are added without options.*)
(***************************************************************************)
EXTENDS CampaignSend, TLC

CONSTANTS c1, c2, w1, w2

MCAttempts == [k \in Kind |-> IF k = "event" THEN 0 ELSE 2]

Symmetry == Permutations(Slot)
=============================================================================
