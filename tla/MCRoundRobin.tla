---------------------------- MODULE MCRoundRobin ----------------------------
(* Small instances of PMRoundRobinProposer for TLC.                        *)
EXTENDS PMRoundRobinProposer
=============================================================================
