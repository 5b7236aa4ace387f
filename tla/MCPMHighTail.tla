---------------------------- MODULE MCPMHighTail ----------------------------
(* Small instances of PMHighTail for TLC.                                  *)
EXTENDS PMHighTail, TLC

CONSTANT MaxBlock   \* blocks 1 .. MaxBlock are built over the genesis 0

MCBlock == 0 .. MaxBlock

(* Replicas with the same role are interchangeable.                        *)
Voters == Running \ VoteDisabled
Sym == Permutations(Voters \cap Proposer) \cup Permutations(Voters \ Proposer)
=============================================================================
