--------------------------- MODULE MCVerification ---------------------------
(* A small instance of Verification for TLC: a vote whose certificate is   *)
(* for another block, and blocks whose certificates are for genesis, good, *)
(* bad (the signature of one replica twice) and too small.                 *)
EXTENDS Verification, TLC

CONSTANTS r1, r2, w1, w2, a1, a2, a3

MCJob == {"stray", "first", "good", "bad", "small"}
MCVotes == {"stray"}
MCBlkHash == [j \in MCJob |-> 1]
MCObjHash == [j \in MCJob |-> CASE j = "stray" -> 2 [] j = "first" -> 0 [] OTHER -> 1]
MCSigs == [j \in MCJob |->
    CASE j = "stray" -> (r1 :> <<r1, 2>>)
      [] j = "first" -> <<>>
      [] j = "good" -> (r1 :> <<r1, 1>>) @@ (r2 :> <<r2, 1>>)
      [] j = "bad" -> (r1 :> <<r1, 1>>) @@ (r2 :> <<r1, 1>>)
      [] j = "small" -> (r2 :> <<r2, 1>>)]
=============================================================================
