---------------------------- MODULE MCBlockFetch ----------------------------
(* Small instances of BlockFetch for TLC.                                  *)
EXTENDS BlockFetch

CONSTANTS r1, r2, r3

Trio == {r1, r2, r3}

(* 0 - 1 - 2 and 1 - 3 - 4: the certificate in 3 is for 2, off its branch, *)
(* and that in 4 is bad.  r1 has it all, r2 one branch, r3 nothing.        *)
Fork == 0 .. 4
ForkParent == [b \in Fork |-> CASE b = 3 -> 1 [] b = 0 -> 0 [] OTHER -> b - 1]
ForkQcOf == [b \in Fork |-> CASE b = 3 -> 2 [] b = 0 -> 0 [] b = 4 -> 1 [] OTHER -> b - 1]
ForkProposer == [b \in Fork |-> IF b = 2 THEN r2 ELSE r1]
ForkHas == [r \in Trio |-> CASE r = r1 -> 0 .. 4 [] r = r2 -> 0 .. 2 [] r = r3 -> {0}]
ForkSent == {<<r1, r3, 4>>, <<r1, r2, 3>>, <<r2, r3, 2>>}

(* r3 lacks 0 - 1 - 2, which r1 proposed, and hears of it from r1 and r2.  *)
Tip == 0 .. 2
TipParent == [b \in Tip |-> IF b = 0 THEN 0 ELSE b - 1]
TipProposer == [b \in Tip |-> r1]
TipHas == [r \in Trio |-> IF r = r3 THEN {0} ELSE 0 .. 2]
TipSent == {<<r1, r3, 2>>, <<r2, r3, 2>>, <<r2, r3, 1>>}

(* One block that r2 proposed: r1, which may fail, votes for it, and both  *)
(* messages are on their way to r3.                                        *)
One == 0 .. 1
OneParent == [b \in One |-> 0]
OneProposer == [b \in One |-> r2]
OneHas == [r \in Trio |-> IF r = r3 THEN {0} ELSE {0, 1}]
OneSent == {<<r1, r3, 1>>, <<r2, r3, 1>>}
=============================================================================
