---------------------------- MODULE ReplicatedLog ----------------------------
(***************************************************************************)
(* What libhotstuff promises its application: every node hands on a log    *)
(* of distinct entries that it only ever extends, and no two nodes' logs   *)
(* ever disagree.                                                          *)
(***************************************************************************)
EXTENDS Naturals, Sequences

CONSTANTS Node, Entry

VARIABLE log    \* log[n]: the entries that node n has handed on, in order

Agree(s, t) == \A i \in 1 .. Len(s) : i =< Len(t) => s[i] = t[i]

Distinct(s) == \A i, j \in 1 .. Len(s) : s[i] = s[j] => i = j

Extends(t, s) == Len(s) =< Len(t) /\ Agree(s, t)

Init == log = [n \in Node |-> <<>>]

(* Node n hands on more entries, in agreement with every node's log.       *)
Grow(n) ==
    /\ log' \in [Node -> Seq(Entry)]
    /\ \A m \in Node \ {n} : log'[m] = log[m]
    /\ Extends(log'[n], log[n])
    /\ Distinct(log'[n])
    /\ \A m \in Node : Agree(log'[n], log[m])

Next == \E n \in Node : Grow(n)

Spec == Init /\ [][Next]_log
=============================================================================
