-------------------------- MODULE HotStuffCore_log --------------------------
(***************************************************************************)
(* What is delivered and what a replica does with it: the tails, the       *)
(* proposer's own votes, the locks under what has been executed, and the   *)
(* executed logs: agreement, and the core as an implementation of the      *)
(* replicated log.                                                         *)
(***************************************************************************)
EXTENDS HotStuffCore_safety

(* The blocks of D that no block of D has as its parent.                   *)
Leaves(D, par) == {b \in D : \A c \in D : c = b0 \/ par[c] # b}

(* D holds the branches of its blocks, T is its leaves and each of its     *)
(* blocks is on the branch of a leaf.                                      *)
Covers(D, T, par, br) ==
    /\ b0 \in D
    /\ \A b \in D : br[b] \subseteq D
    /\ T = Leaves(D, par)
    /\ \A b \in D : \E t \in T : b \in br[t]

(* What the handlers keep about deliveries.                                *)
DeliveryInv ==
    \A r \in Honest :
        /\ Covers(delivered[r], tails[r], parent, branch)
        /\ hqc[r] \in delivered[r]
        /\ votes[r] \subseteq delivered[r]

-----------------------------------------------------------------------------
(* Deliveries of whole branches.                                           *)

TailsWith(D, T, b) == IF b \in D THEN T ELSE (T \ branch[b]) \cup {b}

DeliverKeeps ==
    \A D \in SUBSET blocks, T \in SUBSET blocks, b \in blocks :
        Covers(D, T, parent, branch) =>
            Covers(D \cup branch[b], TailsWith(D, T, b), parent, branch)

(* Every block of a branch but the last is the parent of one in it.        *)
LEMMA ChildOnBranch ==
    ASSUME TreeType, TreeInv, NEW b \in blocks, NEW a \in branch[b], a # b
    PROVE  \E c \in branch[b] : c # b0 /\ parent[c] = a
<1>1. /\ height[a] \in Nat /\ height[b] \in Nat /\ height[a] < height[b] /\ a \in blocks
  BY TreeFacts
<1>2. height[a] + 1 \in 0 .. height[b]
  BY <1>1
<1>3. PICK c \in branch[b] : height[c] = height[a] + 1
  BY <1>2 DEF TreeInv, BranchInv
<1>4. c \in blocks /\ c # b0
  BY <1>1, <1>3, TreeFacts
<1>5. parent[c] \in branch[c] /\ height[c] = height[parent[c]] + 1
  BY <1>4, TreeFacts
<1>6. parent[c] \in branch[b] /\ parent[c] \in blocks /\ height[parent[c]] \in Nat
  BY <1>5, TreeFacts
<1>7. height[parent[c]] = height[a]
  BY <1>1, <1>3, <1>5, <1>6
<1>8. parent[c] = a
  BY <1>6, <1>7, TreeFacts
<1> QED BY <1>4, <1>8

(* on_deliver_blk for a block with its missing ancestors keeps the tails   *)
(* the leaves of what is delivered.                                        *)
LEMMA DeliverKeepsHolds == TreeType /\ TreeInv => DeliverKeeps
<1> SUFFICES ASSUME TreeType, TreeInv,
                    NEW D \in SUBSET blocks, NEW T \in SUBSET blocks, NEW b \in blocks,
                    Covers(D, T, parent, branch)
             PROVE  Covers(D \cup branch[b], TailsWith(D, T, b), parent, branch)
  BY DEF DeliverKeeps
<1>1. CASE b \in D
  <2>1. D \cup branch[b] = D
    BY <1>1 DEF Covers
  <2> QED BY <1>1, <2>1 DEF TailsWith
<1>2. CASE b \notin D
  <2> DEFINE E == D \cup branch[b]
             U == (T \ branch[b]) \cup {b}
  <2>1. /\ b \in branch[b] /\ b0 \in D /\ b # b0
        /\ \A a \in branch[b] : a \in blocks /\ branch[a] \subseteq branch[b]
    BY <1>2, TreeFacts DEF Covers
  <2>2. \A a \in E : branch[a] \subseteq E
    BY <2>1 DEF Covers
  <2>3. \A c \in blocks \ {b0} : parent[c] \in branch[c] /\ parent[c] # c
    <3> SUFFICES ASSUME NEW c \in blocks \ {b0} PROVE parent[c] \in branch[c] /\ parent[c] # c
      OBVIOUS
    <3>1. /\ parent[c] \in branch[c] /\ height[c] = height[parent[c]] + 1
          /\ height[c] \in Nat
      BY TreeFacts
    <3> QED BY <3>1
  <2>4. ASSUME NEW c \in E, c # b0 PROVE parent[c] # b
    <3>1. CASE c \in D
      <4>1. parent[c] \in D
        BY <2>3, <2>4, <3>1 DEF Covers
      <4> QED BY <4>1, <1>2
    <3>2. CASE c \in branch[b]
      <4>1. c \in blocks /\ parent[c] \in branch[c]
        BY <2>1, <2>3, <2>4, <3>2
      <4>2. height[c] =< height[b] /\ height[c] \in Nat /\ height[c] = height[parent[c]] + 1
            /\ height[b] \in Nat
        BY <2>4, <3>2, <4>1, TreeFacts
      <4> QED BY <4>2
    <3> QED BY <3>1, <3>2
  <2>5. U = Leaves(E, parent)
    <3>1. ASSUME NEW a \in U PROVE a \in Leaves(E, parent)
      <4>1. CASE a = b
        BY <4>1, <2>1, <2>4 DEF Leaves
      <4>2. CASE a # b
        <5>1. a \in D /\ a \notin branch[b] /\ \A c \in D : c = b0 \/ parent[c] # a
          BY <4>2, <3>1 DEF Covers, Leaves
        <5>2. \A c \in branch[b] : c = b0 \/ parent[c] # a
          BY <5>1, <2>1, <2>3
        <5> QED BY <5>1, <5>2 DEF Leaves
      <4> QED BY <4>1, <4>2
    <3>2. ASSUME NEW a \in Leaves(E, parent) PROVE a \in U
      <4>1. a \in E /\ \A c \in E : c = b0 \/ parent[c] # a
        BY <3>2 DEF Leaves
      <4>2. CASE a \in branch[b]
        <5>1. a = b
          BY <4>1, <4>2, ChildOnBranch
        <5> QED BY <5>1
      <4>3. CASE a \notin branch[b]
        BY <4>1, <4>3 DEF Covers, Leaves
      <4> QED BY <4>2, <4>3
    <3> QED BY <3>1, <3>2
  <2>6. ASSUME NEW a \in E PROVE \E t \in U : a \in branch[t]
    <3>1. CASE a \in branch[b]
      BY <3>1
    <3>2. CASE a \in D /\ a \notin branch[b]
      <4>1. PICK t \in T : a \in branch[t]
        BY <3>2 DEF Covers
      <4>2. t \notin branch[b]
        BY <3>2, <4>1, <2>1
      <4> QED BY <4>1, <4>2
    <3> QED BY <3>1, <3>2
  <2> QED BY <1>2, <2>1, <2>2, <2>5, <2>6 DEF Covers, TailsWith
<1> QED BY <1>1, <1>2

(* The same, of the state after a step.                                    *)
LEMMA DeliverKeepsPrime == TreeType' /\ TreeInv' => DeliverKeeps'
BY DeliverKeepsHolds, PTL

(* A new block anywhere in the tree changes nothing for who has it not.    *)
LEMMA CoversStay ==
    ASSUME TreeType, TreeInv, TreeStep,
           NEW D \in SUBSET blocks, NEW T, Covers(D, T, parent, branch)
    PROVE  Covers(D, T, parent', branch')
<1>1. \A b \in D : parent'[b] = parent[b] /\ branch'[b] = branch[b]
  BY TreeStable
<1>2. T = Leaves(D, parent')
  BY <1>1 DEF Covers, Leaves
<1>3. T \subseteq D
  BY DEF Covers, Leaves
<1> QED BY <1>1, <1>2, <1>3 DEF Covers

(* What a handler that delivers b, which is in the tree afterwards, does   *)
(* to deliveries and tails.                                                *)
LEMMA DeliverStep ==
    ASSUME TypeOK, TreeInv, TreeStep, DeliveryInv,
           NEW r \in Honest, NEW b \in blocks', Deliver(r, b, branch'[b])
    PROVE  /\ \A s \in Honest : /\ Covers(delivered'[s], tails'[s], parent', branch')
                                /\ delivered[s] \subseteq delivered'[s]
           /\ b \in delivered'[r]
<1>1. TreeType /\ TreeType' /\ TreeInv' /\ blocks \subseteq blocks'
  BY TypeTree, TreePreserved, TreeStable
<1>2. \A s \in Honest : /\ delivered[s] \in SUBSET blocks /\ tails[s] \in SUBSET blocks
                        /\ Covers(delivered[s], tails[s], parent', branch')
  BY <1>1, CoversStay DEF DeliveryInv, TypeOK
<1>3. /\ delivered' = [delivered EXCEPT ![r] = @ \cup branch'[b]]
      /\ tails' = [tails EXCEPT ![r] = IF b \in delivered[r] THEN @ ELSE (@ \ branch'[b]) \cup {b}]
  BY DEF Deliver
<1>4. DOMAIN delivered = Honest /\ DOMAIN tails = Honest
  BY DEF TypeOK
<1>5. /\ delivered'[r] = delivered[r] \cup branch'[b]
      /\ tails'[r] = IF b \in delivered[r] THEN tails[r] ELSE (tails[r] \ branch'[b]) \cup {b}
      /\ \A s \in Honest \ {r} : delivered'[s] = delivered[s] /\ tails'[s] = tails[s]
  BY <1>3, <1>4
<1>6. Covers(delivered'[r], tails'[r], parent', branch')
  <2>1. delivered[r] \in SUBSET blocks' /\ tails[r] \in SUBSET blocks'
    BY <1>1, <1>2
  <2>2. Covers(delivered[r], tails[r], parent', branch')
    BY <1>2
  <2>3. DeliverKeeps'
    BY <1>1, DeliverKeepsPrime
  <2>4. Covers(delivered[r] \cup branch'[b],
               IF b \in delivered[r] THEN tails[r] ELSE (tails[r] \ branch'[b]) \cup {b},
               parent', branch')
    BY <2>1, <2>2, <2>3 DEF DeliverKeeps, TailsWith
  <2> QED BY <2>4, <1>5
<1>7. b \in branch'[b]
  BY <1>1 DEF TreeInv, BranchInv
<1> QED BY <1>2, <1>5, <1>6, <1>7

-----------------------------------------------------------------------------
(* The handlers.                                                           *)

(* After a delivery of b at r the rest of the handler only has to keep hqc *)
(* and the votes within what is delivered.                                 *)
LEMMA DeliveryStep ==
    ASSUME TypeOK, TreeInv, TreeStep, DeliveryInv,
           NEW r \in Honest, NEW b \in blocks', Deliver(r, b, branch'[b]),
           NEW q, q \in branch'[b] \/ q = hqc[r],
           hqc' = [hqc EXCEPT ![r] = q],
           votes' = votes \/ votes' = [votes EXCEPT ![r] = @ \cup {b}]
    PROVE  DeliveryInv'
<1>1. /\ \A s \in Honest : /\ Covers(delivered'[s], tails'[s], parent', branch')
                           /\ delivered[s] \subseteq delivered'[s]
      /\ b \in delivered'[r]
  BY DeliverStep
<1>2. branch'[b] \subseteq delivered'[r]
  BY <1>1 DEF Covers
<1>3. \A s \in Honest : hqc[s] \in delivered[s] /\ votes[s] \subseteq delivered[s]
  BY DEF DeliveryInv
<1>4. ASSUME NEW s \in Honest PROVE hqc'[s] \in delivered'[s]
  <2>1. hqc'[s] = IF s = r THEN q ELSE hqc[s]
    BY DEF TypeOK
  <2> QED BY <2>1, <1>1, <1>2, <1>3
<1>5. ASSUME NEW s \in Honest PROVE votes'[s] \subseteq delivered'[s]
  <2>1. votes'[s] \subseteq votes[s] \cup (IF s = r THEN {b} ELSE {})
    BY DEF TypeOK
  <2> QED BY <2>1, <1>1, <1>3
<1> QED BY <1>1, <1>4, <1>5, Zenon DEF DeliveryInv

(* on_propose delivers the new block with the branch of its parent.        *)
LEMMA ProposeDelivers ==
    ASSUME TypeOK, TreeInv, NEW r \in Honest, NEW p \in blocks, on_propose(r, p)
    PROVE  /\ FreshBlk \in Block \ blocks /\ FreshBlk \in blocks'
           /\ branch'[FreshBlk] = branch[p] \cup {FreshBlk}
           /\ height'[FreshBlk] = height[p] + 1
           /\ Deliver(r, FreshBlk, branch'[FreshBlk])
<1>1. FreshBlk \in Block \ blocks
  BY Fresh DEF on_propose, Propose, TypeOK
<1>2. NewBlock(FreshBlk, p, hqc[r]) /\ Deliver(r, FreshBlk, branch[p] \cup {FreshBlk})
  BY DEF on_propose, Propose
<1>3. /\ branch'[FreshBlk] = branch[p] \cup {FreshBlk} /\ FreshBlk \in blocks'
      /\ height'[FreshBlk] = height[p] + 1
  BY <1>1, <1>2 DEF NewBlock, TypeOK
<1> QED BY <1>1, <1>2, <1>3

(* The two outcomes of on_propose: it throws, or broadcasts.               *)
Broadcast(r, p, opinion, votes_b) ==
    /\ opinion = Opinion(r, LockAfter(r, hqc[r]), height[p] + 1, hqc[r], branch[p] \cup {FreshBlk})
    /\ votes_b = IF opinion /\ r \notin VoteDisabled THEN {r} ELSE {}
    /\ ~TooLow(r, height[p] + 1)
    /\ vheight' = [vheight EXCEPT ![r] = IF opinion THEN height[p] + 1 ELSE @]
    /\ votes' = [votes EXCEPT ![r] = IF votes_b = {} THEN @ ELSE @ \cup {FreshBlk}]
    /\ hqc' = [hqc EXCEPT ![r] = IF Cardinality(votes_b) = nmajority THEN FreshBlk ELSE @]
    /\ proposals' = proposals \cup {<<r, FreshBlk>>}

LEMMA ProposeOutcomes ==
    ASSUME NEW r \in Honest, NEW p \in blocks, on_propose(r, p)
    PROVE  \/ UNCHANGED <<hqc, vheight, votes, proposals>>
           \/ \E opinion \in BOOLEAN : \E votes_b \in SUBSET {r} : Broadcast(r, p, opinion, votes_b)
<1> DEFINE op == Opinion(r, LockAfter(r, hqc[r]), height[p] + 1, hqc[r], branch[p] \cup {FreshBlk})
           vb == IF op /\ r \notin VoteDisabled THEN {r} ELSE {}
<1>1. op \in BOOLEAN /\ vb \in SUBSET {r}
  BY Zenon DEF Opinion
<1>2. UNCHANGED <<hqc, vheight, votes, proposals>> \/ Broadcast(r, p, op, vb)
  BY DEF on_propose, Propose, Broadcast
<1> QED BY <1>1, <1>2

(* Every handler keeps the tails the leaves of what is delivered, and hqc  *)
(* and the votes among the delivered blocks.                               *)
LEMMA DeliveryNext ==
    ASSUME TypeOK, TreeInv, DeliveryInv, [Next]_vars
    PROVE  DeliveryInv'
<1>1. TreeStep
  BY NextTree
<1>2. /\ TreeType /\ blocks \subseteq blocks'
      /\ \A b \in blocks : b \in blocks' /\ branch'[b] = branch[b]
  BY <1>1, TypeTree, TreeStable
<1>3. CASE UNCHANGED vars
  BY <1>3, Zenon DEF vars, DeliveryInv
<1>4. ASSUME NEW r \in Running, NEW b \in blocks, on_deliver_blk(r, b)
      PROVE  DeliveryInv'
  <2>1. r \in Honest /\ Deliver(r, b, branch'[b]) /\ UNCHANGED <<hqc, votes>>
    BY <1>2, <1>4 DEF on_deliver_blk, Running
  <2>2. hqc' = [hqc EXCEPT ![r] = hqc[r]]
    BY <2>1 DEF TypeOK
  <2> QED BY <1>1, <1>2, <2>1, <2>2, DeliveryStep
<1>5. ASSUME NEW r \in Running, NEW p \in blocks, on_propose(r, p)
      PROVE  DeliveryInv'
  <2>1. r \in Honest
    BY DEF Running
  <2>2. /\ FreshBlk \in blocks' /\ FreshBlk \in branch'[FreshBlk]
        /\ Deliver(r, FreshBlk, branch'[FreshBlk])
    BY <1>5, <2>1, ProposeDelivers
  <2>3. CASE UNCHANGED <<hqc, votes>>
    <3>1. hqc' = [hqc EXCEPT ![r] = hqc[r]]
      BY <2>3 DEF TypeOK
    <3> QED BY <1>1, <2>1, <2>2, <2>3, <3>1, DeliveryStep
  <2>4. ASSUME NEW opinion \in BOOLEAN, NEW votes_b \in SUBSET {r},
               Broadcast(r, p, opinion, votes_b)
        PROVE  DeliveryInv'
    <3>1. votes' = votes \/ votes' = [votes EXCEPT ![r] = @ \cup {FreshBlk}]
      BY <2>4 DEF Broadcast, TypeOK
    <3> DEFINE q == IF Cardinality(votes_b) = nmajority THEN FreshBlk ELSE hqc[r]
    <3>2. hqc' = [hqc EXCEPT ![r] = q] /\ (q \in branch'[FreshBlk] \/ q = hqc[r])
      BY <2>2, <2>4 DEF Broadcast
    <3> HIDE DEF q
    <3> QED BY <1>1, <2>1, <2>2, <3>1, <3>2, DeliveryStep
  <2> QED BY <1>5, <2>1, <2>3, <2>4, ProposeOutcomes
<1>6. ASSUME NEW r \in Running, NEW z \in Replica, NEW b \in blocks,
             on_receive_proposal(r, z, b)
      PROVE  DeliveryInv'
  <2>1. /\ r \in Honest /\ Deliver(r, b, branch'[b])
        /\ hqc' = [hqc EXCEPT ![r] = HqcAfter(r, qc_ref[b])]
    BY <1>2, <1>6 DEF on_receive_proposal, propose_handler, Running
  <2>2. HqcAfter(r, qc_ref[b]) \in branch'[b] \/ HqcAfter(r, qc_ref[b]) = hqc[r]
    BY <1>2, TreeFacts DEF HqcAfter
  <2>3. votes' = votes \/ votes' = [votes EXCEPT ![r] = @ \cup {b}]
    BY <1>6 DEF on_receive_proposal, TypeOK
  <2> QED BY <1>1, <1>2, <2>1, <2>2, <2>3, DeliveryStep
<1>7. ASSUME NEW r \in Running, NEW v \in Replica, NEW b \in blocks,
             on_receive_vote(r, v, b)
      PROVE  DeliveryInv'
  <2> DEFINE q == IF Completes(r, b) /\ height[b] > height[hqc[r]] THEN b ELSE hqc[r]
  <2>1. /\ r \in Honest /\ Deliver(r, b, branch'[b])
        /\ hqc' = [hqc EXCEPT ![r] = q] /\ votes' = votes
    BY <1>2, <1>7 DEF on_receive_vote, vote_handler, Running
  <2>2. q \in branch'[b] \/ q = hqc[r]
    BY <1>2, TreeFacts
  <2> HIDE DEF q
  <2> QED BY <1>1, <1>2, <2>1, <2>2, DeliveryStep
<1>8. ASSUME NEW z \in Byzantine, NEW p \in blocks, NEW q \in blocks,
             ByzantinePropose(z, p, q)
      PROVE  DeliveryInv'
  <2>1. UNCHANGED <<delivered, tails, hqc, votes>>
    BY <1>8 DEF ByzantinePropose
  <2>2. \A s \in Honest : Covers(delivered[s], tails[s], parent', branch')
    <3>1. \A s \in Honest : delivered[s] \in SUBSET blocks
      BY DEF TypeOK
    <3> QED BY <1>1, <1>2, <3>1, CoversStay DEF DeliveryInv
  <2> QED BY <2>1, <2>2 DEF DeliveryInv
<1> QED BY <1>3, <1>4, <1>5, <1>6, <1>7, <1>8 DEF Next

LEMMA DeliveryInit == Init => DeliveryInv
<1> SUFFICES ASSUME Init, NEW r \in Honest
             PROVE  /\ Covers(delivered[r], tails[r], parent, branch)
                    /\ hqc[r] \in delivered[r]
                    /\ votes[r] \subseteq delivered[r]
  BY DEF DeliveryInv
<1>1. /\ delivered[r] = {b0} /\ tails[r] = {b0} /\ hqc[r] = b0 /\ votes[r] = {}
      /\ branch[b0] = {b0}
  BY BlockAssumption DEF Init
<1> QED BY <1>1 DEF Covers, Leaves

(* The deliveries stay in order in every reachable state.                  *)
LEMMA DeliveryInvariance == Spec => []DeliveryInv
<1>1. TypeOK /\ TreeInv /\ DeliveryInv /\ [Next]_vars => DeliveryInv'
  BY DeliveryNext
<1> QED BY <1>1, DeliveryInit, TypeCorrect, PTL DEF Spec

-----------------------------------------------------------------------------
(* The proposer's own vote.                                                *)

(* A block over hqc satisfies the voting rule of its proposer, with the    *)
(* lock that its certificate has just raised: the lock is lower than hqc,  *)
(* or it is hqc, as there is one certificate per height.                   *)
LEMMA OwnRule ==
    ASSUME Inv, NEW r \in Honest, NEW p \in blocks, hqc[r] \in branch[p],
           ~TooLow(r, height[p] + 1)
    PROVE  Opinion(r, LockAfter(r, hqc[r]), height[p] + 1, hqc[r], branch[p] \cup {FreshBlk})
<1> DEFINE q == hqc[r]
           lock == LockAfter(r, q)
<1>1. /\ q \in blocks /\ height[q] \in Nat /\ b_lock[r] \in blocks /\ height[b_lock[r]] \in Nat
      /\ height[p] + 1 \in Nat /\ vheight[r] \in Nat
  <2>1. /\ blocks \in SUBSET Block /\ height \in [Block -> Nat] /\ vheight \in [Honest -> Nat]
        /\ hqc \in [Honest -> blocks] /\ b_lock \in [Honest -> blocks]
    BY DEF Inv, TypeOK
  <2> QED BY <2>1
<1>2. height[p] + 1 > vheight[r]
  BY <1>1 DEF TooLow
<1>3. height[q] > height[lock] \/ lock \in branch[p]
  <2>1. CASE lock = b_lock[r]
    <3>1. Certified(q) /\ Certified(b_lock[r]) /\ height[b_lock[r]] =< height[q]
      BY DEF Inv, VotingInv, HqcCertified, LockCertified, LockBelowHqc
    <3>2. height[b_lock[r]] = height[q] => b_lock[r] = q
      BY <1>1, <3>1, OneCert DEF Inv, VotingInv, OneCertPerHeight
    <3> QED BY <1>1, <2>1, <3>1, <3>2
  <2>2. CASE lock = LockTarget(q)
    <3>1. lock \in branch[q]
      BY <1>1, <2>2, TypeTree, TargetFacts DEF Inv
    <3>2. branch[q] \subseteq branch[p]
      BY TypeTree, TreeFacts DEF Inv
    <3> QED BY <3>1, <3>2
  <2> QED BY <2>1, <2>2 DEF LockAfter
<1> QED BY <1>2, <1>3 DEF Opinion

(* A vote raises vheight and adds to the votes.                            *)
LEMMA Grows ==
    ASSUME TypeOK, NEW r \in Honest, NEW s \in Honest, NEW h \in Nat, vheight[s] < h,
           vheight' = [vheight EXCEPT ![s] = h],
           NEW w, votes' = votes \/ votes' = [votes EXCEPT ![s] = @ \cup {w}]
    PROVE  vheight[r] =< vheight'[r] /\ votes[r] \subseteq votes'[r]
<1>1. vheight \in [Honest -> Nat] /\ votes \in [Honest -> SUBSET blocks]
  BY DEF TypeOK
<1>2. vheight[r] =< vheight'[r]
  BY <1>1
<1>3. votes[r] \subseteq votes'[r]
  BY <1>1
<1> QED BY <1>2, <1>3

(* Only on_propose adds a proposal of a correct replica; vheight and the   *)
(* votes only grow.                                                        *)
LEMMA AcceptsNext ==
    ASSUME Inv, ProposerAccepts, [Next]_vars
    PROVE  ProposerAccepts'
<1> SUFFICES ASSUME NEW r \in Honest, NEW b \in blocks', <<r, b>> \in proposals'
             PROVE  /\ height'[b] =< vheight'[r]
                    /\ r \in VoteDisabled \/ b \in votes'[r]
  BY DEF ProposerAccepts
<1>1. TypeOK /\ TreeInv /\ TypeOK' /\ TreeType
  BY TypeStep, TypeTree DEF Inv
<1>2. ASSUME <<r, b>> \in proposals, vheight[r] =< vheight'[r], votes[r] \subseteq votes'[r]
      PROVE  /\ height'[b] =< vheight'[r]
             /\ r \in VoteDisabled \/ b \in votes'[r]
  <2>1. b \in blocks
    BY <1>1, <1>2 DEF TypeOK
  <2>2. height'[b] = height[b] /\ height[b] \in Nat /\ vheight[r] \in Nat /\ vheight'[r] \in Nat
    BY <1>1, <2>1, NextTree, TreeStable DEF TypeOK
  <2>3. height[b] =< vheight[r] /\ (r \in VoteDisabled \/ b \in votes[r])
    BY <1>2, <2>1 DEF ProposerAccepts
  <2> QED BY <1>2, <2>2, <2>3
<1>3. vheight[r] \in Nat
  BY <1>1 DEF TypeOK
<1>4. CASE UNCHANGED <<vheight, votes>> /\ UNCHANGED proposals
  BY <1>2, <1>3, <1>4
<1>5. ASSUME NEW s \in Running, NEW p \in blocks, on_propose(s, p)
      PROVE  /\ height'[b] =< vheight'[r]
             /\ r \in VoteDisabled \/ b \in votes'[r]
  <2>1. s \in Honest
    BY DEF Running
  <2>3. CASE UNCHANGED <<hqc, vheight, votes, proposals>>
    BY <1>4, <2>3
  <2>4. ASSUME NEW opinion \in BOOLEAN, NEW votes_b \in SUBSET {s},
               Broadcast(s, p, opinion, votes_b)
        PROVE  /\ height'[b] =< vheight'[r]
               /\ r \in VoteDisabled \/ b \in votes'[r]
    <3>1. ~TooLow(s, height[p] + 1) /\ hqc[s] \in branch[p]
      BY <1>5, <2>4 DEF Broadcast, on_propose
    <3>2. opinion
      BY <2>1, <2>4, <3>1, OwnRule DEF Broadcast
    <3>3. /\ vheight' = [vheight EXCEPT ![s] = height[p] + 1]
          /\ votes' = votes \/ votes' = [votes EXCEPT ![s] = @ \cup {FreshBlk}]
          /\ s \in VoteDisabled \/ votes' = [votes EXCEPT ![s] = @ \cup {FreshBlk}]
          /\ proposals' = proposals \cup {<<s, FreshBlk>>}
      <4>1. CASE s \in VoteDisabled
        <5>1. votes_b = {} /\ votes' = [votes EXCEPT ![s] = @]
          BY <2>4, <4>1 DEF Broadcast
        <5>2. votes \in [Honest -> SUBSET blocks]
          BY <1>1 DEF TypeOK
        <5>3. votes' = votes
          BY <5>1, <5>2
        <5> QED BY <2>4, <3>2, <4>1, <5>3 DEF Broadcast
      <4>2. CASE s \notin VoteDisabled
        <5>1. votes_b = {s}
          BY <2>4, <3>2, <4>2 DEF Broadcast
        <5>2. votes' = [votes EXCEPT ![s] = @ \cup {FreshBlk}]
          BY <2>4, <5>1 DEF Broadcast
        <5> QED BY <2>4, <3>2, <5>2 DEF Broadcast
      <4> QED BY <4>1, <4>2
    <3>4. height[p] + 1 \in Nat /\ vheight[s] \in Nat /\ vheight[s] < height[p] + 1
      <4>1. blocks \in SUBSET Block /\ height \in [Block -> Nat] /\ vheight \in [Honest -> Nat]
        BY <1>1 DEF TypeOK
      <4> QED BY <2>1, <3>1, <4>1 DEF TooLow
    <3>5. vheight[r] =< vheight'[r] /\ votes[r] \subseteq votes'[r]
      BY <1>1, <2>1, <3>3, <3>4, Grows
    <3>6. CASE <<r, b>> \in proposals
      BY <1>2, <3>5, <3>6
    <3>7. CASE r = s /\ b = FreshBlk
      <4>1. height'[b] = height[p] + 1
        BY <1>1, <1>5, <2>1, <3>7, ProposeDelivers
      <4>2. vheight'[r] = height[p] + 1 /\ (r \in VoteDisabled \/ b \in votes'[r])
        BY <1>1, <3>3, <3>7 DEF TypeOK
      <4> QED BY <3>4, <4>1, <4>2
    <3> QED BY <3>3, <3>6, <3>7
  <2> QED BY <1>5, <2>1, <2>3, <2>4, ProposeOutcomes
<1>6. ASSUME NEW s \in Running, NEW z \in Replica, NEW w \in blocks,
             on_receive_proposal(s, z, w)
      PROVE  /\ height'[b] =< vheight'[r]
             /\ r \in VoteDisabled \/ b \in votes'[r]
  <2>1. proposals' = proposals
    BY <1>6 DEF on_receive_proposal
  <2>2. \/ UNCHANGED <<vheight, votes>>
        \/ /\ vheight' = [vheight EXCEPT ![s] = height[w]] /\ height[w] > vheight[s]
           /\ votes' = votes \/ votes' = [votes EXCEPT ![s] = @ \cup {w}]
    BY <1>1, <1>6 DEF on_receive_proposal, Opinion, TypeOK
  <2>3. vheight[r] =< vheight'[r] /\ votes[r] \subseteq votes'[r]
    <3>1. height[w] \in Nat /\ s \in Honest
      BY <1>1 DEF TypeOK, Running
    <3> QED BY <1>1, <1>3, <2>2, <3>1, Grows
  <2> QED BY <1>2, <2>1, <2>3
<1>7. ASSUME NEW z \in Byzantine, NEW p \in blocks, NEW q \in blocks,
             ByzantinePropose(z, p, q)
      PROVE  /\ height'[b] =< vheight'[r]
             /\ r \in VoteDisabled \/ b \in votes'[r]
  <2>1. <<r, b>> \in proposals /\ UNCHANGED <<vheight, votes>>
    BY <1>7 DEF ByzantinePropose, Honest
  <2> QED BY <1>2, <1>3, <2>1
<1>8. CASE \/ UNCHANGED vars
           \/ \E s \in Running, w \in blocks : on_deliver_blk(s, w)
           \/ \E s \in Running, v \in Replica, w \in blocks : on_receive_vote(s, v, w)
  BY <1>4, <1>8 DEF vars, on_deliver_blk, on_receive_vote
<1> QED BY <1>5, <1>6, <1>7, <1>8 DEF Next

-----------------------------------------------------------------------------
(* The locks under an executed block.                                      *)

(* Those who signed the certificate that committed b_exec have been locked *)
(* at or above it since they voted.                                        *)
LEMMA Locked == Inv => ExecutedIsLocked
<1> SUFFICES ASSUME Inv, NEW r \in Honest, b_exec[r] # b0
             PROVE  Cardinality({s \in Honest : height[b_lock[s]] >= height[b_exec[r]]})
                        >= nmajority - Cardinality(Byzantine)
  BY DEF ExecutedIsLocked
<1> DEFINE L == {s \in Honest : height[b_lock[s]] >= height[b_exec[r]]}
<1>1. PICK q \in blocks : Certified(q) /\ CommitTarget(q) = b_exec[r]
  BY DEF Inv, DecisionInv, ExecChain
<1>2. q # b0
  BY <1>1 DEF Inv, CommitTarget, LockTarget, TreeInv, GenesisInv
<1>3. Cardinality(Signers(q)) >= nmajority
  BY <1>1, <1>2 DEF Certified
<1>4. ASSUME NEW s \in Honest, q \in votes[s] PROVE s \in L
  <2>1. height[CommitTarget(q)] =< height[b_lock[s]]
    BY <1>4 DEF Inv, VotingInv, VoteLocks
  <2>2. height[CommitTarget(q)] \in Nat /\ height[b_lock[s]] \in Nat
    BY TypeTree, TargetFacts DEF Inv, TypeOK
  <2> QED BY <1>1, <2>1, <2>2
<1>5. Signers(q) \subseteq Byzantine \cup L
  BY <1>4 DEF Signers
<1>6. IsFiniteSet(Byzantine) /\ IsFiniteSet(L) /\ IsFiniteSet(Byzantine \cup L)
  BY Sizes, FS_Subset, FS_Union
<1>7. Cardinality(Signers(q)) =< Cardinality(Byzantine \cup L)
  BY <1>5, <1>6, FS_Subset
<1>8. Cardinality(Byzantine \cup L)
        = Cardinality(Byzantine) + Cardinality(L) - Cardinality(Byzantine \cap L)
  BY <1>6, FS_Union
<1>9. IsFiniteSet(Byzantine \cap L)
  BY <1>6, FS_Intersection
<1>10. /\ Cardinality(Signers(q)) \in Nat /\ Cardinality(Byzantine \cup L) \in Nat
       /\ Cardinality(L) \in Nat /\ Cardinality(Byzantine \cap L) \in Nat
       /\ Cardinality(Byzantine) \in Nat /\ nmajority \in Nat
  BY <1>6, <1>9, SignersFacts, Sizes, FS_CardinalityType
<1> HIDE DEF L
<1>11. Cardinality(L) >= nmajority - Cardinality(Byzantine)
  BY <1>3, <1>7, <1>8, <1>10
<1> QED BY <1>11 DEF L

-----------------------------------------------------------------------------
(* The results.                                                            *)

(* tails are the delivered blocks without a delivered child, whatever the  *)
(* order and the pieces in which async_deliver_blk delivers.               *)
THEOREM TailsCorrect == Spec => []TailsAreLeaves
<1>1. DeliveryInv => TailsAreLeaves
  BY DEF DeliveryInv, Covers, Leaves, TailsAreLeaves
<1> QED BY <1>1, DeliveryInvariance, PTL

(* What on_propose broadcasts has passed the proposer's own voting rule.   *)
THEOREM ProposersAccept == Spec => []ProposerAccepts
<1>1. Init => ProposerAccepts
  BY DEF Init, ProposerAccepts
<1>2. Inv /\ ProposerAccepts /\ [Next]_vars => ProposerAccepts'
  BY AcceptsNext
<1> QED BY <1>1, <1>2, Invariance, PTL DEF Spec

(* Enough correct replicas are locked at or above every executed block:    *)
(* every later quorum meets one of them.                                   *)
THEOREM ExecutedAreLocked == Spec => []ExecutedIsLocked
BY Locked, Invariance, PTL

-----------------------------------------------------------------------------
(* The executed logs.                                                      *)

(* The log of a replica is the branch of its b_exec, in order of height.   *)
LogInv ==
    \A r \in Honest :
        /\ Len(executed[r]) = height[b_exec[r]]
        /\ \A i \in 1 .. Len(executed[r]) :
              /\ executed[r][i] \in branch[b_exec[r]]
              /\ height[executed[r][i]] = i

(* The blocks that the commit walk from c appends.                         *)
LEMMA CommitQueueFacts ==
    ASSUME TypeOK, TreeInv, NEW r \in Honest, NEW c \in blocks,
           b_exec[r] \in branch[c]
    PROVE  LET n == height[c] - height[b_exec[r]]
           IN /\ n \in Nat
              /\ CommitQueue(r, c) \in Seq(blocks)
              /\ Len(CommitQueue(r, c)) = n
              /\ \A i \in 1 .. n :
                    /\ CommitQueue(r, c)[i] \in branch[c]
                    /\ height[CommitQueue(r, c)[i]] = height[b_exec[r]] + i
<1> DEFINE e == b_exec[r]
           n == height[c] - height[e]
           g(i) == AncestorAt(c, height[e] + i)
<1>1. /\ height[c] \in Nat /\ height[e] \in Nat /\ height[e] =< height[c]
  BY TypeTree, TreeFacts
<1>2. n \in Nat
  BY <1>1
<1>3. ASSUME NEW i \in 1 .. n
      PROVE  g(i) \in branch[c] /\ height[g(i)] = height[e] + i
  <2>1. height[e] + i \in 0 .. height[c]
    BY <1>1
  <2> QED BY <2>1, AncestorFacts, TypeTree
<1>4. CommitQueue(r, c) \in Seq(blocks)
  BY CommitQueueType
<1>5. CommitQueue(r, c) = [i \in 1 .. n |-> g(i)]
  BY DEF CommitQueue
<1> HIDE DEF n, g
<1>6. Len(CommitQueue(r, c)) = n
  BY <1>2, <1>4, <1>5
<1>7. \A i \in 1 .. n : CommitQueue(r, c)[i] = g(i)
  BY <1>5
<1> QED BY <1>2, <1>3, <1>4, <1>6, <1>7 DEF n, g

(* update() appends to the log of its replica what makes it the branch of  *)
(* the new b_exec.                                                         *)
LEMMA UpdateLog ==
    ASSUME Inv, LogInv, NEW r \in Honest, NEW q \in blocks, update(r, q),
           NEW s \in Honest
    PROVE  /\ b_exec'[s] \in blocks /\ executed'[s] \in Seq(blocks)
           /\ Len(executed'[s]) = height[b_exec'[s]]
           /\ \A i \in 1 .. Len(executed'[s]) :
                 /\ executed'[s][i] \in branch[b_exec'[s]]
                 /\ height[executed'[s][i]] = i
           /\ s # r => executed'[s] = executed[s]
           /\ Len(executed[s]) =< Len(executed'[s])
           /\ \A i \in 1 .. Len(executed[s]) : executed'[s][i] = executed[s][i]
<1>0. /\ TypeOK /\ TreeInv
      /\ executed \in [Honest -> Seq(blocks)] /\ b_exec \in [Honest -> blocks]
      /\ executed[s] \in Seq(blocks) /\ height[b_exec[s]] \in Nat
  BY DEF Inv, TypeOK
<1>1. /\ Len(executed[s]) = height[b_exec[s]]
      /\ \A i \in 1 .. Len(executed[s]) :
            executed[s][i] \in branch[b_exec[s]] /\ height[executed[s][i]] = i
  BY DEF LogInv
<1>2. CASE s # r \/ UNCHANGED <<decision, executed, b_exec>>
  <2>1. executed'[s] = executed[s] /\ b_exec'[s] = b_exec[s]
    BY <1>0, <1>2 DEF update, Commit
  <2> QED BY <2>1, <1>0, <1>1
<1>3. CASE s = r /\ ~UNCHANGED <<decision, executed, b_exec>>
  <2> DEFINE c == CommitTarget(q)
             e == b_exec[r]
             n == height[c] - height[e]
             cq == CommitQueue(r, c)
             ex == executed[r]
  <2>1. e \in branch[c] /\ Commit(r, c)
    BY <1>3 DEF update, Breached
  <2>2. c \in blocks /\ e \in blocks /\ height[c] \in Nat /\ height[e] \in Nat
    BY <1>0, TypeTree, TargetFacts DEF TypeOK
  <2>3. /\ n \in Nat /\ cq \in Seq(blocks) /\ Len(cq) = n
        /\ \A i \in 1 .. n : cq[i] \in branch[c] /\ height[cq[i]] = height[e] + i
    BY <1>0, <2>1, <2>2, CommitQueueFacts
  <2>4. executed'[s] = ex \o cq /\ b_exec'[s] = c
    BY <1>0, <1>3, <2>1 DEF Commit, ExecAfter
  <2>5. branch[e] \subseteq branch[c]
    BY <1>0, <2>1, <2>2, TypeTree, TreeFacts
  <2>6. /\ Len(ex) = height[e] /\ ex \in Seq(blocks)
        /\ \A i \in 1 .. Len(ex) : ex[i] \in branch[e] /\ height[ex[i]] = i
    BY <1>0, <1>1, <1>3
  <2> HIDE DEF c, e, cq, ex
  <2>7. /\ ex \o cq \in Seq(blocks)
        /\ Len(ex \o cq) = Len(ex) + Len(cq)
        /\ \A i \in 1 .. Len(ex) + Len(cq) :
              (ex \o cq)[i] = IF i =< Len(ex) THEN ex[i] ELSE cq[i - Len(ex)]
    BY <2>3, <2>6, ConcatProperties
  <2>8. Len(ex \o cq) = height[c]
    BY <2>2, <2>3, <2>6, <2>7
  <2>9. ASSUME NEW i \in 1 .. Len(ex \o cq)
        PROVE  (ex \o cq)[i] \in branch[c] /\ height[(ex \o cq)[i]] = i
    <3>1. CASE i =< Len(ex)
      <4>1. (ex \o cq)[i] = ex[i] /\ i \in 1 .. Len(ex)
        BY <3>1, <2>7, <2>6, <2>2
      <4> QED BY <4>1, <2>5, <2>6
    <3>2. CASE ~(i =< Len(ex))
      <4>1. (ex \o cq)[i] = cq[i - Len(ex)] /\ i - Len(ex) \in 1 .. n
        BY <3>2, <2>7, <2>6, <2>3, <2>2
      <4>2. height[e] + (i - Len(ex)) = i
        BY <2>2, <2>6
      <4> QED BY <4>1, <4>2, <2>3
    <3> QED BY <3>1, <3>2
  <2>10. /\ Len(ex) =< Len(ex \o cq)
         /\ \A i \in 1 .. Len(ex) : (ex \o cq)[i] = ex[i]
    BY <2>2, <2>3, <2>6, <2>7
  <2>11. ex = executed[s]
    BY <1>3 DEF ex
  <2> QED BY <2>2, <2>4, <2>7, <2>8, <2>9, <2>10, <2>11, <1>3
<1> QED BY <1>2, <1>3

(* Only update() changes b_exec and the logs.                              *)
LEMMA NextExec ==
    ASSUME Inv, [Next]_vars
    PROVE  \/ UNCHANGED <<executed, b_exec>>
           \/ \E r \in Honest : \E q \in blocks : update(r, q)
<1>1. CASE UNCHANGED vars
  BY <1>1 DEF vars
<1>2. ASSUME NEW r \in Running, NEW b \in blocks, on_deliver_blk(r, b)
      PROVE  UNCHANGED <<executed, b_exec>>
  BY <1>2 DEF on_deliver_blk
<1>3. ASSUME NEW r \in Running, NEW p \in blocks, on_propose(r, p)
      PROVE  \E s \in Honest : \E q \in blocks : update(s, q)
  <2>1. r \in Honest /\ hqc[r] \in blocks
    BY DEF Running, Inv, TypeOK
  <2> QED BY <1>3, <2>1 DEF on_propose, Propose
<1>4. ASSUME NEW r \in Running, NEW z \in Replica, NEW b \in blocks,
             on_receive_proposal(r, z, b)
      PROVE  \E s \in Honest : \E q \in blocks : update(s, q)
  <2>1. r \in Honest /\ qc_ref[b] \in blocks
    BY DEF Running, Inv, TypeOK
  <2> QED BY <1>4, <2>1 DEF on_receive_proposal
<1>5. ASSUME NEW r \in Running, NEW v \in Replica, NEW b \in blocks,
             on_receive_vote(r, v, b)
      PROVE  UNCHANGED <<executed, b_exec>>
  BY <1>5 DEF on_receive_vote
<1>6. ASSUME NEW z \in Byzantine, NEW p \in blocks, NEW q \in blocks,
             ByzantinePropose(z, p, q)
      PROVE  UNCHANGED <<executed, b_exec>>
  BY <1>6 DEF ByzantinePropose
<1> QED BY <1>1, <1>2, <1>3, <1>4, <1>5, <1>6 DEF Next

(* Every step keeps the log of each replica equal to the branch of its     *)
(* b_exec.                                                                 *)
LEMMA LogStep ==
    ASSUME Inv, LogInv, [Next]_vars
    PROVE  LogInv'
<1>0. TypeOK /\ TreeInv /\ TreeType /\ TreeStep
  BY NextTree, TypeTree DEF Inv
<1> SUFFICES ASSUME NEW s \in Honest
             PROVE  /\ Len(executed'[s]) = height'[b_exec'[s]]
                    /\ \A i \in 1 .. Len(executed'[s]) :
                          /\ executed'[s][i] \in branch'[b_exec'[s]]
                          /\ height'[executed'[s][i]] = i
  BY DEF LogInv
<1>1. /\ b_exec'[s] \in blocks
      /\ Len(executed'[s]) = height[b_exec'[s]]
      /\ \A i \in 1 .. Len(executed'[s]) :
            executed'[s][i] \in branch[b_exec'[s]] /\ height[executed'[s][i]] = i
  <2>1. CASE UNCHANGED <<executed, b_exec>>
    BY <2>1, <1>0 DEF LogInv, TypeOK
  <2>2. CASE \E r \in Honest : \E q \in blocks : update(r, q)
    BY <2>2, UpdateLog
  <2> QED BY <2>1, <2>2, NextExec
<1>2. height'[b_exec'[s]] = height[b_exec'[s]] /\ branch'[b_exec'[s]] = branch[b_exec'[s]]
  BY <1>0, <1>1, TreeStable
<1>3. \A a \in branch[b_exec'[s]] : height'[a] = height[a]
  BY <1>0, <1>1, TreeStable, TreeFacts
<1> QED BY <1>1, <1>2, <1>3

(* on_init leaves empty logs and b_exec at the genesis block.              *)
LEMMA InitLog == Init => LogInv
<1> SUFFICES ASSUME Init, NEW r \in Honest
             PROVE  executed[r] = <<>> /\ height[b_exec[r]] = 0
  BY DEF LogInv
<1> QED BY BlockAssumption DEF Init

(* The log invariant holds in every behaviour.                             *)
LEMMA LogInvariance == Spec => [](Inv /\ LogInv)
<1>1. Init => Inv /\ LogInv
  BY InitInv, InitLog
<1>2. Inv /\ LogInv /\ [Next]_vars => Inv' /\ LogInv'
  BY NextInv, LogStep
<1> QED BY <1>1, <1>2, PTL DEF Spec

(* Each replica's log is the branch of its b_exec in order of height, and  *)
(* its decided blocks are that branch.                                     *)
THEOREM DecidedAreExecuted == Spec => []DecidedIsExecuted
<1>1. Inv /\ LogInv => DecidedIsExecuted
  BY DEF Inv, DecisionInv, DecidedIsBranch, LogInv, DecidedIsExecuted
<1> QED BY <1>1, LogInvariance, PTL

(* Of two values of b_exec, the lower one is on the branch of the higher.  *)
LEMMA ExecOrdered ==
    ASSUME Inv, NEW r \in Honest, NEW s \in Honest,
           height[b_exec[r]] =< height[b_exec[s]]
    PROVE  b_exec[r] \in branch[b_exec[s]]
<1>0. /\ TypeOK /\ TreeInv /\ b_exec[r] \in blocks /\ b_exec[s] \in blocks
      /\ height[b_exec[r]] \in Nat /\ height[b_exec[s]] \in Nat
  BY DEF Inv, TypeOK
<1>1. CASE b_exec[r] = b0
  BY <1>0, <1>1, TypeTree, TreeFacts
<1>2. CASE b_exec[r] # b0
  <2>1. PICK q \in blocks : Certified(q) /\ DirectChain(q) /\ CommitTarget(q) = b_exec[r]
    BY <1>2 DEF Inv, DecisionInv, ExecChain
  <2>2. Certified(b_exec[s])
    <3>1. CASE b_exec[s] = b0
      BY <3>1 DEF Certified
    <3>2. CASE b_exec[s] # b0
      <4>1. PICK d \in blocks : CommitTarget(d) = b_exec[s]
        BY <3>2 DEF Inv, DecisionInv, ExecChain
      <4>2. LockTarget(d) \in blocks
        BY <1>0, TypeTree, TargetFacts
      <4> QED BY <4>1, <4>2 DEF Inv, VotingInv, QcCertified, CommitTarget
    <3> QED BY <3>1, <3>2
  <2>3. height[b_exec[s]] >= height[CommitTarget(q)]
    BY <1>0, <2>1
  <2> QED BY <1>0, <2>1, <2>2, <2>3, Excluded DEF ConflictExcluded
<1> QED BY <1>1, <1>2

(* Two logs that are branches of blocks on one branch agree position by    *)
(* position.                                                               *)
LEMMA Agreeing == Inv /\ LogInv => Agreement
<1> SUFFICES ASSUME Inv, LogInv, NEW r \in Honest, NEW s \in Honest,
                    NEW i \in 1 .. Len(executed[r]), i =< Len(executed[s])
             PROVE  executed[r][i] = executed[s][i]
  BY DEF Agreement
<1>0. /\ TypeOK /\ TreeInv /\ b_exec[r] \in blocks /\ b_exec[s] \in blocks
      /\ height[b_exec[r]] \in Nat /\ height[b_exec[s]] \in Nat
  BY DEF Inv, TypeOK
<1>1. i \in 1 .. Len(executed[s])
  BY <1>0 DEF LogInv
<1>2. /\ executed[r][i] \in branch[b_exec[r]] /\ height[executed[r][i]] = i
      /\ executed[s][i] \in branch[b_exec[s]] /\ height[executed[s][i]] = i
  BY <1>1 DEF LogInv
<1>3. CASE height[b_exec[r]] =< height[b_exec[s]]
  <2>1. branch[b_exec[r]] \subseteq branch[b_exec[s]]
    BY <1>0, <1>3, ExecOrdered, TypeTree, TreeFacts
  <2> QED BY <2>1, <1>0, <1>2, TypeTree, TreeFacts
<1>4. CASE height[b_exec[s]] =< height[b_exec[r]]
  <2>1. branch[b_exec[s]] \subseteq branch[b_exec[r]]
    BY <1>0, <1>4, ExecOrdered, TypeTree, TreeFacts
  <2> QED BY <2>1, <1>0, <1>2, TypeTree, TreeFacts
<1> QED BY <1>0, <1>3, <1>4

(* Of the logs of two correct replicas one is a prefix of the other.       *)
THEOREM LogsAgree == Spec => []Agreement
BY Agreeing, LogInvariance, PTL

-----------------------------------------------------------------------------
(* The core implements the replicated log.                                 *)

(* The commit walk of update() is a step of the replicated log: it extends *)
(* one log, by new blocks, in agreement with all the others.               *)
LEMMA GrowStep ==
    ASSUME Inv, LogInv, TypeOK', Agreement', LogInv',
           NEW r \in Honest, NEW q \in blocks, update(r, q)
    PROVE  Log!Grow(r)
<1>1. executed' \in [Honest -> Seq(Block)]
  <2>1. executed' \in [Honest -> Seq(blocks')] /\ blocks' \subseteq Block
    BY DEF TypeOK
  <2>2. \A s \in Honest : executed'[s] \in Seq(Block)
    BY <2>1, SeqMono
  <2> QED BY <2>1, <2>2
<1>2. \A s \in Honest : /\ s # r => executed'[s] = executed[s]
                        /\ Len(executed[s]) =< Len(executed'[s])
                        /\ \A i \in 1 .. Len(executed[s]) :
                              executed'[s][i] = executed[s][i]
  BY UpdateLog
<1>3. Log!Extends(executed'[r], executed[r])
  BY <1>2 DEF Log!Extends, Log!Agree
<1>4. Log!Distinct(executed'[r])
  <2> SUFFICES ASSUME NEW i \in 1 .. Len(executed'[r]), NEW j \in 1 .. Len(executed'[r]),
                      executed'[r][i] = executed'[r][j]
               PROVE  i = j
    BY DEF Log!Distinct
  <2> QED BY DEF LogInv
<1>5. ASSUME NEW s \in Honest PROVE Log!Agree(executed'[r], executed[s])
  <2> SUFFICES ASSUME NEW i \in 1 .. Len(executed'[r]), i =< Len(executed[s])
               PROVE  executed'[r][i] = executed[s][i]
    BY DEF Log!Agree
  <2>1. Len(executed[s]) \in Nat /\ Len(executed'[s]) \in Nat
    <3>1. executed[s] \in Seq(blocks) /\ executed'[s] \in Seq(blocks')
      BY DEF Inv, TypeOK
    <3> QED BY <3>1, LenProperties
  <2>2. i \in 1 .. Len(executed[s]) /\ i =< Len(executed'[s])
    BY <2>1, <1>2
  <2>3. executed'[r][i] = executed'[s][i]
    BY <2>2 DEF Agreement
  <2> QED BY <2>2, <2>3, <1>2
<1> QED BY <1>1, <1>2, <1>3, <1>4, <1>5 DEF Log!Grow

(* Every behaviour of the core is a behaviour of the replicated log: each  *)
(* commit walk extends one log, and every other step stutters.             *)
THEOREM Refinement == Spec => LogSpec
<1>1. Init => Log!Init
  BY DEF Init, Log!Init
<1>2. Inv /\ LogInv /\ Inv' /\ LogInv' /\ [Next]_vars => [Log!Next]_executed
  <2> SUFFICES ASSUME Inv, LogInv, Inv', LogInv', [Next]_vars
               PROVE  [Log!Next]_executed
    OBVIOUS
  <2>1. TypeOK' /\ Agreement'
    <3>1. Inv' /\ LogInv' => Agreement'
      BY Agreeing, PTL
    <3> QED BY <3>1 DEF Inv
  <2>2. CASE UNCHANGED <<executed, b_exec>>
    BY <2>2
  <2>3. ASSUME NEW r \in Honest, NEW q \in blocks, update(r, q)
        PROVE  Log!Next
    BY <2>1, <2>3, GrowStep DEF Log!Next
  <2> QED BY <2>2, <2>3, NextExec
<1> QED BY <1>1, <1>2, LogInvariance, PTL DEF Spec, LogSpec, Log!Spec

=============================================================================
