--------------------------- MODULE PMHighTail_proofs ---------------------------
(***************************************************************************)
(* The parent selection keeps the contract of on_propose, so that the core *)
(* with its pacemaker implements the core, and all that is proved of the   *)
(* latter holds of the former.                                             *)
(***************************************************************************)
EXTENDS PMHighTail, HotStuffCore_log

TailType == hqc_tail \in [Honest -> blocks]

PMInv == TypeOK /\ TreeInv /\ DeliveryInv /\ TailType /\ TailExtendsHqc /\ TailCoversVotes

-----------------------------------------------------------------------------
(* What the callbacks run on.                                              *)

(* Every step of the composition is one of the core: the parent it         *)
(* proposes on is delivered and extends hqc.                               *)
LEMMA PMNextIsNext ==
    ASSUME PMInv, [PMNext]_pm_vars
    PROVE  [Next]_vars
<1>1. CASE UNCHANGED pm_vars
  BY <1>1 DEF pm_vars
<1>2. ASSUME NEW r \in Running \cap Proposer, pm_propose(r)
      PROVE  Next
  <2>1. r \in Honest
    BY DEF Running
  <2>2. hqc_tail[r] \in blocks /\ hqc_tail[r] \in delivered[r] /\ hqc[r] \in branch[hqc_tail[r]]
    BY <2>1 DEF PMInv, TailType, TailExtendsHqc
  <2>3. on_propose(r, hqc_tail[r])
    BY <1>2, <2>2 DEF pm_propose, on_propose
  <2> QED BY <2>2, <2>3 DEF Next
<1>3. ASSUME PMNext, ~\E r \in Running \cap Proposer : pm_propose(r)
      PROVE  Next
  BY <1>3 DEF PMNext, Next, pm_deliver_blk, pm_receive_proposal, pm_receive_vote
<1> QED BY <1>1, <1>2, <1>3

(* The state after a step of the core, and the facts of the tree that the  *)
(* callbacks see.                                                          *)
LEMMA CoreStep ==
    ASSUME PMInv, [PMNext]_pm_vars
    PROVE  /\ TypeOK' /\ TreeInv' /\ DeliveryInv' /\ TreeStep /\ TreeType /\ TreeType'
           /\ blocks \subseteq blocks'
           /\ \A b \in blocks : branch'[b] = branch[b] /\ height'[b] = height[b]
<1>1. [Next]_vars
  BY PMNextIsNext
<1> QED BY <1>1, TypeStep, NextTree, DeliveryNext, TypeTree, TreePreserved, TreeStable DEF PMInv

(* What hqc_tail has to be after a step at r; at another replica nothing   *)
(* has changed.                                                            *)
TailRight(r) ==
    /\ hqc_tail'[r] \in delivered'[r]
    /\ hqc'[r] \in branch'[hqc_tail'[r]]
    /\ \A w \in votes'[r] : hqc'[r] \in branch'[w] => height'[w] =< height'[hqc_tail'[r]]

LEMMA TailStays ==
    ASSUME PMInv, [PMNext]_pm_vars, NEW r \in Honest,
           hqc_tail'[r] = hqc_tail[r], hqc'[r] = hqc[r], votes'[r] = votes[r],
           delivered[r] \subseteq delivered'[r]
    PROVE  TailRight(r)
<1>1. /\ hqc_tail[r] \in blocks /\ hqc_tail[r] \in delivered[r] /\ hqc[r] \in branch[hqc_tail[r]]
      /\ votes[r] \subseteq blocks
      /\ \A w \in votes[r] : hqc[r] \in branch[w] => height[w] =< height[hqc_tail[r]]
  BY DEF PMInv, TailType, TailExtendsHqc, TailCoversVotes, TypeOK
<1> QED BY <1>1, CoreStep DEF TailRight

(* The callback on hqc updates: the tail that it chooses is as high as     *)
(* every delivered block that extends hqc.                                 *)
LEMMA HqcTailsHighest ==
    ASSUME TypeOK, TreeInv, NEW r \in Honest, NEW D \in SUBSET blocks, NEW T,
           Covers(D, T, parent, branch), NEW q \in D, NEW t \in HqcTails(q, T)
    PROVE  /\ t \in D /\ q \in branch[t]
           /\ \A w \in D : q \in branch[w] => height[w] =< height[t]
<1> DEFINE above == {u \in T : q \in branch[u]} \cup {q}
<1>1. /\ t \in above /\ \A u \in above : height[u] =< height[t]
  BY DEF HqcTails
<1>2. T \subseteq D
  BY DEF Covers, Leaves
<1>3. q \in branch[q]
  BY TypeTree, TreeFacts
<1>4. t \in D /\ q \in branch[t]
  BY <1>1, <1>2, <1>3
<1>5. ASSUME NEW w \in D, q \in branch[w] PROVE height[w] =< height[t]
  <2>1. PICK u \in T : w \in branch[u]
    BY DEF Covers
  <2>2. u \in blocks /\ branch[w] \subseteq branch[u] /\ height[w] =< height[u]
        /\ height[u] \in Nat /\ height[w] \in Nat /\ height[t] \in Nat
    BY <1>2, <1>4, <2>1, TypeTree, TreeFacts
  <2>3. height[u] =< height[t]
    BY <1>1, <1>5, <2>1, <2>2
  <2> QED BY <2>2, <2>3
<1> QED BY <1>4, <1>5

(* What hqc_tail is when the callback on hqc updates has run, in a handler *)
(* that delivers b, makes hqc a block that is then delivered, and may vote *)
(* for b afterwards.                                                       *)
LEMMA TailNow ==
    ASSUME PMInv, [PMNext]_pm_vars, UNCHANGED tree,
           NEW r \in Honest, NEW t \in TailsNow(r),
           delivered[r] \subseteq delivered'[r]
    PROVE  /\ t \in delivered'[r] /\ hqc'[r] \in branch[t]
           /\ \A w \in votes[r] : hqc'[r] \in branch[w] => height[w] =< height[t]
           /\ hqc'[r] # hqc[r] =>
                \A w \in delivered'[r] : hqc'[r] \in branch[w] => height[w] =< height[t]
<1>1. /\ TypeOK' /\ DeliveryInv' /\ TypeOK /\ TreeInv
  BY CoreStep DEF PMInv
<1>2. CASE hqc'[r] = hqc[r]
  BY <1>2 DEF TailsNow, PMInv, TailExtendsHqc, TailCoversVotes
<1>3. CASE hqc'[r] # hqc[r]
  <2>1. t \in HqcTails(hqc'[r], tails'[r])
    BY <1>3 DEF TailsNow
  <2>2. /\ delivered'[r] \in SUBSET blocks /\ hqc'[r] \in delivered'[r]
        /\ Covers(delivered'[r], tails'[r], parent, branch)
    BY <1>1 DEF TypeOK, DeliveryInv, tree
  <2>3. /\ t \in delivered'[r] /\ hqc'[r] \in branch[t]
        /\ \A w \in delivered'[r] : hqc'[r] \in branch[w] => height[w] =< height[t]
    BY <1>1, <2>1, <2>2, HqcTailsHighest
  <2>4. votes[r] \subseteq delivered'[r]
    BY DEF PMInv, DeliveryInv
  <2> QED BY <2>3, <2>4
<1> QED BY <1>2, <1>3

-----------------------------------------------------------------------------
(* The handlers.                                                           *)

(* The callback on received proposals moves hqc_tail up to the new block,  *)
(* if that extends hqc: so it covers the vote that follows.                *)
LEMMA ReceiveProposalTail ==
    ASSUME PMInv, [PMNext]_pm_vars, NEW r \in Running, NEW z \in Replica, NEW b \in blocks,
           pm_receive_proposal(r, z, b)
    PROVE  TailType' /\ \A s \in Honest : TailRight(s)
<1> DEFINE q == qc_ref[b]
<1>1. PICK t \in TailsNow(r) :
        hqc_tail' = [hqc_tail EXCEPT ![r] = IF Breached(r, q) THEN t
                                            ELSE TailAfterReceive(t, hqc'[r], b)]
  BY DEF pm_receive_proposal
<1>2. /\ r \in Honest /\ UNCHANGED tree /\ Deliver(r, b, branch[b])
      /\ hqc' = [hqc EXCEPT ![r] = HqcAfter(r, q)]
      /\ votes' = votes \/ (~Breached(r, q) /\ votes' = [votes EXCEPT ![r] = @ \cup {b}])
  BY DEF pm_receive_proposal, on_receive_proposal, propose_handler, Running, PMInv, TypeOK
<1>3. /\ TypeOK /\ TreeType /\ TreeInv /\ TypeOK' /\ DeliveryInv' /\ TailType
      /\ b \in branch[b] /\ height[b] \in Nat
  BY CoreStep, TreeFacts DEF PMInv
<1>4. /\ delivered' = [delivered EXCEPT ![r] = @ \cup branch[b]]
      /\ tails' = [tails EXCEPT ![r] = IF b \in delivered[r] THEN @ ELSE (@ \ branch[b]) \cup {b}]
  BY <1>2 DEF Deliver
<1>5. /\ b \in delivered'[r] /\ delivered[r] \subseteq delivered'[r]
      /\ \A s \in Honest : s # r => /\ delivered'[s] = delivered[s] /\ hqc'[s] = hqc[s]
                                   /\ votes'[s] = votes[s] /\ hqc_tail'[s] = hqc_tail[s]
  BY <1>1, <1>2, <1>3, <1>4 DEF TypeOK, TailType
<1>6. /\ t \in delivered'[r] /\ hqc'[r] \in branch[t]
      /\ \A w \in votes[r] : hqc'[r] \in branch[w] => height[w] =< height[t]
  BY <1>2, <1>5, TailNow
<1>7. t \in blocks /\ height[t] \in Nat /\ \A w \in votes[r] : w \in blocks /\ height[w] \in Nat
  BY <1>2, <1>3, <1>6 DEF TypeOK, tree
<1> DEFINE u == IF Breached(r, q) THEN t ELSE TailAfterReceive(t, hqc'[r], b)
<1>8. hqc_tail'[r] = u
  BY <1>1, <1>2, <1>3 DEF TailType
<1>9. /\ u \in delivered'[r] /\ hqc'[r] \in branch[u] /\ u \in blocks
      /\ height[t] =< height[u] /\ height[u] \in Nat
      /\ ~Breached(r, q) /\ hqc'[r] \in branch[b] => height[b] =< height[u]
  <2>1. CASE u = t
    <3>1. ~Breached(r, q) /\ hqc'[r] \in branch[b] => height[b] =< height[t]
      BY <1>3, <1>7, <2>1 DEF TailAfterReceive
    <3> QED BY <1>6, <1>7, <2>1, <3>1
  <2>2. CASE u = b /\ hqc'[r] \in branch[b] /\ height[b] > height[t]
    BY <1>3, <1>5, <1>7, <2>2
  <2> QED BY <2>1, <2>2 DEF TailAfterReceive
<1> HIDE DEF u
<1>10. votes'[r] \subseteq votes[r] \cup (IF Breached(r, q) THEN {} ELSE {b})
  BY <1>2, <1>3 DEF TypeOK
<1>11. ASSUME NEW w \in votes'[r], hqc'[r] \in branch[w] PROVE height[w] =< height[u]
  <2>1. CASE w \in votes[r]
    BY <1>6, <1>7, <1>9, <1>11, <2>1
  <2>2. CASE w = b /\ ~Breached(r, q)
    BY <1>9, <1>11, <2>2
  <2> QED BY <1>10, <2>1, <2>2
<1>12. TailRight(r)
  BY <1>2, <1>8, <1>9, <1>11 DEF TailRight, tree
<1>13. \A s \in Honest : TailRight(s)
  BY <1>5, <1>12, TailStays
<1>14. TailType'
  BY <1>1, <1>2, <1>3, <1>9 DEF TailType, tree, u
<1> QED BY <1>13, <1>14

(* A vote can raise hqc: the callback then takes the highest tail over it. *)
LEMMA ReceiveVoteTail ==
    ASSUME PMInv, [PMNext]_pm_vars, NEW r \in Running, NEW v \in Replica, NEW b \in blocks,
           pm_receive_vote(r, v, b)
    PROVE  TailType' /\ \A s \in Honest : TailRight(s)
<1>1. PICK t \in TailsNow(r) : hqc_tail' = [hqc_tail EXCEPT ![r] = t]
  BY DEF pm_receive_vote
<1>2. /\ r \in Honest /\ UNCHANGED tree /\ Deliver(r, b, branch[b]) /\ votes' = votes
      /\ hqc' = [hqc EXCEPT ![r] = IF Completes(r, b) /\ height[b] > height[@] THEN b ELSE @]
  BY DEF pm_receive_vote, on_receive_vote, vote_handler, Running
<1>3. TypeOK /\ TailType /\ TypeOK'
  BY CoreStep DEF PMInv
<1>4. /\ delivered' = [delivered EXCEPT ![r] = @ \cup branch[b]]
      /\ tails' = [tails EXCEPT ![r] = IF b \in delivered[r] THEN @ ELSE (@ \ branch[b]) \cup {b}]
  BY <1>2 DEF Deliver
<1>5. /\ delivered[r] \subseteq delivered'[r]
      /\ \A s \in Honest : s # r => /\ delivered'[s] = delivered[s] /\ hqc'[s] = hqc[s]
                                   /\ hqc_tail'[s] = hqc_tail[s]
  BY <1>1, <1>2, <1>3, <1>4 DEF TypeOK, TailType
<1>6. /\ t \in delivered'[r] /\ hqc'[r] \in branch[t]
      /\ \A w \in votes[r] : hqc'[r] \in branch[w] => height[w] =< height[t]
  BY <1>2, <1>5, TailNow
<1>7. hqc_tail'[r] = t /\ t \in blocks
  BY <1>1, <1>2, <1>3, <1>6 DEF TailType, TypeOK, tree
<1>8. TailRight(r)
  BY <1>2, <1>6, <1>7 DEF TailRight, tree
<1>9. \A s \in Honest : TailRight(s)
  BY <1>2, <1>5, <1>8, TailStays
<1>10. TailType'
  BY <1>1, <1>2, <1>3, <1>7 DEF TailType, tree
<1> QED BY <1>9, <1>10

(* The callback on proposals makes the new block the next parent; when     *)
(* on_propose throws, nothing moves.                                       *)
LEMMA ProposeTail ==
    ASSUME PMInv, [PMNext]_pm_vars, NEW r \in Running \cap Proposer, pm_propose(r)
    PROVE  TailType' /\ \A s \in Honest : TailRight(s)
<1> DEFINE p == hqc_tail[r]
<1>1. /\ r \in Honest /\ p \in blocks /\ p \in delivered[r] /\ hqc[r] \in branch[p]
      /\ TypeOK /\ TreeInv /\ TailType
  BY DEF PMInv, TailType, TailExtendsHqc, Running
<1>2. on_propose(r, p)
  BY <1>1 DEF pm_propose, on_propose
<1>3. /\ FreshBlk \in Block \ blocks /\ FreshBlk \in blocks'
      /\ branch'[FreshBlk] = branch[p] \cup {FreshBlk}
      /\ height'[FreshBlk] = height[p] + 1
      /\ Deliver(r, FreshBlk, branch'[FreshBlk])
  BY <1>1, <1>2, ProposeDelivers
<1>4. /\ TypeOK' /\ TreeType /\ TreeType' /\ TreeInv' /\ blocks \subseteq blocks'
      /\ \A b \in blocks : branch'[b] = branch[b] /\ height'[b] = height[b]
  BY CoreStep
<1>5. delivered' = [delivered EXCEPT ![r] = @ \cup branch'[FreshBlk]]
  BY <1>3 DEF Deliver
<1>6. /\ FreshBlk \in delivered'[r]
      /\ \A s \in Honest : delivered[s] \subseteq delivered'[s]
  BY <1>1, <1>3, <1>5 DEF TypeOK
<1>7. hqc_tail' = [hqc_tail EXCEPT ![r] = IF proposals' # proposals THEN FreshBlk ELSE @]
  BY DEF pm_propose
<1>8. CASE UNCHANGED <<hqc, vheight, votes, proposals>>
  <2>1. hqc_tail' = hqc_tail
    BY <1>1, <1>7, <1>8 DEF TailType
  <2>2. \A s \in Honest : TailRight(s)
    BY <1>6, <1>8, <2>1, TailStays
  <2>3. TailType'
    BY <1>1, <1>4, <2>1 DEF TailType
  <2> QED BY <2>2, <2>3
<1>9. ASSUME NEW opinion \in BOOLEAN, NEW votes_b \in SUBSET {r},
             Broadcast(r, p, opinion, votes_b)
      PROVE  TailType' /\ \A s \in Honest : TailRight(s)
  <2>1. <<r, FreshBlk>> \notin proposals
    BY <1>1, <1>3 DEF TypeOK
  <2>2. proposals' # proposals
    BY <1>9, <2>1 DEF Broadcast
  <2>3. hqc_tail' = [hqc_tail EXCEPT ![r] = FreshBlk]
    BY <1>7, <2>2
  <2>4. hqc' = [hqc EXCEPT ![r] = FreshBlk] \/ hqc' = [hqc EXCEPT ![r] = @]
    BY <1>9 DEF Broadcast
  <2>5. votes' = [votes EXCEPT ![r] = @ \cup {FreshBlk}] \/ votes' = [votes EXCEPT ![r] = @]
    BY <1>9 DEF Broadcast
  <2>6. /\ hqc'[r] \in {hqc[r], FreshBlk}
        /\ votes'[r] \subseteq votes[r] \cup {FreshBlk}
        /\ hqc_tail'[r] = FreshBlk
        /\ \A s \in Honest : s # r => /\ hqc'[s] = hqc[s] /\ votes'[s] = votes[s]
                                     /\ hqc_tail'[s] = hqc_tail[s]
    BY <1>1, <2>3, <2>4, <2>5 DEF TypeOK, TailType
  <2>7. ASSUME NEW w \in votes[r], hqc'[r] \in branch'[w]
        PROVE  height'[w] =< height'[FreshBlk]
    <3>1. w \in blocks /\ branch[w] \subseteq blocks /\ height[w] \in Nat /\ height[p] \in Nat
      BY <1>1 DEF TypeOK
    <3>2. hqc[r] \in branch[w]
      BY <1>3, <1>4, <2>6, <2>7, <3>1
    <3>3. height[w] =< height[p]
      BY <1>1, <3>2 DEF PMInv, TailCoversVotes
    <3> QED BY <1>3, <1>4, <3>1, <3>3
  <2>8. height'[FreshBlk] \in Nat
    BY <1>3, <1>4 DEF TreeType
  <2>9. TailRight(r)
    BY <1>1, <1>3, <1>6, <2>6, <2>7, <2>8 DEF TailRight
  <2>10. \A s \in Honest : TailRight(s)
    BY <1>6, <2>6, <2>9, TailStays
  <2>11. TailType'
    BY <1>1, <1>3, <1>4, <2>3 DEF TailType
  <2> QED BY <2>10, <2>11
<1> QED BY <1>1, <1>2, <1>8, <1>9, ProposeOutcomes

(* Every step of the composition keeps the invariant.                      *)
LEMMA PMStep == PMInv /\ [PMNext]_pm_vars => PMInv'
<1> SUFFICES ASSUME PMInv, [PMNext]_pm_vars PROVE PMInv'
  OBVIOUS
<1>1. /\ TypeOK' /\ TreeInv' /\ DeliveryInv' /\ blocks \subseteq blocks' /\ TypeOK /\ TailType
  BY CoreStep DEF PMInv
<1>2. CASE /\ UNCHANGED <<hqc_tail, hqc, votes>>
           /\ \A s \in Honest : delivered[s] \subseteq delivered'[s]
  <2>1. \A s \in Honest : TailRight(s)
    BY <1>2, TailStays
  <2>2. TailType'
    BY <1>1, <1>2 DEF TailType
  <2> QED BY <1>1, <2>1, <2>2 DEF PMInv, TailRight, TailExtendsHqc, TailCoversVotes
<1>3. CASE UNCHANGED pm_vars
  BY <1>2, <1>3 DEF pm_vars, vars
<1>4. ASSUME NEW r \in Running, NEW b \in blocks, pm_deliver_blk(r, b) PROVE PMInv'
  <2>1. UNCHANGED <<hqc_tail, hqc, votes>> /\ Deliver(r, b, branch[b])
    BY <1>4 DEF pm_deliver_blk, on_deliver_blk
  <2>2. \A s \in Honest : delivered[s] \subseteq delivered'[s]
    BY <1>1, <2>1 DEF Deliver, TypeOK
  <2> QED BY <1>2, <2>1, <2>2
<1>5. ASSUME UNCHANGED hqc_tail, NEW z \in Byzantine, NEW p \in blocks, NEW q \in blocks,
             ByzantinePropose(z, p, q)
      PROVE  PMInv'
  BY <1>2, <1>5 DEF ByzantinePropose
<1>6. ASSUME TailType' /\ \A s \in Honest : TailRight(s) PROVE PMInv'
  BY <1>1, <1>6 DEF PMInv, TailRight, TailExtendsHqc, TailCoversVotes
<1> QED BY <1>3, <1>4, <1>5, <1>6, ProposeTail, ReceiveProposalTail, ReceiveVoteTail DEF PMNext

-----------------------------------------------------------------------------
(* A single proposer.                                                      *)

(* Every block is on the branch of z's next parent, and no replica has     *)
(* accepted a block above its own next parent.                             *)
OneLine(z) ==
    /\ \A b \in blocks : b \in branch[hqc_tail[z]]
    /\ \A r \in Honest : vheight[r] =< height[hqc_tail[r]] /\ thrown[r] = {}

LineInv ==
    /\ \A r \in Honest : \E w \in delivered[r] : height[w] = vheight[r]
    /\ \A z \in Honest : SoleProposer(z) => OneLine(z)

(* On one line the callback on hqc updates leaves hqc_tail at or above all *)
(* that was delivered, and at the top where that was delivered.            *)
LEMMA LineTail ==
    ASSUME PMInv, [PMNext]_pm_vars, UNCHANGED tree, NEW z \in Honest, OneLine(z), LineInv,
           NEW r \in Honest, NEW t \in TailsNow(r), delivered[r] \subseteq delivered'[r]
    PROVE  /\ t \in blocks /\ hqc'[r] \in branch[t] /\ vheight[r] =< height[t]
           /\ r = z => t = hqc_tail[z]
<1> DEFINE top == hqc_tail[z]
<1>1. /\ TypeOK /\ TreeInv /\ TreeType /\ TypeOK' /\ top \in blocks /\ hqc_tail[r] \in blocks
  BY CoreStep DEF PMInv, TailType
<1>2. /\ t \in delivered'[r] /\ hqc'[r] \in branch[t]
      /\ hqc'[r] # hqc[r] =>
            \A w \in delivered'[r] : hqc'[r] \in branch[w] => height[w] =< height[t]
  BY TailNow
<1>3. t \in blocks /\ hqc'[r] \in blocks
  BY <1>1, <1>2 DEF TypeOK, tree
<1>4. PICK w \in delivered[r] : height[w] = vheight[r]
  BY DEF LineInv
<1>5. w \in blocks /\ w \in delivered'[r] /\ w \in branch[top] /\ hqc'[r] \in branch[top]
  BY <1>1, <1>3, <1>4 DEF TypeOK, OneLine
<1>6. t \in branch[top]
  BY <1>3 DEF OneLine
<1>7. CASE hqc'[r] = hqc[r]
  <2>1. t = hqc_tail[r]
    BY <1>7 DEF TailsNow
  <2> QED BY <1>2, <1>3, <2>1 DEF OneLine
<1>8. CASE hqc'[r] # hqc[r]
  <2>1. height[w] =< height[t]
    <3>1. CASE hqc'[r] \in branch[w]
      BY <1>2, <1>5, <1>8, <3>1
    <3>2. CASE hqc'[r] \notin branch[w]
      <4>1. ~(height[hqc'[r]] =< height[w])
        BY <1>1, <1>5, <3>2, TreeFacts
      <4>2. height[hqc'[r]] =< height[t] /\ height[hqc'[r]] \in Nat /\ height[w] \in Nat
            /\ height[t] \in Nat
        BY <1>1, <1>2, <1>3, <1>5, TreeFacts
      <4> QED BY <4>1, <4>2
    <3> QED BY <3>1, <3>2
  <2>2. ASSUME r = z PROVE t = top
    <3>1. top \in delivered'[r]
      BY <2>2 DEF PMInv, TailExtendsHqc
    <3>2. height[top] =< height[t]
      BY <1>2, <1>5, <1>8, <3>1
    <3> QED BY <1>1, <1>6, <3>2, TreeFacts
  <2> QED BY <1>2, <1>3, <1>4, <2>1, <2>2
<1> QED BY <1>7, <1>8

(* A step at r that leaves the blocks alone and accepts at most blocks not *)
(* above r's next parent keeps the line.                                   *)
LEMMA LineKept ==
    ASSUME PMInv, UNCHANGED tree, NEW z \in Honest, OneLine(z), NEW r \in Honest,
           hqc_tail'[r] \in blocks, vheight'[r] =< height[hqc_tail'[r]], thrown'[r] = thrown[r],
           r = z => hqc_tail'[r] = hqc_tail[r],
           \A s \in Honest : s # r => /\ hqc_tail'[s] = hqc_tail[s] /\ vheight'[s] = vheight[s]
                                      /\ thrown'[s] = thrown[s]
    PROVE  OneLine(z)'
<1>1. hqc_tail'[z] = hqc_tail[z]
  OBVIOUS
<1>2. \A s \in Honest : vheight'[s] =< height[hqc_tail'[s]] /\ thrown'[s] = {}
  BY DEF OneLine
<1> QED BY <1>1, <1>2 DEF OneLine, tree

LEMMA DeliverLine ==
    ASSUME LineInv, PMInv, [PMNext]_pm_vars, UNCHANGED <<vheight, proposals, thrown, hqc_tail, tree>>,
           \A s \in Honest : delivered[s] \subseteq delivered'[s]
    PROVE  LineInv'
<1>1. \A s \in Honest : \E w \in delivered'[s] : height'[w] = vheight'[s]
  BY DEF LineInv, tree
<1>2. ASSUME NEW z \in Honest, SoleProposer(z)' PROVE OneLine(z)'
  BY <1>2 DEF LineInv, SoleProposer, OneLine, tree
<1> QED BY <1>1, <1>2 DEF LineInv

LEMMA ReceiveProposalLine ==
    ASSUME Inv, LineInv, PMInv, [PMNext]_pm_vars, NEW r \in Running, NEW p \in Replica,
           NEW b \in blocks, pm_receive_proposal(r, p, b)
    PROVE  LineInv'
<1> DEFINE q == qc_ref[b]
<1>1. /\ r \in Honest /\ UNCHANGED tree /\ proposals' = proposals /\ <<p, b>> \in proposals /\ p # r
      /\ Deliver(r, b, branch[b]) /\ hqc' = [hqc EXCEPT ![r] = HqcAfter(r, q)]
  BY DEF pm_receive_proposal, on_receive_proposal, propose_handler, Running
<1>2. /\ TypeOK /\ TypeOK' /\ TreeType /\ TreeInv /\ TailType /\ b \in branch[b] /\ height[b] \in Nat
  BY CoreStep, TreeFacts DEF PMInv
<1>3. ~Breached(r, q)
  <2>1. Certified(q) /\ q \in blocks
    BY <1>2 DEF Inv, VotingInv, QcCertified, TypeOK
  <2> QED BY <1>1, <2>1, NoBreach
<1>4. /\ thrown' = thrown
      /\ vheight' = [vheight EXCEPT ![r] = height[b]] \/ vheight' = vheight
  BY <1>2, <1>3 DEF pm_receive_proposal, on_receive_proposal, TypeOK
<1>5. PICK t \in TailsNow(r) : hqc_tail' = [hqc_tail EXCEPT ![r] = TailAfterReceive(t, hqc'[r], b)]
  BY <1>3 DEF pm_receive_proposal
<1>6. /\ b \in delivered'[r] /\ \A s \in Honest : delivered[s] \subseteq delivered'[s]
  BY <1>1, <1>2 DEF Deliver, TypeOK
<1>7. \A s \in Honest : \E w \in delivered'[s] : height'[w] = vheight'[s]
  <2> SUFFICES ASSUME NEW s \in Honest PROVE \E w \in delivered'[s] : height[w] = vheight'[s]
    BY <1>1 DEF tree
  <2>1. CASE vheight'[s] = vheight[s]
    BY <1>6, <2>1 DEF LineInv
  <2>2. CASE s = r /\ vheight'[s] = height[b]
    BY <1>6, <2>2
  <2> QED BY <1>2, <1>4, <2>1, <2>2 DEF TypeOK
<1>8. ASSUME NEW z \in Honest, SoleProposer(z)' PROVE OneLine(z)'
  <2>1. OneLine(z) /\ p = z
    BY <1>1, <1>8 DEF LineInv, SoleProposer
  <2>2. /\ t \in blocks /\ hqc'[r] \in branch[t] /\ vheight[r] =< height[t]
    BY <1>1, <1>6, <2>1, LineTail
  <2> DEFINE u == TailAfterReceive(t, hqc'[r], b)
  <2>3. /\ u \in blocks /\ vheight[r] =< height[u] /\ height[b] =< height[u]
    <3>1. /\ hqc'[r] \in blocks /\ height[t] \in Nat /\ height[hqc'[r]] =< height[t]
          /\ height[hqc'[r]] \in Nat /\ vheight[r] \in Nat
      BY <1>1, <1>2, <2>2, TreeFacts DEF TypeOK
    <3>2. CASE hqc'[r] \in branch[b]
      BY <1>2, <2>2, <3>1, <3>2 DEF TailAfterReceive
    <3>3. CASE hqc'[r] \notin branch[b]
      <4>1. ~(height[hqc'[r]] =< height[b])
        <5>1. b \in branch[hqc_tail[z]] /\ hqc'[r] \in branch[hqc_tail[z]] /\ hqc_tail[z] \in blocks
          BY <1>2, <2>1, <3>1 DEF OneLine, TailType
        <5> QED BY <1>2, <3>3, <5>1, TreeFacts
      <4> QED BY <1>2, <2>2, <3>1, <3>3, <4>1 DEF TailAfterReceive
    <3> QED BY <3>2, <3>3
  <2>4. hqc_tail'[r] = u
    BY <1>1, <1>2, <1>5 DEF TailType
  <2> HIDE DEF u
  <2>5. vheight'[r] =< height[hqc_tail'[r]]
    BY <1>1, <1>2, <1>4, <2>3, <2>4 DEF TypeOK
  <2>6. \A s \in Honest : s # r => hqc_tail'[s] = hqc_tail[s] /\ vheight'[s] = vheight[s]
    BY <1>2, <1>4, <1>5 DEF TypeOK, TailType
  <2> QED BY <1>1, <1>4, <2>1, <2>3, <2>4, <2>5, <2>6, LineKept
<1> QED BY <1>7, <1>8 DEF LineInv

LEMMA ReceiveVoteLine ==
    ASSUME LineInv, PMInv, [PMNext]_pm_vars, NEW r \in Running, NEW v \in Replica,
           NEW b \in blocks, pm_receive_vote(r, v, b)
    PROVE  LineInv'
<1>1. /\ r \in Honest /\ UNCHANGED <<tree, vheight, proposals, thrown>> /\ Deliver(r, b, branch[b])
  BY DEF pm_receive_vote, on_receive_vote, vote_handler, Running
<1>2. PICK t \in TailsNow(r) : hqc_tail' = [hqc_tail EXCEPT ![r] = t]
  BY DEF pm_receive_vote
<1>3. TypeOK /\ TailType
  BY DEF PMInv
<1>4. \A s \in Honest : delivered[s] \subseteq delivered'[s]
  BY <1>1, <1>3 DEF Deliver, TypeOK
<1>5. \A s \in Honest : \E w \in delivered'[s] : height'[w] = vheight'[s]
  BY <1>1, <1>4 DEF LineInv, tree
<1>6. ASSUME NEW z \in Honest, SoleProposer(z)' PROVE OneLine(z)'
  <2>1. OneLine(z)
    BY <1>1, <1>6 DEF LineInv, SoleProposer
  <2>2. t \in blocks /\ vheight[r] =< height[t] /\ (r = z => t = hqc_tail[z])
    BY <1>1, <1>4, <2>1, LineTail
  <2>3. hqc_tail'[r] = t /\ \A s \in Honest : s # r => hqc_tail'[s] = hqc_tail[s]
    BY <1>1, <1>2, <1>3 DEF TailType
  <2> QED BY <1>1, <2>1, <2>2, <2>3, LineKept
<1> QED BY <1>5, <1>6 DEF LineInv

(* A proposer that throws is not alone; one that broadcasts puts its block *)
(* at the top.                                                             *)
LEMMA ProposeLine ==
    ASSUME Inv, LineInv, PMInv, [PMNext]_pm_vars, NEW r \in Running \cap Proposer, pm_propose(r)
    PROVE  LineInv'
<1> DEFINE p == hqc_tail[r]
           b == FreshBlk
<1>1. /\ r \in Honest /\ p \in blocks /\ p \in delivered[r] /\ hqc[r] \in branch[p]
      /\ TypeOK /\ TreeInv /\ TailType /\ TreeType /\ TypeOK' /\ TreeType'
  BY CoreStep DEF PMInv, TailType, TailExtendsHqc, Running
<1>2. on_propose(r, p)
  BY <1>1 DEF pm_propose, on_propose
<1>3. /\ b \in Block \ blocks /\ b \in blocks' /\ blocks' = blocks \cup {b}
      /\ branch'[b] = branch[p] \cup {b} /\ height'[b] = height[p] + 1
      /\ Deliver(r, b, branch'[b])
      /\ \A c \in blocks : branch'[c] = branch[c] /\ height'[c] = height[c]
  <2>1. blocks' = blocks \cup {b}
    BY <1>2 DEF on_propose, Propose, NewBlock
  <2> QED BY <1>1, <1>2, <2>1, ProposeDelivers, CoreStep
<1>4. b \in delivered'[r] /\ \A s \in Honest : delivered[s] \subseteq delivered'[s]
  BY <1>1, <1>3 DEF Deliver, TypeOK
<1>5. ~Breached(r, hqc[r])
  <2>1. Certified(hqc[r]) /\ hqc[r] \in blocks
    BY <1>1 DEF Inv, VotingInv, HqcCertified, TypeOK
  <2> QED BY <1>1, <2>1, NoBreach
<1> HIDE DEF p, b
<1>6. CASE TooLow(r, height[p] + 1)
  <2>1. UNCHANGED <<vheight, proposals>>
    BY <1>2, <1>5, <1>6 DEF on_propose, Propose
  <2>2. \A s \in Honest : \E w \in delivered'[s] : height'[w] = vheight'[s]
    BY <1>1, <1>3, <1>4, <2>1 DEF LineInv, TypeOK
  <2>3. ASSUME NEW z \in Honest, SoleProposer(z)' PROVE FALSE
    <3>1. vheight[r] =< height[p]
      BY <1>1, <2>1, <2>3 DEF LineInv, OneLine, SoleProposer, p
    <3>2. vheight[r] \in Nat /\ height[p] \in Nat
      BY <1>1 DEF TypeOK
    <3> QED BY <1>6, <3>1, <3>2 DEF TooLow
  <2> QED BY <2>2, <2>3 DEF LineInv
<1>7. CASE ~TooLow(r, height[p] + 1)
  <2>1. /\ thrown' = thrown /\ proposals' = proposals \cup {<<r, b>>}
        /\ vheight' = [vheight EXCEPT ![r] = height[p] + 1] \/ vheight' = vheight
    <3>1. thrown' = thrown /\ proposals' = proposals \cup {<<r, b>>}
      BY <1>2, <1>5, <1>7 DEF on_propose, Propose, p, b
    <3>2. vheight' = [vheight EXCEPT ![r] = height[p] + 1] \/ vheight' = vheight
      <4>1. CASE UNCHANGED vheight
        BY <4>1
      <4>2. ASSUME NEW opinion \in BOOLEAN, NEW votes_b, Broadcast(r, p, opinion, votes_b)
            PROVE  vheight' = [vheight EXCEPT ![r] = height[p] + 1] \/ vheight' = vheight
        <5>1. CASE opinion
          BY <4>2, <5>1 DEF Broadcast
        <5>2. CASE ~opinion
          BY <1>1, <4>2, <5>2 DEF Broadcast, TypeOK
        <5> QED BY <5>1, <5>2
      <4> QED BY <1>1, <1>2, <4>1, <4>2, ProposeOutcomes
    <3> QED BY <3>1, <3>2
  <2>2. \A s \in Honest : \E w \in delivered'[s] : height'[w] = vheight'[s]
    <3> SUFFICES ASSUME NEW s \in Honest PROVE \E w \in delivered'[s] : height'[w] = vheight'[s]
      OBVIOUS
    <3>1. CASE vheight'[s] = vheight[s]
      BY <1>1, <1>3, <1>4, <3>1 DEF LineInv, TypeOK
    <3>2. CASE s = r /\ vheight'[s] = height[p] + 1
      BY <1>3, <1>4, <3>2
    <3> QED BY <1>1, <2>1, <3>1, <3>2 DEF TypeOK
  <2>3. ASSUME NEW z \in Honest, SoleProposer(z)' PROVE OneLine(z)'
    <3>1. z = r /\ OneLine(z)
      <4>1. <<r, b>>[1] = z /\ SoleProposer(z)
        BY <2>1, <2>3 DEF SoleProposer
      <4> QED BY <4>1 DEF LineInv
    <3>2. proposals' # proposals
      <4>1. <<r, b>> \notin proposals
        BY <1>1, <1>3 DEF TypeOK
      <4> QED BY <2>1, <4>1
    <3>3. hqc_tail'[r] = b /\ \A s \in Honest : s # r => hqc_tail'[s] = hqc_tail[s]
      BY <1>1, <3>2 DEF pm_propose, TailType, b
    <3>4. \A c \in blocks' : c \in branch'[b]
      BY <1>3, <3>1 DEF OneLine, p
    <3>5. ASSUME NEW s \in Honest PROVE vheight'[s] =< height'[hqc_tail'[s]] /\ thrown'[s] = {}
      <4>1. vheight[s] =< height[hqc_tail[s]] /\ thrown[s] = {} /\ hqc_tail[s] \in blocks
            /\ height[hqc_tail[s]] \in Nat /\ vheight[s] \in Nat
        BY <1>1, <3>1 DEF OneLine, TailType, TypeOK
      <4>2. CASE s = r
        <5>1. vheight'[s] = vheight[s] \/ vheight'[s] = height[p] + 1
          BY <1>1, <2>1, <4>2 DEF TypeOK
        <5>2. height'[hqc_tail'[s]] = height[p] + 1 /\ vheight[s] =< height[p] /\ height[p] \in Nat
          BY <1>3, <3>3, <4>1, <4>2 DEF p
        <5> QED BY <2>1, <4>1, <5>1, <5>2
      <4>3. CASE s # r
        <5>1. vheight'[s] = vheight[s] /\ hqc_tail'[s] = hqc_tail[s]
          BY <1>1, <2>1, <3>3, <4>3 DEF TypeOK
        <5>2. height'[hqc_tail[s]] = height[hqc_tail[s]]
          BY <1>3, <4>1
        <5> QED BY <2>1, <4>1, <5>1, <5>2
      <4> QED BY <4>2, <4>3
    <3> QED BY <3>1, <3>3, <3>4, <3>5 DEF OneLine
  <2> QED BY <2>2, <2>3 DEF LineInv
<1> QED BY <1>6, <1>7

LEMMA LineStep == Inv /\ PMInv /\ LineInv /\ [PMNext]_pm_vars => LineInv'
<1> SUFFICES ASSUME Inv, PMInv, LineInv, [PMNext]_pm_vars PROVE LineInv'
  OBVIOUS
<1>1. CASE UNCHANGED pm_vars
  BY <1>1, DeliverLine DEF pm_vars, vars, tree
<1>2. ASSUME NEW r \in Running, NEW b \in blocks, pm_deliver_blk(r, b) PROVE LineInv'
  <2>1. /\ UNCHANGED <<vheight, proposals, thrown, hqc_tail, tree>> /\ Deliver(r, b, branch[b])
    BY <1>2 DEF pm_deliver_blk, on_deliver_blk
  <2>2. \A s \in Honest : delivered[s] \subseteq delivered'[s]
    BY <2>1 DEF Deliver, PMInv, TypeOK
  <2> QED BY <2>1, <2>2, DeliverLine
<1>3. ASSUME NEW z \in Byzantine, NEW p \in blocks, NEW q \in blocks, ByzantinePropose(z, p, q)
      PROVE  LineInv'
  <2>1. /\ proposals' = proposals \cup {<<z, FreshBlk>>} /\ UNCHANGED <<delivered, vheight>>
    BY <1>3 DEF ByzantinePropose
  <2>2. \A s \in Honest : \E w \in delivered'[s] : height'[w] = vheight'[s]
    BY <2>1, CoreStep DEF LineInv, PMInv, TypeOK
  <2>3. ASSUME NEW s \in Honest, SoleProposer(s)' PROVE FALSE
    <3>1. <<z, FreshBlk>>[1] = s
      BY <2>1, <2>3 DEF SoleProposer
    <3> QED BY <3>1 DEF Honest
  <2> QED BY <2>2, <2>3 DEF LineInv
<1> QED BY <1>1, <1>2, <1>3, ReceiveProposalLine, ReceiveVoteLine, ProposeLine DEF PMNext

-----------------------------------------------------------------------------
(* The results.                                                            *)

LEMMA PMInitInv == PMInit => PMInv
<1> SUFFICES ASSUME PMInit PROVE PMInv
  OBVIOUS
<1>1. TypeOK /\ TreeInv /\ DeliveryInv
  BY InitTree, DeliveryInit DEF PMInit
<1>2. TailType
  BY DEF PMInit, Init, TailType
<1>3. TailExtendsHqc /\ TailCoversVotes
  BY BlockAssumption DEF PMInit, Init, TailExtendsHqc, TailCoversVotes
<1> QED BY <1>1, <1>2, <1>3 DEF PMInv

LEMMA PMInvariance == PMSpec => []PMInv
BY PMInitInv, PMStep, PTL DEF PMSpec

(* get_parents() always returns a delivered block that extends hqc.        *)
THEOREM TailsExtendHqc == PMSpec => []TailExtendsHqc
<1>1. PMInv => TailExtendsHqc
  BY DEF PMInv
<1> QED BY <1>1, PMInvariance, PTL

(* The next parent is at least as high as every vote on the branch of hqc. *)
THEOREM TailsCoverVotes == PMSpec => []TailCoversVotes
<1>1. PMInv => TailCoversVotes
  BY DEF PMInv
<1> QED BY <1>1, PMInvariance, PTL

(* The core with its pacemaker implements the core: on_propose is only     *)
(* called as it asks to be, and everything proved of Spec holds here.      *)
THEOREM Composition == PMSpec => Spec
<1>1. PMInit => Init
  BY DEF PMInit
<1>2. PMInv /\ [PMNext]_pm_vars => [Next]_vars
  BY PMNextIsNext
<1> QED BY <1>1, <1>2, PMInvariance, PTL DEF PMSpec, Spec

LEMMA LineInit == PMInit => LineInv
<1> SUFFICES ASSUME PMInit PROVE LineInv
  OBVIOUS
<1>1. b0 \in Block
  BY BlockAssumption
<1> QED BY <1>1 DEF PMInit, Init, LineInv, OneLine

(* With a single proposer that is correct nothing is ever thrown.          *)
THEOREM NothingThrown == PMSpec => []NeverThrows
<1>1. LineInv => NeverThrows
  BY DEF LineInv, OneLine, NeverThrows
<1>2. PMSpec => []Inv
  BY Composition, Invariance, PTL
<1> QED BY <1>1, <1>2, LineInit, LineStep, PMInvariance, PTL DEF PMSpec

=============================================================================
