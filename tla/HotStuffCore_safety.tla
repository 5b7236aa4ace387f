------------------------- MODULE HotStuffCore_safety -------------------------
(***************************************************************************)
(* Proofs about HotStuffCore, for every configuration of replicas, every   *)
(* set of at most nfaulty Byzantine ones, any number of blocks and both    *)
(* commit rules: its types, then the safety of the protocol.               *)
(***************************************************************************)
EXTENDS HotStuffCore, FiniteSetTheorems, SequenceTheorems, TLAPS

-----------------------------------------------------------------------------
(* Quorums.                                                                *)

(* The sizes on_init computes: a majority is at least one replica, more    *)
(* than the Byzantine ones, and two majorities overlap by more than        *)
(* nfaulty replicas.                                                       *)
LEMMA Sizes ==
    /\ nreplicas \in Nat /\ nfaulty \in Nat /\ nmajority \in Nat
    /\ Cardinality(Byzantine) \in Nat
    /\ Cardinality(Byzantine) =< nfaulty
    /\ nmajority >= 1
    /\ nfaulty < nmajority
    /\ 2 * nmajority - nreplicas > nfaulty
    /\ IsFiniteSet(Honest) /\ IsFiniteSet(Byzantine)
<1>1. nreplicas \in Nat /\ nreplicas # 0
  BY ReplicaAssumption, FS_CardinalityType, FS_EmptySet DEF nreplicas
<1>2. nfaulty \in Nat /\ 3 * nfaulty < nreplicas
  BY <1>1, SMT DEF nfaulty
<1>3. IsFiniteSet(Byzantine) /\ IsFiniteSet(Honest)
  BY ReplicaAssumption, ByzantineAssumption, FS_Subset DEF Honest
<1>4. Cardinality(Byzantine) \in Nat
  BY <1>3, FS_CardinalityType
<1> QED
  BY <1>1, <1>2, <1>3, <1>4, ByzantineAssumption, SMT DEF nmajority

(* Two quorums have a correct replica in common.                           *)
LEMMA QuorumIntersection ==
    ASSUME NEW Q1 \in SUBSET Replica, NEW Q2 \in SUBSET Replica,
           Cardinality(Q1) >= nmajority, Cardinality(Q2) >= nmajority
    PROVE  \E r \in Honest : r \in Q1 /\ r \in Q2
<1>1. IsFiniteSet(Q1) /\ IsFiniteSet(Q2)
  BY ReplicaAssumption, FS_Subset
<1>2. /\ IsFiniteSet(Q1 \cup Q2) /\ IsFiniteSet(Q1 \cap Q2)
      /\ Cardinality(Q1 \cup Q2) =< nreplicas
  <2>1. Q1 \cup Q2 \in SUBSET Replica /\ Q1 \cap Q2 \in SUBSET Replica
    OBVIOUS
  <2> QED BY <2>1, ReplicaAssumption, FS_Subset DEF nreplicas
<1>3. Cardinality(Q1 \cup Q2)
        = Cardinality(Q1) + Cardinality(Q2) - Cardinality(Q1 \cap Q2)
  BY <1>1, FS_Union
<1>4. /\ Cardinality(Q1) \in Nat /\ Cardinality(Q2) \in Nat
      /\ Cardinality(Q1 \cap Q2) \in Nat /\ Cardinality(Q1 \cup Q2) \in Nat
  BY <1>1, <1>2, FS_CardinalityType
<1>5. Cardinality(Q1 \cap Q2) > Cardinality(Byzantine)
  BY <1>2, <1>3, <1>4, Sizes, SMT
<1>6. ~(Q1 \cap Q2 \subseteq Byzantine)
  <2> SUFFICES ASSUME Q1 \cap Q2 \subseteq Byzantine PROVE FALSE
    OBVIOUS
  <2>1. Cardinality(Q1 \cap Q2) =< Cardinality(Byzantine)
    BY Sizes, FS_Subset
  <2> QED BY <2>1, <1>4, <1>5, Sizes, SMT
<1> QED BY <1>6 DEF Honest

-----------------------------------------------------------------------------
(* The block tree.                                                         *)

GenesisInv ==
    /\ b0 \in blocks
    /\ parent[b0] = b0 /\ qc_ref[b0] = b0 /\ height[b0] = 0
    /\ branch[b0] = {b0}

(* A block is one higher than its parent and extends its parent's branch.  *)
ParentInv ==
    \A b \in blocks \ {b0} :
        /\ height[b] = height[parent[b]] + 1
        /\ branch[b] = branch[parent[b]] \cup {b}
        /\ qc_ref[b] \in branch[parent[b]]

(* A branch is a chain from the genesis to the block, ordered by height.   *)
BranchInv ==
    \A b \in blocks :
        /\ b \in branch[b]
        /\ b0 \in branch[b]
        /\ \A a \in branch[b] :
              /\ a = b \/ height[a] < height[b]
              /\ branch[a] \subseteq branch[b]
        /\ \A a, c \in branch[b] : height[a] =< height[c] => a \in branch[c]
        /\ \A h \in 0 .. height[b] : \E a \in branch[b] : height[a] = h

TreeInv == GenesisInv /\ ParentInv /\ BranchInv

(* The only change to the tree: a new block over a block of the tree.      *)
TreeStep ==
    \/ UNCHANGED tree
    \/ \E b \in Block \ blocks, p \in blocks :
          \E q \in branch[p] : NewBlock(b, p, q)

TreeType ==
    /\ blocks \in SUBSET Block
    /\ parent \in [Block -> blocks]
    /\ qc_ref \in [Block -> blocks]
    /\ height \in [Block -> Nat]
    /\ branch \in [Block -> SUBSET blocks]

(* new Block(...) always gets a name that no block of the tree has.        *)
LEMMA Fresh ==
    ASSUME blocks \in SUBSET Block, blocks # Block
    PROVE  FreshBlk \in Block \ blocks
<1>1. \E b \in Block \ blocks : TRUE
  OBVIOUS
<1> QED BY <1>1 DEF FreshBlk

(* A step leaves the blocks of the tree as they are.                       *)
LEMMA TreeStable ==
    ASSUME TreeType, TreeInv, TreeStep, NEW b \in blocks
    PROVE  /\ b \in blocks'
           /\ parent'[b] = parent[b] /\ qc_ref'[b] = qc_ref[b]
           /\ height'[b] = height[b] /\ branch'[b] = branch[b]
BY DEF TreeType, TreeStep, NewBlock, tree

(* add_blk keeps the block tree well formed: a new block hangs under a     *)
(* block that is there, one higher than it, with a certificate for one of  *)
(* its ancestors.                                                          *)
LEMMA TreePreserved ==
    ASSUME TreeType, TreeInv, TreeStep
    PROVE  TreeType' /\ TreeInv'
<1>1. CASE UNCHANGED tree
  <2> USE <1>1 DEF tree
  <2>1. TreeType' /\ GenesisInv' /\ ParentInv'
    BY DEF TreeType, TreeInv, GenesisInv, ParentInv
  <2>2. BranchInv'
    BY Zenon DEF TreeInv, BranchInv
  <2> QED BY <2>1, <2>2 DEF TreeInv
<1>2. ASSUME NEW b \in Block \ blocks, NEW p \in blocks, NEW q \in branch[p],
             NewBlock(b, p, q)
      PROVE  TreeType' /\ TreeInv'
  <2> USE <1>2 DEF TreeType
  <2>1. /\ parent'[b] = p /\ qc_ref'[b] = q /\ height'[b] = height[p] + 1
        /\ branch'[b] = branch[p] \cup {b} /\ blocks' = blocks \cup {b}
        /\ q \in blocks /\ b # b0
    BY DEF NewBlock, TreeInv, GenesisInv
  <2>2. \A c \in blocks : /\ parent'[c] = parent[c] /\ qc_ref'[c] = qc_ref[c]
                          /\ height'[c] = height[c] /\ branch'[c] = branch[c]
    BY DEF NewBlock
  <2>3. TreeType'
    BY <2>1 DEF NewBlock
  <2>4. GenesisInv'
    BY <2>1, <2>2 DEF TreeInv, GenesisInv
  <2>5. ParentInv'
    <3> SUFFICES ASSUME NEW c \in blocks' \ {b0}
                 PROVE  /\ height'[c] = height'[parent'[c]] + 1
                        /\ branch'[c] = branch'[parent'[c]] \cup {c}
                        /\ qc_ref'[c] \in branch'[parent'[c]]
      BY DEF ParentInv
    <3>1. CASE c = b
      BY <3>1, <2>1, <2>2
    <3>2. CASE c # b
      BY <3>2, <2>1, <2>2 DEF TreeInv, ParentInv
    <3> QED BY <3>1, <3>2
  <2>6. BranchInv'
    <3> SUFFICES ASSUME NEW c \in blocks'
                 PROVE  /\ c \in branch'[c]
                        /\ b0 \in branch'[c]
                        /\ \A a \in branch'[c] :
                              /\ a = c \/ height'[a] < height'[c]
                              /\ branch'[a] \subseteq branch'[c]
                        /\ \A a, d \in branch'[c] :
                              height'[a] =< height'[d] => a \in branch'[d]
                        /\ \A h \in 0 .. height'[c] :
                              \E a \in branch'[c] : height'[a] = h
      BY DEF BranchInv
    <3>1. CASE c # b
      <4>1. c \in blocks /\ branch[c] \subseteq blocks
        BY <3>1, <2>1
      <4>2. \A a \in branch[c] : /\ height'[a] = height[a]
                                 /\ branch'[a] = branch[a]
        BY <4>1, <2>2
      <4>3. branch'[c] = branch[c] /\ height'[c] = height[c]
        BY <4>1, <2>2
      <4>4. /\ c \in branch[c]
            /\ b0 \in branch[c]
            /\ \A a \in branch[c] : /\ a = c \/ height[a] < height[c]
                                    /\ branch[a] \subseteq branch[c]
            /\ \A a, d \in branch[c] : height[a] =< height[d] => a \in branch[d]
            /\ \A h \in 0 .. height[c] : \E a \in branch[c] : height[a] = h
        BY <4>1, Zenon DEF TreeInv, BranchInv
      <4> QED BY <4>2, <4>3, <4>4
    <3>2. CASE c = b
      <4>1. /\ branch'[c] = branch[p] \cup {c} /\ height'[c] = height[p] + 1
            /\ branch[p] \subseteq blocks /\ height[p] \in Nat
            /\ c \notin blocks
        BY <3>2, <2>1
      <4>2. /\ b0 \in branch[p] /\ p \in branch[p]
            /\ \A a \in branch[p] : /\ height[a] =< height[p]
                                    /\ height[a] \in Nat
                                    /\ branch[a] \subseteq branch[p]
        <5>1. /\ b0 \in branch[p] /\ p \in branch[p]
              /\ \A a \in branch[p] : /\ a = p \/ height[a] < height[p]
                                      /\ branch[a] \subseteq branch[p]
          BY Zenon DEF TreeInv, BranchInv
        <5>2. \A a \in branch[p] : height[a] \in Nat
          BY <4>1
        <5> QED BY <5>1, <5>2, <4>1
      <4>3. \A a \in branch'[c] : /\ a = c \/ height'[a] < height'[c]
                                  /\ branch'[a] \subseteq branch'[c]
        BY <4>1, <4>2, <2>2
      <4>4. ASSUME NEW a \in branch'[c], NEW d \in branch'[c],
                   height'[a] =< height'[d]
            PROVE  a \in branch'[d]
        <5>1. CASE d = c
          BY <5>1
        <5>2. CASE d # c /\ a = c
          BY <5>2, <4>1, <4>2, <4>4, <2>2
        <5>3. CASE d # c /\ a # c
          <6>1. a \in branch[p] /\ d \in branch[p]
            BY <5>3, <4>1
          <6> QED BY <6>1, <4>1, <4>4, <2>2 DEF TreeInv, BranchInv
        <5> QED BY <5>1, <5>2, <5>3
      <4>5. ASSUME NEW h \in 0 .. height'[c]
            PROVE  \E a \in branch'[c] : height'[a] = h
        <5>1. CASE h = height'[c]
          BY <5>1, <4>1
        <5>2. CASE h # height'[c]
          <6>1. h \in 0 .. height[p]
            BY <5>2, <4>1
          <6>2. PICK a \in branch[p] : height[a] = h
            BY <6>1 DEF TreeInv, BranchInv
          <6> QED BY <6>2, <4>1, <2>2
        <5> QED BY <5>1, <5>2
      <4> QED BY <4>1, <4>2, <4>3, <4>4, <4>5
    <3> QED BY <3>1, <3>2
  <2> QED BY <2>3, <2>4, <2>5, <2>6 DEF TreeInv
<1> QED BY <1>1, <1>2 DEF TreeStep

(* The tree invariant in the form the proofs below use it.                 *)
LEMMA TreeFacts ==
    ASSUME TreeType, TreeInv, NEW b \in blocks
    PROVE  /\ b \in Block /\ branch[b] \subseteq blocks
           /\ height[b] \in Nat /\ b \in branch[b] /\ b0 \in branch[b]
           /\ b0 \in blocks /\ height[b0] = 0
           /\ \A a \in branch[b] : /\ a \in blocks /\ height[a] \in Nat
                                   /\ height[a] =< height[b]
                                   /\ height[a] = height[b] => a = b
                                   /\ branch[a] \subseteq branch[b]
           /\ \A a, c \in branch[b] : height[a] =< height[c] => a \in branch[c]
           /\ \A a, c \in branch[b] : height[a] = height[c] => a = c
           /\ qc_ref[b] \in branch[b]
           /\ b # b0 => /\ height[qc_ref[b]] < height[b]
                        /\ qc_ref[b] \in branch[parent[b]]
                        /\ height[b] = height[parent[b]] + 1
                        /\ branch[b] = branch[parent[b]] \cup {b}
                        /\ parent[b] \in branch[b]
<1>1. /\ b \in Block /\ branch[b] \subseteq blocks /\ height[b] \in Nat
      /\ b0 \in blocks /\ height[b0] = 0 /\ parent[b] \in blocks
      /\ \A a \in branch[b] : a \in blocks /\ height[a] \in Nat
  BY DEF TreeType, TreeInv, GenesisInv
<1>2. \A x \in blocks :
         /\ x \in branch[x] /\ b0 \in branch[x]
         /\ \A a \in branch[x] : /\ a = x \/ height[a] < height[x]
                                 /\ branch[a] \subseteq branch[x]
  BY Zenon DEF TreeInv, BranchInv
<1>3. \A a, c \in branch[b] : height[a] =< height[c] => a \in branch[c]
  BY Zenon DEF TreeInv, BranchInv
<1>4. \A a \in branch[b] : /\ height[a] =< height[b]
                           /\ height[a] = height[b] => a = b
                           /\ branch[a] \subseteq branch[b]
  BY <1>1, <1>2
<1>5. \A a, c \in branch[b] : height[a] = height[c] => a = c
  <2> SUFFICES ASSUME NEW a \in branch[b], NEW c \in branch[b], height[a] = height[c]
               PROVE  a = c
    OBVIOUS
  <2>1. a \in branch[c]
    BY <1>1, <1>3
  <2> QED BY <2>1, <1>1, <1>2
<1>6. b # b0 => /\ height[qc_ref[b]] < height[b]
                /\ qc_ref[b] \in branch[parent[b]]
                /\ height[b] = height[parent[b]] + 1
                /\ branch[b] = branch[parent[b]] \cup {b}
                /\ parent[b] \in branch[b]
  <2> SUFFICES ASSUME b # b0
               PROVE  /\ height[qc_ref[b]] < height[b]
                      /\ qc_ref[b] \in branch[parent[b]]
                      /\ height[b] = height[parent[b]] + 1
                      /\ branch[b] = branch[parent[b]] \cup {b}
                      /\ parent[b] \in branch[b]
    OBVIOUS
  <2>1. /\ height[b] = height[parent[b]] + 1
        /\ branch[b] = branch[parent[b]] \cup {b}
        /\ qc_ref[b] \in branch[parent[b]]
    BY DEF TreeInv, ParentInv
  <2>2. parent[b] \in branch[b] /\ qc_ref[b] \in branch[b]
    BY <2>1, <1>1, <1>2
  <2>3. height[qc_ref[b]] =< height[parent[b]]
    <3>1. qc_ref[b] = parent[b] \/ height[qc_ref[b]] < height[parent[b]]
      BY <2>1, <1>1, <1>2
    <3> QED BY <3>1, <2>2, <1>1
  <2> QED BY <2>1, <2>2, <2>3, <1>1
<1>7. qc_ref[b] \in branch[b]
  BY <1>2, <1>6 DEF TreeInv, GenesisInv
<1> QED BY <1>1, <1>2, <1>3, <1>4, <1>5, <1>6, <1>7

(* Where the blocks that update() looks at lie.                            *)
LEMMA TargetFacts ==
    ASSUME TreeType, TreeInv, NEW q \in blocks
    PROVE  /\ LockTarget(q) \in branch[q] /\ LockTarget(q) \in blocks
           /\ CommitTarget(q) \in branch[LockTarget(q)] /\ CommitTarget(q) \in branch[q]
           /\ CommitTarget(q) \in blocks
           /\ height[LockTarget(q)] \in Nat /\ height[CommitTarget(q)] \in Nat
           /\ height[CommitTarget(q)] =< height[LockTarget(q)]
           /\ height[LockTarget(q)] =< height[q]
           /\ LockTarget(qc_ref[q]) = CommitTarget(q)
<1>1. LockTarget(q) \in branch[q] /\ LockTarget(q) \in blocks
  BY TreeFacts DEF LockTarget
<1>2. CommitTarget(q) \in branch[LockTarget(q)]
  BY <1>1, TreeFacts DEF CommitTarget
<1>3. branch[LockTarget(q)] \subseteq branch[q] /\ height[LockTarget(q)] =< height[q]
  BY <1>1, TreeFacts
<1>4. /\ CommitTarget(q) \in branch[q] /\ CommitTarget(q) \in blocks
      /\ height[CommitTarget(q)] =< height[LockTarget(q)]
      /\ height[LockTarget(q)] \in Nat /\ height[CommitTarget(q)] \in Nat
  BY <1>1, <1>2, <1>3, TreeFacts
<1>5. LockTarget(qc_ref[q]) = CommitTarget(q)
  BY DEF LockTarget, CommitTarget
<1> QED BY <1>1, <1>2, <1>3, <1>4, <1>5

(* The walk over parents[0] meets every height once.                       *)
LEMMA AncestorFacts ==
    ASSUME TreeType, TreeInv, NEW b \in blocks, NEW h \in 0 .. height[b]
    PROVE  /\ AncestorAt(b, h) \in branch[b] /\ AncestorAt(b, h) \in blocks
           /\ height[AncestorAt(b, h)] = h
<1>1. \E a \in branch[b] : height[a] = h
  BY Zenon DEF TreeInv, BranchInv
<1>2. AncestorAt(b, h) \in branch[b] /\ height[AncestorAt(b, h)] = h
  BY <1>1 DEF AncestorAt
<1> QED BY <1>2, TreeFacts

-----------------------------------------------------------------------------
(* Type correctness.                                                       *)

(* The type invariant of the core contains that of the block tree.         *)
LEMMA TypeTree == TypeOK => TreeType
BY DEF TypeOK, TreeType

(* The commit walk of update() collects blocks of the tree.                *)
LEMMA CommitQueueType ==
    ASSUME TypeOK, TreeInv, NEW r \in Honest, NEW b \in blocks
    PROVE  CommitQueue(r, b) \in Seq(blocks)
<1>1. height[b] \in Nat /\ height[b_exec[r]] \in Nat
  BY DEF TypeOK
<1> DEFINE d == height[b] - height[b_exec[r]]
           g(i) == AncestorAt(b, height[b_exec[r]] + i)
<1>2. \A i \in 1 .. d : g(i) \in blocks
  <2> SUFFICES ASSUME NEW i \in 1 .. d PROVE g(i) \in blocks
    OBVIOUS
  <2>1. height[b_exec[r]] + i \in 0 .. height[b]
    BY <1>1
  <2> QED BY <2>1, AncestorFacts, TypeTree
<1>3. d \in Int
  BY <1>1
<1> HIDE DEF d, g
<1> DEFINE m == IF d \in Nat THEN d ELSE 0
<1>4. m \in Nat /\ 1 .. d = 1 .. m
  BY <1>3
<1> HIDE DEF m
<1>5. [i \in 1 .. m |-> g(i)] \in [1 .. m -> blocks]
  BY <1>2, <1>4
<1>6. [i \in 1 .. m |-> g(i)] \in Seq(blocks)
  BY <1>4, <1>5
<1> QED BY <1>4, <1>6 DEF CommitQueue, d, g

(* update() keeps the types of b_lock, b_exec, decision and executed.      *)
LEMMA UpdateType ==
    ASSUME TypeOK, TreeInv, NEW r \in Honest, NEW q \in blocks, update(r, q)
    PROVE  /\ b_lock' \in [Honest -> blocks]
           /\ b_exec' \in [Honest -> blocks]
           /\ decision' \in [Honest -> SUBSET blocks]
           /\ executed' \in [Honest -> Seq(blocks)]
<1>1. LockAfter(r, q) \in blocks
  BY TargetFacts, TypeTree DEF LockAfter, TypeOK
<1>2. b_lock' \in [Honest -> blocks]
  BY <1>1 DEF update, TypeOK
<1>3. CommitTarget(q) \in blocks
  BY TargetFacts, TypeTree
<1>4. CASE Commit(r, CommitTarget(q))
  <2>1. b_exec' \in [Honest -> blocks] /\ decision' \in [Honest -> SUBSET blocks]
    BY <1>3, <1>4 DEF Commit, ExecAfter, TypeOK
  <2>2. executed[r] \o CommitQueue(r, CommitTarget(q)) \in Seq(blocks)
    <3>1. executed[r] \in Seq(blocks)
      BY DEF TypeOK
    <3> QED BY <3>1, <1>3, CommitQueueType, ConcatProperties
  <2>3. executed' \in [Honest -> Seq(blocks)]
    BY <2>2, <1>4 DEF Commit, TypeOK
  <2> QED BY <1>2, <2>1, <2>3
<1>5. CASE UNCHANGED <<decision, executed, b_exec>>
  BY <1>2, <1>5 DEF TypeOK
<1> QED BY <1>4, <1>5 DEF update

(* Every step of the core changes the tree only by a new block.            *)
LEMMA NextTree ==
    ASSUME TypeOK, [Next]_vars
    PROVE  TreeStep
<1>1. CASE UNCHANGED vars
  BY <1>1 DEF vars, TreeStep, tree
<1>2. ASSUME NEW r \in Running, NEW b \in blocks, on_deliver_blk(r, b)
      PROVE  TreeStep
  BY <1>2 DEF on_deliver_blk, TreeStep
<1>3. ASSUME NEW r \in Running, NEW p \in blocks, on_propose(r, p)
      PROVE  TreeStep
  <2>1. FreshBlk \in Block \ blocks
    BY <1>3, Fresh DEF on_propose, Propose, TypeOK
  <2>2. NewBlock(FreshBlk, p, hqc[r]) /\ hqc[r] \in branch[p]
    BY <1>3 DEF on_propose, Propose
  <2> QED BY <2>1, <2>2 DEF TreeStep
<1>4. ASSUME NEW r \in Running, NEW z \in Replica, NEW b \in blocks,
             on_receive_proposal(r, z, b)
      PROVE  TreeStep
  BY <1>4 DEF on_receive_proposal, TreeStep
<1>5. ASSUME NEW r \in Running, NEW v \in Replica, NEW b \in blocks,
             on_receive_vote(r, v, b)
      PROVE  TreeStep
  BY <1>5 DEF on_receive_vote, TreeStep
<1>6. ASSUME NEW z \in Byzantine, NEW p \in blocks, NEW q \in blocks,
             ByzantinePropose(z, p, q)
      PROVE  TreeStep
  <2>1. FreshBlk \in Block \ blocks
    BY <1>6, Fresh DEF ByzantinePropose, TypeOK
  <2> QED BY <2>1, <1>6 DEF ByzantinePropose, TreeStep
<1> QED BY <1>1, <1>2, <1>3, <1>4, <1>5, <1>6 DEF Next

(* A log over some blocks is a log over more blocks.                       *)
LEMMA SeqMono ==
    ASSUME NEW S, NEW T, S \subseteq T, NEW s \in Seq(S)
    PROVE  s \in Seq(T)
<1>1. Len(s) \in Nat /\ s \in [1 .. Len(s) -> S]
  OBVIOUS
<1>2. s \in [1 .. Len(s) -> T]
  BY <1>1
<1> QED BY <1>1, <1>2

(* Broadcasting a proposal keeps the type of the network.                  *)
LEMMA ProposalsType ==
    ASSUME TypeOK, blocks \subseteq blocks', NEW z \in Replica, NEW b \in blocks',
           proposals' = proposals \cup {<<z, b>>}
    PROVE  proposals' \in SUBSET (Replica \X blocks')
<1>1. proposals \subseteq Replica \X blocks
  BY DEF TypeOK
<1>2. Replica \X blocks \subseteq Replica \X blocks'
  OBVIOUS
<1>3. <<z, b>> \in Replica \X blocks'
  OBVIOUS
<1> QED BY <1>1, <1>2, <1>3

(* Throwing one of the two runtime_errors keeps the type of thrown.        *)
LEMMA ThrownType ==
    ASSUME TypeOK, NEW r \in Honest, NEW e \in Errors, Throw(r, e)
    PROVE  thrown' \in [Honest -> SUBSET Errors]
<1>1. thrown \in [Honest -> SUBSET Errors]
  BY DEF TypeOK
<1> QED BY <1>1 DEF Throw

(* Every handler of the core keeps the types.                              *)
LEMMA TypeStep ==
    ASSUME TypeOK, TreeInv, [Next]_vars
    PROVE  TypeOK'
<1>1. TreeType' /\ blocks \subseteq blocks'
  BY NextTree, TypeTree, TreePreserved, TreeStable
<1>2. CASE UNCHANGED vars
  BY <1>2 DEF vars, TypeOK
<1>3. ASSUME NEW r \in Running, NEW b \in blocks, on_deliver_blk(r, b)
      PROVE  TypeOK'
  BY <1>3 DEF on_deliver_blk, Deliver, TypeOK, Running, tree
<1>4. ASSUME NEW r \in Running, NEW p \in blocks, on_propose(r, p)
      PROVE  TypeOK'
  <2>1. FreshBlk \in Block /\ FreshBlk \in blocks'
    BY <1>4, Fresh DEF on_propose, Propose, NewBlock, TypeOK
  <2>2. r \in Honest /\ hqc[r] \in blocks
    BY DEF Running, TypeOK
  <2>3. /\ b_lock' \in [Honest -> blocks] /\ b_exec' \in [Honest -> blocks]
        /\ decision' \in [Honest -> SUBSET blocks]
        /\ executed' \in [Honest -> Seq(blocks)]
    BY <1>4, <2>2, UpdateType DEF on_propose, Propose
  <2>4. executed' \in [Honest -> Seq(blocks')]
    BY <2>3, <1>1, SeqMono
  <2>5. /\ b_lock' \in [Honest -> blocks'] /\ b_exec' \in [Honest -> blocks']
        /\ decision' \in [Honest -> SUBSET blocks']
    BY <2>3, <1>1
  <2>6. delivered' \in [Honest -> SUBSET blocks'] /\ tails' \in [Honest -> SUBSET blocks']
    <3>1. branch[p] \cup {FreshBlk} \subseteq blocks'
      BY <2>1, <1>1 DEF TypeOK
    <3>2. Deliver(r, FreshBlk, branch[p] \cup {FreshBlk})
      BY <1>4 DEF on_propose, Propose
    <3> QED BY <3>1, <3>2, <2>1, <2>2, <1>1 DEF Deliver, TypeOK
  <2>7. height[p] + 1 \in Nat
    BY DEF TypeOK
  <2> DEFINE unch == UNCHANGED <<hqc, vheight, voted, votes, proposals>>
  <2>8. /\ vheight' \in [Honest -> Nat] /\ votes' \in [Honest -> SUBSET blocks']
        /\ hqc' \in [Honest -> blocks'] /\ proposals' \in SUBSET (Replica \X blocks')
        /\ voted' \in [Honest -> [Block -> SUBSET Replica]]
        /\ thrown' \in [Honest -> SUBSET Errors]
    <3>1. CASE unch /\ \E e \in Errors : Throw(r, e)
      <4>1. thrown' \in [Honest -> SUBSET Errors]
        BY <3>1, <2>2, ThrownType
      <4> QED BY <3>1, <4>1, <1>1 DEF TypeOK
    <3>2. CASE ~unch
      <4>1. PICK votes_b \in SUBSET {r}, opinion \in BOOLEAN :
              /\ vheight' = [vheight EXCEPT ![r] = IF opinion THEN height[p] + 1 ELSE @]
              /\ voted' = [voted EXCEPT ![r][FreshBlk] = votes_b]
              /\ votes' = [votes EXCEPT
                     ![r] = IF votes_b = {} THEN @ ELSE @ \cup {FreshBlk}]
              /\ hqc' = [hqc EXCEPT
                     ![r] = IF Cardinality(votes_b) = nmajority THEN FreshBlk ELSE @]
              /\ proposals' = proposals \cup {<<r, FreshBlk>>}
              /\ UNCHANGED thrown
        BY <1>4, <3>2, Zenon DEF on_propose, Propose, Opinion
      <4>2. votes_b \subseteq Replica /\ r \in Replica
        BY <2>2 DEF Honest
      <4>3. vheight' \in [Honest -> Nat] /\ thrown' \in [Honest -> SUBSET Errors]
        BY <4>1, <2>2, <2>7 DEF TypeOK
      <4>4. votes' \in [Honest -> SUBSET blocks'] /\ hqc' \in [Honest -> blocks']
        BY <4>1, <2>1, <2>2, <1>1 DEF TypeOK
      <4>5. voted' \in [Honest -> [Block -> SUBSET Replica]]
        BY <4>1, <4>2, <2>1, <2>2 DEF TypeOK
      <4>6. proposals' \in SUBSET (Replica \X blocks')
        BY <4>1, <4>2, <2>1, <1>1, ProposalsType
      <4> QED BY <4>3, <4>4, <4>5, <4>6
    <3>3. unch => \E e \in Errors : Throw(r, e)
      <4>1. <<r, FreshBlk>> \notin proposals
        BY <1>4, Fresh DEF on_propose, Propose, TypeOK
      <4> QED BY <4>1, <1>4 DEF on_propose, Propose, Errors
    <3> QED BY <3>1, <3>2, <3>3
  <2> QED BY <1>1, <2>4, <2>5, <2>6, <2>8 DEF TypeOK, TreeType
<1>5. ASSUME NEW r \in Running, NEW z \in Replica, NEW b \in blocks,
             on_receive_proposal(r, z, b)
      PROVE  TypeOK'
  <2>1. r \in Honest /\ qc_ref[b] \in blocks /\ branch[b] \subseteq blocks
        /\ b \in Block /\ height[b] \in Nat
    BY DEF Running, TypeOK
  <2>2. /\ b_lock' \in [Honest -> blocks] /\ b_exec' \in [Honest -> blocks]
        /\ decision' \in [Honest -> SUBSET blocks]
        /\ executed' \in [Honest -> Seq(blocks)]
    BY <1>5, <2>1, UpdateType DEF on_receive_proposal, propose_handler
  <2>3. HqcAfter(r, qc_ref[b]) \in blocks
    BY <2>1 DEF HqcAfter, TypeOK
  <2>4. /\ hqc' \in [Honest -> blocks] /\ delivered' \in [Honest -> SUBSET blocks]
        /\ tails' \in [Honest -> SUBSET blocks]
    BY <1>5, <2>1, <2>3 DEF on_receive_proposal, propose_handler, Deliver, TypeOK
  <2>5. /\ vheight' \in [Honest -> Nat] /\ votes' \in [Honest -> SUBSET blocks]
        /\ thrown' \in [Honest -> SUBSET Errors]
    <3>1. CASE UNCHANGED <<vheight, votes>> /\ Throw(r, "safety breached")
      BY <3>1, <2>1, ThrownType DEF Errors, TypeOK
    <3>2. ASSUME NEW opinion \in BOOLEAN,
                 vheight' = [vheight EXCEPT ![r] = IF opinion THEN height[b] ELSE @],
                 votes' = [votes EXCEPT ![r] = IF opinion /\ r \notin VoteDisabled
                                               THEN @ \cup {b} ELSE @],
                 UNCHANGED thrown
          PROVE  /\ vheight' \in [Honest -> Nat] /\ votes' \in [Honest -> SUBSET blocks]
                 /\ thrown' \in [Honest -> SUBSET Errors]
      BY <3>2, <2>1 DEF TypeOK
    <3> QED BY <3>1, <3>2, <1>5, Zenon DEF on_receive_proposal, Opinion
  <2> QED BY <1>5, <2>2, <2>4, <2>5 DEF on_receive_proposal, tree, TypeOK
<1>6. ASSUME NEW r \in Running, NEW v \in Replica, NEW b \in blocks,
             on_receive_vote(r, v, b)
      PROVE  TypeOK'
  <2>1. r \in Honest /\ branch[b] \subseteq blocks /\ b \in Block
    BY DEF Running, TypeOK
  <2>2. /\ hqc' \in [Honest -> blocks] /\ delivered' \in [Honest -> SUBSET blocks]
        /\ tails' \in [Honest -> SUBSET blocks]
    BY <1>6, <2>1 DEF on_receive_vote, vote_handler, Deliver, TypeOK
  <2>3. voted' \in [Honest -> [Block -> SUBSET Replica]]
    BY <1>6, <2>1 DEF on_receive_vote, vote_handler, TypeOK
  <2> QED BY <1>6, <2>2, <2>3 DEF on_receive_vote, tree, TypeOK
<1>7. ASSUME NEW z \in Byzantine, NEW p \in blocks, NEW q \in blocks,
             ByzantinePropose(z, p, q)
      PROVE  TypeOK'
  <2>1. FreshBlk \in blocks' /\ z \in Replica
    BY <1>7, ByzantineAssumption DEF ByzantinePropose, NewBlock
  <2>2. proposals' \in SUBSET (Replica \X blocks')
    BY <1>7, <2>1, <1>1, ProposalsType DEF ByzantinePropose
  <2>3. executed' \in [Honest -> Seq(blocks')]
    BY <1>7, <1>1, SeqMono DEF ByzantinePropose, TypeOK
  <2> QED BY <1>7, <1>1, <2>2, <2>3 DEF ByzantinePropose, TypeOK, TreeType
<1> QED BY <1>2, <1>3, <1>4, <1>5, <1>6, <1>7 DEF Next

(* on_init leaves a well-typed state, with the genesis block alone in the  *)
(* tree.                                                                   *)
LEMMA InitTree == Init => TypeOK /\ TreeInv
<1> SUFFICES ASSUME Init PROVE TypeOK /\ TreeInv
  OBVIOUS
<1>1. TypeOK
  BY BlockAssumption DEF Init, TypeOK
<1>2. GenesisInv /\ ParentInv
  BY BlockAssumption DEF Init, GenesisInv, ParentInv
<1>3. BranchInv
  BY BlockAssumption DEF Init, BranchInv
<1> QED BY <1>1, <1>2, <1>3 DEF TreeInv

(* TypeOK holds in every reachable state, and the blocks form a tree.      *)
THEOREM TypeCorrect == Spec => [](TypeOK /\ TreeInv)
<1>1. TypeOK /\ TreeInv /\ [Next]_vars => TypeOK' /\ TreeInv'
  BY TypeStep, NextTree, TypeTree, TreePreserved
<1> QED BY <1>1, InitTree, PTL DEF Spec

-----------------------------------------------------------------------------
(* Safety.                                                                 *)

(* A vote is for a block no higher than vheight, and one per height.       *)
VoteOnce ==
    \A r \in Honest :
        /\ \A b \in votes[r] : b # b0 /\ height[b] =< vheight[r]
        /\ \A b, c \in votes[r] : height[b] = height[c] => b = c

(* The signers of a block are a finite set of replicas, so a certificate's *)
(* signatures can be counted.                                              *)
LEMMA SignersFacts ==
    ASSUME NEW b
    PROVE  /\ Signers(b) \in SUBSET Replica /\ IsFiniteSet(Signers(b))
           /\ Cardinality(Signers(b)) \in Nat
<1>1. Signers(b) \in SUBSET Replica
  BY ByzantineAssumption DEF Signers, Honest
<1> QED BY <1>1, ReplicaAssumption, FS_Subset, FS_CardinalityType

(* Two quorums share a correct replica, and it votes once per height: so   *)
(* there is one certificate per height.                                    *)
LEMMA OneCert == TypeOK /\ TreeInv /\ VoteOnce => OneCertPerHeight
<1> SUFFICES ASSUME TypeOK, TreeInv, VoteOnce,
                    NEW b \in blocks, NEW c \in blocks,
                    Certified(b), Certified(c), height[b] = height[c]
             PROVE  b = c
  BY DEF OneCertPerHeight
<1>1. CASE b = b0 \/ c = b0
  <2>1. b0 \in branch[b] /\ b0 \in branch[c] /\ height[b0] = 0
    BY TypeTree, TreeFacts
  <2>2. height[b] = 0 /\ height[c] = 0
    BY <1>1, <2>1
  <2> QED BY <2>1, <2>2, TypeTree, TreeFacts
<1>2. CASE b # b0 /\ c # b0
  <2>1. PICK r \in Honest : r \in Signers(b) /\ r \in Signers(c)
    BY <1>2, SignersFacts, QuorumIntersection DEF Certified
  <2>2. b \in votes[r] /\ c \in votes[r]
    BY <2>1 DEF Signers, Honest
  <2> QED BY <2>2 DEF VoteOnce
<1> QED BY <1>1, <1>2

(* The same, of the state after a step.                                    *)
LEMMA OneCertPrime == TypeOK' /\ TreeInv' /\ VoteOnce' => OneCertPerHeight'
BY OneCert, PTL

-----------------------------------------------------------------------------
(* The inductive invariant.                                                *)

QcCertified == \A b \in blocks : Certified(qc_ref[b])

LockCertified == \A r \in Honest : Certified(b_lock[r])

(* A replica counts only votes that were cast.                             *)
VotedSigned ==
    \A r \in Honest : \A b \in Block \ {b0} : voted[r][b] \subseteq Signers(b)

(* Whoever voted for b is locked at least as high as what b's certificate  *)
(* makes a voter lock.                                                     *)
VoteLocks ==
    \A r \in Honest : \A b \in votes[r] :
        height[CommitTarget(b)] =< height[b_lock[r]]

(* Whoever voted for c and later for the higher w saw, below w, a          *)
(* certified block that is as high as what it had locked for c.            *)
VoteJustified ==
    \A r \in Honest : \A c, w \in votes[r] :
        height[c] < height[w] =>
            \E x \in branch[w] : /\ x # w
                                 /\ Certified(x)
                                 /\ height[CommitTarget(c)] =< height[x]

DecidedIsBranch == \A r \in Honest : decision[r] = branch[b_exec[r]]

DecidedBelowLock ==
    \A r \in Honest : \A b \in decision[r] : height[b] =< height[b_lock[r]]

(* What a replica executed last was committed by a certified chain.        *)
ExecChain ==
    \A r \in Honest :
        \/ b_exec[r] = b0
        \/ \E q \in blocks : /\ Certified(q)
                             /\ DirectChain(q)
                             /\ CommitTarget(q) = b_exec[r]

(* q has a certificate or may still get one: a quorum exists in which each *)
(* correct replica has voted for q or can still vote at q's height.        *)
Choosable(q) ==
    \E Q \in SUBSET Replica :
        /\ Cardinality(Q) >= nmajority
        /\ \A r \in Q \cap Honest : q \in votes[r] \/ vheight[r] < height[q]

(* ConflictExcluded, from the moment q can be certified at all.            *)
NoConflict ==
    \A q, w \in blocks :
        /\ DirectChain(q)
        /\ Choosable(q)
        /\ Certified(w)
        /\ height[CommitTarget(q)] =< height[w]
        => CommitTarget(q) \in branch[w]

(* What the handlers keep about votes, locks and certificates ...          *)
VotingInv ==
    /\ QcCertified /\ HqcCertified /\ LockCertified /\ VotedSigned
    /\ VoteOnce /\ VoteLocks /\ VoteJustified
    /\ LockBelowVote /\ LockBelowHqc

(* ... and about what they decide.                                         *)
DecisionInv ==
    /\ DecidedIsBranch /\ DecidedBelowLock /\ ExecChain
    /\ NoConflict /\ NeverBreached

Inv == TypeOK /\ TreeInv /\ VotingInv /\ DecisionInv

-----------------------------------------------------------------------------
(* Consequences of the invariant in one state.                             *)

(* Only blocks that were built have a certificate.                         *)
LEMMA CertifiedBlocks ==
    ASSUME TypeOK, TreeInv, NEW x, Certified(x)
    PROVE  x \in blocks
<1>1. CASE x = b0
  BY <1>1 DEF TreeInv, GenesisInv
<1>2. CASE x # b0
  <2>1. \E r \in Honest : r \in Signers(x) /\ r \in Signers(x)
    BY <1>2, SignersFacts, QuorumIntersection DEF Certified
  <2> QED BY <2>1 DEF Signers, Honest, TypeOK
<1> QED BY <1>1, <1>2

(* A certified block is one that a quorum may still certify.               *)
LEMMA CertifiedChoosable ==
    ASSUME NEW q, q # b0, Certified(q)
    PROVE  Choosable(q)
<1>1. \A r \in Signers(q) \cap Honest : q \in votes[r]
  BY DEF Signers, Honest
<1>2. Cardinality(Signers(q)) >= nmajority
  BY DEF Certified
<1> QED BY <1>1, <1>2, SignersFacts DEF Choosable

(* Below q, the blocks that certify its chain are the only certified ones. *)
LowerExcluded ==
    \A q, w \in blocks :
        /\ q # b0
        /\ DirectChain(q)
        /\ Certified(w)
        /\ height[CommitTarget(q)] =< height[w]
        /\ height[w] < height[q]
        => CommitTarget(q) \in branch[w]

(* LowerExcluded follows from one certificate per height: q's own branch   *)
(* holds the certified block of each height down to the committed one.     *)
LEMMA Lower == TypeOK /\ TreeInv /\ VoteOnce /\ QcCertified => LowerExcluded
<1> SUFFICES ASSUME TypeOK, TreeInv, VoteOnce, QcCertified,
                    NEW q \in blocks, NEW w \in blocks,
                    q # b0, DirectChain(q), Certified(w),
                    height[CommitTarget(q)] =< height[w], height[w] < height[q]
             PROVE  CommitTarget(q) \in branch[w]
  BY DEF LowerExcluded
<1> DEFINE l == LockTarget(q)
           c == CommitTarget(q)
<1>1. /\ l \in blocks /\ c \in blocks /\ c \in branch[l] /\ c \in branch[q]
      /\ height[l] \in Nat /\ height[c] \in Nat /\ height[w] \in Nat
      /\ height[q] = height[parent[q]] + 1 /\ w \in branch[w] /\ b0 \in branch[w]
  BY TypeTree, TreeFacts, TargetFacts
<1>2. Certified(c) /\ (~TwoStep => Certified(l))
  BY <1>1 DEF QcCertified, CommitTarget, LockTarget
<1>3. height[w] = height[c] => w = c
  BY <1>1, <1>2, OneCert DEF OneCertPerHeight
<1>4. CASE TwoStep
  <2>1. height[q] = height[c] + 1
    BY <1>1, <1>4 DEF DirectChain, LockTarget
  <2> QED BY <2>1, <1>1, <1>3
<1>5. CASE ~TwoStep
  <2>1. height[q] = height[l] + 1
    BY <1>1, <1>5 DEF DirectChain
  <2>2. height[w] = height[l] => w = l
    BY <1>1, <1>2, <1>5, OneCert DEF OneCertPerHeight
  <2>3. CASE l = b0
    <3>1. c = b0
      BY <2>3 DEF CommitTarget, TreeInv, GenesisInv
    <3> QED BY <3>1, <1>1
  <2>4. CASE l # b0
    <3>1. height[l] = height[c] + 1
      BY <2>4, <1>1, TypeTree, TreeFacts DEF DirectChain
    <3>2. height[w] = height[c] \/ height[w] = height[l]
      BY <3>1, <2>1, <1>1
    <3> QED BY <3>2, <2>2, <1>1, <1>3
  <2> QED BY <2>3, <2>4
<1> QED BY <1>4, <1>5

(* The walk of the commit rule always ends in b_exec.                      *)
LEMMA NoBreach ==
    ASSUME Inv, NEW r \in Honest, NEW q \in blocks, Certified(q)
    PROVE  ~Breached(r, q)
<1> SUFFICES ASSUME CommitReached(r, q), b_exec[r] \notin branch[CommitTarget(q)]
             PROVE  FALSE
  BY DEF Breached
<1> USE DEF Inv
<1> DEFINE c == CommitTarget(q)
           e == b_exec[r]
<1>1. /\ c \in blocks /\ e \in blocks /\ height[c] \in Nat /\ height[e] \in Nat
      /\ LockTarget(q) \in blocks /\ b0 \in branch[c]
  BY TypeTree, TargetFacts, TreeFacts DEF TypeOK
<1>2. Certified(c)
  BY <1>1 DEF VotingInv, QcCertified, CommitTarget
<1>3. e # b0
  BY <1>1
<1>4. PICK d \in blocks : Certified(d) /\ DirectChain(d) /\ CommitTarget(d) = e
  BY <1>3 DEF DecisionInv, ExecChain
<1>5. d # b0
  <2>1. CommitTarget(b0) = b0
    BY DEF CommitTarget, LockTarget, TreeInv, GenesisInv
  <2> QED BY <2>1, <1>3, <1>4
<1>6. Choosable(d)
  BY <1>4, <1>5, CertifiedChoosable
<1>7. height[c] < height[e]
  <2>1. height[e] =< height[c] => e \in branch[c]
    BY <1>1, <1>2, <1>4, <1>6 DEF DecisionInv, NoConflict
  <2> QED BY <2>1, <1>1
<1>8. c \notin decision[r]
  BY DEF CommitReached
<1>9. c # b0
  BY <1>8, <1>1, TypeTree, TreeFacts DEF DecisionInv, DecidedIsBranch
<1>10. q # b0
  BY <1>9 DEF CommitTarget, LockTarget, TreeInv, GenesisInv
<1>11. Certified(e)
  <2>1. LockTarget(d) \in blocks
    BY TypeTree, TargetFacts
  <2> QED BY <2>1, <1>4 DEF VotingInv, QcCertified, CommitTarget
<1>12. c \in branch[e]
  <2>1. Choosable(q) /\ DirectChain(q)
    BY <1>10, CertifiedChoosable DEF CommitReached
  <2> QED BY <2>1, <1>1, <1>7, <1>11 DEF DecisionInv, NoConflict
<1> QED BY <1>8, <1>12 DEF DecisionInv, DecidedIsBranch

-----------------------------------------------------------------------------
(* Steps, seen through what they do to votes and locks.                    *)

(* r accepts w: the vheight test, the lock it holds afterwards and the     *)
(* certified block below w that its voting rule found.  It votes for w     *)
(* unless it has voting disabled.                                          *)
Accepts(r, w) ==
    /\ w \in blocks' /\ w # b0
    /\ vheight[r] < height'[w]
    /\ vheight' = [vheight EXCEPT ![r] = height'[w]]
    /\ votes' = votes \/ votes' = [votes EXCEPT ![r] = @ \cup {w}]
    /\ (height[CommitTarget(w)] =< height[b_lock[r]])'
    /\ \E x \in blocks : /\ x # w
                         /\ x \in branch'[w]
                         /\ Certified(x)
                         /\ height[b_lock'[r]] =< height[x]

VoteStep == UNCHANGED <<votes, vheight>> \/ \E r \in Honest : \E w \in blocks' : Accepts(r, w)

(* Locks only rise, to certified blocks.                                   *)
LockStep ==
    \A r \in Honest : /\ b_lock'[r] \in blocks
                      /\ Certified(b_lock'[r])
                      /\ height[b_lock[r]] =< height[b_lock'[r]]

(* A vote changes the votes and the vheight of the voter only, and adds    *)
(* one block.                                                              *)
LEMMA AcceptsVotes ==
    ASSUME TypeOK, NEW r \in Honest, NEW w, Accepts(r, w), NEW s \in Honest
    PROVE  /\ votes[s] \subseteq votes'[s]
           /\ votes'[s] \subseteq votes[s] \cup {w}
           /\ s # r => votes'[s] = votes[s] /\ vheight'[s] = vheight[s]
           /\ vheight'[r] = height'[w]
<1>1. votes \in [Honest -> SUBSET blocks] /\ vheight \in [Honest -> Nat]
  BY DEF TypeOK
<1>2. /\ votes' = votes \/ votes' = [votes EXCEPT ![r] = @ \cup {w}]
      /\ vheight' = [vheight EXCEPT ![r] = height'[w]]
  BY DEF Accepts
<1> QED BY <1>1, <1>2

(* Votes are never taken back, so certificates are never lost.             *)
LEMMA VotesGrow ==
    ASSUME TypeOK, VoteStep
    PROVE  /\ \A r \in Honest : votes[r] \subseteq votes'[r]
           /\ \A x : Signers(x) \subseteq Signers(x)'
           /\ \A x : Certified(x) => Certified(x)'
<1>1. \A r \in Honest : votes[r] \subseteq votes'[r]
  BY AcceptsVotes DEF VoteStep
<1>2. \A x : Signers(x) \subseteq Signers(x)'
  BY <1>1 DEF Signers
<1>3. ASSUME NEW x, Certified(x) PROVE Certified(x)'
  <2>1. CASE x = b0
    BY <2>1 DEF Certified
  <2>2. CASE x # b0
    <3>1. Signers(x)' \in SUBSET Replica
      BY ByzantineAssumption DEF Signers, Honest
    <3>2. IsFiniteSet(Signers(x)')
      BY <3>1, ReplicaAssumption, FS_Subset
    <3>3. /\ Cardinality(Signers(x)) =< Cardinality(Signers(x)')
          /\ Cardinality(Signers(x)) \in Nat /\ Cardinality(Signers(x)') \in Nat
      BY <1>2, <3>2, FS_Subset, FS_CardinalityType
    <3>4. Cardinality(Signers(x)) >= nmajority
      BY <2>2, <1>3 DEF Certified
    <3>5. Cardinality(Signers(x)') >= nmajority
      BY <3>3, <3>4, Sizes
    <3> QED BY <3>5 DEF Certified
  <2> QED BY <2>1, <2>2
<1> QED BY <1>1, <1>2, <1>3

(* Certified(x)', as an operator that takes a primed argument too.         *)
CertifiedNext(x) ==
    \/ x = b0
    \/ Cardinality(Byzantine \cup {r \in Honest : x \in votes'[r]}) >= nmajority

(* A certificate of this state is one of the next state.                   *)
LEMMA CertificatesStay ==
    ASSUME TypeOK, VoteStep
    PROVE  \A x : Certified(x) => CertifiedNext(x)
BY VotesGrow DEF Certified, Signers, CertifiedNext

(* Only the block that is voted for can become certified.                  *)
LEMMA NewCertificate ==
    ASSUME TypeOK, VoteStep, NEW x, Certified(x)', ~Certified(x)
    PROVE  \E r \in Honest : Accepts(r, x)
<1>1. CASE UNCHANGED <<votes, vheight>>
  BY <1>1 DEF Certified, Signers
<1>2. ASSUME NEW r \in Honest, NEW w \in blocks', Accepts(r, w)
      PROVE  \E s \in Honest : Accepts(s, x)
  <2>1. CASE x = w
    BY <1>2, <2>1
  <2>2. CASE x # w
    <3>1. \A s \in Honest : x \in votes'[s] <=> x \in votes[s]
      BY <1>2, <2>2, AcceptsVotes
    <3>2. Signers(x)' = Signers(x)
      BY <3>1 DEF Signers
    <3> QED BY <3>2 DEF Certified
  <2> QED BY <2>1, <2>2
<1> QED BY <1>1, <1>2 DEF VoteStep

(* A step in which a replica votes only above vheight keeps the one vote   *)
(* per height.                                                             *)
LEMMA VoteOnceStep ==
    ASSUME TypeOK, TreeInv, TreeStep, VoteStep, VoteOnce
    PROVE  VoteOnce'
<1>1. \A r \in Honest : \A b \in votes[r] : b \in blocks /\ height'[b] = height[b]
                                            /\ height[b] \in Nat /\ vheight[r] \in Nat
  BY TypeTree, TreeStable DEF TypeOK
<1>2. CASE UNCHANGED <<votes, vheight>>
  <2>1. ASSUME NEW s \in Honest
        PROVE  votes'[s] = votes[s] /\ vheight'[s] = vheight[s]
    BY <1>2
  <2> QED BY <1>1, <2>1 DEF VoteOnce
<1>3. ASSUME NEW r \in Honest, NEW w \in blocks', Accepts(r, w)
      PROVE  VoteOnce'
  <2>1. /\ \A s \in Honest : s # r => votes'[s] = votes[s] /\ vheight'[s] = vheight[s]
        /\ vheight'[r] = height'[w] /\ vheight[r] < height'[w] /\ w # b0
        /\ votes'[r] \subseteq votes[r] \cup {w}
    <3>1. vheight[r] < height'[w] /\ w # b0
      BY <1>3 DEF Accepts
    <3> QED BY <1>3, <3>1, AcceptsVotes
  <2>2. height'[w] \in Nat
    BY TreePreserved, TypeTree DEF TreeType
  <2>3. ASSUME NEW s \in Honest, NEW b \in votes'[s]
        PROVE  b # b0 /\ height'[b] =< vheight'[s]
    <3>1. CASE s # r
      BY <3>1, <2>1, <1>1, <2>3 DEF VoteOnce
    <3>2. CASE s = r /\ b = w
      BY <3>2, <2>1, <2>2
    <3>3. CASE s = r /\ b # w
      BY <3>3, <2>1, <2>2, <1>1, <2>3 DEF VoteOnce
    <3> QED BY <3>1, <3>2, <3>3
  <2>4. ASSUME NEW s \in Honest, NEW b \in votes'[s], NEW c \in votes'[s],
               height'[b] = height'[c]
        PROVE  b = c
    <3>1. CASE s # r
      BY <3>1, <2>1, <1>1, <2>4 DEF VoteOnce
    <3>2. CASE s = r
      <4>1. \A d \in votes[r] : height'[d] < height'[w]
        BY <2>1, <2>2, <1>1 DEF VoteOnce
      <4>2. CASE b \in votes[r] /\ c \in votes[r]
        BY <4>2, <3>2, <1>1, <2>4 DEF VoteOnce
      <4>3. CASE b = w \/ c = w
        BY <4>1, <4>3, <3>2, <2>1, <2>2, <2>4, <1>1
      <4> QED BY <4>2, <4>3, <3>2, <2>1, <2>4
    <3> QED BY <3>1, <3>2
  <2> QED BY <2>3, <2>4 DEF VoteOnce
<1> QED BY <1>2, <1>3 DEF VoteStep

(* What CommitTarget and the branch of a block are does not change.        *)
LEMMA TargetStable ==
    ASSUME TypeOK, TreeInv, TreeStep, NEW b \in blocks
    PROVE  /\ LockTarget(b)' = LockTarget(b) /\ CommitTarget(b)' = CommitTarget(b)
           /\ DirectChain(b)' <=> DirectChain(b)
<1>1. LockTarget(b)' = LockTarget(b)
  BY TypeTree, TreeStable DEF LockTarget
<1>2. LockTarget(b) \in blocks
  BY TypeTree, TargetFacts
<1>3. CommitTarget(b)' = CommitTarget(b)
  BY <1>1, <1>2, TypeTree, TreeStable DEF CommitTarget
<1>4. parent'[LockTarget(b)] = parent[LockTarget(b)] /\ parent'[b] = parent[b]
  BY <1>2, TypeTree, TreeStable
<1> QED BY <1>1, <1>3, <1>4 DEF DirectChain

(* A step in which locks only rise keeps every replica locked at or above  *)
(* what the blocks it voted for have locked.                               *)
LEMMA VoteLocksStep ==
    ASSUME TypeOK, TreeInv, TreeStep, VoteStep, LockStep, VoteLocks
    PROVE  VoteLocks'
<1> SUFFICES ASSUME NEW s \in Honest, NEW b \in votes'[s]
             PROVE  (height[CommitTarget(b)] =< height[b_lock[s]])'
  BY DEF VoteLocks
<1>1. CASE b \in votes[s]
  <2>1. /\ b \in blocks /\ CommitTarget(b) \in blocks /\ b_lock[s] \in blocks
        /\ b_lock'[s] \in blocks
    BY <1>1, TypeTree, TargetFacts DEF TypeOK, LockStep
  <2>2. height[CommitTarget(b)] =< height[b_lock[s]]
    BY <1>1 DEF VoteLocks
  <2>3. height[b_lock[s]] =< height[b_lock'[s]]
    BY DEF LockStep
  <2>4. height[CommitTarget(b)] \in Nat /\ height[b_lock[s]] \in Nat
        /\ height[b_lock'[s]] \in Nat
    BY <2>1 DEF TypeOK
  <2>5. /\ height'[CommitTarget(b)] = height[CommitTarget(b)]
        /\ height'[b_lock'[s]] = height[b_lock'[s]]
    BY <2>1, TypeTree, TreeStable
  <2>6. CommitTarget(b)' = CommitTarget(b)
    BY <2>1, TargetStable
  <2> QED BY <2>2, <2>3, <2>4, <2>5, <2>6
<1>2. CASE b \notin votes[s]
  <2>1. PICK r \in Honest, w \in blocks' : Accepts(r, w)
    BY <1>2 DEF VoteStep
  <2>2. s = r /\ b = w
    BY <2>1, <1>2, AcceptsVotes
  <2> QED BY <2>1, <2>2 DEF Accepts
<1> QED BY <1>1, <1>2

(* A step that votes by the rule of on_receive_proposal keeps every vote   *)
(* justified: the lock left by the earlier vote is below the later block,  *)
(* or a certificate above that lock is.                                    *)
LEMMA VoteJustifiedStep ==
    ASSUME TypeOK, TreeInv, TreeStep, VoteStep, LockStep,
           VoteOnce, VoteLocks, VoteJustified
    PROVE  VoteJustified'
<1> SUFFICES ASSUME NEW s \in Honest, NEW c \in votes'[s], NEW w \in votes'[s],
                    height'[c] < height'[w]
             PROVE  \E x \in branch'[w] : /\ x # w
                                          /\ Certified(x)'
                                          /\ (height[CommitTarget(c)] =< height[x])'
  BY Zenon DEF VoteJustified
<1>0. TreeType /\ TreeType' /\ TreeInv'
  BY TypeTree, TreePreserved
<1>1. CASE c \in votes[s] /\ w \in votes[s]
  <2>1. c \in blocks /\ w \in blocks /\ height'[c] = height[c] /\ height'[w] = height[w]
        /\ branch'[w] = branch[w]
    BY <1>0, <1>1, TreeStable DEF TypeOK
  <2>2. PICK x \in branch[w] : /\ x # w /\ Certified(x)
                               /\ height[CommitTarget(c)] =< height[x]
    BY <1>1, <2>1 DEF VoteJustified
  <2>3. x \in blocks /\ CommitTarget(c) \in blocks
    BY <1>0, <2>1, TreeFacts, TargetFacts
  <2>4. /\ height'[x] = height[x] /\ CommitTarget(c)' = CommitTarget(c)
        /\ height'[CommitTarget(c)] = height[CommitTarget(c)]
    BY <1>0, <2>1, <2>3, TreeStable, TargetStable
  <2>5. Certified(x)'
    BY <2>2, VotesGrow
  <2> QED BY <2>1, <2>2, <2>4, <2>5
<1>2. CASE ~(c \in votes[s] /\ w \in votes[s])
  <2>1. PICK y \in blocks' : Accepts(s, y)
    <3>1. PICK r \in Honest, y \in blocks' : Accepts(r, y)
      BY <1>2 DEF VoteStep
    <3>2. s = r
      BY <3>1, <1>2, AcceptsVotes
    <3> QED BY <3>1, <3>2
  <2>2. \A b \in votes[s] : height'[b] < height'[y]
    <3>1. \A b \in votes[s] : b \in blocks /\ height[b] \in Nat /\ height'[b] = height[b]
                              /\ height[b] =< vheight[s]
      BY <1>0, TreeStable DEF TypeOK, VoteOnce
    <3>2. vheight[s] < height'[y] /\ vheight[s] \in Nat /\ height'[y] \in Nat
      BY <1>0, <2>1 DEF Accepts, TypeOK, TreeType
    <3> QED BY <3>1, <3>2
  <2>3. votes'[s] \subseteq votes[s] \cup {y}
    BY <2>1, AcceptsVotes
  <2>4. \A b \in votes'[s] : height'[b] \in Nat
    <3>1. \A b \in votes'[s] : b \in blocks'
      BY <2>3, <1>0, TreeStable DEF TypeOK
    <3> QED BY <3>1, <1>0 DEF TreeType
  <2>5. w = y /\ c \in votes[s]
    BY <1>2, <2>2, <2>3, <2>4
  <2>6. PICK x \in blocks : /\ x # w /\ x \in branch'[w] /\ Certified(x)
                            /\ height[b_lock'[s]] =< height[x]
    BY <2>1, <2>5, Zenon DEF Accepts
  <2>7. /\ c \in blocks /\ CommitTarget(c) \in blocks
        /\ b_lock[s] \in blocks /\ b_lock'[s] \in blocks
    BY <2>5, <1>0, TargetFacts DEF TypeOK, LockStep
  <2>8. height[CommitTarget(c)] =< height[x]
    <3>1. height[CommitTarget(c)] =< height[b_lock[s]]
      BY <2>5 DEF VoteLocks
    <3>2. height[b_lock[s]] =< height[b_lock'[s]]
      BY DEF LockStep
    <3>3. /\ height[CommitTarget(c)] \in Nat /\ height[b_lock[s]] \in Nat
          /\ height[b_lock'[s]] \in Nat /\ height[x] \in Nat
      BY <2>7 DEF TypeOK
    <3> QED BY <3>1, <3>2, <3>3, <2>6
  <2>9. /\ height'[x] = height[x] /\ CommitTarget(c)' = CommitTarget(c)
        /\ height'[CommitTarget(c)] = height[CommitTarget(c)]
    BY <1>0, <2>7, TreeStable, TargetStable
  <2>10. Certified(x)'
    BY <2>6, VotesGrow
  <2> QED BY <2>6, <2>8, <2>9, <2>10
<1> QED BY <1>1, <1>2

(* A block that can be certified after a step could be before it.          *)
LEMMA ChoosableBefore ==
    ASSUME TypeOK, TreeInv, TreeStep, VoteStep, NEW q \in blocks, Choosable(q)'
    PROVE  Choosable(q)
<1>1. PICK Q \in SUBSET Replica :
         /\ Cardinality(Q) >= nmajority
         /\ \A r \in Q \cap Honest : q \in votes'[r] \/ vheight'[r] < height'[q]
  BY DEF Choosable
<1>2. height'[q] = height[q] /\ height[q] \in Nat
  BY TypeTree, TreeStable DEF TypeOK
<1>3. ASSUME NEW r \in Q \cap Honest
      PROVE  q \in votes[r] \/ vheight[r] < height[q]
  <2>1. vheight[r] \in Nat
    BY DEF TypeOK
  <2>2. CASE UNCHANGED <<votes, vheight>>
    BY <2>2, <1>1, <1>2
  <2>3. ASSUME NEW s \in Honest, NEW w \in blocks', Accepts(s, w)
        PROVE  q \in votes[r] \/ vheight[r] < height[q]
    <3>1. CASE r # s
      <4>1. votes'[r] = votes[r] /\ vheight'[r] = vheight[r]
        BY <2>3, <3>1, AcceptsVotes
      <4> QED BY <4>1, <1>1, <1>2
    <3>2. CASE r = s
      <4>1. votes'[r] \subseteq votes[r] \cup {w} /\ vheight'[r] = height'[w]
        BY <2>3, <3>2, AcceptsVotes
      <4>2. vheight[r] < height'[w] /\ height'[w] \in Nat
        <5>1. vheight[r] < height'[w]
          BY <2>3, <3>2 DEF Accepts
        <5>2. height'[w] \in Nat
          BY TypeTree, TreePreserved DEF TreeType
        <5> QED BY <5>1, <5>2
      <4> QED BY <4>1, <4>2, <2>1, <1>1, <1>2
    <3> QED BY <3>1, <3>2
  <2> QED BY <2>2, <2>3 DEF VoteStep
<1> QED BY <1>1, <1>3 DEF Choosable

(* Facts about the tree, to be used in the state after a step.             *)
TreeFact ==
    \A b \in blocks :
        /\ b0 \in branch[b] /\ height[b] \in Nat /\ height[b0] = 0
        /\ \A a \in branch[b] : branch[a] \subseteq branch[b] /\ a \in blocks
        /\ CommitTarget(b) \in branch[b]
        /\ height[b] = 0 => b = b0
        /\ CommitTarget(b0) = b0

(* The facts on the block tree that the safety argument uses.              *)
LEMMA TreeFactHolds == TypeOK /\ TreeInv => TreeFact
<1> SUFFICES ASSUME TypeOK, TreeInv, NEW b \in blocks
             PROVE  /\ b0 \in branch[b] /\ height[b] \in Nat /\ height[b0] = 0
                    /\ \A a \in branch[b] : branch[a] \subseteq branch[b] /\ a \in blocks
                    /\ CommitTarget(b) \in branch[b]
                    /\ height[b] = 0 => b = b0
                    /\ CommitTarget(b0) = b0
  BY DEF TreeFact
<1>1. /\ b0 \in branch[b] /\ height[b] \in Nat /\ height[b0] = 0
      /\ \A a \in branch[b] : branch[a] \subseteq branch[b] /\ a \in blocks
      /\ CommitTarget(b) \in branch[b]
  BY TypeTree, TreeFacts, TargetFacts
<1>2. height[b] = 0 => b = b0
  BY <1>1, TypeTree, TreeFacts
<1>3. CommitTarget(b0) = b0
  BY DEF CommitTarget, LockTarget, TreeInv, GenesisInv
<1> QED BY <1>1, <1>2, <1>3

(* The same, of the state after a step.                                    *)
LEMMA TreeFactPrime == TypeOK' /\ TreeInv' => TreeFact'
BY TreeFactHolds, PTL

(* Lower, of the state after a step.                                       *)
LEMMA LowerPrime ==
    TypeOK' /\ TreeInv' /\ VoteOnce' /\ QcCertified' => LowerExcluded'
BY Lower, PTL

(* The heart of the argument: no step brings about a conflicting           *)
(* certificate.                                                            *)
LEMMA NoConflictStep ==
    ASSUME TypeOK, TreeInv, TreeStep, VoteStep, NoConflict,
           TypeOK', VoteOnce, VoteOnce', VoteJustified', QcCertified'
    PROVE  NoConflict'
<1>0. TreeInv' /\ TreeType /\ TreeType'
  BY TypeTree, TreePreserved
<1> SUFFICES ASSUME NEW q \in blocks', NEW w \in blocks',
                    DirectChain(q)', Choosable(q)', Certified(w)',
                    (height[CommitTarget(q)] =< height[w])'
             PROVE  (CommitTarget(q) \in branch[w])'
  BY DEF NoConflict
<1> DEFINE c == CommitTarget(q)'
<1>1. /\ b0 \in branch'[w] /\ height'[w] \in Nat /\ height'[q] \in Nat
      /\ c \in branch'[q] /\ c \in blocks' /\ height'[c] \in Nat
      /\ height'[c] = 0 => c = b0
      /\ q = b0 => c = b0
      /\ height'[b0] = 0
      /\ \A a \in branch'[w] : branch'[a] \subseteq branch'[w] /\ a \in blocks'
  BY <1>0, TreeFactPrime DEF TreeFact
<1> HIDE DEF c
<1>2. height'[c] =< height'[w]
  BY DEF c
<1>3. CASE q = b0 \/ w = b0
  <2>1. c = b0
    BY <1>1, <1>2, <1>3
  <2> QED BY <2>1, <1>1 DEF c
<1>4. CASE q # b0 /\ w # b0
  <2>1. PICK Q \in SUBSET Replica :
           /\ Cardinality(Q) >= nmajority
           /\ \A r \in Q \cap Honest : q \in votes'[r] \/ vheight'[r] < height'[q]
    BY DEF Choosable
  <2>2. Signers(w)' \in SUBSET Replica /\ Cardinality(Signers(w)') >= nmajority
    BY <1>4, ByzantineAssumption DEF Certified, Signers, Honest
  <2>3. PICK s \in Honest : s \in Q /\ s \in Signers(w)'
    BY <2>1, <2>2, QuorumIntersection
  <2>4. w \in votes'[s] /\ height'[w] =< vheight'[s] /\ vheight'[s] \in Nat
    BY <2>3 DEF Signers, Honest, VoteOnce, TypeOK
  <2>5. CASE height'[w] < height'[q]
    <3>1. LowerExcluded'
      BY <1>0, LowerPrime
    <3> QED BY <3>1, <2>5, <1>4 DEF LowerExcluded
  <2>6. CASE height'[w] >= height'[q]
    <3>1. q \in votes'[s]
      BY <2>1, <2>3, <2>4, <2>6, <1>1
    <3>2. CASE height'[w] = height'[q]
      <4>1. w = q
        BY <3>1, <3>2, <2>4 DEF VoteOnce
      <4> QED BY <4>1, <1>1 DEF c
    <3>3. CASE height'[q] < height'[w]
      <4>1. PICK x \in branch'[w] : /\ x # w
                                    /\ Certified(x)'
                                    /\ height'[c] =< height'[x]
        BY <3>1, <3>3, <2>4, Zenon DEF VoteJustified, c
      <4>2. q \in blocks
        <5> SUFFICES ASSUME q \notin blocks PROVE FALSE
          OBVIOUS
        <5>1. q \notin votes[s]
          BY DEF TypeOK
        <5>2. PICK r \in Honest, y \in blocks' : Accepts(r, y)
          BY <5>1, <3>1 DEF VoteStep
        <5>3. r = s /\ y = q
          BY <5>1, <5>2, <3>1, AcceptsVotes
        <5>4. vheight'[s] = height'[q]
          BY <5>2, <5>3, AcceptsVotes
        <5> QED BY <5>4, <3>3, <2>4, <1>1
      <4>3. /\ DirectChain(q) /\ Choosable(q) /\ c = CommitTarget(q) /\ c \in blocks
            /\ height'[c] = height[c] /\ height[c] \in Nat
        <5>1. DirectChain(q) /\ Choosable(q) /\ c = CommitTarget(q)
          BY <4>2, TargetStable, ChoosableBefore DEF c
        <5>2. c \in blocks
          BY <4>2, <5>1, <1>0, TargetFacts
        <5> QED BY <5>1, <5>2, <1>0, TreeStable DEF TypeOK
      <4>4. \A y \in blocks : /\ Certified(y)
                              /\ height'[c] =< height'[y]
                              => c \in branch'[y]
        <5> SUFFICES ASSUME NEW y \in blocks, Certified(y), height'[c] =< height'[y]
                     PROVE  c \in branch'[y]
          OBVIOUS
        <5>1. height'[y] = height[y] /\ branch'[y] = branch[y]
          BY <1>0, TreeStable
        <5> QED BY <5>1, <4>2, <4>3 DEF NoConflict
      <4>5. CASE Certified(w)
        <5>1. w \in blocks
          BY <4>5, CertifiedBlocks
        <5> QED BY <5>1, <4>4, <4>5, <1>2 DEF c
      <4>6. CASE ~Certified(w)
        <5>1. PICK r \in Honest : Accepts(r, w)
          BY <4>6, NewCertificate
        <5>2. Certified(x)
          <6> SUFFICES ASSUME ~Certified(x) PROVE FALSE
            OBVIOUS
          <6>1. PICK t \in Honest : Accepts(t, x)
            BY <4>1, NewCertificate
          <6>2. PICK t2 \in Honest : w \notin votes[t2] /\ w \in votes'[t2]
            <7> SUFFICES ASSUME \A t2 \in Honest : w \in votes'[t2] => w \in votes[t2]
                         PROVE  FALSE
              OBVIOUS
            <7>1. Signers(w)' \subseteq Signers(w)
              BY DEF Signers
            <7>2. Signers(w)' = Signers(w)
              BY <7>1, VotesGrow
            <7> QED BY <7>2, <4>6 DEF Certified
          <6> QED BY <6>1, <6>2, <4>1, AcceptsVotes
        <5>3. x \in blocks
          BY <5>2, CertifiedBlocks
        <5>4. c \in branch'[x]
          BY <5>2, <5>3, <4>1, <4>4
        <5> QED BY <5>4, <4>1, <1>1 DEF c
      <4> QED BY <4>5, <4>6
    <3> QED BY <3>2, <3>3, <2>6, <1>1
  <2> QED BY <2>5, <2>6, <1>1
<1> QED BY <1>3, <1>4

-----------------------------------------------------------------------------
(* What update(nblk) does in a state of the invariant, for a certified     *)
(* q = nblk->qc_ref.                                                       *)

(* The lock that update() leaves is certified and not below the old one,   *)
(* nor below the block that the certificate locks.                         *)
LEMMA LockAfterFacts ==
    ASSUME Inv, NEW r \in Honest, NEW q \in blocks, Certified(q)
    PROVE  /\ LockAfter(r, q) \in blocks /\ Certified(LockAfter(r, q))
           /\ height[LockAfter(r, q)] \in Nat
           /\ height[b_lock[r]] =< height[LockAfter(r, q)]
           /\ height[LockTarget(q)] =< height[LockAfter(r, q)]
           /\ LockAfter(r, q) = b_lock[r] \/ LockAfter(r, q) = LockTarget(q)
           /\ LockAfter(r, q) # b_lock[r] => q \notin decision[r]
<1> USE DEF Inv
<1>1. /\ LockTarget(q) \in blocks /\ height[LockTarget(q)] \in Nat
      /\ height[q] \in Nat /\ height[LockTarget(q)] =< height[q]
      /\ b_lock[r] \in blocks /\ height[b_lock[r]] \in Nat
  BY TypeTree, TargetFacts DEF TypeOK
<1>2. Certified(LockTarget(q)) /\ Certified(b_lock[r])
  BY DEF LockTarget, VotingInv, QcCertified, LockCertified
<1>3. q \in decision[r] \/ LockTarget(q) \in decision[r]
         => height[LockTarget(q)] =< height[b_lock[r]]
  BY <1>1 DEF DecisionInv, DecidedBelowLock
<1> QED BY <1>1, <1>2, <1>3 DEF LockAfter

(* update() changes the lock of its own replica only, and only upwards.    *)
LEMMA UpdateLocks ==
    ASSUME Inv, NEW r \in Honest, NEW q \in blocks, Certified(q), update(r, q)
    PROVE  LockStep /\ b_lock'[r] = LockAfter(r, q)
                    /\ \A s \in Honest : s # r => b_lock'[s] = b_lock[s]
<1>1. b_lock' = [b_lock EXCEPT ![r] = LockAfter(r, q)]
  BY DEF update
<1>2. /\ b_lock \in [Honest -> blocks]
      /\ \A s \in Honest : Certified(b_lock[s]) /\ height[b_lock[s]] \in Nat
  BY DEF Inv, TypeOK, VotingInv, LockCertified
<1>3. /\ LockAfter(r, q) \in blocks /\ Certified(LockAfter(r, q))
      /\ height[b_lock[r]] =< height[LockAfter(r, q)]
  BY LockAfterFacts
<1>4. b_lock'[r] = LockAfter(r, q) /\ \A s \in Honest : s # r => b_lock'[s] = b_lock[s]
  BY <1>1, <1>2
<1>5. ASSUME NEW s \in Honest
      PROVE  /\ b_lock'[s] \in blocks /\ Certified(b_lock'[s])
             /\ height[b_lock[s]] =< height[b_lock'[s]]
  <2>1. CASE s = r
    BY <2>1, <1>3, <1>4
  <2>2. CASE s # r
    BY <2>2, <1>2, <1>4
  <2> QED BY <2>1, <2>2
<1> QED BY <1>4, <1>5 DEF LockStep

(* The decided blocks after update(), in terms of the old tree.            *)
LEMMA UpdateDecides ==
    ASSUME Inv, NEW r \in Honest, NEW q \in blocks, Certified(q), update(r, q),
           NEW s \in Honest
    PROVE  /\ b_exec'[s] \in blocks /\ decision'[s] = branch[b_exec'[s]]
           /\ \A b \in decision'[s] : height[b] =< height[b_lock'[s]]
           /\ \/ b_exec'[s] = b0
              \/ \E d \in blocks : /\ Certified(d) /\ DirectChain(d)
                                   /\ CommitTarget(d) = b_exec'[s]
<1> USE DEF Inv
<1>0. /\ b_exec \in [Honest -> blocks] /\ decision \in [Honest -> SUBSET blocks]
      /\ decision[s] = branch[b_exec[s]]
      /\ \A b \in blocks : height[b] \in Nat
  BY DEF TypeOK, DecisionInv, DecidedIsBranch
<1>1. /\ height[b_lock[s]] =< height[b_lock'[s]]
      /\ height[b_lock[s]] \in Nat /\ height[b_lock'[s]] \in Nat
  BY UpdateLocks DEF LockStep, TypeOK
<1>2. CASE s # r \/ UNCHANGED <<decision, executed, b_exec>>
  <2>1. decision'[s] = decision[s] /\ b_exec'[s] = b_exec[s]
    BY <1>0, <1>2 DEF update, Commit
  <2>2. \A b \in decision'[s] : height[b] =< height[b_lock'[s]]
    BY <2>1, <1>0, <1>1 DEF DecisionInv, DecidedBelowLock
  <2> QED BY <2>1, <2>2, <1>0 DEF DecisionInv, ExecChain
<1>3. CASE s = r /\ ~UNCHANGED <<decision, executed, b_exec>>
  <2> DEFINE c == CommitTarget(q)
             e == b_exec[r]
  <2>1. CommitReached(r, q) /\ e \in branch[c] /\ Commit(r, c)
    BY <1>3 DEF update, Breached
  <2>2. c \in blocks /\ e \in blocks /\ height[c] =< height[LockTarget(q)]
        /\ height[LockTarget(q)] \in Nat /\ height[c] \in Nat
    BY <1>0, TypeTree, TargetFacts
  <2>3. /\ b_exec'[s] = c
        /\ decision'[s] = decision[r] \cup {a \in branch[c] : height[a] > height[e]}
    BY <1>0, <1>3, <2>1 DEF Commit, ExecAfter
  <2>4. /\ branch[e] \subseteq branch[c]
        /\ \A a \in branch[c] : height[a] =< height[e] => a \in branch[e]
        /\ \A a \in branch[c] : a \in blocks /\ height[a] =< height[c]
    BY <2>1, <2>2, TypeTree, TreeFacts
  <2>5. decision'[s] = branch[c]
    <3>1. decision[r] = branch[e]
      BY <1>0, <1>3
    <3>2. \A a \in branch[c] : height[a] > height[e] \/ height[a] =< height[e]
      BY <2>2, <2>4, <1>0
    <3> QED BY <3>1, <3>2, <2>3, <2>4
  <2>6. height[LockTarget(q)] =< height[b_lock'[s]]
    BY <1>3, UpdateLocks, LockAfterFacts
  <2>7. \A b \in decision'[s] : height[b] =< height[b_lock'[s]]
    BY <2>2, <2>4, <2>5, <2>6, <1>0, <1>1
  <2>8. DirectChain(q)
    BY <2>1 DEF CommitReached
  <2> QED BY <2>2, <2>3, <2>5, <2>7, <2>8
<1> QED BY <1>2, <1>3

-----------------------------------------------------------------------------
(* The invariant is inductive.                                             *)

DecideStep ==
    \A s \in Honest :
        /\ b_exec'[s] \in blocks /\ decision'[s] = branch[b_exec'[s]]
        /\ \A b \in decision'[s] : height[b] =< height[b_lock'[s]]
        /\ \/ b_exec'[s] = b0
           \/ \E d \in blocks : /\ Certified(d) /\ DirectChain(d)
                                /\ CommitTarget(d) = b_exec'[s]

(* The invariant holds after a step that votes, locks and decides by the   *)
(* rules, whatever else the handler did.                                   *)
LEMMA Combine ==
    ASSUME Inv, TypeOK', TreeStep, VoteStep, LockStep, DecideStep,
           QcCertified', HqcCertified', LockBelowHqc', VotedSigned',
           LockBelowVote', NeverBreached'
    PROVE  Inv'
<1> USE DEF Inv
<1>1. TreeInv'
  BY TypeTree, TreePreserved
<1>2. LockCertified'
  <2> SUFFICES ASSUME NEW r \in Honest PROVE CertifiedNext(b_lock'[r])
    BY DEF LockCertified, Certified, Signers, CertifiedNext
  <2> QED BY CertificatesStay DEF LockStep
<1>3. VoteOnce'
  BY VoteOnceStep DEF VotingInv
<1>4. VoteLocks' /\ VoteJustified'
  BY VoteLocksStep, VoteJustifiedStep DEF VotingInv
<1>5. NoConflict'
  BY <1>3, <1>4, NoConflictStep DEF VotingInv, DecisionInv
<1>6. ASSUME NEW s \in Honest
      PROVE  /\ (decision[s] = branch[b_exec[s]])'
             /\ \A b \in decision'[s] : height'[b] =< height'[b_lock'[s]]
             /\ \/ b_exec'[s] = b0
                \/ \E d \in blocks' : /\ Certified(d)' /\ DirectChain(d)'
                                      /\ (CommitTarget(d) = b_exec[s])'
  <2>1. /\ b_exec'[s] \in blocks /\ b_lock'[s] \in blocks
        /\ decision'[s] = branch[b_exec'[s]]
        /\ \A b \in decision'[s] : height[b] =< height[b_lock'[s]]
    BY DEF DecideStep, LockStep
  <2>2. \A b \in decision'[s] : b \in blocks
    BY <2>1, TypeTree, TreeFacts
  <2>3. (decision[s] = branch[b_exec[s]])'
    BY <2>1, TypeTree, TreeStable
  <2>4. \A b \in decision'[s] : height'[b] =< height'[b_lock'[s]]
    BY <2>1, <2>2, TypeTree, TreeStable
  <2>5. \/ b_exec'[s] = b0
        \/ \E d \in blocks' : /\ Certified(d)' /\ DirectChain(d)'
                              /\ (CommitTarget(d) = b_exec[s])'
    <3>1. CASE b_exec'[s] = b0
      BY <3>1
    <3>2. CASE b_exec'[s] # b0
      <4>1. PICK d \in blocks : /\ Certified(d) /\ DirectChain(d)
                                /\ CommitTarget(d) = b_exec'[s]
        BY <3>2 DEF DecideStep
      <4>2. d \in blocks' /\ Certified(d)'
        BY <4>1, VotesGrow, TypeTree, TreeStable
      <4>3. DirectChain(d)' /\ CommitTarget(d)' = b_exec'[s]
        BY <4>1, TargetStable
      <4> QED BY <4>2, <4>3
    <3> QED BY <3>1, <3>2
  <2> QED BY <2>3, <2>4, <2>5
<1>7. DecidedIsBranch' /\ DecidedBelowLock'
  BY <1>6 DEF DecidedIsBranch, DecidedBelowLock
<1>8. ExecChain'
  BY <1>6, Zenon DEF ExecChain
<1> QED BY <1>1, <1>2, <1>3, <1>4, <1>5, <1>7, <1>8 DEF VotingInv, DecisionInv

(* A step that leaves votes, locks and decisions alone.                    *)
LEMMA QuietStep ==
    ASSUME Inv, TreeStep, UNCHANGED <<votes, vheight, b_lock, decision, b_exec, thrown>>
    PROVE  VoteStep /\ LockStep /\ DecideStep /\ LockBelowVote' /\ NeverBreached'
<1> USE DEF Inv
<1>1. VoteStep
  BY DEF VoteStep
<1>2. LockStep
  BY DEF LockStep, TypeOK, VotingInv, LockCertified
<1>3. DecideStep
  BY DEF DecideStep, TypeOK, DecisionInv, DecidedIsBranch, DecidedBelowLock, ExecChain
<1>4. LockBelowVote'
  <2> SUFFICES ASSUME NEW r \in Honest PROVE height'[b_lock'[r]] =< vheight'[r]
    BY DEF LockBelowVote
  <2>1. b_lock[r] \in blocks
    BY DEF TypeOK
  <2>2. height'[b_lock[r]] = height[b_lock[r]]
    BY <2>1, TypeTree, TreeStable
  <2> QED BY <2>2 DEF VotingInv, LockBelowVote
<1>5. NeverBreached'
  BY DEF DecisionInv, NeverBreached
<1> QED BY <1>1, <1>2, <1>3, <1>4, <1>5

(* A step that creates no block keeps the certificates of the blocks.      *)
LEMMA QcUnchanged ==
    ASSUME Inv, UNCHANGED tree, VoteStep
    PROVE  QcCertified'
<1>1. \A b \in blocks : Certified(qc_ref[b])
  BY DEF Inv, VotingInv, QcCertified
<1>2. \A b \in blocks : Certified(qc_ref[b])'
  BY <1>1, VotesGrow DEF Inv, tree
<1> QED BY <1>2 DEF QcCertified, tree

(* What a replica has counted stays signed, since signatures are not taken *)
(* back.                                                                   *)
LEMMA VotedUnchanged ==
    ASSUME Inv, UNCHANGED voted, VoteStep
    PROVE  VotedSigned'
BY VotesGrow DEF Inv, VotingInv, VotedSigned

(* on_deliver_blk keeps the invariant.                                     *)
LEMMA DeliverInv ==
    ASSUME Inv, TypeOK', NEW r \in Running, NEW b \in blocks, on_deliver_blk(r, b)
    PROVE  Inv'
<1>1. UNCHANGED <<tree, hqc, b_lock, b_exec, vheight, decision, voted, votes, thrown>>
  BY DEF on_deliver_blk
<1>2. TreeStep
  BY <1>1 DEF TreeStep
<1>3. VoteStep /\ LockStep /\ DecideStep /\ LockBelowVote' /\ NeverBreached'
  BY <1>1, <1>2, QuietStep
<1>4. QcCertified' /\ VotedSigned'
  BY <1>1, <1>3, QcUnchanged, VotedUnchanged
<1>5. HqcCertified' /\ LockBelowHqc'
  BY <1>1, <1>3, VotesGrow DEF Inv, VotingInv, HqcCertified, LockBelowHqc, tree
<1> QED BY <1>2, <1>3, <1>4, <1>5, Combine

(* on_receive_vote keeps the invariant: a certificate it completes has a   *)
(* quorum of signers.                                                      *)
LEMMA ReceiveVoteInv ==
    ASSUME Inv, TypeOK', NEW r \in Running, NEW v \in Replica, NEW b \in blocks,
           on_receive_vote(r, v, b)
    PROVE  Inv'
<1>0. r \in Honest /\ b \in Block /\ TypeOK
  BY DEF Running, Inv, TypeOK
<1>1. UNCHANGED <<tree, b_lock, b_exec, vheight, decision, votes, thrown>>
  BY DEF on_receive_vote
<1>2. TreeStep
  BY <1>1 DEF TreeStep
<1>3. VoteStep /\ LockStep /\ DecideStep /\ LockBelowVote' /\ NeverBreached'
  BY <1>1, <1>2, QuietStep
<1>4. QcCertified'
  BY <1>1, <1>3, QcUnchanged
<1>5. v \in Signers(b) /\ v \notin voted[r][b]
  BY DEF on_receive_vote, vote_handler, VoteArrives
<1>6. \A x : Signers(x)' = Signers(x) /\ Certified(x)' = Certified(x)
  BY <1>1 DEF Signers, Certified
<1>7. VotedSigned'
  <2>1. voted' = [voted EXCEPT ![r][b] = @ \cup {v}]
    BY DEF on_receive_vote
  <2>2. ASSUME NEW s \in Honest, NEW c \in Block \ {b0}
        PROVE  voted'[s][c] \subseteq Signers(c)
    <3>1. voted[s][c] \subseteq Signers(c)
      BY DEF Inv, VotingInv, VotedSigned
    <3>2. voted'[s][c] \subseteq voted[s][c] \cup (IF s = r /\ c = b THEN {v} ELSE {})
      BY <2>1, <1>0 DEF TypeOK
    <3> QED BY <3>1, <3>2, <1>5
  <2> QED BY <2>2, <1>6 DEF VotedSigned
<1>8. hqc'[r] = hqc[r] \/ (hqc'[r] = b /\ Completes(r, b) /\ height[b] > height[hqc[r]])
  BY <1>0 DEF on_receive_vote, TypeOK
<1>9. \A s \in Honest : s # r => hqc'[s] = hqc[s]
  BY <1>0 DEF on_receive_vote, TypeOK
<1>10. Completes(r, b) => Certified(b)
  <2> SUFFICES ASSUME Completes(r, b), b # b0 PROVE Certified(b)
    BY DEF Certified
  <2>1. voted[r][b] \cup {v} \subseteq Signers(b)
    BY <1>0, <1>5 DEF Inv, VotingInv, VotedSigned
  <2>2. voted[r][b] \in SUBSET Replica
    BY <1>0 DEF TypeOK
  <2>3. IsFiniteSet(voted[r][b])
    BY <2>2, ReplicaAssumption, FS_Subset
  <2>4. Cardinality(voted[r][b] \cup {v}) = Cardinality(voted[r][b]) + 1
    BY <2>3, <1>5, FS_AddElement
  <2>5. Cardinality(voted[r][b] \cup {v}) =< Cardinality(Signers(b))
    BY <2>1, SignersFacts, FS_Subset
  <2>6. Cardinality(voted[r][b]) \in Nat /\ Cardinality(Signers(b)) \in Nat
    BY <2>3, SignersFacts, FS_CardinalityType
  <2>7. Cardinality(Signers(b)) >= nmajority
    BY <2>4, <2>5, <2>6, Sizes DEF Completes
  <2> QED BY <2>7 DEF Certified
<1>11. HqcCertified'
  BY <1>6, <1>8, <1>9, <1>10 DEF Inv, VotingInv, HqcCertified
<1>12. LockBelowHqc'
  <2> SUFFICES ASSUME NEW s \in Honest
               PROVE  height[b_lock[s]] =< height[hqc'[s]]
    BY <1>1 DEF LockBelowHqc, tree
  <2>1. /\ height[b_lock[s]] \in Nat /\ height[hqc[s]] \in Nat /\ height[b] \in Nat
        /\ height[b_lock[s]] =< height[hqc[s]]
    BY <1>0 DEF TypeOK, Inv, VotingInv, LockBelowHqc
  <2> QED BY <2>1, <1>8, <1>9
<1> QED BY <1>2, <1>3, <1>4, <1>7, <1>11, <1>12, Combine

(* No block of a Byzantine replica breaks the invariant.                   *)
LEMMA ByzantineInv ==
    ASSUME Inv, TypeOK', NEW z \in Byzantine, NEW p \in blocks, NEW q \in blocks,
           ByzantinePropose(z, p, q)
    PROVE  Inv'
<1>0. TypeOK /\ TreeInv /\ FreshBlk \in Block \ blocks
  BY Fresh DEF ByzantinePropose, Inv, TypeOK
<1>1. UNCHANGED <<hqc, b_lock, b_exec, vheight, decision, voted, votes, thrown>>
  BY DEF ByzantinePropose
<1>2. TreeStep
  BY <1>0 DEF TreeStep, ByzantinePropose
<1>3. VoteStep /\ LockStep /\ DecideStep /\ LockBelowVote' /\ NeverBreached'
  BY <1>1, <1>2, QuietStep
<1>4. \A x : Certified(x) => CertifiedNext(x)
  BY <1>0, <1>3, CertificatesStay
<1>5. QcCertified'
  <2> SUFFICES ASSUME NEW b \in blocks' PROVE CertifiedNext(qc_ref'[b])
    BY DEF QcCertified, Certified, Signers, CertifiedNext
  <2>1. CASE b \in blocks
    <3>1. qc_ref'[b] = qc_ref[b]
      BY <2>1, <1>0, <1>2, TypeTree, TreeStable
    <3> QED BY <3>1, <2>1, <1>4 DEF Inv, VotingInv, QcCertified
  <2>2. CASE b \notin blocks
    <3>1. qc_ref'[b] = q /\ Certified(q)
      BY <2>2, <1>0 DEF ByzantinePropose, NewBlock, TypeOK
    <3> QED BY <3>1, <1>4
  <2> QED BY <2>1, <2>2
<1>6. VotedSigned'
  BY <1>1, <1>3, VotedUnchanged
<1>7. HqcCertified' /\ LockBelowHqc'
  <2>1. ASSUME NEW r \in Honest
        PROVE  CertifiedNext(hqc'[r]) /\ height'[b_lock'[r]] =< height'[hqc'[r]]
    <3>1. hqc[r] \in blocks /\ b_lock[r] \in blocks
      BY <1>0 DEF TypeOK
    <3>2. height'[hqc[r]] = height[hqc[r]] /\ height'[b_lock[r]] = height[b_lock[r]]
      BY <3>1, <1>0, <1>2, TypeTree, TreeStable
    <3> QED BY <3>2, <1>1, <1>4 DEF Inv, VotingInv, HqcCertified, LockBelowHqc
  <2> QED BY <2>1 DEF HqcCertified, LockBelowHqc, Certified, Signers, CertifiedNext
<1> QED BY <1>2, <1>3, <1>5, <1>6, <1>7, Combine

(* The voting rule, applied to a block of height h over a branch br that   *)
(* contains what its certificate is for.                                   *)
LEMMA OpinionFacts ==
    ASSUME Inv, NEW r \in Honest, NEW q \in blocks, Certified(q),
           NEW h \in Nat, NEW br, branch[q] \subseteq br, height[q] < h
    PROVE  LET l == LockAfter(r, q)
               opinion == Opinion(r, l, h, q, br)
           IN /\ opinion => /\ vheight[r] < h
                            /\ \E x \in blocks : /\ Certified(x) /\ x \in br
                                                 /\ height[x] < h
                                                 /\ height[l] =< height[x]
              /\ height[l] =< IF opinion THEN h ELSE vheight[r]
<1> USE DEF Inv
<1> DEFINE l == LockAfter(r, q)
           opinion == Opinion(r, l, h, q, br)
<1>1. /\ l \in blocks /\ Certified(l) /\ height[l] \in Nat
      /\ l = b_lock[r] \/ l = LockTarget(q)
  BY LockAfterFacts
<1>2. /\ height[q] \in Nat /\ vheight[r] \in Nat /\ height[b_lock[r]] =< vheight[r]
      /\ height[LockTarget(q)] =< height[q] /\ height[LockTarget(q)] \in Nat
      /\ LockTarget(q) \in br /\ q \in br /\ height[b_lock[r]] \in Nat
  BY TypeTree, TargetFacts, TreeFacts DEF TypeOK, VotingInv, LockBelowVote
<1> HIDE DEF l
<1>3. opinion => vheight[r] < h
  BY <1>2 DEF Opinion
<1>4. ASSUME opinion
      PROVE  \E x \in blocks : /\ Certified(x) /\ x \in br
                               /\ height[x] < h /\ height[l] =< height[x]
  <2>1. height[l] < h
    BY <1>1, <1>2, <1>3, <1>4
  <2>2. CASE height[q] > height[l]
    BY <2>2, <1>1, <1>2
  <2>3. CASE l \in br
    BY <2>1, <2>3, <1>1
  <2> QED BY <2>2, <2>3, <1>4 DEF Opinion
<1>5. height[l] =< IF opinion THEN h ELSE vheight[r]
  <2>1. CASE l = b_lock[r]
    BY <2>1, <1>1, <1>2, <1>3
  <2>2. CASE l = LockTarget(q)
    BY <2>2, <1>1, <1>2 DEF Opinion
  <2> QED BY <2>1, <2>2, <1>1
<1> QED BY <1>3, <1>4, <1>5 DEF l

(* on_receive_proposal keeps the invariant: its update() does not throw,   *)
(* and its vote obeys the voting rule against the lock that update()       *)
(* leaves.                                                                 *)
LEMMA ReceiveProposalInv ==
    ASSUME Inv, TypeOK', NEW r \in Running, NEW z \in Replica, NEW b \in blocks,
           on_receive_proposal(r, z, b)
    PROVE  Inv'
<1> DEFINE q == qc_ref[b]
           l == LockAfter(r, q)
           opinion == Opinion(r, l, height[b], q, branch[b])
<1>0. r \in Honest /\ TypeOK /\ TreeInv /\ q \in blocks /\ Certified(q)
  BY DEF Running, Inv, TypeOK, VotingInv, QcCertified
<1>1. ~Breached(r, q) /\ update(r, q)
  BY <1>0, NoBreach DEF on_receive_proposal
<1>2. /\ UNCHANGED <<tree, voted, thrown>>
      /\ hqc' = [hqc EXCEPT ![r] = HqcAfter(r, q)]
      /\ vheight' = [vheight EXCEPT ![r] = IF opinion THEN height[b] ELSE @]
      /\ votes' = [votes EXCEPT ![r] = IF opinion /\ r \notin VoteDisabled
                                       THEN @ \cup {b} ELSE @]
  BY <1>1 DEF on_receive_proposal
<1>3. TreeStep
  BY <1>2 DEF TreeStep
<1>4. LockStep /\ b_lock'[r] = l /\ \A s \in Honest : s # r => b_lock'[s] = b_lock[s]
  BY <1>0, <1>1, UpdateLocks
<1>5. DecideStep
  BY <1>0, <1>1, UpdateDecides DEF DecideStep
<1>6. /\ height[l] \in Nat /\ height[LockTarget(q)] =< height[l]
      /\ l = b_lock[r] \/ (l = LockTarget(q) /\ q \notin decision[r])
  BY <1>0, LockAfterFacts
<1>7. b = b0 => ~opinion
  <2>1. height[b0] = 0 /\ vheight[r] \in Nat
    BY <1>0 DEF TreeInv, GenesisInv, TypeOK
  <2> QED BY <2>1 DEF Opinion
<1>8. b # b0 => /\ height[q] < height[b] /\ branch[q] \subseteq branch[b]
                /\ height[b] \in Nat
  BY <1>0, TypeTree, TreeFacts
<1>9. b # b0 =>
        /\ opinion => /\ vheight[r] < height[b]
                      /\ \E x \in blocks : /\ Certified(x) /\ x \in branch[b]
                                           /\ height[x] < height[b]
                                           /\ height[l] =< height[x]
        /\ height[l] =< IF opinion THEN height[b] ELSE vheight[r]
  BY <1>0, <1>8, OpinionFacts
<1> HIDE DEF l, opinion
<1>10. VoteStep
  <2>1. CASE ~opinion
    BY <2>1, <1>0, <1>2 DEF VoteStep, TypeOK
  <2>2. CASE opinion
    <3>1. CommitTarget(b) = LockTarget(q) /\ CommitTarget(b)' = CommitTarget(b)
      BY <1>0, <1>3, TypeTree, TargetFacts, TargetStable
    <3>2. (height[CommitTarget(b)] =< height[b_lock[r]])'
      BY <3>1, <1>2, <1>4, <1>6 DEF tree
    <3>3. PICK x \in blocks : /\ Certified(x) /\ x \in branch[b]
                              /\ height[x] < height[b] /\ height[l] =< height[x]
      BY <2>2, <1>7, <1>9
    <3>4. x # b
      BY <3>3, <1>0 DEF TypeOK
    <3>5. votes' = votes \/ votes' = [votes EXCEPT ![r] = @ \cup {b}]
      BY <1>0, <1>2, <2>2 DEF TypeOK
    <3>6. vheight' = [vheight EXCEPT ![r] = height'[b]] /\ vheight[r] < height'[b]
      BY <1>2, <1>7, <1>9, <2>2 DEF tree
    <3>7. b \in blocks' /\ x \in branch'[b] /\ b # b0
      BY <1>2, <1>7, <2>2, <3>3 DEF tree
    <3>8. height[b_lock'[r]] =< height[x]
      BY <3>3, <1>4
    <3>9. Accepts(r, b)
      BY <3>2, <3>3, <3>4, <3>5, <3>6, <3>7, <3>8, Zenon DEF Accepts
    <3> QED BY <3>7, <3>9, <1>0 DEF VoteStep
  <2> QED BY <2>1, <2>2
<1>11. LockBelowVote'
  <2> SUFFICES ASSUME NEW s \in Honest PROVE height[b_lock'[s]] =< vheight'[s]
    BY <1>2 DEF LockBelowVote, tree
  <2>1. height[b_lock[s]] =< vheight[s]
    BY DEF Inv, VotingInv, LockBelowVote
  <2>2. CASE s # r
    BY <2>1, <2>2, <1>0, <1>2, <1>4 DEF TypeOK
  <2>3. CASE s = r
    <3>1. vheight'[r] = IF opinion THEN height[b] ELSE vheight[r]
      BY <1>0, <1>2 DEF TypeOK
    <3>2. CASE b # b0
      BY <3>1, <3>2, <2>3, <1>4, <1>9
    <3>3. CASE b = b0
      <4>1. l = b_lock[r]
        BY <3>3, <1>0, <1>6 DEF LockTarget, TreeInv, GenesisInv, Inv, DecisionInv,
                                DecidedIsBranch, BranchInv, TypeOK
      <4> QED BY <4>1, <3>1, <3>3, <2>1, <2>3, <1>4, <1>7
    <3> QED BY <3>2, <3>3
  <2> QED BY <2>2, <2>3
<1>12. HqcCertified' /\ LockBelowHqc'
  <2>1. ASSUME NEW s \in Honest
        PROVE  Certified(hqc'[s]) /\ height[b_lock'[s]] =< height[hqc'[s]]
    <3>1. /\ Certified(hqc[s]) /\ height[b_lock[s]] =< height[hqc[s]]
          /\ height[hqc[s]] \in Nat /\ height[b_lock[s]] \in Nat
      BY <1>0 DEF Inv, VotingInv, HqcCertified, LockBelowHqc, TypeOK
    <3>2. CASE s # r
      BY <3>1, <3>2, <1>0, <1>2, <1>4 DEF TypeOK
    <3>3. CASE s = r
      <4>1. hqc'[r] = HqcAfter(r, q)
        BY <1>0, <1>2 DEF TypeOK
      <4>2. height[LockTarget(q)] =< height[q] /\ height[q] \in Nat
            /\ height[LockTarget(q)] \in Nat
        BY <1>0, TypeTree, TargetFacts DEF TypeOK
      <4> QED BY <4>1, <4>2, <3>1, <3>3, <1>0, <1>4, <1>6 DEF HqcAfter
    <3> QED BY <3>2, <3>3
  <2>2. \A s \in Honest : CertifiedNext(hqc'[s])
    BY <2>1, <1>0, <1>10, CertificatesStay
  <2> QED BY <2>1, <2>2, <1>2 DEF HqcCertified, LockBelowHqc, Certified, Signers,
                                  CertifiedNext, tree
<1>13. QcCertified' /\ VotedSigned'
  BY <1>2, <1>10, QcUnchanged, VotedUnchanged
<1>14. NeverBreached'
  BY <1>2 DEF Inv, DecisionInv, NeverBreached
<1> QED BY <1>3, <1>4, <1>5, <1>10, <1>11, <1>12, <1>13, <1>14, Combine

(* on_propose is update() for hqc, then the voting rule for the new block. *)
LEMMA ProposeFacts ==
    ASSUME Inv, NEW r \in Running, NEW p \in blocks, on_propose(r, p)
    PROVE  LET b == FreshBlk
               h == height[p] + 1
               q == hqc[r]
               l == LockAfter(r, q)
               opinion == Opinion(r, l, h, q, branch[p] \cup {b})
           IN /\ b \in Block \ blocks /\ b # b0 /\ q \in blocks /\ q \in branch[p]
              /\ Certified(q) /\ ~Breached(r, q)
              /\ TreeStep /\ b \in blocks'
              /\ blocks' = blocks \cup {b}
              /\ height'[b] = h /\ qc_ref'[b] = q
              /\ branch'[b] = branch[p] \cup {b}
              /\ h \in Nat /\ height[q] < h
              /\ LockStep /\ DecideStep /\ b_lock'[r] = l
              /\ \A s \in Honest : s # r => b_lock'[s] = b_lock[s]
              /\ height[l] =< height[q]
              /\ opinion => /\ vheight[r] < h
                            /\ \E x \in blocks : /\ Certified(x) /\ x \in branch[p]
                                                 /\ height[l] =< height[x]
              /\ height[l] =< IF opinion THEN h ELSE vheight[r]
<1> DEFINE b == FreshBlk
           h == height[p] + 1
           q == hqc[r]
           l == LockAfter(r, q)
           br == branch[p] \cup {b}
           opinion == Opinion(r, l, h, q, br)
<1>0. r \in Honest /\ TypeOK /\ TreeInv /\ q \in blocks /\ Certified(q)
  BY DEF Running, Inv, TypeOK, VotingInv, HqcCertified
<1>1. b \in Block \ blocks /\ b # b0 /\ q \in branch[p]
  BY <1>0, Fresh DEF on_propose, Propose, TypeOK, TreeInv, GenesisInv
<1>2. ~Breached(r, q) /\ update(r, q) /\ NewBlock(b, p, q)
  BY <1>0, NoBreach DEF on_propose, Propose
<1>3. TreeStep
  BY <1>1, <1>2 DEF TreeStep
<1>4. /\ blocks' = blocks \cup {b} /\ height'[b] = h /\ qc_ref'[b] = q
      /\ branch'[b] = br /\ b \in blocks'
  BY <1>0, <1>1, <1>2 DEF NewBlock, TypeOK
<1>5. h \in Nat /\ height[q] < h /\ branch[q] \subseteq branch[p]
  BY <1>0, <1>1, TypeTree, TreeFacts
<1>6. LockStep /\ b_lock'[r] = l /\ \A s \in Honest : s # r => b_lock'[s] = b_lock[s]
  BY <1>0, <1>2, UpdateLocks
<1>7. DecideStep
  BY <1>0, <1>2, UpdateDecides DEF DecideStep
<1>8. height[l] =< height[q]
  <2>1. l = b_lock[r] \/ l = LockTarget(q)
    BY <1>0, LockAfterFacts
  <2>2. height[b_lock[r]] =< height[q] /\ height[LockTarget(q)] =< height[q]
    BY <1>0, TypeTree, TargetFacts DEF Inv, VotingInv, LockBelowHqc
  <2> QED BY <2>1, <2>2
<1>9. branch[q] \subseteq br
  BY <1>5
<1>10. /\ opinion => vheight[r] < h
       /\ height[l] =< IF opinion THEN h ELSE vheight[r]
  BY <1>0, <1>5, <1>9, OpinionFacts
<1>11. Certified(q) /\ q \in branch[p] /\ height[l] =< height[q]
  BY <1>0, <1>1, <1>8
<1> QED BY <1>0, <1>1, <1>2, <1>3, <1>4, <1>5, <1>6, <1>7, <1>8, <1>10, <1>11

(* on_propose keeps the invariant: it runs update() and then the           *)
(* proposer's own vote, or throws before the vote.                         *)
LEMMA ProposeInv ==
    ASSUME Inv, TypeOK', NEW r \in Running, NEW p \in blocks, on_propose(r, p)
    PROVE  Inv'
<1>a. PICK b : b = FreshBlk
  OBVIOUS
<1> DEFINE h == height[p] + 1
           q == hqc[r]
           l == LockAfter(r, q)
           opinion == Opinion(r, l, h, q, branch[p] \cup {b})
           votes_b == IF opinion /\ r \notin VoteDisabled THEN {r} ELSE {}
<1>0. r \in Honest /\ TypeOK /\ TreeInv
  BY DEF Running, Inv
<1>1. /\ b \in Block \ blocks /\ b # b0 /\ q \in blocks /\ q \in branch[p]
      /\ Certified(q) /\ ~Breached(r, q)
      /\ TreeStep /\ b \in blocks' /\ blocks' = blocks \cup {b}
      /\ height'[b] = h /\ qc_ref'[b] = q /\ branch'[b] = branch[p] \cup {b}
      /\ h \in Nat /\ height[q] < h
      /\ LockStep /\ DecideStep /\ b_lock'[r] = l
      /\ \A s \in Honest : s # r => b_lock'[s] = b_lock[s]
      /\ height[l] =< height[q]
      /\ opinion => /\ vheight[r] < h
                    /\ \E x \in blocks : /\ Certified(x) /\ x \in branch[p]
                                         /\ height[l] =< height[x]
      /\ height[l] =< IF opinion THEN h ELSE vheight[r]
  BY <1>a, ProposeFacts
<1>2. \/ /\ TooLow(r, h)
         /\ Throw(r, "new block should be higher than vheight")
         /\ UNCHANGED <<hqc, vheight, voted, votes>>
      \/ /\ vheight' = [vheight EXCEPT ![r] = IF opinion THEN h ELSE @]
         /\ voted' = [voted EXCEPT ![r][b] = votes_b]
         /\ votes' = [votes EXCEPT ![r] = IF votes_b = {} THEN @ ELSE @ \cup {b}]
         /\ hqc' = [hqc EXCEPT ![r] = IF Cardinality(votes_b) = nmajority THEN b ELSE @]
         /\ UNCHANGED thrown
  BY <1>a, <1>1 DEF on_propose, Propose
<1>3. NeverBreached'
  <2>1. \A s \in Honest : "safety breached" \notin thrown[s]
    BY DEF Inv, DecisionInv, NeverBreached
  <2>2. \/ UNCHANGED thrown
        \/ Throw(r, "new block should be higher than vheight")
    BY <1>2
  <2>3. \A s \in Honest : thrown'[s] \subseteq
             thrown[s] \cup {"new block should be higher than vheight"}
    BY <2>2, <1>0 DEF Throw, TypeOK
  <2>4. "safety breached" # "new block should be higher than vheight"
    OBVIOUS
  <2> QED BY <2>1, <2>3, <2>4 DEF NeverBreached
<1>4. height[l] \in Nat /\ l \in blocks /\ height[LockTarget(q)] =< height[l]
  BY <1>0, <1>1, LockAfterFacts
<1> HIDE DEF h, l, opinion
<1>5. VoteStep
  <2>1. CASE UNCHANGED <<vheight, votes>>
    BY <2>1 DEF VoteStep
  <2>2. CASE ~UNCHANGED <<vheight, votes>>
    <3>1. /\ vheight' = [vheight EXCEPT ![r] = IF opinion THEN h ELSE @]
          /\ votes' = [votes EXCEPT ![r] = IF votes_b = {} THEN @ ELSE @ \cup {b}]
      BY <1>2, <2>2
    <3>2. opinion
      BY <3>1, <2>2, <1>0 DEF TypeOK
    <3>3. votes' = votes \/ votes' = [votes EXCEPT ![r] = @ \cup {b}]
      BY <3>1, <1>0 DEF TypeOK
    <3>4. vheight' = [vheight EXCEPT ![r] = height'[b]] /\ vheight[r] < height'[b]
      BY <3>1, <3>2, <1>1
    <3>5. PICK x \in blocks : Certified(x) /\ x \in branch[p] /\ height[l] =< height[x]
      BY <3>2, <1>1
    <3>6. x # b /\ x \in branch'[b] /\ height[b_lock'[r]] =< height[x]
      BY <3>5, <1>1
    <3>7. (height[CommitTarget(b)] =< height[b_lock[r]])'
      <4>1. /\ LockTarget(q) \in blocks /\ height'[LockTarget(q)] = height[LockTarget(q)]
            /\ height'[l] = height[l] /\ qc_ref'[q] = qc_ref[q]
        BY <1>0, <1>1, <1>4, TypeTree, TargetFacts, TreeStable
      <4>2. CommitTarget(b)' = LockTarget(q)
        BY <4>1, <1>1 DEF CommitTarget, LockTarget
      <4> QED BY <4>1, <4>2, <1>1, <1>4
    <3>8. Accepts(r, b)
      BY <3>3, <3>4, <3>5, <3>6, <3>7, <1>1, Zenon DEF Accepts
    <3> QED BY <3>8, <1>0, <1>1 DEF VoteStep
  <2> QED BY <2>1, <2>2
<1>6. \A x \in blocks : height'[x] = height[x] /\ qc_ref'[x] = qc_ref[x]
  BY <1>0, <1>1, TypeTree, TreeStable
<1>7. LockBelowVote'
  <2> SUFFICES ASSUME NEW s \in Honest PROVE height'[b_lock'[s]] =< vheight'[s]
    BY DEF LockBelowVote
  <2>1. height[b_lock[s]] =< vheight[s] /\ b_lock[s] \in blocks
    BY <1>0 DEF Inv, VotingInv, LockBelowVote, TypeOK
  <2>2. CASE s # r
    <3>1. vheight'[s] = vheight[s] /\ b_lock'[s] = b_lock[s]
      BY <2>2, <1>0, <1>1, <1>2 DEF TypeOK
    <3> QED BY <3>1, <2>1, <1>6
  <2>3. CASE s = r
    <3>1. vheight'[r] = IF opinion THEN h ELSE vheight[r]
      <4>1. TooLow(r, h) => ~opinion
        BY <1>0, <1>1 DEF TooLow, TypeOK
      <4> QED BY <4>1, <1>0, <1>2 DEF TypeOK
    <3> QED BY <3>1, <2>3, <1>1, <1>4, <1>6
  <2> QED BY <2>2, <2>3
<1>8. QcCertified'
  <2> SUFFICES ASSUME NEW c \in blocks' PROVE CertifiedNext(qc_ref'[c])
    BY DEF QcCertified, Certified, Signers, CertifiedNext
  <2>1. Certified(qc_ref'[c])
    BY <1>1, <1>6 DEF Inv, VotingInv, QcCertified
  <2> QED BY <2>1, <1>0, <1>5, CertificatesStay
<1>9. VotedSigned'
  <2>1. CASE UNCHANGED voted
    BY <2>1, <1>5, VotedUnchanged
  <2>2. CASE ~UNCHANGED voted
    <3>1. /\ voted' = [voted EXCEPT ![r][b] = votes_b]
          /\ votes' = [votes EXCEPT ![r] = IF votes_b = {} THEN @ ELSE @ \cup {b}]
      BY <1>2, <2>2
    <3> SUFFICES ASSUME NEW s \in Honest, NEW c \in Block \ {b0}
                 PROVE  voted'[s][c] \subseteq Signers(c)'
      BY DEF VotedSigned
    <3>2. voted[s][c] \subseteq Signers(c)'
      BY <1>0, <1>5, VotesGrow DEF Inv, VotingInv, VotedSigned
    <3>3. voted'[s][c] = IF s = r /\ c = b THEN votes_b ELSE voted[s][c]
      BY <3>1, <1>0, <1>1 DEF TypeOK
    <3>4. votes_b \subseteq Signers(b)'
      <4>1. votes_b = {} \/ (votes_b = {r} /\ b \in votes'[r])
        BY <3>1, <1>0 DEF TypeOK
      <4> QED BY <4>1, <1>0 DEF Signers
    <3> QED BY <3>2, <3>3, <3>4
  <2> QED BY <2>1, <2>2
<1>10. Cardinality(votes_b) = nmajority => votes_b = {r}
  BY Sizes, FS_EmptySet
<1>11. hqc'[r] = hqc[r] \/ (hqc'[r] = b /\ CertifiedNext(b))
  <2>1. CASE Cardinality(votes_b) = nmajority /\ hqc'[r] # hqc[r]
    <3>1. hqc'[r] = b /\ b \in votes'[r]
      <4>1. /\ votes' = [votes EXCEPT ![r] = IF votes_b = {} THEN @ ELSE @ \cup {b}]
            /\ hqc' = [hqc EXCEPT ![r] = b]
        BY <2>1, <1>2
      <4>2. votes_b # {}
        BY <2>1, <1>10
      <4> QED BY <4>1, <4>2, <1>0 DEF TypeOK
    <3>2. {r} \subseteq Signers(b)' /\ Signers(b)' \in SUBSET Replica
      BY <3>1, <1>0, ByzantineAssumption DEF Signers, Honest
    <3>3. IsFiniteSet(Signers(b)')
      BY <3>2, ReplicaAssumption, FS_Subset
    <3>4. Cardinality({r}) =< Cardinality(Signers(b)')
      BY <3>2, <3>3, FS_Subset
    <3>5. Cardinality(Signers(b)') >= nmajority
      <4>1. Cardinality({r}) = nmajority
        BY <2>1, <1>10
      <4>2. Cardinality(Signers(b)') \in Nat
        BY <3>3, FS_CardinalityType
      <4> QED BY <4>1, <4>2, <3>4, Sizes
    <3> QED BY <3>1, <3>5 DEF Signers, CertifiedNext
  <2>2. CASE ~(Cardinality(votes_b) = nmajority /\ hqc'[r] # hqc[r])
    BY <2>2, <1>0, <1>2 DEF TypeOK
  <2> QED BY <2>1, <2>2
<1>12. HqcCertified' /\ LockBelowHqc'
  <2>1. ASSUME NEW s \in Honest
        PROVE  CertifiedNext(hqc'[s]) /\ height'[b_lock'[s]] =< height'[hqc'[s]]
    <3>1. /\ CertifiedNext(hqc[s]) /\ height[b_lock[s]] =< height[hqc[s]]
          /\ hqc[s] \in blocks /\ b_lock[s] \in blocks
      BY <1>0, <1>5, CertificatesStay DEF Inv, VotingInv, HqcCertified, LockBelowHqc, TypeOK
    <3>2. CASE s # r
      <4>1. hqc'[s] = hqc[s] /\ b_lock'[s] = b_lock[s]
        BY <3>2, <1>0, <1>1, <1>2 DEF TypeOK
      <4> QED BY <4>1, <3>1, <1>6
    <3>3. CASE s = r
      <4>1. height'[l] =< height'[q] /\ height'[l] =< height'[b]
        <5>1. height[q] \in Nat
          BY <1>0, <1>1 DEF TypeOK
        <5> QED BY <5>1, <1>1, <1>4, <1>6
      <4> QED BY <4>1, <3>1, <3>3, <1>1, <1>11
    <3> QED BY <3>2, <3>3
  <2> QED BY <2>1 DEF HqcCertified, LockBelowHqc, Certified, Signers, CertifiedNext
<1> QED BY <1>1, <1>3, <1>5, <1>7, <1>8, <1>9, <1>12, Combine

(* on_init establishes the invariant.                                      *)
LEMMA InitInv == Init => Inv
<1> SUFFICES ASSUME Init PROVE Inv
  OBVIOUS
<1>1. TypeOK /\ TreeInv
  BY InitTree
<1>2. /\ blocks = {b0} /\ height[b0] = 0 /\ Certified(b0)
      /\ \A b \in Block : qc_ref[b] = b0 /\ branch[b] = {b0}
      /\ \A r \in Honest : /\ hqc[r] = b0 /\ b_lock[r] = b0 /\ b_exec[r] = b0
                           /\ vheight[r] = 0 /\ decision[r] = {b0}
                           /\ votes[r] = {} /\ thrown[r] = {}
      /\ \A r \in Honest : \A b \in Block \ {b0} : voted[r][b] = {}
  BY BlockAssumption DEF Init, Certified
<1>3. VotingInv
  <2>1. QcCertified /\ HqcCertified /\ LockCertified /\ VotedSigned
    BY <1>2, BlockAssumption
    DEF QcCertified, HqcCertified, LockCertified, VotedSigned
  <2>2. VoteOnce /\ VoteLocks /\ VoteJustified
    BY <1>2 DEF VoteOnce, VoteLocks, VoteJustified
  <2>3. LockBelowVote /\ LockBelowHqc
    BY <1>2 DEF LockBelowVote, LockBelowHqc
  <2> QED BY <2>1, <2>2, <2>3 DEF VotingInv
<1>4. NoConflict
  BY <1>2, BlockAssumption DEF NoConflict, CommitTarget, LockTarget
<1>5. DecidedIsBranch /\ DecidedBelowLock /\ ExecChain /\ NeverBreached
  <2>1. DecidedIsBranch
    BY <1>2, BlockAssumption DEF DecidedIsBranch
  <2>2. DecidedBelowLock
    BY <1>2 DEF DecidedBelowLock
  <2>3. ExecChain /\ NeverBreached
    BY <1>2 DEF ExecChain, NeverBreached
  <2> QED BY <2>1, <2>2, <2>3
<1> QED BY <1>1, <1>3, <1>4, <1>5 DEF Inv, DecisionInv

(* A stuttering step changes none of the variables the invariant reads.    *)
LEMMA StutterInv == Inv /\ UNCHANGED vars => Inv'
<1> SUFFICES ASSUME Inv, UNCHANGED vars PROVE Inv'
  OBVIOUS
<1>1. TypeOK'
  BY DEF Inv, vars, TypeOK
<1>2. TreeStep
  BY DEF TreeStep, vars, tree
<1>3. VoteStep /\ LockStep /\ DecideStep /\ LockBelowVote' /\ NeverBreached'
  BY <1>2, QuietStep DEF vars
<1>4. QcCertified' /\ VotedSigned'
  BY <1>3, QcUnchanged, VotedUnchanged DEF vars, tree
<1>5. HqcCertified' /\ LockBelowHqc'
  BY <1>3, VotesGrow DEF vars, Inv, VotingInv, HqcCertified, LockBelowHqc
<1> QED BY <1>1, <1>2, <1>3, <1>4, <1>5, Combine

(* Every step of the system keeps the invariant.                           *)
LEMMA NextInv == Inv /\ [Next]_vars => Inv'
<1> SUFFICES ASSUME Inv, [Next]_vars PROVE Inv'
  OBVIOUS
<1>1. TypeOK'
  BY TypeStep DEF Inv
<1>2. CASE UNCHANGED vars
  BY <1>2, StutterInv
<1>3. ASSUME NEW r \in Running, NEW b \in blocks, on_deliver_blk(r, b) PROVE Inv'
  BY <1>1, <1>3, DeliverInv
<1>4. ASSUME NEW r \in Running, NEW p \in blocks, on_propose(r, p) PROVE Inv'
  BY <1>1, <1>4, ProposeInv
<1>5. ASSUME NEW r \in Running, NEW z \in Replica, NEW b \in blocks,
             on_receive_proposal(r, z, b)
      PROVE  Inv'
  BY <1>1, <1>5, ReceiveProposalInv
<1>6. ASSUME NEW r \in Running, NEW v \in Replica, NEW b \in blocks,
             on_receive_vote(r, v, b)
      PROVE  Inv'
  BY <1>1, <1>6, ReceiveVoteInv
<1>7. ASSUME NEW z \in Byzantine, NEW p \in blocks, NEW q \in blocks,
             ByzantinePropose(z, p, q)
      PROVE  Inv'
  BY <1>1, <1>7, ByzantineInv
<1> QED BY <1>2, <1>3, <1>4, <1>5, <1>6, <1>7 DEF Next

-----------------------------------------------------------------------------
(* The results.                                                            *)

(* The inductive invariant holds in every reachable state.                 *)
THEOREM Invariance == Spec => []Inv
<1>1. Init => Inv
  BY InitInv
<1>2. Inv /\ [Next]_vars => Inv'
  BY NextInv
<1> QED BY <1>1, <1>2, PTL DEF Spec

(* Two different blocks of one height are never both certified.            *)
THEOREM CertificatesUnique == Spec => []OneCertPerHeight
<1>1. Inv => OneCertPerHeight
  BY OneCert DEF Inv, VotingInv
<1> QED BY <1>1, Invariance, PTL

(* The invariant implies that no block in conflict with a committed one is *)
(* certified: the induction over heights that it carries has done the      *)
(* work.                                                                   *)
LEMMA Excluded == Inv => ConflictExcluded
<1> SUFFICES ASSUME Inv, NEW q \in blocks, NEW w \in blocks,
                    Certified(q), DirectChain(q), Certified(w),
                    height[w] >= height[CommitTarget(q)]
             PROVE  CommitTarget(q) \in branch[w]
  BY DEF ConflictExcluded
<1>1. CASE q = b0
  <2>1. CommitTarget(q) = b0
    BY <1>1 DEF Inv, CommitTarget, LockTarget, TreeInv, GenesisInv
  <2>2. b0 \in branch[w]
    BY TypeTree, TreeFacts DEF Inv
  <2> QED BY <2>1, <2>2
<1>2. CASE q # b0
  <2>1. Choosable(q)
    BY <1>2, CertifiedChoosable
  <2>2. height[CommitTarget(q)] =< height[w]
    BY TypeTree, TargetFacts DEF Inv, TypeOK
  <2> QED BY <2>1, <2>2 DEF Inv, DecisionInv, NoConflict
<1> QED BY <1>1, <1>2

(* The certificates that commit a block exclude every conflicting one.     *)
THEOREM ConflictsExcluded == Spec => []ConflictExcluded
BY Excluded, Invariance, PTL

(* update() never throws "safety breached :(".                             *)
THEOREM BreachUnreachable == Spec => []NeverBreached
<1>1. Inv => NeverBreached
  BY DEF Inv, DecisionInv
<1> QED BY <1>1, Invariance, PTL

(* A replica's lock stays at or below what it accepted and what hqc is,    *)
(* and hqc is a block whose certificate others accept.                     *)
THEOREM LocksBounded == Spec => [](LockBelowVote /\ LockBelowHqc /\ HqcCertified)
<1>1. Inv => LockBelowVote /\ LockBelowHqc /\ HqcCertified
  BY DEF Inv, VotingInv
<1> QED BY <1>1, Invariance, PTL

(* hqc of a correct replica is a block with nmajority signers: update_hqc  *)
(* is never called too early.                                              *)
THEOREM HqcIsCertified == Spec => []HqcCertified
<1> QED BY LocksBounded, PTL

=============================================================================
