---------------------------- MODULE HotStuffCore ----------------------------
(***************************************************************************)
(* The protocol core of libhotstuff (class HotStuffCore, consensus.cpp),   *)
(* run by every correct replica of a system of which some replicas are     *)
(* Byzantine.                                                              *)
(*                                                                         *)
(* Blocks are content-addressed, so what a block is (its parent, the block *)
(* its certificate is for, its height) is global and never changes; what a *)
(* replica has done with a block (delivered, decided, counted votes for    *)
(* it) is kept for each replica.  The network is a set of messages that    *)
(* only grows: a message may be lost (never received), delayed, reordered  *)
(* and received more than once.                                            *)
(***************************************************************************)
EXTENDS Integers, FiniteSets, Sequences

CONSTANTS
    Replica,       \* the replicas of the configuration
    Byzantine,     \* those that do not follow the code
    Down,          \* correct replicas that never run
    Proposer,      \* those whose pacemaker ever lets them propose
    Block,         \* names of blocks: the bound on how many are ever built
    b0,            \* the genesis block
    TwoStep,       \* compiled with HOTSTUFF_TWO_STEP
    VoteDisabled,  \* replicas started with vote_disabled
    PartialDelivery, \* steps may come between deliveries of a fetched branch
    StrayVotes     \* votes also reach replicas that did not propose the block

Honest == Replica \ Byzantine
Running == Honest \ Down

nreplicas == Cardinality(Replica)

(* HotStuffBase::start: nfaulty = peers.size() / 3, and peers leaves out   *)
(* the replica itself.                                                     *)
nfaulty == (nreplicas - 1) \div 3

nmajority_TooSmall == nfaulty + 1

(* HotStuffCore::on_init                                                   *)
nmajority == nreplicas - nfaulty

ASSUME ReplicaAssumption == IsFiniteSet(Replica) /\ Replica # {}
ASSUME ByzantineAssumption == /\ Byzantine \subseteq Replica
                              /\ Cardinality(Byzantine) =< nfaulty
ASSUME BlockAssumption == b0 \in Block
ASSUME ModeAssumption == /\ TwoStep \in BOOLEAN
                         /\ PartialDelivery \in BOOLEAN
                         /\ StrayVotes \in BOOLEAN
                         /\ VoteDisabled \subseteq Replica

VARIABLES
    blocks,     \* the blocks built so far
    parent,     \* parents[0] of a block
    qc_ref,     \* the block that the certificate in a block is for
    height,     \* height of a block
    branch,     \* the block and its ancestors (what a walk over parents[0] visits)
    delivered,  \* delivered[r]: the blocks with Block::delivered at r
    tails,      \* tails[r]
    hqc,        \* hqc[r]: the highest certified block r knows of
    b_lock,     \* b_lock[r]
    b_exec,     \* b_exec[r]
    vheight,    \* vheight[r]
    decision,   \* decision[r]: the blocks with Block::decision = 1 at r
    executed,   \* executed[r]: the blocks r passed to do_consensus, in order
    voted,      \* voted[r][b]: Block::voted of b at r
    votes,      \* votes[r]: the blocks r has signed a vote for
    proposals,  \* the proposals broadcast: <<proposer, block>>
    thrown      \* thrown[r]: the runtime_errors thrown at r

tree == <<blocks, parent, qc_ref, height, branch>>
vars == <<blocks, parent, qc_ref, height, branch, delivered, tails, hqc,
          b_lock, b_exec, vheight, decision, executed, voted, votes,
          proposals, thrown>>

Errors == {"safety breached", "new block should be higher than vheight"}

-----------------------------------------------------------------------------
(* Certificates.                                                           *)

(* A Byzantine replica signs whatever it likes; a correct one has signed   *)
(* the blocks it voted for.                                                *)
Signers(b) == Byzantine \cup {r \in Honest : b \in votes[r]}

(* Block::verify: the genesis needs no certificate; any other block needs  *)
(* nmajority signatures (QuorumCertSecp256k1::verify).                     *)
Certified(b) == b = b0 \/ Cardinality(Signers(b)) >= nmajority

-----------------------------------------------------------------------------
(* The constructor and on_init; add_replica puts every replica into the    *)
(* votes of the genesis block.                                             *)
Init ==
    /\ blocks = {b0}
    /\ parent = [b \in Block |-> b0]
    /\ qc_ref = [b \in Block |-> b0]
    /\ height = [b \in Block |-> 0]
    /\ branch = [b \in Block |-> {b0}]
    /\ delivered = [r \in Honest |-> {b0}]
    /\ tails = [r \in Honest |-> {b0}]
    /\ hqc = [r \in Honest |-> b0]
    /\ b_lock = [r \in Honest |-> b0]
    /\ b_exec = [r \in Honest |-> b0]
    /\ vheight = [r \in Honest |-> 0]
    /\ decision = [r \in Honest |-> {b0}]
    /\ executed = [r \in Honest |-> <<>>]
    /\ voted = [r \in Honest |->
                   [b \in Block |-> IF b = b0 THEN Replica ELSE {}]]
    /\ votes = [r \in Honest |-> {}]
    /\ proposals = {}
    /\ thrown = [r \in Honest |-> {}]

-----------------------------------------------------------------------------
(* update(nblk), as a function of q = nblk->qc_ref: the code looks at      *)
(* nothing else of nblk.                                                   *)

(* blk1 in update(): the block that q's certificate locks.                 *)
LockTarget(q) == IF TwoStep THEN q ELSE qc_ref[q]

(* blk in update(): the block that q's certificate commits.                *)
CommitTarget(q) == qc_ref[LockTarget(q)]

HqcAfter_NoHeightTest(r, q) == IF q \notin decision[r] THEN q ELSE hqc[r]

(* update_hqc(q), which update() calls unless q is decided.                *)
HqcAfter(r, q) ==
    IF q \notin decision[r] /\ height[q] > height[hqc[r]] THEN q ELSE hqc[r]

LockAfter_Never(r, q) == b_lock[r]

LockAfter(r, q) ==
    LET blk1 == LockTarget(q) IN
    IF /\ {q, blk1} \cap decision[r] = {}
       /\ height[blk1] > height[b_lock[r]]
    THEN blk1
    ELSE b_lock[r]

(* "commit requires direct parent"                                         *)
DirectChain(q) ==
    /\ parent[LockTarget(q)] = CommitTarget(q)
    /\ TwoStep \/ parent[q] = LockTarget(q)

(* update() gets past all its early returns.                               *)
CommitReached(r, q) ==
    /\ {q, LockTarget(q), CommitTarget(q)} \cap decision[r] = {}
    /\ DirectChain(q)

(* The walk down from blk to the height of b_exec does not end in b_exec.  *)
Breached(r, q) ==
    CommitReached(r, q) /\ b_exec[r] \notin branch[CommitTarget(q)]

(* The ancestor of b at height h.                                          *)
AncestorAt(b, h) == CHOOSE a \in branch[b] : height[a] = h

CommitQueue_Unreversed(r, b) ==
    [i \in 1 .. height[b] - height[b_exec[r]] |->
        AncestorAt(b, height[b] + 1 - i)]

(* commit_queue, read from its end: the ancestors of b above b_exec, the   *)
(* lowest first.                                                           *)
CommitQueue(r, b) ==
    [i \in 1 .. height[b] - height[b_exec[r]] |->
        AncestorAt(b, height[b_exec[r]] + i)]

ExecAfter_Stale(r, b) == b_exec[r]

(* b_exec = blk                                                            *)
ExecAfter(r, b) == b

Commit(r, b) ==
    /\ decision' = [decision EXCEPT
           ![r] = @ \cup {a \in branch[b] : height[a] > height[b_exec[r]]}]
    /\ executed' = [executed EXCEPT ![r] = @ \o CommitQueue(r, b)]
    /\ b_exec' = [b_exec EXCEPT ![r] = ExecAfter(r, b)]

(* What update(nblk) does to b_lock and to the decided blocks; its effect  *)
(* on hqc is HqcAfter.  If it throws, lock and hqc have changed already.   *)
update(r, q) ==
    /\ b_lock' = [b_lock EXCEPT ![r] = LockAfter(r, q)]
    /\ IF CommitReached(r, q) /\ ~Breached(r, q)
       THEN Commit(r, CommitTarget(q))
       ELSE UNCHANGED <<decision, executed, b_exec>>

Throw(r, e) == thrown' = [thrown EXCEPT ![r] = @ \cup {e}]

-----------------------------------------------------------------------------
(* The voting rule of on_receive_proposal, for a block of height h whose   *)
(* certificate is for q and whose branch is br.                            *)

Opinion_IgnoreLock(r, lock, h, q, br) == h > vheight[r]

Opinion_VoteTwice(r, lock, h, q, br) ==
    /\ h >= vheight[r]
    /\ height[q] > height[lock] \/ lock \in br

Opinion(r, lock, h, q, br) ==
    /\ h > vheight[r]
    /\ \/ height[q] > height[lock]   \* liveness condition
       \/ lock \in br                \* safety condition

-----------------------------------------------------------------------------
(* Blocks get the next unused name: their hashes are all different.        *)
FreshBlk == CHOOSE b \in Block \ blocks : TRUE

NewBlock_NotStored(b, p, q) ==
    /\ blocks' = blocks
    /\ parent' = [parent EXCEPT ![b] = p]
    /\ qc_ref' = [qc_ref EXCEPT ![b] = q]
    /\ height' = [height EXCEPT ![b] = height[p] + 1]
    /\ branch' = [branch EXCEPT ![b] = branch[p] \cup {b}]

(* storage->add_blk(new Block(parents, cmds, qc, ...))                     *)
NewBlock(b, p, q) ==
    /\ blocks' = blocks \cup {b}
    /\ parent' = [parent EXCEPT ![b] = p]
    /\ qc_ref' = [qc_ref EXCEPT ![b] = q]
    /\ height' = [height EXCEPT ![b] = height[p] + 1]
    /\ branch' = [branch EXCEPT ![b] = branch[p] \cup {b}]

Deliver_KeepTails(r, b, br) ==
    /\ delivered' = [delivered EXCEPT ![r] = @ \cup br]
    /\ tails' = [tails EXCEPT ![r] = IF b \in delivered[r] THEN @ ELSE @ \cup {b}]

(* What async_deliver_blk brings about at r for a block b with branch br:  *)
(* on_deliver_blk for those blocks of br that r has not delivered, parents *)
(* first.  Each takes its parent out of tails and puts itself in.          *)
Deliver(r, b, br) ==
    /\ delivered' = [delivered EXCEPT ![r] = @ \cup br]
    /\ tails' = [tails EXCEPT
           ![r] = IF b \in delivered[r] THEN @ ELSE (@ \ br) \cup {b}]

-----------------------------------------------------------------------------
(* on_deliver_blk at a moment when no handler waits for the block itself:  *)
(* it was fetched as the ancestor of another block, which is still being   *)
(* fetched or verified.                                                    *)
on_deliver_blk(r, b) ==
    /\ PartialDelivery
    /\ b \in blocks \ delivered[r]
    /\ parent[b] \in delivered[r]
    /\ Deliver(r, b, branch[b])
    /\ UNCHANGED <<tree, hqc, b_lock, b_exec, vheight, decision, executed,
                   voted, votes, proposals, thrown>>

TooLow_OffByOne(r, h) == h < vheight[r]

(* on_propose refuses a block of height h.                                 *)
TooLow(r, h) == h =< vheight[r]

(* on_propose with parent p.  The block is received by its proposer in the *)
(* same call: update() is not repeated, the vote is counted at once, and   *)
(* with a majority of one it completes the certificate.                    *)
Propose(r, p) ==
    /\ blocks # Block
    /\ LET b == FreshBlk
           h == height[p] + 1
           q == hqc[r]
           opinion == Opinion(r, LockAfter(r, q), h, q, branch[p] \cup {b})
           votes_b == IF opinion /\ r \notin VoteDisabled THEN {r} ELSE {}
       IN /\ NewBlock(b, p, q)
          /\ Deliver(r, b, branch[p] \cup {b})
          /\ update(r, q)
          /\ IF Breached(r, q)
             THEN /\ Throw(r, "safety breached")
                  /\ UNCHANGED <<hqc, vheight, voted, votes, proposals>>
             ELSE IF TooLow(r, h)
             THEN /\ Throw(r, "new block should be higher than vheight")
                  /\ UNCHANGED <<hqc, vheight, voted, votes, proposals>>
             ELSE /\ vheight' = [vheight EXCEPT ![r] = IF opinion THEN h ELSE @]
                  /\ voted' = [voted EXCEPT ![r][b] = votes_b]
                  /\ votes' = [votes EXCEPT
                         ![r] = IF votes_b = {} THEN @ ELSE @ \cup {b}]
                  /\ hqc' = [hqc EXCEPT
                         ![r] = IF Cardinality(votes_b) = nmajority THEN b ELSE @]
                  /\ proposals' = proposals \cup {<<r, b>>}
                  /\ UNCHANGED thrown

(* What the core asks of the caller of on_propose: get_parents() of the    *)
(* pacemaker returns a delivered block that extends hqc.                   *)
on_propose(r, p) ==
    /\ p \in delivered[r]
    /\ hqc[r] \in branch[p]
    /\ Propose(r, p)

(* propose_handler, for a proposal of another replica z: its block is      *)
(* delivered, if it was not.                                               *)
propose_handler(r, z, b) ==
    /\ <<z, b>> \in proposals
    /\ z # r
    /\ Deliver(r, b, branch[b])

on_receive_proposal(r, z, b) ==
    /\ propose_handler(r, z, b)
    /\ LET q == qc_ref[b]
           opinion == Opinion(r, LockAfter(r, q), height[b], q, branch[b])
       IN /\ hqc' = [hqc EXCEPT ![r] = HqcAfter(r, q)]
          /\ update(r, q)
          /\ IF Breached(r, q)
             THEN /\ Throw(r, "safety breached")
                  /\ UNCHANGED <<vheight, votes>>
             ELSE /\ vheight' = [vheight EXCEPT
                         ![r] = IF opinion THEN height[b] ELSE @]
                  /\ votes' = [votes EXCEPT
                         ![r] = IF opinion /\ r \notin VoteDisabled
                                THEN @ \cup {b} ELSE @]
                  /\ UNCHANGED thrown
    /\ UNCHANGED <<tree, voted, proposals>>

(* A vote of v for b can arrive at r: it was sent to the proposer of b, or *)
(* (StrayVotes) to another replica.                                        *)
VoteArrives(r, v, b) ==
    /\ v \in Signers(b)
    /\ StrayVotes \/ <<r, b>> \in proposals

(* vote_handler: the block of the vote is delivered, if it was not.        *)
vote_handler(r, v, b) ==
    /\ VoteArrives(r, v, b)
    /\ Deliver(r, b, branch[b])

Completes_Early(r, b) == Cardinality(voted[r][b]) + 2 = nmajority

(* One more vote completes r's certificate for b.                          *)
Completes(r, b) == Cardinality(voted[r][b]) + 1 = nmajority

(* on_receive_vote returns early when the certificate is complete and on a *)
(* duplicate; update_hqc when this vote completes it.                      *)
on_receive_vote(r, v, b) ==
    /\ vote_handler(r, v, b)
    /\ Cardinality(voted[r][b]) < nmajority
    /\ v \notin voted[r][b]
    /\ voted' = [voted EXCEPT ![r][b] = @ \cup {v}]
    /\ hqc' = [hqc EXCEPT
           ![r] = IF Completes(r, b) /\ height[b] > height[@] THEN b ELSE @]
    /\ UNCHANGED <<tree, b_lock, b_exec, vheight, decision, executed, votes,
                   proposals, thrown>>

(* A Byzantine replica builds a block anywhere in the tree, with any       *)
(* certificate it can have for one of the block's ancestors, and sends it  *)
(* to whom it likes.                                                       *)
ByzantinePropose(z, p, q) ==
    /\ blocks # Block
    /\ q \in branch[p]
    /\ Certified(q)
    /\ NewBlock(FreshBlk, p, q)
    /\ proposals' = proposals \cup {<<z, FreshBlk>>}
    /\ UNCHANGED <<delivered, tails, hqc, b_lock, b_exec, vheight, decision,
                   executed, voted, votes, thrown>>

Next ==
    \/ \E r \in Running, b \in blocks : on_deliver_blk(r, b)
    \/ \E r \in Running \cap Proposer, p \in blocks : on_propose(r, p)
    \/ \E r \in Running, z \in Replica, b \in blocks : on_receive_proposal(r, z, b)
    \/ \E r \in Running, v \in Replica, b \in blocks : on_receive_vote(r, v, b)
    \/ \E z \in Byzantine, p \in blocks, q \in blocks : ByzantinePropose(z, p, q)

Spec == Init /\ [][Next]_vars

-----------------------------------------------------------------------------
(* Every variable of the core has its type.                                *)
TypeOK ==
    /\ blocks \in SUBSET Block
    /\ parent \in [Block -> blocks]
    /\ qc_ref \in [Block -> blocks]
    /\ height \in [Block -> Nat]
    /\ branch \in [Block -> SUBSET blocks]
    /\ delivered \in [Honest -> SUBSET blocks]
    /\ tails \in [Honest -> SUBSET blocks]
    /\ hqc \in [Honest -> blocks]
    /\ b_lock \in [Honest -> blocks]
    /\ b_exec \in [Honest -> blocks]
    /\ vheight \in [Honest -> Nat]
    /\ decision \in [Honest -> SUBSET blocks]
    /\ executed \in [Honest -> Seq(blocks)]
    /\ voted \in [Honest -> [Block -> SUBSET Replica]]
    /\ votes \in [Honest -> SUBSET blocks]
    /\ proposals \in SUBSET (Replica \X blocks)
    /\ thrown \in [Honest -> SUBSET Errors]

(* Two different blocks of one height never both get a certificate: the    *)
(* quorums intersect in a correct replica, and vheight lets it vote once   *)
(* per height.                                                             *)
OneCertPerHeight ==
    \A b, c \in blocks :
        Certified(b) /\ Certified(c) /\ height[b] = height[c] => b = c

(* Once the chain that commits a block has its certificates, no block off  *)
(* that branch, at that height or above, ever gets one: the lock keeps     *)
(* enough correct replicas from voting for it.  This holds from the moment *)
(* of the certificate, before any replica has seen it.                     *)
ConflictExcluded ==
    \A q, w \in blocks :
        /\ Certified(q)
        /\ DirectChain(q)
        /\ Certified(w)
        /\ height[w] >= height[CommitTarget(q)]
        => CommitTarget(q) \in branch[w]

(* No correct replica ever throws "safety breached :(" in update().        *)
NeverBreached == \A r \in Honest : "safety breached" \notin thrown[r]

(* Correct replicas call do_consensus for the same blocks in the same      *)
(* order: of any two logs, one is a prefix of the other.                   *)
Agreement ==
    \A r, s \in Honest :
        \A i \in 1 .. Len(executed[r]) :
            i =< Len(executed[s]) => executed[r][i] = executed[s][i]

(* The commit walk executes every block between two values of b_exec once, *)
(* the lower one first: the log is the branch of b_exec in order of height *)
(* and the decided blocks are exactly that branch.                         *)
DecidedIsExecuted ==
    \A r \in Honest :
        /\ decision[r] = branch[b_exec[r]]
        /\ Len(executed[r]) = height[b_exec[r]]
        /\ \A i \in 1 .. Len(executed[r]) :
              /\ executed[r][i] \in branch[b_exec[r]]
              /\ height[executed[r][i]] = i

(* What any correct replica has executed, enough correct replicas are      *)
(* locked at or above: every quorum contains one of them.                  *)
ExecutedIsLocked ==
    \A r \in Honest :
        \/ b_exec[r] = b0
        \/ Cardinality({s \in Honest : height[b_lock[s]] >= height[b_exec[r]]})
               >= nmajority - Cardinality(Byzantine)

(* A replica never locks a block higher than the last one it accepted: the *)
(* block whose arrival raised the lock passes the voting rule as well.     *)
LockBelowVote == \A r \in Honest : height[b_lock[r]] =< vheight[r]

(* hqc is at least as high as the lock, so that a block proposed over hqc  *)
(* always satisfies the proposer's own voting rule.                        *)
LockBelowHqc == \A r \in Honest : height[b_lock[r]] =< height[hqc[r]]

(* The certificate a correct replica will put into its next block is one   *)
(* that every other replica's Block::verify accepts.                       *)
HqcCertified == \A r \in Honest : Certified(hqc[r])

(* A proposal that on_propose broadcasts has passed the proposer's own     *)
(* voting rule, and carries its vote unless voting is disabled.            *)
ProposerAccepts ==
    \A r \in Honest, b \in blocks :
        <<r, b>> \in proposals =>
            /\ height[b] =< vheight[r]
            /\ r \in VoteDisabled \/ b \in votes[r]

(* tails holds exactly the delivered blocks that no delivered block has as *)
(* its parent.                                                             *)
TailsAreLeaves ==
    \A r \in Honest :
        tails[r] = {b \in delivered[r] :
                      \A c \in delivered[r] : c = b0 \/ parent[c] # b}

(* The core implements the replicated log: executed logs only grow, hold   *)
(* no block twice, and agree.                                              *)
Log == INSTANCE ReplicatedLog WITH Node <- Honest, Entry <- Block, log <- executed
LogSpec == Log!Spec

=============================================================================
