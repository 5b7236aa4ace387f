----------------------------- MODULE PMHighTail -----------------------------
(***************************************************************************)
(* The parent selection of the pacemakers (class PMHighTail, liveness.h),  *)
(* composed with the protocol core.  It follows the core through three     *)
(* promises, async_hqc_update, async_wait_receive_proposal and             *)
(* async_wait_proposal, whose callbacks run inside the handler that        *)
(* resolves them: each action here is a core action together with the      *)
(* callbacks it runs, in their order.                                      *)
(***************************************************************************)
EXTENDS HotStuffCore

VARIABLE hqc_tail   \* hqc_tail[r]: the parent of r's next block

pm_vars == <<vars, hqc_tail>>

PMInit == Init /\ hqc_tail = [r \in Honest |-> b0]

HqcTails_OnlyHqc(q, ts) == {q}

(* The callback on hqc updates: hqc itself or the highest tail above it.   *)
(* std::set orders the tails by address, so any of the highest is met      *)
(* first.                                                                  *)
HqcTails(q, ts) ==
    LET above == {t \in ts : q \in branch[t]} \cup {q}
    IN {t \in above : \A u \in above : height[u] =< height[t]}

TailAfterReceive_AnyBranch(tail, q, b) ==
    IF height[b] > height[tail] THEN b ELSE tail

(* The callback on received proposals.                                     *)
TailAfterReceive(tail, q, b) ==
    IF q \in branch[b] /\ height[b] > height[tail] THEN b ELSE tail

(* hqc_tail at r once the callback on hqc updates has run, if it has.      *)
TailsNow(r) ==
    IF hqc'[r] = hqc[r] THEN {hqc_tail[r]} ELSE HqcTails(hqc'[r], tails'[r])

pm_deliver_blk(r, b) ==
    /\ on_deliver_blk(r, b)
    /\ UNCHANGED hqc_tail

(* on_propose(get_parents()): a throw skips the callbacks; otherwise the   *)
(* callback on proposals runs last.                                        *)
pm_propose(r) ==
    /\ Propose(r, hqc_tail[r])
    /\ hqc_tail' = [hqc_tail EXCEPT
           ![r] = IF proposals' # proposals THEN FreshBlk ELSE @]

pm_receive_proposal(r, z, b) ==
    /\ on_receive_proposal(r, z, b)
    /\ \E t \in TailsNow(r) :
          hqc_tail' = [hqc_tail EXCEPT
              ![r] = IF Breached(r, qc_ref[b]) THEN t
                     ELSE TailAfterReceive(t, hqc'[r], b)]

pm_receive_vote(r, v, b) ==
    /\ on_receive_vote(r, v, b)
    /\ \E t \in TailsNow(r) : hqc_tail' = [hqc_tail EXCEPT ![r] = t]

PMNext ==
    \/ \E r \in Running, b \in blocks : pm_deliver_blk(r, b)
    \/ \E r \in Running \cap Proposer : pm_propose(r)
    \/ \E r \in Running, z \in Replica, b \in blocks : pm_receive_proposal(r, z, b)
    \/ \E r \in Running, v \in Replica, b \in blocks : pm_receive_vote(r, v, b)
    \/ /\ \E z \in Byzantine, p \in blocks, q \in blocks : ByzantinePropose(z, p, q)
       /\ UNCHANGED hqc_tail

PMSpec == PMInit /\ [][PMNext]_pm_vars

-----------------------------------------------------------------------------
(* What get_parents() returns is delivered and extends hqc, whatever order *)
(* proposals, votes and certificates arrive in: a correct replica's block  *)
(* never carries a certificate for a block that it does not extend.        *)
TailExtendsHqc ==
    \A r \in Honest :
        /\ hqc_tail[r] \in delivered[r]
        /\ hqc[r] \in branch[hqc_tail[r]]

(* A block that the replica voted for and that extends hqc is never higher *)
(* than the parent of its next block.  So on_propose can only throw "new   *)
(* block should be higher than vheight" for a vote on a branch off hqc.    *)
TailCoversVotes ==
    \A r \in Honest : \A b \in votes[r] :
        hqc[r] \in branch[b] => height[b] =< height[hqc_tail[r]]

(* As long as one correct replica makes all the proposals, as it is under  *)
(* PaceMakerDummyFixed, no runtime_error is thrown anywhere: each of its   *)
(* blocks is higher than what it voted for, and nothing is breached.       *)
SoleProposer(z) == \A x \in proposals : x[1] = z

NeverThrows == \A z \in Honest : SoleProposer(z) => \A r \in Honest : thrown[r] = {}
=============================================================================
