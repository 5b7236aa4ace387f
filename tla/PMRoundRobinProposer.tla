------------------------ MODULE PMRoundRobinProposer ------------------------
(***************************************************************************)
(* The rotating pacemaker (PMRoundRobinProposer and PaceMakerRR,           *)
(* liveness.h) of one replica, Id, with the parts of its core that call it *)
(* back: the certificates of its blocks, its proposals, the proposals it   *)
(* receives and the blocks they decide.  The other replicas are free to    *)
(* propose on what this one knows and to vote when they like.              *)
(*                                                                         *)
(* Everything happens in one event loop and the callbacks run nested, so a *)
(* step is a composition of operators that each take a state of the        *)
(* replica and return the next: one operator per function of the class.    *)
(***************************************************************************)
EXTENDS Integers, Sequences, FiniteSets

CONSTANTS
    nreplicas,
    Id,             \* this replica
    MaxBlock,       \* bounds the blocks
    MaxBeat,        \* bounds the beats that wait
    MaxCall         \* bounds the calls that wait in tcall

ASSUME RoundRobinAssumption ==
    /\ nreplicas \in Nat \ {0, 1} /\ Id \in 0 .. nreplicas - 1
    /\ {MaxBlock, MaxBeat, MaxCall} \subseteq Nat

Replicas == 0 .. nreplicas - 1

Batch == -1     \* what a block is proposed for: commands, or the x-th empty block
Other == -2     \* by another replica
b0 == 0
Null == -1      \* no block

VARIABLE s          \* the replica

(* blocks: [by, x, up, qc_ref, line], line: the block and its ancestors    *)
By(t, b) == IF b = b0 THEN -1 ELSE t.blocks[b].by
Up(t, b) == IF b = b0 THEN b0 ELSE t.blocks[b].up
QcRef(t, b) == IF b = b0 THEN b0 ELSE t.blocks[b].qc_ref
Line(t, b) == IF b = b0 THEN {b0} ELSE t.blocks[b].line
Height(t, b) == Cardinality(Line(t, b)) - 1
Known(t) == 0 .. Len(t.blocks)

Voted(t, b) == b = b0 \/ b \in t.certified     \* nmajority votes came in here

Init ==
    s = [blocks |-> <<>>, certified |-> {}, hqc |-> b0, tail |-> b0, b_exec |-> b0, decided |-> {b0},
         (* qc_waiting[b]: the promise, if any, and who waits for it *)
         qc_waiting |-> <<>>,
         proposer |-> 0, rotating |-> FALSE, timer |-> "none",
         prop_blk |-> [r \in Replicas |-> Null],
         (* reg_proposal and reg_receive_proposal: one flag, since what the *)
         (* one that expires later still notes is cleared before it is read *)
         registered |-> FALSE,
         pending_beats |-> 0, last_proposed |-> b0, locked |-> FALSE,
         pm_qc_finish |-> Null,         \* whose certificate the promise is about
         pm_wait_propose |-> TRUE,      \* whether the callback is still there
         pm_qc_manual |-> Null,
         tcall |-> IF Id = 0 THEN 1 ELSE 0,   \* calls of async_call to come
         (* For the properties: the blocks before the rotation, and whether *)
         (* tcall made the replica propose when it was not its turn.        *)
         since |-> 0, late |-> FALSE]

-----------------------------------------------------------------------------
(* The promises of certificates.                                           *)

NoPromise == [state |-> "none", waiters |-> <<>>]

(* pm.reject(): of the promise that async_qc_finish(b) returned.           *)
Reject(t, b) ==
    IF b # Null /\ b # b0 /\ t.qc_waiting[b].state = "pending"
    THEN [t EXCEPT !.qc_waiting[b] = [state |-> "rejected", waiters |-> <<>>]]
    ELSE t

(* async_qc_finish(b).then(w), for a b that has no certificate yet         *)
Wait(t, b, w) ==
    CASE t.qc_waiting[b].state = "none" ->
            [t EXCEPT !.qc_waiting[b] = [state |-> "pending", waiters |-> <<w>>]]
      [] t.qc_waiting[b].state = "pending" ->
            [t EXCEPT !.qc_waiting[b].waiters = Append(@, w)]
      [] OTHER -> t

-----------------------------------------------------------------------------
(* Beats.                                                                  *)

(* proposer_schedule_next, when last_proposed has no certificate yet       *)
ScheduleNext(t) ==
    IF t.pending_beats > 0 /\ ~t.locked
    THEN [Wait(Reject(t, t.pm_qc_finish), t.last_proposed, Batch) EXCEPT
              !.pending_beats = @ - 1, !.pm_qc_finish = t.last_proposed, !.locked = TRUE]
    ELSE t

(* The callback of proposer_update_last_proposed                           *)
UpdateLastProposed_StaysLocked(t, b) ==
    IF t.pm_wait_propose THEN ScheduleNext([t EXCEPT !.last_proposed = b]) ELSE t
UpdateLastProposed(t, b) ==
    IF t.pm_wait_propose
    THEN ScheduleNext([t EXCEPT !.last_proposed = b, !.locked = FALSE])
    ELSE t

-----------------------------------------------------------------------------
(* Role transitions.                                                       *)

RejectAll_NotQcFinish(t) == [Reject(t, t.pm_qc_manual) EXCEPT !.pm_wait_propose = FALSE]
RejectAll(t) ==
    [Reject(Reject(t, t.pm_qc_finish), t.pm_qc_manual) EXCEPT !.pm_wait_propose = FALSE]

Rotate_KeepsBlocks(t) ==
    [RejectAll(t) EXCEPT
        !.registered = TRUE, !.rotating = TRUE, !.proposer = (@ + 1) % nreplicas,
        !.timer = "exp", !.since = Len(t.blocks)]
Rotate(t) ==
    [RejectAll(t) EXCEPT
        !.registered = TRUE, !.rotating = TRUE, !.proposer = (@ + 1) % nreplicas,
        !.prop_blk = [r \in Replicas |-> Null],
        !.timer = "exp", !.since = Len(t.blocks)]

StopRotate(t) ==
    [RejectAll(t) EXCEPT
        !.timer = "none", !.rotating = FALSE, !.locked = FALSE, !.last_proposed = b0,
        !.pm_wait_propose = TRUE, !.tcall = IF t.proposer = Id THEN @ + 1 ELSE @]

(* on_consensus for each block of queue: at most one of them is the first  *)
(* one of the proposer, and stop_rotate changes neither prop_blk nor       *)
(* proposer, so their order does not show.                                 *)
on_consensus(t, queue) ==
    LET u == [t EXCEPT !.timer = "none"] IN
    IF u.prop_blk[u.proposer] \in queue THEN StopRotate(u) ELSE u

-----------------------------------------------------------------------------
(* The core.                                                               *)

Leaves(t) == Known(t) \ {Up(t, b) : b \in Known(t) \ {b0}}

(* update_hqc and the callback of PMHighTail: hqc or the highest tail on it *)
UpdateHqc(t, b) ==
    IF Height(t, b) <= Height(t, t.hqc) THEN t
    ELSE LET above == {c \in Leaves(t) \cup {b} : b \in Line(t, c)}
         IN [t EXCEPT !.hqc = b,
                      !.tail = CHOOSE c \in above : \A d \in above : Height(t, d) <= Height(t, c)]

(* The blocks to commit                                                    *)
Queue(t, b) == Line(t, b) \ Line(t, t.b_exec)

(* update                                                                  *)
Update(t, n) ==
    LET b2 == QcRef(t, n)
        b1 == QcRef(t, b2)
        b  == QcRef(t, b1)
        u  == UpdateHqc(t, b2)
    IN IF b2 \in t.decided THEN t
       ELSE IF {b1, b} \cap t.decided # {} \/ Up(t, b2) # b1 \/ Up(t, b1) # b THEN u
       ELSE on_consensus([u EXCEPT !.decided = @ \cup Line(t, b), !.b_exec = b], Queue(t, b))

(* reg_proposal, reg_receive_proposal: the first block of its proposer     *)
FirstBlock_Believed(t, b) ==
    IF t.registered
    THEN [t EXCEPT !.prop_blk[t.proposer] = IF @ = Null THEN b ELSE @, !.registered = t.rotating]
    ELSE t
FirstBlock(t, b) ==
    IF t.registered
    THEN [t EXCEPT !.prop_blk[By(t, b)] = IF @ = Null THEN b ELSE @, !.registered = t.rotating]
    ELSE t

AddBlock(t, r, x, up, q) ==
    LET n == Len(t.blocks) + 1 IN
    [t EXCEPT
        !.blocks = Append(@, [by |-> r, x |-> x, up |-> up, qc_ref |-> q, line |-> Line(t, up) \cup {n}]),
        !.qc_waiting = Append(@, NoPromise)]

(* on_propose(get_parents()): update, on_receive_proposal_, on_propose_    *)
Propose(t, x) ==
    LET n == Len(t.blocks) + 1
        u == FirstBlock(Update(AddBlock(t, Id, x, t.tail, t.hqc), n), n)
    IN UpdateLastProposed([u EXCEPT !.tail = n], n)

(* pm.resolve(proposer), and what exec_command's batch does then           *)
ProposeBatch(t) == IF t.proposer = Id THEN Propose(t, Batch) ELSE t

do_new_consensus(t, x) ==
    LET n == Len(t.blocks) + 1
        u == Propose(t, x)
    IN [Wait(Reject(u, u.pm_qc_manual), n, x) EXCEPT !.pm_qc_manual = n]

LastManual_Short == 2
LastManual == 3     \* without HOTSTUFF_TWO_STEP

RunWaiter(t, w) ==
    CASE w = Batch -> ProposeBatch(t)
      [] w >= LastManual -> t
      [] OTHER -> do_new_consensus(t, w + 1)

(* The callbacks, one after the other                                      *)
RunWaiters(t, waiters) ==
    LET run[k \in 0 .. Len(waiters)] == IF k = 0 THEN t ELSE RunWaiter(run[k - 1], waiters[k])
    IN run[Len(waiters)]

(* on_qc_finish: settles the promise, which no reject() changes any more   *)
QcFinish(t, b) ==
    IF b = b0 THEN t
    ELSE RunWaiters([t EXCEPT !.qc_waiting[b] = NoPromise,
                              !.pm_qc_finish = IF @ = b THEN Null ELSE @,
                              !.pm_qc_manual = IF @ = b THEN Null ELSE @],
                    t.qc_waiting[b].waiters)

-----------------------------------------------------------------------------
(* The steps, within the bounds.                                           *)

(* Consensus is safe (Agreement, HotStuffCore): no block off the log is    *)
(* ever decided, for which update() would throw.                           *)
Step(t) ==
    /\ Len(t.blocks) <= MaxBlock /\ t.pending_beats <= MaxBeat /\ t.tcall <= MaxCall
    /\ t.decided = Line(t, t.b_exec)
    /\ s' = t

(* The votes for an own block reach nmajority.                             *)
Certify ==
    \E b \in Known(s) \ ({b0} \cup s.certified) :
        /\ By(s, b) = Id
        /\ Step(QcFinish(UpdateHqc([s EXCEPT !.certified = @ \cup {b}], b), b))

(* on_receive_proposal, from r                                             *)
Receive ==
    \E r \in Replicas \ {Id}, up \in {s.tail, s.hqc}, q \in {s.tail, s.hqc} :
        LET n == Len(s.blocks) + 1
            t == AddBlock(s, r, Other, up, q)
            u == QcFinish(Update(t, n), q)
            extends == u.hqc \in Line(u, n) /\ Height(u, n) > Height(u, u.tail)
        IN /\ q \in Line(s, up)
           /\ Step(FirstBlock([u EXCEPT !.tail = IF extends THEN n ELSE @], n))

(* beat(): for a batch of commands, which the handler collects only at the *)
(* proposer.  A promise that is resolved at once runs the batch's callback *)
(* when the handler registers it, after beat().                            *)
Beat ==
    /\ s.proposer = Id
    /\ LET queued == [s EXCEPT !.pending_beats = @ + 1] IN
       CASE s.rotating -> Step(ProposeBatch(s))
         [] ~s.rotating /\ (s.locked \/ ~Voted(s, s.last_proposed)) -> Step(ScheduleNext(queued))
         [] OTHER ->
              LET t == [Reject(queued, s.pm_qc_finish) EXCEPT
                            !.pending_beats = @ - 1, !.pm_qc_finish = Null, !.locked = TRUE]
              IN Step(ProposeBatch(t))

(* impeach(): by the timer of the application                              *)
Impeach == ~s.rotating /\ Step(Rotate(s))

on_exp_timeout ==
    /\ s.timer = "exp"
    /\ LET t == IF s.proposer = Id THEN do_new_consensus(s, 0) ELSE s
       IN Step([t EXCEPT !.timer = "delay"])

DelayTimeout == s.timer = "delay" /\ Step(Rotate(s))

(* The call that stop_rotate left, with commands pending or not            *)
Repropose ==
    /\ s.tcall > 0
    /\ LET t == [s EXCEPT !.tcall = @ - 1]
           u == [t EXCEPT !.late = @ \/ s.rotating \/ s.proposer # Id]
       IN Step(t) \/ Step(do_new_consensus(u, 0))

Next == Certify \/ Receive \/ Beat \/ Impeach \/ on_exp_timeout \/ DelayTimeout \/ Repropose

Spec == Init /\ [][Next]_s

-----------------------------------------------------------------------------
(* The replica extends hqc, remembers only own blocks as last_proposed and *)
(* in prop_blk only blocks of the proposer that it notes them for.         *)
TypeOK ==
    /\ s.tail \in Known(s) /\ s.hqc \in Known(s) /\ s.b_exec \in s.decided
    /\ s.hqc \in Line(s, s.tail)
    /\ s.proposer \in Replicas /\ s.timer \in {"none", "exp", "delay"}
    /\ s.last_proposed = b0 \/ By(s, s.last_proposed) = Id
    /\ \A r \in Replicas : s.prop_blk[r] = Null \/ By(s, s.prop_blk[r]) = r
    /\ Len(s.qc_waiting) = Len(s.blocks)

Waiters(b) == s.qc_waiting[b].waiters
Waiting == {b \in DOMAIN s.qc_waiting : \E i \in DOMAIN Waiters(b) : Waiters(b)[i] = Batch}

(* A batch waits only while the replica is the proposer and not rotating,  *)
(* never two at once.                                                      *)
OneWaits ==
    /\ \A b, c \in Waiting : b = c
    /\ \A b \in Waiting : \A i, j \in DOMAIN Waiters(b) :
        Waiters(b)[i] = Batch /\ Waiters(b)[j] = Batch => i = j
    /\ Waiting # {} => ~s.rotating /\ (s.proposer = Id \/ s.late)

(* A lock is held only for a batch that waits for the certificate of the   *)
(* last block, and the proposal of that batch will release it.             *)
LockReleased ==
    s.locked /\ ~s.rotating /\ ~s.late => Waiting = {s.last_proposed} /\ s.pm_wait_propose

(* A rotation ends when a block is decided that the new proposer proposed  *)
(* after the rotation.                                                     *)
EndOfRotation ==
    [][s.rotating /\ ~s'.rotating =>
          \E b \in s'.decided \ s.decided : By(s', b) = s.proposer /\ b > s.since]_s

(* When the blocks of do_new_consensus are proposed in a row, each on the  *)
(* one before, during a rotation and certified, they decide the first: the *)
(* proposer is elected.                                                    *)
ManualDecides ==
    \A b \in s.certified : LET x == s.blocks[b].x IN
        /\ s.rotating /\ b = Len(s.blocks) /\ x >= 0 /\ b - x > s.since
        /\ \A i \in 0 .. x : s.blocks[b - i].x = x - i /\ (i < x => Up(s, b - i) = b - i - 1)
        => b - x \in s.decided

(* While it rotates a replica has a timer that will rotate further, since  *)
(* impeach() does nothing then: leader rotation "will be scheduled"        *)
(* (README.rst:95) also when the next proposer has stopped.                *)
RotatingHasTimer == s.rotating => s.timer # "none"
=============================================================================
