------------------------------ MODULE Commands ------------------------------
(***************************************************************************)
(* The way of a command: the client sends it to all replicas, the handler  *)
(* of cmd_pending (HotStuffBase::start) notes who waits for it, the        *)
(* proposer collects batches and proposes one per beat, every replica that *)
(* decides a block answers those who wait (do_decide), and the client      *)
(* counts the answers (hotstuff_client.cpp).                               *)
(*                                                                         *)
(* The proposer is fixed (PaceMakerDummyFixed).  Consensus is seen from    *)
(* outside: the proposals are one chain, a block is proposed when a quorum *)
(* has the one before, and a replica that receives a proposal decides the  *)
(* blocks that are Depth below it: HotStuffCore and ReplicatedLog say why. *)
(***************************************************************************)
EXTENDS Naturals, Sequences, SequencesExt, FiniteSets

CONSTANTS
    Replica,
    Down,           \* the replicas that have stopped
    proposer,
    nmajority,
    nfaulty,        \* what the client takes for the number of faulty replicas
    Depth,          \* the blocks above a block that decide it
    blk_size,
    max_async_num,  \* how many commands the client has under way
    MaxIter,        \* max_iter_num: how many commands it sends
    MaxClient       \* bounds how often the client is started

ASSUME CommandsAssumption ==
    /\ IsFiniteSet(Replica) /\ Down \subseteq Replica /\ proposer \in Replica \ Down
    /\ {nmajority, Depth, blk_size, max_async_num, MaxIter, MaxClient} \subseteq Nat \ {0}
    /\ nfaulty \in Nat

Command == 0 .. MaxIter - 1     \* CommandDummy: of one client, by number
Client == 1 .. MaxClient        \* the connections of a client that was started

VARIABLES
    client,             \* how often the client was started
    cnt,                \* its commands so far
    waiting,            \* the commands it waits for
    confirmed,          \* confirmed[c]: the answers to c
    replies,            \* replies[r]: <<c, d>>, the finality d of c, under way from r to
                        \* the client, which does not care about their order
    cmd_pending,        \* cmd_pending[r]: <<c, i>>, from the client to the event loop
    decision_waiting,   \* decision_waiting[r][c]: the client to answer, or 0
    cmd_pending_buffer, \* the commands of the proposer that wait for a batch
    pending_beats,      \* the batches that wait for a beat
    chain,              \* the batches of the blocks proposed
    received,           \* received[r]: the length of the chain that r knows
    (* Recorded for the properties. *)
    acknowledged,       \* <<c, i>>: client i found c confirmed
    late                \* <<r, c>>: r had decided c when the request came

client_state == <<client, cnt, waiting, confirmed>>
history == <<acknowledged, late>>
vars == <<client_state, replies, cmd_pending, decision_waiting, cmd_pending_buffer, pending_beats,
          chain, received, history>>

Up == Replica \ Down

(* The thread of resp_queue can answer a client only while it runs.        *)
Reachable(i) == i = client

(* Every try_send that succeeds in a row, when the client waits for w.     *)
Window(w) == LET room == IF Cardinality(w) < max_async_num THEN max_async_num - Cardinality(w) ELSE 0
             IN cnt .. (IF cnt + room < MaxIter THEN cnt + room ELSE MaxIter) - 1

Requests(new, i) == [k \in 1 .. Cardinality(new) |-> <<cnt + k - 1, i>>]

Init ==
    /\ client = 0
    /\ cnt = 0
    /\ waiting = {}
    /\ confirmed = [c \in Command |-> 0]
    /\ replies = [r \in Replica |-> {}]
    /\ cmd_pending = [r \in Replica |-> <<>>]
    /\ decision_waiting = [r \in Replica |-> [c \in Command |-> 0]]
    /\ cmd_pending_buffer = <<>>
    /\ pending_beats = <<>>
    /\ chain = <<>>
    /\ received = [r \in Replica |-> 0]
    /\ acknowledged = {}
    /\ late = {}

-----------------------------------------------------------------------------
(* The client.                                                             *)

(* It is started, maybe after it was killed: with the same cid it sends    *)
(* the same commands again.  What was on its way may be lost.              *)
Start ==
    /\ client < MaxClient
    /\ client' = client + 1
    /\ cnt' = IF max_async_num < MaxIter THEN max_async_num ELSE MaxIter
    /\ waiting' = 0 .. cnt' - 1
    /\ confirmed' = [c \in Command |-> 0]
    /\ replies' = [r \in Replica |-> {}]
    /\ \E lost \in SUBSET Up :
        cmd_pending' = [r \in Replica |->
            (IF r \in lost THEN <<>> ELSE cmd_pending[r]) \o [k \in 1 .. cnt' |-> <<k - 1, client'>>]]
    /\ UNCHANGED <<decision_waiting, cmd_pending_buffer, pending_beats, chain, received, history>>

(* Answers that make a command confirmed: f + 1.                           *)
Enough_Early(n) == n >= nfaulty
Enough_Late(n) == n > nfaulty + 1
Enough(n) == n > nfaulty

(* client_resp_cmd_handler                                                 *)
HandleReply(r) == \E x \in replies[r] : LET c == x[1] IN
    /\ replies' = [replies EXCEPT ![r] = @ \ {x}]
    /\ IF c \notin waiting
       THEN UNCHANGED <<client_state, cmd_pending, acknowledged>>
       ELSE /\ confirmed' = [confirmed EXCEPT ![c] = @ + 1]
            /\ IF ~Enough(confirmed'[c])
               THEN UNCHANGED <<cnt, waiting, cmd_pending, acknowledged>>
               ELSE LET new == Window(waiting \ {c}) IN
                    /\ waiting' = (waiting \ {c}) \cup new
                    /\ cnt' = cnt + Cardinality(new)
                    /\ cmd_pending' = [q \in Replica |-> cmd_pending[q] \o Requests(new, client)]
                    /\ acknowledged' = acknowledged \cup {<<c, client>>}
            /\ UNCHANGED client
    /\ UNCHANGED <<decision_waiting, cmd_pending_buffer, pending_beats, chain, received, late>>

-----------------------------------------------------------------------------
(* The replicas.                                                           *)

(* The commands of the blocks of ch that are decided when its first n      *)
(* blocks are known, and not when its first m are.                         *)
DecidedBetween(ch, m, n) ==
    UNION {ToSet(ch[k]) : k \in {j \in DOMAIN ch : m < j + Depth /\ j + Depth <= n}}

(* The commands of the blocks that r has decided.                          *)
DecidedBy(r) == DecidedBetween(chain, 0, received[r])

(* The batches of cmd_pending_buffer.                                      *)
IsBatch_OffByOne(buffer) == Len(buffer) > blk_size
IsBatch(buffer) == Len(buffer) >= blk_size
Batch_DropsOne(buffer) == SubSeq(buffer, 2, blk_size)
Batch(buffer) == SubSeq(buffer, 1, blk_size)
AfterBatch_KeepsOne(buffer) == SubSeq(buffer, blk_size, Len(buffer))
AfterBatch(buffer) == SubSeq(buffer, blk_size + 1, Len(buffer))

(* The handler of cmd_pending takes a request: a command that is waited    *)
(* for already is refused, and yet collected again.                        *)
HandleRequest(r) ==
    /\ r \in Up
    /\ cmd_pending[r] # <<>>
    /\ cmd_pending' = [cmd_pending EXCEPT ![r] = Tail(@)]
    /\ LET c == Head(cmd_pending[r])[1]
           i == Head(cmd_pending[r])[2]
           buffer == Append(cmd_pending_buffer, c)
       IN /\ IF decision_waiting[r][c] = 0
             THEN /\ decision_waiting' = [decision_waiting EXCEPT ![r][c] = i]
                  /\ UNCHANGED replies
             ELSE /\ replies' = IF Reachable(i) THEN [replies EXCEPT ![r] = @ \cup {<<c, 0>>}] ELSE replies
                  /\ UNCHANGED decision_waiting
          /\ IF r # proposer
             THEN UNCHANGED <<cmd_pending_buffer, pending_beats>>
             ELSE IF IsBatch(buffer)
             THEN /\ pending_beats' = Append(pending_beats, Batch(buffer))
                  /\ cmd_pending_buffer' = AfterBatch(buffer)
             ELSE cmd_pending_buffer' = buffer /\ UNCHANGED pending_beats
          /\ late' = IF c \in DecidedBy(r) THEN late \cup {<<r, c>>} ELSE late
    /\ UNCHANGED <<client_state, chain, received, acknowledged>>

Forget(asked, cs) == [c \in Command |-> IF c \in cs THEN 0 ELSE asked[c]]

(* do_decide for the commands of the blocks that r decides when it knows   *)
(* the first n blocks of ch: who waits is answered and forgotten.          *)
Decide(r, n, ch) ==
    LET cs == DecidedBetween(ch, received[r], n) IN
    /\ received' = [received EXCEPT ![r] = n]
    /\ decision_waiting' = [decision_waiting EXCEPT ![r] = Forget(@, cs)]
    /\ replies' = [replies EXCEPT
           ![r] = @ \cup {<<c, 1>> : c \in {d \in cs : Reachable(decision_waiting[r][d])}}]

(* A beat: the proposer has the certificate of its last block.             *)
Propose ==
    /\ pending_beats # <<>>
    /\ chain = <<>> \/ Cardinality({r \in Up : received[r] = Len(chain)}) >= nmajority
    /\ chain' = Append(chain, Head(pending_beats))
    /\ pending_beats' = Tail(pending_beats)
    /\ Decide(proposer, Len(chain'), chain')
    /\ UNCHANGED <<client_state, cmd_pending, cmd_pending_buffer, history>>

(* A proposal arrives, with the blocks below it (BlockFetch).              *)
ReceiveProposal(r, n) ==
    /\ r \in Up
    /\ n \in received[r] + 1 .. Len(chain)
    /\ Decide(r, n, chain)
    /\ UNCHANGED <<client_state, cmd_pending, cmd_pending_buffer, pending_beats, chain, history>>

Next ==
    \/ Start
    \/ \E r \in Replica : HandleReply(r)
    \/ \E r \in Replica : HandleRequest(r)
    \/ Propose
    \/ \E r \in Replica, n \in 1 .. MaxIter * MaxClient : ReceiveProposal(r, n)

Spec == Init /\ [][Next]_vars

(* The event loops and the network of the replicas that are up do not      *)
(* stop; nothing makes the user start the client.                          *)
FairSpec ==
    /\ Spec
    /\ WF_vars(\E r \in Replica : HandleReply(r))
    /\ \A r \in Replica : WF_vars(HandleRequest(r))
    /\ WF_vars(Propose)
    /\ \A r \in Replica : WF_vars(ReceiveProposal(r, Len(chain)))

-----------------------------------------------------------------------------
(* Properties.                                                             *)
(* The batches that c was collected for, in order: those of the blocks,    *)
(* those that wait for a beat and the one that is not full.                *)
Collected == Append(chain \o pending_beats, cmd_pending_buffer)
Places(c) == {p \in (DOMAIN Collected) \X (1 .. blk_size) :
                 p[2] <= Len(Collected[p[1]]) /\ Collected[p[1]][p[2]] = c}

(* Type invariant; less than a batch is left in cmd_pending_buffer.        *)
TypeOK ==
    /\ client \in 0 .. MaxClient /\ cnt \in 0 .. MaxIter
    /\ waiting \subseteq 0 .. cnt - 1 /\ Cardinality(waiting) <= max_async_num
    /\ confirmed \in [Command -> 0 .. Cardinality(Replica)]
    /\ \A r \in Replica : replies[r] \subseteq Command \X {0, 1}
    /\ decision_waiting \in [Replica -> [Command -> 0 .. client]]
    /\ Len(cmd_pending_buffer) < blk_size
    /\ \A k \in DOMAIN chain : Len(chain[k]) = blk_size
    /\ \A r \in Replica : received[r] \in 0 .. Len(chain)

(* A command that the proposer waits for is on its way to a decision: in   *)
(* the buffer, with a beat, or in a block that it has not decided.         *)
NoLostCommand ==
    \A c \in Command : decision_waiting[proposer][c] # 0 =>
        \/ c \in ToSet(cmd_pending_buffer)
        \/ \E k \in DOMAIN pending_beats : c \in ToSet(pending_beats[k])
        \/ \E k \in DOMAIN chain : c \in ToSet(chain[k]) /\ k + Depth > received[proposer]

(* A command is proposed at most once for each time the client sent it.    *)
ProposedOnce == \A c \in Command : Cardinality(Places(c)) <= client

(* A command that the client of the first start takes for confirmed has    *)
(* been decided by more than nfaulty replicas.  (Once the client is        *)
(* started again it may take refusals for confirmations.)                  *)
ConfirmedDecided ==
    \A c \in Command : <<c, 1>> \in acknowledged =>
        Cardinality({r \in Replica : c \in DecidedBy(r)}) > nfaulty

(* With a window of more than Depth batches, the client gets every command *)
(* confirmed that has Depth batches behind it; the others wait for         *)
(* commands that do not come.  But a replica that decides a command before *)
(* it has the request never answers, and when too few are left the command *)
(* keeps its place in the window for ever.                                 *)
Confirmable == {c \in Command : c < ((MaxIter \div blk_size) - Depth) * blk_size}
Starved == \E c \in Command : Cardinality({r \in Up : <<r, c>> \notin late}) <= nfaulty
Confirmed ==
    client = 1 ~> client > 1 \/ Starved \/ \A c \in Confirmable : <<c, 1>> \in acknowledged
=============================================================================
