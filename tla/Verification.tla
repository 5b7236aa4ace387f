---------------------------- MODULE Verification ----------------------------
(***************************************************************************)
(* How certificates are checked: the checks of votes, part certificates    *)
(* and quorum certificates (entity.cpp, consensus.h, crypto) and the pool  *)
(* of worker threads that verifies their signatures (task.h).              *)
(*                                                                         *)
(* A signature is the pair of the replica whose key made it and the block  *)
(* hash that was signed.  The handlers of both queues take one task after  *)
(* the other; that they return after burst_size tasks, to be called again, *)
(* makes no difference here.                                               *)
(***************************************************************************)
EXTENDS Naturals, FiniteSets

CONSTANTS
    Replica,
    Block,          \* block hashes
    b0,             \* the hash of the genesis block
    nmajority,      \* ReplicaConfig::nmajority
    Job,            \* the checks that the event loop asks for
    Votes,          \* those of them that check a vote, the others check a block
    BlkHash,        \* BlkHash[j]: Vote::blk_hash
    ObjHash,        \* ObjHash[j]: the obj_hash of the certificate
    Sigs,           \* Sigs[j][r]: its signature by r, for the r in rids
    Worker,         \* the threads of the pool
    Address,        \* where tasks are allocated: bounds how many there are at a time
    NoAddress, NoTask

Rids(j) == DOMAIN Sigs[j]

ASSUME VerificationAssumption ==
    /\ IsFiniteSet(Replica) /\ IsFiniteSet(Address) /\ b0 \in Block
    /\ nmajority \in Nat \ {0}
    /\ Votes \subseteq Job
    /\ BlkHash \in [Job -> Block] /\ ObjHash \in [Job -> Block]
    /\ \A j \in Job : Rids(j) \subseteq Replica /\ Sigs[j] \in [Rids(j) -> Replica \X Block]
    /\ \A j \in Votes : \E voter \in Replica : Rids(j) = {voter}
    /\ NoAddress \notin Address
    /\ NoTask \notin Job \X Replica

VARIABLES
    (* the event loop *)
    started,    \* the jobs that were asked for
    posting,    \* posting[j]: the signatures that have no task yet
    missing,    \* missing[j]: the signatures whose result is not in
    refused,    \* refused[j]: those with the result false
    answer,     \* answer[j]: {} or {result}, what the promise was resolved with
    pms,        \* pms[a]: the task at a, or NoTask when a is free
    resolving,  \* the task whose promise is being resolved, or NoAddress
    (* shared with the workers *)
    in_queue,
    out_queue,
    result,     \* result[a]: {VeriTask::result}, {} before it is written
    working,    \* working[w]: the task of w, or NoAddress
    finished    \* the workers that have written the result and not handed it on

loop == <<started, posting, missing, refused, answer, pms, resolving>>
threads == <<in_queue, out_queue, result, working, finished>>
vars == <<loop, threads>>

Init ==
    /\ started = {}
    /\ posting = [j \in Job |-> {}]
    /\ missing = [j \in Job |-> {}]
    /\ refused = [j \in Job |-> {}]
    /\ answer = [j \in Job |-> {}]
    /\ pms = [a \in Address |-> NoTask]
    /\ resolving = NoAddress
    /\ in_queue = {}
    /\ out_queue = {}
    /\ result = [a \in Address |-> {}]
    /\ working = [w \in Worker |-> NoAddress]
    /\ finished = {}

(* SigSecp256k1::verify: r's key signed the hash.                          *)
Verifies(j, r) == Sigs[j][r] = <<r, ObjHash[j]>>

(* Block::verify and QuorumCertSecp256k1::verify answer at once ...        *)
AcceptedAtOnce(j) == j \notin Votes /\ ObjHash[j] = b0
RefusedAtOnce(j) == j \notin Votes /\ ObjHash[j] # b0 /\ Cardinality(Rids(j)) < nmajority

(* ... else all results are awaited; a vote must also be for its block.    *)
Result(j, bad) == bad = {} /\ (j \in Votes => ObjHash[j] = BlkHash[j])

(* No loop over rids is in progress: the next event can be handled.        *)
LoopFree == \A j \in Job : posting[j] = {}

-----------------------------------------------------------------------------
(* Block::verify, Vote::verify: in a handler, maybe in a callback of       *)
(* another verification.                                                   *)
Verify(j) ==
    /\ LoopFree
    /\ j \notin started
    /\ Cardinality(Rids(j)) <= Cardinality({a \in Address : pms[a] = NoTask})
    /\ started' = started \cup {j}
    /\ IF AcceptedAtOnce(j) \/ RefusedAtOnce(j)
       THEN /\ answer' = [answer EXCEPT ![j] = {AcceptedAtOnce(j)}]
            /\ UNCHANGED <<posting, missing>>
       ELSE /\ posting' = [posting EXCEPT ![j] = Rids(j)]
            /\ missing' = [missing EXCEPT ![j] = Rids(j)]
            /\ UNCHANGED answer
    /\ UNCHANGED <<refused, pms, resolving, threads>>

Post_NotQueued(j, r, a) ==
    /\ r \in posting[j]
    /\ pms[a] = NoTask
    /\ pms' = [pms EXCEPT ![a] = <<j, r>>]
    /\ posting' = [posting EXCEPT ![j] = @ \ {r}]
    /\ UNCHANGED <<started, missing, refused, answer, resolving, threads>>

(* VeriPool::verify of one signature: the new task has a free address.     *)
Post(j, r, a) ==
    /\ r \in posting[j]
    /\ pms[a] = NoTask
    /\ pms' = [pms EXCEPT ![a] = <<j, r>>]
    /\ posting' = [posting EXCEPT ![j] = @ \ {r}]
    /\ in_queue' = in_queue \cup {a}
    /\ UNCHANGED <<started, missing, refused, answer, resolving, out_queue, result, working, finished>>

Take_Peek(w, a) ==
    /\ working[w] = NoAddress
    /\ a \in in_queue
    /\ working' = [working EXCEPT ![w] = a]
    /\ UNCHANGED <<loop, in_queue, out_queue, result, finished>>

(* A worker takes a task ...                                               *)
Take(w, a) ==
    /\ working[w] = NoAddress
    /\ a \in in_queue
    /\ in_queue' = in_queue \ {a}
    /\ working' = [working EXCEPT ![w] = a]
    /\ UNCHANGED <<loop, out_queue, result, finished>>

(* ... verifies it, in memory that it shares with the event loop ...       *)
Compute(w) ==
    /\ working[w] # NoAddress
    /\ w \notin finished
    /\ LET task == pms[working[w]]
       IN result' = [result EXCEPT ![working[w]] = {Verifies(task[1], task[2])}]
    /\ finished' = finished \cup {w}
    /\ UNCHANGED <<loop, in_queue, out_queue, working>>

HandOn_Early(w) ==
    /\ working[w] # NoAddress
    /\ out_queue' = out_queue \cup {working[w]}
    /\ working' = [working EXCEPT ![w] = NoAddress]
    /\ finished' = finished \ {w}
    /\ UNCHANGED <<loop, in_queue, result>>

(* ... and hands it on.                                                    *)
HandOn(w) ==
    /\ w \in finished
    /\ out_queue' = out_queue \cup {working[w]}
    /\ working' = [working EXCEPT ![w] = NoAddress]
    /\ finished' = finished \ {w}
    /\ UNCHANGED <<loop, in_queue, result>>

(* The event loop takes a task back and resolves its promise: the last one *)
(* of promise::all answers the check ...                                   *)
Resolve(a) ==
    /\ LoopFree
    /\ resolving = NoAddress
    /\ a \in out_queue
    /\ out_queue' = out_queue \ {a}
    /\ resolving' = a
    /\ \E read \in IF result[a] = {} THEN BOOLEAN ELSE result[a] :
       LET j == pms[a][1]
           r == pms[a][2]
           bad == IF read THEN refused[j] ELSE refused[j] \cup {r}
       IN /\ missing' = [missing EXCEPT ![j] = @ \ {r}]
          /\ refused' = [refused EXCEPT ![j] = bad]
          /\ answer' = IF missing[j] = {r} THEN [answer EXCEPT ![j] = {Result(j, bad)}] ELSE answer
    /\ UNCHANGED <<started, posting, pms, in_queue, result, working, finished>>

(* ... and frees the task when the callbacks have returned.                *)
Erase ==
    /\ LoopFree
    /\ resolving # NoAddress
    /\ pms' = [pms EXCEPT ![resolving] = NoTask]
    /\ result' = [result EXCEPT ![resolving] = {}]
    /\ resolving' = NoAddress
    /\ UNCHANGED <<started, posting, missing, refused, answer, in_queue, out_queue, working, finished>>

EventLoop ==
    \/ \E j \in Job, r \in Replica, a \in Address : Post(j, r, a)
    \/ \E a \in Address : Resolve(a)
    \/ Erase

WorkerStep(w) == (\E a \in Address : Take(w, a)) \/ Compute(w) \/ HandOn(w)

Next ==
    \/ \E j \in Job : Verify(j)
    \/ EventLoop
    \/ \E w \in Worker : WorkerStep(w)

Spec == Init /\ [][Next]_vars

(* Neither the event loop nor a worker stops; the handlers are called      *)
(* again while their queues are not empty.                                 *)
FairSpec == Spec /\ WF_vars(EventLoop) /\ \A w \in Worker : WF_vars(WorkerStep(w))

-----------------------------------------------------------------------------
(* Properties.                                                             *)

(* The tasks of the worker threads.                                        *)
InWork == {working[w] : w \in Worker} \ {NoAddress}

(* Type invariant: a worker has a result only while it has a task.         *)
TypeOK ==
    /\ started \subseteq Job
    /\ posting \in [Job -> SUBSET Replica] /\ missing \in [Job -> SUBSET Replica]
    /\ refused \in [Job -> SUBSET Replica]
    /\ answer \in [Job -> {{}, {TRUE}, {FALSE}}]
    /\ pms \in [Address -> (Job \X Replica) \cup {NoTask}]
    /\ resolving \in Address \cup {NoAddress}
    /\ in_queue \subseteq Address /\ out_queue \subseteq Address
    /\ result \in [Address -> {{}, {TRUE}, {FALSE}}]
    /\ working \in [Worker -> Address \cup {NoAddress}]
    /\ finished \subseteq {w \in Worker : working[w] # NoAddress}

(* A task that a worker or a queue refers to is alive, and in one place:   *)
(* no task is freed, or taken by a second worker, while a thread has it,   *)
(* also when its address had been used before (VeriPool::pms, task.h:80).  *)
TasksAlive ==
    /\ \A a \in in_queue \cup out_queue \cup InWork : pms[a] # NoTask /\ a # resolving
    /\ in_queue \cap out_queue = {} /\ in_queue \cap InWork = {} /\ out_queue \cap InWork = {}
    /\ \A v, w \in Worker : working[v] = working[w] /\ working[v] # NoAddress => v = w

(* What is right: a certificate for the genesis block, or enough           *)
(* signatures that are all good, and a vote for the block it names.        *)
Valid(j) ==
    \/ j \notin Votes /\ ObjHash[j] = b0
    \/ /\ j \notin Votes => Cardinality(Rids(j)) >= nmajority
       /\ \A r \in Rids(j) : Verifies(j, r)
       /\ j \in Votes => ObjHash[j] = BlkHash[j]

(* The result of a check, put together from results that several threads   *)
(* write in any order, is whether the certificate is valid: what the       *)
(* protocol takes for granted of the certificates and votes it handles.    *)
AnswersRight == \A j \in Job : answer[j] # {} => answer[j] = {Valid(j)}

(* Every check is answered: no task is lost between the queues.            *)
AllAnswered == \A j \in Job : j \in started ~> answer[j] # {}
=============================================================================
