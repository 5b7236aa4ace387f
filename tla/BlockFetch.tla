----------------------------- MODULE BlockFetch -----------------------------
(***************************************************************************)
(* How a replica gets the blocks it hears of (class HotStuffBase):         *)
(* async_deliver_blk, async_fetch_blk, the block requests and answers, the *)
(* retries and the checks of certificates, until on_deliver_blk.           *)
(*                                                                         *)
(* The blocks are given.  What is in a block (its parent, the block that   *)
(* its certificate is for) is known to a replica that has it in storage.   *)
(* A chain of promises that are resolved in one handler is one step: the   *)
(* promises that are still pending are the state.                          *)
(***************************************************************************)
EXTENDS Naturals, FiniteSets

CONSTANTS
    Replica,
    Block,
    b0,         \* the genesis block
    Parent,     \* Parent[b]: parent_hashes[0]
    QcOf,       \* QcOf[b]: the block that the certificate in b is for
    Invalid,    \* the blocks whose certificate does not verify
    Proposer,   \* Proposer[b]: the replica that proposes b
    Has,        \* Has[r]: the blocks that r has delivered at the start
    Sent,       \* <<p, r, b>>: the proposals and votes on their way at the start
    Mortal,     \* the replicas that may crash and may be started again
    Lossy       \* requests, answers, proposals and votes may be lost

(* The blocks that a walk over parents[0] visits: the least set with the   *)
(* block and the parents.                                                  *)
Closed(S) == \A x \in S \ {b0} : Parent[x] \in S
Branch[b \in Block] == {a \in Block : \A S \in SUBSET Block : b \in S /\ Closed(S) => a \in S}

ASSUME TreeAssumption ==
    /\ b0 \in Block \ Invalid
    /\ Parent \in [Block -> Block] /\ QcOf \in [Block -> Block]
    /\ \A b \in Block \ {b0} : b0 \in Branch[b] /\ b # QcOf[b]
    /\ QcOf[b0] = b0
    /\ \A b \in Invalid : QcOf[b] # b0
ASSUME HasAssumption ==
    /\ Has \in [Replica -> SUBSET Block]
    /\ \A r \in Replica : b0 \in Has[r]
    /\ \A r \in Replica : \A b \in Has[r] : Branch[b] \cup {QcOf[b]} \subseteq Has[r]

ASSUME SentAssumption ==
    \A o \in Sent : /\ o \in Replica \X Replica \X (Block \ {b0})
                   /\ o[1] # o[2] /\ o[3] \in Has[o[1]]

VARIABLES
    up,          \* the replicas that have not crashed
    offers,      \* <<p, r, b>>: a proposal (of Proposer[b]) or vote for b, from p to r
    requests,    \* <<r, p, b>>: MsgReqBlock in flight from r to p
    answers,     \* <<r, b>>: MsgRespBlock with b in flight to r
    stored,      \* stored[r]: the blocks in storage
    fetching,    \* fetching[r]: the keys of blk_fetch_waiting
    asked,       \* asked[r][b]: FetchContext::replicas
    clients,     \* clients[r]: <<p, b>>: p waits for r to fetch b and answer
    delivering,  \* delivering[r]: the keys of blk_delivery_waiting
    source,      \* source[r][b]: whom async_deliver_blk(b) was told to ask
    opened,      \* opened[r]: of those, the blocks whose own fetch is over
    qc_wait,     \* qc_wait[r]: of those, the ones whose qc_ref is being fetched
    checked,     \* checked[r]: the blocks whose certificate has been checked
    delivered    \* delivered[r]: the blocks with Block::delivered

net == <<offers, requests, answers>>
fetch_state == <<stored, fetching, asked, clients>>
delivery_state == <<delivering, source, opened, qc_wait, checked, delivered>>
vars == <<up, net, fetch_state, delivery_state>>

Init ==
    /\ up = Replica
    /\ offers = Sent
    /\ requests = {}
    /\ answers = {}
    /\ stored = Has
    /\ fetching = [r \in Replica |-> {}]
    /\ asked = [r \in Replica |-> [b \in Block |-> {}]]
    /\ clients = [r \in Replica |-> {}]
    /\ delivering = [r \in Replica |-> {}]
    /\ source = [r \in Replica |-> [b \in Block |-> r]]
    /\ opened = [r \in Replica |-> {}]
    /\ qc_wait = [r \in Replica |-> {}]
    /\ checked = [r \in Replica |-> {}]
    /\ delivered = Has

-----------------------------------------------------------------------------
(* async_deliver_blk.                                                      *)

Known(r) == delivered[r] \cup delivering[r]

(* The blocks whose delivery async_deliver_blk(b) starts when st is in     *)
(* storage: it goes down from b as long as the block is stored, and joins  *)
(* a delivery that has been started before.                                *)
Starts(r, b, st) ==
    {a \in Branch[b] \ Known(r) : Branch[b] \ Branch[a] \subseteq st \ Known(r)}

(* A block whose certificate is for the genesis block needs no check.      *)
NeedsNoCheck(bs) == {b \in bs : QcOf[b] = b0}

Deliverable_NoCascade(r, ready) ==
    {b \in ready : Branch[b] \ {b} \subseteq delivered[r]}

(* promise::all(pms): the block is fetched and checked, its qc_ref is      *)
(* fetched and its parents are delivered, perhaps in the same handler.     *)
Deliverable(r, ready) ==
    {b \in ready : Branch[b] \subseteq delivered[r] \cup ready}

Settle_KeepOpened(r, dg, op, wait, chk) ==
    LET done == Deliverable(r, (op \cap chk) \ (wait \cup Invalid)) IN
    /\ delivered' = [delivered EXCEPT ![r] = @ \cup done]
    /\ delivering' = [delivering EXCEPT ![r] = dg \ done]
    /\ opened' = [opened EXCEPT ![r] = op]
    /\ qc_wait' = [qc_wait EXCEPT ![r] = wait]
    /\ checked' = [checked EXCEPT ![r] = chk \ done]

Settle_IgnoreQc(r, dg, op, wait, chk) ==
    LET done == Deliverable(r, (op \cap chk) \ Invalid) IN
    /\ delivered' = [delivered EXCEPT ![r] = @ \cup done]
    /\ delivering' = [delivering EXCEPT ![r] = dg \ done]
    /\ opened' = [opened EXCEPT ![r] = op \ done]
    /\ qc_wait' = [qc_wait EXCEPT ![r] = wait \ done]
    /\ checked' = [checked EXCEPT ![r] = chk \ done]

(* What becomes of the deliveries of r when op, wait and chk are the       *)
(* blocks that are opened, that wait for their qc_ref, that are checked.   *)
Settle(r, dg, op, wait, chk) ==
    LET done == Deliverable(r, (op \cap chk) \ (wait \cup Invalid)) IN
    /\ delivered' = [delivered EXCEPT ![r] = @ \cup done]
    /\ delivering' = [delivering EXCEPT ![r] = dg \ done]
    /\ opened' = [opened EXCEPT ![r] = op \ done]
    /\ qc_wait' = [qc_wait EXCEPT ![r] = wait]
    /\ checked' = [checked EXCEPT ![r] = chk \ done]

AskedAfter_Everyone(r, want, p, got) ==
    [x \in Block |-> IF x \in got THEN {} ELSE asked[r][x] \cup {q \in Replica \ {r} : x \in want}]

(* add_replica for the blocks want, the contexts of got being gone.        *)
AskedAfter(r, want, p, got) ==
    [x \in Block |-> IF x \in got THEN {} ELSE asked[r][x] \cup {q \in {p} : x \in want}]

(* The blocks new have their delivery started, or their own fetch is over, *)
(* with st in storage; they are fetched from p.  The fetches of got are    *)
(* over, and who waited for them goes on.                                  *)
Pursue(r, new, st, p, got) ==
    LET op == new \cap st
        want == (new \ st) \cup ({QcOf[b] : b \in op} \ st)
        first == {b \in want : asked[r][b] = {}}
        served == {c \in clients[r] : c[2] \in got}
        wait == {b \in qc_wait[r] : QcOf[b] \notin got} \cup {b \in op : QcOf[b] \notin st}
    IN /\ stored' = [stored EXCEPT ![r] = st]
       /\ fetching' = [fetching EXCEPT ![r] = (@ \ got) \cup want]
       /\ asked' = [asked EXCEPT ![r] = AskedAfter(r, want, p, got)]
       /\ clients' = [clients EXCEPT ![r] = @ \ served]
       /\ source' = [source EXCEPT ![r] = [b \in Block |-> IF b \in new THEN p ELSE @[b]]]
       /\ Settle(r, delivering[r] \cup new, opened[r] \cup op, wait,
                 checked[r] \cup NeedsNoCheck(op))
       /\ requests' = requests \cup {<<r, p, b>> : b \in first}
       /\ answers' = (answers \ {<<r, b>> : b \in got}) \cup served

-----------------------------------------------------------------------------
(* A proposal brings its block: Proposal::unserialize puts it in storage.  *)
propose_handler(r, p, b) ==
    /\ r \in up
    /\ <<p, r, b>> \in offers
    /\ p = Proposer[b]
    /\ offers' = offers \ {<<p, r, b>>}
    /\ LET st == stored[r] \cup {b} IN Pursue(r, Starts(r, b, st), st, p, {})
    /\ UNCHANGED up

(* A vote brings the hash of its block only.                               *)
vote_handler(r, p, b) ==
    /\ r \in up
    /\ <<p, r, b>> \in offers
    /\ p # Proposer[b]
    /\ offers' = offers \ {<<p, r, b>>}
    /\ Pursue(r, Starts(r, b, stored[r]), stored[r], p, {})
    /\ UNCHANGED up

(* resp_blk_handler: the block is stored and on_fetch_blk resolves the     *)
(* fetch promise, if there is one.                                         *)
resp_blk_handler(r, b) ==
    /\ r \in up
    /\ <<r, b>> \in answers
    /\ LET st == stored[r] \cup {b}
           p == source[r][b]
           new == IF b \in delivering[r] \ opened[r]
                  THEN {b} \cup Starts(r, Parent[b], st)
                  ELSE {}
       IN Pursue(r, new, st, p, {b})
    /\ UNCHANGED <<up, offers>>

(* req_blk_handler: a block that is not in storage is waited for, and      *)
(* asked for from nobody.                                                  *)
req_blk_handler(p, r, b) ==
    /\ p \in up
    /\ <<r, p, b>> \in requests
    /\ requests' = requests \ {<<r, p, b>>}
    /\ IF b \in stored[p]
       THEN /\ answers' = answers \cup {<<r, b>>}
            /\ UNCHANGED <<fetching, clients>>
       ELSE /\ fetching' = [fetching EXCEPT ![p] = @ \cup {b}]
            /\ clients' = [clients EXCEPT ![p] = @ \cup {<<r, b>>}]
            /\ UNCHANGED answers
    /\ UNCHANGED <<up, offers, stored, asked, delivery_state>>

timeout_cb_OneReplica(r, b) ==
    /\ r \in up
    /\ b \in fetching[r]
    /\ asked[r][b] # {}
    /\ requests' = requests \cup {<<r, CHOOSE p \in asked[r][b] : TRUE, b>>}
    /\ UNCHANGED <<up, offers, answers, fetch_state, delivery_state>>

timeout_cb_NoRetry(r, b) ==
    /\ r \in up
    /\ b \in fetching[r]
    /\ UNCHANGED vars

(* FetchContext::timeout_cb asks all the replicas it knows of again.       *)
timeout_cb(r, b) ==
    /\ r \in up
    /\ b \in fetching[r]
    /\ requests' = requests \cup {<<r, p, b>> : p \in asked[r][b]}
    /\ UNCHANGED <<up, offers, answers, fetch_state, delivery_state>>

(* The callback of Block::verify.                                          *)
on_verified(r, b) ==
    /\ r \in up
    /\ b \in opened[r] \ checked[r]
    /\ Settle(r, delivering[r], opened[r], qc_wait[r], checked[r] \cup {b})
    /\ UNCHANGED <<up, net, fetch_state, source>>

Lose ==
    /\ Lossy
    /\ \/ \E m \in offers : offers' = offers \ {m} /\ UNCHANGED <<requests, answers>>
       \/ \E m \in requests : requests' = requests \ {m} /\ UNCHANGED <<offers, answers>>
       \/ \E m \in answers : answers' = answers \ {m} /\ UNCHANGED <<offers, requests>>
    /\ UNCHANGED <<up, fetch_state, delivery_state>>

Crash(r) ==
    /\ r \in Mortal \cap up
    /\ up' = up \ {r}
    /\ UNCHANGED <<net, fetch_state, delivery_state>>

(* Nothing is on disk: a replica that is started again has the genesis     *)
(* block only.  Requests and answers on their way to it are lost with the  *)
(* connection; what is left of the offers is sent to the new process.      *)
Restart(r) ==
    /\ r \in Mortal \ up
    /\ up' = up \cup {r}
    /\ requests' = {q \in requests : q[2] # r}
    /\ answers' = {a \in answers : a[1] # r}
    /\ stored' = [stored EXCEPT ![r] = {b0}]
    /\ fetching' = [fetching EXCEPT ![r] = {}]
    /\ asked' = [asked EXCEPT ![r] = [b \in Block |-> {}]]
    /\ clients' = [clients EXCEPT ![r] = {}]
    /\ delivering' = [delivering EXCEPT ![r] = {}]
    /\ source' = [source EXCEPT ![r] = [b \in Block |-> r]]
    /\ opened' = [opened EXCEPT ![r] = {}]
    /\ qc_wait' = [qc_wait EXCEPT ![r] = {}]
    /\ checked' = [checked EXCEPT ![r] = {}]
    /\ delivered' = [delivered EXCEPT ![r] = {b0}]
    /\ UNCHANGED offers

Next ==
    \/ \E r, p \in Replica, b \in Block : propose_handler(r, p, b)
    \/ \E r, p \in Replica, b \in Block : vote_handler(r, p, b)
    \/ \E r, p \in Replica, b \in Block : req_blk_handler(p, r, b)
    \/ \E r \in Replica, b \in Block : resp_blk_handler(r, b)
    \/ \E r \in Replica, b \in Block : timeout_cb(r, b)
    \/ \E r \in Replica, b \in Block : on_verified(r, b)
    \/ \E r \in Replica : Crash(r)
    \/ \E r \in Replica : Restart(r)
    \/ Lose

Spec == Init /\ [][Next]_vars

(* The event loop runs what is ready: handlers of messages that arrive,    *)
(* timers, answers of the verification pool.  A request or an answer that  *)
(* is repeated for ever gets through.  Nothing is assumed of what is sent  *)
(* to a replica that had the block at the start, or by one that had not.   *)
Fairness ==
    /\ WF_vars(\E r, p \in Replica, b \in Block :
                   propose_handler(r, p, b) \/ vote_handler(r, p, b))
    /\ WF_vars(\E r \in Replica, b \in Block : on_verified(r, b))
    /\ \A r \in Replica : \A b \in Block \ Has[r] :
          /\ WF_vars(timeout_cb(r, b))
          /\ SF_vars(resp_blk_handler(r, b))
          /\ \A p \in {x \in Replica : b \in Has[x]} : SF_vars(req_blk_handler(p, r, b))

FairSpec == Spec /\ Fairness

-----------------------------------------------------------------------------
TypeOK ==
    /\ up \subseteq Replica
    /\ offers \subseteq Replica \X Replica \X Block
    /\ requests \subseteq Replica \X Replica \X Block
    /\ answers \subseteq Replica \X Block
    /\ asked \in [Replica -> [Block -> SUBSET Replica]]
    /\ source \in [Replica -> [Block -> Replica]]
    /\ clients \in [Replica -> SUBSET (Replica \X Block)]
    /\ {stored, fetching, delivering, opened, qc_wait, checked, delivered}
          \subseteq [Replica -> SUBSET Block]
    /\ \A r \in Replica :
          /\ opened[r] \subseteq delivering[r] \cap stored[r]
          /\ qc_wait[r] \cup checked[r] \subseteq opened[r]
          /\ delivered[r] \subseteq stored[r] \ delivering[r]

(* Whatever order answers, checks and retries come in, a block is          *)
(* delivered after its parents, when the block that its certificate is for *)
(* is in storage (HotStuffCore::on_deliver_blk makes that one its qc_ref), *)
(* and only if that certificate was found good.                            *)
DeliveredInOrder ==
    \A r \in Replica : \A b \in delivered[r] :
        /\ Branch[b] \subseteq delivered[r]
        /\ QcOf[b] \in stored[r]
        /\ b \in Has[r] \/ b \notin Invalid

(* No delivery waits for something that nobody pursues.  What is to be     *)
(* fetched, the block or its qc_ref, has a FetchContext that knows whom to *)
(* ask; a block that is fetched and checked waits for a parent only, and   *)
(* the delivery of the parent is pending.                                  *)
NoLostWaiter ==
    \A r \in Replica :
        /\ \A b \in delivering[r] \ opened[r] : b \in fetching[r] /\ asked[r][b] # {}
        /\ \A b \in qc_wait[r] : QcOf[b] \in fetching[r] /\ asked[r][QcOf[b]] # {}
        /\ \A b \in (opened[r] \cap checked[r]) \ (qc_wait[r] \cup Invalid) :
              Parent[b] \in delivering[r]

(* A replica that is asked for a block, and was never started again, has   *)
(* it, so that its answer does not wait for others.                        *)
AskedHaveIt ==
    \A r \in Replica, p \in Replica \ Mortal, b \in Block :
        p \in asked[r][b] => b \in stored[p]

(* A fetch ends if one of the replicas that it knows of never fails,       *)
(* whatever becomes of the others and however often messages are lost.     *)
FetchesEnd ==
    \A r, p \in Replica \ Mortal, b \in Block :
        b \in fetching[r] /\ p \in asked[r][b] ~> b \notin fetching[r]

(* async_deliver_blk "returns a promise resolved when Block is delivered": *)
(* a delivery only fails to end when a certificate on the branch does not  *)
(* verify or when it is left waiting for ever for a block that it asks     *)
(* none but replicas that fail for.                                        *)
DeliveriesEnd ==
    \A r \in Replica \ Mortal, b \in Block : Branch[b] \cap Invalid = {} =>
        (<>[](b \in delivering[r]) => <>[](\E c \in fetching[r] : asked[r][c] \subseteq Mortal))

(* A block that a replica which never fails offers to another one is       *)
(* delivered there: the crash of a third one is to be no obstacle.         *)
OfferedDelivered ==
    \A p, r \in Replica \ Mortal, b \in Block :
        <<p, r, b>> \in offers /\ Branch[b] \cap Invalid = {} ~> b \in delivered[r]
=============================================================================
