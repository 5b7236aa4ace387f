--------------------- MODULE PMRoundRobinProposer_proofs ---------------------
(***************************************************************************)
(* Proofs about the rotating pacemaker.  A step is a composition of        *)
(* operators, so there is one lemma per operator: what it keeps of the     *)
(* parts of the invariant and how its result grows out of its argument.    *)
(***************************************************************************)
EXTENDS PMRoundRobinProposer, FiniteSetTheorems, TLAPS

Blocks == [by : Replicas, x : -2 .. 3, up : Nat, qc_ref : Nat, line : SUBSET Nat]
Promises == [state : {"none", "pending", "rejected"}, waiters : Seq(-1 .. 3)]

States ==
    [blocks : Seq(Blocks), certified : SUBSET Nat, hqc : Nat, tail : Nat, b_exec : Nat,
     decided : SUBSET Nat, qc_waiting : Seq(Promises),
     proposer : Replicas, rotating : BOOLEAN, timer : {"none", "exp", "delay"},
     prop_blk : [Replicas -> Nat \cup {Null}], registered : BOOLEAN,
     pending_beats : Nat, last_proposed : Nat, locked : BOOLEAN,
     pm_qc_finish : Nat \cup {Null}, pm_wait_propose : BOOLEAN, pm_qc_manual : Nat \cup {Null},
     tcall : Nat, since : Nat, late : BOOLEAN]

(* What operators leave alone                                              *)
SameCore(t, u) ==
    /\ u.blocks = t.blocks /\ u.certified = t.certified /\ u.hqc = t.hqc /\ u.tail = t.tail
    /\ u.b_exec = t.b_exec /\ u.decided = t.decided
SameRole(t, u) ==
    /\ u.proposer = t.proposer /\ u.rotating = t.rotating /\ u.prop_blk = t.prop_blk
    /\ u.since = t.since /\ u.late = t.late
SameBeat(t, u) ==
    /\ u.last_proposed = t.last_proposed /\ u.locked = t.locked
    /\ u.pm_wait_propose = t.pm_wait_propose
SamePromises(t, u) ==
    /\ u.pm_qc_finish = t.pm_qc_finish /\ u.pm_qc_manual = t.pm_qc_manual

Places(t) == 1 .. Len(t.blocks)
Nobody == [state |-> "rejected", waiters |-> <<>>]
WaitersOf(t, b) == t.qc_waiting[b].waiters
BatchWaits(t, b) == \E i \in DOMAIN WaitersOf(t, b) : WaitersOf(t, b)[i] = Batch

(* Blocks are numbered as they are made, so a line ascends, and the line   *)
(* of an ancestor is the part of it up to there.                           *)
Lines(t) ==
    \A b \in Known(t) :
        /\ Line(t, b) \subseteq 0 .. b /\ b \in Line(t, b) /\ b0 \in Line(t, b)
        /\ \A c \in Line(t, b) : Line(t, c) = {d \in Line(t, b) : d <= c}
        /\ b # b0 => /\ Up(t, b) \in 0 .. b - 1 /\ QcRef(t, b) \in Line(t, Up(t, b))
                     /\ Line(t, b) = Line(t, Up(t, b)) \cup {b}

OneLine(t) == \A b, c \in t.decided : b \in Line(t, c) \/ c \in Line(t, b)

Ledger(t) ==
    /\ t.hqc \in Known(t) /\ t.tail \in Known(t) /\ t.hqc \in Line(t, t.tail)
    /\ t.certified \subseteq Places(t) /\ \A b \in t.certified : By(t, b) = Id
    /\ t.decided \subseteq Known(t) /\ b0 \in t.decided /\ t.b_exec \in t.decided
    /\ \A b \in t.decided : Line(t, b) \subseteq t.decided
    /\ OneLine(t) => t.decided = Line(t, t.b_exec)

(* prop_blk: blocks of this rotation, of the proposer they are noted for   *)
Noted(t) ==
    /\ t.since <= Len(t.blocks)
    /\ \A r \in Replicas : t.prop_blk[r] # Null =>
        t.prop_blk[r] \in Places(t) /\ By(t, t.prop_blk[r]) = r /\ t.prop_blk[r] > t.since

(* Who waits, waits for the promise that a variable of the pacemaker holds *)
Waits(t) ==
    /\ Len(t.qc_waiting) = Len(t.blocks)
    /\ t.pm_qc_finish \in {Null} \cup Places(t) /\ t.pm_qc_manual \in {Null} \cup Places(t)
    /\ \A b \in Places(t) :
        /\ WaitersOf(t, b) # <<>> => t.qc_waiting[b].state = "pending" /\ (t.proposer = Id \/ t.late)
        /\ \A i \in DOMAIN WaitersOf(t, b) :
            /\ WaitersOf(t, b)[i] = Batch => b = t.pm_qc_finish /\ ~t.rotating
            /\ WaitersOf(t, b)[i] # Batch => b = t.pm_qc_manual /\ WaitersOf(t, b)[i] = t.blocks[b].x
            /\ \A j \in DOMAIN WaitersOf(t, b) :
                (WaitersOf(t, b)[i] = Batch <=> WaitersOf(t, b)[j] = Batch) => i = j

Locks(t) ==
    /\ t.pm_wait_propose <=> ~t.rotating
    /\ t.last_proposed \in Known(t) /\ (t.last_proposed = b0 \/ By(t, t.last_proposed) = Id)
    /\ ~t.locked => t.pm_qc_finish # t.last_proposed
    /\ ~t.rotating /\ t.last_proposed # b0 => t.qc_waiting[t.last_proposed].state # "rejected"

Released(t) ==
    t.locked /\ ~t.rotating /\ ~t.late => t.last_proposed # b0 /\ BatchWaits(t, t.last_proposed)

(* The blocks that n decides are decided                                   *)
Decides(t, n) ==
    LET b2 == QcRef(t, n)
        b1 == QcRef(t, b2)
        b  == QcRef(t, b1)
    IN Up(t, b2) = b1 /\ Up(t, b1) = b => b \in t.decided
Updated(t) == \A n \in Known(t) : Decides(t, n)

(* An empty block on the one before it has that one's certificate          *)
Linked(t) ==
    \A n \in Places(t) \ {1} :
        t.blocks[n].x >= 1 /\ t.blocks[n - 1].x = t.blocks[n].x - 1 /\ Up(t, n) = n - 1
        => QcRef(t, n) = n - 1

(* No empty block follows the one pm_qc_manual is about                    *)
Latest(t) == t.pm_qc_manual # Null =>
    \A c \in Places(t) : c > t.pm_qc_manual => t.blocks[c].x < 0

(* While it rotates, an empty block that is not the last one is certified  *)
(* only when the next one is proposed, and the callback for that waits.    *)
Electing(t) ==
    LET n == Len(t.blocks) IN t.rotating /\ n > t.since /\ t.blocks[n].x \in 0 .. LastManual - 1
Elects(t) ==
    LET n == Len(t.blocks) IN
    Electing(t) => n \notin t.certified /\ \E i \in DOMAIN WaitersOf(t, n) : WaitersOf(t, n)[i] # Batch

(* What an operator may do: add blocks, decide more, and end the rotation  *)
Prefix(t, u) ==
    /\ Len(t.blocks) <= Len(u.blocks)
    /\ \A b \in Places(t) : u.blocks[b] = t.blocks[b]
Ends(t, u) ==
    t.rotating /\ ~u.rotating /\ OneLine(u) =>
        \E b \in u.decided \ t.decided : By(u, b) = t.proposer /\ b > t.since
Grows(t, u) ==
    /\ Prefix(t, u) /\ t.decided \subseteq u.decided
    /\ u.proposer = t.proposer /\ u.since = t.since /\ u.late = t.late
    /\ u.rotating => t.rotating
    /\ Ends(t, u)

Kept(t) ==
    /\ t \in States
    /\ Lines(t) /\ Ledger(t) /\ Noted(t) /\ Waits(t) /\ Locks(t) /\ Linked(t)
Sound(t) == Kept(t) /\ Updated(t)

Invariants(t) == Sound(t) /\ Released(t) /\ Latest(t) /\ Elects(t)
Inv == Invariants(s) /\ OneLine(s)

-----------------------------------------------------------------------------
(* Sets of numbers have a least element: the orders 0 .. n are finite.     *)
LEMMA NatMin ==
    ASSUME NEW T \in SUBSET Nat, T # {}
    PROVE  \E n \in T : \A m \in T : n <= m
<1> DEFINE U == {0 .. n : n \in T}
<1>1. U \subseteq FiniteSubsetsOf(Nat)
  <2>1. ASSUME NEW n \in T PROVE 0 .. n \in FiniteSubsetsOf(Nat)
    <3>1. 0 \in Int /\ n \in Int
      OBVIOUS
    <3>2. IsFiniteSet(0 .. n)
      BY <3>1, FS_Interval
    <3>3. 0 .. n \subseteq Nat
      BY <3>1
    <3> QED BY <3>2, <3>3 DEF FiniteSubsetsOf
  <2> QED BY <2>1
<1>2. PICK x \in U : \A y \in U : ~(<<y, x>> \in StrictSubsetOrdering(Nat))
  <2>1. U # {}
    OBVIOUS
  <2>2. IsWellFoundedOn(StrictSubsetOrdering(Nat), FiniteSubsetsOf(Nat))
    BY FS_StrictSubsetOrderingWellFounded
  <2> HIDE DEF U
  <2> QED BY <1>1, <2>1, <2>2, WFMin
<1>3. PICK n \in T : x = 0 .. n
  BY <1>2
<1>4. ASSUME NEW m \in T, m < n
      PROVE  FALSE
  <2>1. 0 .. m \in U /\ 0 .. n \in U
    BY <1>3
  <2>2. 0 .. m \subseteq 0 .. n /\ n \notin 0 .. m /\ n \in 0 .. n
    BY <1>4
  <2>3. <<0 .. m, x>> \in StrictSubsetOrdering(Nat)
    BY <1>3, <2>1, <2>2 DEF StrictSubsetOrdering
  <2> QED BY <1>2, <2>1, <2>3
<1> QED BY <1>4

LEMMA StateTypes ==
    ASSUME NEW t \in States
    PROVE  /\ t.blocks \in Seq(Blocks) /\ Len(t.blocks) \in Nat
           /\ t.proposer \in Replicas /\ t.rotating \in BOOLEAN /\ t.registered \in BOOLEAN
           /\ t.since \in Nat /\ t.pending_beats \in Nat /\ t.tcall \in Nat
           /\ t.prop_blk \in [Replicas -> Nat \cup {Null}]
BY DEF States

LEMMA PromiseTyped ==
    ASSUME NEW t \in States, Waits(t), NEW b \in Places(t)
    PROVE  /\ b \in 1 .. Len(t.qc_waiting) /\ t.qc_waiting[b] \in Promises
           /\ WaitersOf(t, b) \in Seq(-1 .. 3)
           /\ t.qc_waiting[b] = [state |-> t.qc_waiting[b].state, waiters |-> WaitersOf(t, b)]
<1>1. t.qc_waiting \in Seq(Promises) /\ b \in 1 .. Len(t.qc_waiting)
  BY DEF States, Waits, Places
<1>2. t.qc_waiting[b] \in Promises
  BY <1>1
<1> QED BY <1>1, <1>2 DEF Promises, WaitersOf

LEMMA WaitingFields ==
    ASSUME NEW t \in States, NEW b \in 1 .. Len(t.qc_waiting), NEW p \in Promises
    PROVE  LET u == [t EXCEPT !.qc_waiting[b] = p] IN
           /\ u \in States
           /\ SameCore(t, u) /\ SameRole(t, u) /\ SameBeat(t, u) /\ SamePromises(t, u)
           /\ u.pending_beats = t.pending_beats
           /\ Len(u.qc_waiting) = Len(t.qc_waiting)
           /\ u.qc_waiting[b] = p
           /\ \A c \in 1 .. Len(t.qc_waiting) : c # b => u.qc_waiting[c] = t.qc_waiting[c]
<1> DEFINE w == [t.qc_waiting EXCEPT ![b] = p]
           u == [t EXCEPT !.qc_waiting = w]
<1>1. t.qc_waiting \in Seq(Promises)
  BY DEF States
<1>2. w \in Seq(Promises) /\ Len(w) = Len(t.qc_waiting) /\ w[b] = p
      /\ \A c \in 1 .. Len(t.qc_waiting) : c # b => w[c] = t.qc_waiting[c]
  BY <1>1
<1>3. u = [t EXCEPT !.qc_waiting[b] = p]
  OBVIOUS
<1> HIDE DEF w
<1>4. u \in States /\ u.qc_waiting = w
  BY <1>2 DEF States
<1>5. SameCore(t, u) /\ SameRole(t, u) /\ SameBeat(t, u) /\ SamePromises(t, u) /\ u.pending_beats = t.pending_beats
  BY DEF States, SameCore, SameRole, SameBeat, SamePromises
<1> QED BY <1>2, <1>3, <1>4, <1>5
(* pm.reject(): nobody waits for that promise any more                     *)
LEMMA RejectWaits ==
    ASSUME NEW t \in States, NEW b \in {Null} \cup Places(t), Waits(t)
    PROVE  LET u == Reject(t, b) IN
           /\ u \in States /\ Waits(u)
           /\ SameCore(t, u) /\ SameRole(t, u) /\ SameBeat(t, u) /\ SamePromises(t, u)
           /\ u.pending_beats = t.pending_beats
           /\ b # Null => WaitersOf(u, b) = <<>>
           /\ \A c \in Places(t) : c # b => u.qc_waiting[c] = t.qc_waiting[c]
           /\ \A c \in Places(t) : WaitersOf(u, c) = WaitersOf(t, c) \/ WaitersOf(u, c) = <<>>
           /\ \A c \in Places(t) : t.qc_waiting[c].state = "none" => u.qc_waiting[c] = t.qc_waiting[c]
<1> DEFINE u == [t EXCEPT !.qc_waiting[b] = Nobody]
<1>1. Nobody \in Promises /\ Nobody.waiters = <<>> /\ Nobody.state = "rejected"
  BY DEF Nobody, Promises
<1>2. CASE ~(b # Null /\ b # b0 /\ t.qc_waiting[b].state = "pending")
  <2>1. Reject(t, b) = t
    BY <1>2 DEF Reject
  <2>2. b # Null => WaitersOf(t, b) = <<>>
    BY <1>2 DEF Waits, Places, b0
  <2> QED BY <2>1, <2>2 DEF SameCore, SameRole, SameBeat, SamePromises
<1>3. CASE b # Null /\ b # b0 /\ t.qc_waiting[b].state = "pending"
  <2>1. Reject(t, b) = u
    BY <1>3 DEF Reject, Nobody
  <2>2. b \in 1 .. Len(t.qc_waiting)
    BY <1>3 DEF Waits, Places
  <2>3. /\ u \in States
        /\ SameCore(t, u) /\ SameRole(t, u) /\ SameBeat(t, u) /\ SamePromises(t, u)
        /\ u.pending_beats = t.pending_beats
        /\ Len(u.qc_waiting) = Len(t.qc_waiting)
        /\ u.qc_waiting[b] = Nobody
        /\ \A c \in 1 .. Len(t.qc_waiting) : c # b => u.qc_waiting[c] = t.qc_waiting[c]
    BY <1>1, <2>2, WaitingFields
  <2> HIDE DEF u
  <2>4. WaitersOf(u, b) = <<>> /\ \A c \in Places(t) : c # b => WaitersOf(u, c) = WaitersOf(t, c)
    BY <1>1, <2>3 DEF WaitersOf, Waits, Places
  <2>5. Waits(u)
    BY <1>1, <2>2, <2>3, <2>4 DEF Waits, Places, SameCore, SameRole, SamePromises
  <2> QED BY <1>3, <2>1, <2>2, <2>3, <2>4, <2>5 DEF Waits, Places
<1> QED BY <1>2, <1>3
LEMMA WaitFields ==
    ASSUME NEW t \in States, NEW b \in Places(t), NEW w \in -1 .. 3, Waits(t)
    PROVE  LET u == Wait(t, b, w) IN
           /\ u \in States
           /\ SameCore(t, u) /\ SameRole(t, u) /\ SameBeat(t, u) /\ SamePromises(t, u)
           /\ u.pending_beats = t.pending_beats
           /\ Len(u.qc_waiting) = Len(t.qc_waiting)
           /\ \A c \in Places(t) : c # b => u.qc_waiting[c] = t.qc_waiting[c]
           /\ t.qc_waiting[b].state = "rejected" => u = t
           /\ t.qc_waiting[b].state # "rejected" =>
                u.qc_waiting[b].state = "pending" /\ WaitersOf(u, b) = Append(WaitersOf(t, b), w)
<1> DEFINE p == [state |-> "pending", waiters |-> Append(WaitersOf(t, b), w)]
           u == [t EXCEPT !.qc_waiting[b] = p]
<1>1. b \in 1 .. Len(t.qc_waiting) /\ t.qc_waiting[b] \in Promises
  BY DEF Waits, Places, States
<1>2. p \in Promises /\ p.state = "pending" /\ p.waiters = Append(WaitersOf(t, b), w)
  BY <1>1 DEF Promises, WaitersOf
<1>3. CASE t.qc_waiting[b].state = "rejected"
  <2>1. Wait(t, b, w) = t
    BY <1>3 DEF Wait
  <2> QED BY <1>3, <2>1 DEF SameCore, SameRole, SameBeat, SamePromises
<1>4. CASE t.qc_waiting[b].state # "rejected"
  <2>1. Wait(t, b, w) = u
    <3>1. CASE t.qc_waiting[b].state = "none"
      <4>1. WaitersOf(t, b) = <<>>
        BY <3>1 DEF Waits
      <4>2. p = [state |-> "pending", waiters |-> <<w>>]
        BY <4>1
      <4> QED BY <3>1, <4>2 DEF Wait
    <3>2. CASE t.qc_waiting[b].state = "pending"
      <4>1. [t EXCEPT !.qc_waiting[b].waiters = Append(@, w)]
            = [t EXCEPT !.qc_waiting[b] = [t.qc_waiting[b] EXCEPT !.waiters = Append(@, w)]]
        BY <1>1 DEF States
      <4>2. [t.qc_waiting[b] EXCEPT !.waiters = Append(@, w)] = p
        <5>1. \A q \in Promises : \A v : [q EXCEPT !.waiters = v] = [state |-> q.state, waiters |-> v]
          BY DEF Promises
        <5> QED BY <1>1, <3>2, <5>1 DEF WaitersOf
      <4> QED BY <3>2, <4>1, <4>2 DEF Wait
    <3> QED BY <1>1, <1>4, <3>1, <3>2 DEF Promises
  <2>2. /\ u \in States
        /\ SameCore(t, u) /\ SameRole(t, u) /\ SameBeat(t, u) /\ SamePromises(t, u)
        /\ u.pending_beats = t.pending_beats
        /\ Len(u.qc_waiting) = Len(t.qc_waiting)
        /\ u.qc_waiting[b] = p
        /\ \A c \in 1 .. Len(t.qc_waiting) : c # b => u.qc_waiting[c] = t.qc_waiting[c]
    BY <1>1, <1>2, WaitingFields
  <2> HIDE DEF u, p
  <2> QED BY <1>2, <1>4, <2>1, <2>2 DEF Waits, Places, WaitersOf
<1> QED BY <1>3, <1>4

(* A beat starts to wait for the certificate of the last block             *)
LEMMA ScheduleNextSound ==
    ASSUME NEW t \in States, Waits(t), Locks(t), Released(t),
           ~t.rotating, t.locked \/ t.last_proposed # b0, t.proposer = Id \/ t.late
    PROVE  LET u == ScheduleNext(t) IN
           /\ u \in States /\ SameCore(t, u) /\ SameRole(t, u)
           /\ Waits(u) /\ Locks(u) /\ Released(u)
           /\ u.last_proposed = t.last_proposed /\ u.pm_qc_manual = t.pm_qc_manual
           /\ t.pending_beats > 0 => u.pending_beats = t.pending_beats \/ u.pending_beats = t.pending_beats - 1
           /\ \A c \in Places(t) : t.qc_waiting[c].state = "none" => u.qc_waiting[c].state # "rejected"
<1>1. CASE ~(t.pending_beats > 0 /\ ~t.locked)
  BY <1>1 DEF ScheduleNext, SameCore, SameRole
<1>2. CASE t.pending_beats > 0 /\ ~t.locked
  <2> DEFINE b == t.last_proposed
             r == Reject(t, t.pm_qc_finish)
             v == Wait(r, b, Batch)
             u == [v EXCEPT !.pending_beats = @ - 1, !.pm_qc_finish = b, !.locked = TRUE]
  <2>1. b \in Places(t) /\ t.pm_qc_finish \in {Null} \cup Places(t) /\ t.pm_qc_finish # b
    BY <1>2 DEF Locks, Waits, Known, Places, b0
  <2>2. /\ r \in States /\ Waits(r)
        /\ SameCore(t, r) /\ SameRole(t, r) /\ SameBeat(t, r) /\ SamePromises(t, r)
        /\ r.pending_beats = t.pending_beats
        /\ t.pm_qc_finish # Null => WaitersOf(r, t.pm_qc_finish) = <<>>
        /\ \A c \in Places(t) : c # t.pm_qc_finish => r.qc_waiting[c] = t.qc_waiting[c]
        /\ \A c \in Places(t) : t.qc_waiting[c].state = "none" => r.qc_waiting[c] = t.qc_waiting[c]
    BY <2>1, RejectWaits
  <2> HIDE DEF r
  <2>3. Places(r) = Places(t) /\ r.last_proposed = b /\ Batch \in -1 .. 3
    BY <2>2 DEF SameCore, SameBeat, Places, Batch
  <2>4. r.qc_waiting[b].state # "rejected"
    BY <2>1, <2>2, <1>2 DEF Locks, Places, b0
  <2>5. /\ v \in States
        /\ SameCore(r, v) /\ SameRole(r, v) /\ SameBeat(r, v) /\ SamePromises(r, v)
        /\ v.pending_beats = r.pending_beats
        /\ Len(v.qc_waiting) = Len(r.qc_waiting)
        /\ \A c \in Places(t) : c # b => v.qc_waiting[c] = r.qc_waiting[c]
        /\ v.qc_waiting[b].state = "pending" /\ WaitersOf(v, b) = Append(WaitersOf(r, b), Batch)
    <3>1. b \in Places(r) /\ v = Wait(r, b, Batch)
      BY <2>1, <2>3
    <3> HIDE DEF b, v
    <3>2. /\ v \in States
          /\ SameCore(r, v) /\ SameRole(r, v) /\ SameBeat(r, v) /\ SamePromises(r, v)
          /\ v.pending_beats = r.pending_beats
          /\ Len(v.qc_waiting) = Len(r.qc_waiting)
          /\ \A c \in Places(r) : c # b => v.qc_waiting[c] = r.qc_waiting[c]
          /\ r.qc_waiting[b].state # "rejected" =>
                v.qc_waiting[b].state = "pending" /\ WaitersOf(v, b) = Append(WaitersOf(r, b), Batch)
      <4>1. r \in States /\ Waits(r) /\ Batch \in -1 .. 3
        BY <2>2, <2>3
      <4> QED BY <3>1, <4>1, WaitFields
    <3> QED BY <2>3, <2>4, <3>2
  <2> HIDE DEF v
  <2>6. /\ u \in States /\ SameCore(v, u) /\ SameRole(v, u)
        /\ u.last_proposed = v.last_proposed /\ u.pm_wait_propose = v.pm_wait_propose
        /\ u.pm_qc_manual = v.pm_qc_manual /\ u.qc_waiting = v.qc_waiting
        /\ u.pm_qc_finish = b /\ u.locked /\ u.pending_beats = t.pending_beats - 1
    <3>1. v.pending_beats - 1 \in Nat /\ b \in Nat
      <4>1. v.pending_beats = t.pending_beats /\ t.pending_beats \in Nat /\ t.last_proposed \in Nat
        BY <2>2, <2>5 DEF States
      <4> QED BY <1>2, <4>1
    <3> HIDE DEF b
    <3> QED BY <2>2, <2>5, <3>1 DEF States, SameCore, SameRole
  <2>7. ScheduleNext(t) = u
    BY <1>2 DEF ScheduleNext, r, v
  <2> HIDE DEF u, b
  <2>8. SameCore(t, u) /\ SameRole(t, u) /\ u.last_proposed = b /\ u.pm_wait_propose = t.pm_wait_propose
        /\ u.pm_qc_manual = t.pm_qc_manual
    BY <2>2, <2>3, <2>5, <2>6 DEF SameCore, SameRole, SameBeat, SamePromises
  <2>9. /\ \A c \in Places(t) \ {b} : u.qc_waiting[c] = r.qc_waiting[c] /\ WaitersOf(u, c) = WaitersOf(r, c)
        /\ u.qc_waiting[b].state = "pending" /\ WaitersOf(u, b) = Append(WaitersOf(r, b), Batch)
        /\ Len(u.qc_waiting) = Len(t.qc_waiting)
    BY <2>2, <2>5, <2>6 DEF WaitersOf, Waits, SameCore
  <2>10. \A c \in Places(t) : \A i \in DOMAIN WaitersOf(r, c) : WaitersOf(r, c)[i] # Batch
    BY <2>1, <2>2, <2>3 DEF Waits, SamePromises, Places, Null
  <2>11. \A c \in Places(t) : WaitersOf(r, c) \in Seq(-1 .. 3)
    BY <2>2, <2>3, PromiseTyped
  <2>12. DOMAIN WaitersOf(u, b) = 1 .. Len(WaitersOf(r, b)) + 1
         /\ (\A i \in DOMAIN WaitersOf(r, b) : WaitersOf(u, b)[i] = WaitersOf(r, b)[i])
         /\ WaitersOf(u, b)[Len(WaitersOf(r, b)) + 1] = Batch
         /\ DOMAIN WaitersOf(r, b) = 1 .. Len(WaitersOf(r, b)) /\ Len(WaitersOf(r, b)) \in Nat
    BY <2>1, <2>9, <2>11 DEF Batch
  <2>13. Waits(u)
    <3>1. Len(u.qc_waiting) = Len(u.blocks) /\ Places(u) = Places(t)
          /\ u.pm_qc_finish \in {Null} \cup Places(u) /\ u.pm_qc_manual \in {Null} \cup Places(u)
      BY <2>1, <2>6, <2>8, <2>9 DEF Waits, SameCore, Places
    <3>2. \A c \in Places(u) : WaitersOf(u, c) # <<>> => u.qc_waiting[c].state = "pending" /\ (u.proposer = Id \/ u.late)
      BY <2>2, <2>3, <2>8, <2>9, <3>1 DEF Waits, SameRole
    <3>3. ASSUME NEW c \in Places(u), NEW i \in DOMAIN WaitersOf(u, c)
          PROVE  /\ WaitersOf(u, c)[i] = Batch => c = u.pm_qc_finish /\ ~u.rotating
                 /\ WaitersOf(u, c)[i] # Batch => c = u.pm_qc_manual /\ WaitersOf(u, c)[i] = u.blocks[c].x
                 /\ \A j \in DOMAIN WaitersOf(u, c) :
                     (WaitersOf(u, c)[i] = Batch <=> WaitersOf(u, c)[j] = Batch) => i = j
      <4>1. u.rotating = FALSE /\ u.blocks = r.blocks /\ r.pm_qc_manual = u.pm_qc_manual /\ Places(u) = Places(r)
        BY <2>2, <2>3, <2>8, <3>1 DEF SameRole, SameCore, SamePromises
      <4>2. CASE c # b
        BY <2>2, <2>9, <2>10, <3>1, <4>1, <4>2 DEF Waits
      <4>3. CASE c = b
        BY <2>2, <2>6, <2>10, <2>12, <3>1, <4>1, <4>3 DEF Waits
      <4> QED BY <4>2, <4>3
    <3> QED BY <3>1, <3>2, <3>3 DEF Waits
  <2>14. Locks(u)
    BY <2>1, <2>6, <2>8, <2>9 DEF Locks, SameCore, SameRole, Known, By, b
  <2>15. Released(u)
    BY <2>1, <2>8, <2>12 DEF Released, BatchWaits, Places, b0
  <2>16. \A c \in Places(t) : t.qc_waiting[c].state = "none" => u.qc_waiting[c].state # "rejected"
    BY <2>2, <2>9
  <2> QED BY <2>6, <2>7, <2>8, <2>13, <2>14, <2>15, <2>16 DEF b
<1> QED BY <1>1, <1>2
(* The proposal of n unlocks, and the next beat may lock again             *)
LEMMA UpdateLastProposedSound ==
    ASSUME NEW t \in States, NEW n \in Places(t), By(t, n) = Id, Waits(t), Locks(t),
           t.qc_waiting[n].state = "none", n # t.pm_qc_finish,
           ~t.rotating => t.proposer = Id \/ t.late
    PROVE  LET u == UpdateLastProposed(t, n) IN
           /\ u \in States /\ SameCore(t, u) /\ SameRole(t, u)
           /\ Waits(u) /\ Locks(u) /\ Released(u)
           /\ u.pm_qc_manual = t.pm_qc_manual
           /\ t.rotating => u = t
           /\ ~t.rotating => u.last_proposed = n
           /\ u.qc_waiting[n].state # "rejected"
<1>1. CASE t.rotating
  <2>1. UpdateLastProposed(t, n) = t
    BY <1>1 DEF UpdateLastProposed, Locks
  <2> QED BY <1>1, <2>1 DEF SameCore, SameRole, Released
<1>2. CASE ~t.rotating
  <2> DEFINE r == [t EXCEPT !.last_proposed = n, !.locked = FALSE]
  <2>1. /\ r \in States /\ SameCore(t, r) /\ SameRole(t, r) /\ SamePromises(t, r)
        /\ r.last_proposed = n /\ ~r.locked /\ r.qc_waiting = t.qc_waiting
        /\ r.pm_wait_propose = t.pm_wait_propose
    <3>1. n \in Nat
      BY DEF Places
    <3> QED BY <3>1 DEF States, SameCore, SameRole, SamePromises
  <2>2. UpdateLastProposed(t, n) = ScheduleNext(r)
    BY <1>2 DEF UpdateLastProposed, Locks
  <2> HIDE DEF r
  <2>3. Waits(r)
    BY <2>1 DEF Waits, SameCore, SameRole, SamePromises, Places, WaitersOf
  <2>4. Locks(r)
    BY <1>2, <2>1 DEF Locks, SameCore, SameRole, SamePromises, Places, Known, By
  <2>5. Released(r) /\ ~r.rotating /\ r.last_proposed # b0 /\ (r.proposer = Id \/ r.late)
    BY <1>2, <2>1 DEF Released, SameRole, Places, b0
  <2>6. LET u == ScheduleNext(r) IN
        /\ u \in States /\ SameCore(r, u) /\ SameRole(r, u)
        /\ Waits(u) /\ Locks(u) /\ Released(u)
        /\ u.last_proposed = r.last_proposed /\ u.pm_qc_manual = r.pm_qc_manual
        /\ \A c \in Places(r) : r.qc_waiting[c].state = "none" => u.qc_waiting[c].state # "rejected"
    BY <2>1, <2>3, <2>4, <2>5, ScheduleNextSound
  <2>7. n \in Places(r)
    BY <2>1 DEF SameCore, Places
  <2> QED BY <1>2, <2>1, <2>2, <2>6, <2>7 DEF SameCore, SameRole, SamePromises
<1> QED BY <1>1, <1>2

-----------------------------------------------------------------------------
(* Role transitions: nobody waits afterwards.                              *)
LEMMA RejectAllFields ==
    ASSUME NEW t \in States, Waits(t)
    PROVE  LET u == RejectAll(t) IN
           /\ u \in States /\ Waits(u) /\ SameCore(t, u) /\ SameRole(t, u) /\ SamePromises(t, u)
           /\ u.last_proposed = t.last_proposed /\ u.locked = t.locked /\ ~u.pm_wait_propose
           /\ \A b \in Places(t) : WaitersOf(u, b) = <<>>
           /\ \A c \in Places(t) : t.qc_waiting[c].state = "none" => u.qc_waiting[c] = t.qc_waiting[c]
<1> DEFINE q == Reject(t, t.pm_qc_finish)
           r == Reject(q, t.pm_qc_manual)
           u == [r EXCEPT !.pm_wait_propose = FALSE]
<1>1. t.pm_qc_finish \in {Null} \cup Places(t) /\ t.pm_qc_manual \in {Null} \cup Places(t)
  BY DEF Waits
<1>2. /\ q \in States /\ Waits(q)
      /\ SameCore(t, q) /\ SameRole(t, q) /\ SameBeat(t, q) /\ SamePromises(t, q)
      /\ t.pm_qc_finish # Null => WaitersOf(q, t.pm_qc_finish) = <<>>
      /\ \A c \in Places(t) : t.qc_waiting[c].state = "none" => q.qc_waiting[c] = t.qc_waiting[c]
  BY <1>1, RejectWaits
<1> HIDE DEF q
<1>3. t.pm_qc_manual \in {Null} \cup Places(q) /\ Places(q) = Places(t)
  BY <1>1, <1>2 DEF SameCore, Places
<1>4. /\ r \in States /\ Waits(r)
      /\ SameCore(q, r) /\ SameRole(q, r) /\ SameBeat(q, r) /\ SamePromises(q, r)
      /\ t.pm_qc_manual # Null => WaitersOf(r, t.pm_qc_manual) = <<>>
      /\ \A c \in Places(q) : WaitersOf(r, c) = WaitersOf(q, c) \/ WaitersOf(r, c) = <<>>
      /\ \A c \in Places(q) : q.qc_waiting[c].state = "none" => r.qc_waiting[c] = q.qc_waiting[c]
  BY <1>2, <1>3, RejectWaits
<1> HIDE DEF r
<1>5. /\ u \in States /\ SameCore(r, u) /\ SameRole(r, u) /\ SamePromises(r, u)
      /\ u.last_proposed = r.last_proposed /\ u.locked = r.locked /\ ~u.pm_wait_propose
      /\ u.qc_waiting = r.qc_waiting
  BY <1>4 DEF States, SameCore, SameRole, SamePromises
<1>6. RejectAll(t) = u
  BY <1>2 DEF RejectAll, q, r, SamePromises
<1> HIDE DEF u
<1>7. SameCore(t, u) /\ SameRole(t, u) /\ SamePromises(t, u) /\ u.last_proposed = t.last_proposed /\ u.locked = t.locked
  BY <1>2, <1>4, <1>5 DEF SameCore, SameRole, SamePromises, SameBeat
<1>8. ASSUME NEW b \in Places(t)
      PROVE  WaitersOf(r, b) = <<>>
  <2>1. b = t.pm_qc_finish \/ b = t.pm_qc_manual => WaitersOf(r, b) = <<>>
    BY <1>2, <1>3, <1>4 DEF Places, Null
  <2>2. b # t.pm_qc_finish /\ b # t.pm_qc_manual => DOMAIN WaitersOf(r, b) = {}
    BY <1>2, <1>3, <1>4 DEF Waits, SamePromises, SameCore, Places
  <2>3. WaitersOf(r, b) \in Seq(-1 .. 3)
    BY <1>3, <1>4, PromiseTyped DEF SameCore, Places
  <2> QED BY <2>1, <2>2, <2>3
<1>9. Waits(u)
  BY <1>4, <1>5 DEF Waits, SameCore, SameRole, SamePromises, Places, WaitersOf
<1>10. \A b \in Places(t) : WaitersOf(u, b) = <<>>
  BY <1>5, <1>8 DEF WaitersOf
<1>11. \A c \in Places(t) : t.qc_waiting[c].state = "none" => u.qc_waiting[c] = t.qc_waiting[c]
  BY <1>2, <1>3, <1>4, <1>5
<1> QED BY <1>5, <1>6, <1>7, <1>9, <1>10, <1>11
LEMMA Stable ==
    ASSUME NEW t \in States, NEW u \in States, Prefix(t, u), NEW b \in Known(t)
    PROVE  /\ b \in Known(u)
           /\ By(u, b) = By(t, b) /\ Up(u, b) = Up(t, b) /\ QcRef(u, b) = QcRef(t, b) /\ Line(u, b) = Line(t, b)
<1>1. Len(t.blocks) \in Nat /\ Len(u.blocks) \in Nat
  BY DEF States
<1> QED BY <1>1 DEF Prefix, Known, Places, By, Up, QcRef, Line, b0

LEMMA GrowsTrans ==
    ASSUME NEW t \in States, NEW u \in States, NEW v \in States, Grows(t, u), Grows(u, v),
           u.decided \subseteq Known(u)
    PROVE  Grows(t, v)
<1>1. Prefix(t, v)
  <2>1. Len(t.blocks) \in Nat /\ Len(u.blocks) \in Nat /\ Len(v.blocks) \in Nat
    BY StateTypes
  <2> QED BY <2>1 DEF Grows, Prefix, Places
<1>2. Prefix(u, v) /\ u.decided \subseteq v.decided /\ t.decided \subseteq u.decided
      /\ v.proposer = u.proposer /\ u.proposer = t.proposer /\ v.since = u.since /\ u.since = t.since
      /\ Ends(t, u) /\ Ends(u, v)
  BY DEF Grows
<1>3. ASSUME t.rotating, ~v.rotating, OneLine(v)
      PROVE  \E b \in v.decided \ t.decided : By(v, b) = t.proposer /\ b > t.since
  <2>1. CASE u.rotating
    BY <1>2, <1>3, <2>1 DEF Ends
  <2>2. CASE ~u.rotating
    <3>1. OneLine(u)
      BY <1>2, <1>3, Stable DEF OneLine
    <3>2. PICK b \in u.decided \ t.decided : By(u, b) = t.proposer /\ b > t.since
      BY <1>2, <1>3, <2>2, <3>1 DEF Ends
    <3>3. By(v, b) = By(u, b)
      BY <1>2, Stable
    <3> QED BY <1>2, <3>2, <3>3
  <2> QED BY <2>1, <2>2
<1> QED BY <1>1, <1>2, <1>3 DEF Grows, Ends

LEMMA GrowsSame ==
    ASSUME NEW t \in States, NEW u \in States, Prefix(t, u), t.decided \subseteq u.decided,
           u.rotating = t.rotating, u.proposer = t.proposer, u.since = t.since, u.late = t.late
    PROVE  Grows(t, u)
BY DEF Grows, Ends

(* The parts of the invariant under changes elsewhere                      *)
LEMMA SameParts ==
    ASSUME NEW t \in States, NEW u \in States, SameCore(t, u), SameRole(t, u)
    PROVE  /\ Places(u) = Places(t) /\ Known(u) = Known(t)
           /\ Lines(t) => Lines(u)
           /\ Ledger(t) => Ledger(u)
           /\ Noted(t) => Noted(u)
           /\ Updated(t) => Updated(u)
           /\ Linked(t) => Linked(u)
           /\ OneLine(u) = OneLine(t)
           /\ Grows(t, u)
<1>1. Places(u) = Places(t) /\ Known(u) = Known(t)
  BY DEF SameCore, Places, Known
<1>2. \A b : By(u, b) = By(t, b) /\ Up(u, b) = Up(t, b) /\ QcRef(u, b) = QcRef(t, b) /\ Line(u, b) = Line(t, b)
  BY DEF SameCore, By, Up, QcRef, Line
<1>3. Lines(t) => Lines(u)
  BY <1>1, <1>2 DEF Lines
<1>4. OneLine(u) = OneLine(t)
  BY <1>2 DEF OneLine, SameCore
<1>5. Ledger(t) => Ledger(u)
  BY <1>1, <1>2, <1>4 DEF Ledger, SameCore
<1>6. Noted(t) => Noted(u)
  BY <1>1, <1>2 DEF Noted, SameCore, SameRole
<1>7. Updated(t) => Updated(u)
  BY <1>1, <1>2 DEF Updated, Decides, SameCore
<1>8. Linked(t) => Linked(u)
  BY <1>1, <1>2 DEF Linked, SameCore
<1>9. Grows(t, u)
  <2>1. Prefix(t, u)
    BY DEF Prefix, SameCore, States
  <2> QED BY <2>1, GrowsSame DEF SameCore, SameRole
<1> QED BY <1>1, <1>3, <1>4, <1>5, <1>6, <1>7, <1>8, <1>9
LEMMA RotateSound ==
    ASSUME NEW t \in States, Waits(t), Locks(t)
    PROVE  LET u == Rotate(t) IN
           /\ u \in States /\ SameCore(t, u) /\ u.rotating /\ u.since = Len(t.blocks)
           /\ Waits(u) /\ Locks(u) /\ Noted(u) /\ Released(u)
           /\ u.pm_qc_manual = t.pm_qc_manual
<1> DEFINE r == RejectAll(t)
           u == [r EXCEPT !.registered = TRUE, !.rotating = TRUE, !.proposer = (@ + 1) % nreplicas,
                          !.prop_blk = [q \in Replicas |-> Null], !.timer = "exp", !.since = Len(t.blocks)]
<1>1. /\ r \in States /\ Waits(r) /\ SameCore(t, r) /\ SameRole(t, r) /\ SamePromises(t, r)
      /\ r.last_proposed = t.last_proposed /\ r.locked = t.locked /\ ~r.pm_wait_propose
      /\ \A b \in Places(t) : WaitersOf(r, b) = <<>>
  BY RejectAllFields
<1> HIDE DEF r
<1>2. (r.proposer + 1) % nreplicas \in Replicas
  BY <1>1, RoundRobinAssumption, StateTypes DEF Replicas
<1>3. /\ u \in States /\ SameCore(r, u) /\ SamePromises(r, u)
      /\ u.rotating /\ u.since = Len(t.blocks) /\ u.prop_blk = [q \in Replicas |-> Null]
      /\ u.last_proposed = r.last_proposed /\ u.locked = r.locked /\ u.pm_wait_propose = r.pm_wait_propose
      /\ u.qc_waiting = r.qc_waiting
  BY <1>1, <1>2, StateTypes DEF States, SameCore, SamePromises
<1>4. Rotate(t) = u
  BY DEF Rotate, r
<1> HIDE DEF u
<1>5. SameCore(t, u) /\ u.pm_qc_manual = t.pm_qc_manual /\ Places(u) = Places(t) /\ Known(u) = Known(t)
  BY <1>1, <1>3 DEF SameCore, SamePromises, Places, Known
<1>6. \A b \in Places(u) : WaitersOf(u, b) = <<>>
  BY <1>1, <1>3, <1>5 DEF WaitersOf
<1>7. Waits(u)
  BY <1>1, <1>3, <1>5, <1>6 DEF Waits, SameCore, SamePromises, Places
<1>8. Locks(u)
  BY <1>1, <1>3, <1>5 DEF Locks, SameCore, SamePromises, By
<1>9. Noted(u) /\ Released(u)
  BY <1>3, <1>5, StateTypes DEF Noted, Released, SameCore
<1> QED BY <1>3, <1>4, <1>5, <1>7, <1>8, <1>9

LEMMA StopRotateSound ==
    ASSUME NEW t \in States, Waits(t)
    PROVE  LET u == StopRotate(t) IN
           /\ u \in States /\ SameCore(t, u) /\ ~u.rotating
           /\ u.proposer = t.proposer /\ u.prop_blk = t.prop_blk /\ u.since = t.since /\ u.late = t.late
           /\ Waits(u) /\ Locks(u) /\ Released(u) /\ SamePromises(t, u)
           /\ \A c \in Places(t) : t.qc_waiting[c].state = "none" => u.qc_waiting[c] = t.qc_waiting[c]
<1> DEFINE r == RejectAll(t)
           calls == IF t.proposer = Id THEN r.tcall + 1 ELSE r.tcall
           u == [r EXCEPT !.timer = "none", !.rotating = FALSE, !.locked = FALSE, !.last_proposed = b0,
                          !.pm_wait_propose = TRUE, !.tcall = calls]
<1>1. /\ r \in States /\ Waits(r) /\ SameCore(t, r) /\ SameRole(t, r) /\ SamePromises(t, r)
      /\ \A b \in Places(t) : WaitersOf(r, b) = <<>>
      /\ \A c \in Places(t) : t.qc_waiting[c].state = "none" => r.qc_waiting[c] = t.qc_waiting[c]
  BY RejectAllFields
<1>2. StopRotate(t) = u
  BY DEF StopRotate
<1> HIDE DEF r
<1>3. calls \in Nat
  BY <1>1, StateTypes
<1> HIDE DEF calls
<1>4. /\ u \in States /\ SameCore(r, u) /\ SamePromises(r, u)
      /\ ~u.rotating /\ ~u.locked /\ u.last_proposed = b0 /\ u.pm_wait_propose
      /\ u.proposer = r.proposer /\ u.prop_blk = r.prop_blk /\ u.since = r.since /\ u.late = r.late
      /\ u.qc_waiting = r.qc_waiting
  BY <1>1, <1>3 DEF States, SameCore, SamePromises, b0
<1> HIDE DEF u
<1>5. SameCore(t, u) /\ SamePromises(t, u) /\ Places(u) = Places(t) /\ Known(u) = Known(t)
  BY <1>1, <1>4 DEF SameCore, SamePromises, Places, Known
<1>6. \A b \in Places(u) : WaitersOf(u, b) = <<>>
  BY <1>1, <1>4, <1>5 DEF WaitersOf
<1>7. Waits(u)
  BY <1>1, <1>4, <1>5, <1>6 DEF Waits, SameCore, SamePromises, Places
<1>8. Locks(u)
  <2>1. b0 \in Known(u) /\ u.pm_qc_finish # b0
    BY <1>4, <1>7, StateTypes DEF Known, Waits, Places, b0, Null
  <2> QED BY <1>4, <2>1 DEF Locks
<1>9. Released(u)
  BY <1>4 DEF Released
<1> QED BY <1>1, <1>2, <1>4, <1>5, <1>7, <1>8, <1>9 DEF SameRole
-----------------------------------------------------------------------------
(* The core.                                                               *)
LEMMA AddBlockFields ==
    ASSUME NEW t \in States, Lines(t), Waits(t), NEW r \in Replicas, NEW x \in -2 .. 3,
           NEW up \in Known(t), NEW q \in Line(t, up)
    PROVE  LET u == AddBlock(t, r, x, up, q)
               n == Len(t.blocks) + 1
           IN
           /\ u \in States /\ Len(u.blocks) = n /\ Prefix(t, u)
           /\ u.certified = t.certified /\ u.hqc = t.hqc /\ u.tail = t.tail /\ u.b_exec = t.b_exec
           /\ u.decided = t.decided
           /\ SameRole(t, u) /\ SameBeat(t, u) /\ SamePromises(t, u)
           /\ By(u, n) = r /\ u.blocks[n].x = x /\ Up(u, n) = up /\ QcRef(u, n) = q
           /\ Line(u, n) = Line(t, up) \cup {n}
           /\ Len(u.qc_waiting) = n /\ u.qc_waiting[n] = NoPromise
           /\ \A b \in Places(t) : u.qc_waiting[b] = t.qc_waiting[b]
<1> DEFINE n == Len(t.blocks) + 1
           blk == [by |-> r, x |-> x, up |-> up, qc_ref |-> q, line |-> Line(t, up) \cup {n}]
           bs == Append(t.blocks, blk)
           ws == Append(t.qc_waiting, NoPromise)
           u == [t EXCEPT !.blocks = bs, !.qc_waiting = ws]
<1>1. AddBlock(t, r, x, up, q) = u
  BY DEF AddBlock
<1>2. t.blocks \in Seq(Blocks) /\ Len(t.blocks) \in Nat /\ t.qc_waiting \in Seq(Promises)
      /\ Len(t.qc_waiting) = Len(t.blocks)
  BY DEF States, Waits
<1>3. blk \in Blocks /\ blk.by = r /\ blk.x = x /\ blk.up = up /\ blk.qc_ref = q /\ blk.line = Line(t, up) \cup {n}
  <2>1. Line(t, up) \subseteq 0 .. up /\ 0 .. up \subseteq Nat /\ up \in Nat
    BY <1>2 DEF Lines, Known
  <2>2. n \in Nat
    BY <1>2
  <2> QED BY <2>1, <2>2 DEF Blocks
<1> HIDE DEF blk
<1>4. NoPromise \in Promises
  BY DEF NoPromise, Promises
<1>5. bs \in Seq(Blocks) /\ Len(bs) = n /\ bs[n] = blk /\ \A b \in 1 .. Len(t.blocks) : bs[b] = t.blocks[b]
  BY <1>2, <1>3
<1>6. ws \in Seq(Promises) /\ Len(ws) = n /\ ws[n] = NoPromise /\ \A b \in 1 .. Len(t.blocks) : ws[b] = t.qc_waiting[b]
  BY <1>2, <1>4
<1> HIDE DEF bs, ws
<1>7. /\ u \in States /\ u.blocks = bs /\ u.qc_waiting = ws
      /\ u.certified = t.certified /\ u.hqc = t.hqc /\ u.tail = t.tail /\ u.b_exec = t.b_exec
      /\ u.decided = t.decided
      /\ SameRole(t, u) /\ SameBeat(t, u) /\ SamePromises(t, u)
  BY <1>5, <1>6 DEF States, SameRole, SameBeat, SamePromises
<1> HIDE DEF u
<1>8. Prefix(t, u)
  BY <1>2, <1>5, <1>7 DEF Prefix, Places
<1>9. By(u, n) = r /\ Up(u, n) = up /\ QcRef(u, n) = q /\ Line(u, n) = Line(t, up) \cup {n}
  <2>1. n # b0
    BY <1>2 DEF b0
  <2> QED BY <1>3, <1>5, <1>7, <2>1 DEF By, Up, QcRef, Line
<1> QED BY <1>1, <1>3, <1>5, <1>6, <1>7, <1>8, <1>9 DEF Places

LEMMA AddBlockSound ==
    ASSUME NEW t \in States, Sound(t), NEW r \in Replicas, NEW x \in -2 .. 3,
           NEW up \in Known(t), NEW q \in Line(t, up),
           x >= 1 /\ up = Len(t.blocks) /\ up # b0 => t.blocks[up].x # x - 1 \/ q = up
    PROVE  LET u == AddBlock(t, r, x, up, q) IN
           /\ Lines(u) /\ Ledger(u) /\ Noted(u) /\ Waits(u) /\ Locks(u) /\ Linked(u)
           /\ Released(t) => Released(u)
           /\ Grows(t, u)
           /\ \A m \in Known(t) : Decides(u, m)
<1> DEFINE u == AddBlock(t, r, x, up, q)
           n == Len(t.blocks) + 1
<1>1. /\ u \in States /\ Len(u.blocks) = n /\ Prefix(t, u)
      /\ u.certified = t.certified /\ u.hqc = t.hqc /\ u.tail = t.tail /\ u.b_exec = t.b_exec
      /\ u.decided = t.decided
      /\ SameRole(t, u) /\ SameBeat(t, u) /\ SamePromises(t, u)
      /\ By(u, n) = r /\ u.blocks[n].x = x /\ Up(u, n) = up /\ QcRef(u, n) = q
      /\ Line(u, n) = Line(t, up) \cup {n}
      /\ Len(u.qc_waiting) = n /\ u.qc_waiting[n] = NoPromise
      /\ \A b \in Places(t) : u.qc_waiting[b] = t.qc_waiting[b]
  BY AddBlockFields DEF Sound, Kept
<1> HIDE DEF u
<1>2. Len(t.blocks) \in Nat
  BY StateTypes
<1>3. Known(u) = Known(t) \cup {n} /\ Places(u) = Places(t) \cup {n} /\ n \notin Known(t)
      /\ Places(t) = Known(t) \ {b0} /\ b0 \in Known(t)
  BY <1>1, <1>2 DEF Known, Places, b0
<1>4. \A b \in Known(t) : /\ By(u, b) = By(t, b) /\ Up(u, b) = Up(t, b)
                          /\ QcRef(u, b) = QcRef(t, b) /\ Line(u, b) = Line(t, b)
  BY <1>1, Stable
<1>5. Lines(u)
  <2>1. ASSUME NEW b \in Known(t)
        PROVE  /\ Line(u, b) \subseteq 0 .. b /\ b \in Line(u, b) /\ b0 \in Line(u, b)
               /\ \A c \in Line(u, b) : Line(u, c) = {d \in Line(u, b) : d <= c}
               /\ b # b0 => /\ Up(u, b) \in 0 .. b - 1 /\ QcRef(u, b) \in Line(u, Up(u, b))
                            /\ Line(u, b) = Line(u, Up(u, b)) \cup {b}
    <3>1. Line(t, b) \subseteq Known(t)
      BY <1>2 DEF Sound, Kept, Lines, Known
    <3>2. b # b0 => Up(t, b) \in Known(t)
      BY <1>2 DEF Sound, Kept, Lines, Known
    <3> QED BY <1>4, <3>1, <3>2 DEF Sound, Kept, Lines
  <2>2. /\ Line(u, n) \subseteq 0 .. n /\ n \in Line(u, n) /\ b0 \in Line(u, n)
        /\ \A c \in Line(u, n) : Line(u, c) = {d \in Line(u, n) : d <= c}
        /\ n # b0 => /\ Up(u, n) \in 0 .. n - 1 /\ QcRef(u, n) \in Line(u, Up(u, n))
                     /\ Line(u, n) = Line(u, Up(u, n)) \cup {n}
    <3>1. up \in 0 .. n - 1 /\ Line(t, up) \subseteq 0 .. up /\ b0 \in Line(t, up) /\ Line(u, up) = Line(t, up)
      BY <1>2, <1>4 DEF Sound, Kept, Lines, Known
    <3>2. Line(u, n) \subseteq 0 .. n
      BY <1>1, <1>2, <3>1
    <3>3. ASSUME NEW c \in Line(t, up)
          PROVE  Line(u, c) = {d \in Line(u, n) : d <= c}
      <4>1. c \in Known(t) /\ c < n /\ c \in Nat
        BY <1>2, <3>1 DEF Known
      <4>2. Line(u, c) = {d \in Line(t, up) : d <= c}
        BY <1>4, <4>1 DEF Sound, Kept, Lines
      <4> QED BY <1>1, <1>2, <4>1, <4>2
    <3>4. Line(u, n) = {d \in Line(u, n) : d <= n}
      BY <1>2, <3>2
    <3> QED BY <1>1, <3>1, <3>2, <3>3, <3>4
  <2> QED BY <1>3, <2>1, <2>2 DEF Lines
<1>6. Ledger(u)
  <2>1. OneLine(u) => OneLine(t)
    BY <1>1, <1>4 DEF OneLine, Sound, Kept, Ledger
  <2>2. t.b_exec \in Known(t)
    BY DEF Sound, Kept, Ledger
  <2>3. \A b \in t.certified : b \in Known(t)
    BY <1>3 DEF Sound, Kept, Ledger
  <2> QED BY <1>1, <1>3, <1>4, <2>1, <2>2, <2>3 DEF Sound, Kept, Ledger
<1>7. Noted(u)
  <2>1. t.since <= Len(u.blocks)
    BY <1>1, <1>2, StateTypes DEF Sound, Kept, Noted
  <2> QED BY <1>1, <1>3, <1>4, <2>1 DEF Sound, Kept, Noted, SameRole
<1>8. WaitersOf(u, n) = <<>> /\ \A b \in Places(t) : WaitersOf(u, b) = WaitersOf(t, b) /\ u.blocks[b] = t.blocks[b]
  BY <1>1 DEF WaitersOf, NoPromise, Prefix
<1>9. Waits(u)
  BY <1>1, <1>3, <1>8 DEF Sound, Kept, Waits, SameRole, SamePromises
<1>10. Locks(u)
  BY <1>1, <1>3, <1>4 DEF Sound, Kept, Locks, SameRole, SameBeat, SamePromises
<1>11. Released(t) => Released(u)
  BY <1>1, <1>3, <1>8 DEF Sound, Kept, Locks, Released, SameRole, SameBeat, BatchWaits
<1>12. Linked(u)
  <2>1. ASSUME NEW m \in Places(t) \ {1}
        PROVE  u.blocks[m].x >= 1 /\ u.blocks[m - 1].x = u.blocks[m].x - 1 /\ Up(u, m) = m - 1
               => QcRef(u, m) = m - 1
    <3>1. m - 1 \in Places(t)
      BY <1>2 DEF Places
    <3> QED BY <1>3, <1>4, <1>8, <3>1 DEF Sound, Kept, Linked
  <2>2. ASSUME n # 1, x >= 1, u.blocks[n - 1].x = x - 1, up = n - 1
        PROVE  q = n - 1
    <3>1. n - 1 = Len(t.blocks) /\ n - 1 \in Places(t) /\ n - 1 # b0
      BY <1>2, <2>2 DEF Places, b0
    <3> QED BY <1>8, <2>2, <3>1
  <2> QED BY <1>1, <1>3, <2>1, <2>2 DEF Linked
<1>13. Grows(t, u)
  BY <1>1, GrowsSame DEF SameRole
<1>14. ASSUME NEW m \in Known(t)
       PROVE  Decides(u, m)
  <2>1. \A b \in Known(t) : QcRef(t, b) \in Known(t) /\ Up(t, b) \in Known(t)
    <3>1. ASSUME NEW b \in Known(t) \ {b0}
          PROVE  QcRef(t, b) \in Known(t) /\ Up(t, b) \in Known(t)
      <4>1. Up(t, b) \in Known(t)
        BY <1>2 DEF Sound, Kept, Lines, Known
      <4>2. QcRef(t, b) \in 0 .. Up(t, b)
        BY <4>1 DEF Sound, Kept, Lines
      <4> QED BY <1>2, <4>1, <4>2 DEF Known
    <3> QED BY <1>3, <3>1 DEF QcRef, Up
  <2>2. Decides(t, m)
    BY DEF Sound, Kept, Updated
  <2> QED BY <1>1, <1>4, <2>1, <2>2 DEF Decides
<1> QED BY <1>5, <1>6, <1>7, <1>9, <1>10, <1>11, <1>12, <1>13, <1>14 DEF u

(* The first block of its proposer after a rotation is noted               *)
LEMMA FirstBlockSound ==
    ASSUME NEW t \in States, Kept(t), NEW b \in Places(t), b > t.since
    PROVE  LET u == FirstBlock(t, b) IN
           /\ Kept(u) /\ SameCore(t, u)
           /\ u.rotating = t.rotating /\ u.proposer = t.proposer /\ u.since = t.since /\ u.late = t.late
           /\ SameBeat(t, u) /\ SamePromises(t, u) /\ u.qc_waiting = t.qc_waiting
           /\ u.pending_beats = t.pending_beats
           /\ Released(t) => Released(u)
           /\ Updated(t) => Updated(u)
           /\ Grows(t, u)
<1> DEFINE notes == [t.prop_blk EXCEPT ![By(t, b)] = IF @ = Null THEN b ELSE @]
           u == [t EXCEPT !.prop_blk = notes, !.registered = t.rotating]
<1>1. CASE ~t.registered
  <2>1. FirstBlock(t, b) = t
    BY <1>1 DEF FirstBlock
  <2> QED BY <2>1, GrowsSame, StateTypes DEF SameCore, SameBeat, SamePromises, Prefix
<1>2. CASE t.registered
  <2>1. FirstBlock(t, b) = u
    BY <1>2 DEF FirstBlock
  <2>2. By(t, b) \in Replicas /\ b \in Nat
    <3>1. t.blocks[b] \in Blocks /\ b # b0 /\ b \in Nat
      BY StateTypes DEF Places, b0
    <3> QED BY <3>1 DEF By, Blocks
  <2>3. notes \in [Replicas -> Nat \cup {Null}]
        /\ \A r \in Replicas : notes[r] = t.prop_blk[r] \/ (r = By(t, b) /\ notes[r] = b)
    BY <2>2, StateTypes
  <2> HIDE DEF notes
  <2>4. /\ u \in States /\ SameCore(t, u) /\ u.prop_blk = notes
        /\ u.rotating = t.rotating /\ u.proposer = t.proposer /\ u.since = t.since /\ u.late = t.late
        /\ SameBeat(t, u) /\ SamePromises(t, u) /\ u.qc_waiting = t.qc_waiting
        /\ u.pending_beats = t.pending_beats
    BY <2>3, StateTypes DEF States, SameCore, SameBeat, SamePromises
  <2> HIDE DEF u
  <2>5. Places(u) = Places(t) /\ Known(u) = Known(t)
        /\ \A c : By(u, c) = By(t, c) /\ Up(u, c) = Up(t, c) /\ QcRef(u, c) = QcRef(t, c) /\ Line(u, c) = Line(t, c)
    BY <2>4 DEF SameCore, Places, Known, By, Up, QcRef, Line
  <2>6. Lines(u)
    BY <2>5 DEF Kept, Lines
  <2>7. OneLine(u) = OneLine(t)
    BY <2>4, <2>5 DEF OneLine, SameCore
  <2>8. Ledger(u)
    BY <2>4, <2>5, <2>7 DEF Kept, Ledger, SameCore
  <2>9. Noted(u)
    BY <2>3, <2>4, <2>5 DEF Kept, Noted, SameCore
  <2>10. Waits(u)
    BY <2>4, <2>5 DEF Kept, Waits, SameCore, SamePromises, WaitersOf
  <2>11. Locks(u)
    BY <2>4, <2>5 DEF Kept, Locks, SameCore, SameBeat, SamePromises
  <2>12. Linked(u)
    BY <2>4, <2>5 DEF Kept, Linked, SameCore
  <2>13. Released(t) => Released(u)
    BY <2>4 DEF Released, SameBeat, BatchWaits, WaitersOf
  <2>14. Updated(t) => Updated(u)
    BY <2>4, <2>5 DEF Updated, Decides, SameCore
  <2>15. Prefix(t, u) /\ t.decided \subseteq u.decided
    BY <2>4, StateTypes DEF Prefix, SameCore
  <2>16. Grows(t, u)
    BY <2>4, <2>15, GrowsSame
  <2> QED BY <2>1, <2>4, <2>6, <2>8, <2>9, <2>10, <2>11, <2>12, <2>13, <2>14, <2>16 DEF Kept
<1> QED BY <1>1, <1>2, StateTypes
(* Certificates and the chain they are on may move                         *)
LEMMA KeptMoves ==
    ASSUME NEW t \in States, Kept(t), NEW u \in States,
           u.blocks = t.blocks, u.b_exec = t.b_exec, u.decided = t.decided, u.qc_waiting = t.qc_waiting,
           SameRole(t, u), SameBeat(t, u), SamePromises(t, u),
           u.hqc \in Known(t), u.tail \in Known(t), u.hqc \in Line(t, u.tail),
           u.certified \subseteq Places(t), \A b \in u.certified : By(t, b) = Id
    PROVE  /\ Kept(u) /\ Grows(t, u)
           /\ Released(t) => Released(u)
           /\ Updated(t) => Updated(u)
           /\ Places(u) = Places(t) /\ Known(u) = Known(t)
<1>1. Places(u) = Places(t) /\ Known(u) = Known(t)
      /\ \A c : By(u, c) = By(t, c) /\ Up(u, c) = Up(t, c) /\ QcRef(u, c) = QcRef(t, c) /\ Line(u, c) = Line(t, c)
  BY DEF Places, Known, By, Up, QcRef, Line
<1>2. Lines(u)
  BY <1>1 DEF Kept, Lines
<1>3. OneLine(u) = OneLine(t)
  BY <1>1 DEF OneLine
<1>4. Ledger(u)
  BY <1>1, <1>3 DEF Kept, Ledger
<1>5. Noted(u)
  BY <1>1 DEF Kept, Noted, SameRole
<1>6. Waits(u)
  BY <1>1 DEF Kept, Waits, SameRole, SamePromises, WaitersOf
<1>7. Locks(u)
  BY <1>1 DEF Kept, Locks, SameRole, SameBeat, SamePromises
<1>8. Linked(u)
  BY <1>1 DEF Kept, Linked
<1>9. Released(t) => Released(u)
  BY DEF Released, SameRole, SameBeat, BatchWaits, WaitersOf
<1>10. Updated(t) => Updated(u)
  BY <1>1 DEF Updated, Decides
<1>11. Grows(t, u)
  <2>1. Prefix(t, u)
    BY StateTypes DEF Prefix
  <2> QED BY <2>1, GrowsSame DEF SameRole
<1> QED BY <1>1, <1>2, <1>4, <1>5, <1>6, <1>7, <1>8, <1>9, <1>10, <1>11 DEF Kept

LEMMA Heights ==
    ASSUME NEW t \in States, Lines(t), NEW b \in Known(t)
    PROVE  /\ Height(t, b) \in 0 .. Len(t.blocks)
           /\ \A c \in Line(t, b) : c \in Known(t) /\ Height(t, c) <= Height(t, b)
                                    /\ (Height(t, c) = Height(t, b) => c = b)
<1>1. Len(t.blocks) \in Nat /\ b \in Nat /\ b <= Len(t.blocks)
  BY StateTypes DEF Known
<1>2. IsFiniteSet(0 .. b) /\ Cardinality(0 .. b) = b + 1
  <2>1. 0 \in Int /\ b \in Int /\ 0 <= b
    BY <1>1
  <2> QED BY <2>1, FS_Interval
<1>3. Line(t, b) \subseteq 0 .. b /\ b \in Line(t, b)
  BY DEF Lines
<1>4. IsFiniteSet(Line(t, b)) /\ Cardinality(Line(t, b)) \in Nat /\ Cardinality(Line(t, b)) <= b + 1
  <2>1. IsFiniteSet(Line(t, b)) /\ Cardinality(Line(t, b)) <= Cardinality(0 .. b)
    BY <1>2, <1>3, FS_Subset
  <2>2. Cardinality(Line(t, b)) \in Nat
    BY <2>1, FS_CardinalityType
  <2> QED BY <1>2, <2>1, <2>2
<1>5. Cardinality(Line(t, b)) # 0
  BY <1>3, <1>4, FS_EmptySet
<1>6. Height(t, b) \in 0 .. Len(t.blocks)
  BY <1>1, <1>4, <1>5 DEF Height
<1>7. ASSUME NEW c \in Line(t, b)
      PROVE  c \in Known(t) /\ Height(t, c) <= Height(t, b) /\ (Height(t, c) = Height(t, b) => c = b)
  <2>1. c \in Known(t) /\ c <= b /\ c \in Nat
    BY <1>1, <1>3 DEF Known
  <2>2. Line(t, c) = {d \in Line(t, b) : d <= c}
    BY DEF Lines
  <2>3. IsFiniteSet(Line(t, c)) /\ Cardinality(Line(t, c)) <= Cardinality(Line(t, b))
        /\ (Cardinality(Line(t, c)) = Cardinality(Line(t, b)) => Line(t, c) = Line(t, b))
    BY <1>4, <2>2, FS_Subset
  <2>4. Cardinality(Line(t, c)) \in Nat
    BY <2>3, FS_CardinalityType
  <2>5. Line(t, c) = Line(t, b) => c = b
    BY <1>1, <1>3, <2>1, <2>2
  <2> QED BY <1>4, <2>1, <2>3, <2>4, <2>5 DEF Height
<1> QED BY <1>6, <1>7

LEMMA UpdateHqcSound ==
    ASSUME NEW t \in States, Kept(t), NEW b \in Known(t)
    PROVE  LET u == UpdateHqc(t, b) IN
           /\ Kept(u) /\ Grows(t, u)
           /\ u.blocks = t.blocks /\ u.b_exec = t.b_exec /\ u.decided = t.decided /\ u.qc_waiting = t.qc_waiting
           /\ u.certified = t.certified /\ SameRole(t, u) /\ SameBeat(t, u) /\ SamePromises(t, u)
           /\ Released(t) => Released(u)
           /\ Updated(t) => Updated(u)
           /\ IF Height(t, b) <= Height(t, t.hqc) THEN u = t ELSE u.hqc = b
<1>1. CASE Height(t, b) <= Height(t, t.hqc)
  <2>1. UpdateHqc(t, b) = t
    BY <1>1 DEF UpdateHqc
  <2>2. Grows(t, t)
    BY SameParts DEF SameCore, SameRole
  <2> QED BY <1>1, <2>1, <2>2 DEF SameRole, SameBeat, SamePromises
<1>2. CASE ~(Height(t, b) <= Height(t, t.hqc))
  <2> DEFINE above == {c \in Leaves(t) \cup {b} : b \in Line(t, c)}
             far == {Len(t.blocks) - Height(t, c) : c \in above}
             best == CHOOSE c \in above : \A d \in above : Height(t, d) <= Height(t, c)
             u == [t EXCEPT !.hqc = b, !.tail = best]
  <2>1. above \subseteq Known(t) /\ b \in above
    BY DEF Leaves, Kept, Lines
  <2>2. \A c \in above : Height(t, c) \in 0 .. Len(t.blocks)
    BY <2>1, Heights DEF Kept
  <2>3. \E c \in above : \A d \in above : Height(t, d) <= Height(t, c)
    <3>1. far \subseteq Nat /\ far # {} /\ Len(t.blocks) \in Nat
      BY <2>1, <2>2, StateTypes
    <3> HIDE DEF far
    <3>2. PICK m \in far : \A k \in far : m <= k
      BY <3>1, NatMin
    <3>3. PICK c \in above : m = Len(t.blocks) - Height(t, c)
      BY DEF far
    <3>4. ASSUME NEW d \in above
          PROVE  Height(t, d) <= Height(t, c)
      <4>1. Len(t.blocks) - Height(t, d) \in far
        BY DEF far
      <4>2. Len(t.blocks) - Height(t, c) <= Len(t.blocks) - Height(t, d)
        BY <3>2, <3>3, <4>1
      <4> QED BY <2>2, <3>1, <4>2
    <3> QED BY <3>4
  <2>4. best \in above
    BY <2>3
  <2> HIDE DEF best
  <2>5. UpdateHqc(t, b) = u
    BY <1>2 DEF UpdateHqc, best
  <2>6. best \in Known(t) /\ b \in Line(t, best) /\ best \in Nat /\ b \in Nat
    <3>1. b \in Nat /\ Known(t) \subseteq Nat
      BY StateTypes DEF Known
    <3> QED BY <2>1, <2>4, <3>1
  <2>7. /\ u \in States /\ u.hqc = b /\ u.tail = best
        /\ u.blocks = t.blocks /\ u.b_exec = t.b_exec /\ u.decided = t.decided /\ u.qc_waiting = t.qc_waiting
        /\ u.certified = t.certified /\ SameRole(t, u) /\ SameBeat(t, u) /\ SamePromises(t, u)
    BY <2>6 DEF States, SameRole, SameBeat, SamePromises
  <2> HIDE DEF u
  <2>8. u.certified \subseteq Places(t) /\ \A c \in u.certified : By(t, c) = Id
    BY <2>7 DEF Kept, Ledger
  <2>9. Kept(u) /\ Grows(t, u) /\ (Released(t) => Released(u)) /\ (Updated(t) => Updated(u))
    BY <2>6, <2>7, <2>8, KeptMoves
  <2> QED BY <1>2, <2>5, <2>7, <2>9
<1> QED BY <1>1, <1>2
LEMMA Ancestors ==
    ASSUME NEW t \in States, Lines(t), NEW b \in Known(t)
    PROVE  /\ b \in Line(t, b) /\ QcRef(t, b) \in Line(t, b) /\ Up(t, b) \in Line(t, b)
           /\ Line(t, b) \subseteq Known(t)
           /\ \A c \in Line(t, b) : Line(t, c) \subseteq Line(t, b)
<1>1. Len(t.blocks) \in Nat
  BY StateTypes
<1>2. Line(t, b) \subseteq Known(t)
  BY <1>1 DEF Lines, Known
<1>3. b \in Line(t, b) /\ \A c \in Line(t, b) : Line(t, c) \subseteq Line(t, b)
  BY DEF Lines
<1>4. CASE b = b0
  BY <1>2, <1>3, <1>4 DEF Lines, QcRef, Up
<1>5. CASE b # b0
  <2>1. Up(t, b) \in Known(t) /\ QcRef(t, b) \in Line(t, Up(t, b)) /\ Line(t, Up(t, b)) \subseteq Line(t, b)
    BY <1>1, <1>5 DEF Lines, Known
  <2>2. Up(t, b) \in Line(t, Up(t, b))
    BY <2>1 DEF Lines
  <2> QED BY <1>2, <1>3, <2>1, <2>2
<1> QED BY <1>4, <1>5

(* A block is decided, with its ancestors                                  *)
LEMMA CommitSound ==
    ASSUME NEW t \in States, Kept(t), NEW b \in Known(t), b \notin t.decided, NEW u \in States,
           u.blocks = t.blocks, u.certified = t.certified, u.hqc = t.hqc, u.tail = t.tail,
           u.qc_waiting = t.qc_waiting, u.b_exec = b, u.decided = t.decided \cup Line(t, b),
           SameRole(t, u), SameBeat(t, u), SamePromises(t, u)
    PROVE  /\ Kept(u) /\ Grows(t, u)
           /\ Released(t) => Released(u)
           /\ OneLine(u) => t.decided = Line(t, t.b_exec)
           /\ \A m \in Known(t) : Decides(t, m) => Decides(u, m)
<1>1. Places(u) = Places(t) /\ Known(u) = Known(t)
      /\ \A c : By(u, c) = By(t, c) /\ Up(u, c) = Up(t, c) /\ QcRef(u, c) = QcRef(t, c) /\ Line(u, c) = Line(t, c)
  BY DEF Places, Known, By, Up, QcRef, Line
<1>2. Lines(u)
  BY <1>1 DEF Kept, Lines
<1>3. b \in Line(t, b) /\ Line(t, b) \subseteq Known(t) /\ \A c \in Line(t, b) : Line(t, c) \subseteq Line(t, b)
  BY Ancestors DEF Kept
<1>4. ASSUME OneLine(u)
      PROVE  t.decided = Line(t, t.b_exec) /\ u.decided = Line(t, b)
  <2>1. OneLine(t)
    BY <1>1, <1>4 DEF OneLine
  <2>2. t.decided = Line(t, t.b_exec) /\ t.b_exec \in t.decided
    BY <2>1 DEF Kept, Ledger
  <2>3. t.b_exec \in Line(t, b)
    BY <1>1, <1>3, <1>4, <2>2 DEF OneLine
  <2> QED BY <1>3, <2>2, <2>3
<1>5. Ledger(u)
  <2>1. \A c \in u.decided : Line(u, c) \subseteq u.decided
    BY <1>1, <1>3 DEF Kept, Ledger
  <2>2. OneLine(u) => u.decided = Line(u, u.b_exec)
    BY <1>1, <1>4
  <2> QED BY <1>1, <1>3, <2>1, <2>2 DEF Kept, Ledger
<1>6. Noted(u)
  BY <1>1 DEF Kept, Noted, SameRole
<1>7. Waits(u)
  BY <1>1 DEF Kept, Waits, SameRole, SamePromises, WaitersOf
<1>8. Locks(u)
  BY <1>1 DEF Kept, Locks, SameRole, SameBeat, SamePromises
<1>9. Linked(u)
  BY <1>1 DEF Kept, Linked
<1>10. Released(t) => Released(u)
  BY DEF Released, SameRole, SameBeat, BatchWaits, WaitersOf
<1>11. \A m \in Known(t) : Decides(t, m) => Decides(u, m)
  BY <1>1 DEF Decides
<1>12. Grows(t, u)
  <2>1. Prefix(t, u)
    BY StateTypes DEF Prefix
  <2> QED BY <2>1, GrowsSame DEF SameRole
<1> QED BY <1>2, <1>4, <1>5, <1>6, <1>7, <1>8, <1>9, <1>10, <1>11, <1>12 DEF Kept

LEMMA UpdateSound ==
    ASSUME NEW t \in States, Kept(t), NEW n \in Known(t),
           \A m \in Known(t) \ {n} : Decides(t, m)
    PROVE  LET u == Update(t, n) IN
           /\ Sound(u) /\ Grows(t, u)
           /\ u.blocks = t.blocks /\ u.certified = t.certified /\ SamePromises(t, u)
           /\ Released(t) => Released(u)
           /\ u.rotating => u.qc_waiting = t.qc_waiting
           /\ \A c \in Places(t) : t.qc_waiting[c].state = "none" => u.qc_waiting[c] = t.qc_waiting[c]
           /\ QcRef(t, n) = t.hqc => u.hqc = t.hqc /\ u.tail = t.tail
<1> DEFINE b2 == QcRef(t, n)
           b1 == QcRef(t, b2)
           b == QcRef(t, b1)
           h == UpdateHqc(t, b2)
           stop == {b1, b} \cap t.decided # {} \/ Up(t, b2) # b1 \/ Up(t, b1) # b
           v == [h EXCEPT !.decided = @ \cup Line(t, b), !.b_exec = b]
<1>1. b2 \in Known(t) /\ b1 \in Known(t) /\ b \in Known(t) /\ b1 \in Line(t, b2) /\ b \in Line(t, b1)
  BY Ancestors DEF Kept
<1>2. b2 \in t.decided => b1 \in t.decided
  BY <1>1 DEF Kept, Ledger
<1>3. b1 \in t.decided => b \in t.decided
  BY <1>1 DEF Kept, Ledger
<1>4. Update(t, n) = IF b2 \in t.decided THEN t
                     ELSE IF stop THEN h ELSE on_consensus(v, Queue(t, b))
  BY DEF Update
<1>5. Decides(t, n) <=> (Up(t, b2) = b1 /\ Up(t, b1) = b => b \in t.decided)
  BY DEF Decides
<1>6. /\ Kept(h) /\ Grows(t, h)
      /\ h.blocks = t.blocks /\ h.b_exec = t.b_exec /\ h.decided = t.decided /\ h.qc_waiting = t.qc_waiting
      /\ h.certified = t.certified /\ SameRole(t, h) /\ SameBeat(t, h) /\ SamePromises(t, h)
      /\ Released(t) => Released(h)
      /\ Updated(t) => Updated(h)
      /\ IF Height(t, b2) <= Height(t, t.hqc) THEN h = t ELSE h.hqc = b2
  BY <1>1, UpdateHqcSound
<1>7. b2 = t.hqc => h = t
  <2>1. Height(t, b2) \in Nat
    BY <1>1, Heights, StateTypes DEF Kept
  <2> QED BY <1>6, <2>1
<1>8. h \in States /\ Places(h) = Places(t) /\ Known(h) = Known(t)
      /\ \A c : By(h, c) = By(t, c) /\ Up(h, c) = Up(t, c) /\ QcRef(h, c) = QcRef(t, c) /\ Line(h, c) = Line(t, c)
  BY <1>6 DEF Kept, Places, Known, By, Up, QcRef, Line
<1>9. \A m \in Known(t) : Decides(h, m) <=> Decides(t, m)
  BY <1>6, <1>8 DEF Decides
<1> HIDE DEF b2, b1, b, h
<1>10. CASE b2 \in t.decided
  <2>1. Updated(t)
    BY <1>2, <1>3, <1>5, <1>10 DEF Updated
  <2>2. Grows(t, t)
    BY SameParts DEF SameCore, SameRole
  <2> QED BY <1>4, <1>10, <2>1, <2>2 DEF Sound, SamePromises
<1>11. CASE b2 \notin t.decided /\ stop
  <2>1. Decides(t, n)
    BY <1>3, <1>5, <1>11
  <2>2. Updated(t)
    BY <2>1 DEF Updated
  <2> QED BY <1>4, <1>6, <1>7, <1>11, <2>2 DEF Sound, SameRole, b2
<1>12. CASE b2 \notin t.decided /\ ~stop
  <2> DEFINE w == [v EXCEPT !.timer = "none"]
             blk == t.prop_blk[t.proposer]
  <2>1. b \notin h.decided /\ b \in Known(h) /\ b \in Nat
    BY <1>1, <1>6, <1>8, <1>12, StateTypes DEF Known
  <2>2. Line(t, b) \subseteq Known(t) /\ Known(t) \subseteq Nat
    <3>1. Known(t) \subseteq Nat
      BY StateTypes DEF Known
    <3> QED BY <1>1, <3>1, Ancestors DEF Kept
  <2>3. /\ w \in States /\ w.blocks = h.blocks /\ w.certified = h.certified /\ w.hqc = h.hqc /\ w.tail = h.tail
        /\ w.qc_waiting = h.qc_waiting /\ w.b_exec = b /\ w.decided = h.decided \cup Line(t, b)
        /\ SameRole(h, w) /\ SameBeat(h, w) /\ SamePromises(h, w)
    BY <1>8, <2>1, <2>2 DEF States, SameRole, SameBeat, SamePromises
  <2>4. on_consensus(v, Queue(t, b)) = IF blk \in Queue(t, b) THEN StopRotate(w) ELSE w
    <3>1. w.prop_blk = t.prop_blk /\ w.proposer = t.proposer
      BY <1>6, <2>3 DEF SameRole
    <3> QED BY <3>1 DEF on_consensus
  <2> HIDE DEF w, v
  <2>5. /\ Kept(w) /\ Grows(h, w)
        /\ Released(h) => Released(w)
        /\ OneLine(w) => h.decided = Line(h, h.b_exec)
        /\ \A m \in Known(h) : Decides(h, m) => Decides(w, m)
    BY <1>6, <1>8, <2>1, <2>3, CommitSound
  <2>6. Decides(w, n)
    <3>1. b \in w.decided
      BY <1>1, <2>3, Ancestors DEF Kept
    <3>2. QcRef(w, n) = b2 /\ QcRef(w, b2) = b1 /\ QcRef(w, b1) = b
      BY <1>6, <2>3 DEF QcRef, b2, b1, b
    <3> QED BY <3>1, <3>2 DEF Decides
  <2>7. Updated(w)
    <3>1. Known(w) = Known(t)
      BY <1>6, <2>3 DEF Known
    <3> QED BY <1>8, <1>9, <2>5, <2>6, <3>1 DEF Updated
  <2>8. Grows(t, w)
    <3>1. h.decided \subseteq Known(h)
      BY <1>6 DEF Kept, Ledger
    <3> QED BY <1>6, <1>8, <2>3, <2>5, <3>1, GrowsTrans
  <2>9. w.blocks = t.blocks /\ w.certified = t.certified /\ SamePromises(t, w) /\ w.qc_waiting = t.qc_waiting
        /\ SameRole(t, w)
    BY <1>6, <2>3 DEF SamePromises, SameRole
  <2>10. b2 = t.hqc => w.hqc = t.hqc /\ w.tail = t.tail
    BY <1>7, <2>3
  <2>11. CASE blk \notin Queue(t, b)
    BY <1>4, <1>6, <1>12, <2>4, <2>5, <2>7, <2>8, <2>9, <2>10, <2>11 DEF Sound, b2
  <2>12. CASE blk \in Queue(t, b)
    <3> DEFINE u == StopRotate(w)
    <3>1. /\ u \in States /\ SameCore(w, u) /\ ~u.rotating
          /\ u.proposer = w.proposer /\ u.prop_blk = w.prop_blk /\ u.since = w.since /\ u.late = w.late
          /\ Waits(u) /\ Locks(u) /\ Released(u) /\ SamePromises(w, u)
          /\ \A c \in Places(w) : w.qc_waiting[c].state = "none" => u.qc_waiting[c] = w.qc_waiting[c]
      BY <2>3, <2>5, StopRotateSound DEF Kept
    <3>2. Update(t, n) = u
      BY <1>4, <1>12, <2>4, <2>12
    <3> HIDE DEF u
    <3>3. Places(u) = Places(t) /\ Known(u) = Known(t) /\ Places(w) = Places(t) /\ Known(w) = Known(t)
          /\ \A c : By(u, c) = By(w, c) /\ Up(u, c) = Up(w, c) /\ QcRef(u, c) = QcRef(w, c) /\ Line(u, c) = Line(w, c)
      BY <2>9, <3>1 DEF SameCore, Places, Known, By, Up, QcRef, Line
    <3>4. Lines(u)
      BY <2>5, <3>3 DEF Kept, Lines
    <3>5. OneLine(u) = OneLine(w)
      BY <3>1, <3>3 DEF OneLine, SameCore
    <3>6. Ledger(u)
      BY <2>5, <3>1, <3>3, <3>5 DEF Kept, Ledger, SameCore
    <3>7. Noted(u)
      BY <2>5, <3>1, <3>3 DEF Kept, Noted, SameCore
    <3>8. Linked(u)
      BY <2>5, <3>1, <3>3 DEF Kept, Linked, SameCore
    <3>9. Updated(u)
      BY <2>7, <3>1, <3>3 DEF Updated, Decides, SameCore
    <3>10. Prefix(t, u) /\ t.decided \subseteq u.decided
      BY <2>8, <2>9, <3>1 DEF Grows, Prefix, SameCore
    <3>11. ASSUME OneLine(u)
           PROVE  \E c \in u.decided \ t.decided : By(u, c) = t.proposer /\ c > t.since
      <4>1. t.decided = Line(t, t.b_exec)
        BY <1>6, <1>8, <2>5, <3>5, <3>11
      <4>2. blk \in Line(t, b) /\ blk \notin t.decided
        BY <2>12, <4>1 DEF Queue
      <4>3. blk \in u.decided
        BY <2>3, <3>1, <4>2 DEF SameCore
      <4>4. t.proposer \in Replicas /\ blk # Null
        BY <2>2, <4>2, StateTypes DEF Null
      <4>5. By(t, blk) = t.proposer /\ blk > t.since
        BY <4>4 DEF Kept, Noted
      <4>6. By(u, blk) = By(t, blk)
        BY <2>9, <3>3 DEF By
      <4> QED BY <4>2, <4>3, <4>5, <4>6
    <3>12. Grows(t, u)
      BY <2>9, <3>1, <3>10, <3>11 DEF Grows, Ends, SameRole
    <3>13. u.blocks = t.blocks /\ u.certified = t.certified /\ SamePromises(t, u)
           /\ (\A c \in Places(t) : t.qc_waiting[c].state = "none" => u.qc_waiting[c] = t.qc_waiting[c])
           /\ (b2 = t.hqc => u.hqc = t.hqc /\ u.tail = t.tail)
      BY <2>9, <2>10, <3>1, <3>3 DEF SameCore, SamePromises
    <3> QED BY <3>1, <3>2, <3>4, <3>6, <3>7, <3>8, <3>9, <3>12, <3>13 DEF Sound, Kept, b2
  <2> QED BY <2>11, <2>12
<1> QED BY <1>10, <1>11, <1>12
-----------------------------------------------------------------------------
(* Proposals.                                                              *)

(* What a proposal or a callback may find                                  *)
Due(t) == t.proposer = Id \/ t.late

(* An empty block proposed on the one before it has its certificate        *)
MayLink(t, x) ==
    LET n == Len(t.blocks) IN
    x >= 1 /\ t.tail = n /\ n # b0 => t.blocks[n].x # x - 1 \/ t.hqc = n

LEMMA ProposeSound ==
    ASSUME NEW t \in States, Sound(t), Due(t), NEW x \in -1 .. 3, MayLink(t, x)
    PROVE  LET u == Propose(t, x)
               n == Len(t.blocks) + 1
           IN
           /\ Sound(u) /\ Released(u) /\ Grows(t, u)
           /\ Len(u.blocks) = n /\ u.blocks[n].x = x /\ u.certified = t.certified
           /\ u.pm_qc_manual = t.pm_qc_manual
           /\ u.qc_waiting[n].state # "rejected"
           /\ ~u.rotating => u.last_proposed = n
<1> DEFINE n == Len(t.blocks) + 1
           a == AddBlock(t, Id, x, t.tail, t.hqc)
           c == Update(a, n)
           f == FirstBlock(c, n)
           g == [f EXCEPT !.tail = n]
           u == UpdateLastProposed(g, n)
<1>1. Propose(t, x) = u
  BY DEF Propose
<1>2. Kept(t) /\ Lines(t) /\ Ledger(t) /\ Noted(t) /\ Waits(t) /\ Len(t.blocks) \in Nat /\ t.since \in Nat
  BY StateTypes DEF Sound, Kept
<1>3. Id \in Replicas /\ x \in -2 .. 3 /\ t.tail \in Known(t) /\ t.hqc \in Line(t, t.tail)
  BY <1>2, RoundRobinAssumption DEF Replicas, Ledger
<1>4. /\ a \in States /\ Len(a.blocks) = n /\ Prefix(t, a)
      /\ a.certified = t.certified /\ a.hqc = t.hqc /\ a.tail = t.tail
      /\ SameRole(t, a) /\ SamePromises(t, a)
      /\ By(a, n) = Id /\ a.blocks[n].x = x /\ QcRef(a, n) = t.hqc
      /\ Line(a, n) = Line(t, t.tail) \cup {n}
      /\ a.qc_waiting[n] = NoPromise
  <2>1. Lines(t) /\ Waits(t)
    BY <1>2
  <2>2. ASSUME NEW up \in Known(t), NEW q \in Line(t, up)
        PROVE  LET v == AddBlock(t, Id, x, up, q) IN
               /\ v \in States /\ Len(v.blocks) = n /\ Prefix(t, v)
               /\ v.certified = t.certified /\ v.hqc = t.hqc /\ v.tail = t.tail /\ v.b_exec = t.b_exec
               /\ v.decided = t.decided
               /\ SameRole(t, v) /\ SameBeat(t, v) /\ SamePromises(t, v)
               /\ By(v, n) = Id /\ v.blocks[n].x = x /\ Up(v, n) = up /\ QcRef(v, n) = q
               /\ Line(v, n) = Line(t, up) \cup {n}
               /\ Len(v.qc_waiting) = n /\ v.qc_waiting[n] = NoPromise
               /\ \A b \in Places(t) : v.qc_waiting[b] = t.qc_waiting[b]
    <3>1. Id \in Replicas /\ x \in -2 .. 3
      BY <1>3
    <3> QED BY <2>1, <3>1, AddBlockFields
  <2> QED BY <1>3, <2>2
<1>5. /\ Lines(a) /\ Ledger(a) /\ Noted(a) /\ Waits(a) /\ Locks(a) /\ Linked(a)
      /\ Grows(t, a)
      /\ \A m \in Known(t) : Decides(a, m)
  BY <1>3, AddBlockSound DEF MayLink
<1> HIDE DEF a
<1>6. Kept(a) /\ n \in Known(a) /\ n \in Places(a) /\ Known(a) \ {n} \subseteq Known(t)
  BY <1>2, <1>4, <1>5 DEF Kept, Known, Places
<1>7. /\ Sound(c) /\ Grows(a, c)
      /\ c.blocks = a.blocks /\ c.certified = a.certified /\ SamePromises(a, c)
      /\ \A m \in Places(a) : a.qc_waiting[m].state = "none" => c.qc_waiting[m] = a.qc_waiting[m]
      /\ QcRef(a, n) = a.hqc => c.hqc = a.hqc /\ c.tail = a.tail
  BY <1>4, <1>5, <1>6, UpdateSound
<1> HIDE DEF c
<1>8. c \in States /\ Kept(c) /\ n \in Places(c) /\ n > c.since
  BY <1>2, <1>4, <1>6, <1>7 DEF Sound, Kept, Places, Grows, SameRole, Noted
<1>9. /\ Kept(f) /\ SameCore(c, f)
      /\ f.rotating = c.rotating /\ f.proposer = c.proposer /\ f.since = c.since /\ f.late = c.late
      /\ SameBeat(c, f) /\ SamePromises(c, f) /\ f.qc_waiting = c.qc_waiting
      /\ Updated(c) => Updated(f)
      /\ Grows(c, f)
  BY <1>8, FirstBlockSound
<1> HIDE DEF f
<1>10. f \in States /\ n \in Known(f) /\ n \in Places(f) /\ f.blocks = a.blocks /\ f.hqc = t.hqc /\ n \in Nat
       /\ f.certified = t.certified
  BY <1>2, <1>4, <1>6, <1>7, <1>9 DEF Kept, SameCore, Known, Places
<1>11. /\ g \in States /\ g.blocks = f.blocks /\ g.b_exec = f.b_exec /\ g.decided = f.decided
       /\ g.qc_waiting = f.qc_waiting /\ g.certified = f.certified /\ g.hqc = f.hqc /\ g.tail = n
       /\ SameRole(f, g) /\ SameBeat(f, g) /\ SamePromises(f, g)
  BY <1>10 DEF States, SameRole, SameBeat, SamePromises
<1> HIDE DEF g
<1>12. Line(f, n) = Line(t, t.tail) \cup {n} /\ By(f, n) = Id /\ By(g, n) = Id
  BY <1>4, <1>10, <1>11 DEF Line, By
<1>13. /\ Kept(g) /\ Grows(f, g)
       /\ Updated(f) => Updated(g)
       /\ Places(g) = Places(f) /\ Known(g) = Known(f)
  <2>1. g.hqc \in Known(f) /\ g.tail \in Known(f) /\ g.hqc \in Line(f, g.tail)
    BY <1>3, <1>9, <1>10, <1>11, <1>12 DEF Kept, Ledger
  <2>2. g.certified \subseteq Places(f) /\ \A b \in g.certified : By(f, b) = Id
    BY <1>9, <1>11 DEF Kept, Ledger
  <2> QED BY <1>9, <1>10, <1>11, <2>1, <2>2, KeptMoves
<1>14. g.qc_waiting[n].state = "none" /\ n # g.pm_qc_finish /\ g.pm_qc_manual = t.pm_qc_manual
  <2>1. a.qc_waiting[n].state = "none"
    BY <1>4 DEF NoPromise
  <2>2. n # t.pm_qc_finish
    BY <1>2 DEF Waits, Places, Null
  <2> QED BY <1>4, <1>6, <1>7, <1>9, <1>11, <2>1, <2>2 DEF SamePromises
<1>15. Due(g)
  BY <1>5, <1>7, <1>9, <1>11 DEF Due, Grows, SameRole
<1>16. /\ u \in States /\ SameCore(g, u) /\ SameRole(g, u)
       /\ Waits(u) /\ Locks(u) /\ Released(u)
       /\ u.pm_qc_manual = g.pm_qc_manual
       /\ ~g.rotating => u.last_proposed = n
       /\ u.qc_waiting[n].state # "rejected"
  BY <1>10, <1>11, <1>12, <1>13, <1>14, <1>15, UpdateLastProposedSound DEF Kept, Due
<1> HIDE DEF u
<1>17. Sound(u) /\ Grows(g, u)
  BY <1>7, <1>9, <1>11, <1>13, <1>16, SameParts DEF Sound, Kept
<1>18. Grows(t, u)
  <2>1. a.decided \subseteq Known(a) /\ c.decided \subseteq Known(c) /\ f.decided \subseteq Known(f) /\ g.decided \subseteq Known(g)
    BY <1>5, <1>7, <1>9, <1>13 DEF Sound, Kept, Ledger
  <2>2. Grows(t, c)
    BY <1>4, <1>5, <1>7, <1>8, <2>1, GrowsTrans
  <2>3. Grows(t, f)
    BY <1>8, <1>9, <1>10, <2>1, <2>2, GrowsTrans
  <2>4. Grows(t, g)
    BY <1>10, <1>11, <1>13, <2>1, <2>3, GrowsTrans
  <2> QED BY <1>11, <1>16, <1>17, <2>1, <2>4, GrowsTrans
<1>19. Len(u.blocks) = n /\ u.blocks[n].x = x /\ u.certified = t.certified
  BY <1>4, <1>10, <1>11, <1>16 DEF SameCore
<1> QED BY <1>1, <1>14, <1>16, <1>17, <1>18, <1>19 DEF SameRole
LEMMA ProposeBatchSound ==
    ASSUME NEW t \in States, Sound(t), Due(t)
    PROVE  LET u == ProposeBatch(t) IN
           /\ Sound(u) /\ Grows(t, u)
           /\ t.proposer = Id \/ Released(t) => Released(u)
           /\ Latest(t) => Latest(u)
           /\ u # t => Len(u.blocks) > Len(t.blocks) /\ u.blocks[Len(u.blocks)].x < 0
           /\ u.certified = t.certified
<1>1. CASE t.proposer # Id
  <2>1. ProposeBatch(t) = t
    BY <1>1 DEF ProposeBatch
  <2>2. Grows(t, t)
    BY SameParts DEF SameCore, SameRole
  <2> QED BY <1>1, <2>1, <2>2
<1>2. CASE t.proposer = Id
  <2> DEFINE u == Propose(t, Batch)
             n == Len(t.blocks) + 1
  <2>1. Batch \in -1 .. 3 /\ MayLink(t, Batch)
    BY DEF Batch, MayLink
  <2>2. /\ Sound(u) /\ Released(u) /\ Grows(t, u)
        /\ Len(u.blocks) = n /\ u.blocks[n].x = Batch /\ u.certified = t.certified
        /\ u.pm_qc_manual = t.pm_qc_manual
    BY <2>1, ProposeSound
  <2> HIDE DEF u
  <2>3. Len(t.blocks) \in Nat
    BY StateTypes
  <2>4. Latest(t) => Latest(u)
    <3>1. Places(u) = Places(t) \cup {n} /\ u.blocks[n].x < 0
      BY <2>2, <2>3 DEF Places, Batch
    <3>2. \A c \in Places(t) : u.blocks[c] = t.blocks[c]
      BY <2>2 DEF Grows, Prefix
    <3> QED BY <2>2, <3>1, <3>2 DEF Latest
  <2>5. ProposeBatch(t) = u
    BY <1>2 DEF ProposeBatch, u
  <2> QED BY <2>2, <2>3, <2>4, <2>5 DEF Batch
<1> QED BY <1>1, <1>2

LEMMA DoNewConsensusSound ==
    ASSUME NEW t \in States, Sound(t), Due(t), NEW x \in 0 .. 3, MayLink(t, x)
    PROVE  LET u == do_new_consensus(t, x) IN
           /\ Sound(u) /\ Released(u) /\ Grows(t, u)
           /\ Latest(u) /\ Elects(u)
           /\ Len(u.blocks) > Len(t.blocks)
           /\ u.certified = t.certified
<1> DEFINE n == Len(t.blocks) + 1
           p == Propose(t, x)
           r == Reject(p, p.pm_qc_manual)
           w == Wait(r, n, x)
           u == [w EXCEPT !.pm_qc_manual = n]
<1>1. do_new_consensus(t, x) = u
  BY DEF do_new_consensus
<1>2. /\ Sound(p) /\ Released(p) /\ Grows(t, p)
      /\ Len(p.blocks) = n /\ p.blocks[n].x = x /\ p.certified = t.certified
      /\ p.pm_qc_manual = t.pm_qc_manual
      /\ p.qc_waiting[n].state # "rejected"
      /\ ~p.rotating => p.last_proposed = n
  <2>1. x \in -1 .. 3
    OBVIOUS
  <2> QED BY <2>1, ProposeSound
<1> HIDE DEF p
<1>3. Len(t.blocks) \in Nat /\ n \in Nat /\ n \in Places(p) /\ p \in States /\ Waits(p) /\ Locks(p)
      /\ n \notin Places(t)
  BY <1>2, StateTypes DEF Sound, Kept, Places
<1>4. p.pm_qc_manual \in {Null} \cup Places(p) /\ p.pm_qc_manual # n
  BY <1>2, <1>3 DEF Waits, Sound, Kept, Places, Null
<1>5. /\ r \in States /\ Waits(r)
      /\ SameCore(p, r) /\ SameRole(p, r) /\ SameBeat(p, r) /\ SamePromises(p, r)
      /\ r.pending_beats = p.pending_beats
      /\ p.pm_qc_manual # Null => WaitersOf(r, p.pm_qc_manual) = <<>>
      /\ \A c \in Places(p) : c # p.pm_qc_manual => r.qc_waiting[c] = p.qc_waiting[c]
      /\ \A c \in Places(p) : WaitersOf(r, c) = WaitersOf(p, c) \/ WaitersOf(r, c) = <<>>
      /\ \A c \in Places(p) : p.qc_waiting[c].state = "none" => r.qc_waiting[c] = p.qc_waiting[c]
  BY <1>3, <1>4, RejectWaits
<1> HIDE DEF r
<1>6. Places(r) = Places(p) /\ r.qc_waiting[n] = p.qc_waiting[n] /\ x \in -1 .. 3
  BY <1>3, <1>4, <1>5 DEF SameCore, Places
<1>7. /\ w \in States
      /\ SameCore(r, w) /\ SameRole(r, w) /\ SameBeat(r, w) /\ SamePromises(r, w)
      /\ w.pending_beats = r.pending_beats
      /\ Len(w.qc_waiting) = Len(r.qc_waiting)
      /\ \A c \in Places(r) : c # n => w.qc_waiting[c] = r.qc_waiting[c]
      /\ r.qc_waiting[n].state = "rejected" => w = r
      /\ r.qc_waiting[n].state # "rejected" =>
           w.qc_waiting[n].state = "pending" /\ WaitersOf(w, n) = Append(WaitersOf(r, n), x)
  <2>1. n \in Places(r)
    BY <1>3, <1>6
  <2> HIDE DEF n
  <2> QED BY <1>5, <1>6, <2>1, WaitFields
<1> HIDE DEF w
<1>8. /\ u \in States /\ SameCore(w, u) /\ SameRole(w, u) /\ SameBeat(w, u)
      /\ u.pm_qc_finish = w.pm_qc_finish /\ u.pm_qc_manual = n /\ u.qc_waiting = w.qc_waiting
  BY <1>3, <1>7 DEF States, SameCore, SameRole, SameBeat
<1> HIDE DEF u
<1>9. SameCore(p, u) /\ SameRole(p, u) /\ SameBeat(p, u) /\ u.pm_qc_finish = p.pm_qc_finish
      /\ Len(u.qc_waiting) = Len(p.qc_waiting)
  BY <1>3, <1>5, <1>7, <1>8 DEF SameCore, SameRole, SameBeat, SamePromises, Waits
<1>10. /\ \A c \in Places(p) \ {n} : u.qc_waiting[c] = r.qc_waiting[c] /\ WaitersOf(u, c) = WaitersOf(r, c)
       /\ u.qc_waiting[n].state = "pending" /\ WaitersOf(u, n) = Append(WaitersOf(p, n), x)
       /\ WaitersOf(r, n) = WaitersOf(p, n)
  BY <1>2, <1>6, <1>7, <1>8 DEF WaitersOf
<1>11. \A c \in Places(p) : \A i \in DOMAIN WaitersOf(r, c) : WaitersOf(r, c)[i] = Batch
  BY <1>4, <1>5, <1>6 DEF Waits, SamePromises, Places, Null
<1>12. WaitersOf(p, n) \in Seq(-1 .. 3)
  BY <1>3, PromiseTyped
<1>13. DOMAIN WaitersOf(u, n) = 1 .. Len(WaitersOf(p, n)) + 1
       /\ (\A i \in DOMAIN WaitersOf(p, n) : WaitersOf(u, n)[i] = WaitersOf(p, n)[i])
       /\ WaitersOf(u, n)[Len(WaitersOf(p, n)) + 1] = x
       /\ DOMAIN WaitersOf(p, n) = 1 .. Len(WaitersOf(p, n)) /\ Len(WaitersOf(p, n)) \in Nat
  BY <1>10, <1>12
<1>14. Places(u) = Places(p) /\ x # Batch
  BY <1>9 DEF SameCore, Places, Batch
<1>15. Waits(u)
  <2>1. Len(u.qc_waiting) = Len(u.blocks)
        /\ u.pm_qc_finish \in {Null} \cup Places(u) /\ u.pm_qc_manual \in {Null} \cup Places(u)
    BY <1>3, <1>8, <1>9, <1>14 DEF Waits, SameCore
  <2>2. Due(u)
    BY <1>2, <1>9 DEF Due, Grows, SameRole
  <2>3. \A c \in Places(u) : WaitersOf(u, c) # <<>> => u.qc_waiting[c].state = "pending"
    BY <1>5, <1>6, <1>10, <1>14 DEF Waits
  <2>4. ASSUME NEW c \in Places(u), NEW i \in DOMAIN WaitersOf(u, c)
        PROVE  /\ WaitersOf(u, c)[i] = Batch => c = u.pm_qc_finish /\ ~u.rotating
               /\ WaitersOf(u, c)[i] # Batch => c = u.pm_qc_manual /\ WaitersOf(u, c)[i] = u.blocks[c].x
               /\ \A j \in DOMAIN WaitersOf(u, c) :
                   (WaitersOf(u, c)[i] = Batch <=> WaitersOf(u, c)[j] = Batch) => i = j
    <3>1. u.rotating = r.rotating /\ u.blocks = p.blocks /\ r.pm_qc_finish = u.pm_qc_finish
      BY <1>5, <1>9 DEF SameRole, SameCore, SamePromises
    <3>2. CASE c # n
      BY <1>5, <1>6, <1>10, <1>11, <1>14, <3>1, <3>2 DEF Waits
    <3>3. CASE c = n
      <4>1. \A j \in DOMAIN WaitersOf(p, n) : WaitersOf(p, n)[j] = Batch /\ n = r.pm_qc_finish /\ ~r.rotating
        BY <1>3, <1>5, <1>6, <1>10, <1>11 DEF Waits
      <4>2. \A j, k \in DOMAIN WaitersOf(p, n) : j = k
        BY <1>3, <1>10, <1>11 DEF Waits
      <4> HIDE DEF n
      <4> QED BY <1>2, <1>8, <1>13, <1>14, <3>1, <3>3, <4>1, <4>2
    <3> QED BY <3>2, <3>3
  <2> QED BY <2>1, <2>2, <2>3, <2>4 DEF Waits, Due
<1>16. Locks(u)
  <2>1. Known(u) = Known(p) /\ \A c : By(u, c) = By(p, c)
    BY <1>9 DEF SameCore, Known, By
  <2>2. ~u.rotating => u.last_proposed = n
    BY <1>2, <1>9 DEF SameRole, SameBeat
  <2> QED BY <1>3, <1>9, <1>10, <2>1, <2>2 DEF Locks, SameRole, SameBeat
<1>17. Released(u)
  <2>1. ~u.rotating => u.last_proposed = n
    BY <1>2, <1>9 DEF SameRole, SameBeat
  <2>2. BatchWaits(p, n) => BatchWaits(u, n)
    BY <1>13 DEF BatchWaits
  <2> QED BY <1>2, <1>9, <2>1, <2>2 DEF Released, SameRole, SameBeat
<1>18. Sound(u) /\ Grows(p, u)
  BY <1>2, <1>3, <1>8, <1>9, <1>15, <1>16, SameParts DEF Sound, Kept
<1>19. Grows(t, u)
  <2>1. p.decided \subseteq Known(p)
    BY <1>2 DEF Sound, Kept, Ledger
  <2> QED BY <1>2, <1>3, <1>8, <1>18, <2>1, GrowsTrans
<1>20. Len(u.blocks) = n /\ u.blocks[n].x = x /\ u.certified = t.certified
  BY <1>2, <1>9 DEF SameCore
<1>21. Latest(u)
  BY <1>3, <1>8, <1>20 DEF Latest, Places
<1>22. Elects(u)
  <2>1. n \notin t.certified
    BY <1>3 DEF Sound, Kept, Ledger
  <2>2. \E i \in DOMAIN WaitersOf(u, n) : WaitersOf(u, n)[i] # Batch
    BY <1>13, <1>14
  <2> QED BY <1>20, <2>1, <2>2 DEF Elects, Electing
<1> QED BY <1>1, <1>3, <1>17, <1>18, <1>19, <1>20, <1>21, <1>22
-----------------------------------------------------------------------------
(* The callbacks of a promise, one after the other: a batch that was among *)
(* them unlocks, and the empty block after b is proposed on b or links to  *)
(* nothing.                                                                *)
Ready(t, b) ==
    \/ Len(t.blocks) = b /\ (t.tail = b => t.hqc = b)
    \/ Len(t.blocks) > b /\ t.blocks[Len(t.blocks)].x < 0

Callbacks(t, b, ws) ==
    /\ b \in Places(t) /\ ws \in Seq(-1 .. 3)
    /\ ws # <<>> => Due(t)
    /\ \A i \in DOMAIN ws :
        /\ ws[i] # Batch => ws[i] = t.blocks[b].x
        /\ \A j \in DOMAIN ws : (ws[i] = Batch <=> ws[j] = Batch) => i = j

Running(t, b, ws, v, k) ==
    /\ Sound(v) /\ Grows(t, v) /\ Latest(v) /\ v.certified = t.certified
    /\ Released(v) \/ \E i \in k + 1 .. Len(ws) : ws[i] = Batch
    /\ \A i \in k + 1 .. Len(ws) : ws[i] # Batch => Ready(v, b)
    /\ Elects(v) \/ (Len(v.blocks) = b /\ \E i \in k + 1 .. Len(ws) : ws[i] # Batch)

LEMMA RunWaiterSound ==
    ASSUME NEW t \in States, NEW b, NEW ws, Callbacks(t, b, ws), t.decided \subseteq Known(t),
           NEW k \in 0 .. Len(ws) - 1, NEW v \in States, Running(t, b, ws, v, k)
    PROVE  Running(t, b, ws, RunWaiter(v, ws[k + 1]), k + 1)
<1> DEFINE w == ws[k + 1]
           u == RunWaiter(v, w)
<1>1. ws \in Seq(-1 .. 3) /\ Len(ws) \in Nat /\ k + 1 \in DOMAIN ws /\ w \in -1 .. 3 /\ DOMAIN ws = 1 .. Len(ws)
      /\ k \in Nat /\ ws # <<>>
  BY DEF Callbacks
<1>2. Sound(v) /\ Grows(t, v) /\ Latest(v) /\ v.certified = t.certified /\ v.decided \subseteq Known(v)
  BY DEF Running, Sound, Kept, Ledger
<1>3. Due(v)
  BY <1>1, <1>2 DEF Callbacks, Due, Grows
<1>4. Len(t.blocks) \in Nat /\ Len(v.blocks) \in Nat /\ b \in Nat /\ b <= Len(v.blocks) /\ v.blocks[b] = t.blocks[b]
  BY <1>2, StateTypes DEF Callbacks, Places, Grows, Prefix
<1>5. k + 1 .. Len(ws) = {k + 1} \cup k + 1 + 1 .. Len(ws)
  BY <1>1
<1>6. CASE w = Batch
  <2>1. u = ProposeBatch(v)
    BY <1>6 DEF RunWaiter, Batch, LastManual
  <2>2. /\ Sound(u) /\ Grows(v, u)
        /\ v.proposer = Id \/ Released(v) => Released(u)
        /\ Latest(v) => Latest(u)
        /\ u # v => Len(u.blocks) > Len(v.blocks) /\ u.blocks[Len(u.blocks)].x < 0
        /\ u.certified = v.certified
    BY <1>2, <1>3, <2>1, ProposeBatchSound
  <2> HIDE DEF u, w
  <2>3. Grows(t, u) /\ u \in States /\ Len(u.blocks) \in Nat
    BY <1>2, <2>2, GrowsTrans, StateTypes DEF Sound, Kept
  <2>4. Released(u)
    <3>1. v.proposer # Id => v.late
      BY <1>3 DEF Due
    <3>2. v.late => u.late
      BY <2>2 DEF Grows
    <3> QED BY <2>2, <3>1, <3>2 DEF Released
  <2>5. ASSUME NEW i \in k + 1 + 1 .. Len(ws), ws[i] # Batch
        PROVE  Ready(u, b)
    <3>1. Ready(v, b)
      BY <1>5, <2>5 DEF Running
    <3> QED BY <1>4, <2>2, <2>3, <3>1 DEF Ready
  <2>6. Elects(u) \/ (Len(u.blocks) = b /\ \E i \in k + 1 + 1 .. Len(ws) : ws[i] # Batch)
    <3>1. CASE u = v
      BY <1>5, <1>6, <3>1 DEF Running, w
    <3>2. CASE u # v
      BY <2>2, <3>2 DEF Elects, Electing
    <3> QED BY <3>1, <3>2
  <2> QED BY <1>2, <2>2, <2>3, <2>4, <2>5, <2>6 DEF Running, u, w
<1>7. ASSUME w # Batch
      PROVE  \A i \in k + 1 + 1 .. Len(ws) : ws[i] = Batch
  <2>1. \A i \in k + 1 + 1 .. Len(ws) : i \in DOMAIN ws /\ i # k + 1
    BY <1>1
  <2> QED BY <1>1, <1>7, <2>1 DEF Callbacks
<1>8. CASE w # Batch /\ w >= LastManual
  <2>1. u = v
    BY <1>8 DEF RunWaiter
  <2>2. Released(v) \/ \E i \in k + 1 + 1 .. Len(ws) : ws[i] = Batch
    BY <1>5, <1>8 DEF Running
  <2>3. Elects(v)
    <3>1. CASE Elects(v)
      BY <3>1
    <3>2. CASE Len(v.blocks) = b
      <4>1. v.blocks[b].x = w
        BY <1>1, <1>4, <1>8 DEF Callbacks
      <4> QED BY <1>1, <1>8, <3>2, <4>1 DEF Elects, Electing, LastManual
    <3> QED BY <3>1, <3>2 DEF Running
  <2> QED BY <1>2, <1>7, <1>8, <2>1, <2>2, <2>3 DEF Running
<1>9. CASE w # Batch /\ ~(w >= LastManual)
  <2>1. u = do_new_consensus(v, w + 1) /\ w \in 0 .. 2
    BY <1>1, <1>9 DEF RunWaiter, Batch, LastManual
  <2>2. MayLink(v, w + 1)
    <3>1. Ready(v, b)
      BY <1>5, <1>9 DEF Running
    <3>2. v.blocks[Len(v.blocks)].x < 0 => v.blocks[Len(v.blocks)].x # w
      BY <2>1
    <3> QED BY <1>4, <3>1, <3>2, <2>1 DEF MayLink, Ready
  <2>3. w + 1 \in 0 .. 3
    BY <2>1
  <2> HIDE DEF w
  <2>4. /\ Sound(u) /\ Released(u) /\ Grows(v, u)
        /\ Latest(u) /\ Elects(u)
        /\ u.certified = v.certified
    BY <1>2, <1>3, <2>1, <2>2, <2>3, DoNewConsensusSound
  <2> HIDE DEF u
  <2>5. Grows(t, u)
    BY <1>2, <2>4, GrowsTrans DEF Sound, Kept
  <2> QED BY <1>2, <1>7, <1>9, <2>4, <2>5 DEF Running, u, w
<1> QED BY <1>6, <1>8, <1>9
(* At most a batch and an empty block wait for a promise, so the recursion *)
(* of RunWaiters ends after two callbacks.                                 *)
LEMMA TwoCallbacks ==
    ASSUME NEW t, NEW b, NEW ws, Callbacks(t, b, ws)
    PROVE  Len(ws) \in 0 .. 2
<1>1. ws \in Seq(-1 .. 3) /\ Len(ws) \in Nat /\ DOMAIN ws = 1 .. Len(ws)
  BY DEF Callbacks
<1>2. ASSUME Len(ws) > 2
      PROVE  FALSE
  <2>1. {1, 2, 3} \subseteq DOMAIN ws
    BY <1>1, <1>2
  <2> QED BY <2>1 DEF Callbacks
<1> QED BY <1>1, <1>2

LEMMA RunsWaiters ==
    ASSUME NEW t, NEW ws \in Seq(-1 .. 3), Len(ws) \in 0 .. 2
    PROVE  RunWaiters(t, ws) =
             IF Len(ws) = 0 THEN t
             ELSE IF Len(ws) = 1 THEN RunWaiter(t, ws[1])
             ELSE RunWaiter(RunWaiter(t, ws[1]), ws[2])
<1> DEFINE Run(g) == g = [k \in 0 .. Len(ws) |-> IF k = 0 THEN t ELSE RunWaiter(g[k - 1], ws[k])]
           r1 == RunWaiter(t, ws[1])
           r2 == RunWaiter(r1, ws[2])
           run == CHOOSE g : Run(g)
           g0 == [k \in 0 .. Len(ws) |-> IF k = 0 THEN t ELSE IF k = 1 THEN r1 ELSE r2]
<1>0. (Len(ws) = 0 \/ Len(ws) = 1 \/ Len(ws) = 2)
      /\ \A k \in 0 .. Len(ws) : k = 0 \/ k = 1 \/ k = 2
  <2> DEFINE n == Len(ws)
  <2>1. n \in 0 .. 2
    OBVIOUS
  <2> HIDE DEF n
  <2>2. (n = 0 \/ n = 1 \/ n = 2) /\ \A k \in 0 .. n : k = 0 \/ k = 1 \/ k = 2
    BY <2>1
  <2> QED BY <2>2 DEF n
<1>1. RunWaiters(t, ws) = run[Len(ws)]
  BY DEF RunWaiters
<1>2. Run(g0)
  <2> HIDE DEF r1, r2
  <2>1. ASSUME NEW k \in 0 .. Len(ws)
        PROVE  g0[k] = IF k = 0 THEN t ELSE RunWaiter(g0[k - 1], ws[k])
    <3>1. k = 0 \/ k = 1 \/ k = 2
      BY <1>0
    <3>2. CASE k = 0
      BY <3>2
    <3>3. CASE k = 1
      BY <3>3 DEF r1
    <3>4. CASE k = 2
      <4>1. g0[1] = r1 /\ g0[2] = r2
        BY <3>4
      <4> QED BY <3>4, <4>1 DEF r2
    <3> QED BY <3>1, <3>2, <3>3, <3>4
  <2>2. g0 = [k \in 0 .. Len(ws) |-> g0[k]]
    OBVIOUS
  <2> HIDE DEF g0
  <2> QED BY <2>1, <2>2
<1> HIDE DEF g0
<1>3. Run(run)
  <2> HIDE DEF Run
  <2> QED BY <1>2
<1> HIDE DEF run
<1>4. \A k \in 0 .. Len(ws) : run[k] = IF k = 0 THEN t ELSE RunWaiter(run[k - 1], ws[k])
  BY <1>3
<1>5. run[0] = t
  BY <1>4
<1>6. Len(ws) >= 1 => run[1] = r1
  BY <1>4, <1>5
<1>7. Len(ws) = 2 => run[2] = r2
  BY <1>4, <1>6
<1>8. run[Len(ws)] = IF Len(ws) = 0 THEN t ELSE IF Len(ws) = 1 THEN r1 ELSE r2
  <2> HIDE DEF r1, r2
  <2>1. CASE Len(ws) = 0
    BY <1>5, <2>1
  <2>2. CASE Len(ws) = 1
    BY <1>6, <2>2
  <2>3. CASE Len(ws) = 2
    BY <1>7, <2>3
  <2> QED BY <1>0, <2>1, <2>2, <2>3
<1> QED BY <1>1, <1>8

LEMMA RunWaitersSound ==
    ASSUME NEW t \in States, Sound(t), Latest(t), NEW b, NEW ws, Callbacks(t, b, ws),
           Released(t) \/ \E i \in DOMAIN ws : ws[i] = Batch,
           \A i \in DOMAIN ws : ws[i] # Batch => Ready(t, b),
           Elects(t) \/ (Len(t.blocks) = b /\ \E i \in DOMAIN ws : ws[i] # Batch)
    PROVE  LET u == RunWaiters(t, ws) IN
           /\ Sound(u) /\ Grows(t, u) /\ Latest(u) /\ Released(u) /\ Elects(u)
           /\ u.certified = t.certified
<1>1. ws \in Seq(-1 .. 3) /\ Len(ws) \in 0 .. 2 /\ DOMAIN ws = 1 .. Len(ws)
  BY TwoCallbacks DEF Callbacks
<1>2. Running(t, b, ws, t, 0)
  <2>1. Grows(t, t)
    BY SameParts DEF SameCore, SameRole
  <2>2. 0 + 1 .. Len(ws) = DOMAIN ws
    BY <1>1
  <2> QED BY <2>1, <2>2 DEF Running
<1>3. \A k \in 0 .. Len(ws) - 1 : \A v \in States :
        Running(t, b, ws, v, k) => Running(t, b, ws, RunWaiter(v, ws[k + 1]), k + 1)
  <2>1. t.decided \subseteq Known(t)
    BY DEF Sound, Kept, Ledger
  <2> QED BY <2>1, RunWaiterSound
<1>4. \A k, v : Running(t, b, ws, v, k) => v \in States
  BY DEF Running, Sound, Kept
<1> DEFINE r1 == RunWaiter(t, ws[1])
           r2 == RunWaiter(r1, ws[2])
<1>5. Len(ws) >= 1 => Running(t, b, ws, r1, 1)
  <2>1. Len(ws) >= 1 => 0 \in 0 .. Len(ws) - 1 /\ 0 + 1 = 1
    BY <1>1
  <2> QED BY <1>2, <1>3, <2>1
<1>6. Len(ws) = 2 => Running(t, b, ws, r2, 2)
  <2>1. Len(ws) = 2 => 1 \in 0 .. Len(ws) - 1 /\ 1 + 1 = 2
    BY <1>1
  <2> HIDE DEF r1
  <2> QED BY <1>3, <1>4, <1>5, <2>1
<1>7. RunWaiters(t, ws) = IF Len(ws) = 0 THEN t ELSE IF Len(ws) = 1 THEN r1 ELSE r2
  BY <1>1, RunsWaiters
<1> HIDE DEF r1, r2
<1>8. Running(t, b, ws, RunWaiters(t, ws), Len(ws))
  BY <1>1, <1>2, <1>5, <1>6, <1>7
<1>9. Len(ws) + 1 .. Len(ws) = {}
  BY <1>1
<1> QED BY <1>8, <1>9 DEF Running
(* The promise of b is settled, and b may have been certified just now     *)
ElectsBut(t, b) ==
    LET n == Len(t.blocks) IN
    Electing(t) => (n \notin t.certified \/ n = b)
                   /\ \E i \in DOMAIN WaitersOf(t, n) : WaitersOf(t, n)[i] # Batch

LEMMA QcFinishSound ==
    ASSUME NEW t \in States, Sound(t), Released(t), Latest(t), NEW b \in Known(t),
           b = Len(t.blocks) /\ t.tail = b => t.hqc = b, ElectsBut(t, b)
    PROVE  LET u == QcFinish(t, b) IN
           /\ Sound(u) /\ Grows(t, u) /\ Latest(u) /\ Released(u) /\ Elects(u)
           /\ u.certified = t.certified
<1>1. Len(t.blocks) \in Nat /\ t.since \in Nat
  BY StateTypes
<1>2. CASE b = b0
  <2>1. QcFinish(t, b) = t
    BY <1>2 DEF QcFinish
  <2>2. Elects(t)
    BY <1>1, <1>2 DEF Elects, ElectsBut, Electing, b0
  <2>3. Grows(t, t)
    BY SameParts DEF SameCore, SameRole
  <2> QED BY <2>1, <2>2, <2>3
<1>3. CASE b # b0
  <2> DEFINE ws == WaitersOf(t, b)
             finish == IF t.pm_qc_finish = b THEN Null ELSE t.pm_qc_finish
             manual == IF t.pm_qc_manual = b THEN Null ELSE t.pm_qc_manual
             q == [t EXCEPT !.qc_waiting[b] = NoPromise]
             c == [q EXCEPT !.pm_qc_finish = finish, !.pm_qc_manual = manual]
  <2>1. b \in Places(t) /\ b \in 1 .. Len(t.qc_waiting) /\ Waits(t) /\ Locks(t)
    BY <1>1, <1>3 DEF Known, Places, b0, Sound, Kept, Waits
  <2>2. NoPromise \in Promises /\ NoPromise.waiters = <<>> /\ NoPromise.state = "none"
    BY DEF NoPromise, Promises
  <2>3. /\ q \in States
        /\ SameCore(t, q) /\ SameRole(t, q) /\ SameBeat(t, q) /\ SamePromises(t, q)
        /\ q.pending_beats = t.pending_beats
        /\ Len(q.qc_waiting) = Len(t.qc_waiting)
        /\ q.qc_waiting[b] = NoPromise
        /\ \A m \in 1 .. Len(t.qc_waiting) : m # b => q.qc_waiting[m] = t.qc_waiting[m]
    BY <2>1, <2>2, WaitingFields
  <2>4. QcFinish(t, b) = RunWaiters(c, ws)
    BY <1>3 DEF QcFinish, WaitersOf
  <2> HIDE DEF q
  <2>5. finish \in Nat \cup {Null} /\ manual \in Nat \cup {Null}
    BY DEF States
  <2>6. finish \in {Null} \cup Places(t) /\ manual \in {Null} \cup Places(t)
        /\ finish # b /\ manual # b
        /\ (finish = Null \/ finish = t.pm_qc_finish) /\ (manual = Null \/ manual = t.pm_qc_manual)
        /\ (t.pm_qc_finish # b => finish = t.pm_qc_finish) /\ (t.pm_qc_manual # b => manual = t.pm_qc_manual)
    BY <1>1, <2>1 DEF Waits, Places, Null
  <2> HIDE DEF finish, manual
  <2>7. /\ c \in States /\ SameCore(q, c) /\ SameRole(q, c) /\ SameBeat(q, c)
        /\ c.pm_qc_finish = finish /\ c.pm_qc_manual = manual /\ c.qc_waiting = q.qc_waiting
    BY <2>3, <2>5 DEF States, SameCore, SameRole, SameBeat
  <2> HIDE DEF c
  <2>8. SameCore(t, c) /\ SameRole(t, c) /\ SameBeat(t, c) /\ Places(c) = Places(t) /\ Known(c) = Known(t)
    BY <2>3, <2>7 DEF SameCore, SameRole, SameBeat, Places, Known
  <2>9. /\ WaitersOf(c, b) = <<>> /\ c.qc_waiting[b].state = "none"
        /\ \A m \in Places(t) \ {b} : c.qc_waiting[m] = t.qc_waiting[m] /\ WaitersOf(c, m) = WaitersOf(t, m)
    BY <2>1, <2>2, <2>3, <2>7 DEF WaitersOf, Waits, Places
  <2>10. Waits(c)
    <3>1. Len(c.qc_waiting) = Len(c.blocks)
          /\ c.pm_qc_finish \in {Null} \cup Places(c) /\ c.pm_qc_manual \in {Null} \cup Places(c)
      BY <2>1, <2>3, <2>6, <2>7, <2>8 DEF Waits, SameCore
    <3>2. c.blocks = t.blocks /\ c.rotating = t.rotating /\ c.proposer = t.proposer /\ c.late = t.late
      BY <2>8 DEF SameCore, SameRole
    <3> QED BY <2>1, <2>6, <2>7, <2>8, <2>9, <3>1, <3>2 DEF Waits
  <2>11. Locks(c)
    <3>1. \A m : By(c, m) = By(t, m)
      BY <2>8 DEF SameCore, By
    <3>2. c.pm_qc_finish # c.last_proposed \/ c.pm_qc_finish = t.pm_qc_finish
      BY <1>1, <2>1, <2>6, <2>7, <2>8 DEF Locks, SameBeat, Known, Null
    <3>3. c.last_proposed # b0 => c.last_proposed \in Places(t)
      BY <1>1, <2>1, <2>8 DEF Locks, SameBeat, Known, Places, b0
    <3> QED BY <2>1, <2>8, <2>9, <3>1, <3>2, <3>3 DEF Locks, SameRole, SameBeat
  <2>12. Sound(c) /\ Grows(t, c)
    BY <2>7, <2>8, <2>10, <2>11, SameParts DEF Sound, Kept
  <2>13. Latest(c)
    BY <2>6, <2>7, <2>8 DEF Latest, SameCore
  <2>14. Callbacks(c, b, ws)
    <3>1. ws \in Seq(-1 .. 3)
      BY <2>1, PromiseTyped
    <3>2. ws # <<>> => Due(c)
      BY <2>1, <2>8 DEF Waits, Due, SameRole
    <3>3. c.blocks = t.blocks
      BY <2>8 DEF SameCore
    <3> QED BY <2>1, <2>8, <3>1, <3>2, <3>3 DEF Callbacks, Waits
  <2>15. Released(c) \/ \E i \in DOMAIN ws : ws[i] = Batch
    <3>1. CASE t.last_proposed = b
      BY <2>8, <3>1 DEF Released, BatchWaits, SameRole, SameBeat
    <3>2. CASE t.last_proposed # b
      <4>1. t.last_proposed # b0 => t.last_proposed \in Places(t) \ {b}
        BY <1>1, <2>1, <3>2 DEF Locks, Known, Places, b0
      <4> QED BY <2>8, <2>9, <4>1 DEF Released, BatchWaits, SameRole, SameBeat
    <3> QED BY <3>1, <3>2
  <2>16. ASSUME NEW i \in DOMAIN ws, ws[i] # Batch
         PROVE  Ready(c, b)
    <3>1. b = t.pm_qc_manual
      BY <2>1, <2>16 DEF Waits
    <3>2. \A m \in Places(t) : m > b => t.blocks[m].x < 0
      BY <2>1, <3>1 DEF Latest, Places, Null
    <3>3. Len(t.blocks) # b => Len(t.blocks) > b /\ Len(t.blocks) \in Places(t)
      BY <1>1, <2>1 DEF Places
    <3> QED BY <2>8, <3>2, <3>3 DEF Ready, SameCore
  <2>17. Elects(c) \/ (Len(c.blocks) = b /\ \E i \in DOMAIN ws : ws[i] # Batch)
    <3> DEFINE n == Len(t.blocks)
    <3>1. Electing(c) = Electing(t) /\ Len(c.blocks) = n /\ c.certified = t.certified
      BY <2>8 DEF Electing, SameCore, SameRole
    <3>2. CASE n = b
      BY <3>1, <3>2 DEF Elects, ElectsBut
    <3>3. CASE n # b
      <4>1. n > t.since => n \in Places(t) \ {b}
        BY <1>1, <3>3 DEF Places
      <4>2. Electing(t) => n > t.since
        BY DEF Electing
      <4> HIDE DEF n
      <4>3. Electing(t) => n \notin t.certified /\ \E i \in DOMAIN WaitersOf(t, n) : WaitersOf(t, n)[i] # Batch
        BY <3>3 DEF ElectsBut, n
      <4> QED BY <2>9, <3>1, <4>1, <4>2, <4>3 DEF Elects
    <3> QED BY <3>2, <3>3
  <2>18. /\ Sound(RunWaiters(c, ws)) /\ Grows(c, RunWaiters(c, ws)) /\ Latest(RunWaiters(c, ws))
         /\ Released(RunWaiters(c, ws)) /\ Elects(RunWaiters(c, ws))
         /\ RunWaiters(c, ws).certified = c.certified
    <3> HIDE DEF ws
    <3> QED BY <2>7, <2>12, <2>13, <2>14, <2>15, <2>16, <2>17, RunWaitersSound
  <2> HIDE DEF ws
  <2>19. Grows(t, RunWaiters(c, ws))
    BY <2>7, <2>12, <2>18, GrowsTrans DEF Sound, Kept, Ledger
  <2> QED BY <2>4, <2>8, <2>18, <2>19 DEF SameCore
<1> QED BY <1>2, <1>3
-----------------------------------------------------------------------------
(* The steps.                                                              *)
LEMMA SameElects ==
    ASSUME NEW t, NEW u, u.blocks = t.blocks, u.certified = t.certified, u.rotating = t.rotating,
           u.since = t.since, u.qc_waiting = t.qc_waiting, u.pm_qc_manual = t.pm_qc_manual
    PROVE  /\ Latest(t) => Latest(u)
           /\ Elects(t) => Elects(u)
<1>1. Latest(t) => Latest(u)
  BY DEF Latest, Places
<1>2. Electing(u) = Electing(t)
  BY DEF Electing
<1>3. Elects(t) => Elects(u)
  BY <1>2 DEF Elects, WaitersOf
<1> QED BY <1>1, <1>3

(* Timers, beats and calls are in no part of the invariant                 *)
LEMMA SameInvariants ==
    ASSUME NEW t \in States, Invariants(t), NEW u \in States,
           SameCore(t, u), SameRole(t, u), SameBeat(t, u), SamePromises(t, u), u.qc_waiting = t.qc_waiting
    PROVE  Invariants(u)
<1>1. Kept(t) /\ t.hqc \in Known(t) /\ t.tail \in Known(t) /\ t.hqc \in Line(t, t.tail)
      /\ t.certified \subseteq Places(t) /\ \A b \in t.certified : By(t, b) = Id
  BY DEF Invariants, Sound, Kept, Ledger
<1>2. Kept(u) /\ (Released(t) => Released(u)) /\ (Updated(t) => Updated(u))
  <2> USE DEF SameCore
  <2> QED BY <1>1, KeptMoves
<1>3. Latest(u) /\ Elects(u)
  BY SameElects DEF SameCore, SameRole, SamePromises, Invariants
<1> QED BY <1>2, <1>3 DEF Invariants, Sound

LEMMA CertifyStep ==
    ASSUME s \in States, Invariants(s), NEW b \in Known(s) \ ({b0} \cup s.certified), By(s, b) = Id
    PROVE  LET u == QcFinish(UpdateHqc([s EXCEPT !.certified = @ \cup {b}], b), b) IN
           Invariants(u) /\ Grows(s, u)
<1> DEFINE c == [s EXCEPT !.certified = @ \cup {b}]
           h == UpdateHqc(c, b)
           u == QcFinish(h, b)
<1>1. Len(s.blocks) \in Nat /\ b \in Nat /\ b \in Places(s) /\ Sound(s) /\ Kept(s) /\ Ledger(s)
  BY StateTypes DEF Known, Places, b0, Invariants, Sound, Kept
<1>2. /\ c \in States /\ c.blocks = s.blocks /\ c.b_exec = s.b_exec /\ c.decided = s.decided
      /\ c.qc_waiting = s.qc_waiting /\ c.hqc = s.hqc /\ c.tail = s.tail
      /\ SameRole(s, c) /\ SameBeat(s, c) /\ SamePromises(s, c)
      /\ c.certified = s.certified \cup {b}
  BY <1>1 DEF States, SameRole, SameBeat, SamePromises
<1> HIDE DEF c
<1>3. c.hqc \in Known(s) /\ c.tail \in Known(s) /\ c.hqc \in Line(s, c.tail)
      /\ c.certified \subseteq Places(s) /\ \A m \in c.certified : By(s, m) = Id
  BY <1>1, <1>2 DEF Ledger
<1>4. /\ Kept(c) /\ Grows(s, c)
      /\ Released(s) => Released(c)
      /\ Updated(s) => Updated(c)
      /\ Places(c) = Places(s) /\ Known(c) = Known(s)
  BY <1>1, <1>2, <1>3, KeptMoves
<1>5. b \in Known(c)
  BY <1>4
<1>6. /\ Kept(h) /\ Grows(c, h)
      /\ h.blocks = c.blocks /\ h.b_exec = c.b_exec /\ h.decided = c.decided /\ h.qc_waiting = c.qc_waiting
      /\ h.certified = c.certified /\ SameRole(c, h) /\ SameBeat(c, h) /\ SamePromises(c, h)
      /\ Released(c) => Released(h)
      /\ Updated(c) => Updated(h)
      /\ IF Height(c, b) <= Height(c, c.hqc) THEN h = c ELSE h.hqc = b
  BY <1>2, <1>4, <1>5, UpdateHqcSound
<1> HIDE DEF h
<1>7. h \in States /\ Sound(h) /\ Released(h) /\ b \in Known(h)
  BY <1>1, <1>2, <1>4, <1>5, <1>6 DEF Invariants, Sound, Kept, Known
<1>8. b = Len(h.blocks) /\ h.tail = b => h.hqc = b
  <2>1. ASSUME h = c, c.tail = b, Height(c, b) <= Height(c, c.hqc)
        PROVE  c.hqc = b
    <3>1. c.hqc \in Line(c, b) /\ Lines(c)
      BY <1>4, <2>1 DEF Kept, Ledger
    <3>2. Height(c, c.hqc) <= Height(c, b) /\ (Height(c, c.hqc) = Height(c, b) => c.hqc = b)
          /\ Height(c, b) \in 0 .. Len(c.blocks)
      BY <1>2, <1>5, <3>1, Heights
    <3>3. Height(c, c.hqc) \in 0 .. Len(c.blocks)
      BY <1>2, <1>3, <1>4, Heights DEF Kept
    <3> QED BY <1>1, <1>2, <2>1, <3>2, <3>3
  <2> QED BY <1>6, <2>1
<1>9. Latest(h)
  BY <1>2, <1>6 DEF Invariants, Latest, Places, SamePromises
<1>10. ElectsBut(h, b)
  <2>1. Electing(h) = Electing(s) /\ h.blocks = s.blocks /\ h.qc_waiting = s.qc_waiting
    BY <1>2, <1>6 DEF Electing, SameRole
  <2>2. Elects(s)
    BY DEF Invariants
  <2> QED BY <1>2, <1>6, <2>1, <2>2 DEF ElectsBut, Elects, WaitersOf
<1>11. Sound(u) /\ Grows(h, u) /\ Latest(u) /\ Released(u) /\ Elects(u)
  BY <1>7, <1>8, <1>9, <1>10, QcFinishSound
<1> HIDE DEF u
<1>12. Grows(s, u)
  <2>1. c.decided \subseteq Known(c) /\ h.decided \subseteq Known(h) /\ u \in States
    BY <1>4, <1>6, <1>11 DEF Sound, Kept, Ledger
  <2>2. Grows(s, h)
    BY <1>2, <1>4, <1>6, <1>7, <2>1, GrowsTrans
  <2> QED BY <1>7, <1>11, <2>1, <2>2, GrowsTrans
<1> QED BY <1>11, <1>12 DEF Invariants, u, h, c
LEMMA ReceiveStep ==
    ASSUME s \in States, Invariants(s), NEW r \in Replicas, NEW up \in Known(s), NEW q \in Line(s, up)
    PROVE  LET n == Len(s.blocks) + 1
               t == AddBlock(s, r, Other, up, q)
               u == QcFinish(Update(t, n), q)
               extends == u.hqc \in Line(u, n) /\ Height(u, n) > Height(u, u.tail)
               v == FirstBlock([u EXCEPT !.tail = IF extends THEN n ELSE @], n)
           IN  Invariants(v) /\ Grows(s, v)
<1> DEFINE n == Len(s.blocks) + 1
           t == AddBlock(s, r, Other, up, q)
           m == Update(t, n)
           u == QcFinish(m, q)
           extends == u.hqc \in Line(u, n) /\ Height(u, n) > Height(u, u.tail)
           tail == IF extends THEN n ELSE u.tail
           w == [u EXCEPT !.tail = tail]
           v == FirstBlock(w, n)
<1>1. Len(s.blocks) \in Nat /\ s.since \in Nat /\ Sound(s) /\ Kept(s) /\ Lines(s) /\ Waits(s) /\ s.since <= Len(s.blocks)
      /\ Other \in -2 .. 3 /\ ~(Other >= 1)
  BY StateTypes DEF Invariants, Sound, Kept, Noted, Other
<1>2. /\ t \in States /\ Len(t.blocks) = n /\ Prefix(s, t)
      /\ t.certified = s.certified /\ t.hqc = s.hqc /\ t.tail = s.tail /\ t.b_exec = s.b_exec
      /\ t.decided = s.decided
      /\ SameRole(s, t) /\ SameBeat(s, t) /\ SamePromises(s, t)
      /\ By(t, n) = r /\ t.blocks[n].x = Other /\ Up(t, n) = up /\ QcRef(t, n) = q
      /\ Line(t, n) = Line(s, up) \cup {n}
      /\ Len(t.qc_waiting) = n /\ t.qc_waiting[n] = NoPromise
      /\ \A b \in Places(s) : t.qc_waiting[b] = s.qc_waiting[b]
  BY <1>1, AddBlockFields
<1>3. /\ Lines(t) /\ Ledger(t) /\ Noted(t) /\ Waits(t) /\ Locks(t) /\ Linked(t)
      /\ Released(s) => Released(t)
      /\ Grows(s, t)
      /\ \A b \in Known(s) : Decides(t, b)
  BY <1>1, AddBlockSound
<1> HIDE DEF t
<1>4. Kept(t) /\ n \in Known(t) /\ n \in Places(t) /\ Known(t) \ {n} \subseteq Known(s)
      /\ Places(t) = Places(s) \cup {n} /\ n \notin Places(s)
  BY <1>1, <1>2, <1>3 DEF Kept, Known, Places
<1>5. q \in Known(t) /\ q # n /\ q \in Known(s)
  <2>1. q \in Known(s)
    BY <1>1, Ancestors
  <2> QED BY <1>1, <1>2, <2>1 DEF Known
<1>6. /\ Sound(m) /\ Grows(t, m)
      /\ m.blocks = t.blocks /\ m.certified = t.certified /\ SamePromises(t, m)
      /\ Released(t) => Released(m)
  BY <1>2, <1>3, <1>4, UpdateSound
<1> HIDE DEF m
<1>7. m \in States /\ q \in Known(m) /\ Len(m.blocks) = n /\ m.blocks[n].x < 0
  BY <1>2, <1>5, <1>6 DEF Sound, Kept, Known, Other
<1>8. Latest(m)
  <2>1. \A b \in Places(s) : m.blocks[b] = s.blocks[b]
    BY <1>2, <1>6 DEF Prefix
  <2>2. m.pm_qc_manual = s.pm_qc_manual /\ Places(m) = Places(s) \cup {n}
    BY <1>2, <1>4, <1>6 DEF SamePromises, Places
  <2> QED BY <1>7, <2>1, <2>2 DEF Latest, Invariants
<1>9. ElectsBut(m, q)
  BY <1>7 DEF ElectsBut, Electing, LastManual
<1>10. /\ Sound(u) /\ Grows(m, u) /\ Latest(u) /\ Released(u) /\ Elects(u)
       /\ u.certified = m.certified
  <2>1. Released(m)
    BY <1>3, <1>6 DEF Invariants
  <2>2. ~(q = Len(m.blocks) /\ m.tail = q)
    BY <1>5, <1>7
  <2> QED BY <1>6, <1>7, <1>8, <1>9, <2>1, <2>2, QcFinishSound
<1> HIDE DEF u
<1>11. u \in States /\ Kept(u) /\ Updated(u) /\ n \in Known(u) /\ n \in Places(u) /\ n \in Nat
       /\ u.since = s.since
  <2>1. Len(m.blocks) <= Len(u.blocks) /\ u.since = s.since
    BY <1>3, <1>6, <1>10 DEF Grows, Prefix
  <2>2. Len(u.blocks) \in Nat
    BY <1>10, StateTypes DEF Sound, Kept
  <2> QED BY <1>1, <1>7, <1>10, <2>1, <2>2 DEF Sound, Kept, Known, Places
<1>12. tail \in Known(u) /\ tail \in Nat /\ u.hqc \in Line(u, tail) /\ u.hqc \in Known(u)
       /\ u.certified \subseteq Places(u) /\ \A b \in u.certified : By(u, b) = Id
  <2>1. u.tail \in Nat
    BY <1>11 DEF States
  <2> QED BY <1>11, <2>1 DEF Kept, Ledger
<1> HIDE DEF tail
<1>13. /\ w \in States /\ w.blocks = u.blocks /\ w.b_exec = u.b_exec /\ w.decided = u.decided
       /\ w.qc_waiting = u.qc_waiting /\ w.certified = u.certified /\ w.hqc = u.hqc /\ w.tail = tail
       /\ SameRole(u, w) /\ SameBeat(u, w) /\ SamePromises(u, w)
  BY <1>11, <1>12 DEF States, SameRole, SameBeat, SamePromises
<1> HIDE DEF w
<1>14. /\ Kept(w) /\ Grows(u, w)
       /\ Released(u) => Released(w)
       /\ Updated(u) => Updated(w)
       /\ Places(w) = Places(u) /\ Known(w) = Known(u)
  BY <1>11, <1>12, <1>13, KeptMoves
<1>15. Latest(w) /\ Elects(w)
  BY <1>10, <1>13, SameElects DEF SameRole, SamePromises
<1>16. n \in Places(w) /\ n > w.since
  BY <1>1, <1>11, <1>13, <1>14 DEF SameRole
<1>17. /\ Kept(v) /\ SameCore(w, v)
       /\ v.rotating = w.rotating /\ v.proposer = w.proposer /\ v.since = w.since /\ v.late = w.late
       /\ SameBeat(w, v) /\ SamePromises(w, v) /\ v.qc_waiting = w.qc_waiting
       /\ Released(w) => Released(v)
       /\ Updated(w) => Updated(v)
       /\ Grows(w, v)
  BY <1>13, <1>14, <1>16, FirstBlockSound
<1> HIDE DEF v
<1>18. Latest(v) /\ Elects(v)
  BY <1>15, <1>17, SameElects DEF SameCore, SamePromises
<1>19. Grows(s, v)
  <2>1. t.decided \subseteq Known(t) /\ m.decided \subseteq Known(m) /\ u.decided \subseteq Known(u)
        /\ w.decided \subseteq Known(w) /\ v \in States
    BY <1>3, <1>6, <1>10, <1>14, <1>17 DEF Sound, Kept, Ledger
  <2>2. Grows(s, m)
    BY <1>2, <1>3, <1>6, <1>7, <2>1, GrowsTrans
  <2>3. Grows(s, u)
    BY <1>7, <1>10, <1>11, <2>1, <2>2, GrowsTrans
  <2>4. Grows(s, w)
    BY <1>11, <1>13, <1>14, <2>1, <2>3, GrowsTrans
  <2> QED BY <1>13, <1>17, <2>1, <2>4, GrowsTrans
<1>20. Invariants(v)
  BY <1>10, <1>11, <1>14, <1>17, <1>18 DEF Invariants, Sound
<1> QED BY <1>19, <1>20 DEF v, w, tail, u, m, t

LEMMA TurnStep ==
    ASSUME s \in States, Invariants(s)
    PROVE  Invariants(Rotate(s)) /\ Rotate(s).rotating
<1> DEFINE u == Rotate(s)
<1>1. /\ u \in States /\ SameCore(s, u) /\ u.rotating /\ u.since = Len(s.blocks)
      /\ Waits(u) /\ Locks(u) /\ Noted(u) /\ Released(u)
      /\ u.pm_qc_manual = s.pm_qc_manual
  BY RotateSound DEF Invariants, Sound, Kept
<1> HIDE DEF u
<1>2. Places(u) = Places(s) /\ Known(u) = Known(s)
      /\ \A c : By(u, c) = By(s, c) /\ Up(u, c) = Up(s, c) /\ QcRef(u, c) = QcRef(s, c) /\ Line(u, c) = Line(s, c)
  BY <1>1 DEF SameCore, Places, Known, By, Up, QcRef, Line
<1>3. Lines(u)
  BY <1>2 DEF Invariants, Sound, Kept, Lines
<1>4. OneLine(u) = OneLine(s)
  BY <1>1, <1>2 DEF OneLine, SameCore
<1>5. Ledger(u)
  BY <1>1, <1>2, <1>4 DEF Invariants, Sound, Kept, Ledger, SameCore
<1>6. Linked(u)
  BY <1>1, <1>2 DEF Invariants, Sound, Kept, Linked, SameCore
<1>7. Updated(u)
  BY <1>1, <1>2 DEF Invariants, Sound, Updated, Decides, SameCore
<1>8. Latest(u)
  BY <1>1, <1>2 DEF Invariants, Latest, SameCore
<1>9. Elects(u)
  BY <1>1, StateTypes DEF Elects, Electing, SameCore
<1> QED BY <1>1, <1>3, <1>5, <1>6, <1>7, <1>8, <1>9 DEF Invariants, Sound, Kept, u
(* A batch that need not wait                                              *)
LEMMA BeatAtOnce ==
    ASSUME s \in States, Invariants(s), s.proposer = Id, ~s.rotating, ~s.locked
    PROVE  LET queued == [s EXCEPT !.pending_beats = @ + 1]
               t == [Reject(queued, s.pm_qc_finish) EXCEPT
                        !.pending_beats = @ - 1, !.pm_qc_finish = Null, !.locked = TRUE]
           IN  Invariants(ProposeBatch(t)) /\ Grows(s, ProposeBatch(t))
<1> DEFINE queued == [s EXCEPT !.pending_beats = @ + 1]
           r == Reject(queued, s.pm_qc_finish)
           t == [r EXCEPT !.pending_beats = @ - 1, !.pm_qc_finish = Null, !.locked = TRUE]
           u == ProposeBatch(t)
<1>1. /\ queued \in States /\ SameCore(s, queued) /\ SameRole(s, queued) /\ SameBeat(s, queued)
      /\ SamePromises(s, queued) /\ queued.qc_waiting = s.qc_waiting /\ queued.pending_beats = s.pending_beats + 1
  <2>1. s.pending_beats + 1 \in Nat
    BY StateTypes
  <2> QED BY <2>1 DEF States, SameCore, SameRole, SameBeat, SamePromises
<1> HIDE DEF queued
<1>2. Invariants(queued) /\ Waits(queued) /\ Locks(queued) /\ Latest(queued)
  <2>1. Invariants(queued)
    BY <1>1, SameInvariants
  <2> QED BY <2>1 DEF Invariants, Sound, Kept
<1>3. s.pm_qc_finish \in {Null} \cup Places(queued) /\ Places(queued) = Places(s)
  BY <1>1, <1>2 DEF Waits, SamePromises, SameCore, Places
<1>4. /\ r \in States /\ Waits(r)
      /\ SameCore(queued, r) /\ SameRole(queued, r) /\ SameBeat(queued, r) /\ SamePromises(queued, r)
      /\ r.pending_beats = queued.pending_beats
      /\ s.pm_qc_finish # Null => WaitersOf(r, s.pm_qc_finish) = <<>>
      /\ \A c \in Places(queued) : c # s.pm_qc_finish => r.qc_waiting[c] = queued.qc_waiting[c]
      /\ \A c \in Places(queued) : WaitersOf(r, c) = WaitersOf(queued, c) \/ WaitersOf(r, c) = <<>>
      /\ \A c \in Places(queued) : queued.qc_waiting[c].state = "none" => r.qc_waiting[c] = queued.qc_waiting[c]
  BY <1>1, <1>2, <1>3, RejectWaits
<1> HIDE DEF r
<1>5. /\ t \in States /\ SameCore(r, t) /\ SameRole(r, t)
      /\ t.last_proposed = r.last_proposed /\ t.pm_wait_propose = r.pm_wait_propose
      /\ t.pm_qc_manual = r.pm_qc_manual /\ t.qc_waiting = r.qc_waiting
      /\ t.pm_qc_finish = Null /\ t.locked
  <2>1. r.pending_beats - 1 \in Nat
    BY <1>1, <1>4, StateTypes
  <2> QED BY <1>4, <2>1 DEF States, SameCore, SameRole
<1> HIDE DEF t
<1>6. SameCore(s, t) /\ SameRole(s, t) /\ t.last_proposed = s.last_proposed
      /\ t.pm_wait_propose = s.pm_wait_propose /\ t.pm_qc_manual = s.pm_qc_manual /\ Places(t) = Places(s)
      /\ Known(t) = Known(s)
  BY <1>1, <1>4, <1>5 DEF SameCore, SameRole, SameBeat, SamePromises, Places, Known
<1>7. Waits(t)
  <2>1. \A c \in Places(t) : WaitersOf(t, c) = WaitersOf(r, c)
    BY <1>5 DEF WaitersOf
  <2>2. \A c \in Places(t) : \A i \in DOMAIN WaitersOf(r, c) : WaitersOf(r, c)[i] # Batch
    BY <1>1, <1>3, <1>4, <1>6 DEF Waits, SamePromises, SameCore, Places, Null
  <2>3. Places(r) = Places(t) /\ t.blocks = r.blocks /\ t.proposer = r.proposer /\ t.late = r.late
    BY <1>5 DEF SameCore, SameRole, Places
  <2> QED BY <1>4, <1>5, <2>1, <2>2, <2>3 DEF Waits
<1>8. Locks(t)
  <2>1. s.last_proposed # s.pm_qc_finish /\ s.last_proposed \in Known(s) /\ (s.pm_wait_propose <=> ~s.rotating)
        /\ (s.last_proposed = b0 \/ By(s, s.last_proposed) = Id)
        /\ (s.last_proposed # b0 => s.qc_waiting[s.last_proposed].state # "rejected")
    BY DEF Invariants, Sound, Kept, Locks
  <2>2. s.last_proposed # b0 => s.last_proposed \in Places(s)
    BY <2>1, StateTypes DEF Known, Places, b0
  <2>3. s.last_proposed # b0 => t.qc_waiting[s.last_proposed].state # "rejected"
    BY <1>1, <1>3, <1>4, <1>5, <2>1, <2>2
  <2>4. By(t, s.last_proposed) = By(s, s.last_proposed)
    BY <1>6 DEF SameCore, By
  <2> QED BY <1>5, <1>6, <2>1, <2>3, <2>4 DEF Locks, SameRole
<1>9. Sound(t) /\ Grows(s, t)
  BY <1>5, <1>6, <1>7, <1>8, SameParts DEF Invariants, Sound, Kept
<1>10. Due(t) /\ t.proposer = Id /\ Latest(t) /\ ~t.rotating
  <2>1. Latest(t)
    BY <1>6 DEF Invariants, Latest, SameCore
  <2> QED BY <1>6, <2>1 DEF Due, SameRole
<1>11. /\ Sound(u) /\ Grows(t, u)
       /\ t.proposer = Id \/ Released(t) => Released(u)
       /\ Latest(t) => Latest(u)
       /\ u # t => Len(u.blocks) > Len(t.blocks) /\ u.blocks[Len(u.blocks)].x < 0
       /\ u.certified = t.certified
  BY <1>5, <1>9, <1>10, ProposeBatchSound
<1> HIDE DEF u
<1>12. Elects(u)
  BY <1>10, <1>11 DEF Grows, Elects, Electing
<1>13. Grows(s, u)
  BY <1>5, <1>9, <1>11, GrowsTrans DEF Sound, Kept, Ledger
<1> QED BY <1>10, <1>11, <1>12, <1>13 DEF Invariants, u, t, r, queued

LEMMA BeatStep ==
    ASSUME s \in States, Invariants(s), Beat
    PROVE  Invariants(s') /\ Grows(s, s')
<1> DEFINE queued == [s EXCEPT !.pending_beats = @ + 1]
           t == [Reject(queued, s.pm_qc_finish) EXCEPT
                    !.pending_beats = @ - 1, !.pm_qc_finish = Null, !.locked = TRUE]
           waits == s.locked \/ ~Voted(s, s.last_proposed)
<1>1. /\ s.proposer = Id
      /\ \/ s.rotating /\ s' = ProposeBatch(s)
         \/ ~s.rotating /\ waits /\ s' = ScheduleNext(queued)
         \/ ~s.rotating /\ ~waits /\ s' = ProposeBatch(t)
  <2>1. s.rotating \in BOOLEAN
    BY StateTypes
  <2> QED BY <2>1 DEF Beat, Step
<1>2. Sound(s) /\ Released(s) /\ Latest(s) /\ Elects(s)
  BY DEF Invariants
<1>3. CASE s.rotating /\ s' = ProposeBatch(s)
  <2> DEFINE u == ProposeBatch(s)
  <2>1. Due(s)
    BY <1>1 DEF Due
  <2>2. /\ Sound(u) /\ Grows(s, u)
        /\ s.proposer = Id \/ Released(s) => Released(u)
        /\ Latest(s) => Latest(u)
        /\ u # s => Len(u.blocks) > Len(s.blocks) /\ u.blocks[Len(u.blocks)].x < 0
        /\ u.certified = s.certified
    BY <1>2, <2>1, ProposeBatchSound
  <2> HIDE DEF u
  <2>3. Elects(u)
    <3>1. CASE u = s
      BY <1>2, <3>1
    <3>2. CASE u # s
      BY <2>2, <3>2 DEF Elects, Electing
    <3> QED BY <3>1, <3>2
  <2>4. Invariants(u)
    BY <1>2, <2>2, <2>3 DEF Invariants
  <2> QED BY <1>3, <2>2, <2>4 DEF u
<1>4. CASE ~s.rotating /\ waits /\ s' = ScheduleNext(queued)
  <2> DEFINE u == ScheduleNext(queued)
  <2>1. /\ queued \in States /\ SameCore(s, queued) /\ SameRole(s, queued) /\ SameBeat(s, queued)
        /\ SamePromises(s, queued) /\ queued.qc_waiting = s.qc_waiting
    <3>1. s.pending_beats + 1 \in Nat
      BY StateTypes
    <3> QED BY <3>1 DEF States, SameCore, SameRole, SameBeat, SamePromises
  <2> HIDE DEF queued
  <2>2. Invariants(queued)
    BY <2>1, SameInvariants
  <2>3. Waits(queued) /\ Locks(queued) /\ Released(queued) /\ Sound(queued) /\ Latest(queued)
    BY <2>2 DEF Invariants, Sound, Kept
  <2>4. ~queued.rotating /\ (queued.locked \/ queued.last_proposed # b0) /\ queued.proposer = Id
    BY <1>1, <1>4, <2>1 DEF Voted, SameRole, SameBeat
  <2>5. /\ u \in States /\ SameCore(queued, u) /\ SameRole(queued, u)
        /\ Waits(u) /\ Locks(u) /\ Released(u)
        /\ u.last_proposed = queued.last_proposed /\ u.pm_qc_manual = queued.pm_qc_manual
    BY <2>1, <2>3, <2>4, ScheduleNextSound
  <2> HIDE DEF u
  <2>6. Sound(u) /\ Grows(queued, u) /\ Grows(s, queued)
    BY <2>1, <2>3, <2>5, SameParts DEF Sound, Kept
  <2>7. Latest(u)
    BY <2>3, <2>5 DEF Latest, SameCore, Places
  <2>8. Elects(u)
    BY <2>4, <2>5 DEF Elects, Electing, SameRole
  <2>9. Grows(s, u)
    <3>1. queued.decided \subseteq Known(queued)
      BY <2>3 DEF Sound, Kept, Ledger
    <3> QED BY <2>1, <2>5, <2>6, <3>1, GrowsTrans
  <2> QED BY <1>4, <2>5, <2>6, <2>7, <2>8, <2>9 DEF Invariants, u
<1>5. CASE ~s.rotating /\ ~waits /\ s' = ProposeBatch(t)
  BY <1>1, <1>5, BeatAtOnce
<1> QED BY <1>1, <1>3, <1>4, <1>5
LEMMA TimeoutStep ==
    ASSUME s \in States, Invariants(s), on_exp_timeout
    PROVE  Invariants(s') /\ Ends(s, s')
<1> DEFINE t == IF s.proposer = Id THEN do_new_consensus(s, 0) ELSE s
           u == [t EXCEPT !.timer = "delay"]
<1>1. s' = u
  BY DEF on_exp_timeout, Step
<1>2. Invariants(t) /\ Grows(s, t)
  <2>1. CASE s.proposer = Id
    <3>1. Due(s) /\ MayLink(s, 0) /\ 0 \in 0 .. 3 /\ Sound(s)
      BY <2>1 DEF Due, MayLink, Invariants
    <3> QED BY <2>1, <3>1, DoNewConsensusSound DEF Invariants
  <2>2. CASE s.proposer # Id
    <3>1. Grows(s, s)
      BY SameParts DEF SameCore, SameRole
    <3> QED BY <2>2, <3>1
  <2> QED BY <2>1, <2>2
<1> HIDE DEF t
<1>3. t \in States
  BY <1>2 DEF Invariants, Sound, Kept
<1>4. u \in States /\ SameCore(t, u) /\ SameRole(t, u) /\ SameBeat(t, u) /\ SamePromises(t, u) /\ u.qc_waiting = t.qc_waiting
  BY <1>3 DEF States, SameCore, SameRole, SameBeat, SamePromises
<1> HIDE DEF u
<1>5. Invariants(u)
  BY <1>2, <1>3, <1>4, SameInvariants
<1>6. Grows(s, u)
  BY <1>2, <1>3, <1>4, SameParts, GrowsTrans DEF Invariants, Sound, Kept, Ledger
<1> QED BY <1>1, <1>5, <1>6 DEF Grows

LEMMA ReproposeStep ==
    ASSUME s \in States, Invariants(s), Repropose
    PROVE  Invariants(s') /\ Ends(s, s')
<1> DEFINE t == [s EXCEPT !.tcall = @ - 1]
           late == s.late \/ s.rotating \/ s.proposer # Id
           u == [t EXCEPT !.late = @ \/ s.rotating \/ s.proposer # Id]
           v == do_new_consensus(u, 0)
<1>1. s.tcall - 1 \in Nat /\ (s' = t \/ s' = v)
  BY StateTypes DEF Repropose, Step
<1>2. t \in States /\ SameCore(s, t) /\ SameRole(s, t) /\ SameBeat(s, t) /\ SamePromises(s, t) /\ t.qc_waiting = s.qc_waiting
  BY <1>1 DEF States, SameCore, SameRole, SameBeat, SamePromises
<1> HIDE DEF t
<1>3. Invariants(t) /\ Grows(s, t)
  BY <1>2, SameInvariants, SameParts
<1>4. /\ u \in States /\ SameCore(t, u) /\ SameBeat(t, u) /\ SamePromises(t, u) /\ u.qc_waiting = t.qc_waiting
      /\ u.rotating = s.rotating /\ u.proposer = s.proposer /\ u.prop_blk = t.prop_blk /\ u.since = s.since
      /\ u.late = late
  <2>1. late \in BOOLEAN
    OBVIOUS
  <2>2. t.late = s.late /\ t.rotating = s.rotating /\ t.proposer = s.proposer /\ t.since = s.since
    BY <1>2 DEF SameRole
  <2>3. u = [t EXCEPT !.late = late]
    BY <2>2
  <2> HIDE DEF u, late
  <2> QED BY <1>2, <2>1, <2>2, <2>3 DEF States, SameCore, SameBeat, SamePromises
<1> HIDE DEF u
<1>5. Due(u) /\ (s.late => u.late) /\ (Due(s) => Due(u))
  BY <1>4 DEF Due
<1>6. Sound(u)
  <2>1. Places(u) = Places(t) /\ Known(u) = Known(t)
        /\ \A c : By(u, c) = By(t, c) /\ Up(u, c) = Up(t, c) /\ QcRef(u, c) = QcRef(t, c) /\ Line(u, c) = Line(t, c)
    BY <1>4 DEF SameCore, Places, Known, By, Up, QcRef, Line
  <2>2. Kept(t) /\ Updated(t) /\ t.rotating = s.rotating /\ t.since = s.since /\ t.proposer = s.proposer /\ t.late = s.late
    BY <1>2, <1>3 DEF Invariants, Sound, SameRole
  <2>3. Lines(u)
    BY <2>1, <2>2 DEF Kept, Lines
  <2>4. OneLine(u) = OneLine(t)
    BY <1>4, <2>1 DEF OneLine, SameCore
  <2>5. Ledger(u)
    BY <1>4, <2>1, <2>2, <2>4 DEF Kept, Ledger, SameCore
  <2>6. Noted(u)
    BY <1>4, <2>1, <2>2 DEF Kept, Noted, SameCore
  <2>7. Waits(u)
    BY <1>4, <1>5, <2>1, <2>2 DEF Kept, Waits, SameCore, SamePromises, WaitersOf, Due
  <2>8. Locks(u)
    BY <1>4, <2>1, <2>2 DEF Kept, Locks, SameBeat, SamePromises
  <2>9. Linked(u)
    BY <1>4, <2>1, <2>2 DEF Kept, Linked, SameCore
  <2>10. Updated(u)
    BY <1>4, <2>1, <2>2 DEF Updated, Decides, SameCore
  <2> QED BY <1>4, <2>3, <2>5, <2>6, <2>7, <2>8, <2>9, <2>10 DEF Sound, Kept
<1>7. Sound(v) /\ Released(v) /\ Grows(u, v) /\ Latest(v) /\ Elects(v)
  <2>1. MayLink(u, 0) /\ 0 \in 0 .. 3
    BY DEF MayLink
  <2> QED BY <1>4, <1>5, <1>6, <2>1, DoNewConsensusSound
<1> HIDE DEF v
<1>8. Ends(s, v)
  <2>1. u.decided = s.decided
    BY <1>2, <1>4 DEF SameCore
  <2> QED BY <1>4, <1>7, <2>1 DEF Grows, Ends
<1> QED BY <1>1, <1>3, <1>7, <1>8 DEF Invariants, Grows

-----------------------------------------------------------------------------
LEMMA NextKeeps ==
    ASSUME s \in States, Invariants(s), Next
    PROVE  Invariants(s') /\ OneLine(s') /\ Ends(s, s')
<1>1. ASSUME Certify
      PROVE  Invariants(s') /\ Ends(s, s')
  <2>1. PICK b \in Known(s) \ ({b0} \cup s.certified) :
            By(s, b) = Id /\ s' = QcFinish(UpdateHqc([s EXCEPT !.certified = @ \cup {b}], b), b)
    BY <1>1 DEF Certify, Step
  <2> QED BY <2>1, CertifyStep DEF Grows
<1>2. ASSUME Receive
      PROVE  Invariants(s') /\ Ends(s, s')
  <2>1. PICK r \in Replicas, up \in {s.tail, s.hqc}, q \in {s.tail, s.hqc} :
          LET n == Len(s.blocks) + 1
              t == AddBlock(s, r, Other, up, q)
              u == QcFinish(Update(t, n), q)
              extends == u.hqc \in Line(u, n) /\ Height(u, n) > Height(u, u.tail)
              v == FirstBlock([u EXCEPT !.tail = IF extends THEN n ELSE @], n)
          IN  q \in Line(s, up) /\ s' = v
    BY <1>2 DEF Receive, Step
  <2>2. up \in Known(s) /\ q \in Line(s, up)
    BY <2>1 DEF Invariants, Sound, Kept, Ledger
  <2> QED BY <2>1, <2>2, ReceiveStep DEF Grows
<1>3. ASSUME Beat
      PROVE  Invariants(s') /\ Ends(s, s')
  BY <1>3, BeatStep DEF Grows
<1>4. ASSUME Impeach \/ DelayTimeout
      PROVE  Invariants(s') /\ Ends(s, s')
  BY <1>4, TurnStep DEF Impeach, DelayTimeout, Step, Ends
<1>5. ASSUME on_exp_timeout
      PROVE  Invariants(s') /\ Ends(s, s')
  BY <1>5, TimeoutStep
<1>6. ASSUME Repropose
      PROVE  Invariants(s') /\ Ends(s, s')
  BY <1>6, ReproposeStep
<1>7. Invariants(s') /\ Ends(s, s')
  BY <1>1, <1>2, <1>3, <1>4, <1>5, <1>6 DEF Next
<1>8. s'.decided = Line(s', s'.b_exec)
  <2>1. Certify => s'.decided = Line(s', s'.b_exec)
    BY DEF Certify, Step
  <2>2. Receive => s'.decided = Line(s', s'.b_exec)
    BY DEF Receive, Step
  <2>3. Beat => s'.decided = Line(s', s'.b_exec)
    <3>1. s.rotating \in BOOLEAN
      BY StateTypes
    <3> QED BY <3>1 DEF Beat, Step
  <2>4. Impeach \/ DelayTimeout => s'.decided = Line(s', s'.b_exec)
    BY DEF Impeach, DelayTimeout, Step
  <2>5. on_exp_timeout => s'.decided = Line(s', s'.b_exec)
    BY DEF on_exp_timeout, Step
  <2>6. Repropose => s'.decided = Line(s', s'.b_exec)
    BY DEF Repropose, Step
  <2> QED BY <2>1, <2>2, <2>3, <2>4, <2>5, <2>6 DEF Next
<1>9. OneLine(s')
  <2> DEFINE t == s'
  <2>1. Lines(t) /\ t.b_exec \in Known(t) /\ t.decided \subseteq Known(t) /\ t \in States
    BY <1>7 DEF Invariants, Sound, Kept, Ledger
  <2>2. t.decided = Line(t, t.b_exec)
    BY <1>8
  <2> HIDE DEF t
  <2>3. Known(t) \subseteq Nat
    BY <2>1, StateTypes DEF Known
  <2>4. OneLine(t)
    BY <2>1, <2>2, <2>3 DEF Lines, OneLine
  <2> QED BY <2>4 DEF t
<1> QED BY <1>7, <1>9
LEMMA InitKeeps == Init => Inv
<1> SUFFICES ASSUME Init PROVE Inv
  OBVIOUS
<1>1. 0 \in Replicas /\ Replicas \subseteq Nat
  BY RoundRobinAssumption DEF Replicas
<1>2. (IF Id = 0 THEN 1 ELSE 0) \in Nat
  OBVIOUS
<1>3. s \in States
  BY <1>1, <1>2 DEF Init, States, b0, Null
<1>4. /\ s.blocks = <<>> /\ s.certified = {} /\ s.hqc = b0 /\ s.tail = b0 /\ s.b_exec = b0 /\ s.decided = {b0}
      /\ s.qc_waiting = <<>> /\ s.prop_blk = [r \in Replicas |-> Null] /\ s.since = 0 /\ ~s.rotating
      /\ ~s.locked /\ s.last_proposed = b0 /\ s.pm_wait_propose /\ s.pm_qc_finish = Null /\ s.pm_qc_manual = Null
  BY DEF Init
<1>5. Len(s.blocks) = 0 /\ Known(s) = {b0} /\ Places(s) = {} /\ Line(s, b0) = {b0}
      /\ QcRef(s, b0) = b0 /\ Up(s, b0) = b0
  BY <1>4 DEF Known, Places, b0, Line, QcRef, Up
<1>6. Lines(s)
  BY <1>5 DEF Lines, b0
<1>7. Ledger(s)
  BY <1>4, <1>5 DEF Ledger
<1>8. Noted(s)
  BY <1>4, <1>5 DEF Noted
<1>9. Waits(s)
  BY <1>4, <1>5 DEF Waits
<1>10. Locks(s)
  BY <1>4, <1>5 DEF Locks, b0, Null
<1>11. Updated(s) /\ Linked(s)
  BY <1>4, <1>5 DEF Updated, Decides, Linked
<1>12. Released(s) /\ Latest(s) /\ Elects(s) /\ OneLine(s)
  BY <1>4, <1>5 DEF Released, Latest, Elects, Electing, OneLine
<1> QED BY <1>3, <1>6, <1>7, <1>8, <1>9, <1>10, <1>11, <1>12 DEF Inv, Invariants, Sound, Kept

(* The invariant is inductive: the parts of it that each function of the   *)
(* pacemaker keeps, for the state between two events.                      *)
THEOREM Invariance == Spec => []Inv
<1>1. Init => Inv
  BY InitKeeps
<1>2. Inv /\ [Next]_s => Inv'
  <2> SUFFICES ASSUME Inv, [Next]_s PROVE Inv'
    OBVIOUS
  <2>1. CASE Next
    <3>1. s \in States /\ Invariants(s)
      BY DEF Inv, Invariants, Sound, Kept
    <3> QED BY <2>1, <3>1, NextKeeps DEF Inv
  <2>2. CASE UNCHANGED s
    BY <2>2 DEF Inv
  <2> QED BY <2>1, <2>2
<1> QED BY <1>1, <1>2, PTL DEF Spec

(* The replica always extends its highest certificate, and what            *)
(* last_proposed and prop_blk remember was proposed by whom they note.     *)
THEOREM TypeCorrect == Spec => []TypeOK
<1>1. Inv => TypeOK
  <2> SUFFICES ASSUME Inv PROVE TypeOK
    OBVIOUS
  <2>1. s \in States /\ Ledger(s) /\ Noted(s) /\ Waits(s) /\ Locks(s)
    BY DEF Inv, Invariants, Sound, Kept
  <2>2. s.proposer \in Replicas /\ s.timer \in {"none", "exp", "delay"}
    BY <2>1 DEF States
  <2>3. s.tail \in Known(s) /\ s.hqc \in Known(s) /\ s.b_exec \in s.decided /\ s.hqc \in Line(s, s.tail)
    BY <2>1 DEF Ledger
  <2>4. \A r \in Replicas : s.prop_blk[r] = Null \/ By(s, s.prop_blk[r]) = r
    BY <2>1 DEF Noted
  <2> QED BY <2>1, <2>2, <2>3, <2>4 DEF TypeOK, Waits, Locks
<1> QED BY <1>1, Invariance, PTL

(* Who waits for a batch, waits for the promise that pm_qc_finish holds.   *)
LEMMA WaitingOne ==
    ASSUME s \in States, Waits(s)
    PROVE  /\ Waiting \subseteq Places(s)
           /\ \A b \in Waiting : b = s.pm_qc_finish /\ ~s.rotating /\ (s.proposer = Id \/ s.late)
           /\ \A b \in Places(s) : b \in Waiting <=> BatchWaits(s, b)
<1>1. \A b : Waiters(b) = WaitersOf(s, b)
  BY DEF Waiters, WaitersOf
<1>2. DOMAIN s.qc_waiting = Places(s)
  BY DEF States, Waits, Places
<1>3. \A b : b \in Waiting <=> b \in Places(s) /\ BatchWaits(s, b)
  BY <1>1, <1>2 DEF Waiting, BatchWaits
<1>4. ASSUME NEW b \in Waiting
      PROVE  b = s.pm_qc_finish /\ ~s.rotating /\ (s.proposer = Id \/ s.late)
  <2>1. b \in Places(s) /\ BatchWaits(s, b)
    BY <1>3
  <2>2. PICK i \in DOMAIN WaitersOf(s, b) : WaitersOf(s, b)[i] = Batch
    BY <2>1 DEF BatchWaits
  <2>3. b = s.pm_qc_finish /\ ~s.rotating
    BY <2>1, <2>2 DEF Waits
  <2>4. WaitersOf(s, b) # <<>>
    BY <2>2
  <2>5. s.proposer = Id \/ s.late
    BY <2>1, <2>4 DEF Waits
  <2> QED BY <2>3, <2>5
<1> QED BY <1>3, <1>4

(* One batch waits at most, while the replica does not rotate and, unless  *)
(* tcall made it propose out of turn, is the proposer.                     *)
THEOREM OneBatchWaits == Spec => []OneWaits
<1>1. Inv => OneWaits
  <2> SUFFICES ASSUME Inv PROVE OneWaits
    OBVIOUS
  <2>1. s \in States /\ Waits(s)
    BY DEF Inv, Invariants, Sound, Kept
  <2>2. /\ Waiting \subseteq Places(s)
        /\ \A b \in Waiting : b = s.pm_qc_finish /\ ~s.rotating /\ (s.proposer = Id \/ s.late)
    BY <2>1, WaitingOne
  <2>3. ASSUME NEW b \in Waiting, NEW i \in DOMAIN Waiters(b), NEW j \in DOMAIN Waiters(b),
               Waiters(b)[i] = Batch, Waiters(b)[j] = Batch
        PROVE  i = j
    <3>1. Waiters(b) = WaitersOf(s, b) /\ b \in Places(s)
      BY <2>2 DEF Waiters, WaitersOf
    <3> QED BY <2>1, <2>3, <3>1 DEF Waits
  <2> QED BY <2>2, <2>3 DEF OneWaits
<1> QED BY <1>1, Invariance, PTL

(* Whenever a beat holds the lock, the batch that will release it waits    *)
(* for the certificate of the last block: no beat is locked out for ever.  *)
THEOREM LockIsReleased == Spec => []LockReleased
<1>1. Inv => LockReleased
  <2> SUFFICES ASSUME Inv, s.locked, ~s.rotating, ~s.late
               PROVE  Waiting = {s.last_proposed} /\ s.pm_wait_propose
    BY DEF LockReleased
  <2>1. s \in States /\ Waits(s) /\ Locks(s) /\ Released(s)
    BY DEF Inv, Invariants, Sound, Kept
  <2>2. s.last_proposed \in Places(s) /\ BatchWaits(s, s.last_proposed)
    <3>1. s.last_proposed \in Known(s) /\ s.last_proposed # b0 /\ BatchWaits(s, s.last_proposed)
      BY <2>1 DEF Released, Locks
    <3>2. Len(s.blocks) \in Nat
      BY <2>1, StateTypes
    <3> QED BY <3>1, <3>2 DEF Known, Places, b0
  <2>3. s.last_proposed \in Waiting /\ \A b \in Waiting : b = s.pm_qc_finish
    BY <2>1, <2>2, WaitingOne
  <2>4. Waiting = {s.last_proposed}
    BY <2>3
  <2>5. s.pm_wait_propose
    BY <2>1 DEF Locks
  <2> QED BY <2>4, <2>5
<1> QED BY <1>1, Invariance, PTL

(* The three-chain that do_new_consensus builds on the first block of the  *)
(* new proposer decides that block as soon as the last one is certified.   *)
THEOREM Elected == Spec => []ManualDecides
<1>1. Inv => ManualDecides
  <2> SUFFICES ASSUME Inv, NEW b \in s.certified, NEW x, x = s.blocks[b].x,
                      s.rotating, b = Len(s.blocks), x >= 0, b - x > s.since,
                      \A i \in 0 .. x : s.blocks[b - i].x = x - i /\ (i < x => Up(s, b - i) = b - i - 1)
               PROVE  b - x \in s.decided
    BY DEF ManualDecides
  <2>1. s \in States /\ Ledger(s) /\ Updated(s) /\ Linked(s) /\ Elects(s)
    BY DEF Inv, Invariants, Sound, Kept
  <2>2. b \in Places(s) /\ b \in Nat /\ s.since \in Nat
    BY <2>1, StateTypes DEF Ledger, Places
  <2>3. s.blocks[b] \in Blocks /\ x \in -2 .. 3
    <3>1. s.blocks \in Seq(Blocks)
      BY <2>1, StateTypes
    <3>2. s.blocks[b] \in Blocks
      BY <2>2, <3>1 DEF Places
    <3> QED BY <3>2 DEF Blocks
  <2>4. x = 3
    <3>1. x \notin 0 .. LastManual - 1
      BY <2>1, <2>2, <2>3 DEF Elects, Electing
    <3> QED BY <2>3, <3>1 DEF LastManual
  <2>5. b - 3 >= 1 /\ b - 3 \in Nat /\ b - 3 > 0
    BY <2>2, <2>4
  <2>6. ASSUME NEW i \in {0, 1, 2}
        PROVE  Up(s, b - i) = b - i - 1 /\ QcRef(s, b - i) = b - i - 1
    <3>1. i \in 0 .. x /\ i + 1 \in 0 .. x /\ i < x
      BY <2>4
    <3>2. s.blocks[b - i].x = 3 - i /\ Up(s, b - i) = b - i - 1
      BY <2>4, <3>1
    <3>3. s.blocks[b - (i + 1)].x = 3 - (i + 1)
      BY <2>4, <3>1
    <3>4. b - (i + 1) = (b - i) - 1 /\ b - i \in Places(s) \ {1}
      BY <2>2, <2>5 DEF Places
    <3>5. s.blocks[b - i].x >= 1 /\ s.blocks[(b - i) - 1].x = s.blocks[b - i].x - 1
      BY <3>2, <3>3, <3>4
    <3>6. QcRef(s, b - i) = (b - i) - 1
      BY <2>1, <3>2, <3>4, <3>5 DEF Linked
    <3> QED BY <3>2, <3>6
  <2>7. QcRef(s, b) = b - 1 /\ QcRef(s, b - 1) = b - 2 /\ QcRef(s, b - 2) = b - 3
        /\ Up(s, b - 1) = b - 2 /\ Up(s, b - 2) = b - 3
    <3>1. b - 0 = b /\ b - 0 - 1 = b - 1 /\ b - 1 - 1 = b - 2 /\ b - 2 - 1 = b - 3
      BY <2>2
    <3>2. QcRef(s, b - 0) = b - 0 - 1
      BY <2>6
    <3>3. Up(s, b - 1) = b - 1 - 1 /\ QcRef(s, b - 1) = b - 1 - 1
      BY <2>6
    <3>4. Up(s, b - 2) = b - 2 - 1 /\ QcRef(s, b - 2) = b - 2 - 1
      BY <2>6
    <3> QED BY <3>1, <3>2, <3>3, <3>4
  <2>8. Decides(s, b)
    <3>1. b \in Known(s)
      BY <2>2 DEF Known, Places
    <3> QED BY <2>1, <3>1 DEF Updated
  <2> QED BY <2>4, <2>7, <2>8 DEF Decides
<1> QED BY <1>1, Invariance, PTL

(* The rotation stops only for a block that the new proposer proposed in   *)
(* this rotation: none of the blocks from before it ends it.               *)
THEOREM RotationEnds == Spec => EndOfRotation
<1>1. Inv /\ Inv' /\ [Next]_s =>
        [s.rotating /\ ~s'.rotating =>
            \E b \in s'.decided \ s.decided : By(s', b) = s.proposer /\ b > s.since]_s
  <2> SUFFICES ASSUME Inv, Inv', Next, s.rotating, ~s'.rotating
               PROVE  \E b \in s'.decided \ s.decided : By(s', b) = s.proposer /\ b > s.since
    OBVIOUS
  <2>1. s \in States /\ Invariants(s)
    BY DEF Inv, Invariants, Sound, Kept
  <2>2. Ends(s, s') /\ OneLine(s')
    BY <2>1, NextKeeps
  <2> QED BY <2>2 DEF Ends
<1> QED BY <1>1, Invariance, PTL DEF Spec, EndOfRotation
=============================================================================
