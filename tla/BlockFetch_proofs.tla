-------------------------- MODULE BlockFetch_proofs --------------------------
(***************************************************************************)
(* What the runs check of block fetching, for any number of replicas that  *)
(* crash and restart, any tree of blocks and any proposals and votes.      *)
(***************************************************************************)
EXTENDS BlockFetch, TLAPS

(* What holds of the storage st of replica r, its pending deliveries dg, of *)
(* which op are opened, wait for their qc_ref or are checked, and what it  *)
(* has delivered (dv).                                                     *)
Sound(r, st, dg, op, wait, chk, dv) ==
    /\ op \subseteq dg \cap st /\ wait \subseteq op /\ chk \subseteq op /\ dv \subseteq st \ dg
    /\ b0 \in dv
    /\ \A b \in dv : Branch[b] \subseteq dv /\ QcOf[b] \in st /\ (b \in Has[r] \/ b \notin Invalid)
    /\ \A b \in op \ wait : QcOf[b] \in st
    /\ \A b \in op : Parent[b] \in dv \cup dg

(* A delivery that is ready waits for another one.                         *)
NoStall(dg, op, wait, chk) == \A b \in (op \cap chk) \ (wait \cup Invalid) : Parent[b] \in dg

(* What is to be fetched is asked for.                                     *)
Sought(want, fetches, contexts) == \A b \in want : b \in fetches /\ contexts[b] # {}

ReplicaInv(r) ==
    /\ Sound(r, stored[r], delivering[r], opened[r], qc_wait[r], checked[r], delivered[r])
    /\ NoStall(delivering[r], opened[r], qc_wait[r], checked[r])
    /\ Sought((delivering[r] \ opened[r]) \cup {QcOf[b] : b \in qc_wait[r]}, fetching[r], asked[r])
    /\ \A b \in delivering[r] : b \in Has[source[r][b]]
    /\ \A p \in Replica, b \in Block : p \in asked[r][b] => b \in Has[p]

(* Blocks are asked for where they were delivered and are, unless it       *)
(* crashed.                                                                *)
Inv ==
    /\ TypeOK
    /\ offers \subseteq Sent
    /\ \A r \in Replica : ReplicaInv(r)
    /\ \A r \in Replica \ Mortal : Has[r] \subseteq stored[r]

(* What a step leaves alone keeps its invariant.                           *)
LEMMA ReplicaFrame ==
    ASSUME NEW q \in Replica, ReplicaInv(q),
           stored'[q] = stored[q], delivering'[q] = delivering[q], opened'[q] = opened[q],
           qc_wait'[q] = qc_wait[q], checked'[q] = checked[q], delivered'[q] = delivered[q],
           fetching'[q] = fetching[q], asked'[q] = asked[q], source'[q] = source[q]
    PROVE  ReplicaInv(q)'
<1>1. Sound(q, stored[q], delivering[q], opened[q], qc_wait[q], checked[q], delivered[q])'
  BY DEF ReplicaInv, Sound
<1>2. NoStall(delivering[q], opened[q], qc_wait[q], checked[q])'
  BY DEF ReplicaInv, NoStall
<1>3. Sought((delivering[q] \ opened[q]) \cup {QcOf[x] : x \in qc_wait[q]}, fetching[q], asked[q])'
  BY DEF ReplicaInv, Sought
<1>4. /\ \A b \in delivering'[q] : b \in Has[source'[q][b]]
      /\ \A p \in Replica, b \in Block : p \in asked'[q][b] => b \in Has[p]
  BY DEF ReplicaInv
<1> QED BY <1>1, <1>2, <1>3, <1>4 DEF ReplicaInv

-----------------------------------------------------------------------------
(* Branches.                                                               *)

LEMMA BranchDef ==
    ASSUME NEW b \in Block
    PROVE  Branch[b] = {a \in Block : \A S \in SUBSET Block : b \in S /\ Closed(S) => a \in S}
BY DEF Branch

LEMMA BranchFacts ==
    ASSUME NEW b \in Block
    PROVE  /\ Branch[b] \subseteq Block
           /\ b \in Branch[b]
           /\ Closed(Branch[b])
<1>1. Branch[b] \subseteq Block /\ b \in Branch[b]
  BY BranchDef
<1>2. ASSUME NEW x \in Branch[b] \ {b0}
      PROVE  Parent[x] \in Branch[b]
  <2>1. x \in Block /\ Parent[x] \in Block
    BY <1>1, TreeAssumption
  <2>2. ASSUME NEW S \in SUBSET Block, b \in S, Closed(S)
        PROVE  Parent[x] \in S
    <3>1. x \in S
      BY <1>2, <2>2, BranchDef
    <3> QED BY <1>2, <2>2, <3>1 DEF Closed
  <2> QED BY <2>1, <2>2, BranchDef
<1> QED BY <1>1, <1>2 DEF Closed

(* It is the least set that holds the block and its parents.               *)
LEMMA BranchLeast ==
    ASSUME NEW b \in Block, NEW S \in SUBSET Block, b \in S, Closed(S)
    PROVE  Branch[b] \subseteq S
BY BranchDef

LEMMA BranchOfMember ==
    ASSUME NEW b \in Block, NEW a \in Branch[b]
    PROVE  a \in Block /\ Branch[a] \subseteq Branch[b]
BY BranchFacts, BranchLeast

(* One step of the walk.                                                   *)
LEMMA BranchStep ==
    ASSUME NEW b \in Block
    PROVE  Branch[b] \subseteq {b} \cup Branch[Parent[b]]
<1> DEFINE S == {b} \cup Branch[Parent[b]]
<1>1. Parent[b] \in Block
  BY TreeAssumption
<1>2. S \in SUBSET Block /\ b \in S
  BY <1>1, BranchFacts
<1>3. Closed(S)
  BY <1>1, BranchFacts DEF Closed
<1> QED BY <1>2, <1>3, BranchLeast

LEMMA BranchOfGenesis == Branch[b0] = {b0}
<1>1. b0 \in Block
  BY TreeAssumption
<1>2. Closed({b0})
  BY DEF Closed
<1> QED BY <1>1, <1>2, BranchFacts, BranchLeast

-----------------------------------------------------------------------------
(* Settling deliveries.                                                    *)

(* The deliveries that end.                                                *)
Ready(op, wait, chk) == (op \cap chk) \ (wait \cup Invalid)
Ended(op, wait, chk, dv) ==
    {b \in Ready(op, wait, chk) : Branch[b] \subseteq dv \cup Ready(op, wait, chk)}

(* A block that is ready and not delivered has a parent that is not.       *)
LEMMA SettleSound ==
    ASSUME NEW r, NEW st \in SUBSET Block, NEW dg \in SUBSET Block, NEW op \in SUBSET Block,
           NEW wait \in SUBSET Block, NEW chk \in SUBSET Block, NEW dv \in SUBSET Block,
           Sound(r, st, dg, op, wait, chk, dv)
    PROVE  LET done == Ended(op, wait, chk, dv) IN
           /\ Sound(r, st, dg \ done, op \ done, wait, chk \ done, dv \cup done)
           /\ NoStall(dg \ done, op \ done, wait, chk \ done)
<1> DEFINE ready == Ready(op, wait, chk)
           done == Ended(op, wait, chk, dv)
<1>0. /\ ready = (op \cap chk) \ (wait \cup Invalid)
      /\ done = {b \in ready : Branch[b] \subseteq dv \cup ready}
  BY DEF Ready, Ended
<1> HIDE DEF ready, done
<1>1. done \subseteq ready /\ ready \subseteq op /\ ready \subseteq Block /\ op \subseteq dg \cap st
  BY <1>0 DEF Sound
<1>2. ASSUME NEW b \in done
      PROVE  Branch[b] \subseteq dv \cup done
  <2>1. b \in Block /\ Branch[b] \subseteq dv \cup ready
    BY <1>0, <1>1
  <2>2. ASSUME NEW a \in Branch[b], a \notin dv
        PROVE  a \in done
    <3>1. Branch[a] \subseteq Branch[b] /\ a \in ready
      BY <2>1, <2>2, BranchOfMember
    <3> QED BY <1>0, <2>1, <3>1
  <2> QED BY <2>2
<1>3. \A b \in dv \cup done :
        Branch[b] \subseteq dv \cup done /\ QcOf[b] \in st /\ (b \in Has[r] \/ b \notin Invalid)
  BY <1>0, <1>1, <1>2 DEF Sound
<1>4. Sound(r, st, dg \ done, op \ done, wait, chk \ done, dv \cup done)
  BY <1>0, <1>1, <1>3 DEF Sound
<1>5. ASSUME NEW b \in ready \ done
      PROVE  Parent[b] \in dg \ done
  <2>1. b \in Block /\ Parent[b] \in Block /\ Parent[b] \in dv \cup dg
    BY <1>1, TreeAssumption DEF Sound
  <2>2. ~(Branch[Parent[b]] \subseteq dv \cup ready)
    BY <1>0, <1>5, <2>1, BranchStep
  <2>3. Parent[b] \notin dv
    BY <2>2 DEF Sound
  <2> QED BY <1>0, <2>1, <2>2, <2>3
<1>6. NoStall(dg \ done, op \ done, wait, chk \ done)
  BY <1>0, <1>5 DEF NoStall
<1> QED BY <1>4, <1>6 DEF done

(* The variables after Settle.                                             *)
LEMMA SettleStep ==
    ASSUME TypeOK, NEW r \in Replica,
           NEW st \in SUBSET Block, NEW dg \in SUBSET Block, NEW op \in SUBSET Block,
           NEW wait \in SUBSET Block, NEW chk \in SUBSET Block,
           Sound(r, st, dg, op, wait, chk, delivered[r]),
           Settle(r, dg, op, wait, chk)
    PROVE  /\ {delivering', opened', qc_wait', checked', delivered'}
                 \subseteq [Replica -> SUBSET Block]
           /\ Sound(r, st, delivering'[r], opened'[r], qc_wait'[r], checked'[r], delivered'[r])
           /\ NoStall(delivering'[r], opened'[r], qc_wait'[r], checked'[r])
           /\ delivering'[r] \ opened'[r] \subseteq dg \ op /\ delivering'[r] \subseteq dg
           /\ qc_wait'[r] = wait
           /\ \A q \in Replica \ {r} :
                 /\ delivering'[q] = delivering[q] /\ opened'[q] = opened[q]
                 /\ qc_wait'[q] = qc_wait[q] /\ checked'[q] = checked[q]
                 /\ delivered'[q] = delivered[q]
<1> DEFINE done == Ended(op, wait, chk, delivered[r])
<1>1. done = Deliverable(r, (op \cap chk) \ (wait \cup Invalid))
  BY DEF Ended, Ready, Deliverable
<1>2. done \subseteq Block /\ done \subseteq op
  BY DEF Ended, Ready
<1>3. /\ delivered' = [delivered EXCEPT ![r] = @ \cup done]
      /\ delivering' = [delivering EXCEPT ![r] = dg \ done]
      /\ opened' = [opened EXCEPT ![r] = op \ done]
      /\ qc_wait' = [qc_wait EXCEPT ![r] = wait]
      /\ checked' = [checked EXCEPT ![r] = chk \ done]
  BY <1>1 DEF Settle
<1>4. /\ delivered \in [Replica -> SUBSET Block] /\ delivering \in [Replica -> SUBSET Block]
      /\ opened \in [Replica -> SUBSET Block] /\ qc_wait \in [Replica -> SUBSET Block]
      /\ checked \in [Replica -> SUBSET Block]
  BY DEF TypeOK
<1> HIDE DEF done
<1>5. /\ delivered' \in [Replica -> SUBSET Block] /\ delivering' \in [Replica -> SUBSET Block]
      /\ opened' \in [Replica -> SUBSET Block] /\ qc_wait' \in [Replica -> SUBSET Block]
      /\ checked' \in [Replica -> SUBSET Block]
  BY <1>2, <1>3, <1>4
<1>6. /\ delivered'[r] = delivered[r] \cup done /\ delivering'[r] = dg \ done
      /\ opened'[r] = op \ done /\ qc_wait'[r] = wait /\ checked'[r] = chk \ done
  BY <1>3, <1>4
<1>7. \A q \in Replica \ {r} :
          /\ delivering'[q] = delivering[q] /\ opened'[q] = opened[q]
          /\ qc_wait'[q] = qc_wait[q] /\ checked'[q] = checked[q]
          /\ delivered'[q] = delivered[q]
  BY <1>3, <1>4
<1>8. delivered[r] \in SUBSET Block
  BY <1>4
<1>9. /\ Sound(r, st, dg \ done, op \ done, wait, chk \ done, delivered[r] \cup done)
      /\ NoStall(dg \ done, op \ done, wait, chk \ done)
  BY <1>8, SettleSound DEF done
<1> QED BY <1>2, <1>5, <1>6, <1>7, <1>9

(* What starts deliveries and fetches keeps the invariant, when the blocks *)
(* new are at p and hang under pending or delivered ones.                  *)
LEMMA PursueInv ==
    ASSUME Inv, NEW r \in Replica, NEW p \in Replica,
           NEW new \in SUBSET Block, NEW st \in SUBSET Block, NEW got \in SUBSET Block,
           Pursue(r, new, st, p, got), up' = up, offers' \subseteq offers,
           stored[r] \subseteq st, got \subseteq st, new \subseteq Has[p],
           new \cap delivered[r] = {},
           \A b \in new \cap st : Parent[b] \in Known(r) \cup new,
           (delivering[r] \ opened[r]) \cap got \subseteq new
    PROVE  Inv'
<1> DEFINE op == new \cap st
           want == (new \ st) \cup ({QcOf[b] : b \in op} \ st)
           first == {b \in want : asked[r][b] = {}}
           served == {c \in clients[r] : c[2] \in got}
           wait == {b \in qc_wait[r] : QcOf[b] \notin got} \cup {b \in op : QcOf[b] \notin st}
           dg2 == delivering[r] \cup new
           op2 == opened[r] \cup op
           chk2 == checked[r] \cup NeedsNoCheck(op)
<1>1. /\ stored' = [stored EXCEPT ![r] = st]
      /\ fetching' = [fetching EXCEPT ![r] = (@ \ got) \cup want]
      /\ asked' = [asked EXCEPT ![r] = AskedAfter(r, want, p, got)]
      /\ clients' = [clients EXCEPT ![r] = @ \ served]
      /\ source' = [source EXCEPT ![r] = [b \in Block |-> IF b \in new THEN p ELSE @[b]]]
      /\ Settle(r, dg2, op2, wait, chk2)
      /\ requests' = requests \cup {<<r, p, b>> : b \in first}
      /\ answers' = (answers \ {<<r, b>> : b \in got}) \cup served
  BY DEF Pursue
<1>2. /\ TypeOK /\ ReplicaInv(r)
      /\ QcOf \in [Block -> Block] /\ Has \in [Replica -> SUBSET Block]
  BY TreeAssumption, HasAssumption DEF Inv
<1>3. /\ stored \in [Replica -> SUBSET Block] /\ fetching \in [Replica -> SUBSET Block]
      /\ asked \in [Replica -> [Block -> SUBSET Replica]]
      /\ source \in [Replica -> [Block -> Replica]]
      /\ clients \in [Replica -> SUBSET (Replica \X Block)]
      /\ delivering[r] \subseteq Block /\ opened[r] \subseteq Block /\ qc_wait[r] \subseteq Block
      /\ checked[r] \subseteq Block /\ delivered[r] \subseteq Block
  BY <1>2 DEF TypeOK
<1>4. /\ op \subseteq Block /\ want \subseteq Block /\ want \cap st = {} /\ first \subseteq Block
      /\ wait \subseteq Block /\ dg2 \subseteq Block /\ op2 \subseteq Block /\ chk2 \subseteq Block
      /\ served \subseteq Replica \X Block
  <2>1. NeedsNoCheck(op) \subseteq op
    BY DEF NeedsNoCheck
  <2>2. {QcOf[b] : b \in op} \subseteq Block
    BY <1>2
  <2>3. op \subseteq Block /\ dg2 \subseteq Block /\ op2 \subseteq Block /\ chk2 \subseteq Block
    BY <1>3, <2>1
  <2>4. wait \subseteq Block
    BY <1>3, <2>3
  <2>5. want \subseteq Block /\ want \cap st = {} /\ first \subseteq Block
    BY <2>2
  <2>6. served \subseteq Replica \X Block
    BY <1>3
  <2> QED BY <2>3, <2>4, <2>5, <2>6
<1>5. Sound(r, st, dg2, op2, wait, chk2, delivered[r])
  <2>1. Sound(r, stored[r], delivering[r], opened[r], qc_wait[r], checked[r], delivered[r])
    BY <1>2 DEF ReplicaInv
  <2>2. chk2 \subseteq op2
    BY <2>1 DEF Sound, NeedsNoCheck
  <2>3. /\ op2 \subseteq dg2 \cap st /\ wait \subseteq op2
        /\ delivered[r] \subseteq st \ dg2
    BY <2>1 DEF Sound
  <2>4. /\ b0 \in delivered[r]
        /\ \A b \in delivered[r] :
              Branch[b] \subseteq delivered[r] /\ QcOf[b] \in st /\ (b \in Has[r] \/ b \notin Invalid)
    BY <2>1 DEF Sound
  <2>5. \A b \in op2 \ wait : QcOf[b] \in st
    BY <2>1 DEF Sound
  <2>6. \A b \in op2 : Parent[b] \in delivered[r] \cup dg2
    BY <2>1 DEF Sound, Known
  <2> QED BY <2>2, <2>3, <2>4, <2>5, <2>6 DEF Sound
<1>6. /\ {delivering', opened', qc_wait', checked', delivered'} \subseteq [Replica -> SUBSET Block]
      /\ Sound(r, st, delivering'[r], opened'[r], qc_wait'[r], checked'[r], delivered'[r])
      /\ NoStall(delivering'[r], opened'[r], qc_wait'[r], checked'[r])
      /\ delivering'[r] \ opened'[r] \subseteq dg2 \ op2 /\ delivering'[r] \subseteq dg2
      /\ qc_wait'[r] = wait
      /\ \A q \in Replica \ {r} :
            /\ delivering'[q] = delivering[q] /\ opened'[q] = opened[q]
            /\ qc_wait'[q] = qc_wait[q] /\ checked'[q] = checked[q]
            /\ delivered'[q] = delivered[q]
  <2> HIDE DEF op2, dg2, wait, chk2
  <2>1. TypeOK /\ Settle(r, dg2, op2, wait, chk2)
    BY <1>1, <1>2
  <2>2. /\ dg2 \in SUBSET Block /\ op2 \in SUBSET Block /\ wait \in SUBSET Block
        /\ chk2 \in SUBSET Block
    BY <1>4
  <2> QED BY <1>5, <2>1, <2>2, SettleStep
<1> HIDE DEF op, want, first, served
<1>7. /\ stored' \in [Replica -> SUBSET Block] /\ fetching' \in [Replica -> SUBSET Block]
      /\ clients' \in [Replica -> SUBSET (Replica \X Block)]
      /\ asked' \in [Replica -> [Block -> SUBSET Replica]]
      /\ source' \in [Replica -> [Block -> Replica]]
  <2>1. AskedAfter(r, want, p, got) \in [Block -> SUBSET Replica]
    BY <1>3 DEF AskedAfter
  <2>2. [b \in Block |-> IF b \in new THEN p ELSE source[r][b]] \in [Block -> Replica]
    BY <1>3
  <2>3. stored' \in [Replica -> SUBSET Block] /\ fetching' \in [Replica -> SUBSET Block]
    BY <1>1, <1>3, <1>4
  <2>4. clients' \in [Replica -> SUBSET (Replica \X Block)]
    BY <1>1, <1>3
  <2> QED BY <1>1, <1>3, <2>1, <2>2, <2>3, <2>4
<1>8. /\ stored'[r] = st /\ fetching'[r] = (fetching[r] \ got) \cup want
      /\ \A b \in Block : source'[r][b] = IF b \in new THEN p ELSE source[r][b]
      /\ \A q \in Replica \ {r} : /\ stored'[q] = stored[q] /\ fetching'[q] = fetching[q]
                                  /\ asked'[q] = asked[q] /\ source'[q] = source[q]
  BY <1>1, <1>3
<1>9. \A b \in Block : \A y :
          y \in asked'[r][b] <=> b \notin got /\ (y \in asked[r][b] \/ (b \in want /\ y = p))
  <2> SUFFICES ASSUME NEW b \in Block, NEW y
               PROVE  y \in asked'[r][b] <=> b \notin got /\ (y \in asked[r][b] \/ (b \in want /\ y = p))
    OBVIOUS
  <2>1. asked'[r] = AskedAfter(r, want, p, got)
    BY <1>1, <1>3
  <2>2. asked'[r][b] = IF b \in got THEN {} ELSE asked[r][b] \cup {q \in {p} : b \in want}
    BY <2>1 DEF AskedAfter
  <2> QED BY <2>2
<1>10. want \subseteq Has[p]
  <2>1. ASSUME NEW b \in op
        PROVE  QcOf[b] \in Has[p]
    BY HasAssumption DEF op
  <2> QED BY <2>1 DEF want
<1>11. ReplicaInv(r)'
  <2>1. Sought((delivering'[r] \ opened'[r]) \cup {QcOf[b] : b \in qc_wait'[r]}, fetching'[r], asked'[r])
    <3> SUFFICES ASSUME NEW x \in (delivering'[r] \ opened'[r]) \cup {QcOf[b] : b \in qc_wait'[r]}
                 PROVE  x \in fetching'[r] /\ asked'[r][x] # {}
      BY DEF Sought
    <3>1. ASSUME x \in want
          PROVE  x \in fetching'[r] /\ asked'[r][x] # {}
      <4>1. x \notin got /\ x \in Block
        BY <1>4, <3>1
      <4>2. p \in asked'[r][x] /\ x \in fetching'[r]
        BY <1>8, <1>9, <3>1, <4>1
      <4> QED BY <4>2
    <3>2. ASSUME x \notin got, x \in Block, x \in fetching[r], asked[r][x] # {}
          PROVE  x \in fetching'[r] /\ asked'[r][x] # {}
      <4>1. PICK y : y \in asked[r][x]
        BY <3>2
      <4>2. y \in asked'[r][x]
        BY <1>9, <3>2, <4>1
      <4>3. x \in fetching'[r]
        BY <1>8, <3>2
      <4> QED BY <4>2, <4>3
    <3>3. Sought((delivering[r] \ opened[r]) \cup {QcOf[b] : b \in qc_wait[r]}, fetching[r], asked[r])
      BY <1>2 DEF ReplicaInv
    <3>4. CASE x \in delivering'[r] \ opened'[r]
      <4>1. x \in dg2 \ op2
        BY <1>6, <3>4
      <4>2. CASE x \in new
        BY <3>1, <4>1, <4>2 DEF want, op
      <4>3. CASE x \notin new
        <5>1. x \in delivering[r] \ opened[r] /\ x \notin got /\ x \in Block
          BY <1>3, <4>1, <4>3
        <5> QED BY <3>2, <3>3, <5>1 DEF Sought
      <4> QED BY <4>2, <4>3
    <3>5. ASSUME NEW b \in qc_wait'[r], x = QcOf[b]
          PROVE  x \in fetching'[r] /\ asked'[r][x] # {}
      <4>1. b \in wait
        BY <1>6, <3>5
      <4>2. CASE b \in qc_wait[r] /\ QcOf[b] \notin got
        <5>1. x \in Block
          BY <1>2, <1>3, <3>5, <4>2
        <5> QED BY <3>2, <3>3, <3>5, <4>2, <5>1 DEF Sought
      <4>3. CASE b \in op /\ QcOf[b] \notin st
        BY <3>1, <3>5, <4>3 DEF want
      <4> QED BY <4>1, <4>2, <4>3
    <3> QED BY <3>4, <3>5
  <2>2. \A b \in delivering'[r] : b \in Has[source'[r][b]]
    BY <1>2, <1>3, <1>6, <1>8 DEF ReplicaInv
  <2>3. \A x \in Replica, b \in Block : x \in asked'[r][b] => b \in Has[x]
    BY <1>2, <1>10, <1>9 DEF ReplicaInv
  <2>4. Sound(r, stored[r], delivering[r], opened[r], qc_wait[r], checked[r], delivered[r])'
    BY <1>6, <1>8 DEF Sound
  <2>5. NoStall(delivering[r], opened[r], qc_wait[r], checked[r])'
    BY <1>6 DEF NoStall
  <2>6. Sought((delivering[r] \ opened[r]) \cup {QcOf[b] : b \in qc_wait[r]}, fetching[r], asked[r])'
    BY <2>1 DEF Sought
  <2> QED BY <2>2, <2>3, <2>4, <2>5, <2>6 DEF ReplicaInv
<1>12. ASSUME NEW q \in Replica \ {r}
       PROVE  ReplicaInv(q)'
  <2>1. ReplicaInv(q)
    BY DEF Inv
  <2> QED BY <1>6, <1>8, <2>1, ReplicaFrame
<1>13. \A q \in Replica \ Mortal : Has[q] \subseteq stored'[q]
  BY <1>8 DEF Inv
<1>14. TypeOK'
  <2>1. \A q \in Replica : /\ opened'[q] \subseteq delivering'[q] \cap stored'[q]
                           /\ qc_wait'[q] \cup checked'[q] \subseteq opened'[q]
                           /\ delivered'[q] \subseteq stored'[q] \ delivering'[q]
    BY <1>11, <1>12 DEF ReplicaInv, Sound
  <2>2. up' \subseteq Replica /\ offers' \subseteq Replica \X Replica \X Block
    BY <1>2 DEF TypeOK
  <2>3. requests' \subseteq Replica \X Replica \X Block
    <3>1. {<<r, p, b>> : b \in first} \subseteq Replica \X Replica \X Block
      BY <1>4
    <3> QED BY <1>1, <1>2, <3>1 DEF TypeOK
  <2>4. answers' \subseteq Replica \X Block
    <3>1. answers' \subseteq answers \cup served
      BY <1>1
    <3> QED BY <1>2, <1>4, <3>1 DEF TypeOK
  <2> QED BY <1>6, <1>7, <2>1, <2>2, <2>3, <2>4 DEF TypeOK
<1> QED BY <1>11, <1>12, <1>13, <1>14 DEF Inv

-----------------------------------------------------------------------------
(* The steps.                                                              *)

LEMMA InitInv == Init => Inv
<1> SUFFICES ASSUME Init PROVE Inv
  OBVIOUS
<1>1. Has \in [Replica -> SUBSET Block] /\ b0 \in Block
  BY HasAssumption, TreeAssumption
<1>2. offers \subseteq Sent /\ offers \subseteq Replica \X Replica \X Block
  BY SentAssumption DEF Init
<1>3. TypeOK
  BY <1>1, <1>2 DEF Init, TypeOK
<1>4. ASSUME NEW r \in Replica
      PROVE  ReplicaInv(r)
  <2>1. /\ stored[r] = Has[r] /\ delivered[r] = Has[r] /\ delivering[r] = {} /\ opened[r] = {}
        /\ qc_wait[r] = {} /\ checked[r] = {} /\ \A b \in Block : asked[r][b] = {}
    BY DEF Init
  <2> QED BY <2>1, HasAssumption DEF ReplicaInv, Sound, NoStall, Sought
<1>5. \A r \in Replica : Has[r] \subseteq stored[r]
  BY DEF Init
<1> QED BY <1>2, <1>3, <1>4, <1>5 DEF Inv

(* A branch is started from the block down to what is missing or pending.  *)
LEMMA StartsFacts ==
    ASSUME NEW r \in Replica, NEW b \in Block, NEW st, b0 \in delivered[r]
    PROVE  /\ Starts(r, b, st) \subseteq Branch[b]
           /\ Starts(r, b, st) \cap Known(r) = {}
           /\ b \in Starts(r, b, st) \cup Known(r)
           /\ \A a \in Starts(r, b, st) \cap st : Parent[a] \in Known(r) \cup Starts(r, b, st)
<1>1. \A a \in Block : a \in Starts(r, b, st) <=>
          a \in Branch[b] \ Known(r) /\ Branch[b] \ Branch[a] \subseteq st \ Known(r)
  BY DEF Starts
<1>2. Starts(r, b, st) \subseteq Branch[b] /\ Starts(r, b, st) \cap Known(r) = {}
  BY DEF Starts
<1>3. b \in Starts(r, b, st) \cup Known(r)
  BY <1>1, BranchFacts
<1>4. ASSUME NEW a \in Starts(r, b, st) \cap st
      PROVE  Parent[a] \in Known(r) \cup Starts(r, b, st)
  <2>1. a \in Branch[b] /\ a \in Block /\ a # b0 /\ a \in st \ Known(r)
    BY <1>2, BranchFacts DEF Known
  <2>2. Parent[a] \in Branch[b] /\ Parent[a] \in Block
    BY <2>1, BranchFacts DEF Closed
  <2>3. Branch[b] \ Branch[Parent[a]] \subseteq (Branch[b] \ Branch[a]) \cup {a}
    BY <2>1, BranchStep
  <2>4. Branch[b] \ Branch[a] \subseteq st \ Known(r)
    BY <1>1, <2>1
  <2> QED BY <1>1, <2>1, <2>2, <2>3, <2>4
<1> QED BY <1>2, <1>3, <1>4

(* Who sent an offer has the block, with its branch.                       *)
LEMMA OfferFacts ==
    ASSUME Inv, NEW p, NEW r, NEW b, <<p, r, b>> \in offers
    PROVE  /\ p \in Replica /\ r \in Replica /\ b \in Block
           /\ Branch[b] \subseteq Has[p]
<1>1. <<p, r, b>> \in Sent
  BY DEF Inv
<1>2. p \in Replica /\ r \in Replica /\ b \in Block /\ b \in Has[p]
  BY <1>1, SentAssumption
<1> QED BY <1>2, HasAssumption

(* An offer is pursued with what is in storage then.                       *)
LEMMA OfferInv ==
    ASSUME Inv, NEW p, NEW r, NEW b, NEW st,
           <<p, r, b>> \in offers, st = stored[r] \/ st = stored[r] \cup {b},
           Pursue(r, Starts(r, b, st), st, p, {}),
           up' = up, offers' = offers \ {<<p, r, b>>}
    PROVE  Inv'
<1>1. p \in Replica /\ r \in Replica /\ b \in Block /\ Branch[b] \subseteq Has[p]
  BY OfferFacts
<1>2. stored[r] \subseteq Block /\ b0 \in delivered[r]
  <2>1. stored[r] \subseteq Block
    BY <1>1 DEF Inv, TypeOK
  <2>2. b0 \in delivered[r]
    BY <1>1 DEF Inv, ReplicaInv, Sound
  <2> QED BY <2>1, <2>2
<1>3. st \in SUBSET Block /\ stored[r] \subseteq st
  BY <1>1, <1>2
<1>4. /\ Starts(r, b, st) \in SUBSET Block /\ Starts(r, b, st) \subseteq Has[p]
      /\ Starts(r, b, st) \cap delivered[r] = {}
      /\ \A a \in Starts(r, b, st) \cap st : Parent[a] \in Known(r) \cup Starts(r, b, st)
  BY <1>1, <1>2, StartsFacts, BranchFacts DEF Known
<1>5. {} \in SUBSET Block /\ {} \subseteq st /\ offers' \subseteq offers
  OBVIOUS
<1>6. (delivering[r] \ opened[r]) \cap {} \subseteq Starts(r, b, st)
  OBVIOUS
<1> HIDE DEF Inv
<1> QED BY <1>1, <1>3, <1>4, <1>5, <1>6, PursueInv

LEMMA ResponseInv ==
    ASSUME Inv, NEW r \in Replica, NEW b \in Block, resp_blk_handler(r, b)
    PROVE  Inv'
<1> DEFINE st == stored[r] \cup {b}
           p == source[r][b]
           new == IF b \in delivering[r] \ opened[r]
                  THEN {b} \cup Starts(r, Parent[b], st)
                  ELSE {}
<1>1. Pursue(r, new, st, p, {b}) /\ up' = up /\ offers' = offers
  BY DEF resp_blk_handler
<1>2. /\ p \in Replica /\ st \in SUBSET Block /\ stored[r] \subseteq st /\ {b} \in SUBSET Block
      /\ {b} \subseteq st
  BY DEF Inv, TypeOK
<1>3. /\ new \in SUBSET Block /\ new \subseteq Has[p] /\ new \cap delivered[r] = {}
      /\ \A a \in new \cap st : Parent[a] \in Known(r) \cup new
      /\ (delivering[r] \ opened[r]) \cap {b} \subseteq new
  <2>1. CASE b \notin delivering[r] \ opened[r]
    BY <2>1
  <2>2. CASE b \in delivering[r] \ opened[r]
    <3>1. /\ b \in Has[p] /\ b \notin delivered[r] /\ b0 \in delivered[r] /\ Parent[b] \in Block
      BY <2>2, TreeAssumption DEF Inv, ReplicaInv, Sound
    <3>2. Parent[b] \in Branch[b] /\ Branch[b] \subseteq Has[p]
      BY <1>2, <3>1, HasAssumption, BranchFacts DEF Closed
    <3>3. Branch[Parent[b]] \subseteq Has[p]
      BY <3>2, BranchOfMember
    <3>4. /\ Starts(r, Parent[b], st) \subseteq Branch[Parent[b]]
          /\ Starts(r, Parent[b], st) \cap Known(r) = {}
          /\ Parent[b] \in Starts(r, Parent[b], st) \cup Known(r)
          /\ \A a \in Starts(r, Parent[b], st) \cap st :
                Parent[a] \in Known(r) \cup Starts(r, Parent[b], st)
      BY <3>1, StartsFacts
    <3>5. new = {b} \cup Starts(r, Parent[b], st)
      BY <2>2
    <3>6. Branch[Parent[b]] \subseteq Block
      BY <3>1, BranchFacts
    <3> HIDE DEF new, p, st
    <3> QED BY <3>1, <3>3, <3>4, <3>5, <3>6 DEF Known
  <2> QED BY <2>1, <2>2
<1> HIDE DEF new, p, st, Inv
<1> QED BY <1>1, <1>2, <1>3, PursueInv

(* Messages that are sent or lost, and crashes, disturb nothing.           *)
LEMMA QuietInv ==
    ASSUME Inv, UNCHANGED <<fetch_state, delivery_state>>,
           up' \subseteq Replica, offers' \subseteq offers,
           requests' \subseteq Replica \X Replica \X Block, answers' \subseteq Replica \X Block
    PROVE  Inv'
<1>1. /\ stored' = stored /\ fetching' = fetching /\ asked' = asked /\ clients' = clients
      /\ delivering' = delivering /\ source' = source /\ opened' = opened /\ qc_wait' = qc_wait
      /\ checked' = checked /\ delivered' = delivered
  BY DEF fetch_state, delivery_state
<1>2. TypeOK'
  <2>1. TypeOK /\ offers' \subseteq Replica \X Replica \X Block
    BY DEF Inv, TypeOK
  <2> QED BY <1>1, <2>1 DEF TypeOK
<1>3. \A r \in Replica : ReplicaInv(r)'
  BY <1>1, ReplicaFrame DEF Inv
<1> QED BY <1>1, <1>2, <1>3 DEF Inv

LEMMA RequestInv ==
    ASSUME Inv, NEW r \in Replica, NEW p \in Replica, NEW b \in Block, req_blk_handler(p, r, b)
    PROVE  Inv'
<1>1. TypeOK /\ requests' \subseteq requests /\ UNCHANGED <<up, offers, stored, asked, delivery_state>>
  BY DEF Inv, req_blk_handler
<1>2. CASE b \in stored[p]
  <2>1. answers' = answers \cup {<<r, b>>} /\ UNCHANGED <<fetching, clients>>
    BY <1>2 DEF req_blk_handler
  <2> QED BY <1>1, <2>1, QuietInv DEF TypeOK, fetch_state
<1>3. CASE b \notin stored[p]
  <2>1. /\ fetching' = [fetching EXCEPT ![p] = @ \cup {b}]
        /\ clients' = [clients EXCEPT ![p] = @ \cup {<<r, b>>}]
        /\ answers' = answers
    BY <1>3 DEF req_blk_handler
  <2>2. /\ stored' = stored /\ asked' = asked
        /\ delivering' = delivering /\ source' = source /\ opened' = opened /\ qc_wait' = qc_wait
        /\ checked' = checked /\ delivered' = delivered /\ up' = up /\ offers' = offers
    BY <1>1 DEF delivery_state
  <2>3. fetching \in [Replica -> SUBSET Block] /\ clients \in [Replica -> SUBSET (Replica \X Block)]
    BY <1>1 DEF TypeOK
  <2>4. /\ fetching' \in [Replica -> SUBSET Block] /\ clients' \in [Replica -> SUBSET (Replica \X Block)]
        /\ \A q \in Replica : fetching[q] \subseteq fetching'[q]
    BY <2>1, <2>3
  <2>5. TypeOK'
    <3>1. /\ up' \subseteq Replica /\ offers' \subseteq Replica \X Replica \X Block
          /\ requests' \subseteq Replica \X Replica \X Block /\ answers' \subseteq Replica \X Block
      BY <1>1, <2>1, <2>2 DEF TypeOK
    <3>2. /\ {stored', delivering', opened', qc_wait', checked', delivered'}
                \subseteq [Replica -> SUBSET Block]
          /\ asked' \in [Replica -> [Block -> SUBSET Replica]]
          /\ source' \in [Replica -> [Block -> Replica]]
      BY <1>1, <2>2 DEF TypeOK
    <3>3. \A q \in Replica : /\ opened'[q] \subseteq delivering'[q] \cap stored'[q]
                             /\ qc_wait'[q] \cup checked'[q] \subseteq opened'[q]
                             /\ delivered'[q] \subseteq stored'[q] \ delivering'[q]
      BY <1>1, <2>2 DEF TypeOK
    <3> QED BY <2>4, <3>1, <3>2, <3>3 DEF TypeOK
  <2>6. ASSUME NEW q \in Replica
        PROVE  ReplicaInv(q)'
    <3>1. ReplicaInv(q)
      BY DEF Inv
    <3>2. Sound(q, stored[q], delivering[q], opened[q], qc_wait[q], checked[q], delivered[q])'
      BY <2>2, <3>1 DEF ReplicaInv, Sound
    <3>3. NoStall(delivering[q], opened[q], qc_wait[q], checked[q])'
      BY <2>2, <3>1 DEF ReplicaInv, NoStall
    <3>4. Sought((delivering[q] \ opened[q]) \cup {QcOf[x] : x \in qc_wait[q]}, fetching[q], asked[q])'
      BY <2>2, <2>4, <3>1 DEF ReplicaInv, Sought
    <3> QED BY <2>2, <3>1, <3>2, <3>3, <3>4 DEF ReplicaInv
  <2> QED BY <2>2, <2>5, <2>6 DEF Inv
<1> QED BY <1>2, <1>3

LEMMA TimeoutInv ==
    ASSUME Inv, NEW r \in Replica, NEW b \in Block, timeout_cb(r, b)
    PROVE  Inv'
<1>1. TypeOK
  BY DEF Inv
<1>2. requests' \subseteq Replica \X Replica \X Block
  <2>1. asked[r][b] \subseteq Replica
    BY <1>1 DEF TypeOK
  <2> QED BY <1>1, <2>1 DEF timeout_cb, TypeOK
<1> QED BY <1>1, <1>2, QuietInv DEF timeout_cb, TypeOK

(* The check of a certificate may end several deliveries.                  *)
LEMMA VerifiedInv ==
    ASSUME Inv, NEW r \in Replica, NEW b \in Block, on_verified(r, b)
    PROVE  Inv'
<1>1. /\ b \in opened[r]
      /\ Settle(r, delivering[r], opened[r], qc_wait[r], checked[r] \cup {b})
      /\ UNCHANGED <<up, net, fetch_state, source>>
  BY DEF on_verified
<1>2. /\ TypeOK /\ stored[r] \in SUBSET Block /\ delivering[r] \in SUBSET Block
      /\ opened[r] \in SUBSET Block /\ qc_wait[r] \in SUBSET Block
      /\ checked[r] \cup {b} \in SUBSET Block
  BY DEF Inv, TypeOK
<1>3. Sound(r, stored[r], delivering[r], opened[r], qc_wait[r], checked[r] \cup {b}, delivered[r])
  BY <1>1 DEF Inv, ReplicaInv, Sound
<1>4. /\ {delivering', opened', qc_wait', checked', delivered'} \subseteq [Replica -> SUBSET Block]
      /\ Sound(r, stored[r], delivering'[r], opened'[r], qc_wait'[r], checked'[r], delivered'[r])
      /\ NoStall(delivering'[r], opened'[r], qc_wait'[r], checked'[r])
      /\ delivering'[r] \ opened'[r] \subseteq delivering[r] \ opened[r]
      /\ delivering'[r] \subseteq delivering[r]
      /\ qc_wait'[r] = qc_wait[r]
      /\ \A q \in Replica \ {r} :
            /\ delivering'[q] = delivering[q] /\ opened'[q] = opened[q]
            /\ qc_wait'[q] = qc_wait[q] /\ checked'[q] = checked[q]
            /\ delivered'[q] = delivered[q]
  <2> DEFINE dg == delivering[r]
             op == opened[r]
             wait == qc_wait[r]
             chk == checked[r] \cup {b}
  <2>0. PICK st \in SUBSET Block : st = stored[r]
    BY <1>2
  <2>1. TypeOK /\ Settle(r, dg, op, wait, chk) /\ Sound(r, st, dg, op, wait, chk, delivered[r])
    BY <1>1, <1>2, <1>3, <2>0
  <2>3. /\ dg \in SUBSET Block /\ op \in SUBSET Block
        /\ wait \in SUBSET Block /\ chk \in SUBSET Block
    BY <1>2
  <2> HIDE DEF dg, op, wait, chk
  <2>2. /\ {delivering', opened', qc_wait', checked', delivered'} \subseteq [Replica -> SUBSET Block]
        /\ Sound(r, st, delivering'[r], opened'[r], qc_wait'[r], checked'[r], delivered'[r])
        /\ NoStall(delivering'[r], opened'[r], qc_wait'[r], checked'[r])
        /\ delivering'[r] \ opened'[r] \subseteq dg \ op /\ delivering'[r] \subseteq dg
        /\ qc_wait'[r] = wait
        /\ \A q \in Replica \ {r} :
              /\ delivering'[q] = delivering[q] /\ opened'[q] = opened[q]
              /\ qc_wait'[q] = qc_wait[q] /\ checked'[q] = checked[q]
              /\ delivered'[q] = delivered[q]
    BY <2>1, <2>3, SettleStep
  <2> QED BY <2>0, <2>2 DEF dg, op, wait
<1>5. /\ stored' = stored /\ fetching' = fetching /\ asked' = asked /\ clients' = clients
      /\ source' = source /\ up' = up /\ offers' = offers /\ requests' = requests
      /\ answers' = answers
  BY <1>1 DEF net, fetch_state
<1>6. ReplicaInv(r)'
  <2>1. ReplicaInv(r)
    BY DEF Inv
  <2>2. Sound(r, stored[r], delivering[r], opened[r], qc_wait[r], checked[r], delivered[r])'
    BY <1>4, <1>5 DEF Sound
  <2>3. NoStall(delivering[r], opened[r], qc_wait[r], checked[r])'
    BY <1>4 DEF NoStall
  <2>4. Sought((delivering[r] \ opened[r]) \cup {QcOf[x] : x \in qc_wait[r]}, fetching[r], asked[r])'
    BY <1>4, <1>5, <2>1 DEF ReplicaInv, Sought
  <2> QED BY <1>4, <1>5, <2>1, <2>2, <2>3, <2>4 DEF ReplicaInv
<1>7. ASSUME NEW q \in Replica \ {r}
      PROVE  ReplicaInv(q)'
  <2>1. ReplicaInv(q)
    BY DEF Inv
  <2>2. /\ delivering'[q] = delivering[q] /\ opened'[q] = opened[q]
        /\ qc_wait'[q] = qc_wait[q] /\ checked'[q] = checked[q]
        /\ delivered'[q] = delivered[q]
    BY <1>4
  <2> QED BY <1>5, <2>1, <2>2, ReplicaFrame
<1>8. TypeOK'
  <2>1. \A q \in Replica : /\ opened'[q] \subseteq delivering'[q] \cap stored'[q]
                           /\ qc_wait'[q] \cup checked'[q] \subseteq opened'[q]
                           /\ delivered'[q] \subseteq stored'[q] \ delivering'[q]
    BY <1>6, <1>7 DEF ReplicaInv, Sound
  <2>2. /\ {stored', fetching'} \subseteq [Replica -> SUBSET Block]
        /\ asked' \in [Replica -> [Block -> SUBSET Replica]]
        /\ source' \in [Replica -> [Block -> Replica]]
        /\ clients' \in [Replica -> SUBSET (Replica \X Block)]
    BY <1>2, <1>5 DEF TypeOK
  <2>3. /\ up' \subseteq Replica /\ offers' \subseteq Replica \X Replica \X Block
        /\ requests' \subseteq Replica \X Replica \X Block /\ answers' \subseteq Replica \X Block
    BY <1>2, <1>5 DEF TypeOK
  <2> QED BY <1>4, <2>1, <2>2, <2>3 DEF TypeOK
<1> QED BY <1>5, <1>6, <1>7, <1>8 DEF Inv

LEMMA LoseInv == Inv /\ Lose => Inv'
<1> SUFFICES ASSUME Inv, Lose PROVE Inv'
  OBVIOUS
<1>1. /\ UNCHANGED <<fetch_state, delivery_state>> /\ up' = up /\ offers' \subseteq offers
      /\ requests' \subseteq requests /\ answers' \subseteq answers
  BY DEF Lose
<1> QED BY <1>1, QuietInv DEF Inv, TypeOK

LEMMA CrashInv ==
    ASSUME Inv, NEW r \in Replica, Crash(r)
    PROVE  Inv'
<1>1. /\ UNCHANGED <<fetch_state, delivery_state>> /\ up' \subseteq up /\ offers' = offers
      /\ requests' = requests /\ answers' = answers
  BY DEF Crash, net
<1> QED BY <1>1, QuietInv DEF Inv, TypeOK

(* A replica that is started again is in the state it first started in,    *)
(* with the genesis block only.                                            *)
LEMMA RestartInv ==
    ASSUME Inv, NEW r \in Replica, Restart(r)
    PROVE  Inv'
<1>1. /\ r \in Mortal /\ up' = up \cup {r} /\ offers' = offers
      /\ requests' \subseteq requests /\ answers' \subseteq answers
      /\ stored' = [stored EXCEPT ![r] = {b0}] /\ fetching' = [fetching EXCEPT ![r] = {}]
      /\ asked' = [asked EXCEPT ![r] = [b \in Block |-> {}]]
      /\ clients' = [clients EXCEPT ![r] = {}]
      /\ delivering' = [delivering EXCEPT ![r] = {}]
      /\ source' = [source EXCEPT ![r] = [b \in Block |-> r]]
      /\ opened' = [opened EXCEPT ![r] = {}] /\ qc_wait' = [qc_wait EXCEPT ![r] = {}]
      /\ checked' = [checked EXCEPT ![r] = {}] /\ delivered' = [delivered EXCEPT ![r] = {b0}]
  BY DEF Restart
<1>2. TypeOK /\ b0 \in Block
  BY TreeAssumption DEF Inv
<1>3. /\ stored \in [Replica -> SUBSET Block] /\ fetching \in [Replica -> SUBSET Block]
      /\ delivering \in [Replica -> SUBSET Block] /\ opened \in [Replica -> SUBSET Block]
      /\ qc_wait \in [Replica -> SUBSET Block] /\ checked \in [Replica -> SUBSET Block]
      /\ delivered \in [Replica -> SUBSET Block]
      /\ asked \in [Replica -> [Block -> SUBSET Replica]]
      /\ source \in [Replica -> [Block -> Replica]]
      /\ clients \in [Replica -> SUBSET (Replica \X Block)]
  BY <1>2 DEF TypeOK
<1>4. /\ stored' \in [Replica -> SUBSET Block] /\ fetching' \in [Replica -> SUBSET Block]
      /\ delivering' \in [Replica -> SUBSET Block] /\ opened' \in [Replica -> SUBSET Block]
      /\ qc_wait' \in [Replica -> SUBSET Block] /\ checked' \in [Replica -> SUBSET Block]
      /\ delivered' \in [Replica -> SUBSET Block]
      /\ asked' \in [Replica -> [Block -> SUBSET Replica]]
      /\ source' \in [Replica -> [Block -> Replica]]
      /\ clients' \in [Replica -> SUBSET (Replica \X Block)]
  BY <1>1, <1>2, <1>3
<1>5. /\ stored'[r] = {b0} /\ delivered'[r] = {b0} /\ delivering'[r] = {} /\ opened'[r] = {}
      /\ qc_wait'[r] = {} /\ checked'[r] = {} /\ \A b \in Block : asked'[r][b] = {}
  BY <1>1, <1>3
<1>6. \A q \in Replica \ {r} :
          /\ stored'[q] = stored[q] /\ delivered'[q] = delivered[q]
          /\ delivering'[q] = delivering[q] /\ opened'[q] = opened[q]
          /\ qc_wait'[q] = qc_wait[q] /\ checked'[q] = checked[q]
          /\ asked'[q] = asked[q] /\ fetching'[q] = fetching[q] /\ source'[q] = source[q]
  BY <1>1, <1>3
<1>7. ReplicaInv(r)'
  <2>1. b0 \notin Invalid /\ QcOf[b0] = b0 /\ Branch[b0] = {b0}
    BY TreeAssumption, BranchOfGenesis
  <2> QED BY <1>5, <2>1 DEF ReplicaInv, Sound, NoStall, Sought
<1>8. ASSUME NEW q \in Replica \ {r}
      PROVE  ReplicaInv(q)'
  <2>1. ReplicaInv(q)
    BY DEF Inv
  <2> QED BY <1>6, <2>1, ReplicaFrame
<1>9. TypeOK'
  <2>1. \A q \in Replica : /\ opened'[q] \subseteq delivering'[q] \cap stored'[q]
                           /\ qc_wait'[q] \cup checked'[q] \subseteq opened'[q]
                           /\ delivered'[q] \subseteq stored'[q] \ delivering'[q]
    BY <1>7, <1>8 DEF ReplicaInv, Sound
  <2>2. /\ up' \subseteq Replica /\ offers' \subseteq Replica \X Replica \X Block
        /\ requests' \subseteq Replica \X Replica \X Block /\ answers' \subseteq Replica \X Block
    BY <1>1, <1>2 DEF TypeOK
  <2> QED BY <1>4, <2>1, <2>2 DEF TypeOK
<1>10. \A q \in Replica \ Mortal : Has[q] \subseteq stored'[q]
  BY <1>1, <1>6 DEF Inv
<1> QED BY <1>1, <1>7, <1>8, <1>9, <1>10 DEF Inv

LEMMA NextInv == Inv /\ [Next]_vars => Inv'
<1> SUFFICES ASSUME Inv, [Next]_vars PROVE Inv'
  OBVIOUS
<1>1. CASE UNCHANGED vars
  <2>1. /\ UNCHANGED <<fetch_state, delivery_state>> /\ up' = up /\ offers' = offers
        /\ requests' = requests /\ answers' = answers
    BY <1>1 DEF vars, net
  <2> QED BY <2>1, QuietInv DEF Inv, TypeOK
<1>2. ASSUME NEW r \in Replica, NEW p \in Replica, NEW b \in Block, propose_handler(r, p, b)
      PROVE  Inv'
  <2> DEFINE st == stored[r] \cup {b}
  <2>1. /\ <<p, r, b>> \in offers /\ up' = up /\ offers' = offers \ {<<p, r, b>>}
        /\ Pursue(r, Starts(r, b, st), st, p, {})
    BY <1>2 DEF propose_handler
  <2> QED BY <2>1, OfferInv
<1>3. ASSUME NEW r \in Replica, NEW p \in Replica, NEW b \in Block, vote_handler(r, p, b)
      PROVE  Inv'
  BY <1>3, OfferInv DEF vote_handler
<1>4. CASE Next
  BY <1>2, <1>3, <1>4, RequestInv, ResponseInv, TimeoutInv, VerifiedInv, LoseInv, CrashInv, RestartInv
     DEF Next
<1> QED BY <1>1, <1>4

-----------------------------------------------------------------------------
(* The results.                                                            *)

LEMMA Invariance == Spec => []Inv
BY InitInv, NextInv, PTL DEF Spec

(* The types: what is opened is stored and pending, what is delivered is   *)
(* stored and not pending.                                                 *)
THEOREM TypeCorrect == Spec => []TypeOK
<1>1. Inv => TypeOK
  BY DEF Inv
<1> QED BY <1>1, Invariance, PTL

(* Blocks are delivered after their parents, with their certificate        *)
(* checked and the block it is for in storage.                             *)
THEOREM DeliveriesInOrder == Spec => []DeliveredInOrder
<1>1. Inv => DeliveredInOrder
  BY DEF Inv, ReplicaInv, Sound, DeliveredInOrder
<1> QED BY <1>1, Invariance, PTL

(* Whoever waits for a block waits for a fetch that knows whom to ask, or  *)
(* for the delivery of the parent.                                         *)
THEOREM NoWaiterLost == Spec => []NoLostWaiter
<1>1. Inv => NoLostWaiter
  <2> SUFFICES ASSUME Inv, NEW r \in Replica
               PROVE  /\ \A b \in delivering[r] \ opened[r] : b \in fetching[r] /\ asked[r][b] # {}
                      /\ \A b \in qc_wait[r] : QcOf[b] \in fetching[r] /\ asked[r][QcOf[b]] # {}
                      /\ \A b \in (opened[r] \cap checked[r]) \ (qc_wait[r] \cup Invalid) :
                            Parent[b] \in delivering[r]
    BY DEF NoLostWaiter
  <2>1. ReplicaInv(r)
    BY DEF Inv
  <2> QED BY <2>1 DEF ReplicaInv, NoStall, Sought
<1> QED BY <1>1, Invariance, PTL

(* Requests go to replicas that have the block.                            *)
THEOREM AskedAnswer == Spec => []AskedHaveIt
<1>1. Inv => AskedHaveIt
  BY DEF Inv, ReplicaInv, AskedHaveIt
<1> QED BY <1>1, Invariance, PTL

=============================================================================
