-------------------------- MODULE Commands_proofs --------------------------
(***************************************************************************)
(* Proofs about Commands, for any number of replicas, commands, batches    *)
(* and starts of the client.                                               *)
(***************************************************************************)
EXTENDS Integers, Commands, FiniteSetTheorems, SequenceTheorems, TLAPS

Batches == {b \in Seq(Command) : Len(b) = blk_size}

(* The types, with those of the sequences.                                 *)
TypeInv ==
    /\ client \in 0 .. MaxClient
    /\ cnt \in 0 .. MaxIter
    /\ client = 0 => cnt = 0
    /\ waiting \subseteq 0 .. cnt - 1
    /\ Cardinality(waiting) <= max_async_num
    /\ confirmed \in [Command -> Nat]
    /\ replies \in [Replica -> SUBSET (Command \X {0, 1})]
    /\ cmd_pending \in [Replica -> Seq(Command \X (1 .. client))]
    /\ decision_waiting \in [Replica -> [Command -> 0 .. client]]
    /\ cmd_pending_buffer \in Seq(Command)
    /\ Len(cmd_pending_buffer) < blk_size
    /\ pending_beats \in Seq(Batches)
    /\ chain \in Seq(Batches)
    /\ received \in [Replica -> 0 .. Len(chain)]
    /\ acknowledged \subseteq Command \X (1 .. client)

InQueue(r, c, i) == <<c, i>> \in ToSet(cmd_pending[r])
Answering(r, c) == \E d \in {0, 1} : <<c, d>> \in replies[r]

(* The running client has asked r for c, and has not read the answer.      *)
Owing(r, c) ==
    \/ InQueue(r, c, client)
    \/ decision_waiting[r][c] = client
    \/ Answering(r, c)

(* A request is in one place: a queue (once), a table or an answer.  The   *)
(* commands from cnt on have not been sent.                                *)
RequestInv ==
    /\ \A r \in Replica : IsInjective(cmd_pending[r])
    /\ client > 0 => \A r \in Replica, c \in Command :
        /\ InQueue(r, c, client) => decision_waiting[r][c] # client
        /\ Answering(r, c) => decision_waiting[r][c] # client /\ ~InQueue(r, c, client)
        /\ ~(<<c, 0>> \in replies[r] /\ <<c, 1>> \in replies[r])
        /\ c >= cnt => ~Owing(r, c)

(* The replicas whose answer to c the running client has read; when it is  *)
(* the first client they have decided c.                                   *)
Answered(c) == {r \in Replica : ~Owing(r, c) /\ (client = 1 => c \in DecidedBy(r))}

AnswerInv ==
    /\ \A r \in Replica, c \in Command : <<c, 1>> \in replies[r] => c \in DecidedBy(r)
    /\ client = 1 => \A r \in Replica, c \in Command : <<c, 0>> \notin replies[r]
    /\ \A c \in Command : confirmed[c] <= Cardinality(Answered(c))
    /\ \A c \in Command : c >= cnt => confirmed[c] = 0

(* The clients whose request for c the proposer has not handled.           *)
Unhandled(c) == {i \in 1 .. client : InQueue(proposer, c, i) \/ (i = client /\ c >= cnt)}

PlacesInv == \A c \in Command : Cardinality(Places(c)) + Cardinality(Unhandled(c)) <= client

-----------------------------------------------------------------------------
(* Types.                                                                  *)

LEMMA ConstantTypes ==
    /\ IsFiniteSet(Replica) /\ Cardinality(Replica) \in Nat
    /\ Up \subseteq Replica /\ proposer \in Replica /\ proposer \in Up
    /\ nmajority \in Nat /\ nmajority > 0
    /\ Depth \in Nat /\ Depth > 0
    /\ blk_size \in Nat /\ blk_size > 0
    /\ max_async_num \in Nat /\ max_async_num > 0
    /\ MaxIter \in Nat /\ MaxIter > 0
    /\ MaxClient \in Nat /\ MaxClient > 0
    /\ nfaulty \in Nat
    /\ Command \subseteq Nat
  BY CommandsAssumption, FS_CardinalityType DEF Up, Command

(* The counters, whose types the steps need.                               *)
LEMMA CounterTypes ==
    ASSUME TypeInv
    PROVE  /\ client \in Nat /\ cnt \in Nat /\ (client = 0 => cnt = 0)
           /\ \A c \in Command : confirmed[c] \in Nat
           /\ \A r \in Replica, c \in Command : decision_waiting[r][c] \in 0 .. client
<1>1. client \in Nat /\ cnt \in Nat
  BY ConstantTypes DEF TypeInv
<1> QED BY <1>1 DEF TypeInv

LEMMA BatchTypes ==
    ASSUME NEW s \in Seq(Batches), NEW k \in DOMAIN s
    PROVE  s[k] \in Seq(Command) /\ Len(s[k]) = blk_size /\ ToSet(s[k]) \subseteq Command
  BY DEF Batches, ToSet

LEMMA DecidedTypes ==
    ASSUME NEW ch \in Seq(Batches), NEW m, NEW n
    PROVE  DecidedBetween(ch, m, n) \subseteq Command
  BY BatchTypes DEF DecidedBetween

LEMMA IntervalSize ==
    ASSUME NEW a \in Nat, NEW b \in Nat, a <= b
    PROVE  IsFiniteSet(a .. b - 1) /\ Cardinality(a .. b - 1) = b - a
<1>1. a \in Int /\ b - 1 \in Int
  OBVIOUS
<1>2. IsFiniteSet(a .. b - 1)
      /\ Cardinality(a .. b - 1) = IF a > b - 1 THEN 0 ELSE (b - 1) - a + 1
  BY <1>1, FS_Interval
<1> QED BY <1>2

LEMMA IntervalGrows ==
    ASSUME NEW a \in Nat, NEW b \in Nat, a <= b
    PROVE  0 .. a - 1 \subseteq 0 .. b - 1 /\ a .. b - 1 \subseteq 0 .. b - 1
  OBVIOUS

(* The requests of a window are the commands from cnt on, up to the bounds. *)
LEMMA WindowFacts ==
    ASSUME TypeInv, NEW w \in SUBSET waiting
    PROVE  /\ Cardinality(Window(w)) \in Nat
           /\ Window(w) = cnt .. cnt + Cardinality(Window(w)) - 1
           /\ cnt + Cardinality(Window(w)) <= MaxIter
           /\ IsFiniteSet(w) /\ Cardinality(w) <= Cardinality(waiting)
           /\ Cardinality(w) \in Nat
           /\ Cardinality(w) + Cardinality(Window(w)) <= max_async_num
<1> USE ConstantTypes
<1>1. cnt \in Nat /\ cnt <= MaxIter
  BY DEF TypeInv
<1>2. IsFiniteSet(waiting)
  <2>1. IsFiniteSet(0 .. cnt - 1)
    BY <1>1, IntervalSize
  <2> QED BY <2>1, FS_Subset DEF TypeInv
<1>3. /\ IsFiniteSet(w) /\ Cardinality(w) <= Cardinality(waiting)
      /\ Cardinality(w) \in Nat /\ Cardinality(waiting) \in Nat
      /\ Cardinality(waiting) <= max_async_num
  BY <1>2, FS_Subset, FS_CardinalityType DEF TypeInv
<1> DEFINE room == max_async_num - Cardinality(w)
           top == IF cnt + room < MaxIter THEN cnt + room ELSE MaxIter
<1>4. room \in Nat /\ top \in Nat /\ cnt <= top /\ top <= MaxIter /\ top - cnt <= room
  BY <1>1, <1>3
<1>5. Window(w) = cnt .. top - 1
  BY <1>1, <1>3 DEF Window
<1>6. Cardinality(cnt .. top - 1) = top - cnt
  BY <1>1, <1>4, IntervalSize
<1> QED BY <1>1, <1>3, <1>4, <1>5, <1>6

(* What Decide does to the types, when it decides on a chain of batches.   *)
LEMMA DecideTypes ==
    ASSUME TypeInv, NEW r \in Replica, NEW ch \in Seq(Batches),
           Len(chain) <= Len(ch), NEW n \in 0 .. Len(ch), Decide(r, n, ch)
    PROVE  /\ received' \in [Replica -> 0 .. Len(ch)]
           /\ decision_waiting' \in [Replica -> [Command -> 0 .. client]]
           /\ replies' \in [Replica -> SUBSET (Command \X {0, 1})]
<1>1. received' \in [Replica -> 0 .. Len(ch)]
  BY DEF TypeInv, Decide
<1> DEFINE cs == DecidedBetween(ch, received[r], n)
<1>2. cs \subseteq Command
  BY DecidedTypes
<1>3. Forget(decision_waiting[r], cs) \in [Command -> 0 .. client]
  BY DEF TypeInv, Forget
<1> HIDE DEF cs
<1>4. decision_waiting' \in [Replica -> [Command -> 0 .. client]]
  BY <1>3 DEF TypeInv, Decide, cs
<1>5. replies' \in [Replica -> SUBSET (Command \X {0, 1})]
  BY <1>2 DEF TypeInv, Decide, cs
<1> QED BY <1>1, <1>4, <1>5

LEMMA TypeStart ==
    ASSUME TypeInv, Start
    PROVE  TypeInv'
<1> USE ConstantTypes
<1>1. client \in Nat /\ client' = client + 1 /\ client' \in 0 .. MaxClient
  BY DEF TypeInv, Start
<1>2. cnt' \in 1 .. MaxIter /\ cnt' <= max_async_num
  BY DEF Start
<1>3. waiting' = 0 .. cnt' - 1 /\ Cardinality(waiting') <= max_async_num
  <2>1. cnt' \in Nat /\ Cardinality(0 .. cnt' - 1) = cnt'
    BY <1>2, IntervalSize
  <2> QED BY <1>2, <2>1 DEF Start
<1>4. cmd_pending' \in [Replica -> Seq(Command \X (1 .. client'))]
  <2> DEFINE T == Command \X (1 .. client')
             sent == [k \in 1 .. cnt' |-> <<k - 1, client'>>]
  <2>1. sent \in Seq(T)
    <3>1. \A k \in 1 .. cnt' : <<k - 1, client'>> \in T
      BY <1>1, <1>2 DEF Command
    <3> QED BY <1>2, <3>1
  <2>2. \A r \in Replica : cmd_pending[r] \in Seq(T)
    <3>1. Command \X (1 .. client) \subseteq T
      BY <1>1
    <3> QED BY <3>1, SeqMonotonic DEF TypeInv
  <2>3. PICK lost \in SUBSET Up : cmd_pending' = [r \in Replica |->
            (IF r \in lost THEN <<>> ELSE cmd_pending[r]) \o sent]
    BY DEF Start
  <2> HIDE DEF T, sent
  <2>4. \A r \in Replica : (IF r \in lost THEN <<>> ELSE cmd_pending[r]) \o sent \in Seq(T)
    BY <2>1, <2>2
  <2>5. cmd_pending' \in [Replica -> Seq(T)]
    BY <2>3, <2>4
  <2> QED BY <2>5 DEF T
<1>5. /\ decision_waiting' \in [Replica -> [Command -> 0 .. client']]
      /\ acknowledged' \subseteq Command \X (1 .. client')
  <2>1. 0 .. client \subseteq 0 .. client' /\ 1 .. client \subseteq 1 .. client'
    BY <1>1
  <2>2. UNCHANGED <<decision_waiting, acknowledged>>
    BY DEF Start, history
  <2>3. decision_waiting \in [Replica -> [Command -> 0 .. client']]
    <3>1. decision_waiting \in [Replica -> [Command -> 0 .. client]]
      BY DEF TypeInv
    <3>2. \A r \in Replica : decision_waiting[r] \in [Command -> 0 .. client']
      BY <2>1, <3>1
    <3> QED BY <3>1, <3>2
  <2>4. acknowledged \subseteq Command \X (1 .. client')
    BY <2>1 DEF TypeInv
  <2> QED BY <2>2, <2>3, <2>4
<1> QED BY <1>1, <1>2, <1>3, <1>4, <1>5 DEF TypeInv, Start, history

LEMMA TypeHandleReply ==
    ASSUME TypeInv, NEW r \in Replica, HandleReply(r)
    PROVE  TypeInv'
<1>1. PICK x \in replies[r] :
        /\ replies' = [replies EXCEPT ![r] = @ \ {x}]
        /\ IF x[1] \notin waiting
           THEN UNCHANGED <<client_state, cmd_pending, acknowledged>>
           ELSE /\ confirmed' = [confirmed EXCEPT ![x[1]] = @ + 1]
                /\ IF ~Enough(confirmed'[x[1]])
                   THEN UNCHANGED <<cnt, waiting, cmd_pending, acknowledged>>
                   ELSE /\ waiting' = (waiting \ {x[1]}) \cup Window(waiting \ {x[1]})
                        /\ cnt' = cnt + Cardinality(Window(waiting \ {x[1]}))
                        /\ cmd_pending' = [q \in Replica |-> cmd_pending[q]
                               \o Requests(Window(waiting \ {x[1]}), client)]
                        /\ acknowledged' = acknowledged \cup {<<x[1], client>>}
                /\ UNCHANGED client
  BY DEF HandleReply
<1> DEFINE c == x[1]
           new == Window(waiting \ {c})
<1>2. c \in Command /\ replies' \in [Replica -> SUBSET (Command \X {0, 1})]
  BY <1>1 DEF TypeInv
<1>3. UNCHANGED <<client, decision_waiting, cmd_pending_buffer, pending_beats, chain, received>>
  BY <1>1 DEF HandleReply, client_state
<1>4. CASE c \notin waiting
  BY <1>1, <1>2, <1>3, <1>4 DEF TypeInv, client_state
<1>5. CASE c \in waiting /\ ~Enough(confirmed'[c])
  <2>1. /\ UNCHANGED <<cnt, waiting, cmd_pending, acknowledged>>
        /\ confirmed' = [confirmed EXCEPT ![c] = @ + 1]
    BY <1>1, <1>5
  <2>2. confirmed' \in [Command -> Nat]
    BY <1>2, <2>1 DEF TypeInv
  <2> QED BY <1>2, <1>3, <2>1, <2>2 DEF TypeInv
<1>6. CASE c \in waiting /\ Enough(confirmed'[c])
  <2>1. /\ Cardinality(new) \in Nat /\ new = cnt .. cnt + Cardinality(new) - 1
        /\ cnt + Cardinality(new) <= MaxIter
        /\ IsFiniteSet(waiting \ {c}) /\ Cardinality(waiting \ {c}) \in Nat
        /\ Cardinality(waiting \ {c}) + Cardinality(new) <= max_async_num
    BY WindowFacts
  <2>2. /\ waiting' = (waiting \ {c}) \cup new
        /\ cnt' = cnt + Cardinality(new)
        /\ cmd_pending' = [q \in Replica |-> cmd_pending[q] \o Requests(new, client)]
        /\ acknowledged' = acknowledged \cup {<<c, client>>}
        /\ confirmed' = [confirmed EXCEPT ![c] = @ + 1]
    BY <1>1, <1>6
  <2> DEFINE m == Cardinality(new)
  <2> HIDE DEF c, new
  <2>3. cnt \in Nat /\ client \in 1 .. MaxClient
    BY <1>6 DEF TypeInv
  <2>4. cnt' \in 0 .. MaxIter /\ waiting' \subseteq 0 .. cnt' - 1
    <3>1. cnt' \in Nat /\ cnt' <= MaxIter
      BY <2>1, <2>2, <2>3
    <3>2. waiting \subseteq 0 .. cnt - 1 /\ cnt <= cnt'
      BY <2>1, <2>2, <2>3 DEF TypeInv
    <3>3. 0 .. cnt - 1 \subseteq 0 .. cnt' - 1 /\ cnt .. cnt' - 1 \subseteq 0 .. cnt' - 1
      BY <2>3, <3>1, <3>2, IntervalGrows
    <3>4. new \subseteq cnt .. cnt' - 1
      BY <2>1, <2>2, <2>3
    <3>5. waiting' \subseteq 0 .. cnt' - 1
      BY <2>2, <3>2, <3>3, <3>4
    <3>6. cnt' \in 0 .. MaxIter
      BY <3>1, ConstantTypes
    <3> QED BY <3>5, <3>6
  <2>5. Cardinality(waiting') <= max_async_num
    <3>1. IsFiniteSet(new)
      <4>1. cnt + Cardinality(new) \in Nat /\ cnt <= cnt + Cardinality(new)
        BY <2>1, <2>3
      <4> QED BY <2>1, <2>3, <4>1, IntervalSize
    <3>2. IsFiniteSet((waiting \ {c}) \cap new)
      BY <3>1, FS_Intersection
    <3>3. Cardinality((waiting \ {c}) \cap new) \in Nat
      BY <3>2, FS_CardinalityType
    <3>4. Cardinality(waiting') = Cardinality(waiting \ {c}) + Cardinality(new)
                                - Cardinality((waiting \ {c}) \cap new)
      BY <2>1, <2>2, <3>1, FS_Union
    <3> QED BY <2>1, <3>3, <3>4, ConstantTypes
  <2>6. Requests(new, client) \in Seq(Command \X (1 .. client))
    <3> DEFINE T == Command \X (1 .. client)
    <3>1. \A k \in 1 .. m : <<cnt + k - 1, client>> \in T
      <4> SUFFICES ASSUME NEW k \in 1 .. m
                   PROVE  cnt + k - 1 \in 0 .. MaxIter - 1 /\ client \in 1 .. client
        BY DEF Command
      <4> QED BY <2>1, <2>3, ConstantTypes
    <3> HIDE DEF T
    <3>2. m \in Nat
      BY <2>1
    <3> HIDE DEF m
    <3>3. [k \in 1 .. m |-> <<cnt + k - 1, client>>] \in Seq(T)
      BY <3>1, <3>2
    <3> QED BY <3>3 DEF Requests, T, m
  <2>7. cmd_pending' \in [Replica -> Seq(Command \X (1 .. client))]
    <3> DEFINE T == Command \X (1 .. client)
    <3> HIDE DEF T
    <3>1. \A q \in Replica : cmd_pending[q] \o Requests(new, client) \in Seq(T)
      BY <2>6 DEF TypeInv, T
    <3>2. cmd_pending' \in [Replica -> Seq(T)]
      BY <2>2, <3>1
    <3> QED BY <3>2 DEF T
  <2>8. confirmed' \in [Command -> Nat] /\ acknowledged' \subseteq Command \X (1 .. client)
    <3>1. c \in Command /\ client \in 1 .. client
      BY <1>2, <2>3 DEF c
    <3>2. confirmed' \in [Command -> Nat]
      BY <2>2, <3>1 DEF TypeInv
    <3>3. acknowledged' \subseteq Command \X (1 .. client)
      BY <2>2, <3>1 DEF TypeInv
    <3> QED BY <3>2, <3>3
  <2>9. client' = client /\ client # 0
    BY <1>3, <2>3
  <2> QED BY <1>2, <1>3, <2>4, <2>5, <2>7, <2>8, <2>9 DEF TypeInv
<1> QED BY <1>4, <1>5, <1>6

(* A batch is all of the buffer, and leaves nothing behind.                *)
LEMMA BatchFacts ==
    ASSUME TypeInv, NEW c \in Command
    PROVE  LET buffer == Append(cmd_pending_buffer, c)
           IN  /\ buffer \in Seq(Command)
               /\ Len(buffer) = Len(cmd_pending_buffer) + 1
               /\ ~IsBatch(buffer) => Len(buffer) < blk_size
               /\ IsBatch(buffer) => /\ Batch(buffer) = buffer /\ buffer \in Batches
                                     /\ AfterBatch(buffer) = <<>>
<1> USE ConstantTypes
<1> DEFINE buffer == Append(cmd_pending_buffer, c)
<1>1. buffer \in Seq(Command) /\ Len(buffer) = Len(cmd_pending_buffer) + 1 /\ Len(buffer) \in Nat
  BY DEF TypeInv
<1>2. Len(buffer) <= blk_size
  BY <1>1 DEF TypeInv
<1>3. ASSUME IsBatch(buffer)
      PROVE  Batch(buffer) = buffer /\ buffer \in Batches /\ AfterBatch(buffer) = <<>>
  <2>1. Len(buffer) = blk_size
    BY <1>1, <1>2, <1>3 DEF IsBatch
  <2>2. Batch(buffer) = buffer
    BY <1>1, <2>1, SubSeqFull DEF Batch
  <2>3. AfterBatch(buffer) = <<>>
    BY <1>1, <2>1, SubSeqEmpty DEF AfterBatch
  <2> QED BY <1>1, <2>1, <2>2, <2>3 DEF Batches
<1>4. ~IsBatch(buffer) => Len(buffer) < blk_size
  BY <1>1 DEF IsBatch
<1> QED BY <1>1, <1>3, <1>4

LEMMA TypeHandleRequest ==
    ASSUME TypeInv, NEW r \in Replica, HandleRequest(r)
    PROVE  TypeInv'
<1> DEFINE c == Head(cmd_pending[r])[1]
           i == Head(cmd_pending[r])[2]
           buffer == Append(cmd_pending_buffer, c)
<1>1. c \in Command /\ i \in 1 .. client /\ Tail(cmd_pending[r]) \in Seq(Command \X (1 .. client))
  <2>1. cmd_pending[r] \in Seq(Command \X (1 .. client)) /\ cmd_pending[r] # <<>>
    BY DEF TypeInv, HandleRequest
  <2> QED BY <2>1, HeadTailProperties
<1>2. cmd_pending' \in [Replica -> Seq(Command \X (1 .. client))]
  BY <1>1 DEF TypeInv, HandleRequest
<1>3. decision_waiting' \in [Replica -> [Command -> 0 .. client]]
  <2>1. CASE decision_waiting[r][c] = 0
    <3>1. decision_waiting' = [decision_waiting EXCEPT ![r][c] = i]
      BY <2>1 DEF HandleRequest
    <3>2. i \in 0 .. client
      BY <1>1
    <3> HIDE DEF c, i
    <3> QED BY <1>1, <3>1, <3>2 DEF TypeInv
  <2>2. CASE decision_waiting[r][c] # 0
    BY <2>2 DEF TypeInv, HandleRequest
  <2> QED BY <2>1, <2>2
<1>4. replies' \in [Replica -> SUBSET (Command \X {0, 1})]
  <2>1. \/ replies' = replies
        \/ replies' = [replies EXCEPT ![r] = @ \cup {<<c, 0>>}]
    BY DEF HandleRequest
  <2>2. replies \in [Replica -> SUBSET (Command \X {0, 1})]
    BY DEF TypeInv
  <2>3. replies[r] \cup {<<c, 0>>} \in SUBSET (Command \X {0, 1})
    BY <1>1, <2>2
  <2> HIDE DEF c
  <2> QED BY <2>1, <2>2, <2>3
<1>5. /\ cmd_pending_buffer' \in Seq(Command) /\ Len(cmd_pending_buffer') < blk_size
      /\ pending_beats' \in Seq(Batches)
  <2>1. CASE r # proposer
    BY <2>1 DEF TypeInv, HandleRequest
  <2>2. CASE r = proposer
    <3>1. /\ buffer \in Seq(Command)
          /\ ~IsBatch(buffer) => Len(buffer) < blk_size
          /\ IsBatch(buffer) => Batch(buffer) \in Batches /\ AfterBatch(buffer) = <<>>
      BY <1>1, BatchFacts
    <3>2. IF IsBatch(buffer)
          THEN pending_beats' = Append(pending_beats, Batch(buffer))
               /\ cmd_pending_buffer' = AfterBatch(buffer)
          ELSE cmd_pending_buffer' = buffer /\ UNCHANGED pending_beats
      BY <2>2 DEF HandleRequest
    <3> HIDE DEF buffer
    <3>3. /\ pending_beats \in Seq(Batches) /\ <<>> \in Seq(Command)
          /\ Len(<<>>) = 0 /\ 0 < blk_size
      BY ConstantTypes DEF TypeInv
    <3>4. CASE IsBatch(buffer)
      BY <3>1, <3>2, <3>3, <3>4
    <3>5. CASE ~IsBatch(buffer)
      BY <3>1, <3>2, <3>3, <3>5
    <3> QED BY <3>4, <3>5
  <2> QED BY <2>1, <2>2
<1> QED BY <1>2, <1>3, <1>4, <1>5 DEF TypeInv, HandleRequest, client_state

LEMMA TypePropose ==
    ASSUME TypeInv, Propose
    PROVE  TypeInv'
<1> USE ConstantTypes
<1>1. Head(pending_beats) \in Batches /\ Tail(pending_beats) \in Seq(Batches)
  BY DEF TypeInv, Propose
<1>2. chain' \in Seq(Batches) /\ Len(chain') = Len(chain) + 1 /\ Len(chain) \in Nat
  BY <1>1 DEF TypeInv, Propose
<1>3. /\ received' \in [Replica -> 0 .. Len(chain')]
      /\ decision_waiting' \in [Replica -> [Command -> 0 .. client]]
      /\ replies' \in [Replica -> SUBSET (Command \X {0, 1})]
  <2>1. Decide(proposer, Len(chain'), chain')
    BY DEF Propose
  <2>2. Len(chain) <= Len(chain') /\ Len(chain') \in 0 .. Len(chain')
    BY <1>2
  <2> DEFINE ch == chain'
  <2>3. ch \in Seq(Batches) /\ Len(chain) <= Len(ch) /\ Len(ch) \in 0 .. Len(ch)
    BY <1>2, <2>2
  <2>4. Decide(proposer, Len(ch), ch)
    BY <2>1
  <2> HIDE DEF ch
  <2>5. /\ received' \in [Replica -> 0 .. Len(ch)]
        /\ decision_waiting' \in [Replica -> [Command -> 0 .. client]]
        /\ replies' \in [Replica -> SUBSET (Command \X {0, 1})]
    BY <2>3, <2>4, DecideTypes
  <2> QED BY <2>5 DEF ch
<1> QED BY <1>1, <1>2, <1>3 DEF TypeInv, Propose, client_state, history

LEMMA TypeReceiveProposal ==
    ASSUME TypeInv, NEW r \in Replica, NEW n, ReceiveProposal(r, n)
    PROVE  TypeInv'
<1>1. chain \in Seq(Batches) /\ Len(chain) \in Nat /\ received[r] \in Nat
  BY DEF TypeInv
<1>2. n \in 0 .. Len(chain) /\ Decide(r, n, chain)
  BY <1>1 DEF ReceiveProposal
<1>3. /\ received' \in [Replica -> 0 .. Len(chain)]
      /\ decision_waiting' \in [Replica -> [Command -> 0 .. client]]
      /\ replies' \in [Replica -> SUBSET (Command \X {0, 1})]
  BY <1>1, <1>2, DecideTypes
<1> QED BY <1>3 DEF TypeInv, ReceiveProposal, client_state, history

LEMMA TypeInit ==
    ASSUME Init
    PROVE  TypeInv
<1> USE ConstantTypes
<1>1. Cardinality(waiting) = 0
  BY FS_EmptySet DEF Init
<1> QED BY <1>1 DEF Init, TypeInv

LEMMA TypeStep ==
    ASSUME TypeInv, [Next]_vars
    PROVE  TypeInv'
<1>1. ASSUME UNCHANGED vars PROVE TypeInv'
  BY <1>1 DEF TypeInv, vars, client_state, history
<1> QED BY <1>1, TypeStart, TypeHandleReply, TypeHandleRequest, TypePropose,
           TypeReceiveProposal DEF Next

-----------------------------------------------------------------------------
(* Sequences of distinct requests.                                         *)

LEMMA ToSetConcat ==
    ASSUME NEW S, NEW s \in Seq(S), NEW t \in Seq(S)
    PROVE  ToSet(s \o t) = ToSet(s) \cup ToSet(t)
<1>1. /\ s \o t \in Seq(S) /\ Len(s \o t) = Len(s) + Len(t)
      /\ \A i \in 1 .. Len(s) + Len(t) : (s \o t)[i] = IF i <= Len(s) THEN s[i] ELSE t[i - Len(s)]
  BY ConcatProperties
<1>2. Len(s) \in Nat /\ Len(t) \in Nat /\ DOMAIN s = 1 .. Len(s) /\ DOMAIN t = 1 .. Len(t)
      /\ DOMAIN (s \o t) = 1 .. Len(s) + Len(t)
  BY <1>1, LenProperties
<1> DEFINE st == s \o t
<1>3. \A i \in DOMAIN st : st[i] \in ToSet(s) \cup ToSet(t)
  <2> TAKE i \in DOMAIN st
  <2>1. CASE i <= Len(s)
    BY <1>1, <1>2, <2>1 DEF ToSet
  <2>2. CASE i > Len(s)
    <3>1. i - Len(s) \in DOMAIN t /\ st[i] = t[i - Len(s)]
      BY <1>1, <1>2, <2>2
    <3> QED BY <3>1 DEF ToSet
  <2> QED BY <1>2, <2>1, <2>2
<1>4. \A i \in DOMAIN s : s[i] \in ToSet(st)
  <2> TAKE i \in DOMAIN s
  <2>1. i \in DOMAIN st /\ st[i] = s[i]
    BY <1>1, <1>2
  <2> QED BY <2>1 DEF ToSet
<1>5. \A i \in DOMAIN t : t[i] \in ToSet(st)
  <2> TAKE i \in DOMAIN t
  <2>1. i + Len(s) \in DOMAIN st /\ st[i + Len(s)] = t[i]
    BY <1>1, <1>2
  <2> QED BY <2>1 DEF ToSet
<1> HIDE DEF st
<1>6. ToSet(st) = ToSet(s) \cup ToSet(t)
  <2>1. ToSet(st) \subseteq ToSet(s) \cup ToSet(t)
    BY <1>3 DEF ToSet
  <2>2. ToSet(s) \subseteq ToSet(st)
    BY <1>4 DEF ToSet
  <2>3. ToSet(t) \subseteq ToSet(st)
    BY <1>5 DEF ToSet
  <2> QED BY <2>1, <2>2, <2>3
<1> QED BY <1>6 DEF st

LEMMA InjectiveConcat ==
    ASSUME NEW S, NEW s \in Seq(S), NEW t \in Seq(S), IsInjective(s), IsInjective(t),
           ToSet(s) \cap ToSet(t) = {}
    PROVE  IsInjective(s \o t)
<1>1. /\ s \o t \in Seq(S) /\ Len(s \o t) = Len(s) + Len(t)
      /\ \A i \in 1 .. Len(s) + Len(t) : (s \o t)[i] = IF i <= Len(s) THEN s[i] ELSE t[i - Len(s)]
  BY ConcatProperties
<1>2. Len(s) \in Nat /\ Len(t) \in Nat /\ DOMAIN s = 1 .. Len(s) /\ DOMAIN t = 1 .. Len(t)
      /\ DOMAIN (s \o t) = 1 .. Len(s) + Len(t)
  BY <1>1, LenProperties
<1> DEFINE st == s \o t
<1>3. SUFFICES ASSUME NEW i \in DOMAIN st, NEW j \in DOMAIN st, st[i] = st[j]
               PROVE  i = j
  BY DEF IsInjective
<1>4. i \in Int /\ j \in Int
  BY <1>2
<1>5. \A k \in DOMAIN st : k <= Len(s) => k \in DOMAIN s /\ st[k] = s[k] /\ st[k] \in ToSet(s)
  BY <1>1, <1>2 DEF ToSet
<1>6. \A k \in DOMAIN st : k > Len(s) =>
        k - Len(s) \in DOMAIN t /\ st[k] = t[k - Len(s)] /\ st[k] \in ToSet(t)
  <2> TAKE k \in DOMAIN st
  <2> HAVE k > Len(s)
  <2>1. k - Len(s) \in DOMAIN t /\ st[k] = t[k - Len(s)]
    BY <1>1, <1>2
  <2> QED BY <2>1 DEF ToSet
<1> HIDE DEF st
<1>7. CASE i <= Len(s) /\ j <= Len(s)
  BY <1>3, <1>5, <1>7 DEF IsInjective
<1>8. CASE i > Len(s) /\ j > Len(s)
  <2>1. i - Len(s) = j - Len(s)
    BY <1>3, <1>6, <1>8 DEF IsInjective
  <2> QED BY <1>2, <1>4, <2>1
<1>9. CASE ~(i <= Len(s) <=> j <= Len(s))
  BY <1>2, <1>3, <1>4, <1>5, <1>6, <1>9
<1> QED BY <1>2, <1>4, <1>7, <1>8, <1>9

LEMMA InjectiveTail ==
    ASSUME NEW S, NEW s \in Seq(S), s # <<>>, IsInjective(s)
    PROVE  /\ IsInjective(Tail(s)) /\ Head(s) \in ToSet(s)
           /\ ToSet(Tail(s)) = ToSet(s) \ {Head(s)}
<1>1. /\ Tail(s) \in Seq(S) /\ Len(Tail(s)) = Len(s) - 1 /\ Len(s) \in Nat /\ Len(s) > 0
      /\ \A i \in 1 .. Len(s) - 1 : Tail(s)[i] = s[i + 1]
  BY HeadTailProperties, EmptySeq, LenProperties
<1>2. /\ DOMAIN s = 1 .. Len(s) /\ DOMAIN Tail(s) = 1 .. Len(s) - 1
      /\ Head(s) = s[1] /\ 1 \in DOMAIN s
  BY <1>1, LenProperties
<1> DEFINE t == Tail(s)
<1>3. \A i \in DOMAIN t : i + 1 \in DOMAIN s /\ t[i] = s[i + 1]
  BY <1>1, <1>2
<1>4. \A i \in DOMAIN s : i # 1 => i - 1 \in DOMAIN t /\ t[i - 1] = s[i]
  BY <1>1, <1>2
<1> HIDE DEF t
<1>5. IsInjective(t)
  <2> SUFFICES ASSUME NEW i \in DOMAIN t, NEW j \in DOMAIN t, t[i] = t[j]
               PROVE  i = j
    BY DEF IsInjective
  <2>1. i + 1 = j + 1
    BY <1>3 DEF IsInjective
  <2>2. i \in Int /\ j \in Int
    BY <1>1, <1>2 DEF t
  <2> QED BY <2>1, <2>2
<1>6. ToSet(t) \subseteq ToSet(s) \ {Head(s)}
  <2> SUFFICES ASSUME NEW i \in DOMAIN t
               PROVE  t[i] \in ToSet(s) /\ t[i] # Head(s)
    BY DEF ToSet
  <2>1. i \in 1 .. Len(s) - 1
    BY <1>2 DEF t
  <2>2. i + 1 # 1
    BY <1>1, <2>1
  <2> QED BY <1>2, <1>3, <2>2 DEF IsInjective, ToSet
<1>7. ToSet(s) \ {Head(s)} \subseteq ToSet(t)
  <2> SUFFICES ASSUME NEW i \in DOMAIN s, s[i] # Head(s)
               PROVE  s[i] \in ToSet(t)
    BY DEF ToSet
  <2>1. i # 1
    BY <1>2
  <2> QED BY <1>4, <2>1 DEF ToSet
<1>8. Head(s) \in ToSet(s)
  BY <1>2 DEF ToSet
<1> QED BY <1>5, <1>6, <1>7, <1>8 DEF t

(* Requests for m commands from a on, all different.                       *)
Numbered(s, a, m, i) == DOMAIN s = 1 .. m /\ \A k \in 1 .. m : s[k] = <<a + k - 1, i>>

LEMMA NumberedRequests ==
    ASSUME NEW a \in Nat, NEW m \in Nat, NEW i, NEW s, Numbered(s, a, m, i)
    PROVE  /\ IsInjective(s)
           /\ \A c \in Nat : \A j : <<c, j>> \in ToSet(s) <=> j = i /\ a <= c /\ c < a + m
<1>1. DOMAIN s = 1 .. m /\ \A k \in 1 .. m : s[k] = <<a + k - 1, i>> /\ a + k - 1 \in Nat
  BY DEF Numbered
<1>2. IsInjective(s)
  <2> SUFFICES ASSUME NEW k \in 1 .. m, NEW l \in 1 .. m, s[k] = s[l]
               PROVE  k = l
    BY <1>1 DEF IsInjective
  <2>1. a + k - 1 = a + l - 1
    BY <1>1
  <2> QED BY <2>1
<1>3. ASSUME NEW c \in Nat, NEW j, <<c, j>> \in ToSet(s)
      PROVE  j = i /\ a <= c /\ c < a + m
  <2>1. PICK k \in 1 .. m : s[k] = <<c, j>>
    BY <1>1, <1>3 DEF ToSet
  <2>2. c = a + k - 1 /\ j = i
    BY <1>1, <2>1
  <2> QED BY <2>2
<1>4. ASSUME NEW c \in Nat, a <= c, c < a + m
      PROVE  <<c, i>> \in ToSet(s)
  <2>1. c - a + 1 \in 1 .. m /\ a + (c - a + 1) - 1 = c
    BY <1>4
  <2>2. s[c - a + 1] = <<c, i>>
    BY <1>1, <2>1
  <2> QED BY <1>1, <2>1, <2>2 DEF ToSet
<1> QED BY <1>2, <1>3, <1>4

-----------------------------------------------------------------------------
(* What the steps do to the requests.                                      *)

(* A replica decides the blocks with the commands cs.                      *)
DecideStep(r, cs) ==
    /\ \A q \in Replica, c \in Command :
        decision_waiting'[q][c] = IF q = r /\ c \in cs THEN 0 ELSE decision_waiting[q][c]
    /\ \A q \in Replica \ {r} : replies'[q] = replies[q]
    /\ replies'[r] = replies[r] \cup {<<c, 1>> : c \in {d \in cs : decision_waiting[r][d] = client}}
    /\ \A q \in Replica : DecidedBy(q) \subseteq DecidedBy(q)'
    /\ cs \subseteq DecidedBy(r)' /\ cs \subseteq Command
    /\ UNCHANGED <<client, cnt, waiting, confirmed, cmd_pending, cmd_pending_buffer, acknowledged>>

LEMMA DecidedMonotone ==
    ASSUME NEW ch, NEW ch2, NEW m \in Nat, NEW n \in Nat, NEW n2 \in Nat, n <= n2,
           \A k \in DOMAIN ch : k \in Nat /\ k \in DOMAIN ch2 /\ ch2[k] = ch[k]
    PROVE  DecidedBetween(ch, m, n) \subseteq DecidedBetween(ch2, 0, n2)
<1> SUFFICES ASSUME NEW c \in DecidedBetween(ch, m, n)
             PROVE  c \in DecidedBetween(ch2, 0, n2)
  OBVIOUS
<1>1. PICK k \in DOMAIN ch : m < k + Depth /\ k + Depth <= n /\ c \in ToSet(ch[k])
  BY DEF DecidedBetween
<1>2. k \in DOMAIN ch2 /\ 0 < k + Depth /\ k + Depth <= n2 /\ c \in ToSet(ch2[k])
  BY <1>1, ConstantTypes
<1> QED BY <1>2 DEF DecidedBetween

LEMMA DecideFacts ==
    ASSUME TypeInv, NEW r \in Replica, NEW n \in Nat, Decide(r, n, chain'), received[r] <= n,
           chain' \in Seq(Batches), Len(chain) <= Len(chain'),
           \A k \in DOMAIN chain : chain'[k] = chain[k],
           UNCHANGED <<client, cnt, waiting, confirmed, cmd_pending, cmd_pending_buffer, acknowledged>>
    PROVE  DecideStep(r, DecidedBetween(chain', received[r], n))
<1> DEFINE cs == DecidedBetween(chain', received[r], n)
<1>1. /\ \A q \in Replica : received[q] \in Nat
      /\ \A q \in Replica : received'[q] = IF q = r THEN n ELSE received[q]
      /\ \A k \in DOMAIN chain : k \in Nat /\ k \in DOMAIN chain'
      /\ \A k \in DOMAIN chain' : k \in Nat
  <2>1. \A q \in Replica : received'[q] = IF q = r THEN n ELSE received[q]
    BY DEF TypeInv, Decide
  <2>2. /\ DOMAIN chain = 1 .. Len(chain) /\ DOMAIN chain' = 1 .. Len(chain')
        /\ Len(chain) \in Nat /\ Len(chain') \in Nat
    BY DEF TypeInv
  <2>3. \A q \in Replica : received[q] \in Nat
    BY <2>2 DEF TypeInv
  <2> QED BY <2>1, <2>2, <2>3
<1>2. cs \subseteq Command
  BY DecidedTypes
<1>3. \A q \in Replica : DecidedBy(q) \subseteq DecidedBy(q)'
  <2> TAKE q \in Replica
  <2> DEFINE n2 == received'[q]
             ch == chain'
  <2>1. n2 \in Nat /\ received[q] <= n2
    BY <1>1
  <2>2. \A k \in DOMAIN chain : k \in Nat /\ k \in DOMAIN ch /\ ch[k] = chain[k]
    BY <1>1
  <2> HIDE DEF n2, ch
  <2>3. DecidedBetween(chain, 0, received[q]) \subseteq DecidedBetween(ch, 0, n2)
    BY <1>1, <2>1, <2>2, DecidedMonotone
  <2> QED BY <2>3 DEF DecidedBy, n2, ch
<1>4. cs \subseteq DecidedBy(r)'
  <2> DEFINE ch == chain'
             m == received[r]
  <2>1. m \in Nat /\ \A k \in DOMAIN ch : k \in Nat
    BY <1>1
  <2> HIDE DEF ch, m
  <2>2. DecidedBetween(ch, m, n) \subseteq DecidedBetween(ch, 0, n)
    BY <2>1, DecidedMonotone
  <2> QED BY <1>1, <2>2 DEF DecidedBy, ch, m
<1> HIDE DEF cs
<1>5. \A q \in Replica, c \in Command :
        decision_waiting'[q][c] = IF q = r /\ c \in cs THEN 0 ELSE decision_waiting[q][c]
  <2>1. decision_waiting' = [decision_waiting EXCEPT ![r] = Forget(@, cs)]
    BY DEF Decide, cs
  <2> QED BY <2>1 DEF TypeInv, Forget
<1>6. /\ \A q \in Replica \ {r} : replies'[q] = replies[q]
      /\ replies'[r] = replies[r]
            \cup {<<c, 1>> : c \in {d \in cs : decision_waiting[r][d] = client}}
  <2>1. replies' = [replies EXCEPT
            ![r] = @ \cup {<<c, 1>> : c \in {d \in cs : decision_waiting[r][d] = client}}]
    BY DEF Decide, Reachable, cs
  <2> QED BY <2>1 DEF TypeInv
<1>7. DecideStep(r, cs)
  BY <1>2, <1>3, <1>4, <1>5, <1>6 DEF DecideStep
<1> QED BY <1>7 DEF cs

LEMMA ProposeDecides ==
    ASSUME TypeInv, Propose
    PROVE  /\ chain' = Append(chain, Head(pending_beats)) /\ Len(chain') = Len(chain) + 1
           /\ Head(pending_beats) \in Batches /\ Len(chain) \in Nat
           /\ received'[proposer] = Len(chain')
           /\ DecideStep(proposer, DecidedBetween(chain', received[proposer], Len(chain')))
<1>1. Head(pending_beats) \in Batches /\ chain \in Seq(Batches)
  BY DEF TypeInv, Propose
<1>2. chain' = Append(chain, Head(pending_beats)) /\ Decide(proposer, Len(chain'), chain')
  BY DEF Propose
<1>3. /\ chain' \in Seq(Batches) /\ Len(chain') = Len(chain) + 1 /\ Len(chain) \in Nat
      /\ \A k \in DOMAIN chain : chain'[k] = chain[k]
  BY <1>1, <1>2
<1>4. received[proposer] \in 0 .. Len(chain)
  BY ConstantTypes DEF TypeInv
<1>5. UNCHANGED <<client, cnt, waiting, confirmed, cmd_pending, cmd_pending_buffer, acknowledged>>
  BY DEF Propose, client_state, history
<1> DEFINE n == Len(chain')
<1>6. n \in Nat /\ received[proposer] <= n /\ Len(chain) <= Len(chain') /\ Decide(proposer, n, chain')
  BY <1>2, <1>3, <1>4
<1> HIDE DEF n
<1>7. DecideStep(proposer, DecidedBetween(chain', received[proposer], n))
  BY <1>3, <1>5, <1>6, ConstantTypes, DecideFacts
<1>8. received'[proposer] = Len(chain')
  BY <1>2, ConstantTypes DEF Decide, TypeInv
<1> QED BY <1>1, <1>2, <1>3, <1>7, <1>8 DEF n

LEMMA ReceiveDecides ==
    ASSUME TypeInv, NEW r \in Replica, NEW n, ReceiveProposal(r, n)
    PROVE  /\ chain' = chain /\ n \in Nat /\ received[r] < n
           /\ received' = [received EXCEPT ![r] = n]
           /\ DecideStep(r, DecidedBetween(chain', received[r], n))
<1>1. Len(chain) \in Nat /\ received[r] \in Nat /\ chain \in Seq(Batches)
  BY DEF TypeInv
<1>2. n \in Nat /\ received[r] < n /\ received[r] <= n /\ chain' = chain /\ Decide(r, n, chain')
  BY <1>1 DEF ReceiveProposal
<1>3. UNCHANGED <<client, cnt, waiting, confirmed, cmd_pending, cmd_pending_buffer, acknowledged>>
  BY DEF ReceiveProposal, client_state, history
<1>4. DecideStep(r, DecidedBetween(chain', received[r], n))
  BY <1>1, <1>2, <1>3, DecideFacts
<1> QED BY <1>2, <1>4 DEF Decide

(* The replica r handles the request of client i for c.                    *)
RequestStep(r, c, i) ==
    /\ c \in Command /\ i \in 1 .. client /\ client > 0 /\ InQueue(r, c, i)
    /\ \A q \in Replica : IsInjective(cmd_pending'[q])
    /\ \A q \in Replica : \A d, j : InQueue(q, d, j)' <=> InQueue(q, d, j) /\ <<q, d, j>> # <<r, c, i>>
    /\ IF decision_waiting[r][c] = 0
       THEN /\ UNCHANGED replies
            /\ \A q \in Replica, d \in Command : decision_waiting'[q][d] =
                   IF q = r /\ d = c THEN i ELSE decision_waiting[q][d]
       ELSE /\ UNCHANGED decision_waiting
            /\ \A q \in Replica : replies'[q] =
                   IF q = r /\ i = client THEN replies[r] \cup {<<c, 0>>} ELSE replies[q]
    /\ \A q \in Replica : DecidedBy(q)' = DecidedBy(q)
    /\ UNCHANGED <<client, cnt, waiting, confirmed, chain, received, acknowledged>>

LEMMA RequestFacts ==
    ASSUME TypeInv, RequestInv, NEW r \in Replica, HandleRequest(r)
    PROVE  RequestStep(r, Head(cmd_pending[r])[1], Head(cmd_pending[r])[2])
<1> DEFINE c == Head(cmd_pending[r])[1]
           i == Head(cmd_pending[r])[2]
           S == Command \X (1 .. client)
<1>1. cmd_pending[r] \in Seq(S) /\ cmd_pending[r] # <<>> /\ IsInjective(cmd_pending[r])
  BY DEF TypeInv, HandleRequest, RequestInv
<1>2. /\ IsInjective(Tail(cmd_pending[r])) /\ Head(cmd_pending[r]) \in ToSet(cmd_pending[r])
      /\ ToSet(Tail(cmd_pending[r])) = ToSet(cmd_pending[r]) \ {Head(cmd_pending[r])}
      /\ Head(cmd_pending[r]) \in S
  <2> HIDE DEF S
  <2> QED BY <1>1, InjectiveTail, HeadTailProperties
<1>3. c \in Command /\ i \in 1 .. client /\ Head(cmd_pending[r]) = <<c, i>>
  BY <1>2
<1>4. \A q \in Replica : cmd_pending'[q] = IF q = r THEN Tail(cmd_pending[r]) ELSE cmd_pending[q]
  BY DEF TypeInv, HandleRequest
<1>5. /\ IF decision_waiting[r][c] = 0
         THEN decision_waiting' = [decision_waiting EXCEPT ![r][c] = i] /\ UNCHANGED replies
         ELSE /\ replies' = IF i = client THEN [replies EXCEPT ![r] = @ \cup {<<c, 0>>}] ELSE replies
              /\ UNCHANGED decision_waiting
      /\ UNCHANGED <<client, cnt, waiting, confirmed, chain, received, acknowledged>>
  BY DEF HandleRequest, Reachable, client_state
<1> HIDE DEF c, i, S
<1>6. InQueue(r, c, i) /\ \A q \in Replica : IsInjective(cmd_pending'[q])
  BY <1>2, <1>3, <1>4 DEF InQueue, RequestInv
<1>7. \A q \in Replica : \A d, j : InQueue(q, d, j)' <=> InQueue(q, d, j) /\ <<q, d, j>> # <<r, c, i>>
  BY <1>2, <1>3, <1>4 DEF InQueue
<1>8. \A q \in Replica : DecidedBy(q)' = DecidedBy(q)
  BY <1>5 DEF DecidedBy
<1>9. client > 0
  BY <1>3, ConstantTypes DEF TypeInv
<1>10. IF decision_waiting[r][c] = 0
       THEN /\ UNCHANGED replies
            /\ \A q \in Replica, d \in Command : decision_waiting'[q][d] =
                   IF q = r /\ d = c THEN i ELSE decision_waiting[q][d]
       ELSE /\ UNCHANGED decision_waiting
            /\ \A q \in Replica : replies'[q] =
                   IF q = r /\ i = client THEN replies[r] \cup {<<c, 0>>} ELSE replies[q]
  <2>1. CASE decision_waiting[r][c] = 0
    BY <1>3, <1>5, <2>1 DEF TypeInv
  <2>2. CASE decision_waiting[r][c] # 0
    BY <1>5, <2>2 DEF TypeInv
  <2> QED BY <2>1, <2>2
<1>11. RequestStep(r, c, i)
  BY <1>3, <1>5, <1>6, <1>7, <1>8, <1>9, <1>10 DEF RequestStep
<1> QED BY <1>11 DEF c, i

(* The client takes the answer d of r for c, and sends m commands.         *)
ReplyStep(r, c, d, m) ==
    /\ c \in Command /\ <<c, d>> \in replies[r] /\ m \in Nat
    /\ c \in waiting => c < cnt /\ client > 0
    /\ m # 0 => c \in waiting
    /\ \A q \in Replica : replies'[q] = IF q = r THEN replies[r] \ {<<c, d>>} ELSE replies[q]
    /\ \A q \in Replica : IsInjective(cmd_pending'[q])
    /\ \A q \in Replica, e \in Command : \A j :
        InQueue(q, e, j)' <=> InQueue(q, e, j) \/ (j = client /\ cnt <= e /\ e < cnt + m)
    /\ cnt' = cnt + m
    /\ \A e \in Command :
        confirmed'[e] = IF e = c /\ c \in waiting THEN confirmed[e] + 1 ELSE confirmed[e]
    /\ \/ UNCHANGED acknowledged
       \/ /\ acknowledged' = acknowledged \cup {<<c, client>>}
          /\ c \in waiting /\ confirmed'[c] > nfaulty
    /\ UNCHANGED <<client, decision_waiting, cmd_pending_buffer, pending_beats, chain, received>>

LEMMA ReplyFacts ==
    ASSUME TypeInv, RequestInv, NEW r \in Replica, HandleReply(r)
    PROVE  \E c \in Command, d \in {0, 1}, m \in Nat : ReplyStep(r, c, d, m)
<1>1. PICK x \in replies[r] :
        /\ replies' = [replies EXCEPT ![r] = @ \ {x}]
        /\ IF x[1] \notin waiting
           THEN UNCHANGED <<client_state, cmd_pending, acknowledged>>
           ELSE /\ confirmed' = [confirmed EXCEPT ![x[1]] = @ + 1]
                /\ IF ~Enough(confirmed'[x[1]])
                   THEN UNCHANGED <<cnt, waiting, cmd_pending, acknowledged>>
                   ELSE /\ waiting' = (waiting \ {x[1]}) \cup Window(waiting \ {x[1]})
                        /\ cnt' = cnt + Cardinality(Window(waiting \ {x[1]}))
                        /\ cmd_pending' = [q \in Replica |-> cmd_pending[q]
                               \o Requests(Window(waiting \ {x[1]}), client)]
                        /\ acknowledged' = acknowledged \cup {<<x[1], client>>}
                /\ UNCHANGED client
  BY DEF HandleReply
<1> DEFINE c == x[1]
           d == x[2]
<1>2. c \in Command /\ d \in {0, 1} /\ x = <<c, d>>
  BY <1>1 DEF TypeInv
<1> HIDE DEF c, d
<1>3. UNCHANGED <<client, decision_waiting, cmd_pending_buffer, pending_beats, chain, received>>
  BY <1>1 DEF HandleReply, client_state
<1>4. \A q \in Replica : replies'[q] = IF q = r THEN replies[r] \ {<<c, d>>} ELSE replies[q]
  BY <1>1, <1>2 DEF TypeInv
<1>5. cnt \in Nat /\ client \in Nat /\ Command \subseteq Nat
  BY ConstantTypes DEF TypeInv
<1>6. c \in waiting => c < cnt /\ client > 0
  <2>1. waiting \subseteq 0 .. cnt - 1 /\ (client = 0 => cnt = 0)
    BY DEF TypeInv
  <2> QED BY <1>2, <1>5, <2>1
<1>7. \A e \in Command :
        confirmed'[e] = IF e = c /\ c \in waiting THEN confirmed[e] + 1 ELSE confirmed[e]
  <2>1. CASE c \in waiting
    <3>1. confirmed' = [confirmed EXCEPT ![c] = @ + 1]
      BY <1>1, <2>1 DEF c
    <3> QED BY <1>2, <2>1, <3>1 DEF TypeInv
  <2>2. CASE c \notin waiting
    BY <1>1, <2>2 DEF c, client_state
  <2> QED BY <2>1, <2>2
<1>8. CASE c \notin waiting \/ ~Enough(confirmed'[c])
  <2>1. UNCHANGED <<cnt, cmd_pending, acknowledged>>
    BY <1>1, <1>8 DEF c, client_state
  <2>2. \A q \in Replica : IsInjective(cmd_pending'[q])
    BY <2>1 DEF RequestInv
  <2>3. \A q \in Replica, e \in Command : \A j :
        InQueue(q, e, j)' <=> InQueue(q, e, j) \/ (j = client /\ cnt <= e /\ e < cnt + 0)
    BY <1>5, <2>1 DEF InQueue
  <2>4. cnt' = cnt + 0
    BY <1>5, <2>1
  <2>5. ReplyStep(r, c, d, 0)
    BY <1>1, <1>2, <1>3, <1>4, <1>6, <1>7, <2>1, <2>2, <2>3, <2>4 DEF ReplyStep
  <2> QED BY <1>2, <2>5
<1>9. CASE c \in waiting /\ Enough(confirmed'[c])
  <2> DEFINE new == Window(waiting \ {c})
             m == Cardinality(new)
             more == Requests(new, client)
  <2>1. /\ cnt' = cnt + m
        /\ cmd_pending' = [q \in Replica |-> cmd_pending[q] \o more]
        /\ acknowledged' = acknowledged \cup {<<c, client>>}
    BY <1>1, <1>9 DEF c
  <2>2. m \in Nat /\ cnt + m <= MaxIter
    BY WindowFacts
  <2>3. more = [k \in 1 .. m |-> <<cnt + k - 1, client>>]
    BY DEF Requests
  <2> HIDE DEF new, m, more
  <2>4. /\ IsInjective(more) /\ more \in Seq(Nat \X {client})
        /\ \A e \in Nat : \A j : <<e, j>> \in ToSet(more) <=> j = client /\ cnt <= e /\ e < cnt + m
    <3>1. Numbered(more, cnt, m, client)
      BY <2>3 DEF Numbered
    <3>2. more \in Seq(Nat \X {client})
      BY <1>5, <2>2, <2>3
    <3> QED BY <1>5, <2>2, <3>1, <3>2, NumberedRequests
  <2>5. \A q \in Replica : /\ IsInjective(cmd_pending'[q])
                           /\ ToSet(cmd_pending'[q]) = ToSet(cmd_pending[q]) \cup ToSet(more)
    <3> TAKE q \in Replica
    <3>1. cmd_pending[q] \in Seq(Nat \X Nat) /\ more \in Seq(Nat \X Nat)
      <4>1. Command \X (1 .. client) \subseteq Nat \X Nat /\ Nat \X {client} \subseteq Nat \X Nat
        <5>1. 1 .. client \subseteq Nat /\ {client} \subseteq Nat
          BY <1>5
        <5> QED BY <1>5, <5>1
      <4>2. cmd_pending[q] \in Seq(Command \X (1 .. client))
        BY DEF TypeInv
      <4> QED BY <2>4, <4>1, <4>2, SeqMonotonic
    <3>2. ToSet(cmd_pending[q]) \cap ToSet(more) = {}
      <4> SUFFICES ASSUME NEW y \in ToSet(cmd_pending[q]), y \in ToSet(more)
                   PROVE  FALSE
        OBVIOUS
      <4>1. y \in Command \X (1 .. client)
        <5>1. cmd_pending[q] \in Seq(Command \X (1 .. client))
          BY DEF TypeInv
        <5> QED BY <5>1 DEF ToSet
      <4>2. y = <<y[1], y[2]>> /\ y[1] \in Command
        BY <4>1
      <4>3. y[2] = client /\ cnt <= y[1]
        BY <1>5, <2>4, <4>2
      <4>4. InQueue(q, y[1], client)
        BY <4>2, <4>3 DEF InQueue
      <4> QED BY <1>5, <1>6, <1>9, <4>2, <4>3, <4>4 DEF RequestInv, Owing
    <3>3. IsInjective(cmd_pending[q])
      BY DEF RequestInv
    <3> QED BY <2>1, <2>4, <3>1, <3>2, <3>3, ToSetConcat, InjectiveConcat
  <2>6. \A q \in Replica, e \in Command : \A j :
        InQueue(q, e, j)' <=> InQueue(q, e, j) \/ (j = client /\ cnt <= e /\ e < cnt + m)
    BY <1>5, <2>4, <2>5 DEF InQueue
  <2>7. confirmed'[c] > nfaulty
    BY <1>9 DEF Enough
  <2>8. ReplyStep(r, c, d, m)
    BY <1>1, <1>2, <1>3, <1>4, <1>6, <1>7, <1>9, <2>1, <2>2, <2>5, <2>6, <2>7 DEF ReplyStep
  <2> QED BY <1>2, <2>2, <2>8
<1> QED BY <1>8, <1>9

(* The client starts, and sends its first m commands.                      *)
StartStep(m) ==
    /\ m \in Nat /\ client' = client + 1 /\ cnt' = m
    /\ \A c \in Command : confirmed'[c] = 0
    /\ \A r \in Replica : replies'[r] = {}
    /\ \A r \in Replica : IsInjective(cmd_pending'[r])
    /\ \A r \in Replica, c \in Command : \A i :
        InQueue(r, c, i)' => \/ InQueue(r, c, i) /\ i \in 1 .. client
                             \/ i = client' /\ c < m
    /\ UNCHANGED <<decision_waiting, cmd_pending_buffer, pending_beats, chain, received, acknowledged>>

LEMMA StartFacts ==
    ASSUME TypeInv, RequestInv, Start
    PROVE  \E m \in Nat : StartStep(m)
<1> DEFINE m == cnt'
           sent == [k \in 1 .. m |-> <<k - 1, client'>>]
<1>1. client \in Nat /\ client' = client + 1 /\ m \in Nat /\ Command \subseteq Nat
  BY ConstantTypes DEF Start, TypeInv
<1>2. PICK lost \in SUBSET Up : cmd_pending' = [r \in Replica |->
            (IF r \in lost THEN <<>> ELSE cmd_pending[r]) \o sent]
  BY DEF Start
<1>3. /\ UNCHANGED <<decision_waiting, cmd_pending_buffer, pending_beats, chain, received, acknowledged>>
      /\ \A c \in Command : confirmed'[c] = 0
      /\ \A r \in Replica : replies'[r] = {}
  BY DEF Start, history
<1>4. sent = [k \in 1 .. m |-> <<0 + k - 1, client'>>]
  BY <1>1
<1> HIDE DEF m, sent
<1>5. /\ IsInjective(sent) /\ sent \in Seq(Nat \X {client'})
      /\ \A c \in Nat : \A j : <<c, j>> \in ToSet(sent) <=> j = client' /\ 0 <= c /\ c < 0 + m
  <2>1. Numbered(sent, 0, m, client')
    BY <1>4 DEF Numbered
  <2>2. sent \in Seq(Nat \X {client'})
    BY <1>1, <1>4
  <2> QED BY <1>1, <2>1, <2>2, NumberedRequests
<1>6. ASSUME NEW r \in Replica
      PROVE  /\ IsInjective(cmd_pending'[r])
             /\ \A c \in Command : \A i :
                InQueue(r, c, i)' => \/ InQueue(r, c, i) /\ i \in 1 .. client
                                     \/ i = client' /\ c < m
  <2> DEFINE old == IF r \in lost THEN <<>> ELSE cmd_pending[r]
  <2>1. cmd_pending[r] \in Seq(Command \X (1 .. client)) /\ IsInjective(cmd_pending[r])
    BY DEF TypeInv, RequestInv
  <2>2. /\ old \in Seq(Command \X (1 .. client)) /\ IsInjective(old)
        /\ ToSet(old) \subseteq ToSet(cmd_pending[r])
    <3>1. IsInjective(<<>>) /\ ToSet(<<>>) = {}
      BY DEF IsInjective, ToSet
    <3> QED BY <2>1, <3>1
  <2>3. cmd_pending'[r] = old \o sent
    BY <1>2
  <2> HIDE DEF old
  <2>4. old \in Seq(Nat \X Nat) /\ sent \in Seq(Nat \X Nat)
    <3>1. Command \X (1 .. client) \subseteq Nat \X Nat /\ Nat \X {client'} \subseteq Nat \X Nat
      <4>1. 1 .. client \subseteq Nat /\ {client'} \subseteq Nat
        BY <1>1
      <4> QED BY <1>1, <4>1
    <3> QED BY <1>5, <2>2, <3>1, SeqMonotonic
  <2>5. \A y \in ToSet(old) : y \in Command \X (1 .. client)
    BY <2>2 DEF ToSet
  <2>6. \A y \in ToSet(sent) : y[2] = client'
    BY <1>5 DEF ToSet
  <2>7. ToSet(old) \cap ToSet(sent) = {}
    <3> SUFFICES ASSUME NEW y \in ToSet(old), y \in ToSet(sent)
                 PROVE  FALSE
      OBVIOUS
    <3>1. y[2] \in 1 .. client /\ y[2] = client + 1
      BY <1>1, <2>5, <2>6
    <3> QED BY <1>1, <3>1
  <2>8. IsInjective(cmd_pending'[r]) /\ ToSet(cmd_pending'[r]) = ToSet(old) \cup ToSet(sent)
    BY <1>5, <2>2, <2>3, <2>4, <2>7, ToSetConcat, InjectiveConcat
  <2>9. ASSUME NEW c \in Command, NEW i, InQueue(r, c, i)'
        PROVE  \/ InQueue(r, c, i) /\ i \in 1 .. client
               \/ i = client' /\ c < m
    <3>1. <<c, i>> \in ToSet(cmd_pending'[r])
      BY <2>9 DEF InQueue
    <3>2. CASE <<c, i>> \in ToSet(old)
      BY <2>2, <2>5, <3>2 DEF InQueue
    <3>3. CASE <<c, i>> \in ToSet(sent)
      BY <1>1, <1>5, <3>3
    <3> QED BY <2>8, <3>1, <3>2, <3>3
  <2> QED BY <2>8, <2>9
<1>7. StartStep(m)
  BY <1>1, <1>3, <1>6 DEF StartStep, m
<1> QED BY <1>1, <1>7

-----------------------------------------------------------------------------
(* Requests are in one place.                                              *)

LEMMA RequestInit ==
    ASSUME Init
    PROVE  RequestInv
  BY DEF Init, RequestInv, IsInjective

LEMMA RequestStart ==
    ASSUME TypeInv, RequestInv, Start
    PROVE  RequestInv'
<1>1. PICK m \in Nat : StartStep(m)
  BY StartFacts
<1>2. client \in Nat /\ client' = client + 1 /\ Command \subseteq Nat
  BY <1>1, CounterTypes, ConstantTypes DEF StartStep
<1>3. ASSUME NEW r \in Replica, NEW c \in Command
      PROVE  /\ InQueue(r, c, client)' => c < m
             /\ decision_waiting'[r][c] # client'
             /\ ~Answering(r, c)'
  <2>1. InQueue(r, c, client)' => c < m
    <3>1. InQueue(r, c, client)' <=> <<c, client'>> \in ToSet(cmd_pending'[r])
      BY DEF InQueue
    <3>2. <<c, client'>> \in ToSet(cmd_pending'[r]) => client' \in 1 .. client \/ c < m
      BY <1>1 DEF StartStep, InQueue
    <3>3. client' \notin 1 .. client
      BY <1>2
    <3> QED BY <3>1, <3>2, <3>3
  <2>2. decision_waiting'[r][c] \in 0 .. client
    BY <1>1 DEF StartStep, TypeInv
  <2>3. replies'[r] = {}
    BY <1>1 DEF StartStep
  <2> QED BY <1>2, <2>1, <2>2, <2>3 DEF Answering
<1>4. /\ \A r \in Replica : IsInjective(cmd_pending'[r])
      /\ \A r \in Replica : replies'[r] = {}
      /\ cnt' = m
  BY <1>1 DEF StartStep
<1>5. ASSUME NEW r \in Replica, NEW c \in Command
      PROVE  c >= cnt' => ~Owing(r, c)'
  BY <1>2, <1>3, <1>4 DEF Owing
<1> QED BY <1>3, <1>4, <1>5 DEF RequestInv

LEMMA RequestHandleReply ==
    ASSUME TypeInv, RequestInv, NEW r \in Replica, HandleReply(r)
    PROVE  RequestInv'
<1>1. PICK c \in Command, d \in {0, 1}, m \in Nat : ReplyStep(r, c, d, m)
  BY ReplyFacts
<1>2. cnt \in Nat /\ client \in Nat /\ Command \subseteq Nat /\ cnt' = cnt + m /\ client' = client
  BY <1>1, CounterTypes, ConstantTypes DEF ReplyStep
<1>3. \A q \in Replica : IsInjective(cmd_pending'[q])
  BY <1>1 DEF ReplyStep
<1>4. \A q \in Replica, e \in Command :
        InQueue(q, e, client)' <=> InQueue(q, e, client) \/ (cnt <= e /\ e < cnt + m)
  <2> TAKE q \in Replica, e \in Command
  <2>1. InQueue(q, e, client)' <=> <<e, client>> \in ToSet(cmd_pending'[q])
    BY <1>2 DEF InQueue
  <2>2. <<e, client>> \in ToSet(cmd_pending'[q])
            <=> InQueue(q, e, client) \/ (cnt <= e /\ e < cnt + m)
    BY <1>1 DEF ReplyStep, InQueue
  <2> QED BY <2>1, <2>2
<1>5. \A q \in Replica : replies'[q] \subseteq replies[q]
  BY <1>1 DEF ReplyStep
<1>6. decision_waiting' = decision_waiting
  BY <1>1 DEF ReplyStep
<1>7. ASSUME NEW q \in Replica, NEW e \in Command, client > 0
      PROVE  /\ InQueue(q, e, client)' => decision_waiting'[q][e] # client'
             /\ Answering(q, e)' => /\ decision_waiting'[q][e] # client'
                                    /\ ~InQueue(q, e, client)'
             /\ ~(<<e, 0>> \in replies'[q] /\ <<e, 1>> \in replies'[q])
             /\ e >= cnt' => ~Owing(q, e)'
  <2>1. Answering(q, e)' => Answering(q, e)
    BY <1>5 DEF Answering
  <2>2. /\ InQueue(q, e, client) => decision_waiting[q][e] # client
        /\ Answering(q, e) => decision_waiting[q][e] # client /\ ~InQueue(q, e, client)
        /\ ~(<<e, 0>> \in replies[q] /\ <<e, 1>> \in replies[q])
        /\ e >= cnt => ~InQueue(q, e, client) /\ decision_waiting[q][e] # client /\ ~Answering(q, e)
    BY <1>7 DEF RequestInv, Owing
  <2>3. e \in Nat
    BY <1>2
  <2>4. InQueue(q, e, client)' <=> InQueue(q, e, client) \/ (cnt <= e /\ e < cnt + m)
    BY <1>4
  <2>5. e >= cnt' => e >= cnt /\ ~(e < cnt + m)
    BY <1>2, <2>3
  <2>6. e >= cnt' => ~Owing(q, e)'
    BY <1>2, <1>6, <2>1, <2>2, <2>4, <2>5 DEF Owing
  <2> QED BY <1>2, <1>5, <1>6, <2>1, <2>2, <2>3, <2>4, <2>6
<1> QED BY <1>2, <1>3, <1>7 DEF RequestInv

LEMMA RequestHandleRequest ==
    ASSUME TypeInv, RequestInv, NEW r \in Replica, HandleRequest(r)
    PROVE  RequestInv'
<1>1. PICK c, i : RequestStep(r, c, i)
  BY RequestFacts
<1>2. /\ c \in Command /\ i \in 1 .. client /\ client > 0 /\ InQueue(r, c, i)
      /\ client' = client /\ cnt' = cnt /\ client \in Nat
  BY <1>1, CounterTypes, ConstantTypes DEF RequestStep
<1>3. \A q \in Replica : IsInjective(cmd_pending'[q])
  BY <1>1 DEF RequestStep
<1>4. \A q \in Replica, e \in Command :
        InQueue(q, e, client)' <=> InQueue(q, e, client) /\ <<q, e, client>> # <<r, c, i>>
  <2> TAKE q \in Replica, e \in Command
  <2>1. InQueue(q, e, client)' <=> <<e, client>> \in ToSet(cmd_pending'[q])
    BY <1>2 DEF InQueue
  <2>2. <<e, client>> \in ToSet(cmd_pending'[q])
            <=> InQueue(q, e, client) /\ <<q, e, client>> # <<r, c, i>>
    BY <1>1 DEF RequestStep, InQueue
  <2> QED BY <2>1, <2>2
<1>5. ASSUME NEW q \in Replica, NEW e \in Command
      PROVE  /\ InQueue(q, e, client)' => decision_waiting'[q][e] # client'
             /\ Answering(q, e)' => /\ decision_waiting'[q][e] # client'
                                    /\ ~InQueue(q, e, client)'
             /\ ~(<<e, 0>> \in replies'[q] /\ <<e, 1>> \in replies'[q])
             /\ e >= cnt' => ~Owing(q, e)'
  <2>1. /\ InQueue(q, e, client) => decision_waiting[q][e] # client
        /\ Answering(q, e) => decision_waiting[q][e] # client /\ ~InQueue(q, e, client)
        /\ ~(<<e, 0>> \in replies[q] /\ <<e, 1>> \in replies[q])
        /\ e >= cnt => ~Owing(q, e)
    BY <1>2 DEF RequestInv
  <2>2. CASE q # r \/ e # c \/ i # client
    <3>1. InQueue(q, e, client)' <=> InQueue(q, e, client)
      BY <1>4, <2>2
    <3>2. decision_waiting'[q][e] = client' <=> decision_waiting[q][e] = client
      BY <1>1, <1>2, <2>2 DEF RequestStep
    <3>3. \A f \in {0, 1} : <<e, f>> \in replies'[q] <=> <<e, f>> \in replies[q]
      BY <1>1, <1>2, <2>2 DEF RequestStep
    <3>4. Answering(q, e)' <=> Answering(q, e)
      BY <3>3 DEF Answering
    <3>5. Owing(q, e)' <=> Owing(q, e)
      BY <3>1, <3>2, <3>4 DEF Owing
    <3> QED BY <1>2, <2>1, <3>1, <3>2, <3>3, <3>4, <3>5
  <2>3. CASE q = r /\ e = c /\ i = client
    <3>1. InQueue(q, e, client) /\ ~InQueue(q, e, client)'
      BY <1>2, <1>4, <2>3
    <3>2. ~Answering(q, e) /\ decision_waiting[q][e] # client /\ ~(e >= cnt')
      BY <1>2, <2>1, <3>1 DEF Owing
    <3>3. \/ replies' = replies
          \/ decision_waiting' = decision_waiting /\ replies'[q] = replies[q] \cup {<<e, 0>>}
      BY <1>1, <2>3 DEF RequestStep
    <3> QED BY <1>2, <3>1, <3>2, <3>3 DEF Answering
  <2> QED BY <2>2, <2>3
<1> QED BY <1>2, <1>3, <1>5 DEF RequestInv

LEMMA RequestDecide ==
    ASSUME TypeInv, RequestInv, NEW r \in Replica, NEW cs, DecideStep(r, cs)
    PROVE  RequestInv'
<1>1. client' = client /\ cnt' = cnt /\ cmd_pending' = cmd_pending /\ client \in Nat
  BY CounterTypes, ConstantTypes DEF DecideStep
<1>2. \A q \in Replica, e \in Command : InQueue(q, e, client)' <=> InQueue(q, e, client)
  BY <1>1 DEF InQueue
<1>3. ASSUME NEW q \in Replica, NEW e \in Command, client > 0
      PROVE  /\ InQueue(q, e, client)' => decision_waiting'[q][e] # client'
             /\ Answering(q, e)' => /\ decision_waiting'[q][e] # client'
                                    /\ ~InQueue(q, e, client)'
             /\ ~(<<e, 0>> \in replies'[q] /\ <<e, 1>> \in replies'[q])
             /\ e >= cnt' => ~Owing(q, e)'
  <2>1. /\ InQueue(q, e, client) => decision_waiting[q][e] # client
        /\ Answering(q, e) => decision_waiting[q][e] # client /\ ~InQueue(q, e, client)
        /\ ~(<<e, 0>> \in replies[q] /\ <<e, 1>> \in replies[q])
        /\ e >= cnt => ~Owing(q, e)
    BY <1>3 DEF RequestInv
  <2>2. CASE q # r \/ e \notin cs \/ decision_waiting[q][e] # client
    <3>1. \A f \in {0, 1} : <<e, f>> \in replies'[q] <=> <<e, f>> \in replies[q]
      BY <1>1, <2>2 DEF DecideStep
    <3>2. Answering(q, e)' <=> Answering(q, e)
      BY <3>1 DEF Answering
    <3>3. decision_waiting'[q][e] = client' <=> decision_waiting[q][e] = client
      BY <1>1, <1>3, <2>2 DEF DecideStep
    <3>4. Owing(q, e)' <=> Owing(q, e)
      BY <1>2, <3>2, <3>3 DEF Owing
    <3> QED BY <1>1, <1>2, <2>1, <3>1, <3>2, <3>3, <3>4
  <2>3. CASE q = r /\ e \in cs /\ decision_waiting[q][e] = client
    <3>1. ~InQueue(q, e, client) /\ ~Answering(q, e) /\ ~(e >= cnt)
      BY <2>1, <2>3 DEF Owing
    <3>2. decision_waiting'[q][e] # client'
      BY <1>1, <1>3, <2>3 DEF DecideStep
    <3>3. <<e, 0>> \notin replies'[q]
      BY <2>3, <3>1 DEF DecideStep, Answering
    <3> QED BY <1>1, <1>2, <3>1, <3>2, <3>3
  <2> QED BY <2>2, <2>3
<1> QED BY <1>1, <1>3 DEF RequestInv

LEMMA RequestStepInv ==
    ASSUME TypeInv, RequestInv, [Next]_vars
    PROVE  RequestInv'
<1>1. ASSUME UNCHANGED vars PROVE RequestInv'
  BY <1>1 DEF RequestInv, vars, client_state, history, InQueue, Answering, Owing
<1>2. ASSUME Propose PROVE RequestInv'
  BY <1>2, ProposeDecides, RequestDecide, ConstantTypes
<1>3. ASSUME NEW r \in Replica, NEW n, ReceiveProposal(r, n) PROVE RequestInv'
  BY <1>3, ReceiveDecides, RequestDecide
<1> QED BY <1>1, <1>2, <1>3, RequestStart, RequestHandleReply, RequestHandleRequest DEF Next

-----------------------------------------------------------------------------
(* The answers that the client counts.                                     *)

LEMMA AnsweredFinite ==
    ASSUME NEW S \in SUBSET Replica
    PROVE  IsFiniteSet(S) /\ Cardinality(S) \in Nat /\ Cardinality(S) <= Cardinality(Replica)
  BY ConstantTypes, FS_Subset, FS_CardinalityType

LEMMA CardinalityGrows ==
    ASSUME NEW S \in SUBSET Replica, NEW T \in SUBSET Replica, S \subseteq T
    PROVE  Cardinality(S) <= Cardinality(T)
  BY AnsweredFinite, FS_Subset

AcknowledgedInv == AnswerInv /\ ConfirmedDecided

LEMMA AnswerInit ==
    ASSUME Init
    PROVE  AcknowledgedInv
<1>1. \A c \in Command : Cardinality(Answered(c)) \in Nat
  BY AnsweredFinite DEF Answered
<1> QED BY <1>1 DEF Init, AcknowledgedInv, AnswerInv, ConfirmedDecided

(* When nobody answers that owes nothing, and decisions stay.              *)
LEMMA AnsweredStays ==
    ASSUME NEW c \in Command, client' = client,
           \A r \in Replica : Owing(r, c)' => Owing(r, c),
           \A r \in Replica : DecidedBy(r) \subseteq DecidedBy(r)'
    PROVE  Answered(c) \subseteq Answered(c)' /\ Cardinality(Answered(c)) <= Cardinality(Answered(c)')
<1>1. Answered(c) \subseteq Answered(c)'
  BY DEF Answered
<1> DEFINE S == Answered(c)'
<1>2. S \subseteq Replica /\ Answered(c) \subseteq Replica
  BY DEF Answered
<1> HIDE DEF S
<1>3. Answered(c) \subseteq S => Cardinality(Answered(c)) <= Cardinality(S)
  BY <1>2, CardinalityGrows
<1> QED BY <1>1, <1>3 DEF S

LEMMA ConfirmedStays ==
    ASSUME ConfirmedDecided, UNCHANGED acknowledged,
           \A r \in Replica : DecidedBy(r) \subseteq DecidedBy(r)'
    PROVE  ConfirmedDecided'
<1> SUFFICES ASSUME NEW c \in Command, <<c, 1>> \in acknowledged
             PROVE  Cardinality({r \in Replica : c \in DecidedBy(r)'}) > nfaulty
  BY DEF ConfirmedDecided
<1> DEFINE S == {r \in Replica : c \in DecidedBy(r)}
           T == {r \in Replica : c \in DecidedBy(r)'}
<1>1. Cardinality(S) > nfaulty
  BY DEF ConfirmedDecided
<1>2. S \subseteq T /\ S \in SUBSET Replica /\ T \in SUBSET Replica
  OBVIOUS
<1> HIDE DEF S, T
<1>3. Cardinality(S) <= Cardinality(T) /\ Cardinality(S) \in Nat /\ Cardinality(T) \in Nat
  BY <1>2, CardinalityGrows, AnsweredFinite
<1>4. Cardinality(T) > nfaulty
  BY <1>1, <1>3, ConstantTypes
<1> QED BY <1>4 DEF T

LEMMA AnswerStart ==
    ASSUME TypeInv, RequestInv, AcknowledgedInv, Start
    PROVE  AcknowledgedInv'
<1>1. PICK m \in Nat : StartStep(m)
  BY StartFacts
<1>2. \A r \in Replica : DecidedBy(r)' = DecidedBy(r) /\ replies'[r] = {}
  BY <1>1 DEF StartStep, DecidedBy
<1>3. \A c \in Command : confirmed'[c] = 0 /\ Cardinality(Answered(c)') \in Nat
  <2> TAKE c \in Command
  <2> DEFINE S == Answered(c)'
  <2>1. S \in SUBSET Replica
    BY DEF Answered
  <2> HIDE DEF S
  <2>2. Cardinality(S) \in Nat
    BY <2>1, AnsweredFinite
  <2> QED BY <1>1, <2>2 DEF StartStep, S
<1>4. AnswerInv'
  BY <1>2, <1>3 DEF AnswerInv
<1>5. ConfirmedDecided'
  BY <1>1, <1>2, ConfirmedStays DEF AcknowledgedInv, StartStep
<1> QED BY <1>4, <1>5 DEF AcknowledgedInv

LEMMA AnswerHandleReply ==
    ASSUME TypeInv, RequestInv, AcknowledgedInv, NEW r \in Replica, HandleReply(r)
    PROVE  AcknowledgedInv'
<1>1. PICK c \in Command, d \in {0, 1}, m \in Nat : ReplyStep(r, c, d, m)
  BY ReplyFacts
<1>2. /\ cnt \in Nat /\ client \in Nat /\ Command \subseteq Nat /\ cnt' = cnt + m /\ client' = client
      /\ \A e \in Command : confirmed[e] \in Nat
      /\ c \in waiting => c < cnt /\ client > 0
  <2>1. cnt \in Nat /\ client \in Nat /\ Command \subseteq Nat
    BY ConstantTypes DEF TypeInv
  <2>2. \A e \in Command : confirmed[e] \in Nat
    BY DEF TypeInv
  <2>3. cnt' = cnt + m /\ client' = client /\ (c \in waiting => c < cnt /\ client > 0)
    BY <1>1 DEF ReplyStep
  <2> QED BY <2>1, <2>2, <2>3
<1>3. \A q \in Replica : DecidedBy(q)' = DecidedBy(q)
  BY <1>1 DEF ReplyStep, DecidedBy
<1>4. \A q \in Replica : replies'[q] \subseteq replies[q]
  BY <1>1 DEF ReplyStep
<1>5. \A q \in Replica, e \in Command : e < cnt \/ e >= cnt' => (Owing(q, e)' => Owing(q, e))
  <2> TAKE q \in Replica, e \in Command
  <2> HAVE e < cnt \/ e >= cnt'
  <2>1. e \in Nat /\ ~(cnt <= e /\ e < cnt + m)
    BY <1>2
  <2>2. InQueue(q, e, client)' <=> <<e, client>> \in ToSet(cmd_pending'[q])
    BY <1>2 DEF InQueue
  <2>3. <<e, client>> \in ToSet(cmd_pending'[q]) => InQueue(q, e, client)
    BY <1>1, <2>1 DEF ReplyStep, InQueue
  <2>4. decision_waiting' = decision_waiting
    BY <1>1 DEF ReplyStep
  <2>5. Answering(q, e)' => Answering(q, e)
    BY <1>4 DEF Answering
  <2> QED BY <1>2, <2>2, <2>3, <2>4, <2>5 DEF Owing
<1>6. \A e \in Command : e < cnt \/ e >= cnt' =>
        Answered(e) \subseteq Answered(e)' /\ Cardinality(Answered(e)) <= Cardinality(Answered(e)')
  BY <1>2, <1>3, <1>5, AnsweredStays
<1>7. \A e \in Command : Answered(e)' \in SUBSET Replica
  BY DEF Answered
<1>8. \A e \in Command : Cardinality(Answered(e)') \in Nat /\ Cardinality(Answered(e)) \in Nat
  <2> TAKE e \in Command
  <2> DEFINE S == Answered(e)'
  <2>1. S \in SUBSET Replica /\ Answered(e) \in SUBSET Replica
    BY <1>7 DEF Answered
  <2> HIDE DEF S
  <2>2. Cardinality(S) \in Nat /\ Cardinality(Answered(e)) \in Nat
    BY <2>1, AnsweredFinite
  <2> QED BY <2>2 DEF S
<1>9. ASSUME c \in waiting
      PROVE  Cardinality(Answered(c)) + 1 <= Cardinality(Answered(c)')
  <2>1. r \notin Answered(c)
    BY <1>1 DEF ReplyStep, Answered, Owing, Answering
  <2>2. r \in Answered(c)'
    <3>1. /\ decision_waiting[r][c] # client /\ ~InQueue(r, c, client)
          /\ ~(<<c, 0>> \in replies[r] /\ <<c, 1>> \in replies[r])
      BY <1>1, <1>2, <1>9 DEF RequestInv, ReplyStep, Answering
    <3>2. ~Answering(r, c)'
      BY <1>1, <3>1 DEF ReplyStep, Answering
    <3>3. ~InQueue(r, c, client)'
      <4>1. InQueue(r, c, client)' <=> <<c, client>> \in ToSet(cmd_pending'[r])
        BY <1>2 DEF InQueue
      <4>2. c \in Nat /\ ~(cnt <= c /\ c < cnt + m)
        BY <1>2, <1>9
      <4>3. <<c, client>> \in ToSet(cmd_pending'[r]) => InQueue(r, c, client)
        BY <1>1, <4>2 DEF ReplyStep, InQueue
      <4> QED BY <3>1, <4>1, <4>3
    <3>4. decision_waiting' = decision_waiting
      BY <1>1 DEF ReplyStep
    <3>5. ~Owing(r, c)'
      BY <1>2, <3>1, <3>2, <3>3, <3>4 DEF Owing
    <3>6. client = 1 => c \in DecidedBy(r)
      <4>1. <<c, d>> \in replies[r]
        BY <1>1 DEF ReplyStep
      <4>2. client = 1 => d = 1
        BY <4>1 DEF AcknowledgedInv, AnswerInv
      <4> QED BY <4>1, <4>2 DEF AcknowledgedInv, AnswerInv
    <3> QED BY <1>2, <1>3, <3>5, <3>6 DEF Answered
  <2> DEFINE S == Answered(c)'
             T == Answered(c) \cup {r}
  <2>3. T \subseteq S /\ S \in SUBSET Replica /\ T \in SUBSET Replica
    BY <1>2, <1>6, <1>7, <1>9, <2>2
  <2>4. Cardinality(T) = Cardinality(Answered(c)) + 1
    <3>1. IsFiniteSet(Answered(c))
      BY AnsweredFinite DEF Answered
    <3> QED BY <2>1, <3>1, FS_AddElement
  <2> HIDE DEF S, T
  <2>5. Cardinality(T) <= Cardinality(S)
    BY <2>3, CardinalityGrows
  <2> QED BY <2>4, <2>5 DEF S
<1>10. \A e \in Command :
        confirmed'[e] = IF e = c /\ c \in waiting THEN confirmed[e] + 1 ELSE confirmed[e]
  BY <1>1 DEF ReplyStep
<1>11. \A e \in Command : /\ confirmed[e] <= Cardinality(Answered(e))
                          /\ e >= cnt => confirmed[e] = 0
  BY DEF AcknowledgedInv, AnswerInv
<1>12. ASSUME NEW e \in Command
       PROVE  /\ confirmed'[e] <= Cardinality(Answered(e)')
              /\ e >= cnt' => confirmed'[e] = 0
  <2>0. e \in Nat
    BY <1>2
  <2>1. CASE e = c /\ c \in waiting
    BY <1>2, <1>8, <1>9, <1>10, <1>11, <2>0, <2>1
  <2>2. CASE ~(e = c /\ c \in waiting) /\ (e < cnt \/ e >= cnt')
    BY <1>2, <1>6, <1>8, <1>10, <1>11, <2>0, <2>2
  <2>3. CASE ~(e = c /\ c \in waiting) /\ ~(e < cnt \/ e >= cnt')
    BY <1>2, <1>8, <1>10, <1>11, <2>0, <2>3
  <2> QED BY <2>1, <2>2, <2>3
<1>13. AnswerInv'
  <2>1. \A q \in Replica, e \in Command : <<e, 1>> \in replies'[q] => e \in DecidedBy(q)'
    BY <1>3, <1>4 DEF AcknowledgedInv, AnswerInv
  <2>2. client' = 1 => \A q \in Replica, e \in Command : <<e, 0>> \notin replies'[q]
    BY <1>2, <1>4 DEF AcknowledgedInv, AnswerInv
  <2> QED BY <1>12, <2>1, <2>2 DEF AnswerInv
<1>14. ConfirmedDecided'
  <2>1. CASE UNCHANGED acknowledged
    BY <1>3, <2>1, ConfirmedStays DEF AcknowledgedInv
  <2>2. CASE /\ acknowledged' = acknowledged \cup {<<c, client>>}
             /\ c \in waiting /\ confirmed'[c] > nfaulty
    <3> SUFFICES ASSUME NEW e \in Command, <<e, 1>> \in acknowledged'
                 PROVE  Cardinality({q \in Replica : e \in DecidedBy(q)'}) > nfaulty
      BY DEF ConfirmedDecided
    <3> DEFINE T == {q \in Replica : e \in DecidedBy(q)'}
    <3>1. T = {q \in Replica : e \in DecidedBy(q)}
      BY <1>3
    <3>2. CASE <<e, 1>> \in acknowledged
      BY <3>1, <3>2 DEF AcknowledgedInv, ConfirmedDecided
    <3>3. CASE e = c /\ client = 1
      <4> DEFINE S == Answered(c)'
      <4>1. S \subseteq T
        BY <1>2, <3>3 DEF Answered
      <4>2. S \in SUBSET Replica /\ T \in SUBSET Replica
        BY <1>7
      <4>3. confirmed'[c] <= Cardinality(S) /\ confirmed'[c] > nfaulty /\ confirmed'[c] \in Nat
        BY <1>2, <1>10, <1>12, <2>2
      <4> HIDE DEF S, T
      <4>4. Cardinality(S) <= Cardinality(T) /\ Cardinality(S) \in Nat /\ Cardinality(T) \in Nat
        BY <4>1, <4>2, CardinalityGrows, AnsweredFinite
      <4>5. Cardinality(T) > nfaulty
        BY <4>3, <4>4, ConstantTypes
      <4> QED BY <4>5 DEF T
    <3> QED BY <2>2, <3>2, <3>3
  <2> QED BY <1>1, <2>1, <2>2 DEF ReplyStep
<1> QED BY <1>13, <1>14 DEF AcknowledgedInv

LEMMA AnswerHandleRequest ==
    ASSUME TypeInv, RequestInv, AcknowledgedInv, NEW r \in Replica, HandleRequest(r)
    PROVE  AcknowledgedInv'
<1>1. PICK c, i : RequestStep(r, c, i)
  BY RequestFacts
<1>2. /\ c \in Command /\ i \in 1 .. client /\ client > 0 /\ InQueue(r, c, i)
      /\ client' = client /\ cnt' = cnt /\ confirmed' = confirmed /\ client \in Nat
      /\ decision_waiting[r][c] \in 0 .. client
  BY <1>1, CounterTypes, ConstantTypes DEF RequestStep
<1>3. \A q \in Replica : DecidedBy(q)' = DecidedBy(q)
  BY <1>1 DEF RequestStep
<1>4. ASSUME NEW q \in Replica, NEW e \in Command
      PROVE  Owing(q, e)' => Owing(q, e)
  <2>1. InQueue(q, e, client)' => InQueue(q, e, client)
    <3>1. InQueue(q, e, client)' <=> <<e, client>> \in ToSet(cmd_pending'[q])
      BY <1>2 DEF InQueue
    <3>2. <<e, client>> \in ToSet(cmd_pending'[q]) => InQueue(q, e, client)
      BY <1>1 DEF RequestStep, InQueue
    <3> QED BY <3>1, <3>2
  <2>2. decision_waiting'[q][e] = client =>
            decision_waiting[q][e] = client \/ InQueue(q, e, client)
    BY <1>1, <1>2 DEF RequestStep
  <2>3. Answering(q, e)' => Answering(q, e) \/ InQueue(q, e, client)
    BY <1>1, <1>2 DEF RequestStep, Answering
  <2> QED BY <1>2, <2>1, <2>2, <2>3 DEF Owing
<1>5. \A e \in Command : Cardinality(Answered(e)) <= Cardinality(Answered(e)')
  BY <1>2, <1>3, <1>4, AnsweredStays
<1>6. \A q \in Replica, e \in Command : <<e, 1>> \in replies'[q] => <<e, 1>> \in replies[q]
  BY <1>1 DEF RequestStep
<1>7. client = 1 => \A q \in Replica, e \in Command : <<e, 0>> \notin replies'[q]
  <2> HAVE client = 1
  <2>0. i = 1 /\ i = client /\ InQueue(r, c, client)
    BY <1>2
  <2>1. i = 1 /\ decision_waiting[r][c] # 1
    BY <1>2, <2>0 DEF RequestInv
  <2>2. decision_waiting[r][c] = 0
    BY <1>2, <2>1
  <2> QED BY <1>1, <2>2 DEF RequestStep, AcknowledgedInv, AnswerInv
<1>8. AnswerInv'
  <2>1. \A e \in Command : Cardinality(Answered(e)') \in Nat /\ Cardinality(Answered(e)) \in Nat
    <3> TAKE e \in Command
    <3> DEFINE S == Answered(e)'
    <3>1. S \in SUBSET Replica /\ Answered(e) \in SUBSET Replica
      BY DEF Answered
    <3> HIDE DEF S
    <3>2. Cardinality(S) \in Nat /\ Cardinality(Answered(e)) \in Nat
      BY <3>1, AnsweredFinite
    <3> QED BY <3>2 DEF S
  <2>2. \A e \in Command : /\ confirmed[e] <= Cardinality(Answered(e)) /\ confirmed[e] \in Nat
                           /\ e >= cnt => confirmed[e] = 0
    BY DEF AcknowledgedInv, AnswerInv, TypeInv
  <2>3. \A e \in Command : confirmed'[e] <= Cardinality(Answered(e)')
    BY <1>2, <1>5, <2>1, <2>2
  <2>4. \A q \in Replica, e \in Command : <<e, 1>> \in replies'[q] => e \in DecidedBy(q)'
    BY <1>3, <1>6 DEF AcknowledgedInv, AnswerInv
  <2> QED BY <1>2, <1>7, <2>2, <2>3, <2>4 DEF AnswerInv
<1>9. ConfirmedDecided'
  BY <1>1, <1>3, ConfirmedStays DEF AcknowledgedInv, RequestStep
<1> QED BY <1>8, <1>9 DEF AcknowledgedInv

LEMMA AnswerDecide ==
    ASSUME TypeInv, RequestInv, AcknowledgedInv, NEW r \in Replica, NEW cs, DecideStep(r, cs)
    PROVE  AcknowledgedInv'
<1>1. /\ client' = client /\ cnt' = cnt /\ cmd_pending' = cmd_pending /\ confirmed' = confirmed
      /\ client \in Nat /\ cnt \in Nat /\ (client = 0 => cnt = 0)
  BY CounterTypes, ConstantTypes DEF DecideStep
<1>2. \A q \in Replica : DecidedBy(q) \subseteq DecidedBy(q)'
  BY DEF DecideStep
<1>3. ASSUME NEW q \in Replica, NEW e \in Command, client > 0
      PROVE  Owing(q, e)' => Owing(q, e)
  <2>1. InQueue(q, e, client)' <=> InQueue(q, e, client)
    BY <1>1 DEF InQueue
  <2>2. decision_waiting'[q][e] = client => decision_waiting[q][e] = client
    BY <1>1, <1>3 DEF DecideStep
  <2>3. Answering(q, e)' => Answering(q, e) \/ decision_waiting[q][e] = client
    BY DEF DecideStep, Answering
  <2> QED BY <1>1, <2>1, <2>2, <2>3 DEF Owing
<1>4. client > 0 => \A e \in Command : Cardinality(Answered(e)) <= Cardinality(Answered(e)')
  BY <1>1, <1>2, <1>3, AnsweredStays
<1>5. \A e \in Command : Cardinality(Answered(e)') \in Nat /\ Cardinality(Answered(e)) \in Nat
  <2> TAKE e \in Command
  <2> DEFINE S == Answered(e)'
  <2>1. S \in SUBSET Replica /\ Answered(e) \in SUBSET Replica
    BY DEF Answered
  <2> HIDE DEF S
  <2>2. Cardinality(S) \in Nat /\ Cardinality(Answered(e)) \in Nat
    BY <2>1, AnsweredFinite
  <2> QED BY <2>2 DEF S
<1>6. \A e \in Command : /\ confirmed[e] <= Cardinality(Answered(e)) /\ confirmed[e] \in Nat
                         /\ e >= cnt => confirmed[e] = 0
  BY DEF AcknowledgedInv, AnswerInv, TypeInv
<1>7. \A e \in Command : confirmed'[e] <= Cardinality(Answered(e)')
  <2>1. CASE client > 0
    BY <1>1, <1>4, <1>5, <1>6, <2>1
  <2>2. CASE client = 0
    <3>1. \A e \in Command : e >= cnt
      BY <1>1, <2>2, ConstantTypes
    <3> QED BY <1>1, <1>5, <1>6, <3>1
  <2> QED BY <1>1, <2>1, <2>2
<1>8. \A q \in Replica, e \in Command : <<e, 1>> \in replies'[q] => e \in DecidedBy(q)'
  <2> SUFFICES ASSUME NEW q \in Replica, NEW e \in Command, <<e, 1>> \in replies'[q]
               PROVE  e \in DecidedBy(q)'
    OBVIOUS
  <2>1. <<e, 1>> \in replies[q] \/ (q = r /\ e \in cs)
    BY DEF DecideStep
  <2>2. cs \subseteq DecidedBy(r)'
    BY DEF DecideStep
  <2> QED BY <1>2, <2>1, <2>2 DEF AcknowledgedInv, AnswerInv
<1>9. client = 1 => \A q \in Replica, e \in Command : <<e, 0>> \notin replies'[q]
  <2> SUFFICES ASSUME client = 1, NEW q \in Replica, NEW e \in Command, <<e, 0>> \in replies'[q]
               PROVE  FALSE
    OBVIOUS
  <2>1. <<e, 0>> \in replies[q]
    BY DEF DecideStep
  <2> QED BY <2>1 DEF AcknowledgedInv, AnswerInv
<1>10. AnswerInv'
  BY <1>1, <1>6, <1>7, <1>8, <1>9 DEF AnswerInv
<1>11. ConfirmedDecided'
  BY <1>2, ConfirmedStays DEF AcknowledgedInv, DecideStep
<1> QED BY <1>10, <1>11 DEF AcknowledgedInv

LEMMA AnswerStep ==
    ASSUME TypeInv, RequestInv, AcknowledgedInv, [Next]_vars
    PROVE  AcknowledgedInv'
<1>1. ASSUME UNCHANGED vars PROVE AcknowledgedInv'
  BY <1>1 DEF AcknowledgedInv, AnswerInv, ConfirmedDecided, Answered, DecidedBy, Owing, InQueue,
              Answering, vars, client_state, history
<1>2. ASSUME Propose PROVE AcknowledgedInv'
  BY <1>2, ProposeDecides, AnswerDecide, ConstantTypes
<1>3. ASSUME NEW r \in Replica, NEW n, ReceiveProposal(r, n) PROVE AcknowledgedInv'
  BY <1>3, ReceiveDecides, AnswerDecide
<1> QED BY <1>1, <1>2, <1>3, AnswerStart, AnswerHandleReply, AnswerHandleRequest DEF Next

-----------------------------------------------------------------------------
(* No command is lost between the request and the decision.                *)

LEMMA ToSetAppend ==
    ASSUME NEW S, NEW s \in Seq(S), NEW e \in S
    PROVE  ToSet(Append(s, e)) = ToSet(s) \cup {e}
<1>1. /\ DOMAIN s = 1 .. Len(s) /\ Len(s) \in Nat
      /\ DOMAIN Append(s, e) = 1 .. Len(s) + 1
      /\ \A i \in 1 .. Len(s) : Append(s, e)[i] = s[i]
      /\ Append(s, e)[Len(s) + 1] = e
  BY AppendProperties, LenProperties
<1> DEFINE t == Append(s, e)
<1>2. \A i \in DOMAIN t : (i \in DOMAIN s /\ t[i] = s[i]) \/ t[i] = e
  BY <1>1
<1>3. \A i \in DOMAIN s : i \in DOMAIN t /\ t[i] = s[i]
  BY <1>1
<1>4. Len(s) + 1 \in DOMAIN t /\ t[Len(s) + 1] = e
  BY <1>1
<1> HIDE DEF t
<1>5. ToSet(t) = ToSet(s) \cup {e}
  BY <1>2, <1>3, <1>4 DEF ToSet
<1> QED BY <1>5 DEF t

(* The proposer collects c.                                                *)
CollectStep(c) ==
    LET buffer == Append(cmd_pending_buffer, c) IN
    /\ c \in Command /\ buffer \in Seq(Command) /\ Len(buffer) = Len(cmd_pending_buffer) + 1
    /\ ToSet(buffer) = ToSet(cmd_pending_buffer) \cup {c}
    /\ \/ cmd_pending_buffer' = buffer /\ UNCHANGED pending_beats
       \/ /\ pending_beats' = Append(pending_beats, buffer) /\ buffer \in Batches
          /\ cmd_pending_buffer' = <<>>

LEMMA CollectFacts ==
    ASSUME TypeInv, RequestInv, HandleRequest(proposer)
    PROVE  CollectStep(Head(cmd_pending[proposer])[1])
<1> DEFINE c == Head(cmd_pending[proposer])[1]
           buffer == Append(cmd_pending_buffer, c)
<1>1. c \in Command
  BY RequestFacts, ConstantTypes DEF RequestStep
<1>2. IF IsBatch(buffer)
      THEN /\ pending_beats' = Append(pending_beats, Batch(buffer))
           /\ cmd_pending_buffer' = AfterBatch(buffer)
      ELSE cmd_pending_buffer' = buffer /\ UNCHANGED pending_beats
  BY DEF HandleRequest
<1> HIDE DEF c
<1>3. /\ buffer \in Seq(Command)
      /\ Len(buffer) = Len(cmd_pending_buffer) + 1
      /\ IsBatch(buffer) => /\ Batch(buffer) = buffer /\ buffer \in Batches
                            /\ AfterBatch(buffer) = <<>>
  BY <1>1, BatchFacts
<1>4. ToSet(buffer) = ToSet(cmd_pending_buffer) \cup {c}
  BY <1>1, ToSetAppend DEF TypeInv
<1> HIDE DEF buffer
<1>5. \/ cmd_pending_buffer' = buffer /\ UNCHANGED pending_beats
      \/ /\ pending_beats' = Append(pending_beats, buffer) /\ buffer \in Batches
         /\ cmd_pending_buffer' = <<>>
  BY <1>2, <1>3
<1> QED BY <1>1, <1>3, <1>4, <1>5 DEF CollectStep, buffer, c

(* The conclusion of NoLostCommand.                                        *)
UnderWay(c) ==
    \/ c \in ToSet(cmd_pending_buffer)
    \/ \E k \in DOMAIN pending_beats : c \in ToSet(pending_beats[k])
    \/ \E k \in DOMAIN chain : c \in ToSet(chain[k]) /\ k + Depth > received[proposer]

LEMMA UnderWayRequest ==
    ASSUME TypeInv, RequestInv, NoLostCommand, NEW r \in Replica, HandleRequest(r)
    PROVE  NoLostCommand'
<1>1. PICK c, i : RequestStep(r, c, i) /\ c = Head(cmd_pending[r])[1]
  BY RequestFacts
<1>2. chain' = chain /\ received' = received /\ c \in Command
  BY <1>1 DEF RequestStep
<1>3. \A d \in Command : decision_waiting[proposer][d] # 0 => UnderWay(d)
  BY DEF NoLostCommand, UnderWay
<1>4. CASE r # proposer
  <2>1. UNCHANGED <<cmd_pending_buffer, pending_beats>>
    BY <1>4 DEF HandleRequest
  <2>2. \A d \in Command : decision_waiting'[proposer][d] = decision_waiting[proposer][d]
    BY <1>1, <1>4, ConstantTypes DEF RequestStep
  <2> QED BY <1>2, <2>1, <2>2 DEF NoLostCommand
<1>5. CASE r = proposer
  <2>1. CollectStep(c)
    BY <1>1, <1>5, CollectFacts
  <2>2. ASSUME NEW d \in Command, d = c \/ d \in ToSet(cmd_pending_buffer)
        PROVE  UnderWay(d)'
    <3> DEFINE buffer == Append(cmd_pending_buffer, c)
    <3>1. d \in ToSet(buffer)
      BY <2>1, <2>2 DEF CollectStep
    <3>2. CASE cmd_pending_buffer' = buffer
      BY <3>1, <3>2 DEF UnderWay
    <3>3. CASE pending_beats' = Append(pending_beats, buffer) /\ buffer \in Batches
      <4> HIDE DEF buffer
      <4>1. /\ Len(pending_beats) + 1 \in DOMAIN pending_beats'
            /\ pending_beats'[Len(pending_beats) + 1] = buffer
        BY <3>3 DEF TypeInv
      <4> QED BY <3>1, <4>1 DEF UnderWay
    <3> QED BY <2>1, <3>2, <3>3 DEF CollectStep
  <2>3. \A k \in DOMAIN pending_beats : k \in DOMAIN pending_beats' /\ pending_beats'[k] = pending_beats[k]
    <3> DEFINE buffer == Append(cmd_pending_buffer, c)
    <3>1. \/ UNCHANGED pending_beats
          \/ pending_beats' = Append(pending_beats, buffer) /\ buffer \in Batches
      BY <2>1 DEF CollectStep
    <3> HIDE DEF buffer
    <3>2. CASE UNCHANGED pending_beats
      BY <3>2
    <3>3. CASE pending_beats' = Append(pending_beats, buffer) /\ buffer \in Batches
      <4>1. pending_beats \in Seq(Batches)
        BY DEF TypeInv
      <4>2. /\ DOMAIN pending_beats = 1 .. Len(pending_beats) /\ Len(pending_beats) \in Nat
            /\ DOMAIN pending_beats' = 1 .. Len(pending_beats) + 1
            /\ \A k \in 1 .. Len(pending_beats) : pending_beats'[k] = pending_beats[k]
        BY <3>3, <4>1, AppendProperties, LenProperties
      <4> QED BY <4>2
    <3> QED BY <3>1, <3>2, <3>3
  <2>4. ASSUME NEW d \in Command, UnderWay(d)
        PROVE  UnderWay(d)'
    <3>1. CASE d \in ToSet(cmd_pending_buffer)
      BY <2>2, <3>1
    <3>2. CASE \E k \in DOMAIN pending_beats : d \in ToSet(pending_beats[k])
      BY <2>3, <3>2 DEF UnderWay
    <3>3. CASE \E k \in DOMAIN chain : d \in ToSet(chain[k]) /\ k + Depth > received[proposer]
      BY <1>2, <3>3 DEF UnderWay
    <3> QED BY <2>4, <3>1, <3>2, <3>3 DEF UnderWay
  <2>5. \A d \in Command : d # c => decision_waiting'[proposer][d] = decision_waiting[proposer][d]
    BY <1>1, <1>5, ConstantTypes DEF RequestStep
  <2>6. \A d \in Command : decision_waiting'[proposer][d] # 0 => UnderWay(d)'
    BY <1>2, <1>3, <2>2, <2>4, <2>5
  <2> QED BY <2>6 DEF NoLostCommand, UnderWay
<1> QED BY <1>4, <1>5

LEMMA UnderWayPropose ==
    ASSUME TypeInv, NoLostCommand, Propose
    PROVE  NoLostCommand'
<1> DEFINE cs == DecidedBetween(chain', received[proposer], Len(chain'))
           b == Head(pending_beats)
<1>1. /\ chain' = Append(chain, b) /\ Len(chain') = Len(chain) + 1 /\ Len(chain) \in Nat
      /\ b \in Batches /\ received'[proposer] = Len(chain') /\ DecideStep(proposer, cs)
  BY ProposeDecides
<1>2. pending_beats' = Tail(pending_beats) /\ UNCHANGED cmd_pending_buffer /\ pending_beats # <<>>
  BY DEF Propose
<1>3. /\ DOMAIN chain = 1 .. Len(chain) /\ DOMAIN chain' = 1 .. Len(chain) + 1
      /\ \A k \in DOMAIN chain : chain'[k] = chain[k]
      /\ chain'[Len(chain) + 1] = b
  BY <1>1 DEF TypeInv
<1>4. /\ \A k \in DOMAIN pending_beats : k # 1 => /\ k - 1 \in DOMAIN pending_beats'
                                                  /\ pending_beats'[k - 1] = pending_beats[k]
      /\ pending_beats[1] = b
  <2>1. pending_beats \in Seq(Batches) /\ pending_beats # <<>>
    BY <1>2 DEF TypeInv
  <2> QED BY <1>2, <2>1, HeadTailProperties, LenProperties
<1>5. \A d \in Command : decision_waiting'[proposer][d] # 0 =>
        d \notin cs /\ decision_waiting[proposer][d] # 0
  BY <1>1, ConstantTypes DEF DecideStep
<1>6. SUFFICES ASSUME NEW d \in Command, d \notin cs, UnderWay(d)
               PROVE  UnderWay(d)'
  BY <1>5 DEF NoLostCommand, UnderWay
<1>7. CASE d \in ToSet(cmd_pending_buffer)
  BY <1>2, <1>7 DEF UnderWay
<1>8. CASE \E k \in DOMAIN pending_beats : d \in ToSet(pending_beats[k])
  <2>1. PICK k \in DOMAIN pending_beats : d \in ToSet(pending_beats[k])
    BY <1>8
  <2>2. CASE k = 1
    <3>1. Len(chain) + 1 \in DOMAIN chain' /\ d \in ToSet(chain'[Len(chain) + 1])
      BY <1>1, <1>3, <1>4, <2>1, <2>2
    <3>2. Len(chain) + 1 + Depth > received'[proposer]
      BY <1>1, ConstantTypes
    <3> QED BY <3>1, <3>2 DEF UnderWay
  <2>3. CASE k # 1
    BY <1>4, <2>1, <2>3 DEF UnderWay
  <2> QED BY <2>2, <2>3
<1>9. CASE \E k \in DOMAIN chain : d \in ToSet(chain[k]) /\ k + Depth > received[proposer]
  <2>1. PICK k \in DOMAIN chain : d \in ToSet(chain[k]) /\ k + Depth > received[proposer]
    BY <1>9
  <2>2. k \in Nat /\ k \in DOMAIN chain' /\ chain'[k] = chain[k] /\ received[proposer] \in Nat
    BY <1>1, <1>3, ConstantTypes DEF TypeInv
  <2>3. ~(received[proposer] < k + Depth /\ k + Depth <= Len(chain'))
    BY <1>6, <2>1, <2>2 DEF DecidedBetween
  <2>4. k + Depth > received'[proposer]
    BY <1>1, <2>1, <2>2, <2>3, ConstantTypes
  <2> QED BY <2>1, <2>2, <2>4 DEF UnderWay
<1> QED BY <1>6, <1>7, <1>8, <1>9 DEF UnderWay

LEMMA UnderWayReceive ==
    ASSUME TypeInv, NoLostCommand, NEW r \in Replica, NEW n, ReceiveProposal(r, n)
    PROVE  NoLostCommand'
<1> DEFINE cs == DecidedBetween(chain', received[r], n)
<1>1. /\ chain' = chain /\ n \in Nat /\ received[r] < n /\ received' = [received EXCEPT ![r] = n]
      /\ DecideStep(r, cs)
  BY ReceiveDecides
<1>2. UNCHANGED <<cmd_pending_buffer, pending_beats>>
  BY DEF ReceiveProposal
<1>3. \A q \in Replica : received'[q] = IF q = r THEN n ELSE received[q]
  BY <1>1 DEF TypeInv
<1>4. SUFFICES ASSUME NEW d \in Command, decision_waiting'[proposer][d] # 0
               PROVE  UnderWay(d)'
  BY DEF NoLostCommand, UnderWay
<1>5. decision_waiting[proposer][d] # 0 /\ (r = proposer => d \notin cs)
  BY <1>1, <1>4, ConstantTypes DEF DecideStep
<1>6. UnderWay(d)
  BY <1>5 DEF NoLostCommand, UnderWay
<1>7. CASE \E k \in DOMAIN chain : d \in ToSet(chain[k]) /\ k + Depth > received[proposer]
  <2>1. PICK k \in DOMAIN chain : d \in ToSet(chain[k]) /\ k + Depth > received[proposer]
    BY <1>7
  <2>2. k \in Nat /\ received[proposer] \in Nat
    <3>1. DOMAIN chain = 1 .. Len(chain) /\ Len(chain) \in Nat
      BY DEF TypeInv
    <3> QED BY <3>1, ConstantTypes DEF TypeInv
  <2>3. CASE r = proposer
    <3>1. ~(received[proposer] < k + Depth /\ k + Depth <= n)
      BY <1>1, <1>5, <2>1, <2>3 DEF DecidedBetween
    <3>2. k + Depth > received'[proposer]
      BY <1>1, <1>3, <2>1, <2>2, <2>3, <3>1, ConstantTypes
    <3> QED BY <1>1, <2>1, <3>2 DEF UnderWay
  <2>4. CASE r # proposer
    BY <1>1, <1>3, <2>1, <2>4, ConstantTypes DEF UnderWay
  <2> QED BY <2>3, <2>4
<1>8. CASE \/ d \in ToSet(cmd_pending_buffer)
           \/ \E k \in DOMAIN pending_beats : d \in ToSet(pending_beats[k])
  BY <1>2, <1>8 DEF UnderWay
<1> QED BY <1>6, <1>7, <1>8 DEF UnderWay

LEMMA UnderWayInit ==
    ASSUME Init
    PROVE  NoLostCommand
  BY ConstantTypes DEF Init, NoLostCommand

LEMMA UnderWayStep ==
    ASSUME TypeInv, RequestInv, NoLostCommand, [Next]_vars
    PROVE  NoLostCommand'
<1>1. ASSUME UNCHANGED <<decision_waiting, cmd_pending_buffer, pending_beats, chain, received>>
      PROVE  NoLostCommand'
  BY <1>1 DEF NoLostCommand
<1>2. ASSUME Start PROVE NoLostCommand'
  BY <1>1, <1>2 DEF Start
<1>3. ASSUME NEW r \in Replica, HandleReply(r) PROVE NoLostCommand'
  BY <1>1, <1>3 DEF HandleReply
<1>4. ASSUME UNCHANGED vars PROVE NoLostCommand'
  BY <1>1, <1>4 DEF vars
<1> QED BY <1>2, <1>3, <1>4, UnderWayRequest, UnderWayPropose, UnderWayReceive DEF Next

-----------------------------------------------------------------------------
(* Every place of a command in a batch was paid for with a request.        *)

(* The sequences that Collected is made of.                                *)
LEMMA CollectedFacts ==
    ASSUME TypeInv
    PROVE  /\ chain \o pending_beats \in Seq(Batches)
           /\ Len(chain \o pending_beats) = Len(chain) + Len(pending_beats)
           /\ Len(chain) \in Nat /\ Len(pending_beats) \in Nat
           /\ Collected \in Seq(Seq(Command))
           /\ Len(Collected) = Len(chain) + Len(pending_beats) + 1
           /\ DOMAIN Collected = 1 .. Len(chain) + Len(pending_beats) + 1
           /\ Collected[Len(chain) + Len(pending_beats) + 1] = cmd_pending_buffer
           /\ \A k \in 1 .. Len(chain) + Len(pending_beats) :
                Collected[k] = (chain \o pending_beats)[k]
<1> DEFINE all == chain \o pending_beats
<1>1. /\ all \in Seq(Batches) /\ Len(all) = Len(chain) + Len(pending_beats)
      /\ Len(chain) \in Nat /\ Len(pending_beats) \in Nat
  BY ConcatProperties, LenProperties DEF TypeInv
<1>2. all \in Seq(Seq(Command)) /\ cmd_pending_buffer \in Seq(Command)
  <2>1. Batches \subseteq Seq(Command)
    BY DEF Batches
  <2> HIDE DEF all
  <2> QED BY <1>1, <2>1, SeqMonotonic DEF TypeInv
<1>3. Collected = Append(all, cmd_pending_buffer)
  BY DEF Collected
<1> HIDE DEF all
<1>4. /\ Collected \in Seq(Seq(Command)) /\ Len(Collected) = Len(all) + 1
      /\ \A k \in 1 .. Len(all) : Collected[k] = all[k]
      /\ Collected[Len(all) + 1] = cmd_pending_buffer
  BY <1>2, <1>3, AppendProperties
<1>5. DOMAIN Collected = 1 .. Len(all) + 1
  BY <1>4, LenProperties
<1> QED BY <1>1, <1>4, <1>5 DEF all

LEMMA PlacesFinite ==
    ASSUME TypeInv, NEW c
    PROVE  IsFiniteSet(Places(c)) /\ Cardinality(Places(c)) \in Nat
<1>1. IsFiniteSet(1 .. Len(chain) + Len(pending_beats) + 1) /\ IsFiniteSet(1 .. blk_size)
  BY CollectedFacts, ConstantTypes, FS_Interval
<1>2. IsFiniteSet((DOMAIN Collected) \X (1 .. blk_size))
  BY <1>1, CollectedFacts, FS_Product
<1>3. Places(c) \subseteq (DOMAIN Collected) \X (1 .. blk_size)
  BY DEF Places
<1> QED BY <1>2, <1>3, FS_Subset, FS_CardinalityType

LEMMA UnhandledFinite ==
    ASSUME TypeInv, NEW c
    PROVE  IsFiniteSet(Unhandled(c)) /\ Cardinality(Unhandled(c)) \in Nat
<1>1. IsFiniteSet(1 .. client)
  BY ConstantTypes, FS_Interval DEF TypeInv
<1>2. Unhandled(c) \subseteq 1 .. client
  BY DEF Unhandled
<1> QED BY <1>1, <1>2, FS_Subset, FS_CardinalityType

(* A beat moves a batch from one sequence to the other.                    *)
LEMMA CollectedPropose ==
    ASSUME TypeInv, Propose
    PROVE  Collected' = Collected
<1> DEFINE b == Head(pending_beats)
           rest == Tail(pending_beats)
<1>1. /\ chain' = Append(chain, b) /\ pending_beats' = rest /\ pending_beats # <<>>
      /\ cmd_pending_buffer' = cmd_pending_buffer
  BY DEF Propose
<1>2. chain \in Seq(Batches) /\ pending_beats \in Seq(Batches)
  BY DEF TypeInv
<1>3. /\ b \in Batches /\ rest \in Seq(Batches) /\ b = pending_beats[1]
      /\ Len(rest) = Len(pending_beats) - 1 /\ Len(pending_beats) \in Nat
      /\ \A k \in 1 .. Len(pending_beats) - 1 : rest[k] = pending_beats[k + 1]
  BY <1>1, <1>2, HeadTailProperties, LenProperties
<1>4. /\ Append(chain, b) \in Seq(Batches) /\ Len(Append(chain, b)) = Len(chain) + 1
      /\ \A k \in 1 .. Len(chain) : Append(chain, b)[k] = chain[k]
      /\ Append(chain, b)[Len(chain) + 1] = b /\ Len(chain) \in Nat
  BY <1>2, <1>3, AppendProperties, LenProperties
<1> HIDE DEF b, rest
<1> DEFINE old == chain \o pending_beats
           longer == Append(chain, b)
           new == longer \o rest
<1>5. /\ old \in Seq(Batches) /\ Len(old) = Len(chain) + Len(pending_beats)
      /\ \A k \in 1 .. Len(chain) + Len(pending_beats) :
            old[k] = IF k <= Len(chain) THEN chain[k] ELSE pending_beats[k - Len(chain)]
  BY <1>2, ConcatProperties
<1>6. /\ longer \in Seq(Batches) /\ Len(longer) = Len(chain) + 1
      /\ \A k \in 1 .. Len(chain) : longer[k] = chain[k]
      /\ longer[Len(chain) + 1] = b
  BY <1>4
<1> HIDE DEF longer
<1>7. /\ new \in Seq(Batches) /\ Len(new) = Len(longer) + Len(rest)
      /\ \A k \in 1 .. Len(longer) + Len(rest) :
            new[k] = IF k <= Len(longer) THEN longer[k] ELSE rest[k - Len(longer)]
  BY <1>3, <1>6, ConcatProperties
<1> HIDE DEF old, new
<1>8. Len(new) = Len(old)
  BY <1>3, <1>4, <1>5, <1>6, <1>7
<1>9. ASSUME NEW k \in 1 .. Len(old)
      PROVE  new[k] = old[k]
  <2> DEFINE m == Len(chain)
             p == Len(pending_beats)
  <2>1. /\ m \in Nat /\ p \in Nat /\ k \in Nat /\ 1 <= k /\ k <= m + p
        /\ k \in 1 .. m + p
    BY <1>3, <1>4, <1>5
  <2>2. new[k] = IF k <= m + 1 THEN longer[k] ELSE rest[k - (m + 1)]
    <3>1. Len(longer) + Len(rest) = m + p
      BY <1>3, <1>6, <2>1
    <3> QED BY <1>6, <1>7, <2>1, <3>1
  <2>3. old[k] = IF k <= m THEN chain[k] ELSE pending_beats[k - m]
    BY <1>5, <2>1
  <2>4. \A q \in 1 .. m : longer[q] = chain[q]
    BY <1>6
  <2>5. longer[m + 1] = b /\ b = pending_beats[1]
    BY <1>3, <1>6
  <2>6. \A q \in 1 .. p - 1 : rest[q] = pending_beats[q + 1]
    BY <1>3
  <2> HIDE DEF m, p
  <2>7. CASE k <= m
    BY <2>1, <2>2, <2>3, <2>4, <2>7
  <2>8. CASE k = m + 1
    <3>1. k - m = 1
      BY <2>1, <2>8
    <3> QED BY <2>1, <2>2, <2>3, <2>5, <2>8, <3>1
  <2>9. CASE k > m + 1
    <3>1. k - (m + 1) \in 1 .. p - 1 /\ k - (m + 1) + 1 = k - m
      BY <2>1, <2>9
    <3>2. rest[k - (m + 1)] = pending_beats[k - m]
      BY <2>6, <3>1
    <3> QED BY <2>1, <2>2, <2>3, <2>9, <3>2
  <2> QED BY <2>1, <2>7, <2>8, <2>9
<1>10. new = old
  BY <1>5, <1>7, <1>8, <1>9, SeqEqual
<1> QED BY <1>1, <1>10 DEF Collected, old, new, longer

(* The last batch grows by the command that is collected.                  *)
LEMMA CollectedRequest ==
    ASSUME TypeInv, TypeInv', NEW c \in Command, CollectStep(c), UNCHANGED chain
    PROVE  LET n == Len(Collected) IN
           /\ n \in DOMAIN Collected' /\ n \in DOMAIN Collected /\ n \in Nat
           /\ Collected[n] = cmd_pending_buffer
           /\ Collected'[n] = Append(cmd_pending_buffer, c)
           /\ \A k \in DOMAIN Collected : k # n => k \in DOMAIN Collected' /\ Collected'[k] = Collected[k]
           /\ \A k \in DOMAIN Collected' : k \notin DOMAIN Collected => Collected'[k] = <<>>
<1> DEFINE n == Len(Collected)
           buffer == Append(cmd_pending_buffer, c)
           all == chain \o pending_beats
<1>1. /\ n = Len(all) + 1 /\ n \in Nat /\ DOMAIN Collected = 1 .. n /\ Len(all) \in Nat
      /\ Collected[n] = cmd_pending_buffer /\ \A k \in 1 .. Len(all) : Collected[k] = all[k]
      /\ all \in Seq(Batches)
  BY CollectedFacts
<1>2. chain \in Seq(Batches) /\ pending_beats \in Seq(Batches) /\ chain' = chain
  BY DEF TypeInv
<1>3. CASE cmd_pending_buffer' = buffer /\ UNCHANGED pending_beats
  <2>1. Collected' = Append(all, buffer)
    BY <1>3 DEF Collected
  <2>2. buffer \in Seq(Command) /\ all \in Seq(Seq(Command))
    <3>1. Batches \subseteq Seq(Command)
      BY DEF Batches
    <3> HIDE DEF all
    <3> QED BY <1>1, <3>1, SeqMonotonic DEF CollectStep
  <2> HIDE DEF all, buffer
  <2>3. /\ DOMAIN Collected' = 1 .. Len(all) + 1 /\ Collected'[Len(all) + 1] = buffer
        /\ \A k \in 1 .. Len(all) : Collected'[k] = all[k]
    BY <2>1, <2>2, AppendProperties, LenProperties
  <2>4. n \in DOMAIN Collected' /\ Collected'[n] = buffer /\ DOMAIN Collected' = DOMAIN Collected
    BY <1>1, <2>3
  <2>5. \A k \in DOMAIN Collected : k # n => k \in 1 .. Len(all)
    BY <1>1
  <2> QED BY <1>1, <2>3, <2>4, <2>5 DEF buffer
<1>4. CASE /\ pending_beats' = Append(pending_beats, buffer) /\ buffer \in Batches
           /\ cmd_pending_buffer' = <<>>
  <2>1. Collected' = Append(chain \o Append(pending_beats, buffer), <<>>)
    BY <1>2, <1>4 DEF Collected
  <2>2. chain \o Append(pending_beats, buffer) = Append(all, buffer)
    <3> HIDE DEF buffer
    <3>1. Append(pending_beats, buffer) = pending_beats \o <<buffer>> /\ <<buffer>> \in Seq(Batches)
      BY <1>2, <1>4, AppendIsConcat
    <3>2. Append(all, buffer) = all \o <<buffer>>
      BY <1>1, <1>4, AppendIsConcat
    <3> QED BY <1>2, <3>1, <3>2, ConcatAssociative
  <2> HIDE DEF all, buffer
  <2> DEFINE more == Append(all, buffer)
  <2>3. /\ more \in Seq(Batches) /\ Len(more) = Len(all) + 1 /\ more[Len(all) + 1] = buffer
        /\ \A k \in 1 .. Len(all) : more[k] = all[k]
    BY <1>1, <1>4, AppendProperties
  <2>4. more \in Seq(Seq(Command)) /\ <<>> \in Seq(Command)
    <3>1. Batches \subseteq Seq(Command)
      BY DEF Batches
    <3> HIDE DEF more
    <3> QED BY <2>3, <3>1, SeqMonotonic
  <2> HIDE DEF more
  <2>5. Collected' = Append(more, <<>>)
    BY <2>1, <2>2 DEF more
  <2>6. /\ DOMAIN Collected' = 1 .. Len(more) + 1 /\ Collected'[Len(more) + 1] = <<>>
        /\ \A k \in 1 .. Len(more) : Collected'[k] = more[k]
    BY <2>4, <2>5, AppendProperties, LenProperties
  <2>7. n \in DOMAIN Collected' /\ Collected'[n] = buffer
    BY <1>1, <2>3, <2>6
  <2>8. \A k \in DOMAIN Collected : k # n => k \in 1 .. Len(all) /\ k \in 1 .. Len(more)
    BY <1>1, <2>3
  <2>9. \A k \in DOMAIN Collected' : k \notin DOMAIN Collected => k = Len(more) + 1
    BY <1>1, <2>3, <2>6
  <2>10. \A k \in DOMAIN Collected : k # n => k \in DOMAIN Collected' /\ Collected'[k] = Collected[k]
    BY <1>1, <2>3, <2>6, <2>8
  <2> QED BY <1>1, <2>6, <2>7, <2>9, <2>10 DEF buffer
<1> QED BY <1>3, <1>4 DEF CollectStep

LEMMA PlacesStart ==
    ASSUME TypeInv, RequestInv, PlacesInv, Start
    PROVE  PlacesInv'
<1>1. PICK m \in Nat : StartStep(m)
  BY StartFacts
<1>2. client \in Nat /\ client' = client + 1
  BY <1>1, CounterTypes, ConstantTypes DEF StartStep
<1> SUFFICES ASSUME NEW c \in Command
             PROVE  Cardinality(Places(c)') + Cardinality(Unhandled(c)') <= client'
  BY DEF PlacesInv
<1>3. Places(c)' = Places(c)
  BY <1>1 DEF StartStep, Places, Collected
<1> DEFINE T == Unhandled(c) \cup {client'}
           S == Unhandled(c)'
<1>4. S \subseteq T
  <2> SUFFICES ASSUME NEW i \in S
               PROVE  i \in Unhandled(c) \/ i = client'
    OBVIOUS
  <2>1. InQueue(proposer, c, i)' \/ i = client'
    BY DEF Unhandled
  <2>2. CASE InQueue(proposer, c, i)'
    BY <1>1, <2>2, ConstantTypes DEF StartStep, Unhandled
  <2> QED BY <2>1, <2>2
<1>5. /\ IsFiniteSet(Unhandled(c)) /\ Cardinality(Unhandled(c)) \in Nat
      /\ Cardinality(Places(c)) \in Nat
  BY UnhandledFinite, PlacesFinite
<1>6. IsFiniteSet(T) /\ Cardinality(T) <= Cardinality(Unhandled(c)) + 1 /\ Cardinality(T) \in Nat
  <2>1. IsFiniteSet(T) /\ Cardinality(T) <= Cardinality(Unhandled(c)) + 1
    BY <1>5, FS_AddElement
  <2> HIDE DEF T
  <2> QED BY <2>1, FS_CardinalityType
<1> HIDE DEF S, T
<1>7. Cardinality(S) <= Cardinality(T) /\ Cardinality(S) \in Nat
  BY <1>4, <1>6, FS_Subset, FS_CardinalityType
<1>8. Cardinality(Places(c)) + Cardinality(Unhandled(c)) <= client
  BY DEF PlacesInv
<1>9. Cardinality(Places(c)) + Cardinality(S) <= client'
  BY <1>2, <1>5, <1>6, <1>7, <1>8
<1> QED BY <1>3, <1>9 DEF S

LEMMA PlacesHandleReply ==
    ASSUME TypeInv, RequestInv, PlacesInv, NEW r \in Replica, HandleReply(r)
    PROVE  PlacesInv'
<1>1. PICK c \in Command, d \in {0, 1}, m \in Nat : ReplyStep(r, c, d, m)
  BY ReplyFacts
<1>2. /\ client' = client /\ cnt' = cnt + m /\ client \in Nat /\ cnt \in Nat /\ Command \subseteq Nat
      /\ UNCHANGED <<chain, pending_beats, cmd_pending_buffer>>
  BY <1>1, CounterTypes, ConstantTypes DEF ReplyStep
<1>3. ASSUME NEW e \in Command
      PROVE  Places(e)' = Places(e) /\ Unhandled(e)' = Unhandled(e)
  <2>1. Places(e)' = Places(e)
    BY <1>2 DEF Places, Collected
  <2>2. \A i : InQueue(proposer, e, i)' <=>
            InQueue(proposer, e, i) \/ (i = client /\ cnt <= e /\ e < cnt + m)
    BY <1>1, ConstantTypes DEF ReplyStep
  <2>3. e \in Nat
    BY <1>2
  <2>4. \A i : (InQueue(proposer, e, i)' \/ (i = client' /\ e >= cnt')) <=>
            (InQueue(proposer, e, i) \/ (i = client /\ e >= cnt))
    BY <1>2, <2>2, <2>3
  <2>5. Unhandled(e)' = Unhandled(e)
    BY <1>2, <2>4 DEF Unhandled
  <2> QED BY <2>1, <2>5
<1> QED BY <1>2, <1>3 DEF PlacesInv

LEMMA PlacesHandleRequest ==
    ASSUME TypeInv, TypeInv', RequestInv, PlacesInv, NEW r \in Replica, HandleRequest(r)
    PROVE  PlacesInv'
<1>1. PICK c, i : RequestStep(r, c, i) /\ c = Head(cmd_pending[r])[1]
  BY RequestFacts
<1>2. /\ c \in Command /\ i \in 1 .. client /\ client' = client /\ cnt' = cnt /\ client > 0
      /\ InQueue(r, c, i) /\ client \in Nat /\ chain' = chain
  BY <1>1, CounterTypes, ConstantTypes DEF RequestStep
<1>3. \A e, j : InQueue(proposer, e, j)' <=>
            InQueue(proposer, e, j) /\ <<proposer, e, j>> # <<r, c, i>>
  BY <1>1, ConstantTypes DEF RequestStep
<1>4. CASE r # proposer
  <2>1. UNCHANGED <<cmd_pending_buffer, pending_beats>>
    BY <1>4 DEF HandleRequest
  <2>2. ASSUME NEW e \in Command
        PROVE  Places(e)' = Places(e) /\ Unhandled(e)' = Unhandled(e)
    <3>1. Places(e)' = Places(e)
      BY <1>2, <2>1 DEF Places, Collected
    <3>2. \A j : InQueue(proposer, e, j)' <=> InQueue(proposer, e, j)
      BY <1>3, <1>4
    <3>3. Unhandled(e)' = Unhandled(e)
      BY <1>2, <3>2 DEF Unhandled
    <3> QED BY <3>1, <3>3
  <2> QED BY <1>2, <2>2 DEF PlacesInv
<1>5. CASE r = proposer
  <2> DEFINE n == Len(Collected)
             l == Len(cmd_pending_buffer) + 1
             buffer == Append(cmd_pending_buffer, c)
  <2>1. CollectStep(c)
    BY <1>1, <1>5, CollectFacts
  <2>2. /\ n \in DOMAIN Collected' /\ n \in DOMAIN Collected /\ n \in Nat
        /\ Collected[n] = cmd_pending_buffer /\ Collected'[n] = buffer
        /\ \A k \in DOMAIN Collected : k # n => k \in DOMAIN Collected' /\ Collected'[k] = Collected[k]
        /\ \A k \in DOMAIN Collected' : k \notin DOMAIN Collected => Collected'[k] = <<>>
    BY <1>2, <2>1, CollectedRequest
  <2>3. /\ l \in 1 .. blk_size /\ Len(buffer) = l /\ buffer[l] = c
        /\ \A k \in 1 .. l - 1 : buffer[k] = cmd_pending_buffer[k]
        /\ Len(cmd_pending_buffer) = l - 1
    <3>1. cmd_pending_buffer \in Seq(Command) /\ Len(cmd_pending_buffer) < blk_size
      BY DEF TypeInv
    <3> QED BY <1>2, <3>1, AppendProperties, LenProperties, ConstantTypes
  <2> HIDE DEF n, l, buffer
  <2>4. \A e : Places(e)' \subseteq Places(e) \cup (IF e = c THEN {<<n, l>>} ELSE {})
    <3> SUFFICES ASSUME NEW e, NEW p \in Places(e)', ~(e = c /\ p = <<n, l>>)
                 PROVE  p \in Places(e)
      OBVIOUS
    <3>1. /\ p \in (DOMAIN Collected') \X (1 .. blk_size)
          /\ p[2] <= Len(Collected'[p[1]]) /\ Collected'[p[1]][p[2]] = e
      BY DEF Places
    <3>2. p = <<p[1], p[2]>> /\ p[1] \in DOMAIN Collected' /\ p[2] \in 1 .. blk_size
      BY <3>1
    <3>3. CASE p[1] = n
      <4>1. p[2] <= l /\ buffer[p[2]] = e
        BY <2>2, <2>3, <3>1, <3>3
      <4>2. p[2] # l
        BY <2>3, <3>2, <3>3, <4>1
      <4>3. p[2] \in 1 .. l - 1
        BY <2>3, <3>2, <4>1, <4>2
      <4>4. Collected[p[1]][p[2]] = e /\ p[2] <= Len(Collected[p[1]])
        BY <2>2, <2>3, <3>3, <4>1, <4>3
      <4>5. p \in (DOMAIN Collected) \X (1 .. blk_size)
        BY <2>2, <3>2, <3>3
      <4> QED BY <4>4, <4>5 DEF Places
    <3>4. CASE p[1] # n
      <4>1. p[1] \in DOMAIN Collected
        <5> SUFFICES ASSUME p[1] \notin DOMAIN Collected PROVE FALSE
          OBVIOUS
        <5>1. Len(Collected'[p[1]]) = 0
          BY <2>2, <3>2
        <5> QED BY <3>1, <3>2, <5>1, ConstantTypes
      <4>2. Collected'[p[1]] = Collected[p[1]]
        BY <2>2, <3>4, <4>1
      <4>3. p \in (DOMAIN Collected) \X (1 .. blk_size)
        BY <3>2, <4>1
      <4> QED BY <3>1, <4>2, <4>3 DEF Places
    <3> QED BY <3>3, <3>4
  <2>5. i \in Unhandled(c) /\ i \notin Unhandled(c)'
    <3>1. i \in Unhandled(c)
      BY <1>2, <1>5 DEF Unhandled
    <3>2. ~InQueue(proposer, c, i)'
      BY <1>3, <1>5
    <3>3. ~(i = client /\ c >= cnt)
      BY <1>2, <1>5, ConstantTypes DEF RequestInv, Owing
    <3> QED BY <1>2, <3>1, <3>2, <3>3 DEF Unhandled
  <2>6. \A e \in Command : Unhandled(e)' \subseteq Unhandled(e)
    BY <1>2, <1>3 DEF Unhandled
  <2> SUFFICES ASSUME NEW e \in Command
               PROVE  Cardinality(Places(e)') + Cardinality(Unhandled(e)') <= client
    BY <1>2 DEF PlacesInv
  <2> DEFINE P == Places(e)'
             U == Unhandled(e)'
  <2>7. /\ IsFiniteSet(Places(e)) /\ Cardinality(Places(e)) \in Nat
        /\ IsFiniteSet(Unhandled(e)) /\ Cardinality(Unhandled(e)) \in Nat
        /\ Cardinality(Places(e)) + Cardinality(Unhandled(e)) <= client
    BY PlacesFinite, UnhandledFinite DEF PlacesInv
  <2>8. CASE e # c
    <3>1. P \subseteq Places(e) /\ U \subseteq Unhandled(e)
      BY <2>4, <2>6, <2>8
    <3> HIDE DEF P, U
    <3>2. /\ Cardinality(P) <= Cardinality(Places(e)) /\ Cardinality(P) \in Nat
          /\ Cardinality(U) <= Cardinality(Unhandled(e)) /\ Cardinality(U) \in Nat
      BY <2>7, <3>1, FS_Subset, FS_CardinalityType
    <3>3. Cardinality(P) + Cardinality(U) <= client
      BY <1>2, <2>7, <3>2
    <3> QED BY <3>3 DEF P, U
  <2>9. CASE e = c
    <3> DEFINE more == Places(e) \cup {<<n, l>>}
               less == Unhandled(e) \ {i}
    <3>1. P \subseteq more /\ U \subseteq less
      BY <2>4, <2>5, <2>6, <2>9
    <3>2. /\ IsFiniteSet(more) /\ Cardinality(more) <= Cardinality(Places(e)) + 1
          /\ Cardinality(more) \in Nat
      <4>1. IsFiniteSet(more) /\ Cardinality(more) <= Cardinality(Places(e)) + 1
        <5> DEFINE p == <<n, l>>
        <5> HIDE DEF p
        <5>1. /\ IsFiniteSet(Places(e) \cup {p})
              /\ Cardinality(Places(e) \cup {p}) =
                    IF p \in Places(e) THEN Cardinality(Places(e)) ELSE Cardinality(Places(e)) + 1
          BY <2>7, FS_AddElement
        <5>2. Cardinality(Places(e) \cup {p}) <= Cardinality(Places(e)) + 1
          BY <2>7, <5>1
        <5> QED BY <5>1, <5>2 DEF p
      <4> HIDE DEF more
      <4> QED BY <4>1, FS_CardinalityType
    <3>3. /\ IsFiniteSet(less) /\ Cardinality(less) = Cardinality(Unhandled(e)) - 1
          /\ Cardinality(less) \in Nat
      BY <2>5, <2>7, <2>9, FS_RemoveElement, FS_CardinalityType
    <3> HIDE DEF P, U, more, less
    <3>4. /\ Cardinality(P) <= Cardinality(more) /\ Cardinality(P) \in Nat
          /\ Cardinality(U) <= Cardinality(less) /\ Cardinality(U) \in Nat
      BY <3>1, <3>2, <3>3, FS_Subset, FS_CardinalityType
    <3>5. Cardinality(P) + Cardinality(U) <= client
      BY <1>2, <2>7, <3>2, <3>3, <3>4
    <3> QED BY <3>5 DEF P, U
  <2> QED BY <2>8, <2>9
<1> QED BY <1>4, <1>5

LEMMA PlacesInit ==
    ASSUME Init
    PROVE  PlacesInv
<1> SUFFICES ASSUME NEW c \in Command
             PROVE  Cardinality(Places(c)) + Cardinality(Unhandled(c)) <= client
  BY DEF PlacesInv
<1>1. Collected = << <<>> >>
  BY DEF Init, Collected
<1>2. Places(c) = {}
  BY <1>1, ConstantTypes DEF Places
<1>3. Unhandled(c) = {}
  BY DEF Init, Unhandled
<1> QED BY <1>2, <1>3, FS_EmptySet DEF Init

LEMMA PlacesStep ==
    ASSUME TypeInv, TypeInv', RequestInv, PlacesInv, [Next]_vars
    PROVE  PlacesInv'
<1>1. ASSUME UNCHANGED <<client, cnt, cmd_pending>>, Collected' = Collected
      PROVE  PlacesInv'
  BY <1>1 DEF PlacesInv, Places, Unhandled, InQueue
<1>2. ASSUME UNCHANGED vars PROVE PlacesInv'
  BY <1>1, <1>2 DEF vars, client_state, Collected
<1>3. ASSUME Propose PROVE PlacesInv'
  BY <1>1, <1>3, CollectedPropose DEF Propose, client_state
<1>4. ASSUME NEW r \in Replica, NEW n, ReceiveProposal(r, n) PROVE PlacesInv'
  BY <1>1, <1>4 DEF ReceiveProposal, client_state, Collected
<1> QED BY <1>2, <1>3, <1>4, PlacesStart, PlacesHandleReply, PlacesHandleRequest DEF Next

-----------------------------------------------------------------------------
(* The theorems.                                                           *)

IInv == TypeInv /\ RequestInv /\ AcknowledgedInv /\ NoLostCommand /\ PlacesInv

(* The inductive invariant holds in every reachable state.                 *)
THEOREM Invariance == Spec => []IInv
<1>1. Init => IInv
  BY TypeInit, RequestInit, AnswerInit, UnderWayInit, PlacesInit DEF IInv
<1>2. IInv /\ [Next]_vars => IInv'
  BY TypeStep, RequestStepInv, AnswerStep, UnderWayStep, PlacesStep DEF IInv
<1> QED BY <1>1, <1>2, PTL DEF Spec

(* The state of the client, of the replicas and of their queues is well    *)
(* typed: less than a batch is left in cmd_pending_buffer, the window of   *)
(* the client is kept, and no command is confirmed by more answers than    *)
(* there are replicas.                                                     *)
THEOREM TypeCorrect == Spec => []TypeOK
<1>1. IInv => TypeOK
  <2> SUFFICES ASSUME IInv
               PROVE  TypeOK
    OBVIOUS
  <2>1. TypeInv
    BY DEF IInv
  <2>2. confirmed \in [Command -> 0 .. Cardinality(Replica)]
    <3>1. confirmed \in [Command -> Nat]
      BY <2>1 DEF TypeInv
    <3>2. ASSUME NEW c \in Command
          PROVE  confirmed[c] \in 0 .. Cardinality(Replica)
      <4>1. confirmed[c] <= Cardinality(Answered(c))
        BY DEF IInv, AcknowledgedInv, AnswerInv
      <4>2. /\ Cardinality(Answered(c)) \in Nat
            /\ Cardinality(Answered(c)) <= Cardinality(Replica)
        BY AnsweredFinite DEF Answered
      <4>3. confirmed[c] \in Nat
        BY <3>1
      <4> QED BY <4>1, <4>2, <4>3, ConstantTypes
    <3> QED BY <3>1, <3>2
  <2>3. \A k \in DOMAIN chain : Len(chain[k]) = blk_size
    BY <2>1, BatchTypes DEF TypeInv
  <2>4. /\ \A r \in Replica : replies[r] \subseteq Command \X {0, 1}
        /\ \A r \in Replica : received[r] \in 0 .. Len(chain)
    BY <2>1 DEF TypeInv
  <2> QED BY <2>1, <2>2, <2>3, <2>4 DEF TypeInv, TypeOK
<1> QED BY <1>1, Invariance, PTL

(* What the proposer waits for is in the buffer, with a beat, or in a      *)
(* block that it has not decided: the code that cuts batches loses nothing.*)
THEOREM NothingLost == Spec => []NoLostCommand
<1>1. IInv => NoLostCommand
  BY DEF IInv
<1> QED BY <1>1, Invariance, PTL

(* No command is in more batches than it was sent.                         *)
THEOREM NotProposedAgain == Spec => []ProposedOnce
<1>1. IInv => ProposedOnce
  <2> SUFFICES ASSUME IInv, NEW c \in Command
               PROVE  Cardinality(Places(c)) <= client
    BY DEF ProposedOnce
  <2>1. Cardinality(Places(c)) \in Nat /\ Cardinality(Unhandled(c)) \in Nat /\ client \in Nat
    <3>1. TypeInv
      BY DEF IInv
    <3>2. client \in Nat
      BY <3>1, ConstantTypes DEF TypeInv
    <3> QED BY <3>1, <3>2, PlacesFinite, UnhandledFinite
  <2>2. Cardinality(Places(c)) + Cardinality(Unhandled(c)) <= client
    BY DEF IInv, PlacesInv
  <2> QED BY <2>1, <2>2
<1> QED BY <1>1, Invariance, PTL

(* What the client of the first start takes for confirmed was decided by   *)
(* more than nfaulty replicas.                                             *)
THEOREM ConfirmationsTrue == Spec => []ConfirmedDecided
<1>1. IInv => ConfirmedDecided
  BY DEF IInv, AcknowledgedInv
<1> QED BY <1>1, Invariance, PTL
=============================================================================
