--------------------------- MODULE Promise_proofs ---------------------------
(***************************************************************************)
(* Proofs about promises: that callbacks which register on and settle      *)
(* promises while others run lose nothing, for any number of promises.     *)
(***************************************************************************)
EXTENDS Promise, SequenceTheorems, TLAPS

Outcome == {"fulfilled", "rejected"}
Operations == {"new", "then", "then2", "fail", "all", "race"}
Callbacks == {"call", "pass", "slot"} \X Promises \X {1, 2}
Frames == Tasks \X Promises \X {1, 2} \X Promises

Mem(seq) == {seq[i] : i \in 1 .. Len(seq)}
Waiting(p, s) == IF s = "fulfilled" THEN fulfilled_callbacks[p] ELSE rejected_callbacks[p]

ResultTypes ==
    /\ results = [n \in Promises |-> [size |-> results[n].size, got |-> <<results[n].got[1], results[n].got[2]>>]]
    /\ \A n \in Promises : results[n].size \in Int

(* The types; the promises that have not been made are as they were.       *)
TypeInv ==
    /\ made \in Roots .. MaxPromise
    /\ state \in [Promises -> {"pending"} \cup Outcome]
    /\ value = [p \in Promises |-> value[p]]
    /\ fulfilled_callbacks \in [Promises -> Seq(Callbacks)]
    /\ rejected_callbacks \in [Promises -> Seq(Callbacks)]
    /\ ResultTypes
    /\ stack \in Seq(Frames)
    /\ origin \in [Promises -> [op : Operations, from : Seq(Promises), early : BOOLEAN]]
    /\ \E S : calls \in Seq(S)
    /\ adopted \in [Promises -> 0 .. made]
    /\ forced \subseteq 1 .. made
    /\ \A p \in Promises : state[p] = "pending" => value[p] = None
    /\ \A p \in Promises : state[p] # "pending" => Waiting(p, state[p]) = <<>>
    /\ \A p \in Promises : p > made =>
        /\ state[p] = "pending" /\ fulfilled_callbacks[p] = <<>> /\ rejected_callbacks[p] = <<>>
        /\ adopted[p] = 0 /\ results[p] = [size |-> 2, got |-> <<None, None>>]
    /\ \A n \in Promises : n > made \/ n <= Roots => origin[n].op = "new"
    /\ \A n \in Promises : origin[n].op # "new" =>
        /\ Len(origin[n].from) = IF origin[n].op \in {"all", "race"} THEN 2 ELSE 1
        /\ \A i \in 1 .. Len(origin[n].from) : origin[n].from[i] < n
    /\ \A i \in 1 .. Len(stack) : state[stack[i][4]] # "pending" /\ stack[i][2] <= made /\ stack[i][4] <= made

Called == {calls[i][1] : i \in 1 .. Len(calls)}
From(n) == {origin[n].from[i] : i \in {1, 2}}

(* A callback in the right place: with what it is for and when it is run   *)
CallRight(n, p, s) == Handled(n) /\ Parent(n) = p /\ Handles(n, s) /\ adopted[n] = 0
PassRight(n, p, s) ==
    \/ Handled(n) /\ Parent(n) = p /\ ~Handles(n, s)
    \/ Handled(n) /\ adopted[n] = p /\ state[Parent(n)] # "pending" /\ Handles(n, state[Parent(n)])
    \/ origin[n].op = "race" /\ p \in From(n)
    \/ origin[n].op = "all" /\ p \in From(n) /\ s = "rejected"
SlotRight(n, i, p, s) == origin[n].op = "all" /\ origin[n].from[i] = p /\ s = "fulfilled"

TokenRight(cb, p, s) ==
    /\ cb[2] <= made
    /\ \/ cb[1] = "call" /\ cb[3] = 1 /\ CallRight(cb[2], p, s)
       \/ cb[1] = "pass" /\ cb[3] = 1 /\ PassRight(cb[2], p, s)
       \/ cb[1] = "slot" /\ SlotRight(cb[2], cb[3], p, s)

(* A promise whose handler is still to be called or to return is pending,  *)
(* unless the user settled it.                                             *)
Untouched(n) == n \notin forced => state[n] = "pending"
FrameRight(fr) ==
    \/ fr[1] = "call" /\ fr[3] = 1 /\ CallRight(fr[2], fr[4], state[fr[4]]) /\ Untouched(fr[2]) /\ fr[2] \notin Called
    \/ fr[1] = "user" /\ fr[3] = 1 /\ CallRight(fr[2], fr[4], state[fr[4]]) /\ Untouched(fr[2]) /\ fr[2] \in Called
    \/ fr[1] = "pass" /\ fr[3] = 1 /\ PassRight(fr[2], fr[4], state[fr[4]])
    \/ fr[1] = "slot" /\ SlotRight(fr[2], fr[3], fr[4], state[fr[4]])

(* Nothing but settling alike is to be done twice.                         *)
Distinct(seq) == \A i, j \in 1 .. Len(seq) : seq[i] = seq[j] /\ seq[i][1] # "pass" => i = j

(* The handlers that were registered early on one promise are in order.    *)
Early == {fr \in Frames : fr[1] = "call" /\ origin[fr[2]].early}
InOrder(seq, E) ==
    \A i, j \in 1 .. Len(seq) :
        i < j /\ seq[i] \in E /\ seq[j] \in E /\ seq[i][4] = seq[j][4] => seq[i][2] < seq[j][2]

ListInv ==
    \A p \in Promises, s \in Outcome : state[p] = "pending" =>
        /\ \A cb \in Mem(Waiting(p, s)) : TokenRight(cb, p, s) /\ (cb[1] = "call" => origin[cb[2]].early)
        /\ Distinct(Waiting(p, s)) /\ InOrder(RunAll(Waiting(p, s), p), Early)

StackInv == (\A fr \in Mem(stack) : FrameRight(fr)) /\ Distinct(stack) /\ InOrder(stack, Early)

CallsInv ==
    /\ \A i \in 1 .. Len(calls) : LET n == calls[i][1] IN
        /\ n \in 1 .. made /\ Handled(n) /\ state[Parent(n)] # "pending" /\ Handles(n, state[Parent(n)])
        /\ calls[i] = <<n, state[Parent(n)], value[Parent(n)]>>
    /\ \A i, j \in 1 .. Len(calls) : calls[i][1] = calls[j][1] => i = j
    /\ CalledInOrder
    /\ \A n \in Called, fr \in Mem(stack) :
        fr \in Early /\ origin[n].early /\ Parent(n) = fr[4] => n < fr[2]

(* n waits for p, or the callback that p's outcome asks for is on its way. *)
WaitsFor(p, f, g) ==
    IF state[p] = "pending"
    THEN f \in Mem(fulfilled_callbacks[p]) /\ g \in Mem(rejected_callbacks[p])
    ELSE Run(IF state[p] = "fulfilled" THEN f ELSE g, p) \in Mem(stack)

HandlerFor(n, s) == IF Handles(n, s) THEN Call(n) ELSE Pass(n)
WaitsForParent(n) == WaitsFor(Parent(n), HandlerFor(n, "fulfilled"), HandlerFor(n, "rejected"))
ParentActed(n) == state[Parent(n)] # "pending"
ParentHandled(n) == ParentActed(n) /\ Handles(n, state[Parent(n)])

(* No handler is forgotten.                                                *)
Due(n) == WaitsForParent(n) \/ (ParentActed(n) /\ (Handles(n, state[Parent(n)]) => n \in Called))
DueInv == \A n \in 1 .. made : Handled(n) => Due(n)

(* What becomes of a promise that the user does not settle                 *)
HandlerFate(n) ==
    \/ state[n] = "pending" /\ WaitsForParent(n)
    \/ ParentActed(n) /\ ~Handles(n, state[Parent(n)]) /\ Follows(n, Parent(n))
    \/ ParentHandled(n) /\ adopted[n] = 0 /\ state[n] = "pending" /\ <<"user", n, 1, Parent(n)>> \in Mem(stack)
    \/ ParentHandled(n) /\ adopted[n] = 0 /\ state[n] = state[Parent(n)] /\ value[n] = <<n>>
    \/ ParentHandled(n) /\ adopted[n] # 0 /\ state[n] = "pending" /\ WaitsFor(adopted[n], Pass(n), Pass(n))
    \/ ParentHandled(n) /\ adopted[n] # 0 /\ state[adopted[n]] # "pending" /\ Follows(n, adopted[n])

RaceFate(n) == LET ps == origin[n].from IN
    \/ state[n] = "pending" /\ \A i \in {1, 2} : WaitsFor(ps[i], Pass(n), Pass(n))
    \/ \E i \in {1, 2} : state[ps[i]] # "pending" /\ Follows(n, ps[i])

Filled(n, i) == LET p == origin[n].from[i] IN
    state[p] = "fulfilled" /\ <<"slot", n, i, p>> \notin Mem(stack)

Awaited(n, i) == LET p == origin[n].from[i] IN
    WaitsFor(p, Slot(n, i), Pass(n)) \/ (state[p] = "rejected" /\ state[n] # "pending")

(* The count of what is missing, and what all() has got                    *)
Counted(n) ==
    /\ results[n].size = (IF Filled(n, 1) THEN 0 ELSE 1) + (IF Filled(n, 2) THEN 0 ELSE 1)
    /\ \A i \in {1, 2} : Filled(n, i) => results[n].got[i] = value[origin[n].from[i]]
    /\ results[n].size = 0 => state[n] # "pending"
    /\ \A i \in {1, 2} : Filled(n, i) \/ Awaited(n, i)

AllFate(n) == LET ps == origin[n].from IN
    \/ state[n] = "pending"
    \/ \E i \in {1, 2} : state[ps[i]] = "rejected" /\ Follows(n, ps[i])
    \/ state[n] = "fulfilled" /\ results[n].size = 0 /\ value[n] = results[n].got

Fate(n) ==
    /\ origin[n].op = "new" => state[n] = "pending"
    /\ Handled(n) => HandlerFate(n)
    /\ origin[n].op = "race" => RaceFate(n)
    /\ origin[n].op = "all" => AllFate(n)

FateInv ==
    \A n \in 1 .. made :
        (origin[n].op = "all" => Counted(n)) /\ (n \notin forced => Fate(n))

Inv == TypeInv /\ ListInv /\ StackInv /\ CallsInv /\ DueInv /\ FateInv

-----------------------------------------------------------------------------
(* Sequences.                                                              *)

LEMMA MemConcat ==
    ASSUME NEW S, NEW a \in Seq(S), NEW b \in Seq(S)
    PROVE  /\ a \o b \in Seq(S) /\ Len(a \o b) = Len(a) + Len(b)
           /\ \A i \in 1 .. Len(a) : (a \o b)[i] = a[i]
           /\ \A i \in 1 .. Len(b) : (a \o b)[Len(a) + i] = b[i]
           /\ Mem(a \o b) = Mem(a) \cup Mem(b)
<1>1. /\ a \o b \in Seq(S) /\ Len(a \o b) = Len(a) + Len(b) /\ Len(a) \in Nat /\ Len(b) \in Nat
      /\ \A i \in 1 .. Len(a) + Len(b) : (a \o b)[i] = IF i <= Len(a) THEN a[i] ELSE b[i - Len(a)]
  BY ConcatProperties, LenProperties
<1> DEFINE c == a \o b
<1>2. \A i \in 1 .. Len(a) : c[i] = a[i]
  BY <1>1
<1>3. \A i \in 1 .. Len(b) : c[Len(a) + i] = b[i]
  BY <1>1
<1>4. Mem(c) = Mem(a) \cup Mem(b)
  <2>1. Mem(c) \subseteq Mem(a) \cup Mem(b)
    <3> SUFFICES ASSUME NEW i \in 1 .. Len(c) PROVE c[i] \in Mem(a) \cup Mem(b)
      BY DEF Mem
    <3>1. CASE i <= Len(a)
      BY <1>1, <3>1 DEF Mem
    <3>2. CASE ~(i <= Len(a))
      <4>1. i - Len(a) \in 1 .. Len(b) /\ c[i] = b[i - Len(a)]
        BY <1>1, <3>2
      <4> QED BY <4>1 DEF Mem
    <3> QED BY <3>1, <3>2
  <2>2. Mem(a) \subseteq Mem(c)
    <3> SUFFICES ASSUME NEW i \in 1 .. Len(a) PROVE a[i] \in Mem(c)
      BY DEF Mem
    <3>1. i \in 1 .. Len(c) /\ c[i] = a[i]
      BY <1>1, <1>2
    <3> QED BY <3>1 DEF Mem
  <2>3. Mem(b) \subseteq Mem(c)
    <3> SUFFICES ASSUME NEW i \in 1 .. Len(b) PROVE b[i] \in Mem(c)
      BY DEF Mem
    <3>1. Len(a) + i \in 1 .. Len(c) /\ c[Len(a) + i] = b[i]
      BY <1>1, <1>3
    <3> QED BY <3>1 DEF Mem
  <2> QED BY <2>1, <2>2, <2>3
<1> QED BY <1>1, <1>2, <1>3, <1>4

LEMMA MemAppend ==
    ASSUME NEW S, NEW a \in Seq(S), NEW e \in S
    PROVE  /\ Append(a, e) \in Seq(S) /\ Len(Append(a, e)) = Len(a) + 1
           /\ \A i \in 1 .. Len(a) : Append(a, e)[i] = a[i]
           /\ Append(a, e)[Len(a) + 1] = e
           /\ Mem(Append(a, e)) = Mem(a) \cup {e}
<1>1. /\ Append(a, e) \in Seq(S) /\ Len(Append(a, e)) = Len(a) + 1 /\ Len(a) \in Nat
      /\ \A i \in 1 .. Len(a) : Append(a, e)[i] = a[i]
      /\ Append(a, e)[Len(a) + 1] = e
  BY AppendProperties, LenProperties
<1> DEFINE c == Append(a, e)
<1>2. Mem(c) \subseteq Mem(a) \cup {e}
  <2> SUFFICES ASSUME NEW i \in 1 .. Len(c) PROVE c[i] \in Mem(a) \cup {e}
    BY DEF Mem
  <2>1. i \in 1 .. Len(a) \/ i = Len(a) + 1
    BY <1>1
  <2> QED BY <1>1, <2>1 DEF Mem
<1>3. Mem(a) \subseteq Mem(c)
  <2> SUFFICES ASSUME NEW i \in 1 .. Len(a) PROVE a[i] \in Mem(c)
    BY DEF Mem
  <2>1. i \in 1 .. Len(c) /\ c[i] = a[i]
    BY <1>1
  <2> QED BY <2>1 DEF Mem
<1>4. e \in Mem(c)
  <2>1. Len(a) + 1 \in 1 .. Len(c) /\ c[Len(a) + 1] = e
    BY <1>1
  <2> QED BY <2>1 DEF Mem
<1> QED BY <1>1, <1>2, <1>3, <1>4

LEMMA MemTail ==
    ASSUME NEW S, NEW a \in Seq(S), a # <<>>
    PROVE  /\ Tail(a) \in Seq(S) /\ Len(Tail(a)) = Len(a) - 1 /\ Len(a) \in Nat \ {0}
           /\ Head(a) = a[1] /\ Head(a) \in S
           /\ \A i \in 1 .. Len(a) - 1 : Tail(a)[i] = a[i + 1]
           /\ Mem(a) = Mem(Tail(a)) \cup {Head(a)}
<1>1. /\ Tail(a) \in Seq(S) /\ Len(Tail(a)) = Len(a) - 1 /\ Len(a) \in Nat \ {0}
      /\ Head(a) = a[1] /\ Head(a) \in S
      /\ \A i \in 1 .. Len(a) - 1 : Tail(a)[i] = a[i + 1]
  BY HeadTailProperties, LenProperties, EmptySeq
<1>2. Mem(a) \subseteq Mem(Tail(a)) \cup {Head(a)}
  <2> SUFFICES ASSUME NEW i \in 1 .. Len(a) PROVE a[i] \in Mem(Tail(a)) \cup {Head(a)}
    BY DEF Mem
  <2>1. CASE i = 1
    BY <1>1, <2>1
  <2>2. CASE i # 1
    <3>1. i - 1 \in 1 .. Len(a) - 1
      BY <1>1, <2>2
    <3>2. Tail(a)[i - 1] = a[(i - 1) + 1] /\ (i - 1) + 1 = i
      BY <1>1, <3>1
    <3> QED BY <1>1, <3>1, <3>2 DEF Mem
  <2> QED BY <2>1, <2>2
<1>3. Mem(Tail(a)) \subseteq Mem(a)
  <2> SUFFICES ASSUME NEW i \in 1 .. Len(a) - 1 PROVE Tail(a)[i] \in Mem(a)
    BY <1>1 DEF Mem
  <2>1. i + 1 \in 1 .. Len(a) /\ Tail(a)[i] = a[i + 1]
    BY <1>1
  <2> QED BY <2>1 DEF Mem
<1>4. Head(a) \in Mem(a)
  BY <1>1 DEF Mem
<1> QED BY <1>1, <1>2, <1>3, <1>4

LEMMA MemOne ==
    ASSUME NEW S, NEW e \in S
    PROVE  <<e>> \in Seq(S) /\ Len(<<e>>) = 1 /\ <<e>>[1] = e /\ Mem(<<e>>) = {e}
<1>1. <<e>> \in Seq(S) /\ Len(<<e>>) = 1 /\ <<e>>[1] = e
  OBVIOUS
<1> QED BY <1>1 DEF Mem

LEMMA MemNone ==
    ASSUME NEW S
    PROVE  <<>> \in Seq(S) /\ Len(<<>>) = 0 /\ Mem(<<>>) = {}
BY DEF Mem

LEMMA RunFacts ==
    ASSUME NEW cb \in Callbacks, NEW p \in Promises
    PROVE  /\ Run(cb, p) \in Frames
           /\ Run(cb, p)[1] = cb[1] /\ Run(cb, p)[2] = cb[2] /\ Run(cb, p)[3] = cb[3] /\ Run(cb, p)[4] = p
           /\ cb = <<cb[1], cb[2], cb[3]>>
           /\ cb[1] \in {"call", "pass", "slot"} /\ cb[2] \in Promises /\ cb[3] \in {1, 2}
BY DEF Run, Callbacks, Frames, Tasks

LEMMA RunAllFacts ==
    ASSUME NEW cbs \in Seq(Callbacks), NEW p \in Promises
    PROVE  /\ RunAll(cbs, p) \in Seq(Frames) /\ Len(RunAll(cbs, p)) = Len(cbs)
           /\ \A i \in 1 .. Len(cbs) : RunAll(cbs, p)[i] = Run(cbs[i], p)
           /\ Mem(RunAll(cbs, p)) = {Run(cb, p) : cb \in Mem(cbs)}
<1>1. Len(cbs) \in Nat /\ \A i \in 1 .. Len(cbs) : Run(cbs[i], p) \in Frames
  BY RunFacts
<1>2. /\ RunAll(cbs, p) \in Seq(Frames) /\ Len(RunAll(cbs, p)) = Len(cbs)
      /\ \A i \in 1 .. Len(cbs) : RunAll(cbs, p)[i] = Run(cbs[i], p)
  BY <1>1 DEF RunAll
<1> QED BY <1>2 DEF Mem

LEMMA InitTypes == Init => TypeInv
<1> SUFFICES ASSUME Init PROVE TypeInv
  OBVIOUS
<1>1. Roots \in Nat /\ MaxPromise \in Nat /\ Roots <= MaxPromise /\ Promises \subseteq Nat
  BY BoundAssumption DEF Promises
<1>2. calls \in Seq({})
  BY DEF Init
<1>3. value = [p \in Promises |-> value[p]] /\ \A p \in Promises : value[p] = None
  BY DEF Init
<1>4. ResultTypes
  BY DEF Init, ResultTypes
<1>5. origin \in [Promises -> [op : Operations, from : Seq(Promises), early : BOOLEAN]]
  BY DEF Init, Operations
<1> QED BY <1>1, <1>2, <1>3, <1>4, <1>5 DEF Init, TypeInv, Outcome

-----------------------------------------------------------------------------
(* What settling and registering do to the callbacks.                      *)

(* A settled promise stays as it is; callbacks stay with a promise that is *)
(* pending, and are called when it is settled.                             *)
Moves(rest) ==
    /\ \A p \in Promises : state[p] # "pending" => state'[p] = state[p] /\ value'[p] = value[p]
    /\ \A p \in Promises, s \in Outcome :
        state'[p] = "pending" => Mem(Waiting(p, s)) \subseteq Mem(Waiting(p, s)')
    /\ \A p \in Promises : state[p] = "pending" /\ state'[p] # "pending" =>
        \A cb \in Mem(Waiting(p, state'[p])) : Run(cb, p) \in Mem(stack')
    /\ Mem(rest) \subseteq Mem(stack')

(* The types of what they change                                           *)
MachineTypes ==
    /\ state \in [Promises -> {"pending"} \cup Outcome]
    /\ value = [p \in Promises |-> value[p]]
    /\ fulfilled_callbacks \in [Promises -> Seq(Callbacks)]
    /\ rejected_callbacks \in [Promises -> Seq(Callbacks)]
    /\ stack \in Seq(Frames)
    /\ \A p \in Promises : state[p] = "pending" => value[p] = None
    /\ \A p \in Promises : state[p] # "pending" => Waiting(p, state[p]) = <<>>

LEMMA WaitingTypes ==
    ASSUME MachineTypes, NEW p \in Promises, NEW s \in Outcome
    PROVE  Waiting(p, s) \in Seq(Callbacks)
BY DEF MachineTypes, Waiting, Outcome

(* What Settle does when p is pending: new is what runs next.              *)
LEMMA SettlePending ==
    ASSUME MachineTypes, NEW p \in Promises, NEW s \in Outcome, NEW v, NEW rest \in Seq(Frames),
           state[p] = "pending", Settle(p, s, v, rest)
    PROVE  /\ MachineTypes'
           /\ state'[p] = s /\ value'[p] = v
           /\ \A q \in Promises \ {p} : state'[q] = state[q] /\ value'[q] = value[q]
           /\ \A q \in Promises \ {p}, o \in Outcome : Waiting(q, o)' = Waiting(q, o)
           /\ stack' = RunAll(Waiting(p, s), p) \o rest
           /\ Moves(rest)
<1>1. /\ state' = [state EXCEPT ![p] = s] /\ value' = [value EXCEPT ![p] = v]
      /\ stack' = RunAll(Waiting(p, s), p) \o rest
  BY DEF Settle, Waiting, Outcome
<1>2. /\ s = "fulfilled" => fulfilled_callbacks' = [fulfilled_callbacks EXCEPT ![p] = <<>>]
                            /\ rejected_callbacks' = rejected_callbacks
      /\ s # "fulfilled" => rejected_callbacks' = [rejected_callbacks EXCEPT ![p] = <<>>]
                            /\ fulfilled_callbacks' = fulfilled_callbacks
  BY DEF Settle
<1>3. /\ state'[p] = s /\ value'[p] = v /\ s # "pending"
      /\ \A q \in Promises \ {p} : state'[q] = state[q] /\ value'[q] = value[q]
  BY <1>1 DEF MachineTypes, Outcome
<1>4. \A q \in Promises \ {p}, o \in Outcome : Waiting(q, o)' = Waiting(q, o)
  BY <1>2 DEF MachineTypes, Waiting
<1>5. Waiting(p, s)' = <<>>
  BY <1>2 DEF MachineTypes, Waiting, Outcome
<1>6. /\ fulfilled_callbacks' \in [Promises -> Seq(Callbacks)]
      /\ rejected_callbacks' \in [Promises -> Seq(Callbacks)]
  <2>1. <<>> \in Seq(Callbacks)
    OBVIOUS
  <2> QED BY <1>2, <2>1 DEF MachineTypes
<1>7. /\ RunAll(Waiting(p, s), p) \in Seq(Frames)
      /\ Mem(RunAll(Waiting(p, s), p)) = {Run(cb, p) : cb \in Mem(Waiting(p, s))}
  BY RunAllFacts, WaitingTypes
<1>8. stack' \in Seq(Frames) /\ Mem(stack') = Mem(RunAll(Waiting(p, s), p)) \cup Mem(rest)
  BY <1>1, <1>7, MemConcat
<1>9. value' = [q \in Promises |-> value'[q]] /\ state' \in [Promises -> {"pending"} \cup Outcome]
  BY <1>1 DEF MachineTypes
<1>10. MachineTypes'
  <2>1. \A q \in Promises : state'[q] = "pending" => value'[q] = None
    BY <1>3 DEF MachineTypes
  <2>2. ASSUME NEW q \in Promises, state'[q] # "pending"
        PROVE  Waiting(q, state[q])' = <<>>
    <3>1. CASE q = p
      BY <1>3, <1>5, <3>1 DEF Waiting, Outcome
    <3>2. CASE q # p
      <4>1. state'[q] = state[q] /\ state[q] \in Outcome /\ Waiting(q, state[q]) = <<>>
        BY <1>3, <2>2, <3>2 DEF MachineTypes
      <4>2. \A o \in Outcome : Waiting(q, o)' = Waiting(q, o)
        BY <1>4, <3>2
      <4> QED BY <4>1, <4>2 DEF Waiting
    <3> QED BY <3>1, <3>2
  <2> QED BY <1>6, <1>8, <1>9, <2>1, <2>2 DEF MachineTypes
<1>11. Moves(rest)
  BY <1>3, <1>4, <1>7, <1>8 DEF Moves
<1> QED BY <1>1, <1>3, <1>4, <1>10, <1>11

LEMMA SettleAgain ==
    ASSUME MachineTypes, NEW p \in Promises, NEW s \in Outcome, NEW v, NEW rest \in Seq(Frames),
           state[p] # "pending", Settle(p, s, v, rest)
    PROVE  MachineTypes' /\ UNCHANGED <<state, value, lists>> /\ stack' = rest /\ Moves(rest)
<1>1. UNCHANGED <<state, value, lists>> /\ stack' = rest
  BY DEF Settle
<1>2. UNCHANGED <<fulfilled_callbacks, rejected_callbacks>>
  BY <1>1 DEF lists
<1>3. MachineTypes'
  BY <1>1, <1>2 DEF MachineTypes, Waiting
<1>4. Moves(rest)
  BY <1>1, <1>2 DEF Moves, Waiting
<1> QED BY <1>1, <1>3, <1>4

LEMMA NowFacts ==
    ASSUME MachineTypes, NEW p \in Promises, NEW f \in Callbacks, NEW g \in Callbacks
    PROVE  /\ Now(p, f, g) \in Seq(Frames)
           /\ state[p] = "pending" => Now(p, f, g) = <<>> /\ Mem(Now(p, f, g)) = {}
           /\ state[p] # "pending" =>
                LET fr == Run(IF state[p] = "fulfilled" THEN f ELSE g, p) IN
                Now(p, f, g) = <<fr>> /\ Mem(Now(p, f, g)) = {fr}
<1>1. CASE state[p] = "pending"
  BY <1>1, MemNone DEF Now
<1>2. CASE state[p] # "pending"
  <2> DEFINE fr == Run(IF state[p] = "fulfilled" THEN f ELSE g, p)
  <2>1. fr \in Frames
    BY RunFacts
  <2>2. Now(p, f, g) = <<fr>>
    BY <1>2 DEF Now
  <2> HIDE DEF fr
  <2>3. <<fr>> \in Seq(Frames) /\ Mem(<<fr>>) = {fr}
    BY <2>1, MemOne
  <2> QED BY <1>2, <2>2, <2>3 DEF fr
<1> QED BY <1>1, <1>2

(* The token that a registration leaves for outcome o                      *)
Token(f, g, o) == IF o = "fulfilled" THEN f ELSE g

LEMMA RegisterFacts ==
    ASSUME MachineTypes, NEW p \in Promises, NEW f \in Callbacks, NEW g \in Callbacks,
           NEW rest \in Seq(Frames), Register(p, f, g, rest), UNCHANGED <<state, value>>
    PROVE  /\ MachineTypes'
           /\ \A q \in Promises, o \in Outcome :
                Waiting(q, o)' = IF q = p /\ state[p] = "pending"
                                 THEN Append(Waiting(q, o), Token(f, g, o)) ELSE Waiting(q, o)
           /\ stack' = Now(p, f, g) \o rest
           /\ Moves(rest)
<1>1. stack' = Now(p, f, g) \o rest /\ state' = state /\ value' = value
  BY DEF Register
<1>2. /\ state[p] = "pending" =>
            /\ fulfilled_callbacks' = [fulfilled_callbacks EXCEPT ![p] = Append(fulfilled_callbacks[p], f)]
            /\ rejected_callbacks' = [rejected_callbacks EXCEPT ![p] = Append(rejected_callbacks[p], g)]
      /\ state[p] # "pending" => UNCHANGED <<fulfilled_callbacks, rejected_callbacks>>
  BY DEF Register, lists
<1>3. /\ Append(fulfilled_callbacks[p], f) \in Seq(Callbacks)
      /\ Append(rejected_callbacks[p], g) \in Seq(Callbacks)
  BY DEF MachineTypes
<1>4. /\ fulfilled_callbacks' \in [Promises -> Seq(Callbacks)]
      /\ rejected_callbacks' \in [Promises -> Seq(Callbacks)]
  BY <1>2, <1>3 DEF MachineTypes
<1>5. \A q \in Promises, o \in Outcome :
        Waiting(q, o)' = IF q = p /\ state[p] = "pending"
                         THEN Append(Waiting(q, o), Token(f, g, o)) ELSE Waiting(q, o)
  BY <1>2 DEF MachineTypes, Waiting, Token
<1>6. stack' \in Seq(Frames) /\ Mem(rest) \subseteq Mem(stack')
  BY <1>1, NowFacts, MemConcat
<1>7. ASSUME NEW q \in Promises, state[q] # "pending"
      PROVE  Waiting(q, state[q])' = <<>>
  <2>1. state[q] \in Outcome /\ Waiting(q, state[q]) = <<>>
    BY <1>7 DEF MachineTypes
  <2>2. Waiting(q, state[q])' = Waiting(q, state[q])
    BY <1>1, <1>5, <1>7, <2>1 DEF Waiting
  <2> QED BY <2>1, <2>2
<1>8. MachineTypes'
  BY <1>1, <1>4, <1>6, <1>7 DEF MachineTypes
<1>9. ASSUME NEW q \in Promises, NEW o \in Outcome
      PROVE  Mem(Waiting(q, o)) \subseteq Mem(Waiting(q, o)')
  <2>1. Waiting(q, o) \in Seq(Callbacks) /\ Token(f, g, o) \in Callbacks
    BY WaitingTypes DEF Token
  <2>2. Mem(Append(Waiting(q, o), Token(f, g, o))) = Mem(Waiting(q, o)) \cup {Token(f, g, o)}
    BY <2>1, MemAppend
  <2> QED BY <1>5, <2>2
<1>10. Moves(rest)
  BY <1>1, <1>6, <1>9 DEF Moves
<1> QED BY <1>1, <1>5, <1>8, <1>10

LEMMA RegisterBothFacts ==
    ASSUME MachineTypes, NEW ps \in Pair, NEW fs \in Callbacks \X Callbacks, NEW gs \in Callbacks \X Callbacks,
           NEW rest \in Seq(Frames), RegisterBoth(ps, fs, gs, rest), UNCHANGED <<state, value>>
    PROVE  /\ MachineTypes'
           /\ \A q \in Promises, o \in Outcome :
                Waiting(q, o)' = IF state[q] # "pending" THEN Waiting(q, o)
                    ELSE Waiting(q, o) \o ((IF ps[1] = q THEN <<Token(fs, gs, o)[1]>> ELSE <<>>)
                                           \o (IF ps[2] = q THEN <<Token(fs, gs, o)[2]>> ELSE <<>>))
           /\ stack' = Now(ps[1], fs[1], gs[1]) \o Now(ps[2], fs[2], gs[2]) \o rest
           /\ Moves(rest)
<1> DEFINE with(cbs, q) == (IF ps[1] = q THEN <<cbs[1]>> ELSE <<>>) \o (IF ps[2] = q THEN <<cbs[2]>> ELSE <<>>)
           more(cbs, q) == IF state[q] # "pending" THEN <<>> ELSE with(cbs, q)
<1>1. /\ stack' = Now(ps[1], fs[1], gs[1]) \o Now(ps[2], fs[2], gs[2]) \o rest
      /\ state' = state /\ value' = value
      /\ fulfilled_callbacks' = [q \in Promises |-> fulfilled_callbacks[q] \o more(fs, q)]
      /\ rejected_callbacks' = [q \in Promises |-> rejected_callbacks[q] \o more(gs, q)]
  BY DEF RegisterBoth
<1>2. ps[1] \in Promises /\ ps[2] \in Promises /\ fs[1] \in Callbacks /\ fs[2] \in Callbacks
      /\ gs[1] \in Callbacks /\ gs[2] \in Callbacks
  BY DEF Pair
<1>3. \A q \in Promises : with(fs, q) \in Seq(Callbacks) /\ with(gs, q) \in Seq(Callbacks)
  <2>1. \A a \in Callbacks, b \in Callbacks : \A q \in Promises :
            (IF ps[1] = q THEN <<a>> ELSE <<>>) \o (IF ps[2] = q THEN <<b>> ELSE <<>>) \in Seq(Callbacks)
    <3> TAKE a \in Callbacks, b \in Callbacks
    <3> TAKE q \in Promises
    <3>1. <<a>> \in Seq(Callbacks) /\ <<b>> \in Seq(Callbacks) /\ <<>> \in Seq(Callbacks)
      OBVIOUS
    <3>2. (IF ps[1] = q THEN <<a>> ELSE <<>>) \in Seq(Callbacks) /\ (IF ps[2] = q THEN <<b>> ELSE <<>>) \in Seq(Callbacks)
      BY <3>1
    <3> QED BY <3>2, MemConcat
  <2> QED BY <1>2, <2>1
<1>4. \A q \in Promises : more(fs, q) \in Seq(Callbacks) /\ more(gs, q) \in Seq(Callbacks)
  BY <1>3
<1> HIDE DEF with
<1>5. ASSUME NEW q \in Promises, NEW o \in Outcome
      PROVE  /\ Waiting(q, o)' = Waiting(q, o) \o more(Token(fs, gs, o), q)
             /\ Waiting(q, o) \in Seq(Callbacks) /\ more(Token(fs, gs, o), q) \in Seq(Callbacks)
  BY <1>1, <1>4, WaitingTypes DEF Waiting, Token
<1>6. ASSUME NEW q \in Promises, NEW o \in Outcome
      PROVE  /\ Waiting(q, o)' \in Seq(Callbacks)
             /\ Mem(Waiting(q, o)) \subseteq Mem(Waiting(q, o)')
             /\ state[q] # "pending" => Waiting(q, o)' = Waiting(q, o)
             /\ state[q] = "pending" => Waiting(q, o)' = Waiting(q, o) \o with(Token(fs, gs, o), q)
  <2>1. state[q] # "pending" => Waiting(q, o)' = Waiting(q, o)
    <3>1. Waiting(q, o) \o <<>> = Waiting(q, o)
      BY <1>5, ConcatEmptySeq
    <3> QED BY <1>5, <3>1
  <2> DEFINE a == Waiting(q, o)
             b == more(Token(fs, gs, o), q)
  <2>2. a \in Seq(Callbacks) /\ b \in Seq(Callbacks) /\ Waiting(q, o)' = a \o b
        /\ (state[q] = "pending" => b = with(Token(fs, gs, o), q))
    BY <1>5
  <2> HIDE DEF a, b
  <2>3. a \o b \in Seq(Callbacks) /\ Mem(a \o b) = Mem(a) \cup Mem(b)
    BY <2>2, MemConcat
  <2> QED BY <2>1, <2>2, <2>3 DEF a
<1>7. stack' \in Seq(Frames) /\ Mem(rest) \subseteq Mem(stack')
  <2>1. Now(ps[1], fs[1], gs[1]) \in Seq(Frames) /\ Now(ps[2], fs[2], gs[2]) \in Seq(Frames)
    BY <1>2, NowFacts
  <2>2. Now(ps[1], fs[1], gs[1]) \o Now(ps[2], fs[2], gs[2]) \in Seq(Frames)
    BY <2>1, MemConcat
  <2> DEFINE a == Now(ps[1], fs[1], gs[1]) \o Now(ps[2], fs[2], gs[2])
  <2>3. a \in Seq(Frames) /\ stack' = a \o rest
    BY <1>1, <2>2
  <2> HIDE DEF a
  <2>4. a \o rest \in Seq(Frames) /\ Mem(a \o rest) = Mem(a) \cup Mem(rest)
    BY <2>3, MemConcat
  <2> QED BY <2>3, <2>4
<1>8. MachineTypes'
  <2>1. /\ fulfilled_callbacks' \in [Promises -> Seq(Callbacks)]
        /\ rejected_callbacks' \in [Promises -> Seq(Callbacks)]
    <3>1. \A q \in Promises : fulfilled_callbacks[q] \o more(fs, q) \in Seq(Callbacks)
                              /\ rejected_callbacks[q] \o more(gs, q) \in Seq(Callbacks)
      BY <1>4, MemConcat DEF MachineTypes
    <3> QED BY <1>1, <3>1
  <2>2. ASSUME NEW q \in Promises, state[q] # "pending"
        PROVE  Waiting(q, state[q])' = <<>>
    <3>1. state[q] \in Outcome /\ Waiting(q, state[q]) = <<>>
      BY <2>2 DEF MachineTypes
    <3>2. \A o \in Outcome : Waiting(q, o)' = Waiting(q, o)
      BY <1>6, <2>2
    <3> QED BY <1>1, <3>1, <3>2 DEF Waiting
  <2> QED BY <1>1, <1>7, <2>1, <2>2 DEF MachineTypes
<1>9. Moves(rest)
  BY <1>1, <1>6, <1>7 DEF Moves
<1> QED BY <1>1, <1>6, <1>8, <1>9 DEF with

-----------------------------------------------------------------------------
(* Types of what the invariants speak of.                                  *)

LEMMA TypeFacts ==
    ASSUME TypeInv
    PROVE  /\ MachineTypes /\ Promises \subseteq Nat \ {0} /\ made \in Nat /\ Roots \in Nat /\ Roots <= made
           /\ 1 .. made \subseteq Promises
           /\ \A fr \in Mem(stack) :
                /\ fr \in Frames /\ fr = <<fr[1], fr[2], fr[3], fr[4]>>
                /\ fr[1] \in Tasks /\ fr[2] \in 1 .. made /\ fr[3] \in {1, 2} /\ fr[4] \in 1 .. made
                /\ state[fr[4]] \in Outcome
<1>1. Roots \in Nat /\ MaxPromise \in Nat /\ Promises = 1 .. MaxPromise /\ made \in Roots .. MaxPromise
  BY BoundAssumption DEF TypeInv, Promises
<1>2. MachineTypes
  BY DEF TypeInv, MachineTypes
<1>3. ASSUME NEW i \in 1 .. Len(stack)
      PROVE  LET fr == stack[i] IN
             /\ fr \in Frames /\ fr = <<fr[1], fr[2], fr[3], fr[4]>>
             /\ fr[1] \in Tasks /\ fr[2] \in 1 .. made /\ fr[3] \in {1, 2} /\ fr[4] \in 1 .. made
             /\ state[fr[4]] \in Outcome
  <2>1. stack[i] \in Frames
    BY <1>2 DEF MachineTypes
  <2>2. state[stack[i][4]] # "pending" /\ stack[i][2] <= made /\ stack[i][4] <= made
    BY DEF TypeInv
  <2>3. stack[i][1] \in Tasks /\ stack[i][2] \in Promises /\ stack[i][3] \in {1, 2} /\ stack[i][4] \in Promises
        /\ stack[i] = <<stack[i][1], stack[i][2], stack[i][3], stack[i][4]>>
    BY <2>1 DEF Frames
  <2>4. state[stack[i][4]] \in Outcome
    BY <1>2, <2>2, <2>3 DEF MachineTypes
  <2> QED BY <1>1, <2>1, <2>2, <2>3, <2>4
<1>4. \A fr \in Mem(stack) :
        /\ fr \in Frames /\ fr = <<fr[1], fr[2], fr[3], fr[4]>>
        /\ fr[1] \in Tasks /\ fr[2] \in 1 .. made /\ fr[3] \in {1, 2} /\ fr[4] \in 1 .. made
        /\ state[fr[4]] \in Outcome
  <2> TAKE fr \in Mem(stack)
  <2>1. PICK i \in 1 .. Len(stack) : fr = stack[i]
    BY DEF Mem
  <2> QED BY <1>3, <2>1
<1>5. /\ MachineTypes /\ Promises \subseteq Nat \ {0} /\ made \in Nat /\ Roots \in Nat /\ Roots <= made
      /\ 1 .. made \subseteq Promises
  BY <1>1, <1>2
<1> QED BY <1>4, <1>5

LEMMA OriginFacts ==
    ASSUME TypeInv, NEW n \in Promises
    PROVE  /\ Handled(n) => Parent(n) \in Promises /\ Parent(n) < n
           /\ origin[n].op \in {"all", "race"} =>
                \A i \in {1, 2} : origin[n].from[i] \in Promises /\ origin[n].from[i] < n
           /\ origin[n].op \in Operations
           /\ n <= Roots => origin[n].op = "new"
<1>1. origin[n].from \in Seq(Promises) /\ origin[n].op \in Operations
  BY DEF TypeInv
<1>2. origin[n].op # "new" =>
        /\ Len(origin[n].from) = IF origin[n].op \in {"all", "race"} THEN 2 ELSE 1
        /\ \A i \in 1 .. Len(origin[n].from) : origin[n].from[i] < n
  BY DEF TypeInv
<1>3. \A i \in 1 .. Len(origin[n].from) : origin[n].from[i] \in Promises
  BY <1>1
<1>4. n <= Roots => origin[n].op = "new"
  BY DEF TypeInv
<1> QED BY <1>1, <1>2, <1>3, <1>4 DEF Handled, Parent, Operations

LEMMA HandlesFacts ==
    ASSUME TypeInv, NEW n \in Promises
    PROVE  /\ Call(n) \in Callbacks /\ Pass(n) \in Callbacks
           /\ Slot(n, 1) \in Callbacks /\ Slot(n, 2) \in Callbacks
           /\ \A s \in Outcome : HandlerFor(n, s) \in Callbacks
           /\ Call(n) # Pass(n)
BY DEF Call, Pass, Slot, Callbacks, HandlerFor

(* What is left of the calls in progress when the innermost one has gone   *)
LEMMA PartFacts ==
    ASSUME TypeInv, NEW rest, rest = stack \/ (stack # <<>> /\ rest = Rest)
    PROVE  /\ rest \in Seq(Frames) /\ Mem(rest) \subseteq Mem(stack)
           /\ Distinct(stack) => Distinct(rest)
           /\ \A E : InOrder(stack, E) => InOrder(rest, E)
<1>1. stack \in Seq(Frames)
  BY DEF TypeInv
<1>2. CASE rest = stack
  BY <1>1, <1>2
<1>3. CASE stack # <<>> /\ rest = Rest
  <2>1. /\ rest \in Seq(Frames) /\ Len(rest) = Len(stack) - 1 /\ Len(stack) \in Nat \ {0}
        /\ \A i \in 1 .. Len(stack) - 1 : rest[i] = stack[i + 1]
        /\ Mem(rest) \subseteq Mem(stack)
    BY <1>1, <1>3, MemTail DEF Rest
  <2>2. \A i \in 1 .. Len(rest) : i + 1 \in 1 .. Len(stack) /\ rest[i] = stack[i + 1] /\ i \in Nat
    BY <2>1
  <2>3. Distinct(stack) => Distinct(rest)
    BY <2>2 DEF Distinct
  <2>4. ASSUME NEW E, InOrder(stack, E)
        PROVE  InOrder(rest, E)
    <3> SUFFICES ASSUME NEW i \in 1 .. Len(rest), NEW j \in 1 .. Len(rest), i < j,
                        rest[i] \in E, rest[j] \in E, rest[i][4] = rest[j][4]
                 PROVE  rest[i][2] < rest[j][2]
      BY DEF InOrder
    <3>1. /\ i + 1 \in 1 .. Len(stack) /\ rest[i] = stack[i + 1]
          /\ j + 1 \in 1 .. Len(stack) /\ rest[j] = stack[j + 1] /\ i + 1 < j + 1
      BY <2>2
    <3> QED BY <2>4, <3>1 DEF InOrder
  <2> QED BY <2>1, <2>3, <2>4
<1> QED BY <1>2, <1>3

LEMMA ConcatKeeps ==
    ASSUME NEW S, NEW a \in Seq(S), NEW b \in Seq(S)
    PROVE  /\ Distinct(a) /\ Distinct(b) /\ (\A x \in Mem(a) : x[1] # "pass" => x \notin Mem(b))
              => Distinct(a \o b)
           /\ \A E : InOrder(a, E) /\ InOrder(b, E)
                     /\ (\A x \in Mem(a) \cap E, y \in Mem(b) \cap E : x[4] = y[4] => x[2] < y[2])
                     => InOrder(a \o b, E)
<1> DEFINE c == a \o b
<1>1. /\ Len(c) = Len(a) + Len(b) /\ Len(a) \in Nat /\ Len(b) \in Nat
      /\ \A i \in 1 .. Len(a) : c[i] = a[i]
      /\ \A i \in 1 .. Len(b) : c[Len(a) + i] = b[i]
  BY MemConcat
<1> HIDE DEF c
<1>2. ASSUME NEW i \in 1 .. Len(c)
      PROVE  \/ i \in 1 .. Len(a) /\ c[i] = a[i] /\ a[i] \in Mem(a)
             \/ i - Len(a) \in 1 .. Len(b) /\ i > Len(a) /\ c[i] = b[i - Len(a)] /\ b[i - Len(a)] \in Mem(b)
  <2>1. CASE i <= Len(a)
    BY <1>1, <2>1 DEF Mem
  <2>2. CASE ~(i <= Len(a))
    <3>1. i - Len(a) \in 1 .. Len(b) /\ Len(a) + (i - Len(a)) = i
      BY <1>1, <2>2
    <3>2. c[i] = b[i - Len(a)]
      BY <1>1, <3>1
    <3> QED BY <1>1, <2>2, <3>1, <3>2 DEF Mem
  <2> QED BY <2>1, <2>2
<1>3. ASSUME Distinct(a), Distinct(b), \A x \in Mem(a) : x[1] # "pass" => x \notin Mem(b)
      PROVE  Distinct(c)
  <2> SUFFICES ASSUME NEW i \in 1 .. Len(c), NEW j \in 1 .. Len(c), c[i] = c[j], c[i][1] # "pass"
               PROVE  i = j
    BY DEF Distinct
  <2>1. CASE i \in 1 .. Len(a) /\ j \in 1 .. Len(a)
    <3>1. c[i] = a[i] /\ c[j] = a[j]
      BY <1>1, <2>1
    <3> QED BY <1>3, <2>1, <3>1 DEF Distinct
  <2>2. CASE i - Len(a) \in 1 .. Len(b) /\ i > Len(a) /\ j - Len(a) \in 1 .. Len(b) /\ j > Len(a)
    <3>1. c[i] = b[i - Len(a)] /\ c[j] = b[j - Len(a)]
      BY <1>2, <2>2
    <3>2. i - Len(a) = j - Len(a)
      BY <1>3, <2>2, <3>1 DEF Distinct
    <3> QED BY <1>1, <3>2
  <2>3. CASE (i \in 1 .. Len(a) /\ j > Len(a)) \/ (j \in 1 .. Len(a) /\ i > Len(a))
    BY <1>1, <1>2, <1>3, <2>3
  <2> QED BY <1>1, <1>2, <2>1, <2>2, <2>3
<1>4. ASSUME NEW E, InOrder(a, E), InOrder(b, E),
             \A x \in Mem(a) \cap E, y \in Mem(b) \cap E : x[4] = y[4] => x[2] < y[2]
      PROVE  InOrder(c, E)
  <2> SUFFICES ASSUME NEW i \in 1 .. Len(c), NEW j \in 1 .. Len(c), i < j, c[i] \in E, c[j] \in E, c[i][4] = c[j][4]
               PROVE  c[i][2] < c[j][2]
    BY DEF InOrder
  <2>1. CASE i \in 1 .. Len(a) /\ j \in 1 .. Len(a)
    BY <1>1, <1>4, <2>1 DEF InOrder
  <2>2. CASE i - Len(a) \in 1 .. Len(b) /\ j - Len(a) \in 1 .. Len(b)
    <3>1. c[i] = b[i - Len(a)] /\ c[j] = b[j - Len(a)] /\ i - Len(a) < j - Len(a)
      BY <1>1, <1>2, <2>2
    <3> QED BY <1>4, <2>2, <3>1 DEF InOrder
  <2>3. CASE i \in 1 .. Len(a) /\ j - Len(a) \in 1 .. Len(b)
    <3>1. c[i] \in Mem(a)
      BY <1>1, <2>3 DEF Mem
    <3>2. j \notin 1 .. Len(a)
      BY <1>1, <2>3
    <3>3. c[j] \in Mem(b)
      BY <1>2, <3>2
    <3> QED BY <1>4, <3>1, <3>3
  <2> QED BY <1>1, <1>2, <2>1, <2>2, <2>3
<1> QED BY <1>3, <1>4 DEF c

-----------------------------------------------------------------------------
(* What stays right while others are settled.                              *)

SettledStay == \A q \in Promises : state[q] # "pending" => state'[q] = state[q] /\ value'[q] = value[q]

LEMMA TokenStays ==
    ASSUME TypeInv, NEW cb \in Callbacks, NEW p \in Promises, NEW s \in Outcome, TokenRight(cb, p, s),
           made' \in Nat, made <= made', SettledStay, origin'[cb[2]] = origin[cb[2]],
           \/ adopted'[cb[2]] = adopted[cb[2]]
           \/ adopted[cb[2]] = 0 /\ cb[1] # "call"
    PROVE  TokenRight(cb, p, s)'
<1> DEFINE n == cb[2]
<1>1. n \in Promises /\ n \in Nat /\ n <= made' /\ made \in Nat /\ p # 0
  BY TypeFacts, RunFacts DEF TokenRight
<1>2. /\ Handled(n)' <=> Handled(n)
      /\ Parent(n)' = Parent(n) /\ From(n)' = From(n) /\ origin'[n].op = origin[n].op
      /\ \A o : Handles(n, o)' <=> Handles(n, o)
      /\ \A i : origin'[n].from[i] = origin[n].from[i]
  BY DEF Handled, Parent, From, Handles
<1>3. ASSUME PassRight(n, p, s)
      PROVE  PassRight(n, p, s)'
  <2>1. CASE Handled(n) /\ Parent(n) = p /\ ~Handles(n, s)
    BY <1>2, <2>1 DEF PassRight
  <2>2. CASE Handled(n) /\ adopted[n] = p /\ state[Parent(n)] # "pending" /\ Handles(n, state[Parent(n)])
    <3>1. Parent(n) \in Promises
      BY <1>1, <2>2, OriginFacts
    <3>2. state'[Parent(n)] = state[Parent(n)]
      BY <2>2, <3>1 DEF SettledStay
    <3>3. adopted'[n] = p
      BY <1>1, <2>2
    <3>4. (state[Parent(n)])' = state[Parent(n)]
      BY <1>2, <3>2
    <3>5. Handles(n, state[Parent(n)])'
      BY <2>2, <3>4 DEF Handles
    <3> QED BY <1>2, <2>2, <3>3, <3>4, <3>5 DEF PassRight
  <2>3. CASE origin[n].op = "race" /\ p \in From(n)
    BY <1>2, <2>3 DEF PassRight
  <2>4. CASE origin[n].op = "all" /\ p \in From(n) /\ s = "rejected"
    BY <1>2, <2>4 DEF PassRight
  <2> QED BY <1>3, <2>1, <2>2, <2>3, <2>4 DEF PassRight
<1>4. CASE cb[1] = "call" /\ cb[3] = 1 /\ CallRight(n, p, s)
  <2>1. CallRight(n, p, s)'
    BY <1>2, <1>4 DEF CallRight
  <2> QED BY <1>1, <1>4, <2>1 DEF TokenRight
<1>5. CASE cb[1] = "pass" /\ cb[3] = 1 /\ PassRight(n, p, s)
  BY <1>1, <1>3, <1>5 DEF TokenRight
<1>6. CASE cb[1] = "slot" /\ SlotRight(n, cb[3], p, s)
  <2>1. SlotRight(n, cb[3], p, s)'
    BY <1>2, <1>6 DEF SlotRight
  <2> QED BY <1>1, <1>6, <2>1 DEF TokenRight
<1> QED BY <1>4, <1>5, <1>6 DEF TokenRight

(* A frame is the token it came from, with the outcome it is called for.   *)
LEMMA FrameToken ==
    ASSUME TypeInv, NEW fr \in Frames, state[fr[4]] \in Outcome
    PROVE  LET cb == <<fr[1], fr[2], fr[3]>> IN
           /\ fr[1] # "user" => cb \in Callbacks /\ fr = Run(cb, fr[4])
           /\ FrameRight(fr) /\ fr[1] # "user" /\ fr[2] <= made => TokenRight(cb, fr[4], state[fr[4]])
           /\ TokenRight(cb, fr[4], state[fr[4]]) /\ Untouched(fr[2]) /\ fr[2] \notin Called => FrameRight(fr)
           /\ TokenRight(cb, fr[4], state[fr[4]]) /\ fr[1] # "call" => FrameRight(fr)
<1> DEFINE cb == <<fr[1], fr[2], fr[3]>>
<1>1. /\ fr[1] \in Tasks /\ fr[2] \in Promises /\ fr[3] \in {1, 2} /\ fr[4] \in Promises
      /\ fr = <<fr[1], fr[2], fr[3], fr[4]>>
  BY DEF Frames
<1>2. cb[1] = fr[1] /\ cb[2] = fr[2] /\ cb[3] = fr[3]
  OBVIOUS
<1>3. fr[1] # "user" => cb \in Callbacks /\ fr = Run(cb, fr[4])
  BY <1>1 DEF Callbacks, Tasks, Run
<1> HIDE DEF cb
<1>4. FrameRight(fr) /\ fr[1] # "user" /\ fr[2] <= made => TokenRight(cb, fr[4], state[fr[4]])
  BY <1>2 DEF FrameRight, TokenRight
<1>5. TokenRight(cb, fr[4], state[fr[4]]) /\ Untouched(fr[2]) /\ fr[2] \notin Called => FrameRight(fr)
  BY <1>2 DEF FrameRight, TokenRight
<1>6. TokenRight(cb, fr[4], state[fr[4]]) /\ fr[1] # "call" => FrameRight(fr)
  BY <1>2 DEF FrameRight, TokenRight
<1> QED BY <1>3, <1>4, <1>5, <1>6 DEF cb

LEMMA FrameStays ==
    ASSUME TypeInv, NEW fr \in Mem(stack), FrameRight(fr), TypeInv',
           made <= made', SettledStay, origin'[fr[2]] = origin[fr[2]],
           \/ adopted'[fr[2]] = adopted[fr[2]]
           \/ adopted[fr[2]] = 0 /\ fr[1] \notin {"call", "user"},
           fr[1] \in {"call", "user"} => Untouched(fr[2])' /\ (fr[2] \in Called <=> fr[2] \in Called')
    PROVE  FrameRight(fr)'
<1> DEFINE cb == <<fr[1], fr[2], fr[3]>>
<1>1. /\ fr \in Frames /\ fr[2] \in 1 .. made /\ fr[4] \in Promises /\ state[fr[4]] \in Outcome
      /\ made' \in Nat /\ fr[2] \in Promises /\ fr[2] <= made
  <2>1. made' \in Roots .. MaxPromise
    BY DEF TypeInv
  <2>2. made' \in Nat
    BY <2>1, BoundAssumption
  <2> QED BY <2>2, TypeFacts
<1>2. state'[fr[4]] = state[fr[4]]
  BY <1>1 DEF SettledStay, Outcome
<1>3. cb[1] = fr[1] /\ cb[2] = fr[2] /\ cb[3] = fr[3]
  OBVIOUS
<1>4. CASE fr[1] # "user"
  <2>1. cb \in Callbacks /\ TokenRight(cb, fr[4], state[fr[4]])
    BY <1>1, <1>4, FrameToken
  <2>2. adopted'[cb[2]] = adopted[cb[2]] \/ (adopted[cb[2]] = 0 /\ cb[1] # "call")
    BY <1>3, <1>4
  <2> HIDE DEF cb
  <2>3. \A s \in Outcome : TokenRight(cb, fr[4], s) => TokenRight(cb, fr[4], s)'
    BY <1>1, <1>3, <2>1, <2>2, TokenStays
  <2>4. TokenRight(cb, fr[4], state[fr[4]])'
    BY <1>1, <1>2, <2>1, <2>3 DEF TokenRight, CallRight, PassRight, SlotRight
  <2>5. fr[1] = "call" => Untouched(fr[2])' /\ fr[2] \notin Called'
    <3>1. fr[1] = "call" => fr[2] \notin Called
      BY DEF FrameRight
    <3> QED BY <3>1
  <2> QED BY <1>3, <2>4, <2>5 DEF FrameRight, TokenRight
<1>5. CASE fr[1] = "user"
  <2>1. fr[3] = 1 /\ CallRight(fr[2], fr[4], state[fr[4]]) /\ fr[2] \in Called
    BY <1>5 DEF FrameRight
  <2>2. CallRight(fr[2], fr[4], state[fr[4]])'
    BY <1>2, <1>5, <2>1 DEF CallRight, Handled, Parent, Handles
  <2> QED BY <1>5, <2>1, <2>2 DEF FrameRight
<1> QED BY <1>4, <1>5

-----------------------------------------------------------------------------
(* Settling keeps the callbacks right.                                     *)

LEMMA RunAllDistinct ==
    ASSUME NEW cbs \in Seq(Callbacks), NEW p \in Promises, Distinct(cbs)
    PROVE  Distinct(RunAll(cbs, p))
<1> SUFFICES ASSUME NEW i \in 1 .. Len(cbs), NEW j \in 1 .. Len(cbs),
                    Run(cbs[i], p) = Run(cbs[j], p), Run(cbs[i], p)[1] # "pass"
             PROVE  i = j
  <2>1. Len(RunAll(cbs, p)) = Len(cbs) /\ \A i \in 1 .. Len(cbs) : RunAll(cbs, p)[i] = Run(cbs[i], p)
    BY RunAllFacts
  <2> QED BY <2>1 DEF Distinct
<1>1. cbs[i] \in Callbacks /\ cbs[j] \in Callbacks
  OBVIOUS
<1>2. cbs[i] = cbs[j] /\ cbs[i][1] # "pass"
  BY <1>1, RunFacts
<1> QED BY <1>2 DEF Distinct

(* What a step of settling m with outcome s leaves                         *)
Settling(m, s, rest) ==
    /\ Inv
    /\ m \in 1 .. made /\ s \in Outcome /\ (rest = stack \/ (stack # <<>> /\ rest = Rest))
    /\ UNCHANGED <<made, origin, calls, adopted>>
    /\ forced \subseteq forced' /\ forced' \subseteq 1 .. made
    /\ ResultTypes' /\ \A n \in Promises : n > made => results'[n] = results[n]
    /\ m \notin forced' => \A fr \in Mem(rest) : fr[1] \in {"call", "user"} => fr[2] # m

Settled(m, s, v, rest) ==
    /\ Moves(rest) /\ SettledStay
    /\ \A q \in Promises \ {m} : state'[q] = state[q] /\ value'[q] = value[q]
    /\ IF state[m] = "pending" THEN state'[m] = s /\ value'[m] = v ELSE state'[m] = state[m] /\ value'[m] = value[m]
    /\ \A q \in Promises, o \in Outcome : state'[q] = "pending" => Waiting(q, o)' = Waiting(q, o)
    /\ \A fr \in Mem(stack') :
        \/ fr \in Mem(rest)
        \/ /\ fr[4] = m /\ state[m] = "pending"
           /\ \E cb \in Mem(Waiting(m, s)) : fr = Run(cb, m)

LEMMA SettleSteps ==
    ASSUME NEW m, NEW s, NEW v, NEW rest, Settling(m, s, rest), Settle(m, s, v, rest)
    PROVE  /\ MachineTypes' /\ Settled(m, s, v, rest)
           /\ state[m] = "pending" => stack' = RunAll(Waiting(m, s), m) \o rest
           /\ state[m] # "pending" => stack' = rest
<1>1. MachineTypes /\ m \in Promises /\ s \in Outcome /\ rest \in Seq(Frames) /\ TypeInv
  BY TypeFacts, PartFacts DEF Settling, Inv
<1>2. CASE state[m] = "pending"
  <2>1. /\ MachineTypes'
        /\ state'[m] = s /\ value'[m] = v
        /\ \A q \in Promises \ {m} : state'[q] = state[q] /\ value'[q] = value[q]
        /\ \A q \in Promises \ {m}, o \in Outcome : Waiting(q, o)' = Waiting(q, o)
        /\ stack' = RunAll(Waiting(m, s), m) \o rest
        /\ Moves(rest)
    BY <1>1, <1>2, SettlePending
  <2>2. SettledStay /\ s # "pending"
    BY <1>1, <1>2, <2>1 DEF SettledStay, Outcome
  <2>3. /\ RunAll(Waiting(m, s), m) \in Seq(Frames)
        /\ Mem(RunAll(Waiting(m, s), m)) = {Run(cb, m) : cb \in Mem(Waiting(m, s))}
        /\ Mem(Waiting(m, s)) \subseteq Callbacks
    <3>1. Waiting(m, s) \in Seq(Callbacks)
      BY <1>1, WaitingTypes
    <3>2. Mem(Waiting(m, s)) \subseteq Callbacks
      BY <3>1 DEF Mem
    <3> QED BY <1>1, <3>1, <3>2, RunAllFacts
  <2>4. Mem(stack') = Mem(RunAll(Waiting(m, s), m)) \cup Mem(rest)
    BY <1>1, <2>1, <2>3, MemConcat
  <2>5. \A fr \in Mem(stack') :
            \/ fr \in Mem(rest)
            \/ fr[4] = m /\ \E cb \in Mem(Waiting(m, s)) : fr = Run(cb, m)
    <3> TAKE fr \in Mem(stack')
    <3>1. CASE fr \in Mem(RunAll(Waiting(m, s), m))
      <4>1. PICK cb \in Mem(Waiting(m, s)) : fr = Run(cb, m)
        BY <2>3, <3>1
      <4>2. fr[4] = m
        BY <1>1, <2>3, <4>1, RunFacts
      <4> QED BY <4>1, <4>2
    <3> QED BY <2>4, <3>1
  <2> QED BY <1>2, <2>1, <2>2, <2>5 DEF Settled
<1>3. CASE state[m] # "pending"
  <2>1. MachineTypes' /\ UNCHANGED <<state, value, lists>> /\ stack' = rest /\ Moves(rest)
    BY <1>1, <1>3, SettleAgain
  <2>2. \A q, o : Waiting(q, o)' = Waiting(q, o)
    BY <2>1 DEF lists, Waiting
  <2> QED BY <1>3, <2>1, <2>2 DEF Settled, SettledStay
<1> QED BY <1>2, <1>3

LEMMA SettleTypes ==
    ASSUME NEW m, NEW s, NEW v, NEW rest, Settling(m, s, rest), Settle(m, s, v, rest)
    PROVE  TypeInv'
<1>1. MachineTypes' /\ Settled(m, s, v, rest)
  BY SettleSteps
<1>2. TypeInv /\ ListInv /\ m \in 1 .. made /\ s \in Outcome
      /\ UNCHANGED <<made, origin, calls, adopted>> /\ forced' \subseteq 1 .. made
      /\ ResultTypes' /\ \A n \in Promises : n > made => results'[n] = results[n]
  BY DEF Settling, Inv
<1>3. MachineTypes /\ m \in Promises /\ Promises \subseteq Nat /\ made \in Nat
  BY <1>2, TypeFacts
<1>4. \A p \in Promises : p > made =>
        /\ state'[p] = "pending" /\ fulfilled_callbacks'[p] = <<>> /\ rejected_callbacks'[p] = <<>>
        /\ adopted'[p] = 0 /\ results'[p] = [size |-> 2, got |-> <<None, None>>]
  <2> SUFFICES ASSUME NEW p \in Promises, p > made
               PROVE  /\ state'[p] = "pending" /\ fulfilled_callbacks'[p] = <<>> /\ rejected_callbacks'[p] = <<>>
                      /\ adopted'[p] = 0 /\ results'[p] = [size |-> 2, got |-> <<None, None>>]
    OBVIOUS
  <2>1. p # m /\ state[p] = "pending" /\ fulfilled_callbacks[p] = <<>> /\ rejected_callbacks[p] = <<>>
        /\ adopted[p] = 0 /\ results[p] = [size |-> 2, got |-> <<None, None>>]
    <3>1. p # m
      BY <1>2, <1>3
    <3> QED BY <1>2, <3>1 DEF TypeInv
  <2>2. state'[p] = "pending"
    BY <1>1, <2>1 DEF Settled
  <2>3. \A o \in Outcome : Waiting(p, o)' = Waiting(p, o)
    BY <1>1, <2>2 DEF Settled
  <2>4. fulfilled_callbacks'[p] = <<>> /\ rejected_callbacks'[p] = <<>>
    BY <2>1, <2>3 DEF Waiting, Outcome
  <2> QED BY <1>2, <2>1, <2>2, <2>4
<1>5. \A i \in 1 .. Len(stack') : state'[stack'[i][4]] # "pending" /\ stack'[i][2] <= made' /\ stack'[i][4] <= made'
  <2> SUFFICES ASSUME NEW fr \in Mem(stack')
               PROVE  state'[fr[4]] # "pending" /\ fr[2] <= made /\ fr[4] <= made
    BY <1>2 DEF Mem
  <2>1. CASE fr \in Mem(rest)
    <3>1. fr \in Mem(stack)
      BY <1>2, <2>1, PartFacts DEF Settling, Inv
    <3>2. fr[4] \in Promises /\ state[fr[4]] # "pending" /\ fr[2] <= made /\ fr[4] <= made
      BY <1>2, <3>1, TypeFacts DEF Outcome
    <3> QED BY <1>1, <3>2 DEF Settled, SettledStay
  <2>2. CASE fr[4] = m /\ state[m] = "pending" /\ \E cb \in Mem(Waiting(m, s)) : fr = Run(cb, m)
    <3>1. PICK cb \in Mem(Waiting(m, s)) : fr = Run(cb, m)
      BY <2>2
    <3>2. cb[2] <= made
      BY <1>2, <1>3, <2>2 DEF ListInv, TokenRight
    <3>3. state'[m] = s /\ s # "pending" /\ fr[2] = cb[2]
      BY <1>1, <1>2, <2>2, <3>1 DEF Settled, Outcome, Run
    <3> QED BY <1>2, <1>3, <2>2, <3>2, <3>3
  <2> QED BY <1>1, <2>1, <2>2 DEF Settled
<1>6. /\ made' \in Roots .. MaxPromise
      /\ origin' \in [Promises -> [op : Operations, from : Seq(Promises), early : BOOLEAN]]
      /\ \E S : calls' \in Seq(S)
      /\ adopted' \in [Promises -> 0 .. made'] /\ forced' \subseteq 1 .. made'
      /\ \A n \in Promises : n > made' \/ n <= Roots => origin'[n].op = "new"
      /\ \A n \in Promises : origin'[n].op # "new" =>
          /\ Len(origin'[n].from) = IF origin'[n].op \in {"all", "race"} THEN 2 ELSE 1
          /\ \A i \in 1 .. Len(origin'[n].from) : origin'[n].from[i] < n
  BY <1>2 DEF TypeInv
<1>7. \A p \in Promises : p > made' => 
        /\ state'[p] = "pending" /\ fulfilled_callbacks'[p] = <<>> /\ rejected_callbacks'[p] = <<>>
        /\ adopted'[p] = 0 /\ results'[p] = [size |-> 2, got |-> <<None, None>>]
  BY <1>2, <1>4
<1> QED BY <1>1, <1>2, <1>5, <1>6, <1>7 DEF TypeInv, MachineTypes

LEMMA SettleLists ==
    ASSUME NEW m, NEW s, NEW v, NEW rest, Settling(m, s, rest), Settle(m, s, v, rest)
    PROVE  ListInv'
<1>1. /\ Settled(m, s, v, rest) /\ TypeInv /\ ListInv /\ MachineTypes /\ MachineTypes'
      /\ UNCHANGED <<made, origin, adopted>> /\ made \in Nat
  BY SettleSteps, TypeFacts DEF Settling, Inv
<1> SUFFICES ASSUME NEW p \in Promises, NEW o \in Outcome, state'[p] = "pending"
             PROVE  /\ \A cb \in Mem(Waiting(p, o)') :
                        TokenRight(cb, p, o)' /\ (cb[1] = "call" => origin'[cb[2]].early)
                    /\ Distinct(Waiting(p, o)') /\ InOrder(RunAll(Waiting(p, o), p), Early)'
  BY DEF ListInv
<1>2. Waiting(p, o)' = Waiting(p, o) /\ state[p] = "pending"
  BY <1>1 DEF Settled, SettledStay
<1>3. ASSUME NEW cb \in Mem(Waiting(p, o))
      PROVE  TokenRight(cb, p, o)' /\ (cb[1] = "call" => origin'[cb[2]].early)
  <2>1. cb \in Callbacks
    <3>1. Waiting(p, o) \in Seq(Callbacks)
      BY <1>1, WaitingTypes
    <3> QED BY <3>1 DEF Mem
  <2>2. TokenRight(cb, p, o) /\ (cb[1] = "call" => origin[cb[2]].early)
    BY <1>1, <1>2 DEF ListInv
  <2>3. TokenRight(cb, p, o)'
    <3>1. made' \in Nat /\ made <= made' /\ SettledStay /\ origin'[cb[2]] = origin[cb[2]]
          /\ adopted'[cb[2]] = adopted[cb[2]]
      BY <1>1 DEF Settled
    <3> QED BY <1>1, <2>1, <2>2, <3>1, TokenStays
  <2> QED BY <1>1, <2>2, <2>3
<1>4. Distinct(Waiting(p, o)) /\ InOrder(RunAll(Waiting(p, o), p), Early)
  BY <1>1, <1>2 DEF ListInv
<1>5. InOrder(RunAll(Waiting(p, o), p), Early)'
  <2>1. (RunAll(Waiting(p, o), p))' = RunAll(Waiting(p, o), p)
    BY <1>2
  <2>2. Early' = Early
    BY <1>1 DEF Early
  <2> QED BY <1>4, <2>1, <2>2
<1> QED BY <1>2, <1>3, <1>4, <1>5

(* A handler that is registered on a pending promise has not been called,  *)
(* and its own promise is untouched.                                       *)
LEMMA WaitingUntouched ==
    ASSUME Inv, NEW n \in 1 .. made, Handled(n), state[Parent(n)] = "pending"
    PROVE  n \notin Called /\ Untouched(n)
<1>1. n \notin Called
  BY DEF Inv, CallsInv, Called
<1>2. n \notin forced => state[n] = "pending"
  BY DEF Inv, FateInv, Fate, HandlerFate, ParentActed, ParentHandled
<1> QED BY <1>1, <1>2 DEF Untouched

LEMMA SettleStack ==
    ASSUME NEW m, NEW s, NEW v, NEW rest, Settling(m, s, rest), Settle(m, s, v, rest)
    PROVE  StackInv'
<1>1. /\ Settled(m, s, v, rest) /\ TypeInv /\ ListInv /\ StackInv /\ MachineTypes /\ TypeInv' /\ Inv
      /\ UNCHANGED <<made, origin, adopted, calls>> /\ made \in Nat /\ Promises \subseteq Nat
      /\ m \in Promises /\ s \in Outcome /\ forced \subseteq forced' /\ 1 .. made \subseteq Promises
  BY SettleSteps, SettleTypes, TypeFacts DEF Settling, Inv
<1>2. Called' = Called
  BY <1>1 DEF Called
<1>3. rest \in Seq(Frames) /\ Mem(rest) \subseteq Mem(stack) /\ Distinct(rest) /\ InOrder(rest, Early)
  BY <1>1, PartFacts DEF Settling, StackInv
<1>4. ASSUME NEW fr \in Mem(rest)
      PROVE  FrameRight(fr)'
  <2>1. fr \in Mem(stack) /\ FrameRight(fr) /\ fr[2] \in Promises
    BY <1>1, <1>3, TypeFacts DEF StackInv
  <2>2. fr[1] \in {"call", "user"} => Untouched(fr[2])'
    <3> SUFFICES ASSUME fr[1] \in {"call", "user"}, fr[2] \notin forced'
                 PROVE  state'[fr[2]] = "pending"
      BY DEF Untouched
    <3>1. fr[2] # m
      BY DEF Settling
    <3>2. state[fr[2]] = "pending"
      BY <1>1, <2>1 DEF FrameRight, Untouched
    <3> QED BY <1>1, <2>1, <3>1, <3>2 DEF Settled
  <2>3. made <= made' /\ SettledStay /\ origin'[fr[2]] = origin[fr[2]] /\ adopted'[fr[2]] = adopted[fr[2]]
    BY <1>1 DEF Settled
  <2> QED BY <1>1, <1>2, <2>1, <2>2, <2>3, FrameStays
<1>5. ASSUME state[m] = "pending", NEW cb \in Mem(Waiting(m, s))
      PROVE  FrameRight(Run(cb, m))'
  <2>1. Waiting(m, s) \in Seq(Callbacks)
    BY <1>1, WaitingTypes
  <2>2. cb \in Callbacks /\ cb[2] \in Promises
    <3>1. cb \in Callbacks
      BY <2>1 DEF Mem
    <3> QED BY <1>1, <3>1, RunFacts
  <2>3. TokenRight(cb, m, s)
    BY <1>1, <1>5 DEF ListInv
  <2>4. TokenRight(cb, m, s)'
    <3>1. made' \in Nat /\ made <= made' /\ SettledStay /\ origin'[cb[2]] = origin[cb[2]]
          /\ adopted'[cb[2]] = adopted[cb[2]]
      BY <1>1 DEF Settled
    <3> QED BY <1>1, <2>2, <2>3, <3>1, TokenStays
  <2>5. state'[m] = s
    BY <1>1, <1>5 DEF Settled
  <2>6. cb[1] = "call" => cb[2] \notin Called' /\ Untouched(cb[2])'
    <3> SUFFICES ASSUME cb[1] = "call" PROVE cb[2] \notin Called' /\ Untouched(cb[2])'
      OBVIOUS
    <3>1. Handled(cb[2]) /\ Parent(cb[2]) = m /\ cb[2] \in 1 .. made
      BY <1>1, <2>2, <2>3 DEF TokenRight, CallRight, Promises
    <3>2. cb[2] \notin Called /\ Untouched(cb[2])
      BY <1>1, <1>5, <3>1, WaitingUntouched
    <3>3. m < cb[2]
      BY <1>1, <2>2, <3>1, OriginFacts
    <3>4. state'[cb[2]] = state[cb[2]]
      <4>1. cb[2] \in Promises \ {m}
        <5>1. m \in Nat /\ cb[2] \in Nat
          BY <1>1, <2>2
        <5> QED BY <2>2, <3>3, <5>1
      <4> QED BY <1>1, <4>1 DEF Settled
    <3> QED BY <1>1, <1>2, <3>2, <3>4 DEF Untouched
  <2>7. FrameRight(Run(cb, m))'
    <3> DEFINE fr == Run(cb, m)
    <3>1. fr[1] = cb[1] /\ fr[2] = cb[2] /\ fr[3] = cb[3] /\ fr[4] = m
      BY <1>1, <2>2, RunFacts
    <3> HIDE DEF fr
    <3>2. FrameRight(fr)'
      BY <2>4, <2>5, <2>6, <3>1 DEF FrameRight, TokenRight
    <3> QED BY <3>2 DEF fr
  <2> QED BY <2>7
<1>6. ASSUME NEW fr \in Mem(stack')
      PROVE  FrameRight(fr)'
  BY <1>1, <1>4, <1>5 DEF Settled
<1>7. Distinct(stack') /\ InOrder(stack', Early)
  <2>1. CASE state[m] = "pending"
    <3> DEFINE a == RunAll(Waiting(m, s), m)
    <3>1. stack' = a \o rest
      BY <2>1, SettleSteps
    <3>2. Waiting(m, s) \in Seq(Callbacks) /\ Distinct(Waiting(m, s)) /\ InOrder(a, Early)
      BY <1>1, <2>1, WaitingTypes DEF ListInv
    <3>3. a \in Seq(Frames) /\ Distinct(a) /\ Mem(a) = {Run(cb, m) : cb \in Mem(Waiting(m, s))}
      BY <1>1, <3>2, RunAllFacts, RunAllDistinct
    <3>4. \A x \in Mem(a) : x[4] = m
      <4>1. Mem(Waiting(m, s)) \subseteq Callbacks
        BY <3>2 DEF Mem
      <4> QED BY <1>1, <3>3, <4>1, RunFacts
    <3>5. \A y \in Mem(rest) : y[4] # m
      BY <1>1, <1>3, <2>1, TypeFacts DEF Outcome
    <3> HIDE DEF a
    <3> QED BY <1>3, <3>1, <3>2, <3>3, <3>4, <3>5, ConcatKeeps
  <2>2. CASE state[m] # "pending"
    BY <1>3, <2>2, SettleSteps
  <2> QED BY <2>1, <2>2
<1>8. Distinct(stack)' /\ InOrder(stack, Early)'
  <2>1. Early' = Early
    BY <1>1 DEF Early
  <2> QED BY <1>7, <2>1
<1> QED BY <1>6, <1>8 DEF StackInv

-----------------------------------------------------------------------------
(* What any step keeps, when it adds no callbacks but those that were      *)
(* waiting, and those of a promise that it makes.                          *)

Fresh(rest) ==
    \A fr \in Mem(stack') :
        fr \in Mem(rest) \/ state[fr[4]] = "pending" \/ ((fr[1] # "slot" \/ fr[2] > made) /\ fr \notin Early')

Part(rest) == rest = stack \/ (stack # <<>> /\ rest = Rest)

Steps(rest) ==
    /\ Inv /\ TypeInv' /\ Part(rest) /\ Moves(rest) /\ Fresh(rest)
    /\ made <= made' /\ \A n \in 1 .. made : origin'[n] = origin[n]

LEMMA StepFacts ==
    ASSUME NEW rest, Steps(rest)
    PROVE  /\ TypeInv /\ MachineTypes /\ SettledStay /\ Moves(rest)
           /\ Promises \subseteq Nat \ {0} /\ made \in Nat /\ made' \in Nat /\ made <= made'
           /\ 1 .. made \subseteq Promises
           /\ rest \in Seq(Frames) /\ Mem(rest) \subseteq Mem(stack)
           /\ \A fr \in Mem(stack) : fr \in Mem(stack') \/ (stack # <<>> /\ rest = Rest /\ fr = Head(stack))
           /\ \A n \in 1 .. made :
                /\ Handled(n)' <=> Handled(n)
                /\ Parent(n)' = Parent(n) /\ origin'[n] = origin[n]
                /\ \A o : Handles(n, o)' <=> Handles(n, o)
                /\ \A o : HandlerFor(n, o)' = HandlerFor(n, o)
<1>1. TypeInv /\ Moves(rest) /\ made <= made' /\ \A n \in 1 .. made : origin'[n] = origin[n]
  BY DEF Steps, Inv
<1>2. made' \in Nat
  <2>1. made' \in Roots .. MaxPromise
    BY DEF Steps, TypeInv
  <2> QED BY <2>1, BoundAssumption
<1>3. MachineTypes /\ Promises \subseteq Nat \ {0} /\ made \in Nat /\ 1 .. made \subseteq Promises
  BY <1>1, TypeFacts
<1>4. SettledStay
  BY <1>1 DEF Moves, SettledStay
<1>5. rest \in Seq(Frames) /\ Mem(rest) \subseteq Mem(stack) /\ stack \in Seq(Frames)
  BY <1>1, <1>3, PartFacts DEF Steps, Part, MachineTypes
<1>6. ASSUME NEW fr \in Mem(stack)
      PROVE  fr \in Mem(stack') \/ (stack # <<>> /\ rest = Rest /\ fr = Head(stack))
  <2>1. Mem(rest) \subseteq Mem(stack')
    BY <1>1 DEF Moves
  <2>2. CASE rest = stack
    BY <2>1, <2>2
  <2>3. CASE stack # <<>> /\ rest = Rest
    <3>1. Mem(stack) = Mem(Rest) \cup {Head(stack)}
      BY <1>5, <2>3, MemTail DEF Rest
    <3> QED BY <2>1, <2>3, <3>1
  <2> QED BY <2>2, <2>3 DEF Steps, Part
<1>7. ASSUME NEW n \in 1 .. made
      PROVE  /\ Handled(n)' <=> Handled(n)
             /\ Parent(n)' = Parent(n) /\ origin'[n] = origin[n]
             /\ \A o : Handles(n, o)' <=> Handles(n, o)
             /\ \A o : HandlerFor(n, o)' = HandlerFor(n, o)
  BY <1>1 DEF Handled, Parent, Handles, HandlerFor
<1> QED BY <1>1, <1>2, <1>3, <1>4, <1>5, <1>6, <1>7

(* What is waited for is still waited for, unless it is just being done.   *)
LEMMA WaitsStay ==
    ASSUME NEW rest, Steps(rest), NEW p \in Promises, NEW f \in Callbacks, NEW g \in Callbacks,
           WaitsFor(p, f, g),
           \/ rest = stack \/ state[p] = "pending"
           \/ Head(stack) # Run(Token(f, g, state[p]), p)
    PROVE  WaitsFor(p, f, g)'
<1>1. MachineTypes /\ SettledStay /\ Moves(rest)
  BY StepFacts
<1>2. state[p] \in {"pending"} \cup Outcome /\ state'[p] \in {"pending"} \cup Outcome
  BY <1>1 DEF MachineTypes, Steps, TypeInv
<1>3. CASE state[p] = "pending"
  <2>1. /\ f \in Mem(Waiting(p, "fulfilled")) /\ g \in Mem(Waiting(p, "rejected"))
    BY <1>3 DEF WaitsFor, Waiting
  <2>2. CASE state'[p] = "pending"
    <3>1. \A o \in Outcome : Mem(Waiting(p, o)) \subseteq Mem(Waiting(p, o)')
      BY <1>1, <2>2 DEF Moves
    <3>2. f \in Mem(Waiting(p, "fulfilled")') /\ g \in Mem(Waiting(p, "rejected")')
      BY <2>1, <3>1 DEF Outcome
    <3> QED BY <2>2, <3>2 DEF WaitsFor, Waiting
  <2>3. CASE state'[p] # "pending"
    <3>1. \A cb \in Mem(Waiting(p, state'[p])) : Run(cb, p) \in Mem(stack')
      BY <1>1, <1>3, <2>3 DEF Moves
    <3>2. (IF state'[p] = "fulfilled" THEN f ELSE g) \in Mem(Waiting(p, state'[p]))
      BY <1>2, <2>1, <2>3 DEF Outcome
    <3>3. Run(IF state'[p] = "fulfilled" THEN f ELSE g, p) \in Mem(stack')
      BY <3>1, <3>2
    <3>4. (Mem(stack))' = Mem(stack')
      OBVIOUS
    <3> QED BY <2>3, <3>3, <3>4 DEF WaitsFor
  <2> QED BY <2>2, <2>3
<1>4. CASE state[p] # "pending"
  <2>1. Run(Token(f, g, state[p]), p) \in Mem(stack)
    BY <1>4 DEF WaitsFor, Token
  <2>2. Run(Token(f, g, state[p]), p) \in Mem(stack')
           \/ (rest = Rest /\ stack # <<>> /\ Run(Token(f, g, state[p]), p) = Head(stack))
    <3>1. \A fr \in Mem(stack) : fr \in Mem(stack') \/ (stack # <<>> /\ rest = Rest /\ fr = Head(stack))
      BY StepFacts
    <3> QED BY <2>1, <3>1
  <2>3. Run(Token(f, g, state[p]), p) \in Mem(stack')
    BY <1>1, <1>4, <2>1, <2>2 DEF Moves
  <2>4. state'[p] = state[p]
    BY <1>1, <1>4 DEF SettledStay
  <2> QED BY <1>4, <2>3, <2>4 DEF WaitsFor, Token
<1> QED BY <1>3, <1>4

LEMMA CallsStay ==
    ASSUME NEW rest, Steps(rest), calls' = calls
    PROVE  CallsInv'
<1>1. /\ TypeInv /\ SettledStay /\ made \in Nat /\ made' \in Nat /\ made <= made' /\ Mem(rest) \subseteq Mem(stack)
      /\ 1 .. made \subseteq Promises
      /\ \A n \in 1 .. made : /\ Handled(n)' <=> Handled(n)
                              /\ Parent(n)' = Parent(n) /\ origin'[n] = origin[n]
                              /\ \A o : Handles(n, o)' <=> Handles(n, o)
  BY StepFacts
<1>2. CallsInv
  BY DEF Steps, Inv
<1>3. ASSUME NEW i \in 1 .. Len(calls), NEW n, n = calls[i][1]
      PROVE  /\ n \in 1 .. made' /\ Handled(n)' /\ state'[Parent(n)'] # "pending" /\ Handles(n, state[Parent(n)])'
             /\ calls[i] = <<n, state'[Parent(n)'], value'[Parent(n)']>>
  <2>1. /\ n \in 1 .. made /\ Handled(n) /\ state[Parent(n)] # "pending" /\ Handles(n, state[Parent(n)])
        /\ calls[i] = <<n, state[Parent(n)], value[Parent(n)]>>
    BY <1>2, <1>3 DEF CallsInv
  <2>2. n \in Promises /\ Parent(n) \in Promises
    BY <1>1, <2>1, OriginFacts
  <2>3. state'[Parent(n)] = state[Parent(n)] /\ value'[Parent(n)] = value[Parent(n)]
    BY <1>1, <2>1, <2>2 DEF SettledStay
  <2>4. n \in 1 .. made' /\ Parent(n)' = Parent(n) /\ Handled(n)' /\ origin'[n] = origin[n]
    <3>1. n \in 1 .. made'
      BY <1>1, <2>1
    <3> QED BY <1>1, <2>1, <3>1
  <2>5. (state[Parent(n)])' = state[Parent(n)]
    BY <2>3, <2>4
  <2>6. Handles(n, state[Parent(n)])'
    BY <2>1, <2>4, <2>5 DEF Handles
  <2> QED BY <2>1, <2>3, <2>4, <2>6
<1>4. Called' = Called /\ Called \subseteq 1 .. made
  BY <1>2 DEF Called, CallsInv
<1>5. CalledInOrder'
  <2> SUFFICES ASSUME NEW i \in 1 .. Len(calls), NEW j \in 1 .. Len(calls),
                      i < j, origin'[calls[i][1]].early, origin'[calls[j][1]].early,
                      Parent(calls[i][1])' = Parent(calls[j][1])'
               PROVE  calls[i][1] < calls[j][1]
    BY DEF CalledInOrder
  <2>1. calls[i][1] \in 1 .. made /\ calls[j][1] \in 1 .. made
    BY <1>4 DEF Called
  <2> QED BY <1>1, <1>2, <2>1 DEF CallsInv, CalledInOrder
<1>6. ASSUME NEW n \in Called, NEW fr \in Mem(stack'), fr \in Early', origin'[n].early, Parent(n)' = fr[4]
      PROVE  n < fr[2]
  <2>1. n \in 1 .. made /\ Parent(n) = fr[4] /\ origin[n].early
    BY <1>1, <1>4, <1>6
  <2>2. state[Parent(n)] # "pending"
    BY <1>2 DEF CallsInv, Called
  <2>3. fr \in Mem(rest)
    BY <1>6, <2>1, <2>2 DEF Steps, Fresh
  <2>4. fr \in Mem(stack) /\ fr[2] \in 1 .. made
    BY <1>1, <2>3, TypeFacts
  <2>5. fr \in Early
    BY <1>1, <1>6, <2>4 DEF Early
  <2> QED BY <1>2, <2>1, <2>4, <2>5 DEF CallsInv
<1>7. \A i, j \in 1 .. Len(calls) : calls[i][1] = calls[j][1] => i = j
  BY <1>2 DEF CallsInv
<1>8. \A n \in Called', fr \in Mem(stack)' : fr \in Early' /\ origin'[n].early /\ Parent(n)' = fr[4] => n < fr[2]
  <2>1. Mem(stack)' = Mem(stack')
    OBVIOUS
  <2> QED BY <1>4, <1>6, <2>1
<1> QED BY <1>3, <1>5, <1>7, <1>8 DEF CallsInv

LEMMA ParentStays ==
    ASSUME NEW rest, Steps(rest), NEW n \in 1 .. made, Handled(n)
    PROVE  /\ Parent(n) \in Promises /\ n \in Promises
           /\ ParentActed(n) => ParentActed(n)'
                /\ (state[Parent(n)])' = state[Parent(n)] /\ (value[Parent(n)])' = value[Parent(n)]
                /\ (Handles(n, state[Parent(n)])' <=> Handles(n, state[Parent(n)]))
           /\ ParentHandled(n) => ParentHandled(n)'
<1>1. n \in Promises /\ Parent(n) \in Promises /\ SettledStay /\ Parent(n)' = Parent(n) /\ origin'[n] = origin[n]
  BY StepFacts, OriginFacts
<1>2. ASSUME ParentActed(n)
      PROVE  (state[Parent(n)])' = state[Parent(n)] /\ (value[Parent(n)])' = value[Parent(n)]
  BY <1>1, <1>2 DEF ParentActed, SettledStay
<1>3. ASSUME ParentActed(n)
      PROVE  ParentActed(n)' /\ (Handles(n, state[Parent(n)])' <=> Handles(n, state[Parent(n)]))
  <2>1. ParentActed(n)'
    BY <1>2, <1>3 DEF ParentActed
  <2>2. Handles(n, state[Parent(n)])' <=> Handles(n, state[Parent(n)])
    BY <1>1, <1>2, <1>3 DEF Handles
  <2> QED BY <2>1, <2>2
<1>4. ParentHandled(n) => ParentHandled(n)'
  BY <1>3 DEF ParentHandled
<1> QED BY <1>1, <1>2, <1>3, <1>4

LEMMA WaitsForParentStays ==
    ASSUME NEW rest, Steps(rest), NEW n \in 1 .. made, Handled(n), WaitsForParent(n),
           \/ rest = stack \/ state[Parent(n)] = "pending"
           \/ Head(stack) # Run(HandlerFor(n, state[Parent(n)]), Parent(n))
    PROVE  WaitsForParent(n)'
<1>1. /\ n \in Promises /\ Parent(n) \in Promises /\ Parent(n)' = Parent(n)
      /\ HandlerFor(n, "fulfilled")' = HandlerFor(n, "fulfilled")
      /\ HandlerFor(n, "rejected")' = HandlerFor(n, "rejected")
  BY StepFacts, ParentStays
<1>2. HandlerFor(n, "fulfilled") \in Callbacks /\ HandlerFor(n, "rejected") \in Callbacks
  BY <1>1, HandlesFacts, StepFacts DEF Outcome
<1>3. state[Parent(n)] # "pending" =>
        Token(HandlerFor(n, "fulfilled"), HandlerFor(n, "rejected"), state[Parent(n)]) = HandlerFor(n, state[Parent(n)])
  BY <1>1, StepFacts DEF Token, MachineTypes, Outcome
<1>4. WaitsFor(Parent(n), HandlerFor(n, "fulfilled"), HandlerFor(n, "rejected"))
  BY DEF WaitsForParent
<1> DEFINE p == Parent(n)
           f == HandlerFor(n, "fulfilled")
           g == HandlerFor(n, "rejected")
<1>5. \A q \in Promises : \A a, b \in Callbacks :
        /\ WaitsFor(q, a, b)
        /\ rest = stack \/ state[q] = "pending" \/ Head(stack) # Run(Token(a, b, state[q]), q)
        => WaitsFor(q, a, b)'
  BY WaitsStay
<1>6. \A q, a, b : q = p /\ a = f /\ b = g /\ WaitsFor(q, a, b)' => WaitsForParent(n)'
  BY <1>1 DEF WaitsForParent
<1>7. rest = stack \/ state[p] = "pending" \/ Head(stack) # Run(Token(f, g, state[p]), p)
  BY <1>3
<1>8. p \in Promises /\ f \in Callbacks /\ g \in Callbacks /\ WaitsFor(p, f, g)
  BY <1>1, <1>2, <1>4
<1> HIDE DEF p, f, g
<1>9. \E q \in Promises : \E a, b \in Callbacks :
        q = p /\ a = f /\ b = g /\ WaitsFor(q, a, b)
        /\ (rest = stack \/ state[q] = "pending" \/ Head(stack) # Run(Token(a, b, state[q]), q))
  BY <1>7, <1>8
<1> QED BY <1>5, <1>6, <1>9

LEMMA DueStay ==
    ASSUME NEW rest, Steps(rest), Called \subseteq Called', NEW n \in 1 .. made, Handled(n),
           rest = stack \/ (Head(stack)[1] = "call" => Head(stack)[2] \in Called')
    PROVE  Due(n)'
<1>1. Due(n)
  BY DEF Steps, Inv, DueInv
<1>2. CASE ParentActed(n) /\ (Handles(n, state[Parent(n)]) => n \in Called)
  BY <1>2, ParentStays DEF Due
<1>3. CASE /\ WaitsForParent(n)
           /\ rest = stack \/ state[Parent(n)] = "pending" \/ Head(stack) # Run(HandlerFor(n, state[Parent(n)]), Parent(n))
  BY <1>3, WaitsForParentStays DEF Due
<1>4. CASE /\ WaitsForParent(n) /\ rest # stack /\ state[Parent(n)] # "pending"
           /\ Head(stack) = Run(HandlerFor(n, state[Parent(n)]), Parent(n))
  <2>1. ParentActed(n)
    BY <1>4 DEF ParentActed
  <2>2. Handles(n, state[Parent(n)]) => n \in Called'
    BY <1>4 DEF HandlerFor, Run, Call
  <2> QED BY <2>1, <2>2, ParentStays DEF Due
<1> QED BY <1>1, <1>2, <1>3, <1>4 DEF Due

LEMMA PassStays ==
    ASSUME NEW rest, Steps(rest), NEW n \in Promises, NEW q \in Promises, WaitsFor(q, Pass(n), Pass(n)),
           rest = stack \/ Head(stack)[2] # n
    PROVE  WaitsFor(q, Pass(n), Pass(n))'
<1>1. Pass(n) \in Callbacks
  BY DEF Pass, Callbacks
<1>2. rest = stack \/ state[q] = "pending" \/ Head(stack) # Run(Token(Pass(n), Pass(n), state[q]), q)
  BY DEF Pass, Token, Run
<1> QED BY <1>1, <1>2, WaitsStay

(* The lot of a promise to which nothing is done stays as it is.           *)
LEMMA FateStays ==
    ASSUME NEW rest, Steps(rest), NEW n \in 1 .. made, Fate(n),
           state'[n] = state[n], value'[n] = value[n], adopted'[n] = adopted[n], results'[n] = results[n],
           rest = stack \/ state[n] # "pending" \/ Head(stack)[2] # n
    PROVE  Fate(n)'
<1>1. /\ n \in Promises /\ TypeInv /\ SettledStay /\ origin'[n] = origin[n]
      /\ (Handled(n)' <=> Handled(n)) /\ Parent(n)' = Parent(n) /\ Promises \subseteq Nat \ {0}
      /\ \A o : Handles(n, o)' <=> Handles(n, o)
  BY StepFacts
<1>2. ASSUME Handled(n)
      PROVE  HandlerFate(n)'
  <2>1. /\ Parent(n) \in Promises
        /\ ParentActed(n) => ParentActed(n)'
             /\ (state[Parent(n)])' = state[Parent(n)] /\ (value[Parent(n)])' = value[Parent(n)]
             /\ (Handles(n, state[Parent(n)])' <=> Handles(n, state[Parent(n)]))
        /\ ParentHandled(n) => ParentHandled(n)'
    BY <1>2, ParentStays
  <2>2. HandlerFate(n)
    BY <1>2 DEF Fate
  <2>3. CASE state[n] = "pending" /\ WaitsForParent(n)
    <3>1. WaitsForParent(n)'
      <4>1. \/ rest = stack \/ state[Parent(n)] = "pending"
            \/ Head(stack) # Run(HandlerFor(n, state[Parent(n)]), Parent(n))
        BY <2>3 DEF HandlerFor, Call, Pass, Run
      <4> QED BY <1>2, <2>3, <4>1, WaitsForParentStays
    <3> QED BY <2>3, <3>1 DEF HandlerFate
  <2>4. CASE ParentActed(n) /\ ~Handles(n, state[Parent(n)]) /\ Follows(n, Parent(n))
    <3>1. Follows(n, Parent(n))'
      BY <2>1, <2>4 DEF Follows
    <3> QED BY <2>1, <2>4, <3>1 DEF HandlerFate
  <2>5. CASE ParentHandled(n) /\ adopted[n] = 0 /\ state[n] = "pending" /\ <<"user", n, 1, Parent(n)>> \in Mem(stack)
    <3>1. <<"user", n, 1, Parent(n)>> \in Mem(stack')
      <4>1. rest = stack \/ <<"user", n, 1, Parent(n)>> # Head(stack)
        BY <2>5
      <4>2. \A fr \in Mem(stack) : fr \in Mem(stack') \/ (stack # <<>> /\ rest = Rest /\ fr = Head(stack))
        BY StepFacts
      <4>3. Mem(rest) \subseteq Mem(stack')
        BY StepFacts DEF Moves
      <4> QED BY <2>5, <4>1, <4>2, <4>3
    <3>2. (<<"user", n, 1, Parent(n)>> \in Mem(stack))'
      BY <1>1, <3>1
    <3> QED BY <2>1, <2>5, <3>2 DEF HandlerFate
  <2>6. CASE ParentHandled(n) /\ adopted[n] = 0 /\ state[n] = state[Parent(n)] /\ value[n] = <<n>>
    <3>1. (state[n] = state[Parent(n)])'
      BY <2>1, <2>6 DEF ParentHandled
    <3> QED BY <2>1, <2>6, <3>1 DEF HandlerFate
  <2>7. CASE ParentHandled(n) /\ adopted[n] # 0 /\ state[n] = "pending" /\ WaitsFor(adopted[n], Pass(n), Pass(n))
    <3>1. adopted[n] \in Promises
      BY <1>1, <2>7, BoundAssumption DEF TypeInv, Promises
    <3>2. \A q \in Promises : WaitsFor(q, Pass(n), Pass(n)) => WaitsFor(q, Pass(n), Pass(n))'
      BY <1>1, <2>7, PassStays
    <3>3. WaitsFor(adopted[n], Pass(n), Pass(n))'
      <4>1. PICK q \in Promises : q = adopted[n] /\ WaitsFor(q, Pass(n), Pass(n))'
        BY <2>7, <3>1, <3>2
      <4>2. q = adopted'[n]
        BY <4>1
      <4> QED BY <4>1, <4>2
    <3> QED BY <2>1, <2>7, <3>3 DEF HandlerFate
  <2>8. CASE ParentHandled(n) /\ adopted[n] # 0 /\ state[adopted[n]] # "pending" /\ Follows(n, adopted[n])
    <3>1. adopted[n] \in Promises
      BY <1>1, <2>8, BoundAssumption DEF TypeInv, Promises
    <3>2. (state[adopted[n]])' = state[adopted[n]] /\ (value[adopted[n]])' = value[adopted[n]]
      BY <1>1, <2>8, <3>1 DEF SettledStay
    <3>3. Follows(n, adopted[n])'
      BY <2>8, <3>2 DEF Follows
    <3> QED BY <2>1, <2>8, <3>2, <3>3 DEF HandlerFate
  <2> QED BY <2>2, <2>3, <2>4, <2>5, <2>6, <2>7, <2>8 DEF HandlerFate
<1>3. ASSUME origin[n].op = "race"
      PROVE  RaceFate(n)'
  <2>1. \A i \in {1, 2} : origin[n].from[i] \in Promises
    BY <1>1, <1>3, OriginFacts
  <2>2. RaceFate(n)
    BY <1>3 DEF Fate
  <2>3. CASE state[n] = "pending" /\ \A i \in {1, 2} : WaitsFor(origin[n].from[i], Pass(n), Pass(n))
    <3>1. ASSUME NEW i \in {1, 2}
          PROVE  WaitsFor(origin[n].from[i], Pass(n), Pass(n))'
      <4>1. \A q \in Promises : WaitsFor(q, Pass(n), Pass(n)) => WaitsFor(q, Pass(n), Pass(n))'
        BY <1>1, <2>3, PassStays
      <4>2. PICK q \in Promises : q = origin[n].from[i] /\ WaitsFor(q, Pass(n), Pass(n))'
        BY <2>1, <2>3, <4>1
      <4>3. q = origin'[n].from[i]
        BY <1>1, <4>2
      <4> QED BY <4>2, <4>3
    <3> QED BY <2>3, <3>1 DEF RaceFate
  <2>4. CASE \E i \in {1, 2} : state[origin[n].from[i]] # "pending" /\ Follows(n, origin[n].from[i])
    <3>1. PICK i \in {1, 2} : state[origin[n].from[i]] # "pending" /\ Follows(n, origin[n].from[i])
      BY <2>4
    <3>2. /\ (state[origin[n].from[i]])' = state[origin[n].from[i]]
          /\ (value[origin[n].from[i]])' = value[origin[n].from[i]]
      BY <1>1, <2>1, <3>1 DEF SettledStay
    <3>3. (state[origin[n].from[i]] # "pending")' /\ Follows(n, origin[n].from[i])'
      BY <3>1, <3>2 DEF Follows
    <3> QED BY <3>3 DEF RaceFate
  <2> QED BY <2>2, <2>3, <2>4 DEF RaceFate
<1>4. ASSUME origin[n].op = "all"
      PROVE  AllFate(n)'
  <2>1. \A i \in {1, 2} : origin[n].from[i] \in Promises
    BY <1>1, <1>4, OriginFacts
  <2>2. AllFate(n)
    BY <1>4 DEF Fate
  <2>3. CASE \E i \in {1, 2} : state[origin[n].from[i]] = "rejected" /\ Follows(n, origin[n].from[i])
    <3>1. PICK i \in {1, 2} : state[origin[n].from[i]] = "rejected" /\ Follows(n, origin[n].from[i])
      BY <2>3
    <3>2. /\ (state[origin[n].from[i]])' = state[origin[n].from[i]]
          /\ (value[origin[n].from[i]])' = value[origin[n].from[i]]
      BY <1>1, <2>1, <3>1 DEF SettledStay
    <3>3. (state[origin[n].from[i]] = "rejected")' /\ Follows(n, origin[n].from[i])'
      BY <3>1, <3>2 DEF Follows
    <3> QED BY <3>3 DEF AllFate
  <2>4. CASE state[n] = "pending" \/ (state[n] = "fulfilled" /\ results[n].size = 0 /\ value[n] = results[n].got)
    BY <2>4 DEF AllFate
  <2> QED BY <2>2, <2>3, <2>4 DEF AllFate
<1> QED BY <1>1, <1>2, <1>3, <1>4 DEF Fate

(* A slot that is not filled now stays as it is.                           *)
LEMMA SlotStays ==
    ASSUME NEW rest, Steps(rest), NEW n \in 1 .. made, origin[n].op = "all", Counted(n), NEW i \in {1, 2},
           \/ rest = stack \/ Head(stack)[2] # n
           \/ Head(stack)[1] = "pass" /\ state'[n] # "pending"
           \/ Head(stack)[1] = "slot" /\ Head(stack)[3] # i
    PROVE  (Filled(n, i)' <=> Filled(n, i)) /\ (Filled(n, i) \/ Awaited(n, i))'
<1> DEFINE p == origin[n].from[i]
<1>1. /\ n \in Promises /\ TypeInv /\ SettledStay /\ origin'[n] = origin[n] /\ n <= made /\ made \in Nat /\ n \in Nat
      /\ Mem(rest) \subseteq Mem(stack) /\ p \in Promises
      /\ \A fr \in Mem(stack) : fr \in Mem(stack') \/ (stack # <<>> /\ rest = Rest /\ fr = Head(stack))
      /\ state[p] \in {"pending"} \cup Outcome /\ Mem(rest) \subseteq Mem(stack')
  <2>1. /\ n \in Promises /\ TypeInv /\ SettledStay /\ origin'[n] = origin[n] /\ n <= made /\ made \in Nat
        /\ n \in Nat /\ Mem(rest) \subseteq Mem(stack) /\ MachineTypes /\ Moves(rest)
        /\ \A fr \in Mem(stack) : fr \in Mem(stack') \/ (stack # <<>> /\ rest = Rest /\ fr = Head(stack))
    BY StepFacts
  <2>2. p \in Promises
    BY <2>1, OriginFacts
  <2> QED BY <2>1, <2>2 DEF MachineTypes, Moves
<1>2. p' = p
  BY <1>1
<1>3. Slot(n, i) \in Callbacks /\ Pass(n) \in Callbacks
  BY <1>1 DEF Slot, Pass, Callbacks
<1>4. \A q \in Promises : q = p =>
        /\ (WaitsFor(q, Slot(n, i), Pass(n)) <=> WaitsFor(p, Slot(n, i), Pass(n)))
        /\ (WaitsFor(q, Slot(n, i), Pass(n))' <=> WaitsFor(p, Slot(n, i), Pass(n))')
  BY <1>2
<1>5. /\ Filled(n, i) <=> (state[p] = "fulfilled" /\ <<"slot", n, i, p>> \notin Mem(stack))
      /\ Filled(n, i)' <=> (state'[p] = "fulfilled" /\ <<"slot", n, i, p>> \notin Mem(stack'))
      /\ Awaited(n, i) <=> (WaitsFor(p, Slot(n, i), Pass(n)) \/ (state[p] = "rejected" /\ state[n] # "pending"))
      /\ Awaited(n, i)' <=> (WaitsFor(p, Slot(n, i), Pass(n))' \/ (state'[p] = "rejected" /\ state'[n] # "pending"))
  BY <1>2 DEF Filled, Awaited
<1> HIDE DEF p
<1>6. CASE Filled(n, i)
  <2>1. state[p] = "fulfilled" /\ <<"slot", n, i, p>> \notin Mem(stack) /\ state'[p] = "fulfilled"
    BY <1>1, <1>5, <1>6 DEF SettledStay
  <2>2. <<"slot", n, i, p>> \notin Mem(stack')
    <3> SUFFICES ASSUME <<"slot", n, i, p>> \in Mem(stack') PROVE FALSE
      OBVIOUS
    <3> DEFINE fr == <<"slot", n, i, p>>
    <3>1. fr \in Mem(rest) \/ state[fr[4]] = "pending" \/ ((fr[1] # "slot" \/ fr[2] > made) /\ fr \notin Early')
      BY DEF Steps, Fresh
    <3> QED BY <1>1, <2>1, <3>1
  <2> QED BY <1>5, <1>6, <2>1, <2>2
<1>7. CASE ~Filled(n, i)
  <2>1. Awaited(n, i)
    BY <1>7 DEF Counted
  <2>2. CASE state[p] = "rejected" /\ state[n] # "pending"
    BY <1>1, <1>5, <2>2 DEF SettledStay
  <2>3. CASE WaitsFor(p, Slot(n, i), Pass(n)) /\ state[p] = "rejected" /\ state[n] = "pending"
    <3>1. state'[p] = "rejected"
      BY <1>1, <2>3 DEF SettledStay
    <3>2. CASE rest = stack \/ Head(stack)[2] # n \/ Head(stack)[1] = "slot"
      <4>1. rest = stack \/ Head(stack) # Run(Token(Slot(n, i), Pass(n), state[p]), p)
        BY <2>3, <3>2 DEF Token, Pass, Run
      <4>2. WaitsFor(p, Slot(n, i), Pass(n))'
        BY <1>1, <1>3, <1>4, <2>3, <4>1, WaitsStay
      <4> QED BY <1>5, <1>7, <3>1, <4>2
    <3>3. CASE state'[n] # "pending"
      BY <1>5, <2>3, <3>1, <3>3
    <3> QED BY <3>2, <3>3
  <2>4. CASE WaitsFor(p, Slot(n, i), Pass(n)) /\ state[p] # "rejected"
    <3>1. rest = stack \/ state[p] = "pending" \/ Head(stack) # Run(Token(Slot(n, i), Pass(n), state[p]), p)
      BY <1>1, <2>4 DEF Token, Slot, Run, Outcome
    <3>2. WaitsFor(p, Slot(n, i), Pass(n))'
      BY <1>1, <1>3, <1>4, <2>4, <3>1, WaitsStay
    <3>3. state'[p] = "fulfilled" => <<"slot", n, i, p>> \in Mem(stack')
      <4>1. \A q : q = p /\ WaitsFor(q, Slot(n, i), Pass(n))' /\ state'[q] = "fulfilled" => Run(Slot(n, i), q) \in Mem(stack')
        BY DEF WaitsFor
      <4> QED BY <1>2, <1>4, <1>1, <3>2, <4>1 DEF Run, Slot
    <3> QED BY <1>5, <1>7, <3>2, <3>3
  <2> QED BY <1>5, <2>1, <2>2, <2>3, <2>4
<1> QED BY <1>6, <1>7

LEMMA CountedStays ==
    ASSUME NEW rest, Steps(rest), NEW n \in 1 .. made, origin[n].op = "all", Counted(n), results'[n] = results[n],
           \/ rest = stack \/ Head(stack)[2] # n
           \/ Head(stack)[1] = "pass" /\ state'[n] # "pending"
    PROVE  Counted(n)'
<1>1. /\ n \in Promises /\ TypeInv /\ SettledStay /\ origin'[n] = origin[n]
      /\ \A i \in {1, 2} : origin[n].from[i] \in Promises
  BY StepFacts, OriginFacts
<1>2. \A i \in {1, 2} : (Filled(n, i)' <=> Filled(n, i)) /\ (Filled(n, i) \/ Awaited(n, i))'
  BY SlotStays
<1>3. ASSUME NEW i \in {1, 2}, Filled(n, i)
      PROVE  (results[n].got[i] = value[origin[n].from[i]])'
  <2>1. results[n].got[i] = value[origin[n].from[i]] /\ state[origin[n].from[i]] = "fulfilled"
    BY <1>3 DEF Counted, Filled
  <2> QED BY <1>1, <2>1 DEF SettledStay
<1>4. results[n].size = 0 => state'[n] # "pending"
  BY <1>1 DEF Counted, SettledStay
<1>5. results[n].size = (IF Filled(n, 1)' THEN 0 ELSE 1) + (IF Filled(n, 2)' THEN 0 ELSE 1)
  BY <1>2 DEF Counted
<1> QED BY <1>2, <1>3, <1>4, <1>5 DEF Counted

-----------------------------------------------------------------------------
(* The steps that settle a promise.                                        *)

LEMMA SettleIsStep ==
    ASSUME NEW m, NEW s, NEW v, NEW rest, Settling(m, s, rest), Settle(m, s, v, rest)
    PROVE  /\ Steps(rest) /\ Settled(m, s, v, rest) /\ m \in Promises /\ 1 .. made \subseteq Promises
           /\ UNCHANGED <<made, origin, calls, adopted>> /\ forced \subseteq forced'
<1>1. /\ Settled(m, s, v, rest) /\ TypeInv' /\ Inv /\ TypeInv /\ m \in 1 .. made
      /\ UNCHANGED <<made, origin, calls, adopted>> /\ forced \subseteq forced' /\ Part(rest)
  BY SettleSteps, SettleTypes DEF Settling, Inv, Part
<1>2. made \in Nat /\ 1 .. made \subseteq Promises
  BY <1>1, TypeFacts
<1>3. Fresh(rest)
  BY <1>1 DEF Settled, Fresh
<1>4. Moves(rest)
  BY <1>1 DEF Settled
<1>5. made <= made'
  BY <1>1, <1>2
<1>6. Steps(rest)
  BY <1>1, <1>3, <1>4, <1>5 DEF Steps
<1> QED BY <1>1, <1>2, <1>6

(* k is the promise that the innermost call was for: it is the one to be   *)
(* settled, or nothing is.                                                 *)
LEMMA SettleInv ==
    ASSUME NEW m, NEW s, NEW v, NEW rest, Settling(m, s, rest), Settle(m, s, v, rest),
           NEW k \in 1 .. made, m = k \/ state[m] # "pending",
           rest = stack \/ (Head(stack)[1] # "call" /\ Head(stack)[2] = k),
           \A n \in (1 .. made) \ {k} : results'[n] = results[n],
           origin[k].op = "all" => Counted(k)', k \notin forced' => Fate(k)'
    PROVE  Inv'
<1>1. /\ Steps(rest) /\ Settled(m, s, v, rest) /\ m \in Promises /\ 1 .. made \subseteq Promises
      /\ UNCHANGED <<made, origin, calls, adopted>> /\ forced \subseteq forced'
  BY SettleIsStep
<1>2. TypeInv' /\ ListInv' /\ StackInv' /\ CallsInv'
  BY <1>1, SettleTypes, SettleLists, SettleStack, CallsStay
<1>3. DueInv'
  <2>1. Called' = Called
    BY <1>1 DEF Called
  <2>2. \A n \in 1 .. made : Handled(n) => Due(n)'
    BY <1>1, <2>1, DueStay
  <2>3. \A n \in 1 .. made : Handled(n)' <=> Handled(n)
    BY <1>1, StepFacts
  <2> QED BY <1>1, <2>2, <2>3 DEF DueInv
<1>4. ASSUME NEW n \in 1 .. made
      PROVE  (origin'[n].op = "all" => Counted(n)') /\ (n \notin forced' => Fate(n)')
  <2>1. CASE n = k
    <3>1. origin'[k] = origin[k]
      BY <1>1
    <3>2. (Counted(k)' => Counted(n)') /\ (Fate(k)' => Fate(n)')
      BY <2>1
    <3> QED BY <1>1, <2>1, <3>1, <3>2
  <2>2. CASE n # k
    <3>1. /\ state'[n] = state[n] /\ value'[n] = value[n] /\ results'[n] = results[n] /\ adopted'[n] = adopted[n]
          /\ rest = stack \/ Head(stack)[2] # n
      BY <1>1, <2>2 DEF Settled
    <3>2. origin[n].op = "all" => Counted(n)'
      <4>1. origin[n].op = "all" => Counted(n)
        BY <1>1 DEF Steps, Inv, FateInv
      <4> QED BY <1>1, <3>1, <4>1, CountedStays
    <3>3. n \notin forced' => Fate(n)'
      <4>1. n \notin forced => Fate(n)
        BY <1>1 DEF Steps, Inv, FateInv
      <4> QED BY <1>1, <3>1, <4>1, FateStays
    <3> QED BY <1>1, <3>2, <3>3
  <2> QED BY <2>1, <2>2
<1>5. FateInv'
  BY <1>1, <1>4 DEF FateInv
<1> QED BY <1>2, <1>3, <1>5 DEF Inv

(* A settled promise has what it has.                                      *)
LEMMA SettledAlready ==
    ASSUME NEW m, NEW s, NEW v, NEW rest, Settling(m, s, rest), Settle(m, s, v, rest),
           state[m] # "pending", results'[m] = results[m],
           rest = stack \/ Head(stack)[2] # m \/ Head(stack)[1] = "pass"
    PROVE  (origin[m].op = "all" => Counted(m)') /\ (m \notin forced' => Fate(m)')
<1>1. /\ Steps(rest) /\ Settled(m, s, v, rest) /\ m \in 1 .. made
      /\ UNCHANGED <<made, origin, calls, adopted>> /\ forced \subseteq forced'
  BY SettleIsStep DEF Settling
<1>2. state'[m] = state[m] /\ value'[m] = value[m] /\ adopted'[m] = adopted[m] /\ state'[m] # "pending"
  BY <1>1 DEF Settled
<1>3. (origin[m].op = "all" => Counted(m)) /\ (m \notin forced => Fate(m))
  BY <1>1 DEF Steps, Inv, FateInv
<1>4. origin[m].op = "all" => Counted(m)'
  BY <1>1, <1>2, <1>3, CountedStays
<1>5. m \notin forced' => Fate(m)'
  BY <1>1, <1>2, <1>3, FateStays
<1> QED BY <1>4, <1>5

LEMMA UserSettlesInv ==
    ASSUME Inv, NEW p \in 1 .. made, NEW s \in Outcome, UserSettles(p, s)
    PROVE  Inv'
<1>1. /\ Settle(p, s, <<p>>, stack) /\ forced' = IF state[p] = "pending" THEN forced \cup {p} ELSE forced
      /\ UNCHANGED <<made, results, origin, calls, adopted>>
  BY DEF UserSettles
<1>2. TypeInv /\ 1 .. made \subseteq Promises /\ forced' \subseteq 1 .. made
  BY <1>1, TypeFacts DEF Inv, TypeInv
<1>3. Settling(p, s, stack)
  <2>1. ASSUME p \notin forced', NEW fr \in Mem(stack), fr[1] \in {"call", "user"}
        PROVE  fr[2] # p
    <3>1. FrameRight(fr)
      BY DEF Inv, StackInv
    <3>2. Untouched(fr[2])
      BY <2>1, <3>1 DEF FrameRight
    <3> QED BY <1>1, <2>1, <3>2 DEF Untouched
  <2>2. ResultTypes'
    BY <1>1, <1>2 DEF TypeInv, ResultTypes
  <2> QED BY <1>1, <1>2, <2>1, <2>2 DEF Settling
<1>4. /\ Steps(stack) /\ Settled(p, s, <<p>>, stack)
  BY <1>1, <1>3, SettleIsStep
<1>5. (origin[p].op = "all" => Counted(p)') /\ (p \notin forced' => Fate(p)')
  <2>1. CASE state[p] = "pending"
    <3>1. origin[p].op = "all" => Counted(p)
      BY DEF Inv, FateInv
    <3> QED BY <1>1, <1>4, <2>1, <3>1, CountedStays
  <2>2. CASE state[p] # "pending"
    BY <1>1, <1>3, <2>2, SettledAlready
  <2> QED BY <2>1, <2>2
<1> QED BY <1>1, <1>3, <1>5, SettleInv

(* What a call in progress is for; no other one is to settle the promise   *)
(* of a handler.                                                           *)
LEMMA HeadFacts ==
    ASSUME Inv, stack # <<>>
    PROVE  LET h == Head(stack) IN
           /\ h \in Mem(stack) /\ FrameRight(h) /\ h = <<h[1], h[2], h[3], h[4]>> /\ h \in Frames
           /\ h[2] \in 1 .. made /\ h[3] \in {1, 2} /\ h[4] \in 1 .. made /\ state[h[4]] \in Outcome
           /\ Rest \in Seq(Frames) /\ Mem(stack) = Mem(Rest) \cup {h}
           /\ \A fr \in Mem(Rest) : fr = h => h[1] = "pass"
           /\ \A fr \in Mem(Rest) : fr[1] \in {"call", "user"} => fr[2] # h[2]
<1> DEFINE h == Head(stack)
<1>1. /\ TypeInv /\ StackInv /\ stack \in Seq(Frames)
  BY DEF Inv, TypeInv
<1>2. /\ Rest \in Seq(Frames) /\ Len(Rest) = Len(stack) - 1 /\ Len(stack) \in Nat \ {0}
      /\ h = stack[1] /\ h \in Frames
      /\ \A i \in 1 .. Len(stack) - 1 : Rest[i] = stack[i + 1]
      /\ Mem(stack) = Mem(Rest) \cup {h}
  BY <1>1, MemTail DEF Rest
<1>3. /\ h \in Mem(stack) /\ FrameRight(h) /\ h = <<h[1], h[2], h[3], h[4]>>
      /\ h[2] \in 1 .. made /\ h[3] \in {1, 2} /\ h[4] \in 1 .. made /\ state[h[4]] \in Outcome
  BY <1>1, <1>2, TypeFacts DEF StackInv
<1>4. ASSUME NEW fr \in Mem(Rest), fr = h
      PROVE  h[1] = "pass"
  <2>1. PICK i \in 1 .. Len(Rest) : fr = Rest[i]
    BY DEF Mem
  <2>2. i + 1 \in 1 .. Len(stack) /\ stack[i + 1] = stack[1] /\ 1 \in 1 .. Len(stack) /\ i + 1 # 1
    BY <1>2, <1>4, <2>1
  <2> QED BY <1>1, <1>2, <2>2 DEF StackInv, Distinct
<1>5. ASSUME NEW fr \in Mem(Rest), fr[1] \in {"call", "user"}, fr[2] = h[2]
      PROVE  FALSE
  <2>1. fr \in Mem(stack) /\ FrameRight(fr) /\ fr = <<fr[1], fr[2], fr[3], fr[4]>>
    BY <1>1, <1>2, TypeFacts DEF StackInv
  <2>2. fr[3] = 1 /\ CallRight(fr[2], fr[4], state[fr[4]]) /\ (fr[1] = "user" <=> fr[2] \in Called)
    BY <1>5, <2>1 DEF FrameRight
  <2>3. CASE h[1] = "call" \/ h[1] = "user"
    <3>1. h[3] = 1 /\ CallRight(h[2], h[4], state[h[4]]) /\ (h[1] = "user" <=> h[2] \in Called)
      BY <1>3, <2>3 DEF FrameRight
    <3>2. h[1] = fr[1] /\ h[4] = fr[4] /\ h[3] = fr[3]
      BY <1>5, <2>2, <2>3, <3>1 DEF CallRight
    <3> QED BY <1>3, <1>4, <1>5, <2>1, <3>2
  <2>4. CASE h[1] = "pass"
    <3>1. PassRight(h[2], h[4], state[h[4]])
      BY <1>3, <2>4 DEF FrameRight
    <3>2. h[4] # 0
      <4>1. made \in Nat
        BY <1>1, TypeFacts
      <4> QED BY <1>3, <4>1
    <3> QED BY <1>5, <2>2, <3>1, <3>2 DEF PassRight, CallRight, Handled
  <2>5. CASE h[1] = "slot"
    BY <1>3, <1>5, <2>2, <2>5 DEF FrameRight, SlotRight, CallRight, Handled
  <2> QED BY <1>3, <2>3, <2>4, <2>5 DEF FrameRight
<1> QED BY <1>1, <1>2, <1>3, <1>4, <1>5

(* The premise of the lemmas on settling, when a call in progress settles  *)
(* the promise it is for                                                   *)
LEMMA HeadSettles ==
    ASSUME Inv, stack # <<>>, NEW m, NEW s \in Outcome, m = Head(stack)[2],
           UNCHANGED <<made, history>>, ResultTypes', \A n \in Promises : n > made => results'[n] = results[n]
    PROVE  Settling(m, s, Rest) /\ m \in 1 .. made /\ UNCHANGED <<made, origin, calls, adopted, forced>>
<1>1. UNCHANGED <<made, origin, calls, adopted, forced>>
  BY DEF history
<1>2. m \in 1 .. made /\ \A fr \in Mem(Rest) : fr[1] \in {"call", "user"} => fr[2] # m
  BY HeadFacts
<1>3. forced \subseteq forced' /\ forced' \subseteq 1 .. made
  BY <1>1 DEF Inv, TypeInv
<1> QED BY <1>1, <1>2, <1>3 DEF Settling

LEMMA SameResults ==
    ASSUME Inv, UNCHANGED results
    PROVE  ResultTypes' /\ \A n \in Promises : results'[n] = results[n]
BY DEF Inv, TypeInv, ResultTypes

LEMMA PassOnInv ==
    ASSUME Inv, PassOn
    PROVE  Inv'
<1> PICK n, p, s, v : n = Head(stack)[2] /\ p = Head(stack)[4] /\ s = state[p] /\ v = value[p]
  OBVIOUS
<1>1. /\ stack # <<>> /\ Head(stack)[1] = "pass" /\ Settle(n, s, v, Rest)
      /\ UNCHANGED <<made, results, history>>
  BY DEF PassOn
<1>2. /\ FrameRight(Head(stack)) /\ n \in 1 .. made /\ p \in 1 .. made /\ s \in Outcome
      /\ PassRight(n, p, s) /\ TypeInv /\ 1 .. made \subseteq Promises /\ made \in Nat
  <2>1. /\ FrameRight(Head(stack)) /\ n \in 1 .. made /\ p \in 1 .. made /\ s \in Outcome
    BY <1>1, HeadFacts
  <2> QED BY <1>1, <2>1, TypeFacts DEF FrameRight, Inv
<1>3. /\ Settling(n, s, Rest) /\ UNCHANGED <<made, origin, calls, adopted, forced>>
      /\ results' = results /\ ResultTypes'
  <2>1. results' = results /\ UNCHANGED <<made, history>>
    BY <1>1
  <2>2. ResultTypes' /\ \A q \in Promises : results'[q] = results[q]
    BY <2>1, SameResults
  <2> QED BY <1>1, <1>2, <2>1, <2>2, HeadSettles
<1>4. Steps(Rest) /\ Settled(n, s, v, Rest)
  BY <1>1, <1>3, SettleIsStep
<1>5. (origin[n].op = "all" => Counted(n)') /\ (n \notin forced' => Fate(n)')
  <2>1. CASE state[n] # "pending"
    BY <1>1, <1>3, <2>1, SettledAlready
  <2>2. CASE state[n] = "pending"
    <3>1. state'[n] = s /\ value'[n] = v /\ s # "pending"
      BY <1>2, <1>4, <2>2 DEF Settled, Outcome
    <3>2. state'[p] = s /\ value'[p] = v
      BY <1>2, <1>4, <3>1 DEF Settled, SettledStay
    <3>3. Follows(n, p)'
      BY <3>1, <3>2 DEF Follows
    <3>4. origin[n].op = "all" => Counted(n)'
      <4>1. origin[n].op = "all" => Counted(n)
        BY <1>2 DEF Inv, FateInv
      <4>2. results'[n] = results[n]
        BY <1>3
      <4> QED BY <1>1, <1>2, <1>4, <3>1, <4>1, <4>2, CountedStays
    <3>5. /\ n \in Promises /\ origin'[n] = origin[n] /\ adopted'[n] = adopted[n]
          /\ (Handled(n)' <=> Handled(n)) /\ Parent(n)' = Parent(n)
          /\ From(n)' = From(n)
      BY <1>2, <1>3 DEF Handled, Parent, From
    <3>6. CASE Handled(n) /\ Parent(n) = p /\ ~Handles(n, s)
      <4>1. ParentActed(n)' /\ ~Handles(n, state[Parent(n)])' /\ Follows(n, Parent(n))'
        BY <3>1, <3>2, <3>3, <3>5, <3>6 DEF ParentActed, Handles, Follows
      <4>2. HandlerFate(n)'
        BY <4>1 DEF HandlerFate
      <4> QED BY <3>4, <3>5, <3>6, <4>2 DEF Fate, Handled
    <3>7. CASE Handled(n) /\ adopted[n] = p /\ state[Parent(n)] # "pending" /\ Handles(n, state[Parent(n)])
      <4>1. ParentHandled(n)'
        BY <1>2, <1>4, <3>7, ParentStays DEF ParentHandled, ParentActed
      <4>2. adopted'[n] # 0 /\ (state[adopted[n]])' # "pending" /\ Follows(n, adopted[n])'
        BY <1>2, <3>1, <3>2, <3>3, <3>5, <3>7 DEF Follows
      <4>3. HandlerFate(n)'
        BY <4>1, <4>2 DEF HandlerFate
      <4> QED BY <3>4, <3>5, <3>7, <4>3 DEF Fate, Handled
    <3>8. CASE origin[n].op = "race" /\ p \in From(n)
      <4>1. PICK i \in {1, 2} : origin[n].from[i] = p
        BY <3>8 DEF From
      <4>2. (state[origin[n].from[i]] # "pending")' /\ Follows(n, origin[n].from[i])'
        BY <3>1, <3>2, <3>3, <3>5, <4>1 DEF Follows
      <4>3. RaceFate(n)'
        BY <4>2 DEF RaceFate
      <4> QED BY <3>4, <3>5, <3>8, <4>3 DEF Fate, Handled
    <3>9. CASE origin[n].op = "all" /\ p \in From(n) /\ s = "rejected"
      <4>1. PICK i \in {1, 2} : origin[n].from[i] = p
        BY <3>9 DEF From
      <4>2. (state[origin[n].from[i]] = "rejected")' /\ Follows(n, origin[n].from[i])'
        BY <3>1, <3>2, <3>3, <3>5, <3>9, <4>1 DEF Follows
      <4>3. AllFate(n)'
        BY <4>2 DEF AllFate
      <4> QED BY <3>4, <3>5, <3>9, <4>3 DEF Fate, Handled
    <3> QED BY <1>2, <3>6, <3>7, <3>8, <3>9 DEF PassRight
  <2> QED BY <2>1, <2>2
<1> QED
  <2>1. Head(stack)[1] # "call" /\ Head(stack)[2] = n /\ \A q \in (1 .. made) \ {n} : results'[q] = results[q]
    BY <1>1, <1>3
  <2> QED BY <1>1, <1>2, <1>3, <1>5, <2>1, SettleInv

LEMMA ReturnInv ==
    ASSUME Inv, Return
    PROVE  Inv'
<1> PICK n, p, s, v : n = Head(stack)[2] /\ p = Head(stack)[4] /\ s = state[p] /\ v = <<n>>
  OBVIOUS
<1>1. /\ stack # <<>> /\ Head(stack)[1] = "user" /\ Settle(n, s, v, Rest)
      /\ UNCHANGED <<made, results, history>>
  BY DEF Return
<1>2. /\ FrameRight(Head(stack)) /\ n \in 1 .. made /\ p \in 1 .. made /\ s \in Outcome
      /\ CallRight(n, p, s) /\ Untouched(n) /\ TypeInv /\ 1 .. made \subseteq Promises /\ made \in Nat
  <2>1. /\ FrameRight(Head(stack)) /\ n \in 1 .. made /\ p \in 1 .. made /\ s \in Outcome
    BY <1>1, HeadFacts
  <2> QED BY <1>1, <2>1, TypeFacts DEF FrameRight, Inv
<1>3. /\ Settling(n, s, Rest) /\ UNCHANGED <<made, origin, calls, adopted, forced>>
      /\ results' = results /\ ResultTypes'
  <2>1. results' = results /\ UNCHANGED <<made, history>>
    BY <1>1
  <2>2. ResultTypes' /\ \A q \in Promises : results'[q] = results[q]
    BY <2>1, SameResults
  <2> QED BY <1>1, <1>2, <2>1, <2>2, HeadSettles
<1>4. Steps(Rest) /\ Settled(n, s, v, Rest)
  BY <1>1, <1>3, SettleIsStep
<1>5. origin[n].op # "all"
  BY <1>2 DEF CallRight, Handled
<1>6. ASSUME n \notin forced'
      PROVE  Fate(n)'
  <2>1. state[n] = "pending"
    BY <1>2, <1>3, <1>6 DEF Untouched
  <2>2. state'[n] = s /\ value'[n] = <<n>> /\ state'[p] = s
    BY <1>2, <1>4, <2>1 DEF Settled, SettledStay, Outcome
  <2>3. Handled(n) /\ Parent(n) = p /\ Handles(n, s) /\ adopted[n] = 0 /\ s # "pending"
    BY <1>2 DEF CallRight, Outcome
  <2>4. Handled(n)' /\ Parent(n)' = p /\ adopted'[n] = 0 /\ origin'[n] = origin[n]
    BY <1>3, <2>3 DEF Handled, Parent
  <2>5. ParentHandled(n)'
    BY <1>2, <1>4, <2>3, ParentStays DEF ParentHandled, ParentActed
  <2>6. HandlerFate(n)'
    BY <2>2, <2>4, <2>5 DEF HandlerFate
  <2> QED BY <2>4, <2>6 DEF Fate, Handled
<1> QED
  <2>1. Head(stack)[1] # "call" /\ Head(stack)[2] = n /\ \A q \in (1 .. made) \ {n} : results'[q] = results[q]
    BY <1>1, <1>3
  <2> QED BY <1>1, <1>2, <1>3, <1>5, <1>6, <2>1, SettleInv

(* One more result x for all(), and what it has then                       *)
Fills(n, i, x, got) ==
    /\ got = [results[n].got EXCEPT ![i] = x]
    /\ results' = [results EXCEPT ![n] = [size |-> results[n].size - 1, got |-> got]]

Filling(n, i, x, got) ==
    /\ ResultTypes' /\ \A q \in Promises \ {n} : results'[q] = results[q]
    /\ results'[n] = [size |-> results[n].size - 1, got |-> got]
    /\ got[i] = x /\ \A j \in {1, 2} \ {i} : got[j] = results[n].got[j]
    /\ results[n].size \in Int

LEMMA FillTypes ==
    ASSUME Inv, NEW n \in 1 .. made, NEW i \in {1, 2}, NEW x, NEW got, Fills(n, i, x, got)
    PROVE  Filling(n, i, x, got)
<1>0. /\ got = [results[n].got EXCEPT ![i] = x]
      /\ results' = [results EXCEPT ![n] = [size |-> results[n].size - 1, got |-> got]]
  BY DEF Fills
<1>1. TypeInv /\ n \in Promises
  BY TypeFacts DEF Inv
<1>2. \A q \in Promises : /\ results[q] = [size |-> results[q].size, got |-> <<results[q].got[1], results[q].got[2]>>]
                          /\ results[q].size \in Int
  BY <1>1 DEF TypeInv, ResultTypes
<1>3. results = [q \in Promises |-> results[q]]
  BY <1>1 DEF TypeInv, ResultTypes
<1>4. PICK z, a, b : z \in Int /\ results[n] = [size |-> z, got |-> <<a, b>>]
  <2>1. /\ results[n] = [size |-> results[n].size, got |-> <<results[n].got[1], results[n].got[2]>>]
        /\ results[n].size \in Int
    BY <1>1, <1>2
  <2> QED BY <2>1
<1>5. got = <<got[1], got[2]>> /\ got[i] = x /\ \A j \in {1, 2} \ {i} : got[j] = results[n].got[j]
  <2>1. [<<a, b>> EXCEPT ![1] = x] = <<x, b>> /\ [<<a, b>> EXCEPT ![2] = x] = <<a, x>>
    OBVIOUS
  <2>2. results[n].got = <<a, b>>
    BY <1>4
  <2>3. CASE i = 1
    <3>1. got = <<x, b>>
      BY <1>0, <2>1, <2>2, <2>3
    <3> QED BY <2>2, <2>3, <3>1
  <2>4. CASE i = 2
    <3>1. got = <<a, x>>
      BY <1>0, <2>1, <2>2, <2>4
    <3> QED BY <2>2, <2>4, <3>1
  <2> QED BY <2>3, <2>4
<1>6. /\ results'[n] = [size |-> results[n].size - 1, got |-> got]
      /\ \A q \in Promises \ {n} : results'[q] = results[q]
      /\ results' = [q \in Promises |-> results'[q]]
  BY <1>0, <1>1, <1>3
<1>7. \A q \in Promises :
        /\ results'[q] = [size |-> results'[q].size, got |-> <<results'[q].got[1], results'[q].got[2]>>]
        /\ results'[q].size \in Int
  <2> TAKE q \in Promises
  <2>1. CASE q = n
    <3>1. results'[n].size = results[n].size - 1 /\ results'[n].got = got
      BY <1>6
    <3>2. results[n].size - 1 \in Int
      BY <1>4
    <3> QED BY <1>5, <1>6, <2>1, <3>1, <3>2
  <2>2. CASE q # n
    BY <1>2, <1>6, <2>2
  <2> QED BY <2>1, <2>2
<1>8. ResultTypes'
  BY <1>6, <1>7 DEF ResultTypes
<1> QED BY <1>1, <1>2, <1>5, <1>6, <1>8 DEF Filling

LEMMA FillSlotInv ==
    ASSUME Inv, FillSlot
    PROVE  Inv'
<1> PICK n, p, i, got :
        /\ n = Head(stack)[2] /\ p = Head(stack)[4] /\ i = Head(stack)[3]
        /\ got = [results[n].got EXCEPT ![i] = value[p]]
  OBVIOUS
<1>1. /\ stack # <<>> /\ Head(stack)[1] = "slot"
      /\ results' = [results EXCEPT ![n] = [size |-> results[n].size - 1, got |-> got]]
      /\ results[n].size = 1 => Settle(n, "fulfilled", got, Rest)
      /\ results[n].size # 1 => stack' = Rest /\ UNCHANGED <<state, value, lists>>
      /\ UNCHANGED <<made, history>>
  BY DEF FillSlot
<1>2. /\ n \in 1 .. made /\ p \in 1 .. made /\ i \in {1, 2} /\ state[p] = "fulfilled"
      /\ origin[n].op = "all" /\ origin[n].from[i] = p /\ TypeInv /\ 1 .. made \subseteq Promises
      /\ made \in Nat /\ Head(stack) = <<"slot", n, i, p>> /\ Head(stack) \in Mem(stack)
      /\ <<"slot", n, i, p>> \notin Mem(Rest) /\ Mem(stack) = Mem(Rest) \cup {Head(stack)}
  <2>1. /\ FrameRight(Head(stack)) /\ n \in 1 .. made /\ p \in 1 .. made /\ i \in {1, 2}
        /\ Head(stack) = <<"slot", n, i, p>> /\ Head(stack) \in Mem(stack)
        /\ <<"slot", n, i, p>> \notin Mem(Rest) /\ Mem(stack) = Mem(Rest) \cup {Head(stack)}
    BY <1>1, HeadFacts
  <2>2. SlotRight(n, i, p, state[p])
    BY <1>1, <2>1 DEF FrameRight
  <2> QED BY <2>1, <2>2, TypeFacts DEF SlotRight, Inv
<1>3. /\ ResultTypes' /\ \A q \in Promises \ {n} : results'[q] = results[q]
      /\ results'[n] = [size |-> results[n].size - 1, got |-> got]
      /\ got[i] = value[p] /\ \A j \in {1, 2} \ {i} : got[j] = results[n].got[j]
      /\ results[n].size \in Int
  <2>1. Fills(n, i, value[p], got)
    BY <1>1 DEF Fills
  <2>2. Filling(n, i, value[p], got)
    BY <1>2, <2>1, FillTypes
  <2> QED BY <2>2 DEF Filling
(* The step settles n, or settles p once more, which does nothing.         *)
<1> PICK m : m = IF results[n].size = 1 THEN n ELSE p
  OBVIOUS
<1>4. m \in 1 .. made /\ Settle(m, "fulfilled", got, Rest) /\ "fulfilled" \in Outcome
  <2>1. results[n].size # 1 => Settle(p, "fulfilled", got, Rest)
    BY <1>1, <1>2 DEF Settle
  <2> QED BY <1>1, <1>2, <2>1 DEF Outcome
<1>5. Settling(m, "fulfilled", Rest) /\ UNCHANGED <<made, origin, calls, adopted, forced>>
  <2>1. \A q \in Promises : q > made => results'[q] = results[q]
    BY <1>2, <1>3
  <2>2. UNCHANGED <<made, origin, calls, adopted, forced>> /\ UNCHANGED <<made, history>>
    BY <1>1 DEF history
  <2>3. CASE m = n
    BY <1>1, <1>2, <1>3, <1>4, <2>1, <2>2, <2>3, HeadSettles
  <2>4. CASE m = p
    <3>1. ASSUME p \notin forced', NEW fr \in Mem(Rest), fr[1] \in {"call", "user"}
          PROVE  fr[2] # p
      <4>1. FrameRight(fr)
        BY <1>2 DEF Inv, StackInv
      <4>2. Untouched(fr[2])
        BY <3>1, <4>1 DEF FrameRight
      <4> QED BY <1>2, <2>2, <3>1, <4>2 DEF Untouched
    <3>2. forced \subseteq forced' /\ forced' \subseteq 1 .. made
      BY <1>2, <2>2 DEF TypeInv
    <3> QED BY <1>1, <1>3, <1>4, <2>1, <2>2, <2>4, <3>1, <3>2 DEF Settling
  <2> QED BY <2>3, <2>4
<1>6. Steps(Rest) /\ Settled(m, "fulfilled", got, Rest)
  BY <1>4, <1>5, SettleIsStep
<1>7. Counted(n) /\ (n \notin forced => AllFate(n))
  BY <1>2 DEF Inv, FateInv, Fate
<1>8. /\ n \in Promises /\ p \in Promises /\ origin'[n] = origin[n] /\ SettledStay
      /\ \A j \in {1, 2} : origin[n].from[j] \in Promises
      /\ state'[p] = "fulfilled" /\ value'[p] = value[p] /\ n # p
  <2>1. SettledStay /\ n \in Promises /\ p \in Promises
    BY <1>2, <1>6 DEF Settled
  <2>2. \A j \in {1, 2} : origin[n].from[j] \in Promises /\ origin[n].from[j] < n
    BY <1>2, <2>1, OriginFacts
  <2>3. n # p
    BY <1>2, <2>2
  <2> QED BY <1>2, <1>5, <2>1, <2>2, <2>3 DEF SettledStay
<1>9. ~Filled(n, i) /\ Filled(n, i)'
  <2>1. <<"slot", n, i, p>> \notin Mem(stack')
    <3> SUFFICES ASSUME <<"slot", n, i, p>> \in Mem(stack') PROVE FALSE
      OBVIOUS
    <3> DEFINE fr == <<"slot", n, i, p>>
    <3>1. fr \in Mem(Rest) \/ (fr[4] = m /\ state[m] = "pending")
      BY <1>6 DEF Settled
    <3> QED BY <1>2, <3>1
  <2> QED BY <1>2, <1>8, <2>1 DEF Filled
<1>10. \A j \in {1, 2} \ {i} : (Filled(n, j)' <=> Filled(n, j)) /\ (Filled(n, j) \/ Awaited(n, j))'
  <2>1. \A j \in {1, 2} \ {i} : Head(stack)[1] = "slot" /\ Head(stack)[3] # j
    BY <1>2
  <2> QED BY <1>2, <1>6, <1>7, <2>1, SlotStays
<1>11. state[n] = "pending" /\ results[n].size = 1 => state'[n] = "fulfilled" /\ value'[n] = got
  BY <1>6 DEF Settled
<1>12. state[n] # "pending" => state'[n] = state[n] /\ value'[n] = value[n]
  BY <1>8 DEF SettledStay
<1>13. results'[n].size = results[n].size - 1 /\ results'[n].got = got
  BY <1>3
<1>14. Counted(n)'
  <2>1. results[n].size = (IF Filled(n, 1) THEN 0 ELSE 1) + (IF Filled(n, 2) THEN 0 ELSE 1)
    BY <1>7 DEF Counted
  <2>2. results'[n].size = (IF Filled(n, 1)' THEN 0 ELSE 1) + (IF Filled(n, 2)' THEN 0 ELSE 1)
    <3>1. CASE i = 1
      <4>1. ~Filled(n, 1) /\ Filled(n, 1)' /\ (Filled(n, 2)' <=> Filled(n, 2))
        BY <1>9, <1>10, <3>1
      <4> QED BY <1>13, <2>1, <4>1
    <3>2. CASE i = 2
      <4>1. ~Filled(n, 2) /\ Filled(n, 2)' /\ (Filled(n, 1)' <=> Filled(n, 1))
        BY <1>9, <1>10, <3>2
      <4> QED BY <1>13, <2>1, <4>1
    <3> QED BY <1>2, <3>1, <3>2
  <2>3. ASSUME NEW j \in {1, 2}, Filled(n, j)'
        PROVE  (results[n].got[j] = value[origin[n].from[j]])'
    <3>1. CASE j = i
      BY <1>2, <1>3, <1>8, <1>13, <3>1
    <3>2. CASE j # i
      <4>1. Filled(n, j) /\ got[j] = results[n].got[j]
        BY <1>3, <1>10, <2>3, <3>2
      <4>2. results[n].got[j] = value[origin[n].from[j]] /\ state[origin[n].from[j]] = "fulfilled"
        BY <1>7, <4>1 DEF Counted, Filled
      <4>3. value'[origin[n].from[j]] = value[origin[n].from[j]]
        BY <1>8, <4>2 DEF SettledStay
      <4> QED BY <1>8, <1>13, <4>1, <4>2, <4>3
    <3> QED BY <3>1, <3>2
  <2>4. results'[n].size = 0 => state'[n] # "pending"
    <3>1. results'[n].size = 0 => results[n].size = 1
      BY <1>3, <1>13
    <3> QED BY <1>11, <1>12, <3>1
  <2>5. \A j \in {1, 2} : (Filled(n, j) \/ Awaited(n, j))'
    BY <1>9, <1>10
  <2> QED BY <2>2, <2>3, <2>4, <2>5 DEF Counted
<1>15. ASSUME n \notin forced'
       PROVE  Fate(n)'
  <2>1. AllFate(n)
    BY <1>5, <1>7, <1>15
  <2>2. CASE state[n] = "pending" /\ results[n].size = 1
    <3>1. results'[n].size = 0
      BY <1>13, <2>2
    <3> QED BY <1>2, <1>8, <1>11, <1>13, <2>2, <3>1 DEF Fate, AllFate, Handled
  <2>3. CASE state[n] = "pending" /\ results[n].size # 1
    <3>1. state'[n] = "pending"
      BY <1>6, <1>8, <2>3 DEF Settled
    <3> QED BY <1>2, <1>8, <3>1 DEF Fate, AllFate, Handled
  <2>4. CASE state[n] # "pending"
    <3>1. results[n].size # 0
      <4>1. results[n].size = (IF Filled(n, 1) THEN 0 ELSE 1) + (IF Filled(n, 2) THEN 0 ELSE 1)
        BY <1>7 DEF Counted
      <4> QED BY <1>2, <1>9, <4>1
    <3>2. PICK j \in {1, 2} : state[origin[n].from[j]] = "rejected" /\ Follows(n, origin[n].from[j])
      BY <2>1, <2>4, <3>1 DEF AllFate
    <3>3. /\ (state[origin[n].from[j]])' = state[origin[n].from[j]]
          /\ (value[origin[n].from[j]])' = value[origin[n].from[j]]
      BY <1>8, <3>2 DEF SettledStay
    <3>4. (state[origin[n].from[j]] = "rejected")' /\ Follows(n, origin[n].from[j])'
      BY <1>12, <2>4, <3>2, <3>3 DEF Follows
    <3>5. AllFate(n)'
      BY <3>4 DEF AllFate
    <3> QED BY <1>2, <1>8, <3>5 DEF Fate, Handled
  <2> QED BY <2>2, <2>3, <2>4
<1> QED
  <2>1. Head(stack)[1] # "call" /\ Head(stack)[2] = n /\ \A q \in (1 .. made) \ {n} : results'[q] = results[q]
    BY <1>1, <1>2, <1>3
  <2>2. m = n \/ state[m] # "pending"
    BY <1>2
  <2> QED BY <1>2, <1>4, <1>5, <1>14, <1>15, <2>1, <2>2, SettleInv

-----------------------------------------------------------------------------
(* The steps that settle nothing.                                          *)

LEMMA CallHandlerInv ==
    ASSUME Inv, CallHandler
    PROVE  Inv'
<1> PICK n, p, u, e : n = Head(stack)[2] /\ p = Head(stack)[4] /\ u = <<"user", n, 1, p>> /\ e = <<n, state[p], value[p]>>
  OBVIOUS
<1>1. /\ stack # <<>> /\ Head(stack)[1] = "call"
      /\ stack' = <<u>> \o Rest /\ calls' = Append(calls, e)
      /\ UNCHANGED <<made, state, value, fulfilled_callbacks, rejected_callbacks, results, origin, adopted, forced>>
  BY DEF CallHandler, lists
<1>2. /\ n \in 1 .. made /\ p \in 1 .. made /\ state[p] \in Outcome /\ CallRight(n, p, state[p]) /\ Untouched(n)
      /\ n \notin Called /\ TypeInv /\ 1 .. made \subseteq Promises /\ made \in Nat /\ Head(stack) = <<"call", n, 1, p>>
      /\ Rest \in Seq(Frames) /\ Mem(stack) = Mem(Rest) \cup {Head(stack)} /\ Promises \subseteq Nat
      /\ \A fr \in Mem(Rest) : fr[1] \in {"call", "user"} => fr[2] # n
  <2>1. /\ FrameRight(Head(stack)) /\ n \in 1 .. made /\ p \in 1 .. made /\ state[p] \in Outcome
        /\ Head(stack) = <<Head(stack)[1], n, Head(stack)[3], p>> /\ Rest \in Seq(Frames)
        /\ Mem(stack) = Mem(Rest) \cup {Head(stack)}
        /\ \A fr \in Mem(Rest) : fr[1] \in {"call", "user"} => fr[2] # n
    BY <1>1, HeadFacts
  <2>2. /\ CallRight(n, p, state[p]) /\ Untouched(n) /\ n \notin Called /\ Head(stack)[3] = 1
    BY <1>1, <2>1 DEF FrameRight
  <2> QED BY <1>1, <2>1, <2>2, TypeFacts DEF Inv
<1>3. /\ u \in Frames /\ stack' \in Seq(Frames) /\ Mem(stack') = {u} \cup Mem(Rest)
      /\ <<u>> \in Seq(Frames) /\ Len(<<u>>) = 1 /\ <<u>>[1] = u /\ Mem(<<u>>) = {u}
  <2>1. u \in Frames
    BY <1>2 DEF Frames, Tasks
  <2>2. <<u>> \in Seq(Frames) /\ Len(<<u>>) = 1 /\ <<u>>[1] = u /\ Mem(<<u>>) = {u}
    BY <2>1, MemOne
  <2>3. <<u>> \o Rest \in Seq(Frames) /\ Mem(<<u>> \o Rest) = Mem(<<u>>) \cup Mem(Rest)
    <3> DEFINE a == <<u>>
    <3>1. a \in Seq(Frames) /\ Rest \in Seq(Frames)
      BY <1>2, <2>2
    <3> HIDE DEF a
    <3>2. a \o Rest \in Seq(Frames) /\ Mem(a \o Rest) = Mem(a) \cup Mem(Rest)
      BY <3>1, MemConcat
    <3> QED BY <3>2 DEF a
  <2> QED BY <1>1, <2>1, <2>2, <2>3
<1>4. /\ \E S : calls' \in Seq(S)
      /\ Len(calls') = Len(calls) + 1 /\ Len(calls) \in Nat
      /\ \A i \in 1 .. Len(calls) : calls'[i] = calls[i]
      /\ calls'[Len(calls) + 1] = e
  <2>1. PICK S : calls \in Seq(S)
    BY <1>2 DEF TypeInv
  <2>2. calls \in Seq(S \cup {e})
    BY <2>1
  <2>3. /\ Append(calls, e) \in Seq(S \cup {e}) /\ Len(Append(calls, e)) = Len(calls) + 1
        /\ \A i \in 1 .. Len(calls) : Append(calls, e)[i] = calls[i]
        /\ Append(calls, e)[Len(calls) + 1] = e /\ Len(calls) \in Nat
    BY <2>2, MemAppend
  <2> QED BY <1>1, <2>3
<1>5. TypeInv'
  <2>1. \A i \in 1 .. Len(stack') : state'[stack'[i][4]] # "pending" /\ stack'[i][2] <= made' /\ stack'[i][4] <= made'
    <3> SUFFICES ASSUME NEW fr \in Mem(stack')
                 PROVE  state[fr[4]] # "pending" /\ fr[2] <= made /\ fr[4] <= made
      BY <1>1 DEF Mem
    <3>1. CASE fr = u
      BY <1>2, <3>1 DEF Outcome
    <3>2. CASE fr \in Mem(Rest)
      BY <1>2, <3>2, TypeFacts DEF Outcome
    <3> QED BY <1>3, <3>1, <3>2
  <2>2. ResultTypes'
    BY <1>1, <1>2 DEF TypeInv, ResultTypes
  <2> QED BY <1>1, <1>2, <1>3, <1>4, <2>1, <2>2 DEF TypeInv, Waiting
<1>6. Called' = Called \cup {n}
  <2>1. Called' = {calls'[i][1] : i \in 1 .. Len(calls) + 1}
    BY <1>4 DEF Called
  <2>2. ASSUME NEW i \in 1 .. Len(calls) + 1
        PROVE  calls'[i][1] \in Called \cup {n}
    <3>1. CASE i = Len(calls) + 1
      BY <1>4, <3>1
    <3>2. CASE i # Len(calls) + 1
      <4>1. i \in 1 .. Len(calls)
        BY <1>4, <3>2
      <4> QED BY <1>4, <4>1 DEF Called
    <3> QED BY <3>1, <3>2
  <2>3. \A i \in 1 .. Len(calls) : i \in 1 .. Len(calls) + 1 /\ calls'[i][1] = calls[i][1]
    BY <1>4
  <2>4. Len(calls) + 1 \in 1 .. Len(calls) + 1 /\ calls'[Len(calls) + 1][1] = n
    BY <1>4
  <2> QED BY <2>1, <2>2, <2>3, <2>4 DEF Called
<1>7. Early' = Early /\ u \notin Early
  BY <1>1 DEF Early
<1>8. Steps(Rest)
  <2>1. Moves(Rest)
    BY <1>1, <1>3 DEF Moves, Waiting
  <2>2. Fresh(Rest)
    BY <1>3, <1>7 DEF Fresh
  <2>3. made <= made'
    BY <1>1, <1>2
  <2> QED BY <1>1, <1>5, <2>1, <2>2, <2>3 DEF Steps, Part
<1>9. ListInv'
  <2>1. \A cb, q, s : TokenRight(cb, q, s)' <=> TokenRight(cb, q, s)
    BY <1>1 DEF TokenRight, CallRight, PassRight, SlotRight, Handled, Parent, Handles, From
  <2>2. \A q, s : Waiting(q, s)' = Waiting(q, s)
    BY <1>1 DEF Waiting
  <2>3. ListInv
    BY DEF Inv
  <2> QED BY <1>1, <1>7, <2>1, <2>2, <2>3 DEF ListInv
<1>10. StackInv'
  <2>1. ASSUME NEW fr \in Mem(Rest)
        PROVE  FrameRight(fr)'
    <3>1. fr \in Mem(stack) /\ FrameRight(fr)
      BY <1>2 DEF Inv, StackInv
    <3>2. fr[1] \in {"call", "user"} => Untouched(fr[2])' /\ (fr[2] \in Called <=> fr[2] \in Called')
      BY <1>1, <1>2, <1>6, <3>1 DEF FrameRight, Untouched
    <3>3. made <= made' /\ SettledStay /\ origin'[fr[2]] = origin[fr[2]] /\ adopted'[fr[2]] = adopted[fr[2]]
      BY <1>1, <1>8, StepFacts
    <3> QED BY <1>2, <1>5, <3>1, <3>2, <3>3, FrameStays
  <2>2. FrameRight(u)'
    <3>1. CallRight(n, p, state[p])' /\ Untouched(n)' /\ n \in Called'
      BY <1>1, <1>2, <1>6 DEF CallRight, Handled, Parent, Handles, Untouched
    <3> QED BY <3>1 DEF FrameRight
  <2>3. Distinct(stack') /\ InOrder(stack', Early)
    <3>1. Distinct(Rest) /\ InOrder(Rest, Early)
      BY <1>1, <1>2, PartFacts DEF Inv, StackInv
    <3>2. Distinct(<<u>>) /\ InOrder(<<u>>, Early)
      BY <1>3 DEF Distinct, InOrder
    <3>3. u \notin Mem(Rest)
      BY <1>2
    <3> QED BY <1>1, <1>2, <1>3, <1>7, <3>1, <3>2, <3>3, ConcatKeeps
  <2> QED BY <1>3, <1>7, <2>1, <2>2, <2>3 DEF StackInv
<1>11. CallsInv'
  <2>1. CallsInv
    BY DEF Inv
  <2>2. /\ Handled(n) /\ Parent(n) = p /\ Handles(n, state[p])
    BY <1>2 DEF CallRight
  <2>3. ASSUME NEW i \in 1 .. Len(calls')
        PROVE  (i \in 1 .. Len(calls) /\ calls'[i] = calls[i]) \/ (i = Len(calls) + 1 /\ calls'[i] = e)
    BY <1>4
  <2>4. ASSUME NEW i \in 1 .. Len(calls')
        PROVE  (LET k == calls[i][1] IN
                 /\ k \in 1 .. made /\ Handled(k) /\ state[Parent(k)] # "pending" /\ Handles(k, state[Parent(k)])
                 /\ calls[i] = <<k, state[Parent(k)], value[Parent(k)]>>)'
    <3> PICK k : k = calls'[i][1]
      OBVIOUS
    <3>1. /\ k \in 1 .. made /\ Handled(k) /\ state[Parent(k)] # "pending" /\ Handles(k, state[Parent(k)])
          /\ calls'[i] = <<k, state[Parent(k)], value[Parent(k)]>>
      <4>1. CASE i \in 1 .. Len(calls) /\ calls'[i] = calls[i]
        BY <2>1, <4>1 DEF CallsInv
      <4>2. CASE calls'[i] = e
        BY <1>2, <2>2, <4>2 DEF Outcome
      <4> QED BY <2>3, <4>1, <4>2
    <3> QED BY <1>1, <3>1 DEF Handled, Parent, Handles
  <2>5. ASSUME NEW i \in 1 .. Len(calls'), NEW j \in 1 .. Len(calls'), calls'[i][1] = calls'[j][1]
        PROVE  i = j
    <3>1. ASSUME NEW a \in 1 .. Len(calls)
          PROVE  calls[a][1] # n
      BY <1>2, <3>1 DEF Called
    <3>2. e[1] = n
      OBVIOUS
    <3>3. \A a, b \in 1 .. Len(calls) : calls[a][1] = calls[b][1] => a = b
      BY <2>1 DEF CallsInv
    <3> QED BY <2>3, <2>5, <3>1, <3>2, <3>3
  <2>6. CalledInOrder'
    <3> SUFFICES ASSUME NEW i \in 1 .. Len(calls'), NEW j \in 1 .. Len(calls'), i < j,
                        origin'[calls'[i][1]].early, origin'[calls'[j][1]].early,
                        origin'[calls'[i][1]].from[1] = origin'[calls'[j][1]].from[1]
                 PROVE  calls'[i][1] < calls'[j][1]
      BY DEF CalledInOrder, Parent
    <3> PICK a, b : a = calls'[i][1] /\ b = calls'[j][1]
      OBVIOUS
    <3>0. origin[a].early /\ origin[b].early /\ Parent(a) = Parent(b)
      BY <1>1 DEF Parent
    <3> SUFFICES a < b
      OBVIOUS
    <3>1. i \in 1 .. Len(calls) /\ calls'[i] = calls[i] /\ a \in Called
      <4>1. i # Len(calls) + 1
        BY <1>4
      <4> QED BY <2>3, <4>1 DEF Called
    <3>2. CASE j \in 1 .. Len(calls) /\ calls'[j] = calls[j]
      BY <2>1, <3>0, <3>1, <3>2 DEF CallsInv, CalledInOrder
    <3>3. CASE j = Len(calls) + 1 /\ calls'[j] = e
      <4>1. b = n /\ Parent(a) = p
        BY <2>2, <3>0, <3>3
      <4> DEFINE h == <<"call", n, 1, p>>
      <4>2. h \in Mem(stack) /\ h[2] = n /\ h[4] = p
        BY <1>2
      <4>3. h \in Early
        <5>1. h \in Frames
          BY <1>2 DEF Frames, Tasks
        <5> QED BY <3>0, <4>1, <5>1 DEF Early
      <4> HIDE DEF h
      <4>4. \A k \in Called, fr \in Mem(stack) : fr \in Early /\ origin[k].early /\ Parent(k) = fr[4] => k < fr[2]
        BY <2>1 DEF CallsInv
      <4>5. a < h[2]
        BY <3>0, <3>1, <4>1, <4>2, <4>3, <4>4
      <4> QED BY <4>1, <4>2, <4>5
    <3> QED BY <2>3, <3>2, <3>3
  <2>7. ASSUME NEW k \in Called', NEW fr \in Mem(stack'), fr \in Early, origin[k].early, Parent(k) = fr[4]
        PROVE  k < fr[2]
    <3>1. fr \in Mem(Rest) /\ fr \in Mem(stack)
      BY <1>2, <1>3, <1>7, <2>7
    <3>2. CASE k \in Called
      BY <2>1, <2>7, <3>1, <3>2 DEF CallsInv
    <3>3. CASE k = n
      <4>1. PICK i \in 1 .. Len(Rest) : fr = Rest[i]
        BY <3>1 DEF Mem
      <4>2. /\ 1 \in 1 .. Len(stack) /\ i + 1 \in 1 .. Len(stack) /\ 1 < i + 1
            /\ stack[1] = Head(stack) /\ stack[i + 1] = fr
        <5>1. /\ Len(Rest) = Len(stack) - 1 /\ Len(stack) \in Nat \ {0} /\ Head(stack) = stack[1]
              /\ \A x \in 1 .. Len(stack) - 1 : Rest[x] = stack[x + 1]
          BY <1>1, <1>2, MemTail DEF Rest, TypeInv
        <5> QED BY <4>1, <5>1
      <4>3. Head(stack) \in Early /\ Head(stack)[4] = fr[4] /\ Head(stack)[2] = n
        <5>1. Head(stack) \in Frames
          BY <1>2 DEF Frames, Tasks
        <5> QED BY <1>2, <2>2, <2>7, <3>3, <5>1 DEF Early
      <4>4. InOrder(stack, Early)
        BY DEF Inv, StackInv
      <4>5. stack[1] \in Early /\ stack[i + 1] \in Early /\ stack[1][4] = stack[i + 1][4]
        BY <2>7, <4>2, <4>3
      <4>6. stack[1][2] < stack[i + 1][2]
        BY <4>2, <4>4, <4>5 DEF InOrder
      <4> QED BY <3>3, <4>2, <4>3, <4>6
    <3> QED BY <1>6, <3>2, <3>3
  <2>8. \A k \in Called', fr \in Mem(stack)' : fr \in Early' /\ origin'[k].early /\ Parent(k)' = fr[4] => k < fr[2]
    <3>1. Mem(stack)' = Mem(stack') /\ \A k : Parent(k)' = Parent(k) /\ origin'[k] = origin[k]
      BY <1>1 DEF Parent
    <3> QED BY <1>7, <2>7, <3>1
  <2> QED BY <2>4, <2>5, <2>6, <2>8 DEF CallsInv
<1>12. DueInv'
  <2>1. \A k \in 1 .. made : Handled(k) => Due(k)'
    BY <1>1, <1>6, <1>8, DueStay
  <2>2. \A k : Handled(k)' <=> Handled(k)
    BY <1>1 DEF Handled
  <2> QED BY <1>1, <2>1, <2>2 DEF DueInv
<1>13. ASSUME NEW k \in 1 .. made
       PROVE  (origin'[k].op = "all" => Counted(k)') /\ (k \notin forced' => Fate(k)')
  <2>1. (origin[k].op = "all" => Counted(k)) /\ (k \notin forced => Fate(k))
    BY DEF Inv, FateInv
  <2>2. /\ state'[k] = state[k] /\ value'[k] = value[k] /\ adopted'[k] = adopted[k] /\ results'[k] = results[k]
        /\ origin'[k] = origin[k]
    BY <1>1
  <2>3. CASE k # n
    <3>1. Head(stack)[2] # k
      BY <1>2, <2>3
    <3>2. origin[k].op = "all" => Counted(k)'
      BY <1>8, <2>1, <2>2, <3>1, CountedStays
    <3>3. k \notin forced => Fate(k)'
      BY <1>8, <2>1, <2>2, <3>1, FateStays
    <3> QED BY <1>1, <3>2, <3>3
  <2>4. CASE k = n
    <3>1. Handled(k) /\ Parent(k) = p /\ Handles(k, state[p]) /\ adopted[k] = 0
      BY <1>2, <2>4 DEF CallRight
    <3>2. Handled(k)' /\ Parent(k)' = p /\ adopted'[k] = 0 /\ ParentHandled(k)'
      <4>1. ParentHandled(k)
        BY <1>2, <3>1 DEF ParentHandled, ParentActed, Outcome
      <4>2. ParentHandled(k)'
        BY <1>8, <3>1, <4>1, ParentStays
      <4> QED BY <1>1, <3>1, <4>2 DEF Handled, Parent
    <3>3. ASSUME k \notin forced'
          PROVE  HandlerFate(k)'
      <4>1. state'[k] = "pending"
        BY <1>1, <1>2, <2>4, <3>3 DEF Untouched
      <4>2. (<<"user", k, 1, Parent(k)>> \in Mem(stack))'
        BY <1>3, <2>4, <3>2
      <4> QED BY <3>2, <4>1, <4>2 DEF HandlerFate
    <3> QED BY <2>2, <3>1, <3>2, <3>3 DEF Fate, Handled
  <2> QED BY <2>3, <2>4
<1>14. FateInv'
  BY <1>1, <1>13 DEF FateInv
<1> QED BY <1>5, <1>9, <1>10, <1>11, <1>12, <1>14 DEF Inv

(* What a step adds to the callbacks that wait for q with outcome o, and   *)
(* to the calls in progress: of the promise it makes, or passing on.       *)
Adds(x, q, o) ==
    /\ x \in Seq(Callbacks) /\ Distinct(x) /\ InOrder(RunAll(x, q), Early')
    /\ \A cb \in Mem(x) :
        /\ TokenRight(cb, q, o)' /\ (cb[1] = "call" => origin'[cb[2]].early)
        /\ cb[1] = "pass" \/ cb[2] > made

Starts(y) ==
    /\ y \in Seq(Frames) /\ Distinct(y)
    /\ \A fr \in Mem(y) : FrameRight(fr)' /\ fr \notin Early' /\ (fr[1] = "pass" \/ fr[2] > made)

(* A promise is only adopted by one whose handler has just returned it.    *)
Adopts(rest) ==
    \A n \in 1 .. made :
        \/ adopted'[n] = adopted[n]
        \/ /\ adopted[n] = 0 /\ ParentActed(n)
           /\ \A fr \in Mem(rest) : fr[1] \in {"call", "user"} => fr[2] # n

Registering(y, rest) ==
    /\ Inv /\ TypeInv' /\ Part(rest) /\ Moves(rest) /\ made <= made'
    /\ UNCHANGED <<state, value, calls, forced, results>>
    /\ \A n \in 1 .. made : origin'[n] = origin[n]
    /\ Adopts(rest)
    /\ \A q \in Promises, o \in Outcome : state[q] = "pending" =>
        \E x : Adds(x, q, o) /\ Waiting(q, o)' = Waiting(q, o) \o x
    /\ Starts(y) /\ stack' = y \o rest

LEMMA RegisteringIsStep ==
    ASSUME NEW y, NEW rest, Registering(y, rest)
    PROVE  Steps(rest) /\ y \in Seq(Frames) /\ rest \in Seq(Frames) /\ Mem(stack') = Mem(y) \cup Mem(rest)
<1>1. rest \in Seq(Frames) /\ y \in Seq(Frames) /\ stack' = y \o rest
  BY PartFacts DEF Registering, Inv, Part, Starts
<1>2. Mem(stack') = Mem(y) \cup Mem(rest)
  BY <1>1, MemConcat
<1>3. Fresh(rest)
  BY <1>2 DEF Registering, Starts, Fresh
<1> QED BY <1>1, <1>2, <1>3 DEF Steps, Registering

LEMMA RunAllConcat ==
    ASSUME NEW a \in Seq(Callbacks), NEW b \in Seq(Callbacks), NEW p \in Promises
    PROVE  RunAll(a \o b, p) = RunAll(a, p) \o RunAll(b, p)
<1> DEFINE c == a \o b
           ra == RunAll(a, p)
           rb == RunAll(b, p)
           rc == RunAll(c, p)
<1>1. /\ c \in Seq(Callbacks) /\ Len(c) = Len(a) + Len(b) /\ Len(a) \in Nat /\ Len(b) \in Nat
      /\ \A i \in 1 .. Len(a) : c[i] = a[i]
      /\ \A i \in 1 .. Len(b) : c[Len(a) + i] = b[i]
  BY MemConcat
<1> HIDE DEF c
<1>2. /\ ra \in Seq(Frames) /\ Len(ra) = Len(a) /\ \A i \in 1 .. Len(a) : ra[i] = Run(a[i], p)
      /\ rb \in Seq(Frames) /\ Len(rb) = Len(b) /\ \A i \in 1 .. Len(b) : rb[i] = Run(b[i], p)
      /\ rc \in Seq(Frames) /\ Len(rc) = Len(c) /\ \A i \in 1 .. Len(c) : rc[i] = Run(c[i], p)
  BY <1>1, RunAllFacts
<1> HIDE DEF ra, rb, rc
<1>3. /\ ra \o rb \in Seq(Frames) /\ Len(ra \o rb) = Len(ra) + Len(rb)
      /\ \A i \in 1 .. Len(ra) : (ra \o rb)[i] = ra[i]
      /\ \A i \in 1 .. Len(rb) : (ra \o rb)[Len(ra) + i] = rb[i]
  <2>1. ra \in Seq(Frames) /\ rb \in Seq(Frames)
    BY <1>2
  <2> QED BY <2>1, MemConcat
<1>4. ASSUME NEW i \in 1 .. Len(rc)
      PROVE  rc[i] = (ra \o rb)[i]
  <2>1. CASE i <= Len(a)
    BY <1>1, <1>2, <1>3, <2>1
  <2>2. CASE ~(i <= Len(a))
    <3>1. i - Len(a) \in 1 .. Len(b) /\ Len(a) + (i - Len(a)) = i
      BY <1>1, <1>2, <2>2
    <3>2. c[i] = b[i - Len(a)] /\ (ra \o rb)[i] = rb[i - Len(a)]
      BY <1>1, <1>2, <1>3, <3>1
    <3> QED BY <1>2, <3>1, <3>2
  <2> QED BY <2>1, <2>2
<1>5. Len(rc) = Len(ra \o rb)
  BY <1>1, <1>2, <1>3
<1>6. rc = ra \o rb
  BY <1>2, <1>3, <1>4, <1>5, SeqEqual
<1> QED BY <1>6 DEF ra, rb, rc, c

LEMMA InOrderLess ==
    ASSUME NEW seq, NEW E, NEW F, InOrder(seq, E), \A x \in Mem(seq) : x \in F => x \in E
    PROVE  InOrder(seq, F)
<1> SUFFICES ASSUME NEW i \in 1 .. Len(seq), NEW j \in 1 .. Len(seq),
                    i < j, seq[i] \in F, seq[j] \in F, seq[i][4] = seq[j][4]
             PROVE  seq[i][2] < seq[j][2]
  BY DEF InOrder
<1>1. seq[i] \in E /\ seq[j] \in E
  BY DEF Mem
<1> QED BY <1>1 DEF InOrder

LEMMA RegisteringLists ==
    ASSUME NEW y, NEW rest, Registering(y, rest)
    PROVE  ListInv'
<1>1. /\ TypeInv /\ MachineTypes /\ SettledStay /\ Promises \subseteq Nat /\ made \in Nat /\ made' \in Nat /\ made <= made'
      /\ 1 .. made \subseteq Promises /\ \A n \in 1 .. made : origin'[n] = origin[n]
  BY RegisteringIsStep, StepFacts
<1>2. ListInv /\ state' = state /\ Adopts(rest)
  BY DEF Registering, Inv
<1> SUFFICES ASSUME NEW q \in Promises, NEW o \in Outcome, state[q] = "pending"
             PROVE  (/\ \A cb \in Mem(Waiting(q, o)) : TokenRight(cb, q, o) /\ (cb[1] = "call" => origin[cb[2]].early)
                     /\ Distinct(Waiting(q, o)) /\ InOrder(RunAll(Waiting(q, o), q), Early))'
  BY <1>2 DEF ListInv
<1> PICK w, x : w = Waiting(q, o) /\ Adds(x, q, o) /\ Waiting(q, o)' = w \o x
  BY DEF Registering
<1>3. /\ w \in Seq(Callbacks) /\ x \in Seq(Callbacks) /\ w \o x \in Seq(Callbacks)
      /\ Mem(w \o x) = Mem(w) \cup Mem(x) /\ Mem(w) \subseteq Callbacks /\ Mem(x) \subseteq Callbacks
  <2>1. w \in Seq(Callbacks) /\ x \in Seq(Callbacks)
    BY <1>1, WaitingTypes DEF Adds
  <2>2. Mem(w) \subseteq Callbacks /\ Mem(x) \subseteq Callbacks
    BY <2>1 DEF Mem
  <2> QED BY <2>1, <2>2, MemConcat
<1>4. /\ \A cb \in Mem(w) : TokenRight(cb, q, o) /\ (cb[1] = "call" => origin[cb[2]].early)
      /\ Distinct(w) /\ InOrder(RunAll(w, q), Early)
  BY <1>2 DEF ListInv
<1>5. /\ \A cb \in Mem(x) : /\ TokenRight(cb, q, o)' /\ (cb[1] = "call" => origin'[cb[2]].early)
                            /\ cb[1] = "pass" \/ cb[2] > made
      /\ Distinct(x) /\ InOrder(RunAll(x, q), Early')
  BY DEF Adds
<1>6. ASSUME NEW cb \in Mem(w)
      PROVE  TokenRight(cb, q, o)' /\ (cb[1] = "call" => origin'[cb[2]].early) /\ cb[2] <= made /\ cb[2] \in Nat
  <2>1. cb \in Callbacks /\ cb[2] \in Promises /\ cb[2] <= made /\ cb[2] \in 1 .. made /\ cb[2] \in Nat
    <3>1. cb \in Callbacks /\ cb[2] <= made
      BY <1>3, <1>4 DEF TokenRight
    <3>2. cb[2] \in Promises
      BY <3>1, RunFacts
    <3>3. Promises \subseteq Nat \ {0}
      BY <1>1, TypeFacts
    <3> QED BY <1>1, <3>1, <3>2, <3>3
  <2>2. adopted'[cb[2]] = adopted[cb[2]] \/ (adopted[cb[2]] = 0 /\ cb[1] # "call")
    <3>1. cb[1] = "call" => ~ParentActed(cb[2])
      BY <1>4 DEF TokenRight, CallRight, ParentActed
    <3> QED BY <1>2, <2>1, <3>1 DEF Adopts
  <2>3. origin'[cb[2]] = origin[cb[2]]
    BY <1>1, <2>1
  <2>4. TokenRight(cb, q, o)'
    BY <1>1, <1>4, <2>1, <2>2, <2>3, TokenStays
  <2> QED BY <1>4, <2>1, <2>3, <2>4
<1>7. Distinct(w \o x)
  <2>1. \A cb \in Mem(w) : cb[1] # "pass" => cb \notin Mem(x)
    BY <1>1, <1>5, <1>6
  <2> QED BY <1>3, <1>4, <1>5, <2>1, ConcatKeeps
<1>8. InOrder(RunAll(w \o x, q), Early')
  <2> DEFINE a == RunAll(w, q)
             b == RunAll(x, q)
  <2>1. /\ a \in Seq(Frames) /\ Mem(a) = {Run(cb, q) : cb \in Mem(w)}
        /\ b \in Seq(Frames) /\ Mem(b) = {Run(cb, q) : cb \in Mem(x)}
        /\ RunAll(w \o x, q) = a \o b
    BY <1>3, RunAllFacts, RunAllConcat
  <2>2. \A fr \in Mem(a) : fr[2] <= made /\ fr[2] \in Nat /\ (fr \in Early' => fr \in Early)
    <3> TAKE fr \in Mem(a)
    <3>1. PICK cb \in Mem(w) : fr = Run(cb, q)
      BY <2>1
    <3>2. cb \in Callbacks
      BY <1>3
    <3>3. fr[2] = cb[2] /\ fr[1] = cb[1]
      BY <3>1, <3>2, RunFacts
    <3>4. fr[2] \in 1 .. made
      <4>1. fr[2] \in Promises
        BY <3>2, <3>3, RunFacts
      <4> QED BY <1>1, <1>6, <3>3, <4>1, TypeFacts
    <3> QED BY <1>1, <1>6, <3>3, <3>4 DEF Early
  <2>3. \A fr \in Mem(b) : fr \in Early' => fr[2] > made /\ fr[2] \in Nat
    <3> TAKE fr \in Mem(b)
    <3>1. PICK cb \in Mem(x) : fr = Run(cb, q)
      BY <2>1
    <3>2. cb \in Callbacks
      BY <1>3
    <3>3. fr[2] = cb[2] /\ fr[1] = cb[1] /\ fr[2] \in Promises
      BY <3>1, <3>2, RunFacts
    <3> QED BY <1>1, <1>5, <3>3 DEF Early
  <2> HIDE DEF a, b
  <2>4. InOrder(a, Early')
    <3>1. InOrder(a, Early)
      BY <1>4 DEF a
    <3> QED BY <2>2, <3>1, InOrderLess
  <2>5. InOrder(b, Early')
    BY <1>5 DEF b
  <2>6. \A c \in Mem(a) \cap Early', d \in Mem(b) \cap Early' : c[4] = d[4] => c[2] < d[2]
    BY <1>1, <2>2, <2>3
  <2>7. InOrder(a \o b, Early')
    BY <2>1, <2>4, <2>5, <2>6, ConcatKeeps
  <2> QED BY <2>1, <2>7
<1>9. \A cb \in Mem(w \o x) : TokenRight(cb, q, o)' /\ (cb[1] = "call" => origin'[cb[2]].early)
  BY <1>3, <1>5, <1>6
<1>10. /\ Mem(Waiting(q, o))' = Mem(w \o x) /\ Distinct(Waiting(q, o))' = Distinct(w \o x)
       /\ InOrder(RunAll(Waiting(q, o), q), Early)' = InOrder(RunAll(w \o x, q), Early')
  OBVIOUS
<1> QED BY <1>7, <1>8, <1>9, <1>10

LEMMA RegisteringStack ==
    ASSUME NEW y, NEW rest, Registering(y, rest)
    PROVE  StackInv'
<1>1. /\ Steps(rest) /\ y \in Seq(Frames) /\ rest \in Seq(Frames) /\ Mem(stack') = Mem(y) \cup Mem(rest)
      /\ TypeInv /\ TypeInv' /\ SettledStay /\ made \in Nat /\ made <= made' /\ Mem(rest) \subseteq Mem(stack)
      /\ \A n \in 1 .. made : origin'[n] = origin[n]
      /\ 1 .. made \subseteq Promises
  BY RegisteringIsStep, StepFacts DEF Registering
<1>2. /\ StackInv /\ Adopts(rest) /\ UNCHANGED <<state, calls, forced>> /\ stack' = y \o rest /\ Part(rest)
      /\ Distinct(y) /\ \A fr \in Mem(y) : FrameRight(fr)' /\ fr \notin Early' /\ (fr[1] = "pass" \/ fr[2] > made)
  BY DEF Registering, Inv, Starts
<1>3. Called' = Called
  BY <1>2 DEF Called
<1>4. ASSUME NEW fr \in Mem(rest)
      PROVE  FrameRight(fr)' /\ fr[2] \in 1 .. made /\ (fr \in Early' => fr \in Early)
  <2>1. fr \in Mem(stack) /\ FrameRight(fr) /\ fr[2] \in 1 .. made
    BY <1>1, <1>2, TypeFacts DEF StackInv
  <2>2. fr[1] \in {"call", "user"} => Untouched(fr[2])' /\ (fr[2] \in Called <=> fr[2] \in Called')
    BY <1>2, <1>3, <2>1 DEF FrameRight, Untouched
  <2>3. adopted'[fr[2]] = adopted[fr[2]] \/ (adopted[fr[2]] = 0 /\ fr[1] \notin {"call", "user"})
    BY <1>2, <2>1 DEF Adopts
  <2>4. origin'[fr[2]] = origin[fr[2]]
    BY <1>1, <2>1
  <2>5. FrameRight(fr)'
    BY <1>1, <2>1, <2>2, <2>3, <2>4, FrameStays
  <2> QED BY <2>1, <2>4, <2>5 DEF Early
<1>5. Distinct(rest) /\ InOrder(rest, Early)
  BY <1>1, <1>2, PartFacts DEF StackInv, Part
<1>6. InOrder(rest, Early') /\ InOrder(y, Early')
  <2>1. InOrder(rest, Early')
    BY <1>4, <1>5, InOrderLess
  <2>2. InOrder(y, Early')
    BY <1>2 DEF InOrder, Mem
  <2> QED BY <2>1, <2>2
<1>7. Distinct(y \o rest) /\ InOrder(y \o rest, Early')
  <2>1. \A x \in Mem(y) : x[1] # "pass" => x \notin Mem(rest)
    <3> SUFFICES ASSUME NEW x \in Mem(y), x[1] # "pass", x \in Mem(rest) PROVE FALSE
      OBVIOUS
    <3>1. x[2] > made /\ x[2] \in 1 .. made
      BY <1>2, <1>4
    <3> QED BY <1>1, <3>1
  <2>2. \A x \in Mem(y) \cap Early', z \in Mem(rest) \cap Early' : x[4] = z[4] => x[2] < z[2]
    BY <1>2
  <2> QED BY <1>1, <1>2, <1>5, <1>6, <2>1, <2>2, ConcatKeeps
<1>8. \A fr \in Mem(stack') : FrameRight(fr)'
  BY <1>1, <1>2, <1>4
<1>9. (\A fr \in Mem(stack) : FrameRight(fr))' /\ Distinct(stack)' /\ InOrder(stack, Early)'
  BY <1>2, <1>7, <1>8
<1> QED BY <1>9 DEF StackInv

LEMMA RegisteringOld ==
    ASSUME NEW y, NEW rest, Registering(y, rest), rest = stack \/ Head(stack)[1] # "call"
    PROVE  /\ ListInv' /\ StackInv' /\ CallsInv'
           /\ \A n \in 1 .. made : Handled(n)' => Due(n)'
<1>1. /\ Steps(rest) /\ calls' = calls /\ Called' = Called
  BY RegisteringIsStep DEF Registering, Called
<1>2. \A n \in 1 .. made : Handled(n) => Due(n)'
  BY <1>1, DueStay
<1>3. \A n \in 1 .. made : Handled(n)' <=> Handled(n)
  BY <1>1, StepFacts
<1> QED BY <1>1, <1>2, <1>3, RegisteringLists, RegisteringStack, CallsStay

(* What a constructor makes: promise n                                     *)
Made(n, op, ps) ==
    /\ n = made + 1 /\ n \in Promises /\ n \in Nat /\ made' = n
    /\ origin'[n] = [op |-> op, from |-> ps, early |-> \A i \in 1 .. Len(ps) : state[ps[i]] = "pending"]
    /\ origin' = [k \in Promises |-> origin'[k]] /\ \A k \in Promises \ {n} : origin'[k] = origin[k]
    /\ UNCHANGED <<state, value, results, calls, adopted, forced>>
    /\ state[n] = "pending" /\ adopted[n] = 0 /\ n \notin forced /\ n \notin Called /\ results[n].size = 2
    /\ \A fr \in Mem(stack) : fr[2] < n

LEMMA MakeFacts ==
    ASSUME Inv, NEW op, NEW ps, Make(op, ps), NEW n, n = made + 1
    PROVE  Made(n, op, ps)
<1>1. /\ made < MaxPromise /\ made' = made + 1
      /\ origin' = [origin EXCEPT ![made + 1] =
            [op |-> op, from |-> ps, early |-> \A i \in 1 .. Len(ps) : state[ps[i]] = "pending"]]
      /\ UNCHANGED <<state, value, results, calls, adopted, forced>>
  BY DEF Make
<1>2. TypeInv /\ made \in Nat /\ Roots \in Nat /\ CallsInv
  BY TypeFacts DEF Inv
<1>3. n \in Promises /\ n \in Nat /\ n > made
  BY <1>1, <1>2, BoundAssumption DEF Promises
<1>4. /\ origin'[n] = [op |-> op, from |-> ps, early |-> \A i \in 1 .. Len(ps) : state[ps[i]] = "pending"]
      /\ origin' = [k \in Promises |-> origin'[k]] /\ \A k \in Promises \ {n} : origin'[k] = origin[k]
  BY <1>1, <1>2, <1>3 DEF TypeInv
<1>5. state[n] = "pending" /\ adopted[n] = 0 /\ results[n] = [size |-> 2, got |-> <<None, None>>] /\ forced \subseteq 1 .. made
  BY <1>2, <1>3 DEF TypeInv
<1>6. n \notin forced /\ n \notin Called
  <2>1. Called \subseteq 1 .. made
    BY <1>2 DEF CallsInv, Called
  <2> QED BY <1>2, <1>3, <1>5, <2>1
<1>7. \A fr \in Mem(stack) : fr[2] < n
  <2>1. \A fr \in Mem(stack) : fr[2] \in 1 .. made
    BY <1>2, TypeFacts
  <2> QED BY <1>2, <1>3, <2>1
<1>8. results[n].size = 2
  BY <1>5
<1> QED BY <1>1, <1>3, <1>4, <1>5, <1>6, <1>7, <1>8 DEF Made

LEMMA MakeTypes ==
    ASSUME Inv, NEW n, NEW op \in Operations \ {"new"}, NEW ps \in Seq(Promises), Made(n, op, ps),
           Len(ps) = IF op \in {"all", "race"} THEN 2 ELSE 1, \A i \in 1 .. Len(ps) : ps[i] <= made,
           MachineTypes', \A q \in Promises, o \in Outcome : q > made => Waiting(q, o)' = Waiting(q, o),
           NEW y, Mem(stack') = Mem(y) \cup Mem(stack),
           \A fr \in Mem(y) : state[fr[4]] # "pending" /\ fr[2] = n /\ fr[4] <= made
    PROVE  TypeInv'
<1>1. /\ n = made + 1 /\ n \in Promises /\ n \in Nat /\ made' = n
      /\ origin'[n] = [op |-> op, from |-> ps, early |-> \A i \in 1 .. Len(ps) : state[ps[i]] = "pending"]
      /\ origin' = [k \in Promises |-> origin'[k]] /\ \A k \in Promises \ {n} : origin'[k] = origin[k]
      /\ UNCHANGED <<state, value, results, calls, adopted, forced>>
  BY DEF Made
<1>2. TypeInv /\ made \in Nat /\ Roots \in Nat /\ Roots <= made /\ Promises \subseteq Nat
  BY TypeFacts DEF Inv
<1>3. made' \in Roots .. MaxPromise
  BY <1>1, <1>2, BoundAssumption DEF Promises
<1>4. origin' \in [Promises -> [op : Operations, from : Seq(Promises), early : BOOLEAN]]
  <2>1. [op |-> op, from |-> ps, early |-> \A i \in 1 .. Len(ps) : state[ps[i]] = "pending"]
            \in [op : Operations, from : Seq(Promises), early : BOOLEAN]
    OBVIOUS
  <2>2. \A k \in Promises : origin'[k] \in [op : Operations, from : Seq(Promises), early : BOOLEAN]
    <3> TAKE k \in Promises
    <3>1. CASE k = n
      BY <1>1, <2>1, <3>1
    <3>2. CASE k # n
      <4>1. origin[k] \in [op : Operations, from : Seq(Promises), early : BOOLEAN]
        BY <1>2 DEF TypeInv
      <4> QED BY <1>1, <3>2, <4>1
    <3> QED BY <3>1, <3>2
  <2> QED BY <1>1, <2>2
<1>5. adopted' \in [Promises -> 0 .. made'] /\ forced' \subseteq 1 .. made'
  <2>1. 0 .. made \subseteq 0 .. n /\ 1 .. made \subseteq 1 .. n
    BY <1>1, <1>2
  <2> QED BY <1>1, <1>2, <2>1 DEF TypeInv
<1>6. \A p \in Promises : p > made' =>
        /\ state'[p] = "pending" /\ fulfilled_callbacks'[p] = <<>> /\ rejected_callbacks'[p] = <<>>
        /\ adopted'[p] = 0 /\ results'[p] = [size |-> 2, got |-> <<None, None>>]
  <2> SUFFICES ASSUME NEW p \in Promises, p > made'
               PROVE  /\ state[p] = "pending" /\ fulfilled_callbacks'[p] = <<>> /\ rejected_callbacks'[p] = <<>>
                      /\ adopted[p] = 0 /\ results[p] = [size |-> 2, got |-> <<None, None>>]
    BY <1>1
  <2>1. p > made
    BY <1>1, <1>2
  <2>2. /\ state[p] = "pending" /\ fulfilled_callbacks[p] = <<>> /\ rejected_callbacks[p] = <<>>
        /\ adopted[p] = 0 /\ results[p] = [size |-> 2, got |-> <<None, None>>]
    BY <1>2, <2>1 DEF TypeInv
  <2>3. fulfilled_callbacks'[p] = fulfilled_callbacks[p] /\ rejected_callbacks'[p] = rejected_callbacks[p]
    BY <2>1 DEF Waiting, Outcome
  <2> QED BY <2>2, <2>3
<1>7. \A k \in Promises : k > made' \/ k <= Roots => origin'[k].op = "new"
  <2> SUFFICES ASSUME NEW k \in Promises, k > made' \/ k <= Roots PROVE origin'[k].op = "new"
    OBVIOUS
  <2>1. k # n /\ (k > made \/ k <= Roots)
    BY <1>1, <1>2
  <2> QED BY <1>1, <1>2, <2>1 DEF TypeInv
<1>8. \A k \in Promises : origin'[k].op # "new" =>
        /\ Len(origin'[k].from) = IF origin'[k].op \in {"all", "race"} THEN 2 ELSE 1
        /\ \A i \in 1 .. Len(origin'[k].from) : origin'[k].from[i] < k
  <2> SUFFICES ASSUME NEW k \in Promises, origin'[k].op # "new"
               PROVE  /\ Len(origin'[k].from) = IF origin'[k].op \in {"all", "race"} THEN 2 ELSE 1
                      /\ \A i \in 1 .. Len(origin'[k].from) : origin'[k].from[i] < k
    OBVIOUS
  <2>1. CASE k = n
    <3>1. origin'[k].op = op /\ origin'[k].from = ps
      BY <1>1, <2>1
    <3>2. \A i \in 1 .. Len(ps) : ps[i] \in Promises
      OBVIOUS
    <3>3. \A i \in 1 .. Len(ps) : ps[i] < k
      BY <1>1, <1>2, <2>1, <3>2
    <3> QED BY <3>1, <3>3
  <2>2. CASE k # n
    <3>1. origin'[k] = origin[k]
      BY <1>1, <2>2
    <3>2. origin[k].op # "new" =>
            /\ Len(origin[k].from) = IF origin[k].op \in {"all", "race"} THEN 2 ELSE 1
            /\ \A i \in 1 .. Len(origin[k].from) : origin[k].from[i] < k
      BY <1>2 DEF TypeInv
    <3> QED BY <3>1, <3>2
  <2> QED BY <2>1, <2>2
<1>9. \A i \in 1 .. Len(stack') : state'[stack'[i][4]] # "pending" /\ stack'[i][2] <= made' /\ stack'[i][4] <= made'
  <2> SUFFICES ASSUME NEW fr \in Mem(stack')
               PROVE  state[fr[4]] # "pending" /\ fr[2] <= n /\ fr[4] <= n
    BY <1>1 DEF Mem
  <2>1. CASE fr \in Mem(stack)
    <3>1. state[fr[4]] \in Outcome /\ fr[2] \in 1 .. made /\ fr[4] \in 1 .. made
      BY <1>2, <2>1, TypeFacts
    <3> QED BY <1>1, <1>2, <3>1 DEF Outcome
  <2>2. CASE fr \in Mem(y)
    <3>1. fr \in Frames
      <4>1. stack' \in Seq(Frames)
        BY DEF MachineTypes
      <4> QED BY <4>1 DEF Mem
    <3>2. fr[4] \in Nat
      BY <1>2, <3>1 DEF Frames
    <3> QED BY <1>1, <1>2, <2>2, <3>2
  <2> QED BY <2>1, <2>2
<1>10. ResultTypes'
  BY <1>1, <1>2 DEF TypeInv, ResultTypes
<1>11. \E S : calls' \in Seq(S)
  BY <1>1, <1>2 DEF TypeInv
<1> QED BY <1>3, <1>4, <1>5, <1>6, <1>7, <1>8, <1>9, <1>10, <1>11 DEF TypeInv, MachineTypes

LEMMA MakeInv ==
    ASSUME Inv, NEW n, NEW op, NEW ps, Made(n, op, ps), NEW y, Registering(y, stack),
           Handled(n)' => Due(n)', op = "all" => Counted(n)', Fate(n)'
    PROVE  Inv'
<1>1. /\ n = made + 1 /\ made' = n /\ origin'[n].op = op
      /\ UNCHANGED <<state, value, results, calls, adopted, forced>>
  BY DEF Made
<1>2. Steps(stack) /\ made \in Nat /\ \A k \in 1 .. made : origin'[k] = origin[k]
  BY RegisteringIsStep, TypeFacts DEF Inv, Registering
<1>3. ListInv' /\ StackInv' /\ CallsInv' /\ TypeInv' /\ \A k \in 1 .. made : Handled(k)' => Due(k)'
  BY RegisteringOld DEF Registering
<1>4. \A k \in 1 .. made' : k \in 1 .. made \/ k = n
  BY <1>1, <1>2
<1>5. DueInv'
  <2> SUFFICES ASSUME NEW k \in 1 .. made', Handled(k)' PROVE Due(k)'
    BY DEF DueInv
  <2>1. CASE k \in 1 .. made
    BY <1>3, <2>1
  <2>2. CASE k = n
    <3>1. (Handled(k)' => Handled(n)') /\ (Due(n)' => Due(k)')
      BY <2>2
    <3> QED BY <3>1
  <2> QED BY <1>4, <2>1, <2>2
<1>6. FateInv'
  <2> SUFFICES ASSUME NEW k \in 1 .. made'
               PROVE  (origin'[k].op = "all" => Counted(k)') /\ (k \notin forced' => Fate(k)')
    BY DEF FateInv
  <2>1. CASE k \in 1 .. made
    <3>1. (origin[k].op = "all" => Counted(k)) /\ (k \notin forced => Fate(k))
      BY <2>1 DEF Inv, FateInv
    <3>2. origin[k].op = "all" => Counted(k)'
      BY <1>1, <1>2, <2>1, <3>1, CountedStays
    <3>3. k \notin forced => Fate(k)'
      BY <1>1, <1>2, <2>1, <3>1, FateStays
    <3> QED BY <1>1, <1>2, <2>1, <3>2, <3>3
  <2>2. CASE k = n
    <3>1. (Counted(n)' => Counted(k)') /\ (Fate(n)' => Fate(k)')
      BY <2>2
    <3> QED BY <1>1, <2>2, <3>1
  <2> QED BY <1>4, <2>1, <2>2
<1> QED BY <1>3, <1>5, <1>6 DEF Inv

(* then, then2 and fail                                                    *)
LEMMA MakeOneInv ==
    ASSUME Inv, NEW op \in {"then", "then2", "fail"}, NEW p \in 1 .. made, NEW n, n = made + 1, NEW f, NEW g,
           f = IF op # "fail" THEN Call(n) ELSE Pass(n), g = IF op # "then" THEN Call(n) ELSE Pass(n),
           Make(op, <<p>>), Register(p, f, g, stack)
    PROVE  Inv'
<1>1. Made(n, op, <<p>>)
  BY MakeFacts
<1>2. /\ n \in Promises /\ n \in Nat /\ made' = n
      /\ origin'[n].op = op /\ origin'[n].from[1] = p
      /\ UNCHANGED <<state, value, results, calls, adopted, forced>>
      /\ state[n] = "pending" /\ adopted[n] = 0 /\ n \notin forced /\ n \notin Called /\ results[n].size = 2
  BY <1>1 DEF Made
<1>3. origin'[n].early <=> state[p] = "pending"
  <2>1. origin'[n].early <=> \A i \in 1 .. Len(<<p>>) : state[<<p>>[i]] = "pending"
    BY <1>1 DEF Made
  <2>2. Len(<<p>>) = 1 /\ <<p>>[1] = p
    OBVIOUS
  <2> HIDE DEF Made
  <2> QED BY <2>1, <2>2
<1>4. /\ TypeInv /\ MachineTypes /\ made \in Nat /\ p \in Promises /\ stack \in Seq(Frames) /\ Promises \subseteq Nat
      /\ state[p] \in {"pending"} \cup Outcome
  BY TypeFacts DEF Inv, MachineTypes
<1>5. f \in Callbacks /\ g \in Callbacks /\ \A o \in Outcome : Token(f, g, o) \in Callbacks
  BY <1>2 DEF Call, Pass, Callbacks, Token
<1>6. /\ Handled(n)' /\ Parent(n)' = p
      /\ \A o \in Outcome : Token(f, g, o) = IF Handles(n, o)' THEN Call(n) ELSE Pass(n)
      /\ f = HandlerFor(n, "fulfilled")' /\ g = HandlerFor(n, "rejected")'
  BY <1>2 DEF Handled, Parent, Handles, Token, Outcome, HandlerFor
<1>7. /\ MachineTypes'
      /\ \A q \in Promises, o \in Outcome :
            Waiting(q, o)' = IF q = p /\ state[p] = "pending"
                             THEN Append(Waiting(q, o), Token(f, g, o)) ELSE Waiting(q, o)
      /\ stack' = Now(p, f, g) \o stack
      /\ Moves(stack)
  <2>1. UNCHANGED <<state, value>> /\ f \in Callbacks /\ g \in Callbacks
    BY <1>2, <1>5
  <2> QED BY <1>4, <2>1, RegisterFacts
<1>8. ASSUME NEW o \in Outcome
      PROVE  LET cb == Token(f, g, o) IN
             TokenRight(cb, p, o)' /\ cb[2] = n /\ cb[1] \in {"call", "pass"}
  <2>1. CASE Handles(n, o)'
    <3>1. CallRight(n, p, o)'
      BY <1>2, <1>6, <2>1 DEF CallRight
    <3> QED BY <1>2, <1>6, <2>1, <3>1 DEF TokenRight, Call
  <2>2. CASE ~Handles(n, o)'
    <3>1. PassRight(n, p, o)'
      BY <1>6, <2>2 DEF PassRight
    <3> QED BY <1>2, <1>6, <2>2, <3>1 DEF TokenRight, Pass
  <2> QED BY <2>1, <2>2
<1> DEFINE y == Now(p, f, g)
<1>9. /\ y \in Seq(Frames)
      /\ state[p] = "pending" => y = <<>> /\ Mem(y) = {}
      /\ state[p] # "pending" => y = <<Run(Token(f, g, state[p]), p)>> /\ Mem(y) = {Run(Token(f, g, state[p]), p)}
  BY <1>4, <1>5, NowFacts DEF Token
<1>10. ASSUME state[p] # "pending"
       PROVE  LET fr == Run(Token(f, g, state[p]), p) IN
              FrameRight(fr)' /\ fr \notin Early' /\ fr[2] = n /\ fr[4] = p /\ fr \in Frames
  <2> PICK cb : cb = Token(f, g, state[p])
    OBVIOUS
  <2>1. cb \in Callbacks /\ TokenRight(cb, p, state[p])' /\ cb[2] = n
    BY <1>2, <1>4, <1>5, <1>8, <1>10
  <2> PICK fr : fr = Run(cb, p)
    OBVIOUS
  <2>2. fr \in Frames /\ fr[1] = cb[1] /\ fr[2] = n /\ fr[3] = cb[3] /\ fr[4] = p
    BY <1>4, <2>1, RunFacts
  <2>3. n \notin Called' /\ Untouched(n)'
    BY <1>2 DEF Called, Untouched
  <2>4. FrameRight(fr)'
    BY <2>1, <2>2, <2>3 DEF FrameRight, TokenRight
  <2>5. fr \notin Early'
    BY <1>3, <1>10, <2>2 DEF Early
  <2> QED BY <1>2, <2>2, <2>4, <2>5
<1> HIDE DEF y
<1>11. \A fr \in Mem(y) : state[fr[4]] # "pending" /\ fr[2] = n /\ fr[4] <= made
  BY <1>4, <1>9, <1>10
<1>12. Mem(stack') = Mem(y) \cup Mem(stack)
  BY <1>4, <1>7, <1>9, MemConcat DEF y
<1>13. TypeInv'
  <2>1. \A q \in Promises, o \in Outcome : q > made => Waiting(q, o)' = Waiting(q, o)
    BY <1>4, <1>7
  <2>2. Len(<<p>>) = 1 /\ <<p>>[1] = p /\ <<p>> \in Seq(Promises)
    BY <1>4
  <2>3. Len(<<p>>) = IF op \in {"all", "race"} THEN 2 ELSE 1
    BY <2>2
  <2>4. \A i \in 1 .. Len(<<p>>) : <<p>>[i] <= made
    BY <2>2
  <2>5. op \in Operations \ {"new"}
    BY DEF Operations
  <2> HIDE DEF Made
  <2> QED BY <1>1, <1>7, <1>11, <1>12, <2>1, <2>2, <2>3, <2>4, <2>5, MakeTypes
<1>14. Starts(y)
  <2>1. Distinct(y)
    BY <1>9 DEF Distinct
  <2>2. \A fr \in Mem(y) : FrameRight(fr)' /\ fr \notin Early' /\ (fr[1] = "pass" \/ fr[2] > made)
    BY <1>2, <1>4, <1>9, <1>10
  <2> QED BY <1>9, <2>1, <2>2 DEF Starts
<1>15. ASSUME NEW q \in Promises, NEW o \in Outcome, state[q] = "pending"
       PROVE  \E x : Adds(x, q, o) /\ Waiting(q, o)' = Waiting(q, o) \o x
  <2>1. Waiting(q, o) \in Seq(Callbacks)
    BY <1>4, WaitingTypes
  <2>2. CASE q = p
    <3> PICK cb : cb = Token(f, g, o)
      OBVIOUS
    <3>1. cb \in Callbacks /\ TokenRight(cb, p, o)' /\ cb[2] = n
      BY <1>5, <1>8
    <3>2. <<cb>> \in Seq(Callbacks) /\ Len(<<cb>>) = 1 /\ Mem(<<cb>>) = {cb}
      BY <3>1, MemOne
    <3>3. Distinct(<<cb>>)
      BY DEF Distinct
    <3>4. InOrder(RunAll(<<cb>>, q), Early')
      BY <3>2 DEF InOrder, RunAll
    <3>5. origin'[cb[2]].early /\ cb[2] > made
      BY <1>3, <1>4, <1>15, <2>2, <3>1
    <3>6. Waiting(q, o)' = Append(Waiting(q, o), cb)
      BY <1>7, <1>15, <2>2
    <3>7. Append(Waiting(q, o), cb) = Waiting(q, o) \o <<cb>>
      BY <2>1, <3>1, AppendIsConcat
    <3>8. Adds(<<cb>>, q, o)
      BY <2>2, <3>1, <3>2, <3>3, <3>4, <3>5 DEF Adds
    <3> QED BY <3>6, <3>7, <3>8
  <2>3. CASE q # p
    <3>1. Waiting(q, o)' = Waiting(q, o) \o <<>>
      BY <1>7, <2>1, <2>3, ConcatEmptySeq
    <3>2. Adds(<<>>, q, o)
      BY MemNone DEF Adds, Distinct, InOrder, RunAll
    <3> QED BY <3>1, <3>2
  <2> QED BY <2>2, <2>3
<1>16. Registering(y, stack)
  <2>1. made <= made' /\ \A k \in 1 .. made : origin'[k] = origin[k]
    <3>1. \A k \in 1 .. made : k \in Promises \ {n}
      BY <1>4, TypeFacts
    <3> QED BY <1>1, <1>2, <1>4, <3>1 DEF Made
  <2>2. Adopts(stack)
    BY <1>2 DEF Adopts
  <2> QED BY <1>2, <1>7, <1>13, <1>14, <1>15, <2>1, <2>2 DEF Registering, Part, y
<1>17. WaitsForParent(n)'
  <2>1. WaitsFor(p, f, g)'
    <3>1. CASE state[p] = "pending"
      <4>1. \A o \in Outcome : Token(f, g, o) \in Mem(Waiting(p, o)')
        <5> TAKE o \in Outcome
        <5>1. Waiting(p, o) \in Seq(Callbacks)
          BY <1>4, WaitingTypes
        <5>2. Mem(Append(Waiting(p, o), Token(f, g, o))) = Mem(Waiting(p, o)) \cup {Token(f, g, o)}
          BY <1>5, <5>1, MemAppend
        <5>3. Waiting(p, o)' = Append(Waiting(p, o), Token(f, g, o))
          BY <1>4, <1>7, <3>1
        <5> QED BY <5>2, <5>3
      <4>2. f \in Mem(Waiting(p, "fulfilled")') /\ g \in Mem(Waiting(p, "rejected")')
        BY <4>1 DEF Token, Outcome
      <4>3. f \in Mem(fulfilled_callbacks'[p]) /\ g \in Mem(rejected_callbacks'[p])
        BY <4>2 DEF Waiting
      <4> QED BY <1>2, <3>1, <4>3 DEF WaitsFor
    <3>2. CASE state[p] # "pending"
      <4>1. Run(Token(f, g, state[p]), p) \in Mem(stack')
        BY <1>9, <1>12, <3>2
      <4> QED BY <1>2, <3>2, <4>1 DEF WaitsFor, Token
    <3> QED BY <3>1, <3>2
  <2>2. \A q, a, b : q = Parent(n)' /\ a = HandlerFor(n, "fulfilled")' /\ b = HandlerFor(n, "rejected")'
                     /\ WaitsFor(q, a, b)' => WaitsForParent(n)'
    BY DEF WaitsForParent
  <2> QED BY <1>6, <2>1, <2>2
<1>18. Due(n)' /\ Fate(n)'
  <2>1. HandlerFate(n)'
    BY <1>2, <1>17 DEF HandlerFate
  <2> QED BY <1>2, <1>17, <2>1 DEF Due, Fate
<1> QED BY <1>1, <1>16, <1>18, MakeInv

LEMMA InOrderNone ==
    ASSUME NEW seq, NEW E, \A e \in Mem(seq) : e \notin E
    PROVE  InOrder(seq, E)
BY DEF InOrder, Mem

(* One callback or none, for the first and for the second of two promises  *)
LEMMA TwoAtMost ==
    ASSUME NEW S, NEW a \in Seq(S), NEW b \in Seq(S), NEW c \in S, NEW d \in S, c = d => c[1] = "pass",
           (a = <<>> /\ Mem(a) = {}) \/ a = <<c>>, (b = <<>> /\ Mem(b) = {}) \/ b = <<d>>
    PROVE  /\ a \o b \in Seq(S) /\ Mem(a \o b) = Mem(a) \cup Mem(b) /\ Distinct(a \o b)
           /\ (a = <<c>> => Mem(a) = {c}) /\ (b = <<d>> => Mem(b) = {d})
<1>1. \A e \in S : Mem(<<e>>) = {e} /\ Len(<<e>>) = 1
  BY MemOne
<1>2. a \o b \in Seq(S) /\ Mem(a \o b) = Mem(a) \cup Mem(b)
  BY MemConcat
<1>3. (a = <<c>> => Mem(a) = {c}) /\ (b = <<d>> => Mem(b) = {d})
  BY <1>1
<1>4. Distinct(a) /\ Distinct(b)
  BY <1>1 DEF Distinct
<1>5. \A x \in Mem(a) : x[1] # "pass" => x \notin Mem(b)
  BY <1>3
<1>6. Distinct(a \o b)
  BY <1>4, <1>5, ConcatKeeps
<1> QED BY <1>2, <1>3, <1>6

(* all and race                                                            *)
BothTokens(op, n, fs, gs) ==
    /\ gs = <<Pass(n), Pass(n)>>
    /\ fs = IF op = "all" THEN <<Slot(n, 1), Slot(n, 2)>> ELSE <<Pass(n), Pass(n)>>

LEMMA MakeBothInv ==
    ASSUME Inv, NEW op \in {"all", "race"}, NEW ps \in Pair, ps[1] <= made, ps[2] <= made, NEW n, n = made + 1,
           NEW fs, NEW gs, BothTokens(op, n, fs, gs),
           Make(op, ps), RegisterBoth(ps, fs, gs, stack)
    PROVE  Inv'
<1>1. Made(n, op, ps)
  BY MakeFacts
<1>2. /\ n \in Promises /\ n \in Nat /\ made' = n
      /\ origin'[n].op = op /\ origin'[n].from = ps
      /\ UNCHANGED <<state, value, results, calls, adopted, forced>>
      /\ state[n] = "pending" /\ adopted[n] = 0 /\ n \notin forced /\ n \notin Called /\ results[n].size = 2
  BY <1>1 DEF Made
<1>3. ps[1] \in Promises /\ ps[2] \in Promises /\ ps = <<ps[1], ps[2]>> /\ ps \in Seq(Promises) /\ Len(ps) = 2
  <2>1. ps[1] \in Promises /\ ps[2] \in Promises /\ ps = <<ps[1], ps[2]>>
    BY DEF Pair
  <2>2. <<ps[1], ps[2]>> \in Seq(Promises) /\ Len(<<ps[1], ps[2]>>) = 2
    BY <2>1
  <2> QED BY <2>1, <2>2
<1>4. /\ TypeInv /\ MachineTypes /\ made \in Nat /\ stack \in Seq(Frames) /\ Promises \subseteq Nat
      /\ \A q \in Promises : state[q] \in {"pending"} \cup Outcome
  BY TypeFacts DEF Inv, MachineTypes
<1> DEFINE T(o, i) == IF op = "all" /\ o = "fulfilled" THEN Slot(n, i) ELSE Pass(n)
<1>5. /\ fs \in Callbacks \X Callbacks /\ gs \in Callbacks \X Callbacks
      /\ \A o \in Outcome, i \in {1, 2} : Token(fs, gs, o)[i] = T(o, i) /\ T(o, i) \in Callbacks
      /\ \A i \in {1, 2} : fs[i] = T("fulfilled", i) /\ gs[i] = T("rejected", i)
  <2>1. \A o \in Outcome, i \in {1, 2} : T(o, i) \in Callbacks
    BY <1>2 DEF Slot, Pass, Callbacks
  <2>2. Pass(n) \in Callbacks /\ Slot(n, 1) \in Callbacks /\ Slot(n, 2) \in Callbacks
    BY <1>2 DEF Slot, Pass, Callbacks
  <2>3. fs \in Callbacks \X Callbacks /\ gs \in Callbacks \X Callbacks
    BY <2>2 DEF BothTokens
  <2>4. \A o \in Outcome, i \in {1, 2} : Token(fs, gs, o)[i] = T(o, i)
    BY DEF Token, Outcome, BothTokens
  <2>5. \A i \in {1, 2} : fs[i] = T("fulfilled", i) /\ gs[i] = T("rejected", i)
    BY DEF BothTokens
  <2> QED BY <2>1, <2>3, <2>4, <2>5
<1>6. ASSUME NEW o \in Outcome, NEW i \in {1, 2}
      PROVE  /\ TokenRight(T(o, i), ps[i], o)' /\ T(o, i)[2] = n /\ T(o, i)[1] \in {"pass", "slot"}
             /\ T(o, 1) = T(o, 2) => T(o, 1)[1] = "pass"
  <2>1. CASE op = "all" /\ o = "fulfilled"
    <3>1. SlotRight(n, i, ps[i], o)'
      BY <1>2, <2>1 DEF SlotRight
    <3> QED BY <1>2, <2>1, <3>1 DEF TokenRight, Slot
  <2>2. CASE ~(op = "all" /\ o = "fulfilled")
    <3>1. ps[i] \in From(n)'
      BY <1>2 DEF From
    <3>2. PassRight(n, ps[i], o)'
      BY <1>2, <2>2, <3>1 DEF PassRight, Outcome
    <3> QED BY <1>2, <2>2, <3>2 DEF TokenRight, Pass
  <2> QED BY <2>1, <2>2
<1> HIDE DEF T
<1> DEFINE one(q, o) == IF ps[1] = q THEN <<T(o, 1)>> ELSE <<>>
           two(q, o) == IF ps[2] = q THEN <<T(o, 2)>> ELSE <<>>
           y1 == Now(ps[1], fs[1], gs[1])
           y2 == Now(ps[2], fs[2], gs[2])
<1>7. /\ MachineTypes'
      /\ \A q \in Promises, o \in Outcome :
            Waiting(q, o)' = IF state[q] # "pending" THEN Waiting(q, o)
                             ELSE Waiting(q, o) \o (one(q, o) \o two(q, o))
      /\ stack' = y1 \o y2 \o stack
      /\ Moves(stack)
  <2>1. UNCHANGED <<state, value>>
    BY <1>2
  <2>2. /\ MachineTypes'
        /\ \A q \in Promises, o \in Outcome :
            Waiting(q, o)' = IF state[q] # "pending" THEN Waiting(q, o)
                ELSE Waiting(q, o) \o ((IF ps[1] = q THEN <<Token(fs, gs, o)[1]>> ELSE <<>>)
                                       \o (IF ps[2] = q THEN <<Token(fs, gs, o)[2]>> ELSE <<>>))
        /\ stack' = Now(ps[1], fs[1], gs[1]) \o Now(ps[2], fs[2], gs[2]) \o stack
        /\ Moves(stack)
    <3>1. MachineTypes /\ stack \in Seq(Frames) /\ fs \in Callbacks \X Callbacks /\ gs \in Callbacks \X Callbacks
      BY <1>4, <1>5
    <3> QED BY <2>1, <3>1, RegisterBothFacts
  <2>3. ASSUME NEW q \in Promises, NEW o \in Outcome
        PROVE  Waiting(q, o)' = IF state[q] # "pending" THEN Waiting(q, o)
                                ELSE Waiting(q, o) \o (one(q, o) \o two(q, o))
    <3>1. Token(fs, gs, o)[1] = T(o, 1) /\ Token(fs, gs, o)[2] = T(o, 2)
      BY <1>5
    <3>2. /\ one(q, o) = IF ps[1] = q THEN <<Token(fs, gs, o)[1]>> ELSE <<>>
          /\ two(q, o) = IF ps[2] = q THEN <<Token(fs, gs, o)[2]>> ELSE <<>>
      BY <3>1
    <3> HIDE DEF one, two
    <3> QED BY <2>2, <3>2
  <2> HIDE DEF one, two
  <2> QED BY <2>2, <2>3 DEF y1, y2
<1>8. ASSUME NEW q \in Promises, NEW o \in Outcome
      PROVE  /\ one(q, o) \o two(q, o) \in Seq(Callbacks) /\ Distinct(one(q, o) \o two(q, o))
             /\ Mem(one(q, o) \o two(q, o)) = {T(o, i) : i \in {k \in {1, 2} : ps[k] = q}}
  <2>0. PICK a, b, c, d : a = one(q, o) /\ b = two(q, o) /\ c = T(o, 1) /\ d = T(o, 2)
    OBVIOUS
  <2>1. c \in Callbacks /\ d \in Callbacks /\ (c = d => c[1] = "pass")
    BY <1>5, <1>6, <2>0
  <2>2. /\ a = <<>> \/ a = <<c>>
        /\ b = <<>> \/ b = <<d>>
        /\ (a = <<c>> <=> ps[1] = q) /\ (b = <<d>> <=> ps[2] = q)
    BY <2>0
  <2>3. <<c>> \in Seq(Callbacks) /\ <<d>> \in Seq(Callbacks) /\ <<>> \in Seq(Callbacks) /\ Mem(<<>>) = {}
    BY <2>1, MemNone
  <2>4. a \in Seq(Callbacks) /\ b \in Seq(Callbacks) /\ (a = <<>> => Mem(a) = {}) /\ (b = <<>> => Mem(b) = {})
    BY <2>2, <2>3
  <2>5. /\ a \o b \in Seq(Callbacks) /\ Mem(a \o b) = Mem(a) \cup Mem(b) /\ Distinct(a \o b)
        /\ (a = <<c>> => Mem(a) = {c}) /\ (b = <<d>> => Mem(b) = {d})
    <3>1. (a = <<>> /\ Mem(a) = {}) \/ a = <<c>>
      BY <2>2, <2>4
    <3>2. (b = <<>> /\ Mem(b) = {}) \/ b = <<d>>
      BY <2>2, <2>4
    <3>3. a \in Seq(Callbacks) /\ b \in Seq(Callbacks)
      BY <2>4
    <3> QED BY <2>1, <3>1, <3>2, <3>3, TwoAtMost
  <2>6. Mem(a \o b) = {T(o, i) : i \in {k \in {1, 2} : ps[k] = q}}
    BY <2>0, <2>2, <2>4, <2>5
  <2> QED BY <2>0, <2>5, <2>6
<1> HIDE DEF one, two
(* The calls that start: of those of the promises that are settled         *)
<1> DEFINE F(i) == Run(T(state[ps[i]], i), ps[i])
<1>9. ASSUME NEW i \in {1, 2}, state[ps[i]] # "pending"
      PROVE  /\ F(i) \in Frames /\ FrameRight(F(i))' /\ F(i) \notin Early' /\ F(i)[2] = n /\ F(i)[4] = ps[i]
             /\ F(i)[1] = T(state[ps[i]], i)[1] /\ F(i)[3] = T(state[ps[i]], i)[3]
  <2> PICK p, s, cb, fr : p = ps[i] /\ s = state[p] /\ cb = T(s, i) /\ fr = Run(cb, p)
    OBVIOUS
  <2>1. p \in Promises /\ s \in Outcome
    BY <1>3, <1>4, <1>9
  <2>2. cb \in Callbacks /\ TokenRight(cb, p, s)' /\ cb[2] = n /\ cb[1] \in {"pass", "slot"}
    BY <1>5, <1>6, <2>1
  <2>3. fr \in Frames /\ fr[1] = cb[1] /\ fr[2] = n /\ fr[3] = cb[3] /\ fr[4] = p
    BY <2>1, <2>2, RunFacts
  <2>4. FrameRight(fr)'
    BY <1>2, <2>2, <2>3 DEF FrameRight, TokenRight
  <2>5. fr \notin Early'
    BY <2>2, <2>3 DEF Early
  <2>6. fr = F(i)
    OBVIOUS
  <2>7. F(i)' = F(i)
    BY <1>2
  <2>8. FrameRight(F(i))'
    BY <2>4, <2>6, <2>7
  <2> QED BY <2>3, <2>5, <2>6, <2>8
<1>10. /\ y1 \in Seq(Frames) /\ y2 \in Seq(Frames)
       /\ IF state[ps[1]] = "pending" THEN y1 = <<>> /\ Mem(y1) = {} ELSE y1 = <<F(1)>> /\ Mem(y1) = {F(1)}
       /\ IF state[ps[2]] = "pending" THEN y2 = <<>> /\ Mem(y2) = {} ELSE y2 = <<F(2)>> /\ Mem(y2) = {F(2)}
  <2>1. ASSUME NEW i \in {1, 2}
        PROVE  /\ Now(ps[i], fs[i], gs[i]) \in Seq(Frames)
               /\ IF state[ps[i]] = "pending"
                  THEN Now(ps[i], fs[i], gs[i]) = <<>> /\ Mem(Now(ps[i], fs[i], gs[i])) = {}
                  ELSE Now(ps[i], fs[i], gs[i]) = <<F(i)>> /\ Mem(Now(ps[i], fs[i], gs[i])) = {F(i)}
    <3> PICK p, f, g : p = ps[i] /\ f = fs[i] /\ g = gs[i]
      OBVIOUS
    <3>1. p \in Promises /\ f \in Callbacks /\ g \in Callbacks /\ f = T("fulfilled", i) /\ g = T("rejected", i)
      BY <1>3, <1>5 DEF Outcome
    <3>2. state[p] # "pending" => F(i) = Run(IF state[p] = "fulfilled" THEN f ELSE g, p)
      BY <1>4, <3>1 DEF Outcome
    <3> HIDE DEF F
    <3>3. /\ Now(p, f, g) \in Seq(Frames)
          /\ state[p] = "pending" => Now(p, f, g) = <<>> /\ Mem(Now(p, f, g)) = {}
          /\ state[p] # "pending" =>
                Now(p, f, g) = <<Run(IF state[p] = "fulfilled" THEN f ELSE g, p)>>
                /\ Mem(Now(p, f, g)) = {Run(IF state[p] = "fulfilled" THEN f ELSE g, p)}
      BY <1>4, <3>1, NowFacts
    <3> QED BY <3>2, <3>3
  <2> HIDE DEF F
  <2> QED BY <2>1
<1> HIDE DEF y1, y2, F
<1> DEFINE y == y1 \o y2
<1>11. /\ y \in Seq(Frames) /\ Distinct(y) /\ Mem(y) = {F(i) : i \in {k \in {1, 2} : state[ps[k]] # "pending"}}
  <2>1. y \in Seq(Frames) /\ Mem(y) = Mem(y1) \cup Mem(y2)
    BY <1>10, MemConcat
  <2>2. Mem(y) = {F(i) : i \in {k \in {1, 2} : state[ps[k]] # "pending"}}
    BY <1>10, <2>1
  <2>3. Distinct(y1) /\ Distinct(y2)
    BY <1>10 DEF Distinct
  <2>4. ASSUME state[ps[1]] # "pending", state[ps[2]] # "pending", F(1) = F(2)
        PROVE  F(1)[1] = "pass"
    <3>1. ps[1] = ps[2]
      BY <1>9, <2>4
    <3> PICK s : s = state[ps[1]] /\ s \in Outcome
      BY <1>3, <1>4, <2>4
    <3>2. F(1)[1] = T(s, 1)[1] /\ F(1)[3] = T(s, 1)[3] /\ F(2)[3] = T(s, 2)[3]
      BY <1>9, <2>4, <3>1
    <3>3. T(s, 1)[3] = T(s, 2)[3] => T(s, 1)[1] = "pass"
      BY DEF T, Slot, Pass
    <3> QED BY <2>4, <3>2, <3>3
  <2>5. \A x \in Mem(y1) : x[1] # "pass" => x \notin Mem(y2)
    BY <1>10, <2>4
  <2> QED BY <1>10, <2>1, <2>2, <2>3, <2>5, ConcatKeeps
<1>12. stack' = y \o stack
  BY <1>7
<1> HIDE DEF y
<1>13. Mem(stack') = Mem(y) \cup Mem(stack)
  BY <1>4, <1>11, <1>12, MemConcat
<1>14. \A fr \in Mem(y) : state[fr[4]] # "pending" /\ fr[2] = n /\ fr[4] <= made /\ FrameRight(fr)' /\ fr \notin Early'
  <2> TAKE fr \in Mem(y)
  <2>1. PICK i \in {1, 2} : state[ps[i]] # "pending" /\ fr = F(i)
    BY <1>11
  <2>2. F(i)' = F(i)
    BY <1>2 DEF F
  <2>3. /\ FrameRight(F(i))' /\ F(i) \notin Early' /\ F(i)[2] = n /\ F(i)[4] = ps[i]
    BY <1>9, <2>1
  <2>4. FrameRight(fr)'
    BY <2>1, <2>2, <2>3
  <2> QED BY <2>1, <2>3, <2>4
<1>15. TypeInv'
  <2>1. \A q \in Promises, o \in Outcome : q > made => Waiting(q, o)' = Waiting(q, o)
    <3> SUFFICES ASSUME NEW q \in Promises, NEW o \in Outcome, q > made PROVE Waiting(q, o)' = Waiting(q, o)
      OBVIOUS
    <3>1. ps[1] # q /\ ps[2] # q
      BY <1>3, <1>4
    <3>2. one(q, o) \o two(q, o) = <<>>
      BY <3>1 DEF one, two
    <3>3. Waiting(q, o) \o <<>> = Waiting(q, o)
      BY <1>4, WaitingTypes, ConcatEmptySeq
    <3> QED BY <1>7, <3>2, <3>3
  <2>2. Len(ps) = IF op \in {"all", "race"} THEN 2 ELSE 1
    BY <1>3
  <2>3. \A i \in 1 .. Len(ps) : ps[i] <= made
    BY <1>3
  <2>4. op \in Operations \ {"new"}
    BY DEF Operations
  <2>5. \A fr \in Mem(y) : state[fr[4]] # "pending" /\ fr[2] = n /\ fr[4] <= made
    BY <1>14
  <2> QED BY <1>1, <1>3, <1>7, <1>13, <2>1, <2>2, <2>3, <2>4, <2>5, MakeTypes
<1>16. Starts(y)
  <2>1. n > made
    BY <1>4
  <2> QED BY <1>11, <1>14, <2>1 DEF Starts
<1>17. ASSUME NEW q \in Promises, NEW o \in Outcome, state[q] = "pending"
       PROVE  \E x : Adds(x, q, o) /\ Waiting(q, o)' = Waiting(q, o) \o x
  <2> PICK x : x = one(q, o) \o two(q, o)
    OBVIOUS
  <2>1. x \in Seq(Callbacks) /\ Distinct(x) /\ Mem(x) = {T(o, i) : i \in {k \in {1, 2} : ps[k] = q}}
    BY <1>8
  <2>2. \A cb \in Mem(x) : TokenRight(cb, q, o)' /\ cb[2] > made /\ cb[1] \in {"pass", "slot"}
    <3> TAKE cb \in Mem(x)
    <3>1. PICK i \in {1, 2} : ps[i] = q /\ cb = T(o, i)
      BY <2>1
    <3>2. TokenRight(T(o, i), ps[i], o)' /\ T(o, i)[2] = n /\ T(o, i)[1] \in {"pass", "slot"}
      BY <1>6
    <3> QED BY <1>4, <3>1, <3>2
  <2>3. \A fr \in Mem(RunAll(x, q)) : fr \notin Early'
    <3> TAKE fr \in Mem(RunAll(x, q))
    <3>0. Mem(RunAll(x, q)) = {Run(cb, q) : cb \in Mem(x)}
      BY <2>1, RunAllFacts
    <3>1. PICK cb \in Mem(x) : fr = Run(cb, q)
      BY <3>0
    <3>2. fr[1] # "call"
      BY <2>2, <3>1 DEF Run
    <3> QED BY <3>2 DEF Early
  <2>4. InOrder(RunAll(x, q), Early')
    BY <2>3, InOrderNone
  <2>5. Adds(x, q, o)
    BY <2>1, <2>2, <2>4 DEF Adds
  <2> QED BY <1>7, <1>17, <2>5
<1>18. Registering(y, stack)
  <2>1. made <= made' /\ \A k \in 1 .. made : origin'[k] = origin[k]
    <3>1. \A k \in 1 .. made : k \in Promises \ {n}
      BY <1>4, TypeFacts
    <3> QED BY <1>1, <1>2, <1>4, <3>1 DEF Made
  <2>2. Adopts(stack)
    BY <1>2 DEF Adopts
  <2> QED BY <1>2, <1>7, <1>12, <1>15, <1>16, <1>17, <2>1, <2>2 DEF Registering, Part
<1>19. ASSUME NEW i \in {1, 2}
       PROVE  /\ WaitsFor(ps[i], T("fulfilled", i), Pass(n))'
              /\ state[ps[i]] # "pending" => F(i) \in Mem(stack')
  <2> PICK p : p = ps[i]
    OBVIOUS
  <2>1. p \in Promises /\ T("rejected", i) = Pass(n)
    BY <1>3 DEF T
  <2>2. state[p] # "pending" => F(i) \in Mem(stack')
    BY <1>11, <1>13
  <2>3. CASE state[p] = "pending"
    <3>1. ASSUME NEW o \in Outcome
          PROVE  T(o, i) \in Mem(Waiting(p, o)')
      <4>0. PICK w, x : w = Waiting(p, o) /\ x = one(p, o) \o two(p, o)
        OBVIOUS
      <4>1. w \in Seq(Callbacks) /\ x \in Seq(Callbacks) /\ T(o, i) \in Mem(x) /\ Waiting(p, o)' = w \o x
        <5>1. w \in Seq(Callbacks)
          BY <1>4, <2>1, <4>0, WaitingTypes
        <5>2. x \in Seq(Callbacks) /\ T(o, i) \in Mem(x)
          BY <1>8, <2>1, <4>0
        <5>3. Waiting(p, o)' = w \o x
          BY <1>7, <2>1, <2>3, <4>0
        <5> QED BY <5>1, <5>2, <5>3
      <4>2. w \in Seq(Callbacks) /\ x \in Seq(Callbacks)
        BY <4>1
      <4>3. Mem(w \o x) = Mem(w) \cup Mem(x)
        BY <4>2, MemConcat
      <4> QED BY <4>1, <4>3
    <3>2. T("fulfilled", i) \in Mem(fulfilled_callbacks'[p]) /\ Pass(n) \in Mem(rejected_callbacks'[p])
      BY <2>1, <3>1 DEF Waiting, Outcome
    <3>3. WaitsFor(p, T("fulfilled", i), Pass(n))'
      BY <1>2, <2>3, <3>2 DEF WaitsFor
    <3> QED BY <2>2, <3>3
  <2>4. CASE state[p] # "pending"
    <3>1. F(i) = Run(IF state[p] = "fulfilled" THEN T("fulfilled", i) ELSE Pass(n), p)
      BY <1>3, <1>4, <2>1, <2>4 DEF F, Outcome
    <3>2. WaitsFor(p, T("fulfilled", i), Pass(n))'
      BY <1>2, <2>2, <2>4, <3>1 DEF WaitsFor
    <3> QED BY <2>2, <3>2
  <2> QED BY <2>3, <2>4
<1>20. Fate(n)'
  <2>1. CASE op = "race"
    <3>1. \A i \in {1, 2} : WaitsFor(ps[i], Pass(n), Pass(n))'
      BY <1>19, <2>1 DEF T
    <3>2. RaceFate(n)'
      BY <1>2, <3>1 DEF RaceFate
    <3> QED BY <1>2, <2>1, <3>2 DEF Fate, Handled
  <2>2. CASE op = "all"
    <3>1. AllFate(n)'
      BY <1>2 DEF AllFate
    <3> QED BY <1>2, <2>2, <3>1 DEF Fate, Handled
  <2> QED BY <2>1, <2>2
<1>21. ASSUME op = "all"
       PROVE  Counted(n)'
  <2>1. ASSUME NEW i \in {1, 2}
        PROVE  ~Filled(n, i)' /\ Awaited(n, i)'
    <3>1. WaitsFor(ps[i], Slot(n, i), Pass(n))'
      BY <1>19, <1>21 DEF T
    <3>2. Awaited(n, i)'
      BY <1>2, <3>1 DEF Awaited
    <3>3. state[ps[i]] = "fulfilled" => <<"slot", n, i, ps[i]>> \in Mem(stack')
      BY <1>19, <1>21 DEF F, T, Run, Slot
    <3>4. ~Filled(n, i)'
      BY <1>2, <3>3 DEF Filled
    <3> QED BY <3>2, <3>4
  <2>2. results'[n].size = 2 /\ state'[n] = "pending"
    BY <1>2
  <2> QED BY <2>1, <2>2 DEF Counted
<1>22. ~Handled(n)'
  BY <1>2 DEF Handled
<1> QED BY <1>1, <1>18, <1>20, <1>21, <1>22, MakeInv
(* The handler of n returned q, which n then follows.                      *)
LEMMA ReturnPromiseInv ==
    ASSUME Inv, NEW q \in 1 .. made, ReturnPromise(q)
    PROVE  Inv'
<1> PICK n, p, f : n = Head(stack)[2] /\ p = Head(stack)[4] /\ f = Pass(n)
  OBVIOUS
<1>1. /\ stack # <<>> /\ Head(stack)[1] = "user" /\ q # n
      /\ Register(q, f, f, Rest) /\ adopted' = [adopted EXCEPT ![n] = q]
      /\ UNCHANGED <<made, state, value, results, origin, calls, forced>>
  BY DEF ReturnPromise
<1>2. /\ n \in 1 .. made /\ p \in 1 .. made /\ state[p] \in Outcome /\ CallRight(n, p, state[p]) /\ Untouched(n)
      /\ Rest \in Seq(Frames) /\ Mem(stack) = Mem(Rest) \cup {Head(stack)}
      /\ \A fr \in Mem(Rest) : fr[1] \in {"call", "user"} => fr[2] # n
  <2>1. /\ FrameRight(Head(stack)) /\ n \in 1 .. made /\ p \in 1 .. made /\ state[p] \in Outcome
        /\ Rest \in Seq(Frames) /\ Mem(stack) = Mem(Rest) \cup {Head(stack)}
        /\ \A fr \in Mem(Rest) : fr[1] \in {"call", "user"} => fr[2] # n
    BY <1>1, HeadFacts
  <2> QED BY <1>1, <2>1 DEF FrameRight
<1>3. /\ TypeInv /\ MachineTypes /\ made \in Nat /\ Promises \subseteq Nat \ {0} /\ 1 .. made \subseteq Promises
      /\ q \in Promises /\ n \in Promises /\ state[q] \in {"pending"} \cup Outcome
  BY <1>2, TypeFacts DEF Inv, MachineTypes
<1>4. f \in Callbacks /\ f[1] = "pass" /\ f[2] = n /\ f[3] = 1
  BY <1>3 DEF Pass, Callbacks
<1>5. /\ Handled(n) /\ Parent(n) = p /\ Handles(n, state[p]) /\ adopted[n] = 0 /\ state[p] # "pending" /\ ParentHandled(n)
  BY <1>2 DEF CallRight, ParentHandled, ParentActed, Outcome
<1>6. /\ MachineTypes'
      /\ \A k \in Promises, o \in Outcome :
            Waiting(k, o)' = IF k = q /\ state[q] = "pending"
                             THEN Append(Waiting(k, o), f) ELSE Waiting(k, o)
      /\ stack' = Now(q, f, f) \o Rest
      /\ Moves(Rest)
  <2>1. /\ MachineTypes' /\ stack' = Now(q, f, f) \o Rest /\ Moves(Rest)
        /\ \A k \in Promises, o \in Outcome :
            Waiting(k, o)' = IF k = q /\ state[q] = "pending"
                             THEN Append(Waiting(k, o), Token(f, f, o)) ELSE Waiting(k, o)
    <3>1. UNCHANGED <<state, value>>
      BY <1>1
    <3> QED BY <1>1, <1>2, <1>3, <1>4, <3>1, RegisterFacts
  <2>2. \A o : Token(f, f, o) = f
    BY DEF Token
  <2> QED BY <2>1, <2>2
<1> DEFINE y == Now(q, f, f)
<1>7. /\ y \in Seq(Frames)
      /\ state[q] = "pending" => y = <<>> /\ Mem(y) = {}
      /\ state[q] # "pending" => y = <<Run(f, q)>> /\ Mem(y) = {Run(f, q)}
  BY <1>3, <1>4, NowFacts
<1> HIDE DEF y
<1>8. Mem(stack') = Mem(y) \cup Mem(Rest)
  BY <1>2, <1>6, <1>7, MemConcat DEF y
<1>9. adopted'[n] = q /\ \A k \in 1 .. made : k # n => adopted'[k] = adopted[k]
  BY <1>1, <1>3 DEF TypeInv
<1>10. TypeInv'
  <2>1. adopted' \in [Promises -> 0 .. made']
    <3>1. adopted \in [Promises -> 0 .. made] /\ q \in 0 .. made
      BY <1>3 DEF TypeInv
    <3> QED BY <1>1, <3>1
  <2>2. \A k \in Promises : k > made' =>
            /\ state'[k] = "pending" /\ fulfilled_callbacks'[k] = <<>> /\ rejected_callbacks'[k] = <<>>
            /\ adopted'[k] = 0 /\ results'[k] = [size |-> 2, got |-> <<None, None>>]
    <3> SUFFICES ASSUME NEW k \in Promises, k > made
                 PROVE  /\ state[k] = "pending" /\ fulfilled_callbacks'[k] = <<>> /\ rejected_callbacks'[k] = <<>>
                        /\ adopted'[k] = 0 /\ results[k] = [size |-> 2, got |-> <<None, None>>]
      BY <1>1
    <3>1. /\ state[k] = "pending" /\ fulfilled_callbacks[k] = <<>> /\ rejected_callbacks[k] = <<>>
          /\ adopted[k] = 0 /\ results[k] = [size |-> 2, got |-> <<None, None>>]
      BY <1>3 DEF TypeInv
    <3>2. k # q /\ k # n
      BY <1>2, <1>3
    <3>3. adopted'[k] = 0
      BY <1>1, <3>1, <3>2 DEF TypeInv
    <3>4. Waiting(k, "fulfilled")' = Waiting(k, "fulfilled") /\ Waiting(k, "rejected")' = Waiting(k, "rejected")
      BY <1>6, <3>2 DEF Outcome
    <3> QED BY <3>1, <3>3, <3>4 DEF Waiting
  <2>3. \A i \in 1 .. Len(stack') : state'[stack'[i][4]] # "pending" /\ stack'[i][2] <= made' /\ stack'[i][4] <= made'
    <3> SUFFICES ASSUME NEW fr \in Mem(stack')
                 PROVE  state[fr[4]] # "pending" /\ fr[2] <= made /\ fr[4] <= made
      BY <1>1 DEF Mem
    <3>1. CASE fr \in Mem(y)
      <4>1. state[q] # "pending" /\ fr = Run(f, q)
        BY <1>7, <3>1
      <4> QED BY <1>2, <1>4, <4>1 DEF Run
    <3>2. CASE fr \in Mem(Rest)
      <4>1. fr[2] \in 1 .. made /\ fr[4] \in 1 .. made /\ state[fr[4]] \in Outcome
        BY <1>2, <1>3, <3>2, TypeFacts
      <4> QED BY <4>1 DEF Outcome
    <3> QED BY <1>8, <3>1, <3>2
  <2>4. ResultTypes'
    BY <1>1, <1>3 DEF TypeInv, ResultTypes
  <2>5. UNCHANGED <<made, state, value, results, origin, calls, forced>>
    BY <1>1
  <2>6. MachineTypes'
    BY <1>6
  <2> QED BY <1>3, <2>1, <2>2, <2>3, <2>4, <2>5, <2>6 DEF TypeInv, MachineTypes
<1>11. Handled(n)' /\ Parent(n)' = p /\ (\A o : Handles(n, o)' <=> Handles(n, o)) /\ PassRight(n, q, "fulfilled")' /\ PassRight(n, q, "rejected")'
  <2>1. Handled(n)' /\ Parent(n)' = p /\ (\A o : Handles(n, o)' <=> Handles(n, o))
    BY <1>1, <1>5 DEF Handled, Parent, Handles
  <2>2. \A o : PassRight(n, q, o)'
    BY <1>1, <1>5, <1>9, <2>1 DEF PassRight
  <2> QED BY <2>1, <2>2
<1>12. \A o \in Outcome : TokenRight(f, q, o)'
  <2>1. f[2] <= made'
    BY <1>1, <1>2, <1>4
  <2> QED BY <1>4, <1>11, <2>1 DEF TokenRight, Outcome
<1>13. Starts(y)
  <2>1. Distinct(y)
    BY <1>7 DEF Distinct
  <2>2. ASSUME NEW fr \in Mem(y)
        PROVE  FrameRight(fr)' /\ fr \notin Early' /\ fr[1] = "pass"
    <3>1. state[q] \in Outcome /\ fr = <<"pass", n, 1, q>>
      BY <1>3, <1>4, <1>7, <2>2 DEF Run
    <3>2. PassRight(n, q, state[q])'
      BY <1>1, <1>11, <3>1 DEF Outcome
    <3> QED BY <1>1, <3>1, <3>2 DEF FrameRight, Early
  <2> QED BY <1>7, <2>1, <2>2 DEF Starts
<1>14. ASSUME NEW k \in Promises, NEW o \in Outcome, state[k] = "pending"
       PROVE  \E x : Adds(x, k, o) /\ Waiting(k, o)' = Waiting(k, o) \o x
  <2>1. Waiting(k, o) \in Seq(Callbacks)
    BY <1>3, WaitingTypes
  <2>2. CASE k = q
    <3>1. <<f>> \in Seq(Callbacks) /\ Len(<<f>>) = 1 /\ Mem(<<f>>) = {f}
      BY <1>4, MemOne
    <3>2. Distinct(<<f>>)
      BY DEF Distinct
    <3>3. InOrder(RunAll(<<f>>, k), Early')
      BY <3>1 DEF InOrder, RunAll
    <3>4. Waiting(k, o)' = Waiting(k, o) \o <<f>>
      BY <1>4, <1>6, <1>14, <2>1, <2>2, AppendIsConcat
    <3>5. Adds(<<f>>, k, o)
      BY <1>4, <1>12, <2>2, <3>1, <3>2, <3>3 DEF Adds
    <3> QED BY <3>4, <3>5
  <2>3. CASE k # q
    <3>1. Waiting(k, o)' = Waiting(k, o) \o <<>>
      BY <1>6, <2>1, <2>3, ConcatEmptySeq
    <3>2. Adds(<<>>, k, o)
      BY MemNone DEF Adds, Distinct, InOrder, RunAll
    <3> QED BY <3>1, <3>2
  <2> QED BY <2>2, <2>3
<1>15. Registering(y, Rest)
  <2>1. made <= made' /\ \A k \in 1 .. made : origin'[k] = origin[k]
    BY <1>1, <1>3
  <2>2. Adopts(Rest)
    <3> SUFFICES ASSUME NEW k \in 1 .. made
                 PROVE  \/ adopted'[k] = adopted[k]
                        \/ /\ adopted[k] = 0 /\ ParentActed(k)
                           /\ \A fr \in Mem(Rest) : fr[1] \in {"call", "user"} => fr[2] # k
      BY DEF Adopts
    <3> QED BY <1>2, <1>5, <1>9 DEF ParentActed
  <2>3. Part(Rest)
    BY <1>1 DEF Part
  <2>4. stack' = y \o Rest
    BY <1>6 DEF y
  <2> QED BY <1>1, <1>6, <1>10, <1>13, <1>14, <2>1, <2>2, <2>3, <2>4 DEF Registering
<1>16. Steps(Rest) /\ ListInv' /\ StackInv' /\ CallsInv' /\ \A k \in 1 .. made : Handled(k)' => Due(k)'
  <2>1. Head(stack)[1] # "call"
    BY <1>1
  <2> QED BY <1>15, <2>1, RegisteringIsStep, RegisteringOld
<1>17. DueInv'
  BY <1>1, <1>16 DEF DueInv
<1>18. WaitsFor(q, f, f)'
  <2>1. CASE state[q] = "pending"
    <3>1. \A o \in Outcome : f \in Mem(Waiting(q, o)')
      <4> TAKE o \in Outcome
      <4>1. Waiting(q, o) \in Seq(Callbacks)
        BY <1>3, WaitingTypes
      <4>2. Mem(Append(Waiting(q, o), f)) = Mem(Waiting(q, o)) \cup {f}
        BY <1>4, <4>1, MemAppend
      <4>3. Waiting(q, o)' = Append(Waiting(q, o), f)
        BY <1>3, <1>6, <2>1
      <4> QED BY <4>2, <4>3
    <3>2. f \in Mem(Waiting(q, "fulfilled")') /\ f \in Mem(Waiting(q, "rejected")')
      BY <3>1 DEF Outcome
    <3>3. f \in Mem(fulfilled_callbacks'[q]) /\ f \in Mem(rejected_callbacks'[q])
      BY <3>2 DEF Waiting
    <3> QED BY <1>1, <2>1, <3>3 DEF WaitsFor
  <2>2. CASE state[q] # "pending"
    <3>1. Run(f, q) \in Mem(stack')
      BY <1>7, <1>8, <2>2
    <3> QED BY <1>1, <2>2, <3>1 DEF WaitsFor
  <2> QED BY <2>1, <2>2
<1>19. ASSUME n \notin forced'
       PROVE  Fate(n)'
  <2>1. state'[n] = "pending"
    BY <1>1, <1>2, <1>19 DEF Untouched
  <2>2. ParentHandled(n)'
    BY <1>2, <1>5, <1>16, ParentStays
  <2>3. WaitsFor(adopted[n], Pass(n), Pass(n))'
    <3>1. Pass(n) = f /\ adopted'[n] = q
      BY <1>9
    <3>2. \A x, z : x = adopted'[n] /\ z = Pass(n) /\ WaitsFor(x, z, z)' => WaitsFor(adopted[n], Pass(n), Pass(n))'
      BY DEF Pass
    <3> QED BY <1>18, <3>1, <3>2
  <2>4. adopted'[n] # 0
    BY <1>3, <1>9
  <2>5. HandlerFate(n)'
    BY <2>1, <2>2, <2>3, <2>4 DEF HandlerFate
  <2>6. origin'[n].op \in {"then", "then2", "fail"}
    BY <1>11 DEF Handled
  <2> QED BY <2>5, <2>6 DEF Fate
<1>20. ASSUME NEW k \in 1 .. made
       PROVE  (origin'[k].op = "all" => Counted(k)') /\ (k \notin forced' => Fate(k)')
  <2>1. CASE k = n
    <3>1. origin'[k].op # "all"
      BY <1>11, <2>1 DEF Handled
    <3>2. Fate(n)' => Fate(k)'
      BY <2>1
    <3> QED BY <1>19, <2>1, <3>1, <3>2
  <2>2. CASE k # n
    <3>1. (origin[k].op = "all" => Counted(k)) /\ (k \notin forced => Fate(k))
      BY DEF Inv, FateInv
    <3>2. /\ state'[k] = state[k] /\ value'[k] = value[k] /\ adopted'[k] = adopted[k] /\ results'[k] = results[k]
          /\ origin'[k] = origin[k] /\ forced' = forced /\ Head(stack)[2] # k
      BY <1>1, <1>9, <2>2
    <3>3. origin[k].op = "all" => Counted(k)'
      BY <1>16, <3>1, <3>2, CountedStays
    <3>4. k \notin forced => Fate(k)'
      BY <1>16, <3>1, <3>2, FateStays
    <3> QED BY <3>2, <3>3, <3>4
  <2> QED BY <2>1, <2>2
<1>21. FateInv'
  BY <1>1, <1>20 DEF FateInv
<1> QED BY <1>10, <1>16, <1>17, <1>21 DEF Inv

-----------------------------------------------------------------------------
(* The invariant, and what follows from it.                                *)

LEMMA InitInv == Init => Inv
<1> SUFFICES ASSUME Init PROVE Inv
  OBVIOUS
<1>1. TypeInv /\ MachineTypes /\ made = Roots /\ 1 .. made \subseteq Promises
  BY InitTypes, TypeFacts DEF Init
<1>2. /\ stack = <<>> /\ Mem(stack) = {} /\ Len(stack) = 0 /\ calls = <<>> /\ Len(calls) = 0 /\ Called = {}
  BY MemNone DEF Init, Called
<1>3. \A n \in 1 .. made : origin[n].op = "new" /\ ~Handled(n) /\ state[n] = "pending"
  BY <1>1 DEF Init, Handled
<1>4. ListInv
  <2>1. \A p \in Promises, s \in Outcome : Waiting(p, s) = <<>>
    BY DEF Init, Waiting
  <2> QED BY <2>1, MemNone DEF ListInv, Distinct, InOrder, RunAll
<1>5. StackInv
  BY <1>2 DEF StackInv, Distinct, InOrder
<1>6. CallsInv
  BY <1>2 DEF CallsInv, CalledInOrder
<1>7. DueInv
  BY <1>3 DEF DueInv
<1>8. FateInv
  BY <1>3 DEF FateInv, Fate
<1> QED BY <1>1, <1>4, <1>5, <1>6, <1>7, <1>8 DEF Inv

LEMMA StepInv ==
    ASSUME Inv, [Next]_vars
    PROVE  Inv'
<1>1. TypeInv /\ made \in Nat
  BY TypeFacts DEF Inv
<1>2. ASSUME NEW p \in 1 .. made, then(p) PROVE Inv'
  <2>1. Make("then", <<p>>) /\ Register(p, Call(made + 1), Pass(made + 1), stack)
    BY <1>2 DEF then
  <2> QED BY <2>1, MakeOneInv
<1>3. ASSUME NEW p \in 1 .. made, then2(p) PROVE Inv'
  <2>1. Make("then2", <<p>>) /\ Register(p, Call(made + 1), Call(made + 1), stack)
    BY <1>3 DEF then2
  <2> QED BY <2>1, MakeOneInv
<1>4. ASSUME NEW p \in 1 .. made, fail(p) PROVE Inv'
  <2>1. Make("fail", <<p>>) /\ Register(p, Pass(made + 1), Call(made + 1), stack)
    BY <1>4 DEF fail
  <2> QED BY <2>1, MakeOneInv
<1>5. ASSUME NEW ps \in Pair, \A i \in 1 .. 2 : ps[i] <= made, all(ps) PROVE Inv'
  <2>1. /\ Make("all", ps) /\ ps[1] <= made /\ ps[2] <= made
        /\ RegisterBoth(ps, <<Slot(made + 1, 1), Slot(made + 1, 2)>>, <<Pass(made + 1), Pass(made + 1)>>, stack)
    BY <1>5 DEF all
  <2> QED BY <2>1, MakeBothInv DEF BothTokens
<1>6. ASSUME NEW ps \in Pair, \A i \in 1 .. 2 : ps[i] <= made, race(ps) PROVE Inv'
  <2>1. /\ Make("race", ps) /\ ps[1] <= made /\ ps[2] <= made
        /\ RegisterBoth(ps, <<Pass(made + 1), Pass(made + 1)>>, <<Pass(made + 1), Pass(made + 1)>>, stack)
    BY <1>6 DEF race
  <2> QED BY <2>1, MakeBothInv DEF BothTokens
<1>7. ASSUME NEW p \in 1 .. made, resolve(p) \/ reject(p) PROVE Inv'
  BY <1>7, UserSettlesInv DEF resolve, reject, Outcome
<1>8. ASSUME NEW q \in 1 .. made, ReturnPromise(q) PROVE Inv'
  BY <1>8, ReturnPromiseInv
<1>9. CASE UNCHANGED vars
  <2>1. /\ UNCHANGED <<made, state, value, fulfilled_callbacks, rejected_callbacks, results, stack>>
        /\ UNCHANGED <<origin, calls, adopted, forced>>
    BY <1>9 DEF vars, lists, history
  <2>2. /\ \A n : /\ (Handled(n)' <=> Handled(n)) /\ Parent(n)' = Parent(n) /\ From(n)' = From(n)
                  /\ \A s : Handles(n, s)' <=> Handles(n, s)
      /\ Called' = Called /\ Early' = Early /\ \A p, s : Waiting(p, s)' = Waiting(p, s)
    BY <2>1 DEF Handled, Parent, From, Handles, Called, Early, Waiting
  <2>3. /\ \A n, p, s : (CallRight(n, p, s)' <=> CallRight(n, p, s)) /\ (PassRight(n, p, s)' <=> PassRight(n, p, s))
      /\ \A n, i, p, s : SlotRight(n, i, p, s)' <=> SlotRight(n, i, p, s)
    BY <2>1 DEF CallRight, PassRight, SlotRight, Handled, Parent, From, Handles
  <2>4. TypeInv'
    BY <2>1 DEF Inv, TypeInv, ResultTypes, Waiting
  <2>5. ListInv'
    BY <2>1, <2>2, <2>3 DEF Inv, ListInv, TokenRight
  <2>6. StackInv'
    <3>1. \A fr : FrameRight(fr)' <=> FrameRight(fr)
      BY <2>1, <2>2, <2>3 DEF FrameRight, Untouched
    <3> QED BY <2>1, <2>2, <3>1 DEF Inv, StackInv
  <2>7. CallsInv'
    BY <2>1 DEF Inv, CallsInv, CalledInOrder, Parent, Handled, Handles, Called, Early
  <2>8. \A n : (Due(n)' <=> Due(n)) /\ (Counted(n)' <=> Counted(n)) /\ (Fate(n)' <=> Fate(n))
    <3>1. \A n, s : HandlerFor(n, s)' = HandlerFor(n, s)
      BY <2>2 DEF HandlerFor
    <3>2. \A n : /\ (WaitsForParent(n)' <=> WaitsForParent(n)) /\ (ParentActed(n)' <=> ParentActed(n))
                  /\ (ParentHandled(n)' <=> ParentHandled(n))
      BY <2>1 DEF WaitsForParent, WaitsFor, HandlerFor, Handles, Parent, ParentActed, ParentHandled
    <3>3. \A n : (HandlerFate(n)' <=> HandlerFate(n)) /\ (RaceFate(n)' <=> RaceFate(n)) /\ (AllFate(n)' <=> AllFate(n))
      BY <2>1, <3>2 DEF HandlerFate, RaceFate, AllFate, Follows, WaitsFor, Parent, Handles
    <3>4. \A n : Counted(n)' <=> Counted(n)
      BY <2>1 DEF Counted, Filled, Awaited, WaitsFor
    <3>5. \A n : Due(n)' <=> Due(n)
      BY <2>1, <2>2, <3>2 DEF Due, Handles, Parent
    <3>6. \A n : Fate(n)' <=> Fate(n)
      BY <2>1, <2>2, <3>3 DEF Fate
    <3> QED BY <3>4, <3>5, <3>6
  <2>9. DueInv' /\ FateInv'
    BY <2>1, <2>2, <2>8 DEF Inv, DueInv, FateInv
  <2> QED BY <2>4, <2>5, <2>6, <2>7, <2>9 DEF Inv
<1> QED BY <1>2, <1>3, <1>4, <1>5, <1>6, <1>7, <1>8, <1>9,
           CallHandlerInv, PassOnInv, FillSlotInv, ReturnInv DEF Next

(* Every reachable state satisfies the invariant.                          *)
THEOREM Invariance == Spec => []Inv
<1>1. Inv /\ [Next]_vars => Inv'
  BY StepInv
<1> QED BY InitInv, <1>1, PTL DEF Spec

(* Type correctness, with what it says of the promises that have not been  *)
(* made and of the callbacks of those that are settled: resolve() and      *)
(* reject() leave none behind for the outcome, so that nothing is called   *)
(* a second time.                                                          *)
THEOREM TypeCorrect == Spec => []TypeOK
<1>1. Inv => TypeOK
  <2> SUFFICES ASSUME Inv PROVE TypeOK
    OBVIOUS
  <2>1. TypeInv /\ MachineTypes /\ 1 .. made \subseteq Promises
    BY TypeFacts DEF Inv
  <2>2. \A p \in Promises : /\ state[p] = "fulfilled" => fulfilled_callbacks[p] = <<>>
                            /\ state[p] = "rejected" => rejected_callbacks[p] = <<>>
    BY <2>1 DEF TypeInv, Waiting
  <2>3. \A i \in 1 .. Len(stack) :
            stack[i] \in Tasks \X Promises \X {1, 2} \X Promises /\ state[stack[i][4]] # "pending"
    BY <2>1 DEF TypeInv, Frames
  <2>4. state \in [Promises -> {"pending", "fulfilled", "rejected"}]
    BY <2>1 DEF TypeInv, Outcome
  <2> QED BY <2>1, <2>2, <2>3, <2>4 DEF TypeOK, TypeInv
<1> QED BY Invariance, <1>1, PTL

(* When no call is in progress, what waits for p waits for p to settle.    *)
LEMMA QuietWaits ==
    ASSUME Quiet
    PROVE  /\ \A p, f, g : WaitsFor(p, f, g) => state[p] = "pending"
           /\ \A n : WaitsForParent(n) => ~ParentActed(n)
           /\ \A fr : fr \notin Mem(stack)
<1>1. Mem(stack) = {}
  BY MemNone DEF Quiet
<1>2. \A p, f, g : WaitsFor(p, f, g) => state[p] = "pending"
  BY <1>1 DEF WaitsFor
<1> QED BY <1>1, <1>2 DEF WaitsForParent, ParentActed

(* Every handler for the outcome of a settled promise has been called once *)
(* when the calls in progress have returned, with that outcome, and no     *)
(* other handler has, in whatever order handlers of the promise register   *)
(* on it and settle it (then, fail, trigger_fulfill, trigger_reject).      *)
THEOREM EachHandlerOnce == Spec => []HandlersCalled
<1>1. Inv => HandlersCalled
  <2> SUFFICES ASSUME Inv, Quiet, NEW n \in 1 .. made, Handled(n)
               PROVE  IF state[Parent(n)] # "pending" /\ Handles(n, state[Parent(n)])
                      THEN \E i \in CallsFor(n) :
                             CallsFor(n) = {i} /\ calls[i] = <<n, state[Parent(n)], value[Parent(n)]>>
                      ELSE CallsFor(n) = {}
    BY DEF HandlersCalled
  <2>1. CallsInv /\ Due(n)
    BY DEF Inv, DueInv
  <2>2. \A i \in CallsFor(n) :
            /\ i \in 1 .. Len(calls) /\ state[Parent(n)] # "pending" /\ Handles(n, state[Parent(n)])
            /\ calls[i] = <<n, state[Parent(n)], value[Parent(n)]>>
    BY <2>1 DEF CallsInv, CallsFor
  <2>3. CASE state[Parent(n)] # "pending" /\ Handles(n, state[Parent(n)])
    <3>1. n \in Called
      BY <2>1, <2>3, QuietWaits DEF Due, ParentActed
    <3>2. PICK i \in 1 .. Len(calls) : calls[i][1] = n
      BY <3>1 DEF Called
    <3>3. i \in CallsFor(n) /\ \A j \in CallsFor(n) : j = i
      BY <2>1, <3>2 DEF CallsFor, CallsInv
    <3> QED BY <2>2, <2>3, <3>3
  <2>4. CASE ~(state[Parent(n)] # "pending" /\ Handles(n, state[Parent(n)]))
    BY <2>2, <2>4
  <2> QED BY <2>3, <2>4
<1> QED BY Invariance, <1>1, PTL

(* The handlers that were waiting for a promise are called in the order in *)
(* which then() and fail() appended them, also when calls are nested.      *)
THEOREM InOrderCalled == Spec => []CalledInOrder
<1>1. Inv => CalledInOrder
  BY DEF Inv, CallsInv
<1> QED BY Invariance, <1>1, PTL

(* What becomes of the promises of then and fail, of all, and of race      *)
LEMMA HandlerOutcome ==
    ASSUME Inv, Quiet, NEW n \in 1 .. made, Handled(n), HandlerFate(n)
    PROVE  IF state[Parent(n)] = "pending" THEN state[n] = "pending"
           ELSE IF ~Handles(n, state[Parent(n)]) THEN Follows(n, Parent(n))
           ELSE IF adopted[n] # 0 THEN Follows(n, adopted[n])
           ELSE state[n] = state[Parent(n)] /\ value[n] = <<n>>
<1>1. WaitsForParent(n) => ~ParentActed(n)
  BY QuietWaits
<1>2. ParentActed(n) <=> state[Parent(n)] # "pending"
  BY DEF ParentActed
<1>3. <<"user", n, 1, Parent(n)>> \notin Mem(stack)
  BY QuietWaits
<1>4. ASSUME adopted[n] # 0, state[n] = "pending", WaitsFor(adopted[n], Pass(n), Pass(n))
      PROVE  Follows(n, adopted[n])
  <2>1. TypeInv /\ Promises \subseteq Nat \ {0} /\ made \in Nat /\ 1 .. made \subseteq Promises
    BY TypeFacts DEF Inv
  <2>2. n \in Promises /\ adopted[n] \in Promises
    <3>1. n \in Promises /\ adopted[n] \in 0 .. made
      BY <2>1 DEF TypeInv
    <3>2. adopted[n] \in 1 .. made
      BY <1>4, <2>1, <3>1
    <3> QED BY <2>1, <3>1, <3>2
  <2>3. state[adopted[n]] = "pending"
    BY <1>4, QuietWaits
  <2>4. value[n] = None /\ value[adopted[n]] = None
    BY <1>4, <2>1, <2>2, <2>3 DEF TypeInv
  <2> QED BY <1>4, <2>3, <2>4 DEF Follows
<1> QED BY <1>1, <1>2, <1>3, <1>4 DEF HandlerFate, ParentHandled

LEMMA AllOutcome ==
    ASSUME Inv, Quiet, NEW n \in 1 .. made, origin[n].op = "all", Counted(n), AllFate(n), NEW ps, ps = origin[n].from
    PROVE  \/ \E i \in 1 .. 2 : state[ps[i]] = "rejected" /\ Follows(n, ps[i])
           \/ /\ \A i \in 1 .. 2 : state[ps[i]] = "fulfilled"
              /\ state[n] = "fulfilled" /\ value[n] = [i \in 1 .. 2 |-> value[ps[i]]]
           \/ /\ \A i \in 1 .. 2 : state[ps[i]] # "rejected"
              /\ \E i \in 1 .. 2 : state[ps[i]] = "pending"
              /\ state[n] = "pending"
<1>1. 1 .. 2 = {1, 2} /\ n \in Promises
  BY TypeFacts DEF Inv
<1>2. \A i \in {1, 2} : Filled(n, i) <=> state[ps[i]] = "fulfilled"
  BY QuietWaits DEF Filled
<1>3. \A i \in {1, 2} : Awaited(n, i) => state[ps[i]] = "pending" \/ state[n] # "pending"
  BY QuietWaits DEF Awaited
<1>4. results[n].size = 0 <=> Filled(n, 1) /\ Filled(n, 2)
  BY DEF Counted
<1>5. CASE state[n] = "pending"
  <2>1. \A i \in {1, 2} : state[ps[i]] \in {"fulfilled", "pending"}
    BY <1>2, <1>3, <1>5 DEF Counted
  <2>2. \E i \in {1, 2} : ~Filled(n, i)
    BY <1>4, <1>5 DEF Counted
  <2>3. \E i \in {1, 2} : state[ps[i]] = "pending"
    BY <1>2, <2>1, <2>2
  <2> QED BY <1>1, <1>5, <2>1, <2>3
<1>6. CASE \E i \in {1, 2} : state[ps[i]] = "rejected" /\ Follows(n, ps[i])
  BY <1>1, <1>6
<1>7. CASE state[n] = "fulfilled" /\ results[n].size = 0 /\ value[n] = results[n].got
  <2>1. \A i \in {1, 2} : state[ps[i]] = "fulfilled" /\ results[n].got[i] = value[ps[i]]
    BY <1>2, <1>4, <1>7 DEF Counted
  <2>2. results[n].got = <<results[n].got[1], results[n].got[2]>>
    BY <1>1 DEF Inv, TypeInv, ResultTypes
  <2>3. <<value[ps[1]], value[ps[2]]>> = [i \in 1 .. 2 |-> value[ps[i]]]
    BY <1>1
  <2>4. value[n] = [i \in 1 .. 2 |-> value[ps[i]]]
    BY <1>7, <2>1, <2>2, <2>3
  <2> QED BY <1>1, <1>7, <2>1, <2>4
<1> QED BY <1>5, <1>6, <1>7 DEF AllFate

LEMMA RaceOutcome ==
    ASSUME Quiet, NEW n, RaceFate(n), NEW ps, ps = origin[n].from
    PROVE  \/ \E i \in 1 .. 2 : state[ps[i]] # "pending" /\ Follows(n, ps[i])
           \/ \A i \in {n, ps[1], ps[2]} : state[i] = "pending"
<1>1. 1 .. 2 = {1, 2}
  OBVIOUS
<1>2. \A p, f, g : WaitsFor(p, f, g) => state[p] = "pending"
  BY QuietWaits
<1> QED BY <1>1, <1>2 DEF RaceFate

(* Once the calls in progress have returned, every promise that the user   *)
(* did not settle has the outcome that the operation which made it         *)
(* promises: no promise of then, fail, all or race is left behind.         *)
THEOREM OutcomesPassOn == Spec => []Outcomes
<1>1. Inv => Outcomes
  <2> SUFFICES ASSUME Inv, Quiet, NEW n \in (1 .. made) \ forced
               PROVE  CASE origin[n].op = "new" -> state[n] = "pending"
                        [] Handled(n) ->
                              IF state[Parent(n)] = "pending" THEN state[n] = "pending"
                              ELSE IF ~Handles(n, state[Parent(n)]) THEN Follows(n, Parent(n))
                              ELSE IF adopted[n] # 0 THEN Follows(n, adopted[n])
                              ELSE state[n] = state[Parent(n)] /\ value[n] = <<n>>
                        [] origin[n].op = "all" ->
                              LET ps == origin[n].from IN
                              \/ \E i \in 1 .. 2 : state[ps[i]] = "rejected" /\ Follows(n, ps[i])
                              \/ /\ \A i \in 1 .. 2 : state[ps[i]] = "fulfilled"
                                 /\ state[n] = "fulfilled" /\ value[n] = [i \in 1 .. 2 |-> value[ps[i]]]
                              \/ /\ \A i \in 1 .. 2 : state[ps[i]] # "rejected"
                                 /\ \E i \in 1 .. 2 : state[ps[i]] = "pending"
                                 /\ state[n] = "pending"
                        [] origin[n].op = "race" ->
                              LET ps == origin[n].from IN
                              \/ \E i \in 1 .. 2 : state[ps[i]] # "pending" /\ Follows(n, ps[i])
                              \/ \A i \in {n, ps[1], ps[2]} : state[i] = "pending"
    BY DEF Outcomes
  <2>1. Fate(n) /\ (origin[n].op = "all" => Counted(n))
    BY DEF Inv, FateInv
  <2>2. origin[n].op \in Operations
    BY TypeFacts, OriginFacts DEF Inv
  <2>3. CASE origin[n].op = "new"
    BY <2>1, <2>3 DEF Fate, Handled
  <2>4. CASE Handled(n)
    <3>1. HandlerFate(n) /\ origin[n].op \notin {"new", "all", "race"}
      BY <2>1, <2>4 DEF Fate, Handled
    <3> QED BY <2>4, <3>1, HandlerOutcome
  <2>5. CASE origin[n].op = "all"
    <3>1. AllFate(n) /\ Counted(n) /\ ~Handled(n)
      BY <2>1, <2>5 DEF Fate, Handled
    <3> QED BY <2>5, <3>1, AllOutcome
  <2>6. CASE origin[n].op = "race"
    <3>1. RaceFate(n) /\ ~Handled(n)
      BY <2>1, <2>6 DEF Fate, Handled
    <3> QED BY <2>6, <3>1, RaceOutcome
  <2> QED BY <2>2, <2>3, <2>4, <2>5, <2>6 DEF Operations, Handled
<1> QED BY Invariance, <1>1, PTL

(* A promise is settled once: a second resolve() or reject() changes       *)
(* nothing, whoever makes it.                                              *)
THEOREM NeverSettledAgain == Spec => SettledOnce
<1>1. ASSUME Inv, [Next]_vars
      PROVE  [\A p \in Promises : state[p] # "pending" => state'[p] = state[p] /\ value'[p] = value[p]]_vars
  <2> SUFFICES SettledStay
    BY DEF SettledStay
  <2>1. TypeInv /\ MachineTypes
    BY <1>1, TypeFacts DEF Inv
  <2>2. ASSUME NEW p, NEW s, NEW v, NEW rest, Settle(p, s, v, rest)
        PROVE  SettledStay
    BY <2>1, <2>2 DEF Settle, SettledStay, MachineTypes
  <2>3. ASSUME UNCHANGED <<state, value>>
        PROVE  SettledStay
    BY <2>3 DEF SettledStay
  <2>4. ASSUME NEW op, NEW ps, Make(op, ps)
        PROVE  UNCHANGED <<state, value>>
    BY <2>4 DEF Make
  <2>5. ASSUME NEW p, then(p) \/ then2(p) \/ fail(p) \/ all(p) \/ race(p)
        PROVE  SettledStay
    BY <2>3, <2>4, <2>5 DEF then, then2, fail, all, race
  <2>6. ASSUME NEW p, resolve(p) \/ reject(p)
        PROVE  SettledStay
    BY <2>2, <2>6 DEF resolve, reject, UserSettles
  <2>7. CASE CallHandler
    BY <2>3, <2>7 DEF CallHandler
  <2>8. CASE PassOn
    BY <2>2, <2>8 DEF PassOn
  <2>9. CASE FillSlot
    <3>1. SettledStay \/ UNCHANGED <<state, value>>
      BY <2>2, <2>9 DEF FillSlot
    <3> QED BY <2>3, <3>1
  <2>10. CASE Return
    BY <2>2, <2>10 DEF Return
  <2>11. ASSUME NEW q, ReturnPromise(q)
         PROVE  SettledStay
    BY <2>3, <2>11 DEF ReturnPromise
  <2>12. CASE UNCHANGED vars
    BY <2>3, <2>12 DEF vars
  <2> QED BY <1>1, <2>5, <2>6, <2>7, <2>8, <2>9, <2>10, <2>11, <2>12 DEF Next
<1> QED BY Invariance, <1>1, PTL DEF Spec, SettledOnce

=============================================================================
