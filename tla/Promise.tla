------------------------------- MODULE Promise -------------------------------
(***************************************************************************)
(* The promises that every asynchronous operation of a replica is built    *)
(* from (promise.hpp, without CPPROMISE_USE_STACK_FREE): then, fail, all,  *)
(* race, resolve and reject.                                               *)
(*                                                                         *)
(* Callbacks run nested, depth first, inside the call that settles a       *)
(* promise.  stack holds what is left of the calls in progress; the user's *)
(* code acts at top level or in a handler, so it may register on, or       *)
(* settle, any promise while callbacks of that promise are running.        *)
(***************************************************************************)
EXTENDS Naturals, Sequences

CONSTANTS
    Roots,          \* how many promises the user constructs, all at the start
    MaxPromise      \* how many promises are made, with those of the operations

ASSUME BoundAssumption == Roots \in Nat /\ MaxPromise \in Nat /\ Roots <= MaxPromise

Promises == 1 .. MaxPromise

VARIABLES
    made,                 \* the number of promises: the next one is made + 1
    state,                \* state[p]: pending, fulfilled or rejected
    value,                \* value[p]: its result or reason
    fulfilled_callbacks,  \* fulfilled_callbacks[p], rejected_callbacks[p]:
    rejected_callbacks,   \* what to do to which promise
    results,              \* results[n]: of all(), how many are missing, and the others
    stack,                \* <<what, to, idx, p>>: calls in progress, innermost first
    (* Recorded for the properties. *)
    origin,               \* origin[n]: the operation that made n
    calls,                \* <<n, p's state, p's value>>: the handler calls so far
    adopted,              \* adopted[n]: the promise that n's handler returned
    forced                \* the promises that the user settled

lists == <<fulfilled_callbacks, rejected_callbacks>>
history == <<origin, calls, adopted, forced>>
vars == <<made, state, value, lists, results, stack, history>>

None == <<>>
Pair == Promises \X Promises

Init ==
    /\ made = Roots
    /\ state = [p \in Promises |-> "pending"]
    /\ value = [p \in Promises |-> None]
    /\ fulfilled_callbacks = [p \in Promises |-> <<>>]
    /\ rejected_callbacks = [p \in Promises |-> <<>>]
    /\ results = [p \in Promises |-> [size |-> 2, got |-> <<None, None>>]]
    /\ stack = <<>>
    /\ origin = [p \in Promises |-> [op |-> "new", from |-> <<>>, early |-> TRUE]]
    /\ calls = <<>>
    /\ adopted = [p \in Promises |-> 0]
    /\ forced = {}

-----------------------------------------------------------------------------
(* Callbacks: what to do, to which promise, with which index of all().     *)
Call(n) == <<"call", n, 1>>       \* run the handler that n was made for
Pass(n) == <<"pass", n, 1>>       \* settle n like the promise registered on
Slot(n, i) == <<"slot", n, i>>    \* one more result for all()

Run(cb, p) == <<cb[1], cb[2], cb[3], p>>
RunAll(cbs, p) == [i \in 1 .. Len(cbs) |-> Run(cbs[i], p)]

(* The user's code runs: no call is in progress, or a handler is.          *)
UserActs == IF stack = <<>> THEN TRUE ELSE Head(stack)[1] = "user"
Rest == Tail(stack)

(* resolve and reject: the callbacks run before the call returns.  They    *)
(* are cleared after the loop, and then only a pending promise gets more.  *)
Settle_Twice(p, s, v, rest) ==
    /\ state' = [state EXCEPT ![p] = s]
    /\ value' = [value EXCEPT ![p] = v]
    /\ stack' = RunAll(IF s = "fulfilled" THEN fulfilled_callbacks[p] ELSE rejected_callbacks[p], p) \o rest
    /\ UNCHANGED lists

Settle(p, s, v, rest) ==
    IF state[p] = "pending"
    THEN /\ state' = [state EXCEPT ![p] = s]
         /\ value' = [value EXCEPT ![p] = v]
         /\ IF s = "fulfilled"
            THEN /\ stack' = RunAll(fulfilled_callbacks[p], p) \o rest
                 /\ fulfilled_callbacks' = [fulfilled_callbacks EXCEPT ![p] = <<>>]
                 /\ UNCHANGED rejected_callbacks
            ELSE /\ stack' = RunAll(rejected_callbacks[p], p) \o rest
                 /\ rejected_callbacks' = [rejected_callbacks EXCEPT ![p] = <<>>]
                 /\ UNCHANGED fulfilled_callbacks
    ELSE stack' = rest /\ UNCHANGED <<state, value, lists>>

Register_Missed(p, f, g, rest) ==
    /\ fulfilled_callbacks' = [fulfilled_callbacks EXCEPT ![p] = Append(@, f)]
    /\ rejected_callbacks' = [rejected_callbacks EXCEPT ![p] = Append(@, g)]
    /\ stack' = rest

Register_Front(p, f, g, rest) ==
    IF state[p] = "pending"
    THEN /\ fulfilled_callbacks' = [fulfilled_callbacks EXCEPT ![p] = <<f>> \o @]
         /\ rejected_callbacks' = [rejected_callbacks EXCEPT ![p] = <<g>> \o @]
         /\ stack' = rest
    ELSE stack' = rest /\ UNCHANGED lists

(* What a promise that is registered on runs at once                       *)
Now(p, f, g) ==
    IF state[p] = "pending" THEN <<>>
    ELSE <<Run(IF state[p] = "fulfilled" THEN f ELSE g, p)>>

(* p->then(f, g): wait for p, or run f or g at once.                       *)
Register(p, f, g, rest) ==
    /\ IF state[p] = "pending"
       THEN /\ fulfilled_callbacks' = [fulfilled_callbacks EXCEPT ![p] = Append(@, f)]
            /\ rejected_callbacks' = [rejected_callbacks EXCEPT ![p] = Append(@, g)]
       ELSE UNCHANGED lists
    /\ stack' = Now(p, f, g) \o rest

(* The same for each of two promises, one after the other: no handler of   *)
(* the user is among the callbacks, so that what the first one runs does   *)
(* not depend on the second.                                               *)
RegisterBoth(ps, fs, gs, rest) ==
    LET with(cbs, p) ==
            IF state[p] # "pending" THEN <<>>
            ELSE (IF ps[1] = p THEN <<cbs[1]>> ELSE <<>>) \o (IF ps[2] = p THEN <<cbs[2]>> ELSE <<>>)
    IN /\ fulfilled_callbacks' = [p \in Promises |-> fulfilled_callbacks[p] \o with(fs, p)]
       /\ rejected_callbacks' = [p \in Promises |-> rejected_callbacks[p] \o with(gs, p)]
       /\ stack' = Now(ps[1], fs[1], gs[1]) \o Now(ps[2], fs[2], gs[2]) \o rest

(* The constructor of a promise, by operation op on the promises ps.       *)
Make(op, ps) ==
    /\ UserActs
    /\ made < MaxPromise
    /\ made' = made + 1
    /\ origin' = [origin EXCEPT ![made + 1] =
            [op |-> op, from |-> ps, early |-> \A i \in 1 .. Len(ps) : state[ps[i]] = "pending"]]
    /\ UNCHANGED <<state, value, results, calls, adopted, forced>>

(* A handler for one outcome leaves the other one to be passed on.         *)
then(p) == LET n == made + 1 IN Make("then", <<p>>) /\ Register(p, Call(n), Pass(n), stack)
then2(p) == LET n == made + 1 IN Make("then2", <<p>>) /\ Register(p, Call(n), Call(n), stack)
fail(p) == LET n == made + 1 IN Make("fail", <<p>>) /\ Register(p, Pass(n), Call(n), stack)
all(ps) == LET n == made + 1 IN
    Make("all", ps) /\ RegisterBoth(ps, <<Slot(n, 1), Slot(n, 2)>>, <<Pass(n), Pass(n)>>, stack)
race(ps) == LET n == made + 1 IN
    Make("race", ps) /\ RegisterBoth(ps, <<Pass(n), Pass(n)>>, <<Pass(n), Pass(n)>>, stack)

(* The user settles p, with a value that tells which promise it is.        *)
UserSettles(p, s) ==
    /\ UserActs
    /\ Settle(p, s, <<p>>, stack)
    /\ forced' = IF state[p] = "pending" THEN forced \cup {p} ELSE forced
    /\ UNCHANGED <<made, results, origin, calls, adopted>>

resolve(p) == UserSettles(p, "fulfilled")
reject(p) == UserSettles(p, "rejected")

-----------------------------------------------------------------------------
(* The next callback of the innermost call.                                *)
CallHandler ==
    /\ stack # <<>>
    /\ Head(stack)[1] = "call"
    /\ LET n == Head(stack)[2]
           p == Head(stack)[4]
       IN /\ stack' = <<<<"user", n, 1, p>>>> \o Rest
          /\ calls' = Append(calls, <<n, state[p], value[p]>>)
    /\ UNCHANGED <<made, state, value, lists, results, origin, adopted, forced>>

PassOn ==
    /\ stack # <<>>
    /\ Head(stack)[1] = "pass"
    /\ LET p == Head(stack)[4] IN Settle(Head(stack)[2], state[p], value[p], Rest)
    /\ UNCHANGED <<made, results, history>>

FillSlot ==
    /\ stack # <<>>
    /\ Head(stack)[1] = "slot"
    /\ LET n == Head(stack)[2]
           got == [results[n].got EXCEPT ![Head(stack)[3]] = value[Head(stack)[4]]]
       IN /\ results' = [results EXCEPT ![n] = [size |-> @.size - 1, got |-> got]]
          /\ IF results[n].size = 1
             THEN Settle(n, "fulfilled", got, Rest)
             ELSE stack' = Rest /\ UNCHANGED <<state, value, lists>>
    /\ UNCHANGED <<made, history>>

Return_Recovers ==
    /\ stack # <<>>
    /\ Head(stack)[1] = "user"
    /\ LET n == Head(stack)[2] IN Settle(n, "fulfilled", <<n>>, Rest)
    /\ UNCHANGED <<made, results, history>>

(* A handler returns: what it returns becomes the outcome of the promise   *)
(* it was registered for, on the side on which it was called.              *)
Return ==
    /\ stack # <<>>
    /\ Head(stack)[1] = "user"
    /\ LET n == Head(stack)[2] IN Settle(n, state[Head(stack)[4]], <<n>>, Rest)
    /\ UNCHANGED <<made, results, history>>

(* ... unless it returns a promise q, which n then follows.                *)
ReturnPromise(q) ==
    /\ stack # <<>>
    /\ Head(stack)[1] = "user"
    /\ q # Head(stack)[2]
    /\ LET n == Head(stack)[2]
       IN /\ Register(q, Pass(n), Pass(n), Rest)
          /\ adopted' = [adopted EXCEPT ![n] = q]
    /\ UNCHANGED <<made, state, value, results, origin, calls, forced>>

Next ==
    \/ \E p \in 1 .. made : then(p) \/ then2(p) \/ fail(p)
    \/ \E ps \in Pair : (\A i \in 1 .. 2 : ps[i] <= made) /\ (all(ps) \/ race(ps))
    \/ \E p \in 1 .. made : resolve(p) \/ reject(p)
    \/ CallHandler
    \/ PassOn
    \/ FillSlot
    \/ Return
    \/ \E q \in 1 .. made : ReturnPromise(q)

Spec == Init /\ [][Next]_vars
-----------------------------------------------------------------------------
(* Properties.                                                             *)
Tasks == {"call", "pass", "slot", "user"}

(* Type invariant: a promise that has not been made is pending and has no  *)
(* callbacks, and a settled one has none left for its outcome.             *)
TypeOK ==
    /\ made \in Roots .. MaxPromise
    /\ state \in [Promises -> {"pending", "fulfilled", "rejected"}]
    /\ \A p \in Promises : p > made => state[p] = "pending" /\ fulfilled_callbacks[p] = <<>>
    /\ \A p \in Promises : state[p] = "fulfilled" => fulfilled_callbacks[p] = <<>>
    /\ \A p \in Promises : state[p] = "rejected" => rejected_callbacks[p] = <<>>
    /\ \A i \in 1 .. Len(stack) :
        stack[i] \in Tasks \X Promises \X {1, 2} \X Promises /\ state[stack[i][4]] # "pending"
    /\ adopted \in [Promises -> 0 .. made] /\ forced \subseteq 1 .. made

Handled(n) == origin[n].op \in {"then", "then2", "fail"}
Handles(n, s) == \/ origin[n].op = "then2"
                 \/ origin[n].op = "then" /\ s = "fulfilled"
                 \/ origin[n].op = "fail" /\ s = "rejected"
Parent(n) == origin[n].from[1]
Quiet == stack = <<>>
CallsFor(n) == {i \in 1 .. Len(calls) : calls[i][1] = n}

(* Once the calls in progress have returned, a handler for the outcome of  *)
(* a settled promise has been called once, with its value, and the other   *)
(* handlers never: however registering and settling were nested in         *)
(* handlers of the same promise (then, fail, trigger_fulfill,              *)
(* trigger_reject).                                                        *)
HandlersCalled ==
    Quiet => \A n \in 1 .. made : Handled(n) =>
        LET p == Parent(n) IN
        IF state[p] # "pending" /\ Handles(n, state[p])
        THEN \E i \in CallsFor(n) : CallsFor(n) = {i} /\ calls[i] = <<n, state[p], value[p]>>
        ELSE CallsFor(n) = {}

(* The handlers that were registered on a promise before it was settled    *)
(* are called in the order of their registration (the loops of             *)
(* trigger_fulfill and trigger_reject).  One that a handler registers runs *)
(* at once, before those that are still waiting in the loop.               *)
CalledInOrder ==
    \A i, j \in 1 .. Len(calls) : LET m == calls[i][1] n == calls[j][1] IN
        (i < j /\ origin[m].early /\ origin[n].early /\ Parent(m) = Parent(n)) => m < n

Follows(n, p) == state[n] = state[p] /\ value[n] = value[p]

(* Once the calls in progress have returned, no promise is left behind: a  *)
(* promise that the user did not settle has the outcome that the           *)
(* operation that made it promises.  A handler for a rejection leaves its  *)
(* promise rejected, all() holds the values in the order of its list and   *)
(* a promise of a handler that returned a promise follows that one.        *)
Outcomes ==
    Quiet => \A n \in (1 .. made) \ forced :
        CASE origin[n].op = "new" -> state[n] = "pending"
          [] Handled(n) ->
                IF state[Parent(n)] = "pending" THEN state[n] = "pending"
                ELSE IF ~Handles(n, state[Parent(n)]) THEN Follows(n, Parent(n))
                ELSE IF adopted[n] # 0 THEN Follows(n, adopted[n])
                ELSE state[n] = state[Parent(n)] /\ value[n] = <<n>>
          [] origin[n].op = "all" ->
                LET ps == origin[n].from IN
                \/ \E i \in 1 .. 2 : state[ps[i]] = "rejected" /\ Follows(n, ps[i])
                \/ /\ \A i \in 1 .. 2 : state[ps[i]] = "fulfilled"
                   /\ state[n] = "fulfilled" /\ value[n] = [i \in 1 .. 2 |-> value[ps[i]]]
                \/ /\ \A i \in 1 .. 2 : state[ps[i]] # "rejected"
                   /\ \E i \in 1 .. 2 : state[ps[i]] = "pending"
                   /\ state[n] = "pending"
          [] origin[n].op = "race" ->
                LET ps == origin[n].from IN
                \/ \E i \in 1 .. 2 : state[ps[i]] # "pending" /\ Follows(n, ps[i])
                \/ \A i \in {n, ps[1], ps[2]} : state[i] = "pending"

(* A promise is settled once: rotate() and stop_rotate() rely on a         *)
(* rejection of a promise that is already resolved doing nothing.          *)
SettledOnce ==
    [][\A p \in Promises : state[p] # "pending" => state'[p] = state[p] /\ value'[p] = value[p]]_vars
=============================================================================
