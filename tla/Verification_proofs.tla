-------------------------- MODULE Verification_proofs --------------------------
(***************************************************************************)
(* The pool keeps its tasks alive while threads use them, and the answers  *)
(* to checks are right: for any number of workers, addresses and checks.   *)
(***************************************************************************)
EXTENDS Verification, FiniteSetTheorems, TLAPS

(* The checks that the pool is asked for.                                  *)
Pooled(j) == j \in started /\ ~AcceptedAtOnce(j) /\ ~RefusedAtOnce(j)

Bad(j) == {r \in Rids(j) \ missing[j] : ~Verifies(j, r)}

(* A task stands for a signature whose result is not in, unless it is the  *)
(* one that is being resolved; no two stand for the same.                  *)
TaskInv ==
    /\ resolving # NoAddress => pms[resolving] # NoTask
    /\ \A a \in Address : pms[a] # NoTask =>
          /\ Pooled(pms[a][1])
          /\ pms[a][2] \in Rids(pms[a][1]) \ posting[pms[a][1]]
          /\ pms[a][2] \in missing[pms[a][1]] <=> a # resolving
    /\ \A a, b \in Address : pms[a] = pms[b] /\ pms[a] # NoTask => a = b

(* A result is there when it is handed on, and is that of the task.        *)
ResultInv ==
    /\ \A a \in Address : result[a] # {} =>
          pms[a] # NoTask /\ result[a] = {Verifies(pms[a][1], pms[a][2])}
    /\ \A a \in out_queue : result[a] # {}
    /\ \A w \in finished : result[working[w]] # {}

(* What is known of a check.                                               *)
JobInv ==
    \A j \in Job :
        /\ posting[j] \subseteq missing[j] /\ missing[j] \subseteq Rids(j)
        /\ Pooled(j) => refused[j] = Bad(j)
        /\ ~Pooled(j) => missing[j] = {}
        /\ j \notin started => answer[j] = {} /\ refused[j] = {}
        /\ j \in started /\ ~Pooled(j) => answer[j] = {AcceptedAtOnce(j)}
        /\ Pooled(j) /\ answer[j] # {} =>
              missing[j] = {} /\ answer[j] = {Result(j, refused[j])}

Inv == TypeOK /\ TasksAlive /\ TaskInv /\ ResultInv /\ JobInv

-----------------------------------------------------------------------------
LEMMA InitInv == Init => Inv
<1> SUFFICES ASSUME Init PROVE Inv
  OBVIOUS
<1>1. TypeOK
  BY DEF Init, TypeOK
<1>2. TasksAlive
  BY DEF Init, TasksAlive, InWork
<1>3. TaskInv /\ ResultInv
  BY DEF Init, TaskInv, ResultInv
<1>4. JobInv
  BY DEF Init, JobInv, Pooled
<1> QED BY <1>1, <1>2, <1>3, <1>4 DEF Inv

(* A check is answered at once, or all its signatures are to be posted.    *)
LEMMA VerifyInv ==
    ASSUME Inv, NEW j \in Job, Verify(j)
    PROVE  Inv'
<1>1. /\ j \notin started /\ started' = started \cup {j}
      /\ UNCHANGED <<refused, pms, resolving, threads>>
      /\ posting[j] = {} /\ missing[j] = {} /\ refused[j] = {} /\ answer[j] = {}
  BY DEF Verify, Inv, JobInv, Pooled
<1> DEFINE atonce == AcceptedAtOnce(j) \/ RefusedAtOnce(j)
<1>2. /\ answer' = [answer EXCEPT ![j] = IF atonce THEN {AcceptedAtOnce(j)} ELSE {}]
      /\ posting' = [posting EXCEPT ![j] = IF atonce THEN {} ELSE Rids(j)]
      /\ missing' = [missing EXCEPT ![j] = IF atonce THEN {} ELSE Rids(j)]
  BY <1>1 DEF Verify, Inv, TypeOK
<1>3. Rids(j) \subseteq Replica
  BY VerificationAssumption
<1>4. TypeOK'
  <2>1. AcceptedAtOnce(j) \in BOOLEAN
    BY DEF AcceptedAtOnce
  <2>2. answer' \in [Job -> {{}, {TRUE}, {FALSE}}]
    BY <1>2, <2>1 DEF Inv, TypeOK
  <2>3. posting' \in [Job -> SUBSET Replica] /\ missing' \in [Job -> SUBSET Replica]
    BY <1>2, <1>3 DEF Inv, TypeOK
  <2> QED BY <1>1, <2>2, <2>3 DEF Inv, TypeOK, threads
<1>5. TasksAlive' /\ ResultInv'
  BY <1>1 DEF Inv, TasksAlive, InWork, ResultInv, threads
<1>6. \A i \in Job : i # j => /\ posting'[i] = posting[i] /\ missing'[i] = missing[i]
                              /\ answer'[i] = answer[i] /\ Pooled(i)' = Pooled(i)
  BY <1>1, <1>2 DEF Inv, TypeOK, Pooled, AcceptedAtOnce, RefusedAtOnce
<1>7. TaskInv'
  <2>1. \A a \in Address : pms[a] # NoTask => pms[a][1] # j /\ pms[a][1] \in Job
    BY <1>1 DEF Inv, TypeOK, TaskInv, Pooled
  <2> QED BY <1>1, <1>6, <2>1 DEF Inv, TaskInv
<1>8. JobInv'
  <2> SUFFICES ASSUME NEW i \in Job
               PROVE  /\ posting'[i] \subseteq missing'[i] /\ missing'[i] \subseteq Rids(i)
                      /\ Pooled(i)' => refused'[i] = Bad(i)'
                      /\ ~Pooled(i)' => missing'[i] = {}
                      /\ i \notin started' => answer'[i] = {} /\ refused'[i] = {}
                      /\ i \in started' /\ ~Pooled(i)' => answer'[i] = {AcceptedAtOnce(i)}
                      /\ Pooled(i)' /\ answer'[i] # {} =>
                            missing'[i] = {} /\ answer'[i] = {Result(i, refused'[i])}
    BY DEF JobInv, AcceptedAtOnce, Result
  <2>1. CASE i # j
    BY <1>1, <1>6, <2>1 DEF Inv, JobInv, Bad
  <2>2. CASE i = j /\ atonce
    <3>1. /\ posting'[i] = {} /\ missing'[i] = {} /\ answer'[i] = {AcceptedAtOnce(i)}
          /\ ~Pooled(i)' /\ i \in started'
      BY <1>1, <1>2, <2>2 DEF Inv, TypeOK, Pooled, AcceptedAtOnce, RefusedAtOnce
    <3> QED BY <3>1
  <2>3. CASE i = j /\ ~atonce
    <3>1. /\ posting'[i] = Rids(i) /\ missing'[i] = Rids(i) /\ answer'[i] = {}
          /\ Pooled(i)' /\ i \in started' /\ refused'[i] = {}
      BY <1>1, <1>2, <2>3 DEF Inv, TypeOK, Pooled, AcceptedAtOnce, RefusedAtOnce
    <3> QED BY <3>1 DEF Bad
  <2> QED BY <2>1, <2>2, <2>3
<1> QED BY <1>4, <1>5, <1>7, <1>8 DEF Inv

(* VeriPool::verify puts the task at an address that nobody refers to.     *)
LEMMA PostInv ==
    ASSUME Inv, NEW j \in Job, NEW r \in Replica, NEW a \in Address, Post(j, r, a)
    PROVE  Inv'
<1>1. /\ r \in posting[j] /\ pms[a] = NoTask
      /\ pms' = [pms EXCEPT ![a] = <<j, r>>]
      /\ posting' = [posting EXCEPT ![j] = @ \ {r}]
      /\ in_queue' = in_queue \cup {a}
      /\ UNCHANGED <<started, missing, refused, answer, resolving, out_queue, result,
                     working, finished>>
  BY DEF Post
<1>2. /\ r \in missing[j] /\ r \in Rids(j) /\ Pooled(j)
      /\ <<j, r>> # NoTask /\ a \notin in_queue \cup out_queue \cup InWork /\ a # resolving
      /\ result[a] = {}
  BY <1>1, VerificationAssumption DEF Inv, JobInv, TasksAlive, TaskInv, ResultInv
<1>3. /\ pms'[a] = <<j, r>> /\ \A b \in Address : b # a => pms'[b] = pms[b]
      /\ posting'[j] = posting[j] \ {r} /\ \A i \in Job : i # j => posting'[i] = posting[i]
  BY <1>1 DEF Inv, TypeOK
<1>4. TypeOK'
  BY <1>1 DEF Inv, TypeOK
<1>5. TasksAlive'
  BY <1>1, <1>2, <1>3 DEF Inv, TypeOK, TasksAlive, InWork
<1>6. \A i : Pooled(i)' = Pooled(i)
  BY <1>1 DEF Pooled, AcceptedAtOnce, RefusedAtOnce
<1>7. TaskInv'
  <2>1. \A b \in Address : b # a /\ pms[b] # NoTask =>
            pms[b] # <<j, r>> /\ pms[b][1] \in Job
    BY <1>1 DEF Inv, TypeOK, TaskInv
  <2>2. \A b \in Address : pms'[b] # NoTask =>
          /\ Pooled(pms'[b][1])
          /\ pms'[b][2] \in Rids(pms'[b][1]) \ posting'[pms'[b][1]]
          /\ pms'[b][2] \in missing[pms'[b][1]] <=> b # resolving
    <3> SUFFICES ASSUME NEW b \in Address, pms'[b] # NoTask
                 PROVE  /\ Pooled(pms'[b][1])
                        /\ pms'[b][2] \in Rids(pms'[b][1]) \ posting'[pms'[b][1]]
                        /\ pms'[b][2] \in missing[pms'[b][1]] <=> b # resolving
      OBVIOUS
    <3>1. CASE b = a
      BY <1>2, <1>3, <3>1
    <3>2. CASE b # a
      BY <1>3, <2>1, <3>2 DEF Inv, TaskInv
    <3> QED BY <3>1, <3>2
  <2>3. \A b, c \in Address : pms'[b] = pms'[c] /\ pms'[b] # NoTask => b = c
    BY <1>3, <2>1 DEF Inv, TaskInv
  <2>4. resolving # NoAddress => pms'[resolving] # NoTask
    BY <1>2, <1>3 DEF Inv, TaskInv, TypeOK
  <2> QED BY <1>1, <1>6, <2>2, <2>3, <2>4 DEF TaskInv
<1>8. ResultInv'
  BY <1>1, <1>2, <1>3 DEF Inv, ResultInv, Verifies
<1>9. JobInv'
  BY <1>1, <1>3, <1>6 DEF Inv, JobInv, Bad
<1> QED BY <1>4, <1>5, <1>7, <1>8, <1>9 DEF Inv

(* A step of a worker leaves the event loop alone.                         *)
LEMMA LoopUnchanged ==
    ASSUME Inv, UNCHANGED loop
    PROVE  TaskInv' /\ JobInv'
<1>1. /\ UNCHANGED <<started, posting, missing, refused, answer, pms, resolving>>
      /\ \A j : Pooled(j)' = Pooled(j) /\ Bad(j)' = Bad(j)
  BY DEF loop, Pooled, AcceptedAtOnce, RefusedAtOnce, Bad
<1>2. TaskInv'
  BY <1>1 DEF Inv, TaskInv
<1>3. JobInv'
  BY <1>1 DEF Inv, JobInv
<1> QED BY <1>2, <1>3

(* A worker takes a task out of in_queue: it was nowhere else.             *)
LEMMA TakeInv ==
    ASSUME Inv, NEW w \in Worker, NEW a \in Address, Take(w, a)
    PROVE  Inv'
<1>1. /\ working[w] = NoAddress /\ a \in in_queue /\ in_queue' = in_queue \ {a}
      /\ working' = [working EXCEPT ![w] = a]
      /\ UNCHANGED <<loop, out_queue, result, finished>>
  BY DEF Take
<1>2. working'[w] = a /\ \A v \in Worker : v # w => working'[v] = working[v]
  BY <1>1 DEF Inv, TypeOK
<1>3. a # NoAddress /\ w \notin finished
  BY <1>1, VerificationAssumption DEF Inv, TypeOK
<1>4. TypeOK'
  BY <1>1, <1>2, <1>3 DEF Inv, TypeOK, loop
<1>5. InWork' = InWork \cup {a} /\ a \notin InWork
  BY <1>1, <1>2, <1>3 DEF Inv, TasksAlive, InWork
<1>6. TasksAlive'
  <2>1. \A v \in Worker : working[v] # a
    BY <1>3, <1>5 DEF InWork
  <2> QED BY <1>1, <1>2, <1>5, <2>1 DEF Inv, TasksAlive, loop
<1>7. ResultInv'
  BY <1>1, <1>2, <1>3 DEF Inv, ResultInv, loop
<1> QED BY <1>1, <1>4, <1>6, <1>7, LoopUnchanged DEF Inv

(* A worker writes the result of its task, which is still alive.           *)
LEMMA ComputeInv ==
    ASSUME Inv, NEW w \in Worker, Compute(w)
    PROVE  Inv'
<1> DEFINE a == working[w]
           good == Verifies(pms[a][1], pms[a][2])
<1>1. /\ a # NoAddress /\ w \notin finished
      /\ result' = [result EXCEPT ![a] = {good}] /\ finished' = finished \cup {w}
      /\ UNCHANGED <<loop, in_queue, out_queue, working>>
  BY DEF Compute
<1>2. a \in Address /\ pms[a] # NoTask
  BY <1>1 DEF Inv, TypeOK, TasksAlive, InWork
<1>3. {good} \in {{}, {TRUE}, {FALSE}}
  BY DEF Verifies
<1>4. TypeOK'
  BY <1>1, <1>2, <1>3 DEF Inv, TypeOK, loop
<1>5. TasksAlive'
  BY <1>1 DEF Inv, TasksAlive, InWork, loop
<1>6. result'[a] = {good} /\ \A b \in Address : b # a => result'[b] = result[b]
  BY <1>1, <1>2 DEF Inv, TypeOK
<1>7. ResultInv'
  <2>1. \A b \in Address : result'[b] # {} =>
            pms[b] # NoTask /\ result'[b] = {Verifies(pms[b][1], pms[b][2])}
    BY <1>2, <1>6 DEF Inv, ResultInv
  <2>2. \A b \in Address : result[b] # {} => result'[b] # {}
    BY <1>6
  <2>3. out_queue \subseteq Address /\ \A v \in finished : working[v] \in Address
    BY DEF Inv, TypeOK
  <2>4. \A b \in out_queue : result'[b] # {}
    BY <2>2, <2>3 DEF Inv, ResultInv
  <2>5. \A v \in finished' : result'[working[v]] # {}
    BY <1>1, <1>6, <2>2, <2>3 DEF Inv, ResultInv
  <2> QED BY <1>1, <2>1, <2>4, <2>5 DEF ResultInv, loop, Verifies
<1> QED BY <1>1, <1>4, <1>5, <1>7, LoopUnchanged DEF Inv

(* A worker that has written the result hands its task on.                 *)
LEMMA HandOnInv ==
    ASSUME Inv, NEW w \in Worker, HandOn(w)
    PROVE  Inv'
<1> DEFINE a == working[w]
<1>1. /\ w \in finished /\ out_queue' = out_queue \cup {a}
      /\ working' = [working EXCEPT ![w] = NoAddress] /\ finished' = finished \ {w}
      /\ UNCHANGED <<loop, in_queue, result>>
  BY DEF HandOn
<1>2. a \in Address /\ a # NoAddress /\ a \in InWork /\ result[a] # {}
  BY <1>1 DEF Inv, TypeOK, InWork, ResultInv
<1>3. working'[w] = NoAddress /\ \A v \in Worker : v # w => working'[v] = working[v]
  BY <1>1 DEF Inv, TypeOK
<1>4. TypeOK'
  BY <1>1, <1>2, <1>3 DEF Inv, TypeOK, loop
<1>5. InWork' = InWork \ {a}
  <2>1. \A v \in Worker : v # w => working[v] # a
    BY <1>2 DEF Inv, TasksAlive
  <2> QED BY <1>3, <2>1 DEF InWork
<1>6. TasksAlive'
  BY <1>1, <1>2, <1>3, <1>5 DEF Inv, TasksAlive, loop
<1>7. ResultInv'
  <2>1. \A v \in finished' : v \in finished /\ v # w /\ v \in Worker
    BY <1>1 DEF Inv, TypeOK
  <2> QED BY <1>1, <1>2, <1>3, <2>1 DEF Inv, ResultInv, loop
<1> QED BY <1>1, <1>4, <1>6, <1>7, LoopUnchanged DEF Inv

(* The event loop reads a result that is there: the last one of a check    *)
(* answers it.                                                             *)
LEMMA ResolveInv ==
    ASSUME Inv, NEW a \in Address, Resolve(a)
    PROVE  Inv'
<1> DEFINE j == pms[a][1]
           r == pms[a][2]
           good == Verifies(j, r)
           bad == IF good THEN refused[j] ELSE refused[j] \cup {r}
<1>1. /\ resolving = NoAddress /\ a \in out_queue /\ out_queue' = out_queue \ {a}
      /\ resolving' = a
      /\ UNCHANGED <<started, posting, pms, in_queue, result, working, finished>>
  BY DEF Resolve
<1>2. result[a] = {good} /\ pms[a] # NoTask
  BY <1>1 DEF Inv, ResultInv
<1>3. /\ missing' = [missing EXCEPT ![j] = @ \ {r}]
      /\ refused' = [refused EXCEPT ![j] = bad]
      /\ answer' = IF missing[j] = {r} THEN [answer EXCEPT ![j] = {Result(j, bad)}] ELSE answer
  <2>1. result[a] # {}
    BY <1>2
  <2>2. PICK read \in result[a] :
            /\ missing' = [missing EXCEPT ![j] = @ \ {r}]
            /\ refused' = [refused EXCEPT ![j] = IF read THEN refused[j] ELSE refused[j] \cup {r}]
            /\ answer' = IF missing[j] = {r}
                         THEN [answer EXCEPT ![j] =
                                 {Result(j, IF read THEN refused[j] ELSE refused[j] \cup {r})}]
                         ELSE answer
    BY <2>1 DEF Resolve
  <2>3. read = good
    BY <1>2, <2>2
  <2> QED BY <2>2, <2>3
<1>4. /\ j \in Job /\ r \in Replica /\ pms[a] = <<j, r>> /\ Pooled(j)
      /\ r \in missing[j] /\ r \in Rids(j) /\ r \notin posting[j]
      /\ refused[j] = Bad(j) /\ answer[j] = {}
  <2>1. pms[a] \in Job \X Replica
    BY <1>2 DEF Inv, TypeOK
  <2>2. a # resolving
    BY <1>1, VerificationAssumption
  <2>3. /\ Pooled(j) /\ r \in Rids(j) \ posting[j] /\ r \in missing[j]
    BY <1>2, <2>2 DEF Inv, TaskInv
  <2> QED BY <2>1, <2>3 DEF Inv, JobInv
<1>5. /\ missing'[j] = missing[j] \ {r} /\ refused'[j] = bad
      /\ answer'[j] = IF missing[j] = {r} THEN {Result(j, bad)} ELSE {}
      /\ \A i \in Job : i # j => /\ missing'[i] = missing[i] /\ refused'[i] = refused[i]
                              /\ answer'[i] = answer[i]
  BY <1>3, <1>4 DEF Inv, TypeOK
<1>6. TypeOK'
  <2>1. {Result(j, bad)} \in {{}, {TRUE}, {FALSE}}
    BY DEF Result
  <2>2. answer' \in [Job -> {{}, {TRUE}, {FALSE}}]
    BY <1>3, <1>4, <2>1 DEF Inv, TypeOK
  <2>3. missing' \in [Job -> SUBSET Replica] /\ refused' \in [Job -> SUBSET Replica]
    BY <1>3, <1>4 DEF Inv, TypeOK
  <2> QED BY <1>1, <2>2, <2>3 DEF Inv, TypeOK
<1>7. TasksAlive'
  BY <1>1 DEF Inv, TasksAlive, InWork
<1>8. \A i : Pooled(i)' = Pooled(i)
  BY <1>1 DEF Pooled, AcceptedAtOnce, RefusedAtOnce
<1>9. TaskInv'
  <2>1. \A b \in Address : pms[b] # NoTask /\ b # a =>
            /\ pms[b] # pms[a] /\ pms[b] = <<pms[b][1], pms[b][2]>> /\ pms[b][1] \in Job
            /\ b # resolving
    BY <1>1, <1>4, VerificationAssumption DEF Inv, TypeOK, TaskInv
  <2>2. ASSUME NEW b \in Address, pms[b] # NoTask
        PROVE  pms[b][2] \in missing'[pms[b][1]] <=> b # a
    <3>1. CASE b = a
      BY <1>5, <3>1
    <3>2. CASE b # a
      <4>1. pms[b][2] \in missing[pms[b][1]]
        BY <2>1, <2>2, <3>2 DEF Inv, TaskInv
      <4>2. pms[b][1] # j \/ pms[b][2] # r
        BY <1>4, <2>1, <2>2, <3>2
      <4> QED BY <1>5, <2>1, <2>2, <3>2, <4>1, <4>2
    <3> QED BY <3>1, <3>2
  <2> QED BY <1>1, <1>2, <1>8, <2>2 DEF Inv, TaskInv
<1>10. ResultInv'
  BY <1>1 DEF Inv, ResultInv, Verifies
<1>11. JobInv'
  <2> SUFFICES ASSUME NEW i \in Job
               PROVE  /\ posting'[i] \subseteq missing'[i] /\ missing'[i] \subseteq Rids(i)
                      /\ Pooled(i)' => refused'[i] = Bad(i)'
                      /\ ~Pooled(i)' => missing'[i] = {}
                      /\ i \notin started' => answer'[i] = {} /\ refused'[i] = {}
                      /\ i \in started' /\ ~Pooled(i)' => answer'[i] = {AcceptedAtOnce(i)}
                      /\ Pooled(i)' /\ answer'[i] # {} =>
                            missing'[i] = {} /\ answer'[i] = {Result(i, refused'[i])}
    BY DEF JobInv, AcceptedAtOnce, Result
  <2>1. CASE i # j
    BY <1>1, <1>5, <1>8, <2>1 DEF Inv, JobInv, Bad
  <2>2. CASE i = j
    <3>1. refused'[i] = Bad(i)'
      <4>1. Bad(i)' = {s \in Rids(i) \ (missing[i] \ {r}) : ~Verifies(i, s)}
        BY <1>5, <2>2 DEF Bad
      <4>2. refused[i] = {s \in Rids(i) \ missing[i] : ~Verifies(i, s)}
        BY <1>4, <2>2 DEF Bad
      <4>3. r \in missing[i] /\ r \in Rids(i) /\ good = Verifies(i, r)
        BY <1>4, <2>2
      <4>4. refused'[i] = IF Verifies(i, r) THEN refused[i] ELSE refused[i] \cup {r}
        BY <1>5, <2>2
      <4> HIDE DEF r, good, bad
      <4>5. CASE Verifies(i, r)
        BY <4>1, <4>2, <4>3, <4>4, <4>5
      <4>6. CASE ~Verifies(i, r)
        BY <4>1, <4>2, <4>3, <4>4, <4>6
      <4> QED BY <4>5, <4>6
    <3>2. posting'[i] \subseteq missing'[i] /\ missing'[i] \subseteq Rids(i)
      BY <1>1, <1>4, <1>5, <2>2 DEF Inv, JobInv
    <3>3. i \in started' /\ Pooled(i)'
      BY <1>1, <1>4, <1>8, <2>2 DEF Pooled
    <3>4. answer'[i] # {} => missing'[i] = {} /\ answer'[i] = {Result(i, refused'[i])}
      BY <1>5, <2>2
    <3> QED BY <3>1, <3>2, <3>3, <3>4
  <2> QED BY <2>1, <2>2
<1> QED BY <1>6, <1>7, <1>9, <1>10, <1>11 DEF Inv

(* The task that has been resolved is freed: no thread refers to it.       *)
LEMMA EraseInv ==
    ASSUME Inv, Erase
    PROVE  Inv'
<1> DEFINE a == resolving
<1>1. /\ a # NoAddress
      /\ pms' = [pms EXCEPT ![a] = NoTask] /\ result' = [result EXCEPT ![a] = {}]
      /\ resolving' = NoAddress
      /\ UNCHANGED <<started, posting, missing, refused, answer, in_queue, out_queue, working,
                     finished>>
  BY DEF Erase
<1>2. a \in Address /\ a \notin in_queue \cup out_queue \cup InWork
  BY <1>1 DEF Inv, TypeOK, TasksAlive
<1>3. /\ pms'[a] = NoTask /\ result'[a] = {}
      /\ \A b \in Address : b # a => pms'[b] = pms[b] /\ result'[b] = result[b]
  BY <1>1, <1>2 DEF Inv, TypeOK
<1>4. TypeOK'
  BY <1>1, <1>2 DEF Inv, TypeOK
<1>5. /\ in_queue \cup out_queue \cup InWork \subseteq Address /\ NoAddress \notin Address
  BY VerificationAssumption DEF Inv, TypeOK, InWork
<1>6. TasksAlive'
  <2>1. InWork' = InWork
    BY <1>1 DEF InWork
  <2> QED BY <1>1, <1>2, <1>3, <1>5, <2>1 DEF Inv, TasksAlive
<1>7. \A i : Pooled(i)' = Pooled(i) /\ Bad(i)' = Bad(i)
  BY <1>1 DEF Pooled, AcceptedAtOnce, RefusedAtOnce, Bad
<1>8. TaskInv'
  BY <1>1, <1>3, <1>5, <1>7 DEF Inv, TaskInv
<1>9. ResultInv'
  <2>1. \A w \in finished : working[w] \in Address /\ working[w] # a
    BY <1>2 DEF Inv, TypeOK, InWork
  <2>2. \A b \in Address : result'[b] # {} =>
            pms'[b] # NoTask /\ result'[b] = {Verifies(pms'[b][1], pms'[b][2])}
    <3> SUFFICES ASSUME NEW b \in Address, result'[b] # {}
                 PROVE  pms'[b] # NoTask /\ result'[b] = {Verifies(pms'[b][1], pms'[b][2])}
      OBVIOUS
    <3>1. b # a /\ pms'[b] = pms[b] /\ result'[b] = result[b]
      BY <1>3
    <3> QED BY <3>1 DEF Inv, ResultInv
  <2>3. \A b \in out_queue' : result'[b] # {}
    BY <1>1, <1>2, <1>3, <1>5 DEF Inv, ResultInv
  <2>4. \A w \in finished' : result'[working'[w]] # {}
    BY <1>1, <1>3, <2>1 DEF Inv, ResultInv
  <2> QED BY <2>2, <2>3, <2>4 DEF ResultInv, Verifies
<1>10. JobInv'
  BY <1>1, <1>7 DEF Inv, JobInv
<1> QED BY <1>4, <1>6, <1>8, <1>9, <1>10 DEF Inv

-----------------------------------------------------------------------------
(* The results.                                                            *)

LEMMA NextInv == Inv /\ [Next]_vars => Inv'
<1> SUFFICES ASSUME Inv, [Next]_vars PROVE Inv'
  OBVIOUS
<1>1. CASE UNCHANGED vars
  <2>1. UNCHANGED loop /\ UNCHANGED threads
    BY <1>1 DEF vars
  <2>2. TaskInv' /\ JobInv'
    BY <2>1, LoopUnchanged
  <2>3. TypeOK'
    BY <2>1 DEF Inv, TypeOK, loop, threads
  <2>4. TasksAlive'
    BY <2>1 DEF Inv, TasksAlive, InWork, loop, threads
  <2>5. ResultInv'
    BY <2>1 DEF Inv, ResultInv, Verifies, loop, threads
  <2> QED BY <2>2, <2>3, <2>4, <2>5 DEF Inv
<1>2. CASE Next
  BY <1>2, VerifyInv, PostInv, ResolveInv, EraseInv, TakeInv, ComputeInv, HandOnInv
     DEF Next, EventLoop, WorkerStep
<1> QED BY <1>1, <1>2

LEMMA Invariance == Spec => []Inv
BY InitInv, NextInv, PTL DEF Spec

(* Types, and: no task is freed or shared while a thread or a queue of the *)
(* pool refers to it.                                                      *)
THEOREM TasksStayAlive == Spec => [](TypeOK /\ TasksAlive)
<1>1. Inv => TypeOK /\ TasksAlive
  BY DEF Inv
<1> QED BY <1>1, Invariance, PTL

(* The answer to a check is that of the invariant when all is in.          *)
LEMMA AnswersAreValid == Inv => AnswersRight
<1> SUFFICES ASSUME Inv, NEW j \in Job, answer[j] # {} PROVE answer[j] = {Valid(j)}
  BY DEF AnswersRight
<1>1. j \in started
  BY DEF Inv, JobInv
<1>2. CASE ~Pooled(j)
  <2>1. answer[j] = {AcceptedAtOnce(j)}
    BY <1>1, <1>2 DEF Inv, JobInv
  <2>2. Cardinality(Rids(j)) \in Nat /\ nmajority \in Nat
    BY VerificationAssumption, FS_Subset, FS_CardinalityType
  <2>3. CASE AcceptedAtOnce(j)
    BY <2>1, <2>3 DEF AcceptedAtOnce, Valid
  <2>4. CASE RefusedAtOnce(j)
    <3>1. ~AcceptedAtOnce(j) /\ ~Valid(j)
      BY <2>2, <2>4 DEF AcceptedAtOnce, RefusedAtOnce, Valid
    <3> QED BY <2>1, <3>1 DEF AcceptedAtOnce, Valid
  <2> QED BY <1>1, <1>2, <2>3, <2>4 DEF Pooled
<1>3. CASE Pooled(j)
  <2>1. /\ missing[j] = {} /\ answer[j] = {Result(j, refused[j])} /\ refused[j] = Bad(j)
        /\ ~AcceptedAtOnce(j) /\ ~RefusedAtOnce(j)
    BY <1>3 DEF Inv, JobInv, Pooled
  <2>2. Cardinality(Rids(j)) \in Nat /\ nmajority \in Nat
    BY VerificationAssumption, FS_Subset, FS_CardinalityType
  <2>3. refused[j] = {} <=> \A r \in Rids(j) : Verifies(j, r)
    BY <2>1 DEF Bad
  <2>4. j \notin Votes => ObjHash[j] # b0 /\ Cardinality(Rids(j)) >= nmajority
    BY <2>1, <2>2 DEF AcceptedAtOnce, RefusedAtOnce
  <2>5. Result(j, refused[j]) = Valid(j)
    BY <2>3, <2>4 DEF Result, Valid
  <2> QED BY <2>1, <2>5
<1> QED BY <1>2, <1>3

(* A check is answered with whether the certificate or vote is valid, in   *)
(* whatever order the workers hand its results on.                         *)
THEOREM AnswersAreRight == Spec => []AnswersRight
BY AnswersAreValid, Invariance, PTL

=============================================================================
