-------------------------- MODULE BrowserPoolProofs --------------------------
(***************************************************************************)
(* The safety properties of the browser pool for every number of calls,    *)
(* payloads and workers, orderly callers or not, and that it implements    *)
(* DecodeService.                                                          *)
(***************************************************************************)
EXTENDS BrowserPool, PoolProofs

\* A current worker is in the queue, with a call in progress, or abandoned.
Accounted == workers \subseteq Owned \cup Abandoned

\* With orderly callers only workers of the current pool are owned.
OwnsCurrent == orderly => Owned \subseteq workers

\* With orderly callers one init() at a time waits, for just the workers there
\* are, and its flag is set only once it has finished.
InitAwaitsPool ==
  orderly =>
    /\ inits = {} /\ ~initialized => workers = {}
    /\ inits # {} => ~initialized /\ inits = {workers}
    /\ inits # {} \/ initialized => Cardinality(workers) = PoolSize

\* The inductive invariant.
IInv == CoreInv /\ TypeOK /\ Accounted /\ OwnsCurrent /\ InitAwaitsPool

LEMMA InitIInv == Init => IInv
<1> SUFFICES ASSUME Init
             PROVE  IInv
  OBVIOUS
<1>1. CoreInv
  BY CoreInitInv DEF Init
<1>2. TypeOK
  BY <1>1 DEF Init, TypeOK, CoreInv
<1>3. Owned = {}
  BY DEF Init, CoreInit, Owned, Queued, Serving
<1>4. Accounted /\ OwnsCurrent /\ InitAwaitsPool
  BY <1>3 DEF Init, CoreInit, Accounted, OwnsCurrent, InitAwaitsPool
<1>5. QED
  BY <1>1, <1>2, <1>4 DEF IInv

\* A step that hands workers on among the queue and the calls.
LEMMA HandedOn ==
  ASSUME IInv, CoreInv', Owned' = Owned, Abandoned' = Abandoned, ServiceStep,
         inits' = inits, hello' \subseteq Workers, ready' \subseteq Workers,
         UNCHANGED <<workers, initialized, orderly>>
  PROVE  IInv' /\ ServiceStep
BY DEF IInv, TypeOK, CoreInv, Accounted, OwnsCurrent, InitAwaitsPool

\* init() up to its await: with orderly callers it finds no worker there.
LEMMA InitStartInv == IInv /\ InitStart => IInv' /\ ServiceStep
<1> SUFFICES ASSUME IInv, InitStart
             PROVE  IInv' /\ ServiceStep
  OBVIOUS
<1> DEFINE new == created + 1 .. created + PoolSize
<1>1. /\ CoreInv /\ SpawnWorkers /\ ~initialized /\ initialized' = initialized
      /\ orderly => inits = {}
      /\ workers' = workers \cup new /\ inits' = inits \cup {new}
      /\ UNCHANGED <<pending, nextId, call, buf, held, answer, detached, inbox, outbox,
                     hello, ready, orderly>>
  BY DEF IInv, InitStart, SpawnWorkers
<1>2. CoreInv'
  <2>1. initialized' \in BOOLEAN
    BY Zenon DEF IInv, CoreInv, CoreTypeOK, InitStart
  <2>2. QED
    BY <1>1, <2>1, SpawnWorkersInv
<1>3. Owned' = Owned \cup new
  BY <1>1, SpawnOwned
<1>4. Accounted' /\ OwnsCurrent'
  <2>1. Abandoned' = Abandoned
    BY <1>1 DEF Abandoned
  <2>2. QED
    BY <1>1, <1>3, <2>1 DEF IInv, Accounted, OwnsCurrent
<1>5. InitAwaitsPool'
  <2>1. created \in Nat /\ PoolSize \in Nat
    BY <1>1, PoolAssumption DEF CoreInv, CoreTypeOK
  <2>2. Cardinality(new) = PoolSize
    BY <2>1, FS_Interval
  <2>3. orderly => workers' = new /\ inits' = {new}
    BY <1>1 DEF IInv, InitAwaitsPool
  <2>4. QED
    BY <1>1, <2>2, <2>3 DEF InitAwaitsPool
<1>6. TypeOK'
  <2>1. new \subseteq Workers
    BY <1>1, PoolAssumption DEF CoreInv, CoreTypeOK, SpawnWorkers, Workers
  <2>2. QED
    BY <1>1, <1>2, <2>1 DEF IInv, TypeOK, CoreInv
<1>7. QED
  BY <1>1, <1>2, <1>4, <1>5, <1>6, SpawnServes DEF IInv

\* Steps of init(), and of the workers it waits for.
LEMMA InitStepsInv ==
  ASSUME IInv,
         \/ \E w \in Workers : StartUp(w) \/ OnReady(w)
         \/ \E s \in inits : InitFinish(s)
  PROVE  IInv' /\ ServiceStep
<1>1. ASSUME UNCHANGED <<queue, pending, call, buf, held, answer, created>>
      PROVE  Owned' = Owned /\ Abandoned' = Abandoned /\ ServiceStep
  BY <1>1, ServiceStutters DEF Owned, Queued, Serving, Abandoned, ServicePhase
<1>2. ASSUME NEW w \in Workers, StartUp(w)
      PROVE  IInv' /\ ServiceStep
  <2>1. CoreInv'
    BY <1>2, ThreadInv DEF StartUp, IInv
  <2>2. /\ UNCHANGED <<queue, pending, call, buf, held, answer, created, workers,
                       initialized, inits, ready, orderly>>
        /\ hello' \subseteq Workers /\ ready \subseteq Workers
    BY <1>2 DEF StartUp, IInv, TypeOK
  <2>3. QED
    BY <1>1, <2>1, <2>2, HandedOn
<1>3. ASSUME NEW w \in Workers, OnReady(w)
      PROVE  IInv' /\ ServiceStep
  <2>1. CoreInv'
    BY <1>3, StutterInv DEF OnReady, IInv
  <2>2. /\ UNCHANGED <<queue, pending, call, buf, held, answer, created, workers,
                       initialized, inits, orderly>>
        /\ hello' \subseteq Workers /\ ready' \subseteq Workers
    BY <1>3 DEF OnReady, IInv, TypeOK, coreVars
  <2>3. QED
    BY <1>1, <2>1, <2>2, HandedOn
<1>4. ASSUME NEW s \in inits, InitFinish(s)
      PROVE  IInv' /\ ServiceStep
  <2>1. CoreInv'
    BY <1>4, FlagInv DEF InitFinish, IInv
  <2>2. /\ UNCHANGED <<queue, pending, call, buf, held, answer, created, workers,
                       hello, ready, orderly>>
        /\ initialized' = TRUE /\ inits' = inits \ {s}
    BY <1>4 DEF InitFinish
  <2>3. Owned' = Owned /\ Abandoned' = Abandoned /\ ServiceStep
    BY <1>1, <2>2
  <2>4. InitAwaitsPool'
    BY <1>4, <2>2 DEF IInv, InitAwaitsPool
  <2>5. QED
    BY <2>1, <2>2, <2>3, <2>4 DEF IInv, TypeOK, CoreInv, Accounted, OwnsCurrent
<1>5. QED
  BY <1>2, <1>3, <1>4

\* decode*() up to its first await.
LEMMA DecodeInv ==
  ASSUME IInv, NEW r \in Requests, NEW b \in Buffers, Decode(r, b)
  PROVE  IInv' /\ ServiceStep
<1>1. /\ CoreInv /\ UNCHANGED <<workers, initialized, inits, hello, ready, orderly>>
      /\ hello \subseteq Workers /\ ready \subseteq Workers
  BY DEF Decode, DecodeHere, DecodeOnWorker, IInv, TypeOK
<1>2. CoreInv' /\ Owned' = Owned /\ ServiceStep
  <2>1. CASE DecodeHere(r, b, b \notin Malformed /\ b \notin detached)
    <3>1. (b \notin Malformed /\ b \notin detached) \in BOOLEAN
      OBVIOUS
    <3>2. Serving' = Serving /\ UNCHANGED <<queue, held>>
      BY <1>1, <2>1 DEF DecodeHere, Settle, Serving, CoreInv, CoreTypeOK
    <3>3. QED
      BY <1>1, <2>1, <3>1, <3>2, DecodeHereInv, DecodeHereServes DEF Owned, Queued
  <2>2. CASE DecodeOnWorker(r, b)
    <3>1. Owned' = Owned
      BY <1>1, <2>2, PollsOwned, TakeOwned DEF DecodeOnWorker
    <3>2. QED
      BY <1>1, <2>2, <3>1, DecodeOnWorkerInv, DecodeOnWorkerServes
  <2>3. QED
    BY <2>1, <2>2 DEF Decode
<1>3. Abandoned' = Abandoned
  <2>1. /\ call[r] = "idle" /\ pending' = pending
        /\ \A q \in Requests : q # r => call'[q] = call[q] /\ held'[q] = held[q]
    BY <1>1 DEF Decode, DecodeHere, DecodeOnWorker, TakeWorker, Settle, CoreInv, CoreTypeOK
  <2>2. pending \subseteq [id : Nat, req : Requests] /\ \A p \in pending : p.req # r
    BY <1>1, <2>1 DEF CoreInv, CoreTypeOK, EntriesDistinct
  <2>3. QED
    BY <2>1, <2>2, NoneAbandoned
<1>4. QED
  BY <1>1, <1>2, <1>3, HandedOn

\* The interval of a polling call.
LEMMA PollInv ==
  ASSUME IInv, NEW r \in Requests, Poll(r)
  PROVE  IInv' /\ ServiceStep
<1>1. /\ CoreInv /\ UNCHANGED <<workers, initialized, inits, hello, ready, orderly>>
      /\ hello \subseteq Workers /\ ready \subseteq Workers
  BY DEF Poll, PollTick, IInv, TypeOK
<1>2. CoreInv' /\ Owned' = Owned /\ ServiceStep
  BY <1>1, PollTickInv, PollTickServes, TakeOwned DEF Poll, PollTick
<1>3. Abandoned' = Abandoned
  <2>1. /\ call[r] = "polling" /\ pending' = pending
        /\ \A q \in Requests : q # r => call'[q] = call[q] /\ held'[q] = held[q]
    BY <1>1 DEF Poll, PollTick, TakeWorker, CoreInv, CoreTypeOK
  <2>2. pending \subseteq [id : Nat, req : Requests] /\ \A p \in pending : p.req # r
    BY <1>1, <2>1 DEF CoreInv, CoreTypeOK, EntriesDistinct
  <2>3. QED
    BY <2>1, <2>2, NoneAbandoned
<1>4. QED
  BY <1>1, <1>2, <1>3, HandedOn

\* The continuation of a call: when postMessage() throws, the worker of the call
\* passes from those in use to the abandoned ones.
LEMMA PostInv ==
  ASSUME IInv, NEW r \in Requests, Post(r)
  PROVE  IInv' /\ ServiceStep
<1> DEFINE entry == [id |-> nextId, req |-> r]
<1>1. /\ CoreInv /\ call \in [Requests -> Phases] /\ call[r] = "resuming"
      /\ UNCHANGED <<workers, queue, initialized, held, buf, answer, created,
                     inits, hello, ready, orderly>>
      /\ hello \subseteq Workers /\ ready \subseteq Workers
  BY DEF Post, Register, IInv, TypeOK, CoreInv, CoreTypeOK
<1>2. /\ buf[r] \in Buffers /\ detached \subseteq Buffers
      /\ pending \subseteq [id : Nat, req : Requests] /\ \A p \in pending : p.req # r
      /\ entry \in [id : Nat, req : Requests]
  BY <1>1 DEF CoreInv, Constructed, CoreTypeOK, EntriesDistinct
<1>3. pending' = pending \cup {entry}
  BY <1>1, FreshId DEF Post, Register
<1>4. CASE PostRequest(r) /\ detached' = detached \cup {buf[r]}
  <2>1. CoreInv'
    BY <1>1, <1>2, <1>4, PostRequestInv DEF Post
  <2>2. call' = [call EXCEPT ![r] = "awaiting"]
    BY <1>4 DEF PostRequest
  <2>3. ServiceStep
    BY <1>1, <2>2, PostServes
  <2>4. Serving' = Serving
    BY <1>1, <2>2 DEF Serving
  <2>5. Owned' = Owned
    BY <1>1, <2>4 DEF Owned, Queued
  <2>6. Abandoned' = Abandoned
    BY <1>1, <1>2, <1>3, <2>2, NoneAbandoned
  <2>7. QED
    BY <1>1, <2>1, <2>3, <2>5, <2>6, HandedOn
<1>5. CASE call' = [call EXCEPT ![r] = "rejected"] /\ UNCHANGED <<inbox, detached>>
  <2>1. CoreInv'
    BY <1>1, <1>5, PostFailsInv DEF Post
  <2>2. ServiceStep
    BY <1>1, <1>5, PostServes
  <2>3. Serving' = Serving \ {r}
    BY <1>1, <1>5 DEF Serving
  <2>4. Owned' \subseteq Owned /\ Owned \subseteq Owned' \cup {held[r]}
    BY <1>1, <2>3 DEF Owned, Queued
  <2>5. Abandoned \cup {held[r]} \subseteq Abandoned'
    <3>1. ASSUME NEW p \in pending, call[p.req] = "rejected"
          PROVE  held[p.req] \in Abandoned'
      <4>1. p \in pending' /\ call'[p.req] = "rejected" /\ held'[p.req] = held[p.req]
        BY <1>1, <1>2, <1>3, <1>5, <3>1
      <4>2. QED
        BY <4>1 DEF Abandoned
    <3>2. held[r] \in Abandoned'
      <4>1. entry \in pending' /\ call'[entry.req] = "rejected" /\ held'[entry.req] = held[r]
        BY <1>1, <1>3, <1>5
      <4>2. QED
        BY <4>1 DEF Abandoned
    <3>3. QED
      BY <3>1, <3>2 DEF Abandoned
  <2>6. Accounted' /\ OwnsCurrent' /\ InitAwaitsPool'
    BY <1>1, <2>4, <2>5 DEF IInv, Accounted, OwnsCurrent, InitAwaitsPool
  <2>7. QED
    BY <1>1, <2>1, <2>2, <2>6 DEF IInv, TypeOK, CoreInv
<1>6. QED
  BY <1>4, <1>5 DEF Post

\* A worker answers, and the message handler takes the answer.
LEMMA MessageStepsInv ==
  ASSUME IInv,
         \/ \E m \in inbox : WorkerAnswers(m)
         \/ \E m \in outbox : OnMessage(m)
  PROVE  IInv' /\ ServiceStep
<1>1. CoreInv /\ hello \subseteq Workers /\ ready \subseteq Workers
  BY DEF IInv, TypeOK
<1>2. ASSUME NEW m \in inbox, WorkerAnswers(m)
      PROVE  IInv' /\ ServiceStep
  <2>1. (m.buf \notin Malformed) \in BOOLEAN
    OBVIOUS
  <2>2. CoreInv'
    BY <1>1, <1>2, <2>1, AnswerInv DEF WorkerAnswers
  <2>3. UNCHANGED <<workers, queue, pending, initialized, call, buf, held, answer,
                    created, inits, hello, ready, orderly>>
    BY <1>2 DEF WorkerAnswers, Answer
  <2>4. Owned' = Owned /\ Abandoned' = Abandoned /\ ServiceStep
    BY <2>3, ServiceStutters DEF Owned, Queued, Serving, Abandoned, ServicePhase
  <2>5. QED
    BY <1>1, <2>2, <2>3, <2>4, HandedOn
<1>3. ASSUME NEW m \in outbox, OnMessage(m)
      PROVE  IInv' /\ ServiceStep
  <2>1. CoreInv' /\ ServiceStep /\ Owned' = Owned
    BY <1>1, <1>3, DispatchInv, DispatchServes, DispatchOwned DEF OnMessage
  <2>2. UNCHANGED <<workers, initialized, inits, hello, ready, orderly>>
    BY <1>3 DEF OnMessage, Dispatch
  <2>3. PICK r \in Requests :
          /\ call[r] = "awaiting" /\ held' = held
          /\ call' = [call EXCEPT ![r] = IF m.ok THEN "resolved" ELSE "rejected"]
          /\ pending' = pending \ {[id |-> m.id, req |-> r]}
          /\ \A p \in pending : p.req = r => p = [id |-> m.id, req |-> r]
    BY <1>1, <1>3, DispatchEffect DEF OnMessage
  <2>4. Abandoned' = Abandoned
    <3>1. pending \subseteq [id : Nat, req : Requests] /\ call \in [Requests -> Phases]
      BY <1>1 DEF CoreInv, CoreTypeOK
    <3>2. \A p : p.req # r => (p \in pending' <=> p \in pending)
      BY <2>3
    <3>3. \A p \in pending' : p.req # r
      BY <2>3
    <3>4. \A q \in Requests : q # r => call'[q] = call[q] /\ held'[q] = held[q]
      BY <2>3, <3>1
    <3>5. pending' \subseteq [id : Nat, req : Requests]
      BY <2>3, <3>1
    <3>6. QED
      BY <2>3, <3>1, <3>2, <3>3, <3>4, <3>5, NoneAbandoned
  <2>5. QED
    BY <1>1, <2>1, <2>2, <2>4, HandedOn
<1>4. QED
  BY <1>2, <1>3

\* terminate(): orderly callers leave no call in progress and no init() behind.
LEMMA TerminateStepInv == IInv /\ TerminatePool => IInv' /\ ServiceStep
<1> SUFFICES ASSUME IInv, TerminatePool
             PROVE  IInv' /\ ServiceStep
  OBVIOUS
<1>1. CoreInv'
  BY TerminateInv DEF TerminatePool, IInv
<1>2. /\ workers' = {} /\ queue' = <<>> /\ initialized' = FALSE
      /\ orderly => Idle /\ inits = {}
      /\ hello' \subseteq Workers
      /\ UNCHANGED <<call, buf, answer, held, created, inits, ready, orderly>>
  BY DEF TerminatePool, Terminate, IInv, TypeOK
<1>3. OwnsCurrent'
  <2>1. Idle => Serving' = {}
    BY <1>2 DEF Idle, Serving
  <2>2. Queued' = {}
    BY <1>2 DEF Queued
  <2>3. QED
    BY <1>2, <2>1, <2>2 DEF Owned, OwnsCurrent
<1>4. Accounted' /\ InitAwaitsPool'
  BY <1>2 DEF Accounted, InitAwaitsPool
<1>5. ServiceStep
  BY <1>2, ServiceStutters DEF ServicePhase
<1>6. QED
  BY <1>1, <1>2, <1>3, <1>4, <1>5 DEF IInv, TypeOK, CoreInv

\* Every step of the pool preserves the invariant, and is a step of the service
\* or none.
LEMMA NextIInv == IInv /\ [Next]_vars => IInv' /\ ServiceStep
<1> SUFFICES ASSUME IInv, [Next]_vars
             PROVE  IInv' /\ ServiceStep
  OBVIOUS
<1>1. CASE UNCHANGED vars
  <2>1. CoreInv'
    BY <1>1, StutterInv DEF vars, IInv
  <2>2. Owned' = Owned /\ Abandoned' = Abandoned /\ ServiceStep
    BY <1>1, ServiceStutters
       DEF Owned, Queued, Serving, Abandoned, ServicePhase, vars, coreVars
  <2>3. QED
    BY <1>1, <2>1, <2>2, HandedOn DEF vars, coreVars, IInv, TypeOK
<1>2. CASE Next
  BY <1>2, InitStartInv, InitStepsInv, DecodeInv, PollInv, PostInv, MessageStepsInv,
     TerminateStepInv DEF Next
<1>3. QED
  BY <1>1, <1>2

\* The inductive invariant holds in every state of every behaviour.
THEOREM InvariantHolds == Spec => []IInv
BY InitIInv, NextIInv, PTL DEF Spec

\* The fields of XPBWorkerPool and the state of its calls keep their types.
THEOREM TypesHold == Spec => []TypeOK
<1>1. IInv => TypeOK
  BY DEF IInv
<1>2. QED
  BY <1>1, InvariantHolds, PTL

\* No worker is ever shared: getWorker() and the give-back keep each worker
\* with one owner, also across terminate() and re-init.
THEOREM ExclusiveHolds == Spec => []Exclusive
<1>1. IInv => Exclusive
  BY DEF IInv, CoreInv
<1>2. QED
  BY <1>1, InvariantHolds, PTL

\* A reply in flight reaches the call it answers.
THEOREM RepliesFindTheirCallerHolds == Spec => []RepliesFindTheirCaller
<1>1. IInv => RepliesFindTheirCaller
  BY DEF IInv, CoreInv
<1>2. QED
  BY <1>1, InvariantHolds, PTL

\* What a call resolves with is the decode of its own payload.
THEOREM OwnAnswerHolds == Spec => []OwnAnswer
<1>1. IInv => OwnAnswer
  BY DEF IInv, CoreInv
<1>2. QED
  BY <1>1, InvariantHolds, PTL

\* A waiting call has a message on the way or waits for a dead thread.
THEOREM NoLostRequestHolds == Spec => []NoLostRequest
<1>1. IInv => NoLostRequest
  BY DEF IInv, CoreInv
<1>2. QED
  BY <1>1, InvariantHolds, PTL

\* No worker is mislaid: each is queued, held by a call in progress, or belongs
\* to a call whose postMessage() threw.
THEOREM WorkerAccountedHolds == Spec => []WorkerAccounted
<1>1. IInv => WorkerAccounted
  BY DEF IInv, Accounted, Owned, Queued, Abandoned, WorkerAccounted
<1>2. QED
  BY <1>1, InvariantHolds, PTL

\* A caller that drains the pool before terminate() gets workers of the current
\* pool only.
THEOREM QueueIsCurrentHolds == Spec => []QueueIsCurrent
<1>1. IInv => QueueIsCurrent
  BY DEF IInv, OwnsCurrent, Owned, Queued, QueueIsCurrent
<1>2. QED
  BY <1>1, InvariantHolds, PTL

\* The flag that init() sets after its await still describes the pool, as long
\* as callers do not terminate() meanwhile.
THEOREM InitializedHasWorkersHolds == Spec => []InitializedHasWorkers
<1>1. IInv => InitializedHasWorkers
  BY DEF IInv, InitAwaitsPool, InitializedHasWorkers
<1>2. QED
  BY <1>1, InvariantHolds, PTL

\* The pool is a DecodeService, orderly callers or not: a call is accepted once,
\* served by a worker of its own, and ends at most once, with its own payload or
\* with a rejection.
THEOREM PoolImplementsService == Spec => ImplementsService
<1>1. Init => Service!Init
  BY ServiceInit DEF Init
<1>2. IInv /\ [Next]_vars => [Service!Next]_(Service!svars)
  BY NextIInv DEF ServiceStep
<1>3. QED
  BY <1>1, <1>2, InvariantHolds, PTL DEF Spec, ImplementsService, Service!Spec
=============================================================================
