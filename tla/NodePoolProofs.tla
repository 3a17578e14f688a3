--------------------------- MODULE NodePoolProofs ---------------------------
(***************************************************************************)
(* The safety properties of the Node pool for every number of calls,       *)
(* payloads, workers and crashes of worker threads, and that it implements *)
(* DecodeService.                                                          *)
(***************************************************************************)
EXTENDS NodePool, PoolProofs

\* A current worker is in the queue, with a call in progress, or abandoned.
Accounted == workers \subseteq Owned \cup Abandoned

\* Only unpostable payloads leave an entry behind, and not those of orderly
\* callers.
FailedPosts ==
  \A p \in pending :
    call[p.req] = "rejected" => ~orderly /\ buf[p.req] \in Unpostable

\* The payload of an orderly call that is still to be posted can be.
Postable ==
  orderly => \A r \in Requests : call[r] \in {"polling", "resuming"} =>
                                  buf[r] \notin Unpostable

\* The pool is there entirely or not at all.
PoolIsWhole ==
  /\ ~initialized => workers = {}
  /\ initialized => Cardinality(workers) = PoolSize

\* The inductive invariant.
IInv ==
  /\ CoreInv /\ TypeOK /\ Accounted /\ PoolIsWhole
  /\ FailedPosts /\ Postable

LEMMA InitIInv == Init => IInv
<1> SUFFICES ASSUME Init
             PROVE  IInv
  OBVIOUS
<1>1. CoreInv
  BY CoreInitInv DEF Init
<1>2. TypeOK
  BY <1>1, NodeAssumption DEF Init, TypeOK, CoreInv
<1>3. Accounted /\ PoolIsWhole /\ FailedPosts /\ Postable
  BY DEF Init, CoreInit, Accounted, PoolIsWhole, FailedPosts, Postable
<1>4. QED
  BY <1>1, <1>2, <1>3 DEF IInv

\* init() queues every worker it constructs, and it finds no other there.
LEMMA InitPoolInv == IInv /\ InitPool => IInv' /\ ServiceStep
<1> SUFFICES ASSUME IInv, InitPool
             PROVE  IInv' /\ ServiceStep
  OBVIOUS
<1> DEFINE new == created + 1 .. created + PoolSize
<1>1. /\ CoreInv /\ SpawnWorkers /\ ~initialized /\ initialized' = TRUE
      /\ workers = {} /\ workers' = workers \cup new
      /\ UNCHANGED <<pending, nextId, call, buf, held, answer, detached, inbox, outbox,
                     crashes, orderly>>
  BY DEF IInv, InitPool, SpawnWorkers, PoolIsWhole
<1>2. CoreInv'
  <2>1. initialized' \in BOOLEAN
    BY <1>1, Zenon
  <2>2. QED
    BY <1>1, <2>1, SpawnWorkersInv
<1>3. Accounted' /\ FailedPosts' /\ Postable'
  <2>1. Abandoned' = Abandoned
    BY <1>1 DEF Abandoned
  <2>2. Accounted'
    BY <1>1, <2>1, SpawnOwned DEF IInv, Accounted
  <2>3. QED
    BY <1>1, <2>2 DEF IInv, FailedPosts, Postable, Unpostable
<1>4. PoolIsWhole'
  <2>1. created \in Nat /\ PoolSize \in Nat
    BY <1>1, PoolAssumption DEF CoreInv, CoreTypeOK
  <2>2. Cardinality(new) = PoolSize
    BY <2>1, FS_Interval
  <2>3. workers' = new
    BY <1>1
  <2>4. QED
    BY <1>1, <2>2, <2>3 DEF PoolIsWhole
<1>5. TypeOK'
  BY <1>1, <1>2 DEF IInv, TypeOK, CoreInv
<1>6. QED
  BY <1>1, <1>2, <1>3, <1>4, <1>5, SpawnServes DEF IInv

\* A step that concerns one call and loses no worker.
LEMMA OneCallStep ==
  ASSUME IInv, CoreInv', Owned' = Owned, ServiceStep, NEW r \in Requests,
         UNCHANGED <<workers, initialized, detached, crashes, orderly>>,
         \A q \in Requests : q # r => /\ call'[q] = call[q] /\ held'[q] = held[q]
                                     /\ buf'[q] = buf[q],
         \A p : p.req # r => (p \in pending' <=> p \in pending),
         \A p \in pending : p.req = r => call[r] # "rejected",
         \A p \in pending' : p.req = r => call'[r] # "rejected",
         orderly /\ call'[r] \in {"polling", "resuming"} => buf'[r] \notin Unpostable
  PROVE  IInv' /\ ServiceStep
<1>1. /\ pending \subseteq [id : Nat, req : Requests]
      /\ pending' \subseteq [id : Nat, req : Requests]
  BY DEF IInv, CoreInv, CoreTypeOK
<1>2. Abandoned' = Abandoned
  BY <1>1, NoneAbandoned
<1>3. Unpostable' = Unpostable
  BY DEF Unpostable
<1>4. FailedPosts'
  BY <1>1, <1>3 DEF IInv, FailedPosts
<1>5. Postable'
  BY <1>3 DEF IInv, Postable
<1>6. QED
  BY <1>2, <1>4, <1>5 DEF IInv, TypeOK, CoreInv, Accounted, PoolIsWhole

\* A step that no call notices, but for the payload it detaches.
LEMMA NoCallStep ==
  ASSUME IInv, CoreInv', TypeOK',
         UNCHANGED <<workers, queue, pending, initialized, created, call, buf, held,
                     answer, orderly>>,
         detached \subseteq detached', Postable'
  PROVE  IInv' /\ ServiceStep
<1>1. Owned' = Owned /\ Abandoned' = Abandoned /\ ServiceStep
  BY ServiceStutters DEF Owned, Queued, Serving, Abandoned, ServicePhase
<1>2. FailedPosts'
  BY DEF IInv, FailedPosts, Unpostable
<1>3. QED
  BY <1>1, <1>2 DEF IInv, Accounted, PoolIsWhole

\* decode*() up to its first await.
LEMMA DecodeInv ==
  ASSUME IInv, NEW r \in Requests, NEW b \in Buffers, Decode(r, b)
  PROVE  IInv' /\ ServiceStep
<1>1. /\ CoreInv /\ call \in [Requests -> Phases] /\ call[r] = "idle"
      /\ UNCHANGED <<workers, initialized, pending, detached, crashes, orderly>>
  BY DEF Decode, DecodeHere, DecodeOnWorker, IInv, CoreInv, CoreTypeOK
<1>2. \A q \in Requests : q # r => /\ call'[q] = call[q] /\ held'[q] = held[q]
                                  /\ buf'[q] = buf[q]
  BY <1>1 DEF Decode, DecodeHere, DecodeOnWorker, TakeWorker, Settle, CoreInv, CoreTypeOK
<1>3. /\ pending \subseteq [id : Nat, req : Requests]
      /\ \A p \in pending : p.req # r
  BY <1>1 DEF CoreInv, CoreTypeOK, EntriesDistinct
<1>4. /\ CoreInv' /\ Owned' = Owned /\ ServiceStep
      /\ orderly /\ call'[r] \in {"polling", "resuming"} => buf'[r] \notin Unpostable
  <2>1. ASSUME NEW ok \in Outcomes(b), DecodeHere(r, b, ok)
        PROVE  /\ CoreInv' /\ Owned' = Owned /\ ServiceStep
               /\ call'[r] \notin {"polling", "resuming"}
    <3>1. ok \in BOOLEAN
      BY Zenon DEF Outcomes
    <3>2. CoreInv' /\ ServiceStep
      BY <1>1, <2>1, <3>1, DecodeHereInv, DecodeHereServes
    <3>3. /\ Serving' = Serving /\ UNCHANGED <<queue, held>>
          /\ call'[r] \notin {"polling", "resuming"}
      BY <1>1, <2>1 DEF DecodeHere, Settle, Serving
    <3>4. QED
      BY <3>2, <3>3 DEF Owned, Queued
  <2>2. CASE DecodeOnWorker(r, b)
    <3>1. CoreInv' /\ ServiceStep
      BY <1>1, <2>2, DecodeOnWorkerInv, DecodeOnWorkerServes
    <3>2. Owned' = Owned
      BY <1>1, <2>2, PollsOwned, TakeOwned DEF DecodeOnWorker
    <3>3. buf' = [buf EXCEPT ![r] = b] /\ buf \in [Requests -> Buffers \cup {NoBuffer}]
      BY <1>1, <2>2 DEF DecodeOnWorker, CoreInv, CoreTypeOK
    <3>4. orderly => buf'[r] \notin Unpostable
      BY <2>2, <3>3 DEF Decode, DecodeOnWorker, Unpostable
    <3>5. QED
      BY <3>1, <3>2, <3>4
  <2>3. QED
    BY <2>1, <2>2 DEF Decode
<1>5. QED
  BY <1>1, <1>2, <1>3, <1>4, OneCallStep

\* The interval of a polling call.
LEMMA PollInv ==
  ASSUME IInv, NEW r \in Requests, Poll(r)
  PROVE  IInv' /\ ServiceStep
<1>1. /\ CoreInv /\ call[r] = "polling" /\ TakeWorker(r)
      /\ UNCHANGED <<workers, initialized, pending, detached, buf, crashes, orderly>>
  BY DEF Poll, PollTick, IInv
<1>2. CoreInv' /\ Owned' = Owned /\ ServiceStep
  BY <1>1, PollTickInv, PollTickServes, TakeOwned DEF Poll
<1>3. \A q \in Requests : q # r => call'[q] = call[q] /\ held'[q] = held[q]
  BY <1>1 DEF TakeWorker, CoreInv, CoreTypeOK
<1>4. /\ pending \subseteq [id : Nat, req : Requests]
      /\ \A p \in pending : p.req # r
  BY <1>1 DEF CoreInv, CoreTypeOK, EntriesDistinct
<1>5. orderly => buf[r] \notin Unpostable
  BY <1>1 DEF IInv, Postable
<1>6. QED
  BY <1>1, <1>2, <1>3, <1>4, <1>5, OneCallStep

\* The continuation of a call: when the post throws, which it does to no
\* orderly caller, the worker passes from those in use to the abandoned ones.
LEMMA PostInv ==
  ASSUME IInv, NEW r \in Requests, Post(r)
  PROVE  IInv' /\ ServiceStep
<1> DEFINE entry == [id |-> nextId, req |-> r]
<1>1. /\ CoreInv /\ call \in [Requests -> Phases] /\ call[r] = "resuming"
      /\ UNCHANGED <<workers, queue, initialized, held, buf, answer, created, detached,
                     crashes, orderly>>
  BY DEF Post, Register, IInv, CoreInv, CoreTypeOK
<1>2. /\ buf[r] \in Buffers /\ detached \subseteq Buffers
      /\ pending \subseteq [id : Nat, req : Requests] /\ \A p \in pending : p.req # r
      /\ entry \in [id : Nat, req : Requests]
  BY <1>1 DEF CoreInv, Constructed, CoreTypeOK, EntriesDistinct
<1>3. pending' = pending \cup {entry}
  BY <1>1, FreshId DEF Post, Register
<1>4. CASE PostRequest(r)
  <2>1. CoreInv'
    BY <1>1, <1>2, <1>4, PostRequestInv DEF Post
  <2>2. call' = [call EXCEPT ![r] = "awaiting"]
    BY <1>4 DEF PostRequest
  <2>3. ServiceStep
    BY <1>1, <2>2, PostServes
  <2>4. Serving' = Serving
    BY <1>1, <2>2 DEF Serving
  <2>5. Owned' = Owned
    BY <1>1, <2>4 DEF Owned, Queued
  <2>6. QED
    BY <1>1, <1>2, <1>3, <2>1, <2>2, <2>3, <2>5, OneCallStep
<1>5. CASE /\ buf[r] \in Unpostable /\ inbox' = inbox
           /\ call' = [call EXCEPT ![r] = "rejected"]
  <2>1. CoreInv'
    BY <1>1, <1>5, PostFailsInv DEF Post
  <2>2. ServiceStep
    BY <1>1, <1>5, PostServes
  <2>3. Serving' = Serving \ {r}
    BY <1>1, <1>5 DEF Serving
  <2>4. Owned \subseteq Owned' \cup {held[r]}
    BY <1>1, <2>3 DEF Owned, Queued
  <2>5. Abandoned \cup {held[r]} \subseteq Abandoned'
    <3>1. ASSUME NEW p \in pending, call[p.req] = "rejected"
          PROVE  held[p.req] \in Abandoned'
      <4>1. p \in pending' /\ call'[p.req] = "rejected" /\ held'[p.req] = held[p.req]
        BY <1>1, <1>2, <1>3, <1>5, <3>1
      <4>2. QED
        BY <4>1 DEF Abandoned
    <3>2. held[r] \in Abandoned'
      <4>1. entry \in pending' /\ call'[entry.req] = "rejected" /\ held'[entry.req] = held[r]
        BY <1>1, <1>3, <1>5
      <4>2. QED
        BY <4>1 DEF Abandoned
    <3>3. QED
      BY <3>1, <3>2 DEF Abandoned
  <2>6. Accounted' /\ PoolIsWhole'
    BY <1>1, <2>4, <2>5 DEF IInv, Accounted, PoolIsWhole
  <2>7. ~orderly /\ Unpostable' = Unpostable
    BY <1>1, <1>5 DEF IInv, Postable, Unpostable
  <2>8. FailedPosts' /\ Postable'
    <3>1. ASSUME NEW p \in pending', call'[p.req] = "rejected"
          PROVE  buf'[p.req] \in Unpostable'
      BY <1>1, <1>2, <1>3, <1>5, <2>7, <3>1 DEF IInv, FailedPosts
    <3>2. QED
      BY <1>1, <2>7, <3>1 DEF FailedPosts, Postable
  <2>9. QED
    BY <1>1, <2>1, <2>2, <2>6, <2>8 DEF IInv, TypeOK, CoreInv
<1>6. QED
  BY <1>4, <1>5 DEF Post

\* A payload is given away, not one that an orderly call is still to post.
LEMMA DetachInv ==
  ASSUME IInv, NEW b \in Buffers, Detach(b)
  PROVE  IInv' /\ ServiceStep
<1>1. /\ CoreInv /\ detached' = detached \cup {b}
      /\ UNCHANGED <<workers, queue, pending, nextId, initialized, created, thread, call,
                     buf, held, answer, inbox, outbox, crashes, orderly>>
  BY DEF Detach, IInv
<1>2. CoreInv'
  <2>1. detached' \subseteq Buffers
    BY <1>1 DEF CoreInv, CoreTypeOK
  <2>2. QED
    BY <1>1, <2>1, DetachCoreInv
<1>3. Postable'
  <2>1. ASSUME orderly, NEW r \in Requests, call[r] \in {"polling", "resuming"}
        PROVE  buf[r] \notin Unpostable /\ buf[r] # b
    BY <2>1 DEF IInv, Postable, Detach, Settled
  <2>2. QED
    BY <1>1, <2>1 DEF Postable, Unpostable
<1>4. TypeOK'
  BY <1>1, <1>2 DEF IInv, TypeOK, CoreInv
<1>5. QED
  BY <1>1, <1>2, <1>3, <1>4, NoCallStep

\* The steps of the workers, dying included, of the handler, and terminate().
LEMMA OtherStepsInv ==
  ASSUME IInv,
         \/ \E w \in Workers : StartUp(w) \/ Crash(w)
         \/ \E m \in inbox : WorkerAnswers(m)
         \/ \E m \in outbox : OnMessage(m)
         \/ TerminatePool
  PROVE  IInv' /\ ServiceStep
<1>1. ASSUME NEW w \in Workers, StartUp(w) \/ Crash(w)
      PROVE  IInv' /\ ServiceStep
  <2>1. CoreInv'
    BY <1>1, ThreadInv DEF StartUp, Crash, IInv
  <2>2. crashes' \in 0..MaxCrashes /\ orderly' \in BOOLEAN
    <3>1. orderly' = orderly
      BY <1>1 DEF StartUp, Crash
    <3>2. QED
      BY <1>1, <3>1, NodeAssumption DEF StartUp, Crash, IInv, TypeOK
  <2>3. UNCHANGED <<workers, queue, pending, initialized, created, call, buf, held,
                    answer, detached, orderly>>
    BY <1>1 DEF StartUp, Crash
  <2>4. TypeOK' /\ Postable'
    BY <2>1, <2>2, <2>3 DEF IInv, TypeOK, CoreInv, Postable, Unpostable
  <2>5. QED
    BY <2>1, <2>3, <2>4, NoCallStep
<1>2. ASSUME NEW m \in inbox, WorkerAnswers(m)
      PROVE  IInv' /\ ServiceStep
  <2>1. PICK ok \in Outcomes(m.buf) : Answer(m, ok)
    BY <1>2 DEF WorkerAnswers
  <2>2. ok \in BOOLEAN
    BY Zenon DEF Outcomes
  <2>3. CoreInv'
    BY <2>1, <2>2, AnswerInv DEF IInv
  <2>4. UNCHANGED <<workers, queue, pending, initialized, created, call, buf, held,
                    answer, detached, crashes, orderly>>
    BY <1>2, <2>1 DEF WorkerAnswers, Answer
  <2>5. TypeOK' /\ Postable'
    BY <2>3, <2>4 DEF IInv, TypeOK, CoreInv, Postable, Unpostable
  <2>6. QED
    BY <2>3, <2>4, <2>5, NoCallStep
<1>3. ASSUME NEW m \in outbox, OnMessage(m)
      PROVE  IInv' /\ ServiceStep
  <2>1. CoreInv' /\ ServiceStep /\ Owned' = Owned
    BY <1>3, DispatchInv, DispatchServes, DispatchOwned DEF OnMessage, IInv
  <2>2. UNCHANGED <<workers, initialized, detached, crashes, orderly>>
    BY <1>3 DEF OnMessage, Dispatch
  <2>3. PICK r \in Requests :
          /\ call[r] = "awaiting" /\ held' = held /\ buf' = buf
          /\ call' = [call EXCEPT ![r] = IF m.ok THEN "resolved" ELSE "rejected"]
          /\ pending' = pending \ {[id |-> m.id, req |-> r]}
          /\ \A p \in pending : p.req = r => p = [id |-> m.id, req |-> r]
    BY <1>3, DispatchEffect DEF OnMessage, IInv
  <2>4. call \in [Requests -> Phases]
    BY DEF IInv, CoreInv, CoreTypeOK
  <2>5. /\ \A p : p.req # r => (p \in pending' <=> p \in pending)
        /\ \A p \in pending' : p.req # r
    BY <2>3
  <2>6. /\ \A q \in Requests : q # r => call'[q] = call[q]
        /\ call'[r] \notin {"polling", "resuming"} /\ call[r] # "rejected"
    BY <2>3, <2>4
  <2>7. QED
    BY <2>1, <2>2, <2>3, <2>5, <2>6, OneCallStep
<1>4. ASSUME TerminatePool
      PROVE  IInv' /\ ServiceStep
  <2>1. CoreInv'
    BY <1>4, TerminateInv DEF TerminatePool, IInv
  <2>2. /\ workers' = {} /\ initialized' = FALSE
        /\ UNCHANGED <<pending, detached, call, buf, answer, created, crashes, orderly>>
    BY <1>4 DEF TerminatePool, Terminate
  <2>3. Accounted' /\ PoolIsWhole' /\ FailedPosts' /\ Postable'
    BY <2>2 DEF IInv, Accounted, PoolIsWhole, FailedPosts, Postable, Unpostable
  <2>4. ServiceStep
    BY <2>2, ServiceStutters DEF ServicePhase
  <2>5. QED
    BY <2>1, <2>2, <2>3, <2>4 DEF IInv, TypeOK, CoreInv
<1>5. QED
  BY <1>1, <1>2, <1>3, <1>4

\* Every step of the pool preserves the invariant, and is a step of the service
\* or none.
LEMMA NextIInv == IInv /\ [Next]_vars => IInv' /\ ServiceStep
<1> SUFFICES ASSUME IInv, [Next]_vars
             PROVE  IInv' /\ ServiceStep
  OBVIOUS
<1>1. CASE UNCHANGED vars
  <2>1. CoreInv'
    BY <1>1, StutterInv DEF vars, IInv
  <2>2. TypeOK' /\ Postable'
    BY <1>1, <2>1 DEF IInv, TypeOK, CoreInv, Postable, Unpostable, vars, coreVars
  <2>3. QED
    BY <1>1, <2>1, <2>2, NoCallStep DEF vars, coreVars
<1>2. CASE Next
  BY <1>2, InitPoolInv, DecodeInv, PollInv, PostInv, DetachInv, OtherStepsInv DEF Next
<1>3. QED
  BY <1>1, <1>2

\* The inductive invariant holds in every state of every behaviour.
THEOREM InvariantHolds == Spec => []IInv
BY InitIInv, NextIInv, PTL DEF Spec

\* The fields of XPBNodeWorkerPool and the state of its calls keep their types.
THEOREM TypesHold == Spec => []TypeOK
<1>1. IInv => TypeOK
  BY DEF IInv
<1>2. QED
  BY <1>1, InvariantHolds, PTL

\* No worker is ever shared between two calls, whatever dies or is terminated.
THEOREM ExclusiveHolds == Spec => []Exclusive
<1>1. IInv => Exclusive
  BY DEF IInv, CoreInv
<1>2. QED
  BY <1>1, InvariantHolds, PTL

\* A reply in flight reaches the call it answers.
THEOREM RepliesFindTheirCallerHolds == Spec => []RepliesFindTheirCaller
<1>1. IInv => RepliesFindTheirCaller
  BY DEF IInv, CoreInv
<1>2. QED
  BY <1>1, InvariantHolds, PTL

\* A waiting call has a message on the way or waits for a dead thread.
THEOREM NoLostRequestHolds == Spec => []NoLostRequest
<1>1. IInv => NoLostRequest
  BY DEF IInv, CoreInv
<1>2. QED
  BY <1>1, InvariantHolds, PTL

\* No worker of the running pool is mislaid, crashes included: every one is
\* queued, held by a call in progress, or was given to a call of a caller that
\* is not orderly, whose payload could not be posted.
THEOREM NodeWorkerAccountedHolds == Spec => []NodeWorkerAccounted
<1>1. IInv => NodeWorkerAccounted
  <2> SUFFICES ASSUME IInv, NEW w \in workers,
                      ~ \E i \in 1..Len(queue) : queue[i] = w,
                      ~ \E r \in Serving : held[r] = w
               PROVE  /\ ~orderly
                      /\ \E p \in pending : /\ call[p.req] = "rejected" /\ held[p.req] = w
                                           /\ buf[p.req] \in Unpostable
    BY DEF NodeWorkerAccounted
  <2>1. w \in Abandoned
    BY DEF IInv, Accounted, Owned, Queued
  <2>2. QED
    BY <2>1 DEF IInv, Abandoned, FailedPosts
<1>2. QED
  BY <1>1, InvariantHolds, PTL

\* However often init() and terminate() are called, the pool has poolSize
\* workers or none.
THEOREM ExactlyOnePoolHolds == Spec => []ExactlyOnePool
<1>1. IInv => ExactlyOnePool
  BY FS_EmptySet DEF IInv, PoolIsWhole, ExactlyOnePool
<1>2. QED
  BY <1>1, InvariantHolds, PTL

\* The pool is a DecodeService: a call is accepted once, served by a worker of
\* its own, and ends at most once, with its own payload or with a rejection.
THEOREM PoolImplementsService == Spec => ImplementsService
<1>1. Init => Service!Init
  BY ServiceInit DEF Init
<1>2. IInv /\ [Next]_vars => [Service!Next]_(Service!svars)
  BY NextIInv DEF ServiceStep
<1>3. QED
  BY <1>1, <1>2, InvariantHolds, PTL DEF Spec, ImplementsService, Service!Spec
=============================================================================
