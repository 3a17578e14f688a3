------------------------------ MODULE PoolBase ------------------------------
(***************************************************************************)
(* What XPBWorkerPool (worker-pool.ts, browsers) and XPBNodeWorkerPool     *)
(* (node-worker-pool.ts) have in common: a LIFO queue of idle workers, a   *)
(* map of pending requests, callers that poll for a worker, and a message  *)
(* handler that gives the worker back and settles the caller's promise.    *)
(*                                                                         *)
(* The main thread runs one task at a time.  A promise continuation is a   *)
(* microtask: no timer fires and no message is dispatched while one is     *)
(* pending (Quiet), but the caller's own code may still run between two of *)
(* them.  Continuations pending together run in any order.  Workers are    *)
(* numbered in the order they are constructed.                             *)
(***************************************************************************)
EXTENDS Integers, FiniteSets, SequencesExt

CONSTANTS
  Requests,    \* the calls of decodeInt32Array / decodeStringArray
  Buffers,     \* the payloads callers pass
  Large,       \* those at or above the worker threshold
  Malformed,   \* those that are not a valid array encoding
  NoBuffer,    \* "no payload yet", "no answer yet"
  PoolSize,    \* this.poolSize
  MaxWorkers   \* bound on the Worker objects constructed in a behaviour

ASSUME PoolAssumption ==
  /\ Large \subseteq Buffers /\ Malformed \subseteq Buffers
  /\ NoBuffer \notin Buffers
  /\ PoolSize \in Nat /\ MaxWorkers \in Nat

VARIABLES
  workers,     \* this.workers, as a set: it is only ever filled and emptied
  queue,       \* this.workerQueue
  pending,     \* this.pendingRequests: a set of [id, req]
  nextId,      \* this.nextRequestId
  initialized, \* this.initialized
  created,     \* how many Worker objects exist
  thread,      \* the thread behind each worker: "none", "starting", "running", "dead"
  call,        \* where each call is: see Phases
  buf,         \* the payload of each call
  held,        \* the local `worker` of each call, 0 before getWorker() yields one
  answer,      \* what a resolved promise was resolved with
  detached,    \* payloads whose ArrayBuffer has been transferred away
  inbox,       \* requests posted to a worker and not yet taken by it
  outbox,      \* replies a worker posted that are not yet dispatched
  orderly      \* whether in this behaviour callers keep to the discipline
               \* described at Idle and no thread dies on its own

coreVars == <<workers, queue, pending, nextId, initialized, created, thread,
              call, buf, held, answer, detached, inbox, outbox>>

Workers == 1..MaxWorkers

\* A call polls for a worker, has been given one and waits for its microtask,
\* has posted its request and awaits the reply, or is settled.
Phases == {"idle", "polling", "resuming", "awaiting", "resolved", "rejected"}

Settled(r) == call[r] \in {"resolved", "rejected"}

\* The calls that own a worker.
Serving == {r \in Requests : call[r] \in {"resuming", "awaiting"}}

\* No continuation of a decode is pending: a timer or a message may run.
CallsQuiet == \A r \in Requests : call[r] # "resuming"

\* Nothing is in progress.  An orderly caller decodes only while the pool is
\* up, passes payloads that can be posted and stay so (Decode and Detach of
\* each pool say which), and terminates an idle pool.
Idle == \A r \in Requests : call[r] \in {"idle", "resolved", "rejected"}

-----------------------------------------------------------------------------
CoreInit ==
  /\ workers = {} /\ queue = <<>> /\ pending = {} /\ nextId = 0
  /\ initialized = FALSE /\ created = 0
  /\ thread = [w \in Workers |-> "none"]
  /\ call = [r \in Requests |-> "idle"]
  /\ buf = [r \in Requests |-> NoBuffer]
  /\ held = [r \in Requests |-> 0]
  /\ answer = [r \in Requests |-> NoBuffer]
  /\ detached = {} /\ inbox = {} /\ outbox = {}

Settle(r, ok) ==
  /\ call' = [call EXCEPT ![r] = IF ok THEN "resolved" ELSE "rejected"]
  /\ answer' = [answer EXCEPT ![r] = IF ok THEN buf'[r] ELSE @]

\* The loop of init(): poolSize workers are constructed and queued at once,
\* before any of them has started.
SpawnWorkers ==
  LET new == created + 1 .. created + PoolSize
  IN  /\ created + PoolSize <= MaxWorkers
      /\ created' = created + PoolSize
      /\ workers' = workers \cup new
      /\ queue' = queue \o [i \in 1..PoolSize |-> created + i]
      /\ thread' = [w \in Workers |-> IF w \in new THEN "starting" ELSE thread[w]]

\* decode*() of a payload below the threshold: decoded on the calling thread.
\* A detached ArrayBuffer has byteLength 0 and cannot be wrapped: it throws.
DecodeHere(r, b, ok) ==
  /\ call[r] = "idle"
  /\ b \notin Large \/ b \in detached
  /\ b \in detached => ~ok
  /\ buf' = [buf EXCEPT ![r] = b]
  /\ Settle(r, ok)
  /\ UNCHANGED <<workers, queue, pending, nextId, initialized, created, thread,
                 held, detached, inbox, outbox>>

\* Mutant: the last worker of the queue is read but not removed.
TakeWorkerPeeks(r) ==
  /\ queue # <<>>
  /\ held' = [held EXCEPT ![r] = Last(queue)]
  /\ call' = [call EXCEPT ![r] = "resuming"]
  /\ UNCHANGED queue

\* getWorker() yields the worker on top of the stack.
TakeWorker(r) ==
  /\ queue # <<>>
  /\ held' = [held EXCEPT ![r] = Last(queue)]
  /\ queue' = Front(queue)
  /\ call' = [call EXCEPT ![r] = "resuming"]

\* Mutant: getWorker() pops without testing the length of the queue.
DecodeOnWorkerUnchecked(r, b) ==
  /\ call[r] = "idle"
  /\ b \in Large \ detached
  /\ buf' = [buf EXCEPT ![r] = b]
  /\ \/ TakeWorker(r)
     \/ /\ queue = <<>>
        /\ call' = [call EXCEPT ![r] = "resuming"]
        /\ UNCHANGED <<held, queue>>
  /\ UNCHANGED <<workers, pending, nextId, initialized, created, thread, answer,
                 detached, inbox, outbox>>

\* decode*() of a larger payload, up to its first await: getWorker() pops an
\* idle worker or starts to poll.
DecodeOnWorker(r, b) ==
  /\ call[r] = "idle"
  /\ b \in Large \ detached
  /\ buf' = [buf EXCEPT ![r] = b]
  /\ \/ TakeWorker(r)
     \/ /\ queue = <<>>
        /\ call' = [call EXCEPT ![r] = "polling"]
        /\ UNCHANGED <<held, queue>>
  /\ UNCHANGED <<workers, pending, nextId, initialized, created, thread, answer,
                 detached, inbox, outbox>>

\* The 5 ms interval of a polling call, when it finds the queue not empty.
\* Whichever poller ticks first wins; the interval outlives terminate().
PollTick(r) ==
  /\ call[r] = "polling"
  /\ TakeWorker(r)
  /\ UNCHANGED <<workers, pending, nextId, initialized, created, thread, buf,
                 answer, detached, inbox, outbox>>

\* pendingRequests.set(nextRequestId++, ...) once getWorker() has yielded.
Register(r) ==
  /\ call[r] = "resuming"
  /\ pending' = {p \in pending : p.id # nextId} \cup {[id |-> nextId, req |-> r]}
  /\ nextId' = nextId + 1

\* worker.postMessage(): queued even for a worker that will never take it.
PostRequest(r) ==
  /\ call' = [call EXCEPT ![r] = "awaiting"]
  /\ inbox' = inbox \cup {[id |-> nextId, worker |-> held[r], buf |-> buf[r]]}

\* Mutant: an exception of the decode is swallowed, no reply is posted.
AnswerOnlyResults(m, ok) ==
  /\ thread[m.worker] = "running"
  /\ inbox' = inbox \ {m}
  /\ outbox' = IF ok THEN outbox \cup
                 {[id |-> m.id, worker |-> m.worker, buf |-> m.buf, ok |-> ok]}
               ELSE outbox
  /\ UNCHANGED <<workers, queue, pending, nextId, initialized, created, thread,
                 call, buf, held, answer, detached>>

\* A worker takes a request, decodes it and posts the result or the error.
Answer(m, ok) ==
  /\ thread[m.worker] = "running"
  /\ inbox' = inbox \ {m}
  /\ outbox' = outbox \cup
                 {[id |-> m.id, worker |-> m.worker, buf |-> m.buf, ok |-> ok]}
  /\ UNCHANGED <<workers, queue, pending, nextId, initialized, created, thread,
                 call, buf, held, answer, detached>>

\* Mutant: the worker is given back only with a result, not with an error.
DispatchKeepsWorkerOnError(m) ==
  /\ outbox' = outbox \ {m}
  /\ \E p \in pending :
       /\ p.id = m.id
       /\ pending' = pending \ {p}
       /\ queue' = IF m.ok THEN Append(queue, m.worker) ELSE queue
       /\ call' = [call EXCEPT ![p.req] = IF m.ok THEN "resolved" ELSE "rejected"]
       /\ answer' = [answer EXCEPT ![p.req] = IF m.ok THEN m.buf ELSE @]
  /\ UNCHANGED <<workers, nextId, initialized, created, thread, buf, held,
                 detached, inbox>>

\* The 'message' handler registered by init() for one reply: the entry is
\* removed, the worker goes back to the queue, the promise is settled.  A
\* reply whose id is unknown is ignored, a settled promise stays as it is.
Dispatch(m) ==
  /\ outbox' = outbox \ {m}
  /\ \/ \E p \in pending :
          /\ p.id = m.id
          /\ pending' = pending \ {p}
          /\ queue' = Append(queue, m.worker)
          /\ IF Settled(p.req) THEN UNCHANGED <<call, answer>>
             ELSE /\ call' = [call EXCEPT ![p.req] =
                                IF m.ok THEN "resolved" ELSE "rejected"]
                  /\ answer' = [answer EXCEPT ![p.req] = IF m.ok THEN m.buf ELSE @]
     \/ /\ \A p \in pending : p.id # m.id
        /\ UNCHANGED <<pending, queue, call, answer>>
  /\ UNCHANGED <<workers, nextId, initialized, created, thread, buf, held,
                 detached, inbox>>

\* Mutants: terminate() also restarts the ids, or keeps the queue, or the flag.
TerminateWith(newQueue, newFlag, newId) ==
  /\ thread' = [w \in Workers |-> IF w \in workers THEN "dead" ELSE thread[w]]
  /\ workers' = {} /\ queue' = newQueue /\ initialized' = newFlag /\ nextId' = newId
  /\ \E dropped \in SUBSET {m \in outbox : m.worker \in workers} :
       outbox' = outbox \ dropped
  /\ UNCHANGED <<pending, created, call, buf, held, answer, detached, inbox>>

TerminateResetsIds == TerminateWith(<<>>, FALSE, 0)
TerminateKeepsQueue == TerminateWith(queue, FALSE, nextId)
TerminateKeepsFlag == TerminateWith(<<>>, initialized, nextId)

\* terminate(): every current worker is stopped and forgotten.  Pending
\* requests and pollers are left as they are.  Replies already posted by a
\* stopped worker may still be dispatched, or be dropped with its port.
Terminate ==
  /\ thread' = [w \in Workers |-> IF w \in workers THEN "dead" ELSE thread[w]]
  /\ workers' = {} /\ queue' = <<>> /\ initialized' = FALSE
  /\ \E dropped \in SUBSET {m \in outbox : m.worker \in workers} :
       outbox' = outbox \ dropped
  /\ UNCHANGED <<pending, nextId, created, call, buf, held, answer, detached, inbox>>

-----------------------------------------------------------------------------
\* How the state of a pool reads as the state of the service it implements.
ServicePhase ==
  [r \in Requests |->
     CASE call[r] = "polling" -> "waiting"
       [] call[r] \in {"resuming", "awaiting"} -> "served"
       [] OTHER -> call[r]]

Service == INSTANCE DecodeService
             WITH phase <- ServicePhase, arg <- buf, result <- answer,
                  capacity <- created

\* The pool implements DecodeService: no more calls are served than there are
\* workers, and a call ends once, with its own payload or a rejection.
ImplementsService == Service!Spec

-----------------------------------------------------------------------------
Messages == [id : Nat, worker : Workers, buf : Buffers]
Replies == [id : Nat, worker : Workers, buf : Buffers, ok : BOOLEAN]

\* Every variable holds a value of the type its declaration in the class gives.
CoreTypeOK ==
  /\ workers \subseteq Workers
  /\ queue \in Seq(Workers)
  /\ pending \subseteq [id : Nat, req : Requests]
  /\ nextId \in Nat
  /\ initialized \in BOOLEAN
  /\ created \in 0..MaxWorkers
  /\ thread \in [Workers -> {"none", "starting", "running", "dead"}]
  /\ call \in [Requests -> Phases]
  /\ buf \in [Requests -> Buffers \cup {NoBuffer}]
  /\ held \in [Requests -> 0..MaxWorkers]
  /\ answer \in [Requests -> Buffers \cup {NoBuffer}]
  /\ detached \subseteq Buffers
  /\ inbox \subseteq Messages
  /\ outbox \subseteq Replies

\* A worker belongs to one call at a time (getWorker, worker-pool.ts:91-103,
\* and the give-back at :73): the queue holds it once at most, not while a
\* call holds it, and no two unfinished calls hold the same one.
Exclusive ==
  /\ \A i, j \in 1..Len(queue) : queue[i] = queue[j] => i = j
  /\ \A r \in Serving : \A i \in 1..Len(queue) : queue[i] # held[r]
  /\ \A r, q \in Serving : held[r] = held[q] => r = q

\* A message in flight and the caller it will reach.
Matches(m, r) ==
  /\ [id |-> m.id, req |-> r] \in pending
  /\ call[r] = "awaiting" /\ held[r] = m.worker /\ buf[r] = m.buf

\* Requests and replies in flight find the call they belong to still waiting:
\* the id in the reply selects the promise that was created for this payload
\* and this worker (worker-pool.ts:68-80), also across terminate() and re-init.
RepliesFindTheirCaller ==
  \A m \in inbox \cup outbox : \E r \in Requests : Matches(m, r)

\* What a promise resolves with is the decode of the buffer of that very call.
OwnAnswer ==
  \A r \in Requests : call[r] = "resolved" => answer[r] = buf[r]

\* A posted request is never forgotten: as long as its call waits there is a
\* message for it on the way, or the thread it was posted to is dead.
NoLostRequest ==
  \A r \in Requests : call[r] = "awaiting" =>
    \/ \E m \in inbox \cup outbox : Matches(m, r)
    \/ thread[held[r]] = "dead"

\* Workers of the running pool are not mislaid: each is queued, or held by a
\* call in progress, or was given to a call whose postMessage() threw
\* (worker-pool.ts:127-128: the entry and the worker are then never released).
WorkerAccounted ==
  \A w \in workers :
    \/ \E i \in 1..Len(queue) : queue[i] = w
    \/ \E r \in Serving : held[r] = w
    \/ \E p \in pending : call[p.req] = "rejected" /\ held[p.req] = w

\* The queue offers workers of the current pool only: a caller that drains the
\* pool before terminate() never gets a stopped worker after a new init().
QueueIsCurrent ==
  orderly => \A i \in 1..Len(queue) : queue[i] \in workers

\* What makes Exclusive, RepliesFindTheirCaller and NoLostRequest inductive:
\* queued and held workers have been constructed, a call has a payload, an id is used once, an entry
\* belongs to a call that posted (or failed to), and a request is in flight
\* once, on its way out or on its way back.
Constructed ==
  /\ \A i \in 1..Len(queue) : queue[i] \in 1..created
  /\ \A r \in Serving : held[r] \in 1..created
  /\ \A r \in Requests : call[r] # "idle" => buf[r] \in Buffers

EntriesDistinct ==
  /\ \A p \in pending : p.id < nextId /\ call[p.req] \in {"awaiting", "rejected"}
  /\ \A p, q \in pending : p.id = q.id \/ p.req = q.req => p = q

MessagesDistinct ==
  /\ \A m, n \in inbox : m.id = n.id => m = n
  /\ \A m, n \in outbox : m.id = n.id => m = n
  /\ \A m \in inbox, n \in outbox : m.id # n.id

CoreInv ==
  /\ CoreTypeOK /\ Constructed /\ Exclusive
  /\ EntriesDistinct /\ MessagesDistinct /\ RepliesFindTheirCaller
  /\ OwnAnswer /\ NoLostRequest

\* A call that can never settle: it waits for a dead thread, or it polls while
\* no worker is left that could come back to the queue.
Stranded(r) ==
  \/ call[r] = "awaiting" /\ thread[held[r]] = "dead"
  \/ /\ call[r] = "polling" /\ queue = <<>>
     /\ \A q \in Serving : thread[held[q]] = "dead"

\* Every call ends, or is stranded for good for one of those two reasons.
EndsOrStranded ==
  \A r \in Requests : call[r] # "idle" ~> (Settled(r) \/ []Stranded(r))

\* With orderly callers every call ends.
EveryCallEnds ==
  orderly => \A r \in Requests : call[r] # "idle" ~> Settled(r)
=============================================================================
