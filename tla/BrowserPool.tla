---------------------------- MODULE BrowserPool ----------------------------
(***************************************************************************)
(* XPBWorkerPool of runtime/ts/src/worker-pool.ts with its worker.ts.      *)
(* init() is asynchronous: between its loop and `initialized = true` it    *)
(* awaits a 'ready' message of every worker, and anything may run.  The    *)
(* caller's ArrayBuffer is transferred, which detaches it.                 *)
(***************************************************************************)
EXTENDS PoolBase

VARIABLES
  inits,  \* init() calls awaiting their workers, each the set of its workers
  hello,  \* workers whose 'ready' message is posted and not dispatched
  ready   \* workers whose readyPromise is resolved

vars == <<coreVars, inits, hello, ready, orderly>>

Init ==
  /\ CoreInit /\ inits = {} /\ hello = {} /\ ready = {}
  /\ orderly \in BOOLEAN

\* The continuation of an init() whose workers are all ready is a microtask.
Quiet == CallsQuiet /\ \A s \in inits : ~(s \subseteq ready)

\* init() up to its await.  It returns at once only when initialized is set: a
\* second call before that builds a second set of workers.
InitStart ==
  /\ ~initialized
  /\ orderly => inits = {}
  /\ SpawnWorkers
  /\ inits' = inits \cup {created + 1 .. created + PoolSize}
  /\ UNCHANGED <<pending, nextId, initialized, call, buf, held, answer, detached,
                 inbox, outbox, hello, ready, orderly>>

\* The worker script has loaded and posts {type: 'ready'}.
StartUp(w) ==
  /\ thread[w] = "starting"
  /\ thread' = [thread EXCEPT ![w] = "running"]
  /\ hello' = hello \cup {w}
  /\ UNCHANGED <<workers, queue, pending, nextId, initialized, created, call, buf,
                 held, answer, detached, inbox, outbox, inits, ready, orderly>>

\* onReady: the worker's readyPromise resolves.
OnReady(w) ==
  /\ Quiet
  /\ w \in hello
  /\ hello' = hello \ {w}
  /\ ready' = ready \cup {w}
  /\ UNCHANGED <<coreVars, inits, orderly>>

\* Promise.all(readyPromises) has resolved: init() sets the flag, whatever
\* terminate() did in the meantime.
InitFinish(s) ==
  /\ s \in inits /\ s \subseteq ready
  /\ inits' = inits \ {s}
  /\ initialized' = TRUE
  /\ UNCHANGED <<workers, queue, pending, nextId, created, thread, call, buf, held,
                 answer, detached, inbox, outbox, hello, ready, orderly>>

\* decodeInt32Array(buffer), decodeStringArray(buffer).  The main-thread
\* decoder checks every bound: a malformed payload always throws.
Decode(r, b) ==
  /\ orderly => /\ workers # {}
                /\ \A q \in Requests : buf[q] # b
  /\ \/ DecodeHere(r, b, b \notin Malformed /\ b \notin detached)
     \/ DecodeOnWorker(r, b)
  /\ UNCHANGED <<inits, hello, ready, orderly>>

Poll(r) ==
  /\ Quiet
  /\ PollTick(r)
  /\ UNCHANGED <<inits, hello, ready, orderly>>

\* The rest of a decode after `await this.getWorker()`.  postMessage() throws
\* for a buffer that was detached since the threshold test: the promise is
\* rejected, after the entry was stored and the worker was taken.
Post(r) ==
  /\ Register(r)
  /\ \/ /\ buf[r] \notin detached
        /\ PostRequest(r)
        /\ detached' = detached \cup {buf[r]}
     \/ /\ buf[r] \in detached
        /\ call' = [call EXCEPT ![r] = "rejected"]
        /\ UNCHANGED <<inbox, detached>>
  /\ UNCHANGED <<workers, queue, initialized, created, thread, buf, held, answer,
                 outbox, inits, hello, ready, orderly>>

\* worker.ts onmessage: the decode is strict and every path answers.
WorkerAnswers(m) ==
  /\ m \in inbox
  /\ Answer(m, m.buf \notin Malformed)
  /\ UNCHANGED <<inits, hello, ready, orderly>>

\* A worker's 'ready' precedes its replies on the port.
OnMessage(m) ==
  /\ Quiet
  /\ m \in outbox /\ m.worker \notin hello
  /\ Dispatch(m)
  /\ UNCHANGED <<inits, hello, ready, orderly>>

TerminatePool ==
  /\ orderly => Idle /\ inits = {}
  /\ Terminate
  /\ \E dropped \in SUBSET (hello \cap workers) : hello' = hello \ dropped
  /\ UNCHANGED <<inits, ready, orderly>>

Next ==
  \/ InitStart
  \/ \E w \in Workers : StartUp(w) \/ OnReady(w)
  \/ \E s \in inits : InitFinish(s)
  \/ \E r \in Requests, b \in Buffers : Decode(r, b)
  \/ \E r \in Requests : Poll(r) \/ Post(r)
  \/ \E m \in inbox : WorkerAnswers(m)
  \/ \E m \in outbox : OnMessage(m)
  \/ TerminatePool

Spec == Init /\ [][Next]_vars

\* The event loop runs every continuation, timer and message; the threads run;
\* nobody is obliged to call the pool.
Fairness ==
  /\ \A w \in Workers : WF_vars(StartUp(w)) /\ WF_vars(OnReady(w))
  /\ WF_vars(\E s \in inits : InitFinish(s))
  /\ \A r \in Requests : WF_vars(Poll(r)) /\ WF_vars(Post(r))
  /\ WF_vars(\E m \in inbox : WorkerAnswers(m))
  /\ WF_vars(\E m \in outbox : OnMessage(m))

FairSpec == Spec /\ Fairness

-----------------------------------------------------------------------------
\* The types of the pool's variables.
TypeOK ==
  /\ CoreTypeOK /\ orderly \in BOOLEAN
  /\ inits \subseteq SUBSET Workers
  /\ hello \subseteq Workers /\ ready \subseteq Workers

\* An initialized pool has its workers: with callers that do not terminate()
\* during init(), the flag set after the await (worker-pool.ts:88) still
\* describes the pool it was awaited for.
InitializedHasWorkers ==
  orderly /\ initialized => Cardinality(workers) = PoolSize
=============================================================================
