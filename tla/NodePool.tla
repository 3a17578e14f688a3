------------------------------ MODULE NodePool ------------------------------
(***************************************************************************)
(* XPBNodeWorkerPool of runtime/ts/src/node-worker-pool.ts with its        *)
(* node-worker.ts.  init() runs to its end without awaiting, the payload   *)
(* is copied before it is transferred, which throws for some payloads, and *)
(* a worker thread may die: the 'error' and 'exit' listeners only log.     *)
(***************************************************************************)
EXTENDS PoolBase

CONSTANTS
  Shared,     \* payloads that are views of a SharedArrayBuffer
  MaxCrashes  \* bound on the worker threads that die on their own

ASSUME NodeAssumption == Shared \subseteq Buffers /\ MaxCrashes \in Nat

VARIABLE crashes

vars == <<coreVars, crashes, orderly>>

Init == CoreInit /\ crashes = 0 /\ orderly \in BOOLEAN

Quiet == CallsQuiet

\* Mutant: init() does not test the flag.
InitPoolAgain ==
  /\ SpawnWorkers
  /\ initialized' = TRUE
  /\ UNCHANGED <<pending, nextId, call, buf, held, answer, detached, inbox, outbox,
                 crashes, orderly>>

\* init(): returns at once if the pool is initialized, else builds it entirely.
InitPool ==
  /\ ~initialized
  /\ SpawnWorkers
  /\ initialized' = TRUE
  /\ UNCHANGED <<pending, nextId, call, buf, held, answer, detached, inbox, outbox,
                 crashes, orderly>>

\* Payloads that cannot be posted: a copy of a SharedArrayBuffer is one itself
\* and has no place in a transfer list, a detached buffer cannot be sliced.
Unpostable == Shared \cup detached

\* The caller gives the ArrayBuffer of a payload away (external: any transfer,
\* at any moment).  An orderly one waits for the calls it passed the payload to.
Detach(b) ==
  /\ b \notin Unpostable
  /\ orderly => \A r \in Requests : buf[r] = b => Settled(r)
  /\ detached' = detached \cup {b}
  /\ UNCHANGED <<workers, queue, pending, nextId, initialized, created, thread, call,
                 buf, held, answer, inbox, outbox, crashes, orderly>>

\* The worker thread has loaded its script.
StartUp(w) ==
  /\ thread[w] = "starting"
  /\ thread' = [thread EXCEPT ![w] = "running"]
  /\ UNCHANGED <<workers, queue, pending, nextId, initialized, created, call, buf,
                 held, answer, detached, inbox, outbox, crashes, orderly>>

\* Whether a decode succeeds: node-worker.ts and the fast path check no string
\* bound, so that a malformed payload throws or yields an array all the same.
Outcomes(b) == IF b \in Malformed THEN BOOLEAN ELSE {TRUE}

Decode(r, b) ==
  /\ orderly => workers # {} /\ b \notin Shared
  /\ \/ \E ok \in Outcomes(b) : DecodeHere(r, b, ok)
     \/ DecodeOnWorker(r, b)
  /\ UNCHANGED <<crashes, orderly>>

Poll(r) ==
  /\ Quiet
  /\ PollTick(r)
  /\ UNCHANGED <<crashes, orderly>>

\* The rest of a decode after `await this.getWorker()`: a copy of the payload
\* is transferred, so that the caller's buffer stays usable.  slice() or
\* postMessage() throws for an unpostable payload: the promise is rejected,
\* after the entry was stored and the worker was taken.
Post(r) ==
  /\ Register(r)
  /\ \/ buf[r] \notin Unpostable /\ PostRequest(r)
     \/ /\ buf[r] \in Unpostable
        /\ call' = [call EXCEPT ![r] = "rejected"]
        /\ UNCHANGED inbox
  /\ UNCHANGED <<workers, queue, initialized, created, thread, buf, held, answer,
                 detached, outbox, crashes, orderly>>

WorkerAnswers(m) ==
  /\ m \in inbox
  /\ \E ok \in Outcomes(m.buf) : Answer(m, ok)
  /\ UNCHANGED <<crashes, orderly>>

OnMessage(m) ==
  /\ Quiet
  /\ m \in outbox
  /\ Dispatch(m)
  /\ UNCHANGED <<crashes, orderly>>

\* A worker thread dies ('error', then 'exit'): the pool changes nothing, the
\* worker keeps its place in the queue or its pending request.
Crash(w) ==
  /\ ~orderly /\ crashes < MaxCrashes
  /\ thread[w] \in {"starting", "running"}
  /\ thread' = [thread EXCEPT ![w] = "dead"]
  /\ crashes' = crashes + 1
  /\ UNCHANGED <<workers, queue, pending, nextId, initialized, created, call, buf,
                 held, answer, detached, inbox, outbox, orderly>>

TerminatePool ==
  /\ orderly => Idle
  /\ Terminate
  /\ UNCHANGED <<crashes, orderly>>

Next ==
  \/ InitPool
  \/ \E w \in Workers : StartUp(w) \/ Crash(w)
  \/ \E r \in Requests, b \in Buffers : Decode(r, b)
  \/ \E b \in Buffers : Detach(b)
  \/ \E r \in Requests : Poll(r) \/ Post(r)
  \/ \E m \in inbox : WorkerAnswers(m)
  \/ \E m \in outbox : OnMessage(m)
  \/ TerminatePool

Spec == Init /\ [][Next]_vars

\* As in BrowserPool; a thread is never obliged to crash.
Fairness ==
  /\ \A w \in Workers : WF_vars(StartUp(w))
  /\ \A r \in Requests : WF_vars(Poll(r)) /\ WF_vars(Post(r))
  /\ WF_vars(\E m \in inbox : WorkerAnswers(m))
  /\ WF_vars(\E m \in outbox : OnMessage(m))

FairSpec == Spec /\ Fairness

-----------------------------------------------------------------------------
\* The types of the pool's variables.
TypeOK == CoreTypeOK /\ crashes \in 0..MaxCrashes /\ orderly \in BOOLEAN

\* init() has no await between its test of the flag and setting it, so that
\* however often it is called the pool has poolSize workers or none
\* (node-worker-pool.ts:41-71).
ExactlyOnePool ==
  Cardinality(workers) = IF initialized THEN PoolSize ELSE 0

\* No worker of the running pool is mislaid, not even one that died: it is
\* queued or held by a call in progress, or it was given to a call whose post
\* threw (node-worker-pool.ts:112-113 and 138-139: the entry and the worker are
\* then never released).  Orderly callers lose no worker this way.
NodeWorkerAccounted ==
  \A w \in workers :
    \/ \E i \in 1..Len(queue) : queue[i] = w
    \/ \E r \in Serving : held[r] = w
    \/ /\ ~orderly
       /\ \E p \in pending : /\ call[p.req] = "rejected" /\ held[p.req] = w
                            /\ buf[p.req] \in Unpostable
=============================================================================
