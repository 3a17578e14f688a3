----------------------------- MODULE PoolProofs -----------------------------
(***************************************************************************)
(* CoreInv is preserved by the steps the two pools share.  Each lemma is   *)
(* about one handler of the code; BrowserPoolProofs and NodePoolProofs put *)
(* them together.                                                          *)
(***************************************************************************)
EXTENDS PoolBase, SequenceTheorems, FiniteSetTheorems, TLAPS

USE DEF Phases, Messages, Replies

\* What Front and Last do to a non-empty sequence.
LEMMA FrontLast ==
  ASSUME NEW S, NEW q \in Seq(S), q # <<>>
  PROVE  /\ Len(q) \in Nat /\ Len(q) >= 1
         /\ Last(q) = q[Len(q)] /\ Last(q) \in S
         /\ Front(q) \in Seq(S)
         /\ Len(Front(q)) = Len(q) - 1
         /\ \A i \in 1..Len(Front(q)) : Front(q)[i] = q[i]
<1>1. Len(q) \in Nat /\ Len(q) >= 1
  BY EmptySeq, LenProperties
<1>2. \A i \in 1..Len(q) : q[i] \in S
  BY ElementOfSeq
<1>3. Last(q) = q[Len(q)] /\ Len(Front(q)) = Len(q) - 1
  BY <1>1, SMTT(30) DEF Front, Last
<1>4. Front(q) \in Seq(S) /\ \A i \in 1..Len(Front(q)) : Front(q)[i] = q[i]
  <2>1. ASSUME NEW f, f = SubSeq(q, 1, Len(q) - 1)
        PROVE  f \in Seq(S) /\ \A i \in 1..Len(f) : f[i] = q[i]
    BY <1>1, <2>1
  <2>2. QED
    BY <2>1 DEF Front
<1>5. QED
  BY <1>1, <1>2, <1>3, <1>4

\* Popping a queue without repetitions: the rest has none of the popped worker.
LEMMA PopQueue ==
  ASSUME CoreTypeOK, Constructed, Exclusive, queue # <<>>
  PROVE  /\ Front(queue) \in Seq(Workers)
         /\ Last(queue) \in Workers /\ Last(queue) \in 1..created
         /\ Len(Front(queue)) = Len(queue) - 1 /\ Len(queue) \in Nat
         /\ \A i \in 1..Len(Front(queue)) :
              /\ Front(queue)[i] = queue[i]
              /\ Front(queue)[i] # Last(queue)
         /\ \A r \in Serving : held[r] # Last(queue)
<1>1. /\ Len(queue) \in Nat /\ Len(queue) >= 1
      /\ Last(queue) = queue[Len(queue)] /\ Last(queue) \in Workers
      /\ Front(queue) \in Seq(Workers)
      /\ Len(Front(queue)) = Len(queue) - 1
      /\ \A i \in 1..Len(Front(queue)) : Front(queue)[i] = queue[i]
  <2>1. queue \in Seq(Workers)
    BY DEF CoreTypeOK
  <2>2. QED
    BY <2>1, FrontLast
<1>2. Last(queue) \in 1..created
  BY <1>1 DEF Constructed
<1>3. \A i \in 1..Len(Front(queue)) : Front(queue)[i] # Last(queue)
  BY <1>1 DEF Exclusive
<1>4. \A r \in Serving : held[r] # Last(queue)
  BY <1>1 DEF Exclusive
<1>5. QED
  BY <1>1, <1>2, <1>3, <1>4

\* A call that gets a worker from the queue becomes its only owner.
LEMMA TakeWorkerInv ==
  ASSUME CoreInv, NEW r \in Requests, call[r] \in {"idle", "polling"}, TakeWorker(r),
         buf' \in [Requests -> Buffers \cup {NoBuffer}],
         buf'[r] \in Buffers, \A q \in Requests : q # r => buf'[q] = buf[q],
         UNCHANGED <<workers, pending, nextId, initialized, created, thread, answer,
                     detached, inbox, outbox>>
  PROVE  CoreInv'
<1> USE DEF CoreInv
<1>1. PICK w \in Workers :
        /\ w = Last(queue) /\ w \in 1..created
        /\ queue' \in Seq(Workers)
        /\ Len(queue') = Len(queue) - 1 /\ Len(queue) \in Nat
        /\ \A i \in 1..Len(queue') : queue'[i] = queue[i] /\ queue'[i] # w
        /\ \A q \in Serving : held[q] # w
  BY PopQueue DEF TakeWorker, CoreTypeOK
<1>2. /\ held' = [held EXCEPT ![r] = w]
      /\ call' = [call EXCEPT ![r] = "resuming"]
  BY <1>1 DEF TakeWorker
<1>3. CoreTypeOK'
  BY <1>1, <1>2 DEF CoreTypeOK, Workers
<1>4. Serving' = Serving \cup {r} /\ r \notin Serving
  BY <1>2 DEF Serving, CoreTypeOK
<1>5. held'[r] = w /\ \A q \in Serving : held'[q] = held[q]
  BY <1>2, <1>4 DEF CoreTypeOK, Serving
<1>6. Constructed' /\ Exclusive'
  <2>1. Constructed'
    BY <1>1, <1>2, <1>4, <1>5 DEF Constructed, CoreTypeOK
  <2>2. \A i, j \in 1..Len(queue') : queue'[i] = queue'[j] => i = j
    BY <1>1 DEF Exclusive
  <2>3. \A q \in Serving' : \A i \in 1..Len(queue') : queue'[i] # held'[q]
    BY <1>1, <1>4, <1>5 DEF Exclusive
  <2>4. \A p, q \in Serving' : held'[p] = held'[q] => p = q
    BY <1>1, <1>4, <1>5 DEF Exclusive
  <2>5. QED
    BY <2>1, <2>2, <2>3, <2>4 DEF Exclusive
<1>7. EntriesDistinct' /\ MessagesDistinct'
  BY <1>2 DEF EntriesDistinct, MessagesDistinct, CoreTypeOK
<1>8. \A m, q : q \in Requests /\ Matches(m, q) => Matches(m, q)'
  BY <1>2 DEF Matches, CoreTypeOK
<1>9. RepliesFindTheirCaller'
  BY <1>8 DEF RepliesFindTheirCaller
<1>10. OwnAnswer' /\ NoLostRequest'
  BY <1>2, <1>8 DEF OwnAnswer, NoLostRequest, CoreTypeOK
<1>11. QED
  BY <1>3, <1>6, <1>7, <1>9, <1>10

\* A payload decoded on the main thread touches one call that was idle.
LEMMA DecodeHereInv ==
  ASSUME CoreInv, NEW r \in Requests, NEW b \in Buffers, NEW ok \in BOOLEAN,
         DecodeHere(r, b, ok)
  PROVE  CoreInv'
<1> USE DEF CoreInv, DecodeHere, Settle
<1>1. CoreTypeOK'
  BY DEF CoreTypeOK
<1>2. Serving' = Serving /\ r \notin Serving
  BY DEF Serving, CoreTypeOK
<1>3. Constructed' /\ Exclusive'
  BY <1>2 DEF Constructed, Exclusive, CoreTypeOK
<1>4. EntriesDistinct' /\ MessagesDistinct'
  BY DEF EntriesDistinct, MessagesDistinct, CoreTypeOK
<1>5. \A m, q : q \in Requests /\ Matches(m, q) => Matches(m, q)'
  BY DEF Matches, CoreTypeOK
<1>6. RepliesFindTheirCaller'
  BY <1>5 DEF RepliesFindTheirCaller
<1>7. OwnAnswer' /\ NoLostRequest'
  BY <1>5 DEF OwnAnswer, NoLostRequest, CoreTypeOK
<1>8. QED
  BY <1>1, <1>3, <1>4, <1>6, <1>7

\* A larger payload: the call takes a worker or starts to poll.
LEMMA DecodeOnWorkerInv ==
  ASSUME CoreInv, NEW r \in Requests, NEW b \in Buffers, DecodeOnWorker(r, b)
  PROVE  CoreInv'
<1> USE DEF CoreInv, DecodeOnWorker
<1>1. CASE TakeWorker(r)
  <2>1. buf' \in [Requests -> Buffers \cup {NoBuffer}]
    BY DEF CoreTypeOK
  <2>2. buf'[r] \in Buffers /\ \A q \in Requests : q # r => buf'[q] = buf[q]
    BY DEF CoreTypeOK
  <2>3. QED
    BY <1>1, <2>1, <2>2, TakeWorkerInv
<1>2. CASE queue = <<>> /\ call' = [call EXCEPT ![r] = "polling"]
           /\ UNCHANGED <<held, queue>>
  <2>1. CoreTypeOK'
    BY <1>2 DEF CoreTypeOK
  <2>2. Serving' = Serving
    BY <1>2 DEF Serving, CoreTypeOK
  <2>3. Constructed' /\ Exclusive'
    BY <1>2, <2>2 DEF Constructed, Exclusive, CoreTypeOK
  <2>4. EntriesDistinct' /\ MessagesDistinct'
    BY <1>2 DEF EntriesDistinct, MessagesDistinct, CoreTypeOK
  <2>5. \A m, q : q \in Requests /\ Matches(m, q) => Matches(m, q)'
    BY <1>2 DEF Matches, CoreTypeOK
  <2>6. RepliesFindTheirCaller'
    BY <2>5 DEF RepliesFindTheirCaller
  <2>7. OwnAnswer' /\ NoLostRequest'
    BY <1>2, <2>5 DEF OwnAnswer, NoLostRequest, CoreTypeOK
  <2>8. QED
    BY <2>1, <2>3, <2>4, <2>6, <2>7
<1>3. QED
  BY <1>1, <1>2

\* The interval of a poller takes a worker as getWorker() would have.
LEMMA PollTickInv ==
  ASSUME CoreInv, NEW r \in Requests, PollTick(r)
  PROVE  CoreInv'
<1>1. buf'[r] \in Buffers
  BY DEF PollTick, CoreInv, Constructed
<1>2. QED
  BY <1>1, TakeWorkerInv DEF PollTick, CoreInv, CoreTypeOK

\* init() adds workers nobody has seen.
LEMMA SpawnWorkersInv ==
  ASSUME CoreInv, SpawnWorkers, initialized' \in BOOLEAN,
         UNCHANGED <<pending, nextId, call, buf, held, answer, detached, inbox, outbox>>
  PROVE  CoreInv'
<1> DEFINE fresh == [i \in 1..PoolSize |-> created + i]
<1> USE DEF CoreInv
<1>1. /\ PoolSize \in Nat /\ MaxWorkers \in Nat /\ created \in Nat
      /\ created + PoolSize <= MaxWorkers /\ created' = created + PoolSize
      /\ queue' = queue \o fresh
  BY PoolAssumption DEF SpawnWorkers, CoreTypeOK
<1>2. queue \in Seq(Workers)
  BY DEF CoreTypeOK
<1>3. fresh \in Seq(Workers) /\ Len(fresh) = PoolSize
  BY <1>1 DEF Workers
<1>4. /\ queue' \in Seq(Workers) /\ Len(queue) \in Nat
      /\ Len(queue') = Len(queue) + PoolSize
      /\ \A i \in 1..Len(queue') : queue'[i] =
            IF i <= Len(queue) THEN queue[i] ELSE created + (i - Len(queue))
  <2>1. /\ queue \o fresh \in Seq(Workers)
        /\ Len(queue \o fresh) = Len(queue) + Len(fresh)
        /\ \A i \in 1..(Len(queue) + Len(fresh)) : (queue \o fresh)[i] =
              IF i <= Len(queue) THEN queue[i] ELSE fresh[i - Len(queue)]
    BY <1>2, <1>3, ConcatProperties
  <2>2. Len(queue) \in Nat
    BY <1>2
  <2>3. \A i \in 1..(Len(queue) + PoolSize) : i > Len(queue) =>
          fresh[i - Len(queue)] = created + (i - Len(queue))
    BY <1>1, <2>2
  <2>4. QED
    BY <1>1, <1>3, <2>1, <2>2, <2>3
<1> HIDE DEF fresh
<1>5. CoreTypeOK'
  BY <1>1, <1>4 DEF CoreTypeOK, SpawnWorkers, Workers
<1>6. Serving' = Serving
  BY DEF Serving
<1>7. Constructed'
  BY <1>1, <1>4, <1>6, SMTT(30) DEF Constructed
<1>8. Exclusive'
  <2>1. \A i \in 1..Len(queue) : queue[i] \in Nat /\ queue[i] <= created
    BY <1>1 DEF Constructed
  <2>2. ASSUME NEW i \in 1..Len(queue'), NEW j \in 1..Len(queue'),
               queue'[i] = queue'[j]
        PROVE  i = j
    <3>1. i \in Nat /\ j \in Nat /\ i <= Len(queue') /\ j <= Len(queue')
      BY <1>1, <1>4
    <3>2. CASE i <= Len(queue) /\ j <= Len(queue)
      BY <1>4, <2>2, <3>1, <3>2 DEF Exclusive
    <3>3. CASE i <= Len(queue) /\ j > Len(queue)
      BY <1>1, <1>4, <2>1, <2>2, <3>1, <3>3
    <3>4. CASE i > Len(queue) /\ j <= Len(queue)
      BY <1>1, <1>4, <2>1, <2>2, <3>1, <3>4
    <3>5. CASE i > Len(queue) /\ j > Len(queue)
      BY <1>1, <1>4, <2>2, <3>1, <3>5
    <3>6. QED
      BY <1>4, <3>1, <3>2, <3>3, <3>4, <3>5
  <2>3. ASSUME NEW r \in Serving, NEW i \in 1..Len(queue')
        PROVE  queue'[i] # held[r]
    <3>1. held[r] \in Nat /\ held[r] <= created
      BY <1>1 DEF Constructed
    <3>2. CASE i <= Len(queue)
      BY <1>1, <1>4, <3>2 DEF Exclusive
    <3>3. CASE i > Len(queue)
      BY <1>1, <1>4, <3>1, <3>3
    <3>4. QED
      BY <1>1, <1>4, <3>2, <3>3
  <2>4. UNCHANGED held /\ \A r, q \in Serving : held[r] = held[q] => r = q
    BY DEF Exclusive
  <2>5. QED
    BY <1>6, <2>2, <2>3, <2>4 DEF Exclusive
<1>9. EntriesDistinct' /\ MessagesDistinct'
  BY DEF EntriesDistinct, MessagesDistinct
<1>10. \A m, q : Matches(m, q) => Matches(m, q)'
  BY DEF Matches
<1>11. RepliesFindTheirCaller' /\ OwnAnswer'
  BY <1>10 DEF RepliesFindTheirCaller, OwnAnswer
<1>12. \A r \in Serving : thread'[held[r]] = thread[held[r]]
  BY <1>1 DEF Constructed, CoreTypeOK, SpawnWorkers, Workers
<1>13. NoLostRequest'
  BY <1>10, <1>12 DEF NoLostRequest, Serving
<1>14. QED
  BY <1>5, <1>7, <1>8, <1>9, <1>11, <1>13

\* No entry or message carries the id about to be given out, and no entry
\* belongs to a call that has yet to register.
LEMMA FreshId ==
  ASSUME CoreInv
  PROVE  /\ \A p \in pending : p.id # nextId
         /\ \A m \in inbox \cup outbox : m.id # nextId
         /\ \A p \in pending : call[p.req] # "resuming"
<1>1. \A p \in pending : p.id < nextId /\ p.id \in Nat /\ call[p.req] # "resuming"
  BY DEF CoreInv, EntriesDistinct, CoreTypeOK
<1>2. \A m \in inbox \cup outbox : \E p \in pending : p.id = m.id
  BY DEF CoreInv, RepliesFindTheirCaller, Matches
<1>3. QED
  BY <1>1, <1>2 DEF CoreInv, CoreTypeOK

\* A call registers under a fresh id and posts its request.
LEMMA PostRequestInv ==
  ASSUME CoreInv, NEW r \in Requests, Register(r), PostRequest(r),
         buf[r] \in Buffers, detached' \subseteq Buffers,
         UNCHANGED <<workers, queue, initialized, created, thread, buf, held, answer,
                     outbox>>
  PROVE  CoreInv'
<1> DEFINE entry == [id |-> nextId, req |-> r]
<1> USE DEF CoreInv
<1>1. PICK msg :
        /\ msg = [id |-> nextId, worker |-> held[r], buf |-> buf[r]]
        /\ pending' = pending \cup {entry} /\ inbox' = inbox \cup {msg}
        /\ nextId' = nextId + 1 /\ nextId \in Nat
        /\ call[r] = "resuming" /\ call' = [call EXCEPT ![r] = "awaiting"]
  BY FreshId DEF Register, PostRequest, CoreTypeOK
<1>2. held[r] \in Workers
  BY <1>1 DEF Constructed, Serving, Workers, CoreTypeOK
<1>3. CoreTypeOK'
  BY <1>1, <1>2 DEF CoreTypeOK
<1>4. Serving' = Serving
  BY <1>1 DEF Serving, CoreTypeOK
<1>5. Constructed' /\ Exclusive'
  BY <1>1, <1>4 DEF Constructed, Exclusive
<1>6. EntriesDistinct'
  <2>1. \A p \in pending' : p.id < nextId' /\ call'[p.req] \in {"awaiting", "rejected"}
    BY <1>1 DEF EntriesDistinct, CoreTypeOK
  <2>2. \A p, q \in pending' : p.id = q.id \/ p.req = q.req => p = q
    BY <1>1, FreshId DEF EntriesDistinct, CoreTypeOK
  <2>3. QED
    BY <2>1, <2>2 DEF EntriesDistinct
<1>7. MessagesDistinct'
  BY <1>1, FreshId DEF MessagesDistinct
<1>8. \A m, q : q \in Requests /\ Matches(m, q) => Matches(m, q)'
  BY <1>1 DEF Matches, CoreTypeOK
<1>9. Matches(msg, r)'
  BY <1>1 DEF Matches, CoreTypeOK
<1>10. RepliesFindTheirCaller'
  BY <1>1, <1>8, <1>9 DEF RepliesFindTheirCaller
<1>11. OwnAnswer'
  BY <1>1 DEF OwnAnswer, CoreTypeOK
<1>12. NoLostRequest'
  <2>1. ASSUME NEW q \in Requests, call'[q] = "awaiting", q # r
        PROVE  call[q] = "awaiting"
    BY <1>1, <2>1 DEF CoreTypeOK
  <2>2. QED
    BY <1>1, <1>8, <1>9, <2>1 DEF NoLostRequest
<1>13. QED
  BY <1>3, <1>5, <1>6, <1>7, <1>10, <1>11, <1>12

\* postMessage() throws: the entry stays, the call is rejected.
LEMMA PostFailsInv ==
  ASSUME CoreInv, NEW r \in Requests, Register(r),
         call' = [call EXCEPT ![r] = "rejected"],
         UNCHANGED <<workers, queue, initialized, created, thread, buf, held, answer,
                     detached, inbox, outbox>>
  PROVE  CoreInv'
<1> DEFINE entry == [id |-> nextId, req |-> r]
<1> USE DEF CoreInv
<1>1. /\ pending' = pending \cup {entry}
      /\ nextId' = nextId + 1 /\ nextId \in Nat
      /\ call[r] = "resuming"
  BY FreshId DEF Register, CoreTypeOK
<1>2. CoreTypeOK'
  BY <1>1 DEF CoreTypeOK
<1>3. Serving' = Serving \ {r}
  BY <1>1 DEF Serving, CoreTypeOK
<1>4. Constructed' /\ Exclusive'
  BY <1>1, <1>3 DEF Constructed, Exclusive, CoreTypeOK
<1>5. EntriesDistinct'
  <2>1. \A p \in pending' : p.id < nextId' /\ call'[p.req] \in {"awaiting", "rejected"}
    BY <1>1 DEF EntriesDistinct, CoreTypeOK
  <2>2. \A p, q \in pending' : p.id = q.id \/ p.req = q.req => p = q
    BY <1>1, FreshId DEF EntriesDistinct, CoreTypeOK
  <2>3. QED
    BY <2>1, <2>2 DEF EntriesDistinct
<1>6. MessagesDistinct'
  BY DEF MessagesDistinct
<1>7. \A m, q : q \in Requests /\ Matches(m, q) => Matches(m, q)'
  BY <1>1 DEF Matches, CoreTypeOK
<1>8. RepliesFindTheirCaller'
  BY <1>7 DEF RepliesFindTheirCaller
<1>9. OwnAnswer' /\ NoLostRequest'
  BY <1>1, <1>7 DEF OwnAnswer, NoLostRequest, CoreTypeOK
<1>10. QED
  BY <1>2, <1>4, <1>5, <1>6, <1>8, <1>9

\* A worker answers: the request turns into the reply with the same id.
LEMMA AnswerInv ==
  ASSUME CoreInv, NEW m \in inbox, NEW ok \in BOOLEAN, Answer(m, ok)
  PROVE  CoreInv'
<1> DEFINE reply == [id |-> m.id, worker |-> m.worker, buf |-> m.buf, ok |-> ok]
<1> USE DEF CoreInv
<1>1. inbox' = inbox \ {m} /\ outbox' = outbox \cup {reply}
  BY DEF Answer
<1>2. m \in Messages /\ reply \in Replies
  BY DEF CoreTypeOK
<1>3. UNCHANGED <<workers, queue, pending, nextId, initialized, created, thread,
                  call, buf, held, answer, detached>>
  BY DEF Answer
<1>4. CoreTypeOK'
  BY <1>1, <1>2, <1>3 DEF CoreTypeOK
<1>5. Constructed' /\ Exclusive' /\ EntriesDistinct' /\ OwnAnswer'
  BY <1>3 DEF Constructed, Exclusive, EntriesDistinct, OwnAnswer, Serving
<1>6. MessagesDistinct'
  BY <1>1 DEF MessagesDistinct
<1>7. \A n, q : Matches(n, q) => Matches(n, q)'
  BY <1>3 DEF Matches
<1>8. \A q : Matches(m, q) => Matches(reply, q)'
  BY <1>3 DEF Matches
<1>9. \A n \in inbox \cup outbox : n # m => n \in inbox' \cup outbox'
  BY <1>1
<1>10. RepliesFindTheirCaller'
  <2> HIDE DEF reply
  <2>1. QED
    BY <1>1, <1>7, <1>8 DEF RepliesFindTheirCaller
<1>11. NoLostRequest'
  <2> HIDE DEF reply
  <2>1. QED
    BY <1>1, <1>3, <1>7, <1>8, <1>9 DEF NoLostRequest
<1>12. QED
  BY <1>4, <1>5, <1>6, <1>10, <1>11

\* The reply being dispatched has exactly one entry, and its call still waits
\* for the worker that sent it.
LEMMA DispatchTarget ==
  ASSUME CoreInv, NEW m \in outbox
  PROVE  \E r \in Requests :
           /\ Matches(m, r)
           /\ \A p \in pending : p.id = m.id => p = [id |-> m.id, req |-> r]
<1>1. PICK r \in Requests : Matches(m, r)
  BY DEF CoreInv, RepliesFindTheirCaller
<1>2. \A p \in pending : p.id = m.id => p = [id |-> m.id, req |-> r]
  BY <1>1 DEF CoreInv, EntriesDistinct, Matches
<1>3. QED
  BY <1>1, <1>2

\* The message handler ends the one call the reply is for and queues a worker
\* that call alone was holding.
LEMMA DispatchInv ==
  ASSUME CoreInv, NEW m \in outbox, Dispatch(m)
  PROVE  CoreInv'
<1> USE DEF CoreInv
<1>1. PICK r \in Requests :
        /\ Matches(m, r)
        /\ \A p \in pending : p.id = m.id => p = [id |-> m.id, req |-> r]
  BY DispatchTarget
<1>2. /\ m \in Replies /\ call[r] = "awaiting" /\ held[r] = m.worker /\ buf[r] = m.buf
      /\ m.id \in Nat /\ m.worker \in Workers /\ m.buf \in Buffers
  BY <1>1 DEF Matches, CoreTypeOK
<1>3. /\ outbox' = outbox \ {m}
      /\ pending' = pending \ {[id |-> m.id, req |-> r]}
      /\ queue' = Append(queue, m.worker)
      /\ call' = [call EXCEPT ![r] = IF m.ok THEN "resolved" ELSE "rejected"]
      /\ answer' = [answer EXCEPT ![r] = IF m.ok THEN m.buf ELSE @]
      /\ UNCHANGED <<workers, nextId, initialized, created, thread, buf, held,
                     detached, inbox>>
  BY <1>1, <1>2 DEF Dispatch, Settled, Matches
<1>4. /\ queue' \in Seq(Workers) /\ Len(queue) \in Nat
      /\ Len(queue') = Len(queue) + 1
      /\ \A i \in 1..Len(queue') : queue'[i] =
            IF i <= Len(queue) THEN queue[i] ELSE m.worker
  BY <1>2, <1>3, AppendProperties DEF CoreTypeOK
<1>5. CoreTypeOK'
  BY <1>2, <1>3, <1>4 DEF CoreTypeOK
<1>6. Serving' = Serving \ {r} /\ r \in Serving
  BY <1>2, <1>3 DEF Serving, CoreTypeOK
<1>7. Constructed'
  BY <1>2, <1>3, <1>4, <1>6 DEF Constructed
<1>8. Exclusive'
  <2>1. \A i \in 1..Len(queue) : queue[i] # m.worker
    BY <1>2, <1>6 DEF Exclusive
  <2>2. \A i, j \in 1..Len(queue') : queue'[i] = queue'[j] => i = j
    BY <1>4, <2>1 DEF Exclusive
  <2>3. \A q \in Serving' : held[q] # m.worker
    BY <1>2, <1>6 DEF Exclusive
  <2>4. \A q \in Serving' : \A i \in 1..Len(queue') : queue'[i] # held'[q]
    BY <1>3, <1>4, <1>6, <2>3 DEF Exclusive
  <2>5. \A p, q \in Serving' : held'[p] = held'[q] => p = q
    BY <1>3, <1>6 DEF Exclusive
  <2>6. QED
    BY <2>2, <2>4, <2>5 DEF Exclusive
<1>9. \A p \in pending' : p \in pending /\ p.req # r
  BY <1>1, <1>3 DEF EntriesDistinct, Matches
<1>10. EntriesDistinct'
  BY <1>3, <1>9 DEF EntriesDistinct, CoreTypeOK
<1>11. MessagesDistinct'
  BY <1>3 DEF MessagesDistinct
<1>12. \A n, q : q \in Requests /\ n.id # m.id /\ Matches(n, q) => Matches(n, q)'
  <2>1. SUFFICES ASSUME NEW n, NEW q \in Requests, n.id # m.id, Matches(n, q)
                 PROVE  Matches(n, q)'
    OBVIOUS
  <2>2. [id |-> n.id, req |-> q] \in pending'
    BY <1>3, <2>1 DEF Matches
  <2>3. q # r
    BY <1>9, <2>2
  <2>4. QED
    BY <1>3, <2>1, <2>2, <2>3 DEF Matches, CoreTypeOK
<1>13. \A n \in inbox' \cup outbox' : n \in inbox \cup outbox /\ n.id # m.id
  BY <1>3 DEF MessagesDistinct
<1>14. RepliesFindTheirCaller'
  BY <1>12, <1>13 DEF RepliesFindTheirCaller
<1>15. OwnAnswer'
  BY <1>2, <1>3 DEF OwnAnswer, CoreTypeOK
<1>16. NoLostRequest'
  <2>1. SUFFICES ASSUME NEW q \in Requests, call'[q] = "awaiting"
                 PROVE  \/ \E n \in inbox' \cup outbox' : Matches(n, q)'
                        \/ thread'[held'[q]] = "dead"
    BY DEF NoLostRequest
  <2>2. call[q] = "awaiting" /\ q # r
    BY <1>3, <2>1 DEF CoreTypeOK
  <2>3. CASE thread[held[q]] = "dead"
    BY <1>3, <2>3
  <2>4. CASE \E n \in inbox \cup outbox : Matches(n, q)
    <3>1. PICK n \in inbox \cup outbox : Matches(n, q)
      BY <2>4
    <3>2. n.id # m.id
      BY <1>1, <2>2, <3>1 DEF Matches
    <3>3. n \in inbox' \cup outbox'
      BY <1>3, <3>2
    <3>4. QED
      BY <1>12, <3>1, <3>2, <3>3
  <2>5. QED
    BY <2>2, <2>3, <2>4 DEF NoLostRequest
<1>17. QED
  BY <1>5, <1>7, <1>8, <1>10, <1>11, <1>14, <1>15, <1>16

\* terminate() drops messages of workers it stops, and nothing else is lost.
LEMMA TerminateInv ==
  ASSUME CoreInv, Terminate
  PROVE  CoreInv'
<1> USE DEF CoreInv
<1>1. /\ queue' = <<>> /\ workers' = {} /\ initialized' = FALSE
      /\ thread' = [w \in Workers |-> IF w \in workers THEN "dead" ELSE thread[w]]
      /\ outbox' \subseteq outbox
      /\ \A m \in outbox : m \in outbox' \/ m.worker \in workers
      /\ UNCHANGED <<pending, nextId, created, call, buf, held, answer, detached, inbox>>
  BY DEF Terminate
<1>2. CoreTypeOK'
  <2>1. queue' \in Seq(Workers) /\ Len(queue') = 0
    BY <1>1, EmptySeq
  <2>2. QED
    BY <1>1, <2>1 DEF CoreTypeOK
<1>3. Constructed' /\ Exclusive'
  <2>1. Len(queue') = 0 /\ Serving' = Serving
    BY <1>1 DEF Serving
  <2>2. QED
    BY <1>1, <2>1 DEF Constructed, Exclusive
<1>4. EntriesDistinct' /\ MessagesDistinct'
  BY <1>1 DEF EntriesDistinct, MessagesDistinct
<1>5. \A m, q : Matches(m, q) => Matches(m, q)'
  BY <1>1 DEF Matches
<1>6. RepliesFindTheirCaller' /\ OwnAnswer'
  BY <1>1, <1>5 DEF RepliesFindTheirCaller, OwnAnswer
<1>7. \A w \in Workers : thread[w] = "dead" \/ w \in workers => thread'[w] = "dead"
  BY <1>1
<1>8. NoLostRequest'
  <2>1. SUFFICES ASSUME NEW q \in Requests, call[q] = "awaiting"
                 PROVE  \/ \E n \in inbox' \cup outbox' : Matches(n, q)'
                        \/ thread'[held[q]] = "dead"
    BY <1>1 DEF NoLostRequest
  <2>2. held[q] \in Workers
    BY <2>1 DEF Constructed, Serving, CoreTypeOK, Workers
  <2>3. CASE thread[held[q]] = "dead"
    BY <1>7, <2>2, <2>3
  <2>4. CASE \E n \in inbox \cup outbox : Matches(n, q)
    <3>1. PICK n \in inbox \cup outbox : Matches(n, q)
      BY <2>4
    <3>2. CASE n \in inbox' \cup outbox'
      BY <1>5, <3>1, <3>2
    <3>3. CASE n.worker \in workers
      BY <1>7, <2>2, <3>1, <3>3 DEF Matches
    <3>4. QED
      BY <1>1, <3>1, <3>2, <3>3
  <2>5. QED
    BY <2>1, <2>3, <2>4 DEF NoLostRequest
<1>9. QED
  BY <1>2, <1>3, <1>4, <1>6, <1>8

\* A thread that starts or dies on its own disturbs nothing else; a dead one
\* stays dead.
LEMMA ThreadInv ==
  ASSUME CoreInv, NEW w \in Workers, thread[w] # "dead",
         NEW s \in {"running", "dead"}, thread' = [thread EXCEPT ![w] = s],
         UNCHANGED <<workers, queue, pending, nextId, initialized, created, call, buf,
                     held, answer, detached, inbox, outbox>>
  PROVE  CoreInv'
<1> USE DEF CoreInv
<1>1. CoreTypeOK'
  BY DEF CoreTypeOK
<1>2. Constructed' /\ Exclusive' /\ EntriesDistinct' /\ MessagesDistinct'
  BY DEF Constructed, Exclusive, EntriesDistinct, MessagesDistinct, Serving
<1>3. \A m, q : Matches(m, q) => Matches(m, q)'
  BY DEF Matches
<1>4. RepliesFindTheirCaller' /\ OwnAnswer'
  BY <1>3 DEF RepliesFindTheirCaller, OwnAnswer
<1>5. \A v : v \in Workers /\ thread[v] = "dead" => thread'[v] = "dead"
  BY DEF CoreTypeOK
<1>6. \A q \in Requests : call[q] = "awaiting" => held[q] \in Workers
  BY DEF Constructed, Serving, CoreTypeOK, Workers
<1>7. NoLostRequest'
  BY <1>3, <1>5, <1>6 DEF NoLostRequest
<1>8. QED
  BY <1>1, <1>2, <1>4, <1>7

\* Setting the initialized flag disturbs nothing else.
LEMMA FlagInv ==
  ASSUME CoreInv, initialized' = TRUE,
         UNCHANGED <<workers, queue, pending, nextId, created, thread, call, buf, held,
                     answer, detached, inbox, outbox>>
  PROVE  CoreInv'
<1> USE DEF CoreInv
<1>1. initialized' \in BOOLEAN
  BY Zenon
<1>2. CoreTypeOK'
  BY <1>1 DEF CoreTypeOK
<1>3. Constructed' /\ Exclusive' /\ EntriesDistinct' /\ MessagesDistinct'
  BY DEF Constructed, Exclusive, EntriesDistinct, MessagesDistinct, Serving
<1>4. \A m, q : Matches(m, q) => Matches(m, q)'
  BY DEF Matches
<1>5. RepliesFindTheirCaller' /\ OwnAnswer' /\ NoLostRequest'
  BY <1>4 DEF RepliesFindTheirCaller, OwnAnswer, NoLostRequest
<1>6. QED
  BY <1>2, <1>3, <1>5

\* Some payload loses its ArrayBuffer.
LEMMA DetachCoreInv ==
  ASSUME CoreInv, detached' \subseteq Buffers,
         UNCHANGED <<workers, queue, pending, nextId, initialized, created, thread, call,
                     buf, held, answer, inbox, outbox>>
  PROVE  CoreInv'
<1> USE DEF CoreInv
<1>1. CoreTypeOK'
  BY DEF CoreTypeOK
<1>2. Constructed' /\ Exclusive' /\ EntriesDistinct' /\ MessagesDistinct'
  BY DEF Constructed, Exclusive, EntriesDistinct, MessagesDistinct, Serving
<1>3. \A m, q : Matches(m, q) => Matches(m, q)'
  BY DEF Matches
<1>4. RepliesFindTheirCaller' /\ OwnAnswer' /\ NoLostRequest'
  BY <1>3 DEF RepliesFindTheirCaller, OwnAnswer, NoLostRequest
<1>5. QED
  BY <1>1, <1>2, <1>4

\* A step that leaves the pool alone.
LEMMA StutterInv == CoreInv /\ UNCHANGED coreVars => CoreInv'
<1> SUFFICES ASSUME CoreInv, UNCHANGED coreVars
             PROVE  CoreInv'
  OBVIOUS
<1> USE DEF CoreInv, coreVars
<1>1. CoreTypeOK'
  BY DEF CoreTypeOK
<1>2. Constructed' /\ Exclusive' /\ EntriesDistinct' /\ MessagesDistinct'
  BY DEF Constructed, Exclusive, EntriesDistinct, MessagesDistinct, Serving
<1>3. \A m, q : Matches(m, q) => Matches(m, q)'
  BY DEF Matches
<1>4. RepliesFindTheirCaller' /\ OwnAnswer' /\ NoLostRequest'
  BY <1>3 DEF RepliesFindTheirCaller, OwnAnswer, NoLostRequest
<1>5. QED
  BY <1>1, <1>2, <1>4

\* A new pool object.
LEMMA CoreInitInv == CoreInit => CoreInv
<1> SUFFICES ASSUME CoreInit
             PROVE  CoreInv
  OBVIOUS
<1> USE PoolAssumption DEF CoreInit
<1>1. CoreTypeOK
  <2>1. queue \in Seq(Workers)
    BY EmptySeq
  <2>2. workers \subseteq Workers /\ pending \subseteq [id : Nat, req : Requests]
    OBVIOUS
  <2>3. detached \subseteq Buffers /\ inbox \subseteq Messages /\ outbox \subseteq Replies
    OBVIOUS
  <2>4. nextId \in Nat /\ created \in 0..MaxWorkers /\ held \in [Requests -> 0..MaxWorkers]
    OBVIOUS
  <2>5. initialized \in BOOLEAN
    BY Zenon
  <2>6. /\ thread \in [Workers -> {"none", "starting", "running", "dead"}]
        /\ call \in [Requests -> Phases]
        /\ buf \in [Requests -> Buffers \cup {NoBuffer}]
        /\ answer \in [Requests -> Buffers \cup {NoBuffer}]
    OBVIOUS
  <2>7. QED
    BY <2>1, <2>2, <2>3, <2>4, <2>5, <2>6 DEF CoreTypeOK
<1>2. Constructed /\ Exclusive /\ EntriesDistinct /\ MessagesDistinct
  BY DEF Constructed, Exclusive, EntriesDistinct, MessagesDistinct, Serving
<1>3. RepliesFindTheirCaller /\ OwnAnswer /\ NoLostRequest
  BY DEF RepliesFindTheirCaller, OwnAnswer, NoLostRequest
<1>4. QED
  BY <1>1, <1>2, <1>3 DEF CoreInv

-----------------------------------------------------------------------------
(* The workers that are queued or held by a call in progress: what the     *)
(* steps of a call pass from hand to hand.                                 *)

Queued == {queue[i] : i \in 1..Len(queue)}
Owned == Queued \cup {held[r] : r \in Serving}

\* The workers of calls whose postMessage() threw: their entries stay.
Abandoned == {held[p.req] : p \in {e \in pending : call[e.req] = "rejected"}}

\* A step that concerns one call abandons no worker, as long as the call has no
\* entry left when it is rejected.
LEMMA NoneAbandoned ==
  ASSUME NEW r \in Requests, pending \subseteq [id : Nat, req : Requests],
         \A q \in Requests : q # r => call'[q] = call[q] /\ held'[q] = held[q],
         pending' \subseteq [id : Nat, req : Requests],
         \A p : p.req # r => (p \in pending' <=> p \in pending),
         \A p \in pending : p.req = r => call[r] # "rejected",
         \A p \in pending' : p.req = r => call'[r] # "rejected"
  PROVE  Abandoned' = Abandoned
<1>1. \A p \in pending : p.req \in Requests
  OBVIOUS
<1>2. \A p \in pending' : p.req \in Requests
  OBVIOUS
<1>3. \A p : p \in pending /\ call[p.req] = "rejected" =>
              p \in pending' /\ call'[p.req] = "rejected" /\ held'[p.req] = held[p.req]
  BY <1>1
<1>4. \A p : p \in pending' /\ call'[p.req] = "rejected" =>
              p \in pending /\ call[p.req] = "rejected" /\ held'[p.req] = held[p.req]
  BY <1>2
<1>5. QED
  BY <1>3, <1>4 DEF Abandoned

\* init() makes every worker it constructs an owned one: it is queued.
LEMMA SpawnOwned ==
  ASSUME CoreInv, SpawnWorkers, UNCHANGED <<call, held>>
  PROVE  Owned' = Owned \cup (created + 1 .. created + PoolSize)
<1> DEFINE fresh == [i \in 1..PoolSize |-> created + i]
<1>1. /\ PoolSize \in Nat /\ created \in Nat /\ created + PoolSize <= MaxWorkers
      /\ MaxWorkers \in Nat /\ queue' = queue \o fresh /\ queue \in Seq(Workers)
  BY PoolAssumption DEF SpawnWorkers, CoreInv, CoreTypeOK
<1>2. fresh \in Seq(Workers) /\ Len(fresh) = PoolSize
  BY <1>1 DEF Workers
<1>3. /\ Len(queue') = Len(queue) + PoolSize /\ Len(queue) \in Nat
      /\ \A i \in 1..Len(queue') : queue'[i] =
           IF i <= Len(queue) THEN queue[i] ELSE fresh[i - Len(queue)]
  BY <1>1, <1>2, ConcatProperties, LenProperties
<1>4. /\ \A i \in 1..Len(queue') :
           i > Len(queue) => queue'[i] = created + (i - Len(queue))
      /\ \A i \in 1..Len(queue) : i \in 1..Len(queue') /\ queue'[i] = queue[i]
  BY <1>1, <1>3
<1> HIDE DEF fresh
<1>5. ASSUME NEW i \in 1..Len(queue')
      PROVE  queue'[i] \in Queued \cup (created + 1 .. created + PoolSize)
  <2>1. CASE i \in 1..Len(queue)
    BY <1>4, <2>1 DEF Queued
  <2>2. CASE i > Len(queue)
    BY <1>1, <1>3, <1>4, <2>2
  <2> QED
    BY <1>3, <2>1, <2>2
<1>6. Queued \subseteq Queued'
  BY <1>4 DEF Queued
<1>7. ASSUME NEW w \in created + 1 .. created + PoolSize
      PROVE  w \in Queued'
  <2>1. Len(queue) + (w - created) \in 1..Len(queue')
    BY <1>1, <1>3
  <2>2. /\ Len(queue) + (w - created) > Len(queue)
        /\ created + ((Len(queue) + (w - created)) - Len(queue)) = w
    BY <1>1, <1>3
  <2>3. queue'[Len(queue) + (w - created)] = w
    BY <1>4, <2>1, <2>2
  <2> QED
    BY <2>1, <2>3 DEF Queued
<1>8. Queued' = Queued \cup (created + 1 .. created + PoolSize)
  <2>1. Queued' = {queue'[i] : i \in 1..Len(queue')}
    BY DEF Queued
  <2> QED
    BY <1>5, <1>6, <1>7, <2>1
<1> QED
  BY <1>8 DEF Owned, Serving

\* getWorker() moves the last worker of the queue to the call.
LEMMA TakeOwned ==
  ASSUME CoreInv, NEW r \in Requests, call[r] \in {"idle", "polling"}, TakeWorker(r)
  PROVE  /\ Owned' = Owned
         /\ Serving' = Serving \cup {r} /\ r \notin Serving
         /\ \A q \in Requests : q # r => held'[q] = held[q]
<1>1. /\ Len(Front(queue)) = Len(queue) - 1 /\ Len(queue) \in Nat /\ Len(queue) >= 1
      /\ Last(queue) = queue[Len(queue)]
      /\ \A i \in 1..Len(Front(queue)) : Front(queue)[i] = queue[i]
  BY FrontLast DEF TakeWorker, CoreInv, CoreTypeOK
<1>2. /\ held' = [held EXCEPT ![r] = Last(queue)] /\ queue' = Front(queue)
      /\ call' = [call EXCEPT ![r] = "resuming"]
  BY DEF TakeWorker
<1>3. Serving' = Serving \cup {r} /\ r \notin Serving
  BY <1>2 DEF Serving, CoreInv, CoreTypeOK
<1>4. /\ held'[r] = queue[Len(queue)] /\ \A q \in Requests : q # r => held'[q] = held[q]
      /\ \A q \in Serving : held'[q] = held[q]
  BY <1>1, <1>2, <1>3 DEF CoreInv, CoreTypeOK, Serving
<1>5. \A i \in 1..Len(queue) : i = Len(queue) \/ i \in 1..Len(queue')
  BY <1>1, <1>2
<1>6. \A i \in 1..Len(queue') : queue'[i] = queue[i] /\ i \in 1..Len(queue)
  BY <1>1, <1>2
<1>7. Len(queue) \in 1..Len(queue)
  BY <1>1
<1>8. Queued = Queued' \cup {queue[Len(queue)]}
  BY <1>5, <1>6, <1>7 DEF Queued
<1>9. {held'[q] : q \in Serving'} = {held[q] : q \in Serving} \cup {queue[Len(queue)]}
  BY <1>3, <1>4
<1> QED
  BY <1>3, <1>4, <1>8, <1>9 DEF Owned

\* A call that begins to poll has no worker yet.
LEMMA PollsOwned ==
  ASSUME CoreInv, NEW r \in Requests, call[r] = "idle",
         call' = [call EXCEPT ![r] = "polling"], UNCHANGED <<held, queue>>
  PROVE  Owned' = Owned
<1>1. Serving' = Serving
  BY DEF Serving, CoreInv, CoreTypeOK
<1> QED
  BY <1>1 DEF Owned, Queued

\* What the message handler does, when it does anything.
LEMMA DispatchEffect ==
  ASSUME CoreInv, NEW m \in outbox, Dispatch(m)
  PROVE  \E r \in Requests :
           /\ Matches(m, r) /\ call[r] = "awaiting"
           /\ queue' = Append(queue, m.worker)
           /\ call' = [call EXCEPT ![r] = IF m.ok THEN "resolved" ELSE "rejected"]
           /\ answer' = [answer EXCEPT ![r] = IF m.ok THEN buf[r] ELSE @]
           /\ pending' = pending \ {[id |-> m.id, req |-> r]}
           /\ \A p \in pending : p.req = r => p = [id |-> m.id, req |-> r]
           /\ UNCHANGED <<workers, created, held, buf, initialized, thread>>
<1>1. PICK r \in Requests :
        /\ Matches(m, r)
        /\ \A p \in pending : p.id = m.id => p = [id |-> m.id, req |-> r]
  BY DispatchTarget
<1>2. /\ call[r] = "awaiting" /\ [id |-> m.id, req |-> r] \in pending /\ buf[r] = m.buf
  BY <1>1 DEF Matches
<1>3. \A p \in pending : p.req = r => p = [id |-> m.id, req |-> r]
  BY <1>2 DEF CoreInv, EntriesDistinct
<1>4. /\ queue' = Append(queue, m.worker)
      /\ call' = [call EXCEPT ![r] = IF m.ok THEN "resolved" ELSE "rejected"]
      /\ answer' = [answer EXCEPT ![r] = IF m.ok THEN m.buf ELSE @]
      /\ pending' = pending \ {[id |-> m.id, req |-> r]}
      /\ UNCHANGED <<workers, created, held, buf, initialized, thread>>
  BY <1>1, <1>2 DEF Dispatch, Settled
<1> QED
  BY <1>1, <1>2, <1>3, <1>4

\* The message handler moves the worker from the call back to the queue.
LEMMA DispatchOwned ==
  ASSUME CoreInv, NEW m \in outbox, Dispatch(m)
  PROVE  Owned' = Owned
<1>1. PICK r \in Requests :
        /\ Matches(m, r) /\ call[r] = "awaiting" /\ queue' = Append(queue, m.worker)
        /\ call' = [call EXCEPT ![r] = IF m.ok THEN "resolved" ELSE "rejected"]
        /\ held' = held
  BY DispatchEffect
<1>2. held[r] = m.worker /\ m.worker \in Workers
  <2>1. m \in Replies
    BY DEF CoreInv, CoreTypeOK
  <2> QED
    BY <1>1, <2>1 DEF Matches, Replies
<1>3. /\ Len(queue) \in Nat /\ Len(queue') = Len(queue) + 1
      /\ \A i \in 1..Len(queue) : queue'[i] = queue[i]
      /\ queue'[Len(queue) + 1] = m.worker
  BY <1>1, <1>2, AppendProperties, LenProperties DEF CoreInv, CoreTypeOK
<1>4. Serving' = Serving \ {r} /\ r \in Serving
  BY <1>1 DEF Serving, CoreInv, CoreTypeOK
<1>5. \A i \in 1..Len(queue') : i \in 1..Len(queue) \/ i = Len(queue) + 1
  BY <1>3
<1>6. Len(queue) + 1 \in 1..Len(queue') /\ \A i \in 1..Len(queue) : i \in 1..Len(queue')
  BY <1>3
<1>7. Queued' = Queued \cup {m.worker}
  BY <1>3, <1>5, <1>6 DEF Queued
<1>8. {held[q] : q \in Serving} = {held[q] : q \in Serving'} \cup {m.worker}
  BY <1>2, <1>4
<1> QED
  BY <1>1, <1>7, <1>8 DEF Owned

-----------------------------------------------------------------------------
(* The steps of a pool, seen by its callers: each is a step of             *)
(* DecodeService or changes nothing there.                                 *)

ServiceStep == [Service!Next]_(Service!svars)

PhaseOf(c) ==
  CASE c = "polling" -> "waiting"
    [] c \in {"resuming", "awaiting"} -> "served"
    [] OTHER -> c

LEMMA PhasesAreTheCalls ==
  ASSUME call \in [Requests -> Phases]
  PROVE  /\ ServicePhase = [r \in Requests |-> PhaseOf(call[r])]
         /\ \A r \in Requests : ServicePhase[r] = PhaseOf(call[r])
         /\ {r \in Requests : ServicePhase[r] = "served"} = Serving
<1>1. /\ ServicePhase = [r \in Requests |-> PhaseOf(call[r])]
      /\ \A r \in Requests : ServicePhase[r] = PhaseOf(call[r])
  BY DEF ServicePhase, PhaseOf
<1>2. \A r \in Requests : PhaseOf(call[r]) = "served" <=> call[r] \in {"resuming", "awaiting"}
  BY DEF PhaseOf
<1> QED
  BY <1>1, <1>2 DEF Serving

\* A call that goes to another phase, and all others stay where they are.
LEMMA PhaseChanges ==
  ASSUME call \in [Requests -> Phases], NEW r \in Requests, NEW c \in Phases,
         call' = [call EXCEPT ![r] = c]
  PROVE  ServicePhase' = [ServicePhase EXCEPT ![r] = PhaseOf(c)]
<1>1. call' \in [Requests -> Phases]
  OBVIOUS
<1>2. ServicePhase = [q \in Requests |-> PhaseOf(call[q])]
  BY PhasesAreTheCalls
<1>3. ServicePhase' = [q \in Requests |-> PhaseOf(call'[q])]
  BY <1>1 DEF ServicePhase, PhaseOf
<1>4. \A q \in Requests : PhaseOf(call'[q]) = IF q = r THEN PhaseOf(c) ELSE PhaseOf(call[q])
  OBVIOUS
<1> HIDE DEF PhaseOf
<1> QED
  BY <1>2, <1>3, <1>4

\* DecodeService counts as this module does.
LEMMA SameCardinality == \A S : Service!Cardinality(S) = Cardinality(S)
BY DEF Service!Cardinality, Cardinality, Service!IsFiniteSet, IsFiniteSet

\* The calls that are served hold workers of their own, so that with an idle
\* worker in the queue there are fewer of them than workers.
LEMMA IdleWorkerIsRoom ==
  ASSUME CoreInv, queue # <<>>
  PROVE  Service!HasRoom
<1> DEFINE w == Last(queue)
           rest == (1..created) \ {w}
           holds == [r \in Serving |-> held[r]]
<1>1. /\ w \in 1..created /\ created \in Nat
      /\ \A r \in Serving : held[r] # w /\ held[r] \in 1..created
      /\ \A r, q \in Serving : held[r] = held[q] => r = q
  <2>1. CoreTypeOK /\ Constructed /\ Exclusive
    BY DEF CoreInv
  <2>2. w \in 1..created /\ \A r \in Serving : held[r] # w
    BY <2>1, PopQueue
  <2> QED
    BY <2>1, <2>2, PoolAssumption DEF CoreTypeOK, Constructed, Exclusive
<1>2. holds \in Injection(Serving, rest)
  BY <1>1 DEF Injection, IsInjective
<1>3. IsFiniteSet(1..created) /\ Cardinality(1..created) = created
  BY <1>1, FS_Interval
<1>4. IsFiniteSet(rest) /\ Cardinality(rest) = created - 1
  BY <1>1, <1>3, FS_RemoveElement
<1>5. IsFiniteSet(Serving) /\ Cardinality(Serving) <= created - 1
  <2> HIDE DEF holds, rest
  <2> QED
    BY <1>2, <1>4, FS_Injection
<1>6. Cardinality(Serving) \in Nat
  BY <1>5, FS_CardinalityType
<1>7. Cardinality(Serving) < created
  BY <1>1, <1>5, <1>6
<1>8. {r \in Requests : ServicePhase[r] = "served"} = Serving
  BY PhasesAreTheCalls DEF CoreInv, CoreTypeOK
<1> QED
  BY <1>7, <1>8, SameCardinality DEF Service!HasRoom

\* A new pool object is a new service.
LEMMA ServiceInit == CoreInit => Service!Init
<1> SUFFICES ASSUME CoreInit
             PROVE  Service!Init
  OBVIOUS
<1>1. ServicePhase = [r \in Requests |-> "idle"]
  BY DEF CoreInit, ServicePhase
<1> QED
  BY <1>1 DEF CoreInit, Service!Init

\* A step that touches no call and constructs no worker is no step.
LEMMA ServiceStutters ==
  ASSUME UNCHANGED <<buf, answer, created>>, UNCHANGED ServicePhase
  PROVE  ServiceStep
BY DEF ServiceStep, Service!svars

LEMMA SpawnServes ==
  ASSUME CoreInv, SpawnWorkers, UNCHANGED <<call, buf, answer>>
  PROVE  ServiceStep
<1>1. PoolSize \in Nat /\ created \in Nat /\ created' = created + PoolSize
  BY PoolAssumption DEF SpawnWorkers, CoreInv, CoreTypeOK
<1>2. ServicePhase' = ServicePhase
  BY DEF ServicePhase
<1>3. CASE PoolSize = 0
  BY <1>1, <1>2, <1>3, ServiceStutters
<1>4. CASE PoolSize # 0
  <2>1. created' \in Nat /\ created' > created
    BY <1>1, <1>4
  <2> QED
    BY <1>2, <2>1 DEF ServiceStep, Service!Next, Service!AddWorkers
<1> QED
  BY <1>3, <1>4

LEMMA DecodeHereServes ==
  ASSUME CoreInv, NEW r \in Requests, NEW b \in Buffers, NEW ok \in BOOLEAN,
         DecodeHere(r, b, ok)
  PROVE  ServiceStep
<1> DEFINE c == IF ok THEN "resolved" ELSE "rejected"
<1>1. call \in [Requests -> Phases] /\ buf \in [Requests -> Buffers \cup {NoBuffer}]
  BY DEF CoreInv, CoreTypeOK
<1>2. /\ call[r] = "idle" /\ buf' = [buf EXCEPT ![r] = b] /\ created' = created
      /\ call' = [call EXCEPT ![r] = c]
      /\ answer' = [answer EXCEPT ![r] = IF ok THEN b ELSE @]
  BY <1>1 DEF DecodeHere, Settle
<1>3. ServicePhase[r] = "idle"
  BY <1>1, <1>2, PhasesAreTheCalls DEF PhaseOf
<1>4. ServicePhase' = [ServicePhase EXCEPT ![r] = c]
  <2>1. c \in Phases /\ PhaseOf(c) = c
    BY DEF PhaseOf
  <2> QED
    BY <1>1, <1>2, <2>1, PhaseChanges
<1>5. Service!Accept(r, b)
  <2>1. CASE ok
    BY <1>2, <1>3, <1>4, <2>1 DEF Service!Accept
  <2>2. CASE ~ok
    <3>1. answer' = answer
      BY <1>2, <2>2 DEF CoreInv, CoreTypeOK
    <3> QED
      BY <1>2, <1>3, <1>4, <2>2, <3>1 DEF Service!Accept
  <2> QED
    BY <2>1, <2>2
<1> QED
  BY <1>5 DEF ServiceStep, Service!Next

LEMMA DecodeOnWorkerServes ==
  ASSUME CoreInv, NEW r \in Requests, NEW b \in Buffers, DecodeOnWorker(r, b)
  PROVE  ServiceStep
<1>1. call \in [Requests -> Phases]
  BY DEF CoreInv, CoreTypeOK
<1>2. /\ call[r] = "idle" /\ buf' = [buf EXCEPT ![r] = b]
      /\ created' = created /\ answer' = answer
  BY DEF DecodeOnWorker
<1>3. ServicePhase[r] = "idle"
  BY <1>1, <1>2, PhasesAreTheCalls DEF PhaseOf
<1>4. CASE TakeWorker(r)
  <2>1. queue # <<>> /\ call' = [call EXCEPT ![r] = "resuming"]
    BY <1>4 DEF TakeWorker
  <2>2. ServicePhase' = [ServicePhase EXCEPT ![r] = "served"]
    BY <1>1, <2>1, PhaseChanges DEF PhaseOf
  <2>3. Service!HasRoom
    BY <2>1, IdleWorkerIsRoom
  <2> QED
    BY <1>2, <1>3, <2>2, <2>3 DEF ServiceStep, Service!Next, Service!Accept
<1>5. CASE call' = [call EXCEPT ![r] = "polling"]
  <2>1. ServicePhase' = [ServicePhase EXCEPT ![r] = "waiting"]
    BY <1>1, <1>5, PhaseChanges DEF PhaseOf
  <2> QED
    BY <1>2, <1>3, <2>1 DEF ServiceStep, Service!Next, Service!Accept
<1> QED
  BY <1>4, <1>5 DEF DecodeOnWorker

LEMMA PollTickServes ==
  ASSUME CoreInv, NEW r \in Requests, PollTick(r)
  PROVE  ServiceStep
<1>1. call \in [Requests -> Phases]
  BY DEF CoreInv, CoreTypeOK
<1>2. /\ call[r] = "polling" /\ queue # <<>> /\ call' = [call EXCEPT ![r] = "resuming"]
      /\ UNCHANGED <<buf, answer, created>>
  BY DEF PollTick, TakeWorker
<1>3. ServicePhase[r] = "waiting"
  BY <1>1, <1>2, PhasesAreTheCalls DEF PhaseOf
<1>4. ServicePhase' = [ServicePhase EXCEPT ![r] = "served"]
  BY <1>1, <1>2, PhaseChanges DEF PhaseOf
<1>5. Service!HasRoom
  BY <1>2, IdleWorkerIsRoom
<1> QED
  BY <1>2, <1>3, <1>4, <1>5 DEF ServiceStep, Service!Next, Service!Serve

\* A request that is posted does not move its call for the service; one that
\* cannot be posted ends it.
LEMMA PostServes ==
  ASSUME CoreInv, NEW r \in Requests, call[r] = "resuming",
         NEW c \in {"awaiting", "rejected"}, call' = [call EXCEPT ![r] = c],
         UNCHANGED <<buf, answer, created>>
  PROVE  ServiceStep
<1>1. call \in [Requests -> Phases]
  BY DEF CoreInv, CoreTypeOK
<1>2. ServicePhase[r] = "served"
  BY <1>1, PhasesAreTheCalls DEF PhaseOf
<1>3. CASE c = "awaiting"
  <2>1. ServicePhase' = [ServicePhase EXCEPT ![r] = "served"]
    BY <1>1, <1>3, PhaseChanges DEF PhaseOf
  <2>2. ServicePhase' = ServicePhase
    BY <1>2, <2>1 DEF ServicePhase
  <2> QED
    BY <2>2, ServiceStutters
<1>4. CASE c = "rejected"
  <2>1. ServicePhase' = [ServicePhase EXCEPT ![r] = "rejected"]
    BY <1>1, <1>4, PhaseChanges DEF PhaseOf
  <2> QED
    BY <1>2, <2>1 DEF ServiceStep, Service!Next, Service!End
<1> QED
  BY <1>3, <1>4

LEMMA DispatchServes ==
  ASSUME CoreInv, NEW m \in outbox, Dispatch(m)
  PROVE  ServiceStep
<1>1. call \in [Requests -> Phases]
  BY DEF CoreInv, CoreTypeOK
<1> DEFINE c == IF m.ok THEN "resolved" ELSE "rejected"
<1>2. PICK r \in Requests :
        /\ call[r] = "awaiting"
        /\ call' = [call EXCEPT ![r] = c]
        /\ answer' = [answer EXCEPT ![r] = IF m.ok THEN buf[r] ELSE @]
        /\ UNCHANGED <<buf, created>>
  BY DispatchEffect
<1>3. ServicePhase[r] = "served"
  BY <1>1, <1>2, PhasesAreTheCalls DEF PhaseOf
<1>4. ServicePhase' = [ServicePhase EXCEPT ![r] = c]
  <2>1. c \in Phases /\ PhaseOf(c) = c
    BY DEF PhaseOf
  <2> QED
    BY <1>1, <1>2, <2>1, PhaseChanges
<1>5. Service!End(r)
  <2>1. CASE m.ok
    BY <1>2, <1>3, <1>4, <2>1 DEF Service!End
  <2>2. CASE ~m.ok
    <3>1. answer' = answer
      BY <1>2, <2>2 DEF CoreInv, CoreTypeOK
    <3> QED
      BY <1>2, <1>3, <1>4, <2>2, <3>1 DEF Service!End
  <2> QED
    BY <2>1, <2>2
<1> QED
  BY <1>5 DEF ServiceStep, Service!Next
=============================================================================
