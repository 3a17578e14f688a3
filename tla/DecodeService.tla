---------------------------- MODULE DecodeService ----------------------------
(***************************************************************************)
(* What a worker pool promises its callers, whatever happens to its        *)
(* workers: each call is accepted once, is served by a worker of its own   *)
(* (never more calls than workers are being served) and ends at most once, *)
(* with the decode of its own payload or with a rejection.                 *)
(***************************************************************************)
EXTENDS Integers, FiniteSets

CONSTANTS Requests, Buffers, NoBuffer

VARIABLES
  phase,    \* "idle", "waiting", "served", "resolved", "rejected"
  arg,      \* the payload of each call
  result,   \* what a resolved call yielded
  capacity  \* how many workers were ever put at the service's disposal

svars == <<phase, arg, result, capacity>>

Init ==
  /\ phase = [r \in Requests |-> "idle"]
  /\ arg = [r \in Requests |-> NoBuffer]
  /\ result = [r \in Requests |-> NoBuffer]
  /\ capacity = 0

HasRoom == Cardinality({r \in Requests : phase[r] = "served"}) < capacity

\* A call arrives: it waits, is served at once, or ends at once.
Accept(r, b) ==
  /\ phase[r] = "idle"
  /\ arg' = [arg EXCEPT ![r] = b]
  /\ \/ phase' = [phase EXCEPT ![r] = "waiting"] /\ UNCHANGED result
     \/ HasRoom /\ phase' = [phase EXCEPT ![r] = "served"] /\ UNCHANGED result
     \/ phase' = [phase EXCEPT ![r] = "rejected"] /\ UNCHANGED result
     \/ /\ phase' = [phase EXCEPT ![r] = "resolved"]
        /\ result' = [result EXCEPT ![r] = b]
  /\ UNCHANGED capacity

Serve(r) ==
  /\ phase[r] = "waiting" /\ HasRoom
  /\ phase' = [phase EXCEPT ![r] = "served"]
  /\ UNCHANGED <<arg, result, capacity>>

End(r) ==
  /\ phase[r] = "served"
  /\ \/ phase' = [phase EXCEPT ![r] = "rejected"] /\ UNCHANGED result
     \/ /\ phase' = [phase EXCEPT ![r] = "resolved"]
        /\ result' = [result EXCEPT ![r] = arg[r]]
  /\ UNCHANGED <<arg, capacity>>

AddWorkers ==
  /\ capacity' \in Nat /\ capacity' > capacity
  /\ UNCHANGED <<phase, arg, result>>

Next ==
  \/ \E r \in Requests, b \in Buffers : Accept(r, b)
  \/ \E r \in Requests : Serve(r) \/ End(r)
  \/ AddWorkers

Spec == Init /\ [][Next]_svars
=============================================================================
