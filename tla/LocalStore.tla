----------------------------- MODULE LocalStore -----------------------------
(***************************************************************************)
(* What the device-local parameter store of libtr181api promises to its    *)
(* callers: a map from parameter names to values on which getLocalParam,   *)
(* setLocalParam and clearLocalParam take effect one at a time, at some    *)
(* moment between the call and the return.  A call may fail with           *)
(* tr181Failure and then has no effect.  A caller that dies after its      *)
(* update took effect may take any of the entries with it and cut the      *)
(* value of one: the file is rewritten in place.                           *)
(***************************************************************************)
EXTENDS LocalStoreOps

VARIABLES
  store,   \* the contents of the local store
  phase,   \* where each caller is: "idle", "pending" or "done"
  request, \* the operation each caller has in flight
  result   \* what the caller's operation is going to return

vars == <<store, phase, request, result>>

Init ==
  /\ store \in Stores
  /\ phase = [c \in Callers |-> "idle"]
  /\ request = [c \in Callers |-> NoOperation]
  /\ result = [c \in Callers |-> NoResult]

\* A caller invokes one of the three operations.
Invoke(c, o) ==
  /\ phase[c] = "idle"
  /\ phase' = [phase EXCEPT ![c] = "pending"]
  /\ request' = [request EXCEPT ![c] = o]
  /\ result' = [result EXCEPT ![c] = NoResult]
  /\ UNCHANGED store

\* The operation is refused at once.
Refuse(c, o) ==
  /\ phase[c] = "idle"
  /\ request' = [request EXCEPT ![c] = o]
  /\ result' = [result EXCEPT ![c] = Outcome("tr181Failure", Absent)]
  /\ UNCHANGED <<store, phase>>

\* The operation takes effect: a read returns what the store (or the
\* caller's defaults) holds, an update replaces the store.
Apply(c) ==
  /\ phase[c] = "pending"
  /\ phase' = [phase EXCEPT ![c] = "done"]
  /\ IF request[c].kind = "get"
       THEN /\ result' = [result EXCEPT ![c] = LocalValue(store, c, request[c].key)]
            /\ UNCHANGED store
       ELSE /\ result' = [result EXCEPT ![c] = Outcome("tr181Success", Absent)]
            /\ store' = Updated(store, request[c])
  /\ UNCHANGED request

\* The operation fails and leaves the store as it was.
Fail(c) ==
  /\ phase[c] = "pending"
  /\ phase' = [phase EXCEPT ![c] = "done"]
  /\ result' = [result EXCEPT ![c] = Outcome("tr181Failure", Absent)]
  /\ UNCHANGED <<store, request>>

Return(c) ==
  /\ phase[c] = "done"
  /\ phase' = [phase EXCEPT ![c] = "idle"]
  /\ UNCHANGED <<store, request, result>>

\* Some callers die.  If one of them has an applied update in flight, the
\* store may keep only part of its entries, one of them cut.
Crash(D) ==
  /\ phase' = [c \in Callers |-> IF c \in D THEN "idle" ELSE phase[c]]
  /\ \/ UNCHANGED store
     \/ /\ \E c \in D : phase[c] = "done" /\ request[c].kind # "get"
        /\ store' \in Remnants(store)
  /\ request' = [c \in Callers |-> IF c \in D THEN NoOperation ELSE request[c]]
  /\ result' = [c \in Callers |-> IF c \in D THEN NoResult ELSE result[c]]

Next ==
  \/ \E c \in Callers :
        \/ \E o \in Operations : Invoke(c, o) \/ Refuse(c, o)
        \/ Apply(c)
        \/ Fail(c)
        \/ Return(c)
  \/ \E D \in (SUBSET Callers) : Crash(D)

Spec == Init /\ [][Next]_vars
=============================================================================
