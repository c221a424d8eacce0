---------------------------- MODULE AtomicMemory ----------------------------
(***************************************************************************)
(* What shared memory promises the agents of a cluster: every Atomics      *)
(* operation, and every read or write of one element, takes effect at one  *)
(* instant between its call and its return, and touches no element but the *)
(* one it names.  This is the abstract specification; SharedBacking is the *)
(* code.                                                                   *)
(***************************************************************************)
EXTENDS AtomicOps

CONSTANTS
  Agents,
  Arguments,                \* numbers scripts pass as element values
  Indices,                  \* element indices scripts name
  InitLength,               \* elements of the buffer
  NoRequest, NoResult, RangeError

ElementRequests ==
  [kind : {"load"}, index : Indices, arg : {0}, alt : {0}]
    \cup [kind : ReadModifyWrite \cup {"store", "write"},
          index : Indices, arg : Arguments, alt : {0}]
    \cup [kind : {"compareExchange"},
          index : Indices, arg : Arguments, alt : Arguments]

VARIABLES
  bytes,                    \* the elements, a function from 0 .. length - 1
  pending,                  \* the operation each agent is inside of
  ret                       \* what each agent's last finished operation gave

vars == <<bytes, pending, ret>>

Init ==
  /\ bytes = [i \in 0 .. InitLength - 1 |-> 0]
  /\ pending = [a \in Agents |-> NoRequest]
  /\ ret = [a \in Agents |-> NoResult]

\* The element an operation leaves at its index.
NewElement(r, old) ==
  CASE r.kind = "load" -> old
    [] r.kind \in {"store", "write"} -> coerce_atomic_value(r.arg)
    [] r.kind \in ReadModifyWrite ->
         apply_atomic_op(r.kind, old, coerce_atomic_value(r.arg))
    [] r.kind = "compareExchange" ->
         IF atomic_values_equal(old, coerce_atomic_value(r.arg))
         THEN coerce_atomic_value(r.alt) ELSE old

\* What the script gets back: Atomics.store gives back its own argument, an
\* assignment ta[i] = v its right-hand side, everything else the old element.
Answer(r, old) == IF r.kind \in {"store", "write"} THEN r.arg ELSE old

Call(a) ==
  /\ pending[a] = NoRequest
  /\ \E r \in ElementRequests :
       r.index \in DOMAIN bytes /\ pending' = [pending EXCEPT ![a] = r]
  /\ UNCHANGED <<bytes, ret>>

Perform(a) ==
  /\ pending[a] # NoRequest
  /\ LET r == pending[a]
     IN  /\ bytes' = [bytes EXCEPT ![r.index] = NewElement(r, bytes[r.index])]
         /\ ret' = [ret EXCEPT ![a] = Answer(r, bytes[r.index])]
  /\ pending' = [pending EXCEPT ![a] = NoRequest]

\* An operation whose index is not in the buffer changes nothing: Atomics
\* throws a RangeError, an assignment is dropped and still has its value.
Refuse(a) ==
  /\ pending[a] = NoRequest
  /\ \E e \in {RangeError} \cup Arguments : ret' = [ret EXCEPT ![a] = e]
  /\ UNCHANGED <<bytes, pending>>

Next == \E a \in Agents : Call(a) \/ Perform(a) \/ Refuse(a)

Spec == Init /\ [][Next]_vars

=============================================================================
