---------------------------- MODULE SharedBacking ----------------------------
(***************************************************************************)
(* One SharedArrayBuffer shared by the agents of a cluster, each agent an  *)
(* engine on its own OS thread: the lock, the bytes and the Atomics.wait   *)
(* list of array_buffer/shared_backing.rs, and the operations that reach   *)
(* it from atomics.rs, typed_array/element.rs and array_buffer/shared.rs.  *)
(* Every action is one section of the mutex; an operation that takes the   *)
(* lock more than once is several actions, with other agents in between.   *)
(*                                                                         *)
(* All views are length-tracking integer views of one kind at offset 0, so *)
(* the buffer is a row of elements and its length is counted in elements.  *)
(***************************************************************************)
EXTENDS AtomicOps, FiniteSets

CONSTANTS
  Agents,                   \* the threads: the main agent and the workers
  CanBlock,                 \* the agents whose [[CanBlock]] is true
  Program,                  \* Program[a]: the operations a's script calls
  Arguments,                \* numbers scripts pass as element values
  Counts,                   \* counts scripts pass to Atomics.notify
  InitLength, MaxLength,    \* byteLength and maxByteLength, in elements
  MaxCalls,                 \* BOUND on the operations called in a behaviour
  NoRequest, NoResult, Undefined, Done, RangeError

ASSUME BackingAssumption ==
  /\ IsFiniteSet(Agents) /\ CanBlock \subseteq Agents
  /\ Arguments \subseteq Int /\ Counts \subseteq Nat
  /\ InitLength \in Nat /\ MaxLength \in Nat /\ InitLength <= MaxLength
  /\ MaxCalls \in Nat

Indices == 0 .. MaxLength   \* MaxLength itself is out of range, always

Waits == {"wait", "waitFor"}        \* without and with a finite timeout

Requests ==
  [kind : {"load"}, index : Indices, arg : {0}, alt : {0}]
    \cup [kind : ReadModifyWrite \cup {"store", "write"} \cup Waits,
          index : Indices, arg : Arguments, alt : {0}]
    \cup [kind : {"compareExchange"},
          index : Indices, arg : Arguments, alt : Arguments]
    \cup [kind : {"notify"}, index : Indices, arg : Counts, alt : {0}]
    \* grow: the length asked for
    \cup [kind : {"grow"}, index : 0 .. MaxLength + 1, arg : {0}, alt : {0}]

ASSUME NoRequestAssumption == NoRequest \notin Requests

VARIABLES
  bytes,                    \* Inner.bytes: a function from 0 .. length - 1
  waiters,                  \* Inner.waiters, ordered by their ids
  next_id,                  \* Inner.next_id
  pc,                       \* where in its operation each agent is
  req,                      \* the operation it called last
  snap,                     \* its private copy of the bytes (buffer_bytes)
  id,                       \* its local variable id in SharedBacking::wait
  ret,                      \* what its last operation on elements gave
  outcome,                  \* what its last Atomics.wait gave
  calls,                    \* operations called so far, for MaxCalls
  woken,                    \* history: the sum of what notify has returned
  resumed,                  \* history: the waits that returned "ok"
  settled                   \* history: the indices with a notify-all since
                            \* their element last changed

memory == <<bytes, settled>>
list == <<waiters, next_id>>
history == <<woken, resumed>>
vars == <<bytes, waiters, next_id, pc, req, snap, id, ret, outcome, calls,
          woken, resumed, settled>>

Asleep(a) == pc[a] = "asleep"
Parked(a) == pc[a] \in {"asleep", "awake", "expired"}

-----------------------------------------------------------------------------
(* Bytes and elements.                                                     *)

read_element(m, i) == IF i \in DOMAIN m THEN m[i] ELSE 0

write_element(m, i, v) == IF i \in DOMAIN m THEN [m EXCEPT ![i] = v] ELSE m

\* Variant of resize: one element too many.
resize_one_more(m, n) == [i \in 0 .. n |-> read_element(m, i)]

\* Vec::resize: truncates, or appends zeros.
resize(m, n) == [i \in 0 .. n - 1 |-> read_element(m, i)]

NoBytes == [i \in {} |-> 0]

NoId == -1

\* with_bytes_mut and set: replace the bytes under the lock.
SetBytes(m) ==
  /\ bytes' = m
  /\ settled' = {i \in settled : read_element(m, i) = read_element(bytes, i)}

Goto(a, step) == pc' = [pc EXCEPT ![a] = step] /\ UNCHANGED req

Return(a) ==
  /\ pc' = [pc EXCEPT ![a] = "idle"]
  /\ req' = [req EXCEPT ![a] = NoRequest]

At(a, step, kinds) == pc[a] = step /\ req[a].kind \in kinds

\* Variant of Operand: the argument is used at its full width.
OperandUncoerced(a) == req[a].arg

Operand(a) == coerce_atomic_value(req[a].arg)

-----------------------------------------------------------------------------
Init ==
  /\ bytes = [i \in 0 .. InitLength - 1 |-> 0]
  /\ waiters = {} /\ next_id = 0
  /\ pc = [a \in Agents |-> "idle"]
  /\ req = [a \in Agents |-> NoRequest]
  /\ snap = [a \in Agents |-> NoBytes]
  /\ id = [a \in Agents |-> NoId]
  /\ ret = [a \in Agents |-> NoResult]
  /\ outcome = [a \in Agents |-> "none"]
  /\ calls = 0 /\ woken = 0 /\ resumed = 0
  /\ settled = {}

\* A script calls r; BOUND: MaxCalls calls in a behaviour.
Calls(a, r) ==
  /\ pc[a] = "idle" /\ r.kind \in Program[a]
  /\ calls < MaxCalls /\ calls' = calls + 1

\* The call finds its index inside the view (one lock section reads the
\* length) and goes on; the lock is free until its next section.
Accept(a) ==
  /\ \E r \in Requests :
       /\ Calls(a, r)
       /\ r.kind # "grow" /\ r.index \in DOMAIN bytes
       /\ req' = [req EXCEPT ![a] = r]
  /\ pc' = [pc EXCEPT ![a] = "ready"]
  /\ UNCHANGED <<memory, list, history, snap, id, ret, outcome>>

\* The index is out of range: Atomics throws, an assignment is dropped.
Refuse(a) ==
  /\ \E r \in Requests :
       /\ Calls(a, r)
       /\ r.kind # "grow" /\ r.index \notin DOMAIN bytes
       /\ IF r.kind \in Waits \cup {"notify"} THEN UNCHANGED ret
          ELSE ret' = [ret EXCEPT ![a] = IF r.kind = "write" THEN r.arg
                                         ELSE RangeError]
       /\ IF r.kind \in Waits THEN outcome' = [outcome EXCEPT ![a] = "error"]
          ELSE UNCHANGED outcome
  /\ UNCHANGED <<memory, list, history, pc, req, snap, id>>

-----------------------------------------------------------------------------
(* Operations on elements.                                                 *)

\* get_view_element looks at the length again, under the lock it reads in.
Load(a) ==
  /\ At(a, "ready", {"load"})
  /\ ret' = [ret EXCEPT ![a] = IF req[a].index \in DOMAIN bytes
                               THEN read_element(bytes, req[a].index)
                               ELSE Undefined]
  /\ Return(a)
  /\ UNCHANGED <<memory, list, history, snap, id, outcome, calls>>

\* Read, apply and write in one section.
ReadModifyWriteStep(a) ==
  /\ At(a, "ready", ReadModifyWrite)
  /\ LET old == read_element(bytes, req[a].index)
     IN  /\ SetBytes(write_element(bytes, req[a].index,
                        apply_atomic_op(req[a].kind, old, Operand(a))))
         /\ ret' = [ret EXCEPT ![a] = old]
  /\ Return(a)
  /\ UNCHANGED <<list, history, snap, id, outcome, calls>>

CompareExchange(a) ==
  /\ At(a, "ready", {"compareExchange"})
  /\ LET old == read_element(bytes, req[a].index)
     IN  /\ SetBytes(IF atomic_values_equal(old, Operand(a))
                     THEN write_element(bytes, req[a].index,
                                        coerce_atomic_value(req[a].alt))
                     ELSE bytes)
         /\ ret' = [ret EXCEPT ![a] = old]
  /\ Return(a)
  /\ UNCHANGED <<list, history, snap, id, outcome, calls>>

\* set_view_element and set_view_elements measure the view before they touch
\* the bytes.  Out of range now: the assignment is dropped, while a store
\* still replaces the bytes by its unmodified copy of them.
Measure(a) ==
  /\ At(a, "ready", {"store", "write"})
  /\ \/ /\ req[a].index \in DOMAIN bytes
        /\ Goto(a, "measured") /\ UNCHANGED ret
     \/ /\ req[a].index \notin DOMAIN bytes /\ req[a].kind = "store"
        /\ Goto(a, "outside") /\ UNCHANGED ret
     \/ /\ req[a].index \notin DOMAIN bytes /\ req[a].kind = "write"
        /\ Return(a) /\ ret' = [ret EXCEPT ![a] = req[a].arg]
  /\ UNCHANGED <<memory, list, history, snap, id, outcome, calls>>

\* ta[i] = v: in place, in one section.
Write(a) ==
  /\ At(a, "measured", {"write"})
  /\ SetBytes(write_element(bytes, req[a].index, Operand(a)))
  /\ ret' = [ret EXCEPT ![a] = req[a].arg]
  /\ Return(a)
  /\ UNCHANGED <<list, history, snap, id, outcome, calls>>

\* Atomics.store (and every bulk write): copy all the bytes in one section,
\* change the copy, put the copy back in another.
StoreCopy(a) ==
  /\ pc[a] \in {"measured", "outside"} /\ req[a].kind = "store"
  /\ snap' = [snap EXCEPT ![a] =
       IF pc[a] = "outside" THEN bytes
       ELSE write_element(bytes, req[a].index, Operand(a))]
  /\ Goto(a, "copied")
  /\ UNCHANGED <<memory, list, history, id, ret, outcome, calls>>

StoreSet(a) ==
  /\ At(a, "copied", {"store"})
  /\ SetBytes(snap[a])
  /\ snap' = [snap EXCEPT ![a] = NoBytes]
  /\ ret' = [ret EXCEPT ![a] = req[a].arg]
  /\ Return(a)
  /\ UNCHANGED <<list, history, id, outcome, calls>>

-----------------------------------------------------------------------------
(* SharedArrayBuffer.prototype.grow: three sections.                       *)

growable(n) == DOMAIN bytes \subseteq 0 .. n - 1 /\ n <= MaxLength

\* The first reads the current length and checks the new one against it.
GrowCheck(a) ==
  /\ \E r \in Requests :
       /\ Calls(a, r) /\ r.kind = "grow"
       /\ \/ /\ growable(r.index)
             /\ pc' = [pc EXCEPT ![a] = "checked"]
             /\ req' = [req EXCEPT ![a] = r]
             /\ UNCHANGED ret
          \/ /\ ~growable(r.index)
             /\ ret' = [ret EXCEPT ![a] = RangeError]
             /\ UNCHANGED <<pc, req>>
  /\ UNCHANGED <<memory, list, history, snap, id, outcome>>

\* The second copies the bytes and resizes the copy.
GrowCopy(a) ==
  /\ At(a, "checked", {"grow"})
  /\ snap' = [snap EXCEPT ![a] = resize(bytes, req[a].index)]
  /\ Goto(a, "copied")
  /\ UNCHANGED <<memory, list, history, id, ret, outcome, calls>>

\* The third puts the copy in the place of the bytes.
GrowSet(a) ==
  /\ At(a, "copied", {"grow"})
  /\ SetBytes(snap[a])
  /\ snap' = [snap EXCEPT ![a] = NoBytes]
  /\ ret' = [ret EXCEPT ![a] = Done]
  /\ Return(a)
  /\ UNCHANGED <<list, history, id, outcome, calls>>

-----------------------------------------------------------------------------
(* Atomics.wait and Atomics.notify.                                        *)

\* A missing waiter counts as notified.
waiter_notified(k) == \A w \in waiters : w.id = k => w.notified

\* An agent that may not be suspended throws instead of waiting.
WaitRefused(a) ==
  /\ At(a, "ready", Waits) /\ a \notin CanBlock
  /\ outcome' = [outcome EXCEPT ![a] = "error"]
  /\ Return(a)
  /\ UNCHANGED <<memory, list, history, snap, id, ret, calls>>

\* Compare and park, in one section: condvar.wait gives the lock up only once
\* the thread is queued.
WaitNotEqual(a) ==
  /\ At(a, "ready", Waits) /\ a \in CanBlock
  /\ ~atomic_values_equal(read_element(bytes, req[a].index), Operand(a))
  /\ outcome' = [outcome EXCEPT ![a] = "not-equal"]
  /\ Return(a)
  /\ UNCHANGED <<memory, list, history, snap, id, ret, calls>>

\* Variant of WaitPark: the comparison was made before the lock was taken.
WaitParkUnchecked(a) ==
  /\ At(a, "ready", Waits) /\ a \in CanBlock
  /\ waiters' = waiters \cup
       {[id |-> next_id, index |-> req[a].index, notified |-> FALSE]}
  /\ id' = [id EXCEPT ![a] = next_id]
  /\ next_id' = next_id + 1
  /\ Goto(a, "asleep")
  /\ UNCHANGED <<memory, history, snap, ret, outcome, calls>>

WaitPark(a) ==
  /\ At(a, "ready", Waits) /\ a \in CanBlock
  /\ atomic_values_equal(read_element(bytes, req[a].index), Operand(a))
  /\ waiters' = waiters \cup
       {[id |-> next_id, index |-> req[a].index, notified |-> FALSE]}
  /\ id' = [id EXCEPT ![a] = next_id]
  /\ next_id' = next_id + 1
  /\ Goto(a, "asleep")
  /\ UNCHANGED <<memory, history, snap, ret, outcome, calls>>

\* Variant of Expire: the two kinds of timeout are mixed up.
ExpireSwapped(a) ==
  /\ At(a, "asleep", {"wait"})
  /\ Goto(a, "expired")
  /\ UNCHANGED <<memory, list, history, snap, id, ret, outcome, calls>>

\* The deadline of a finite timeout passes while the thread is parked.
Expire(a) ==
  /\ At(a, "asleep", {"waitFor"})
  /\ Goto(a, "expired")
  /\ UNCHANGED <<memory, list, history, snap, id, ret, outcome, calls>>

\* Variant of Leave: the retain is forgotten.
LeaveListed(a, o) ==
  /\ outcome' = [outcome EXCEPT ![a] = o]
  /\ resumed' = IF o = "ok" THEN resumed + 1 ELSE resumed
  /\ id' = [id EXCEPT ![a] = NoId]
  /\ Return(a)
  /\ UNCHANGED <<memory, waiters, next_id, woken, snap, ret, calls>>

\* waiters.retain, and out of the loop with the outcome o.
Leave(a, o) ==
  /\ waiters' = {w \in waiters : w.id # id[a]}
  /\ outcome' = [outcome EXCEPT ![a] = o]
  /\ resumed' = IF o = "ok" THEN resumed + 1 ELSE resumed
  /\ id' = [id EXCEPT ![a] = NoId]
  /\ Return(a)
  /\ UNCHANGED <<memory, next_id, woken, snap, ret, calls>>

\* A notify_all woke the thread, for it or for another: leave, or park again.
Wake(a) ==
  /\ pc[a] = "awake"
  /\ \/ waiter_notified(id[a]) /\ Leave(a, "ok")
     \/ /\ ~waiter_notified(id[a])
        /\ Goto(a, "asleep")
        /\ UNCHANGED <<memory, list, history, snap, id, ret, outcome, calls>>

\* Variant of GiveUp: no second look after the deadline.
GiveUpAtOnce(a) == pc[a] = "expired" /\ Leave(a, "timed-out")

\* A thread whose deadline passed has the lock again, and looks once more.
GiveUp(a) ==
  /\ pc[a] = "expired"
  /\ Leave(a, IF waiter_notified(id[a]) THEN "ok" ELSE "timed-out")

candidates(i) == {w \in waiters : w.index = i /\ ~w.notified}

\* Variant of oldest: the list is walked from its end.
newest(i, n) ==
  {w \in candidates(i) : Cardinality({x \in candidates(i) : x.id > w.id}) < n}

\* The walk over the list marks a candidate while fewer than n are marked.
oldest(i, n) ==
  {w \in candidates(i) : Cardinality({x \in candidates(i) : x.id < w.id}) < n}

marked(w) == [w EXCEPT !.notified = TRUE]

\* Variant of signalled: notify_one instead of notify_all.
signalled_one(chosen) ==
  IF chosen = {} \/ ~(\E b \in Agents : Asleep(b)) THEN {}
  ELSE {CHOOSE b \in Agents : Asleep(b)}

\* The threads the condition variable wakes: condvar.notify_all, if a waiter
\* was marked.
signalled(chosen) == {b \in Agents : chosen # {} /\ Asleep(b)}

Notify(a) ==
  /\ At(a, "ready", {"notify"})
  /\ LET i == req[a].index
         chosen == oldest(i, req[a].arg)
     IN  /\ waiters' = (waiters \ chosen)
                         \cup {marked(w) : w \in chosen}
         /\ woken' = woken + Cardinality(chosen)
         /\ settled' = IF chosen = candidates(i) THEN settled \cup {i} ELSE settled
         /\ pc' = [b \in Agents |-> IF b = a THEN "idle"
                                    ELSE IF b \in signalled(chosen) THEN "awake"
                                    ELSE pc[b]]
  /\ req' = [req EXCEPT ![a] = NoRequest]
  /\ UNCHANGED <<bytes, next_id, snap, id, ret, outcome, resumed, calls>>

-----------------------------------------------------------------------------
\* What an agent does inside an operation; a new call is its script's choice.
Step(a) ==
  \/ Load(a) \/ ReadModifyWriteStep(a) \/ CompareExchange(a)
  \/ Measure(a) \/ Write(a) \/ StoreCopy(a) \/ StoreSet(a)
  \/ GrowCopy(a) \/ GrowSet(a)
  \/ WaitRefused(a) \/ WaitNotEqual(a) \/ WaitPark(a) \/ Expire(a)
  \/ Wake(a) \/ GiveUp(a) \/ Notify(a)

Next == \E a \in Agents : Accept(a) \/ Refuse(a) \/ GrowCheck(a) \/ Step(a)

Spec == Init /\ [][Next]_vars

\* Every thread keeps running, the fair lock is granted in turn, and a deadline
\* passes.  Nobody has to call anything.
Fairness == \A a \in Agents : WF_vars(Step(a))

FairSpec == Spec /\ Fairness

-----------------------------------------------------------------------------
(* Properties.                                                             *)

Steps == {"idle", "ready", "measured", "outside", "copied", "checked",
          "asleep", "awake", "expired"}

Bytes == UNION {[0 .. n - 1 -> Element] : n \in 0 .. MaxLength}

Waiter == [id : Nat, index : Indices, notified : BOOLEAN]

Results == Element \cup Arguments
             \cup {NoResult, Undefined, Done, RangeError}

\* The shape of the backing and of every agent's call frame.
TypeOK ==
  /\ bytes \in Bytes
  /\ waiters \subseteq Waiter
  /\ IsFiniteSet(waiters)
  /\ next_id \in Nat
  /\ pc \in [Agents -> Steps]
  /\ req \in [Agents -> Requests \cup {NoRequest}]
  /\ snap \in [Agents -> Bytes]
  /\ id \in [Agents -> Nat \cup {NoId}]
  /\ ret \in [Agents -> Results]
  /\ outcome \in [Agents -> {"none", "error", "not-equal", "ok", "timed-out"}]
  /\ calls \in 0 .. MaxCalls
  /\ woken \in Nat /\ resumed \in Nat
  /\ settled \subseteq Indices

\* Inside an operation an agent is at a step of the one it called; a length a
\* grow has checked never exceeds the maximum.
FramesOK ==
  \A a \in Agents :
    /\ pc[a] # "idle" => req[a] \in Requests /\ req[a].kind \in Program[a]
    /\ pc[a] = "ready" => req[a].kind # "grow"
    /\ pc[a] \in {"measured", "outside"} => req[a].kind \in {"store", "write"}
    /\ pc[a] = "checked" => req[a].kind = "grow" /\ req[a].index <= MaxLength
    /\ pc[a] = "copied" => req[a].kind \in {"store", "grow"}
    /\ Parked(a) => req[a].kind \in Waits

\* The waiter list is exactly the agents inside SharedBacking::wait, each with
\* an id of its own: none is left behind by retain, none is removed early.
ListOK ==
  /\ \A w \in waiters : w.id < next_id /\ \E a \in Agents : Parked(a) /\ id[a] = w.id
  /\ \A w, x \in waiters : w.id = x.id => w = x
  /\ \A a \in Agents :
       IF Parked(a) THEN \E w \in waiters : w.id = id[a] /\ w.index = req[a].index
       ELSE id[a] = NoId
  /\ \A a, b \in Agents : Parked(a) /\ Parked(b) /\ id[a] = id[b] => a = b

\* No thread sleeps in the condition variable once its waiter is marked.
NoSleepAfterNotify == \A a \in Agents : Asleep(a) => ~waiter_notified(id[a])

\* Compare-and-park is atomic (the comment on Inner): once an element has
\* changed and everybody waiting on it was notified, nobody is left unnotified
\* in the list for the value it had before.
NoLostWakeup ==
  \A a \in Agents :
    Parked(a) /\ ~waiter_notified(id[a]) /\ req[a].index \in settled
      => atomic_values_equal(read_element(bytes, req[a].index), Operand(a))

\* What notify returned, it returned for waits that do return "ok": each one
\* counted has resumed or is still on its way out, whatever deadlines pass.
WokenAccounted ==
  woken = resumed + Cardinality({w \in waiters : w.notified})

\* notify wakes in the order the waits began: no later waiter on an index is
\* notified before an earlier one.
NotifiedInOrder ==
  \A w, x \in waiters :
    w.index = x.index /\ w.id < x.id /\ x.notified => w.notified

\* The deadline that passes while a notified thread waits for the lock does
\* not turn its "ok" into a "timed-out" (the second look after wait_until).
NotifyBeatsTimeout ==
  [][\A a \in Agents :
       Parked(a) /\ waiter_notified(id[a]) /\ ~Parked(a)' => outcome'[a] = "ok"]_vars

\* A read-modify-write holds the lock "so a concurrent agent cannot interleave
\* and lose the update": an element changes only when an operation that names
\* it returns, never as the side effect of one on another element.
OnlyItsElement ==
  [][\A i \in DOMAIN bytes \cap DOMAIN bytes' :
       bytes'[i] # bytes[i] =>
         \E a \in Agents : ~(pc[a] = "idle") /\ pc'[a] = "idle" /\ req[a].index = i]_bytes

\* The backing implements atomic memory.  An operation on elements takes effect
\* in its last section; waiting, notifying and growing are invisible.
pendingElements ==
  [a \in Agents |-> IF pc[a] = "idle" \/ req[a].kind \in Waits \cup {"notify", "grow"}
                    THEN NoRequest ELSE req[a]]

Atomic == INSTANCE AtomicMemory WITH pending <- pendingElements

ImplementsAtomicMemory == Atomic!Spec

\* A notified wait returns: the condition variable is signalled whenever a
\* waiter is marked.
NotifiedWaitReturns ==
  \A a \in Agents : (Parked(a) /\ waiter_notified(id[a])) ~> ~Parked(a)

\* A wait with a finite timeout returns, however often its thread is woken for
\* somebody else.
FiniteWaitReturns ==
  \A a \in Agents : At(a, "ready", {"waitFor"}) ~> pc[a] = "idle"

=============================================================================
