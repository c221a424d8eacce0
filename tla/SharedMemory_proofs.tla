------------------------- MODULE SharedMemory_proofs --------------------------
(* What SharedBacking guarantees for every cluster, program and bound.     *)
EXTENDS SharedBacking, FiniteSetTheorems, FunctionTheorems, TLAPS

\* Coercion (to_atomic_store_value) gives an element of the width.
LEMMA ElementFacts ==
  /\ 0 \in Element
  /\ \A v \in Int : coerce_atomic_value(v) \in Element
  /\ Element \subseteq Int
  BY WidthAssumption DEF Element, coerce_atomic_value

\* Every read-modify-write operator gives an element again.
LEMMA ApplyType ==
  ASSUME NEW op \in ReadModifyWrite, NEW x \in Element, NEW y \in Element
  PROVE  apply_atomic_op(op, x, y) \in Element
  <1>1. \A S : FromBits(S) \in Element
    BY ElementFacts DEF FromBits
  <1>2. x \in Int /\ y \in Int /\ Modulus \in Nat \ {0}
    BY WidthAssumption, ElementFacts
  <1>3. (x + y) % Modulus \in Element /\ (x - y) % Modulus \in Element
    BY <1>2 DEF Element
  <1> QED
    BY <1>1, <1>3 DEF apply_atomic_op, ReadModifyWrite

\* What get_view_element reads is an element, in range or not.
LEMMA ReadType ==
  ASSUME NEW m \in Bytes, NEW i
  PROVE  read_element(m, i) \in Element
  BY ElementFacts DEF Bytes, read_element

\* Writing an element in place keeps the bytes a row of elements.
LEMMA WriteType ==
  ASSUME NEW m \in Bytes, NEW i, NEW v \in Element
  PROVE  write_element(m, i, v) \in Bytes
  BY DEF Bytes, write_element

\* Vec::resize to at most maxByteLength gives a row of elements.
LEMMA ResizeType ==
  ASSUME NEW m \in Bytes, NEW n \in 0 .. MaxLength
  PROVE  resize(m, n) \in Bytes
  BY ReadType DEF Bytes, resize

\* The empty copy is a row of elements.
LEMMA NoBytesType == NoBytes \in Bytes
  <1>1. NoBytes \in [0 .. 0 - 1 -> Element]
    BY DEF NoBytes
  <1> QED
    BY <1>1, BackingAssumption DEF Bytes

\* Which fields each kind of request has: its index and its arguments.
LEMMA RequestFields ==
  ASSUME NEW r \in Requests
  PROVE  /\ r.kind \in ReadModifyWrite => r.arg \in Int
         /\ r.kind \in Waits => r.arg \in Int
         /\ r.kind \in {"store", "write"} => r.arg \in Arguments /\ r.arg \in Int
         /\ r.kind = "compareExchange" => r.arg \in Int /\ r.alt \in Int
         /\ r.kind = "notify" => r.arg \in Nat
         /\ r.kind # "grow" => r.index \in Indices
         /\ r.index \in Nat
  <1> DEFINE Elements == [kind : ReadModifyWrite \cup {"store", "write"} \cup Waits,
                          index : Indices, arg : Arguments, alt : {0}]
             Grows == [kind : {"grow"}, index : 0 .. MaxLength + 1, arg : {0}, alt : {0}]
  <1>0. Arguments \subseteq Int /\ Counts \subseteq Nat /\ MaxLength \in Nat
        /\ Indices \subseteq Nat
    BY BackingAssumption DEF Indices
  <1>1. CASE r \in [kind : {"load"}, index : Indices, arg : {0}, alt : {0}]
    BY <1>0, <1>1 DEF Waits, ReadModifyWrite
  <1>2. CASE r \in Elements
    BY <1>0, <1>2 DEF Waits, ReadModifyWrite
  <1>3. CASE r \in [kind : {"compareExchange"},
                    index : Indices, arg : Arguments, alt : Arguments]
    BY <1>0, <1>3 DEF Waits, ReadModifyWrite
  <1>4. CASE r \in [kind : {"notify"}, index : Indices, arg : Counts, alt : {0}]
    BY <1>0, <1>4 DEF Waits, ReadModifyWrite
  <1>5. CASE r \in Grows
    BY <1>0, <1>5 DEF Waits, ReadModifyWrite
  <1> QED
    BY <1>1, <1>2, <1>3, <1>4, <1>5 DEF Requests

\* The types hold when the buffer is made.
LEMMA InitTypes == Init => TypeOK /\ FramesOK
  <1> SUFFICES ASSUME Init PROVE TypeOK /\ FramesOK
    OBVIOUS
  <1>1. bytes \in Bytes
    <2>1. bytes \in [0 .. InitLength - 1 -> Element]
      BY ElementFacts DEF Init
    <2> QED
      BY <2>1, BackingAssumption DEF Bytes
  <1>2. snap \in [Agents -> Bytes]
    BY NoBytesType DEF Init
  <1>3. TypeOK
    BY <1>1, <1>2, BackingAssumption, FS_EmptySet DEF Init, TypeOK, Steps, Results, NoId
  <1>4. FramesOK
    BY DEF Init, FramesOK, Parked
  <1> QED
    BY <1>3, <1>4

\* SetBytes keeps the types of the two variables it changes.
LEMMA SetBytesType ==
  ASSUME settled \subseteq Indices, NEW m \in Bytes, SetBytes(m)
  PROVE  bytes' \in Bytes /\ settled' \subseteq Indices
  BY DEF SetBytes

\* Marking a waiter changes only its notified flag.
LEMMA MarkedFields ==
  ASSUME NEW w \in Waiter
  PROVE  /\ marked(w) \in Waiter
         /\ marked(w).id = w.id /\ marked(w).index = w.index /\ marked(w).notified
  BY DEF marked, Waiter

\* Marking waiters keeps their number.
LEMMA MarkedFinite ==
  ASSUME IsFiniteSet(waiters), NEW chosen \in SUBSET waiters,
         waiters \subseteq Waiter
  PROVE  LET done == {marked(w) : w \in chosen}
         IN  /\ IsFiniteSet(chosen) /\ Cardinality(chosen) \in Nat
             /\ IsFiniteSet(done)
             /\ IsFiniteSet((waiters \ chosen) \cup done)
  <1> DEFINE done == {marked(w) : w \in chosen}
             mark == [w \in chosen |-> marked(w)]
  <1>1. IsFiniteSet(chosen) /\ Cardinality(chosen) \in Nat
    BY FS_Subset, FS_CardinalityType
  <1>2. mark \in Surjection(chosen, done)
    BY DEF Surjection
  <1>3. IsFiniteSet(done)
    BY <1>1, <1>2, FS_Surjection
  <1>4. IsFiniteSet(waiters \ chosen)
    BY FS_Subset
  <1> QED
    BY <1>1, <1>3, <1>4, FS_Union

\* So does leaving the waiter list.
LEMMA LeaveTypes ==
  ASSUME TypeOK, FramesOK, NEW a \in Agents, NEW o \in {"ok", "timed-out"}, Leave(a, o)
  PROVE  TypeOK' /\ FramesOK'
  <1>1. IsFiniteSet(waiters')
    BY FS_Subset DEF TypeOK, Leave
  <1> QED
    BY <1>1 DEF TypeOK, FramesOK, Parked, memory, Steps, Leave, Return

\* Every section of the lock keeps the types and the frames.
LEMMA NextTypes == TypeOK /\ FramesOK /\ [Next]_vars => TypeOK' /\ FramesOK'
  <1> SUFFICES ASSUME TypeOK, FramesOK, [Next]_vars PROVE TypeOK' /\ FramesOK'
    OBVIOUS
  <1> USE DEF TypeOK, FramesOK, Parked, memory, list, history, Steps
  <1>1. ASSUME NEW a \in Agents, Accept(a) PROVE TypeOK' /\ FramesOK'
    BY <1>1, BackingAssumption DEF Accept, Calls
  <1>2. ASSUME NEW a \in Agents, Refuse(a) PROVE TypeOK' /\ FramesOK'
    BY <1>2, BackingAssumption, RequestFields DEF Refuse, Calls, Results
  <1>3. ASSUME NEW a \in Agents, GrowCheck(a) PROVE TypeOK' /\ FramesOK'
    BY <1>3, BackingAssumption, RequestFields DEF GrowCheck, growable, Calls, Results
  <1>4. ASSUME NEW a \in Agents, Load(a) PROVE TypeOK' /\ FramesOK'
    BY <1>4, ReadType DEF Load, At, Return, Results
  <1>5. ASSUME NEW a \in Agents, ReadModifyWriteStep(a) PROVE TypeOK' /\ FramesOK'
    BY <1>5, ReadType, WriteType, ApplyType, SetBytesType, RequestFields, ElementFacts
       DEF ReadModifyWriteStep, At, Return, Results, Operand
  <1>6. ASSUME NEW a \in Agents, CompareExchange(a) PROVE TypeOK' /\ FramesOK'
    BY <1>6, ReadType, WriteType, SetBytesType, RequestFields, ElementFacts
       DEF CompareExchange, At, Return, Results
  <1>7. ASSUME NEW a \in Agents, Measure(a) PROVE TypeOK' /\ FramesOK'
    BY <1>7, RequestFields DEF Measure, At, Return, Goto, Results
  <1>8. ASSUME NEW a \in Agents, Write(a) PROVE TypeOK' /\ FramesOK'
    BY <1>8, WriteType, SetBytesType, RequestFields, ElementFacts
       DEF Write, At, Return, Results, Operand
  <1>9. ASSUME NEW a \in Agents, StoreCopy(a) PROVE TypeOK' /\ FramesOK'
    BY <1>9, WriteType, RequestFields, ElementFacts DEF StoreCopy, Goto, Operand
  <1>10. ASSUME NEW a \in Agents, StoreSet(a) PROVE TypeOK' /\ FramesOK'
    BY <1>10, SetBytesType, NoBytesType, RequestFields
       DEF StoreSet, At, Return, Results
  <1>11. ASSUME NEW a \in Agents, GrowCopy(a) PROVE TypeOK' /\ FramesOK'
    BY <1>11, ResizeType, RequestFields, BackingAssumption DEF GrowCopy, At, Goto
  <1>12. ASSUME NEW a \in Agents, GrowSet(a) PROVE TypeOK' /\ FramesOK'
    BY <1>12, SetBytesType, NoBytesType DEF GrowSet, At, Return, Results
  <1>13. ASSUME NEW a \in Agents, WaitRefused(a) \/ WaitNotEqual(a) PROVE TypeOK' /\ FramesOK'
    BY <1>13 DEF WaitRefused, WaitNotEqual, At, Return
  <1>14. ASSUME NEW a \in Agents, WaitPark(a) PROVE TypeOK' /\ FramesOK'
    <2> DEFINE new == [id |-> next_id, index |-> req[a].index, notified |-> FALSE]
    <2>1. new \in Waiter
      BY <1>14, RequestFields DEF WaitPark, At, Waiter
    <2>2. IsFiniteSet(waiters')
      BY <1>14, FS_AddElement DEF WaitPark
    <2>3. waiters' \subseteq Waiter
          /\ next_id' \in Nat /\ id' \in [Agents -> Nat \cup {NoId}]
      <3>1. waiters' = waiters \cup {new}
        BY <1>14 DEF WaitPark
      <3>2. waiters' \subseteq Waiter
        BY <2>1, <3>1
      <3>3. next_id' \in Nat /\ id' \in [Agents -> Nat \cup {NoId}]
        BY <1>14 DEF WaitPark
      <3> QED
        BY <3>2, <3>3
    <2>4. pc' \in [Agents -> Steps] /\ req' = req
      BY <1>14 DEF WaitPark, Goto
    <2>5. TypeOK'
      BY <1>14, <2>2, <2>3, <2>4 DEF WaitPark
    <2>6. FramesOK'
      BY <1>14 DEF WaitPark, At, Goto
    <2> QED
      BY <2>5, <2>6
  <1>15. ASSUME NEW a \in Agents, Expire(a) PROVE TypeOK' /\ FramesOK'
    BY <1>15 DEF Expire, At, Goto, Waits
  <1>16. ASSUME NEW a \in Agents, Wake(a) PROVE TypeOK' /\ FramesOK'
    <2>1. CASE Leave(a, "ok")
      BY <2>1, LeaveTypes
    <2>2. CASE ~waiter_notified(id[a])
      BY <1>16, <2>2 DEF Wake, Goto
    <2> QED
      BY <1>16, <2>1, <2>2 DEF Wake
  <1>17. ASSUME NEW a \in Agents, GiveUp(a) PROVE TypeOK' /\ FramesOK'
    BY <1>17, LeaveTypes DEF GiveUp
  <1>18. ASSUME NEW a \in Agents, Notify(a) PROVE TypeOK' /\ FramesOK'
    <2> DEFINE i == req[a].index
               chosen == oldest(i, req[a].arg)
    <2>1. i \in Indices /\ chosen \subseteq waiters
      BY <1>18, RequestFields DEF Notify, signalled, At, oldest, candidates
    <2>2. waiters' \subseteq Waiter
      <3>1. \A w \in chosen : marked(w) \in Waiter
        BY <2>1, MarkedFields
      <3>2. waiters' = (waiters \ chosen)
                         \cup {marked(w) : w \in chosen}
        BY <1>18 DEF Notify, signalled
      <3> QED
        BY <3>1, <3>2
    <2>3. Cardinality(chosen) \in Nat /\ IsFiniteSet(waiters')
      BY <1>18, <2>1, MarkedFinite DEF Notify, signalled
    <2>4. pc' \in [Agents -> Steps] /\ settled' \subseteq Indices /\ woken' \in Nat
      BY <1>18, <2>1, <2>3 DEF Notify, signalled
    <2>5. TypeOK'
      BY <1>18, <2>2, <2>3, <2>4 DEF Notify, signalled
    <2>6. FramesOK'
      BY <1>18 DEF Notify, signalled, Asleep, At
    <2> QED
      BY <2>5, <2>6
  <1>19. CASE UNCHANGED vars
    BY <1>19 DEF vars
  <1> QED
    BY <1>1, <1>2, <1>3, <1>4, <1>5, <1>6, <1>7, <1>8, <1>9, <1>10, <1>11, <1>12,
       <1>13, <1>14, <1>15, <1>16, <1>17, <1>18, <1>19 DEF Next, Step

\* Type correctness of every behaviour: the bytes stay a row of elements no
\* longer than maxByteLength, whatever copies racing operations put back, and
\* every result is an element, an argument or an error.
THEOREM TypeCorrect == Spec => [](TypeOK /\ FramesOK)
  BY InitTypes, NextTypes, PTL DEF Spec

-----------------------------------------------------------------------------
(* The waiter list.                                                        *)

ListInv == ListOK /\ NoSleepAfterNotify /\ NotifiedInOrder /\ NoLostWakeup

\* Steps that leave the list and everybody parked on it alone, except that a
\* deadline may take a sleeper out of the condition variable.
Quiet ==
  /\ UNCHANGED <<waiters, next_id, id>>
  /\ \A b \in Agents :
       /\ Parked(b)' <=> Parked(b)
       /\ Asleep(b)' => Asleep(b)
       /\ Parked(b) => req'[b] = req[b]

\* An index that counts as settled afterwards did before, with this element.
Settled ==
  \A i \in settled' : i \in settled /\ read_element(bytes', i) = read_element(bytes, i)

\* A step that leaves the list and the waiting agents alone keeps the
\* invariant of the waiter list.
LEMMA QuietKeeps == ListInv /\ Quiet /\ Settled => ListInv'
  <1> SUFFICES ASSUME ListInv, Quiet, Settled PROVE ListInv'
    OBVIOUS
  <1>1. ListOK'
    BY DEF ListInv, ListOK, Quiet
  <1>2. \A k : waiter_notified(k)' <=> waiter_notified(k)
    BY DEF Quiet, waiter_notified
  <1>3. NoSleepAfterNotify' /\ NotifiedInOrder'
    BY <1>2 DEF ListInv, NoSleepAfterNotify, NotifiedInOrder, Quiet
  <1>4. NoLostWakeup'
    BY <1>2 DEF ListInv, NoLostWakeup, Quiet, Settled, Operand, atomic_values_equal
  <1> QED
    BY <1>1, <1>3, <1>4 DEF ListInv

\* Everything but parking, leaving the list and notifying is quiet.
LEMMA QuietSteps ==
  ASSUME TypeOK, FramesOK, NEW a \in Agents,
         \/ Accept(a) \/ Refuse(a) \/ GrowCheck(a) \/ Load(a) \/ ReadModifyWriteStep(a)
         \/ CompareExchange(a) \/ Measure(a) \/ Write(a) \/ StoreCopy(a) \/ StoreSet(a)
         \/ GrowCopy(a) \/ GrowSet(a) \/ WaitRefused(a) \/ WaitNotEqual(a) \/ Expire(a)
  PROVE  Quiet /\ Settled
  <1> USE DEF TypeOK, Quiet, Settled, Parked, Asleep, memory, list, Calls, At, Return, Goto
  <1>1. CASE Accept(a) \/ Refuse(a) \/ GrowCheck(a)
    BY <1>1 DEF Accept, Refuse, GrowCheck, growable
  <1>2. CASE Load(a) \/ Measure(a) \/ StoreCopy(a) \/ GrowCopy(a)
    BY <1>2 DEF Load, Measure, StoreCopy, GrowCopy
  <1>3. CASE ReadModifyWriteStep(a) \/ CompareExchange(a) \/ Write(a)
    BY <1>3 DEF ReadModifyWriteStep, CompareExchange, Write, SetBytes
  <1>4. CASE StoreSet(a) \/ GrowSet(a)
    BY <1>4 DEF StoreSet, GrowSet, SetBytes
  <1>5. CASE WaitRefused(a) \/ WaitNotEqual(a) \/ Expire(a)
    BY <1>5 DEF WaitRefused, WaitNotEqual, Expire
  <1> QED
    BY <1>1, <1>2, <1>3, <1>4, <1>5

\* Parking: the new waiter is the youngest, unmarked, and compared equal.
LEMMA ParkKeeps ==
  ASSUME TypeOK, FramesOK, ListInv, NEW a \in Agents, WaitPark(a)
  PROVE  ListInv'
  <1> DEFINE new == [id |-> next_id, index |-> req[a].index, notified |-> FALSE]
  <1>1. /\ waiters' = waiters \cup {new} /\ id' = [id EXCEPT ![a] = next_id]
        /\ next_id' = next_id + 1 /\ req' = req /\ bytes' = bytes /\ settled' = settled
        /\ pc' = [pc EXCEPT ![a] = "asleep"] /\ pc[a] = "ready"
        /\ atomic_values_equal(read_element(bytes, req[a].index), Operand(a))
    BY DEF WaitPark, Goto, At, memory
  <1>2. /\ \A w \in waiters : w.id \in Nat /\ w.id < next_id
        /\ \A b \in Agents : Parked(b) => id[b] \in Nat /\ id[b] < next_id
        /\ next_id \in Nat
    BY DEF TypeOK, ListInv, ListOK, Waiter
  <1>3. /\ \A b \in Agents : Parked(b)' <=> (b = a \/ Parked(b))
        /\ ~Parked(a)
        /\ \A b \in Agents : b # a => id'[b] = id[b] /\ pc'[b] = pc[b]
        /\ id'[a] = next_id
    BY <1>1 DEF TypeOK, Parked
  <1>0. new.id = next_id /\ new.index = req[a].index /\ ~new.notified
    OBVIOUS
  <1> HIDE DEF new
  <1>4. ListOK'
    <2> USE DEF ListInv, ListOK
    <2>1. ASSUME NEW w \in waiters' PROVE w.id < next_id' /\ \E b \in Agents : Parked(b)' /\ id'[b] = w.id
      <3>1. CASE w = new
        BY <1>0, <1>1, <1>2, <1>3, <3>1
      <3>2. CASE w \in waiters
        BY <1>1, <1>2, <1>3, <3>2
      <3> QED
        BY <1>1, <3>1, <3>2
    <2>2. \A w, x \in waiters' : w.id = x.id => w = x
      BY <1>0, <1>1, <1>2
    <2>3. \A b \in Agents : IF Parked(b)' THEN \E w \in waiters' : w.id = id'[b] /\ w.index = req'[b].index
                           ELSE id'[b] = NoId
      BY <1>0, <1>1, <1>2, <1>3
    <2>4. \A b, c \in Agents : Parked(b)' /\ Parked(c)' /\ id'[b] = id'[c] => b = c
      BY <1>2, <1>3
    <2> QED
      BY <2>1, <2>2, <2>3, <2>4
  <1>5. /\ \A k : k # next_id => (waiter_notified(k)' <=> waiter_notified(k))
        /\ \A k : k = next_id => ~waiter_notified(k)'
    BY <1>0, <1>1 DEF waiter_notified
  <1>6. NoSleepAfterNotify'
    <2> SUFFICES ASSUME NEW b \in Agents, Asleep(b)' PROVE ~waiter_notified(id[b])'
      BY DEF NoSleepAfterNotify
    <2>1. CASE b = a
      BY <1>3, <1>5, <2>1
    <2>2. CASE b # a
      BY <1>2, <1>3, <1>5, <2>2 DEF ListInv, NoSleepAfterNotify, Asleep, Parked
    <2> QED
      BY <2>1, <2>2
  <1>7. NotifiedInOrder'
    BY <1>0, <1>1, <1>2 DEF ListInv, NotifiedInOrder
  <1>8. NoLostWakeup'
    BY <1>1, <1>2, <1>3, <1>5 DEF ListInv, NoLostWakeup, Operand
  <1> QED
    BY <1>4, <1>6, <1>7, <1>8 DEF ListInv

\* Leaving: the others' waiters stay, since ids are unique.
LEMMA LeaveKeeps ==
  ASSUME TypeOK, FramesOK, ListInv, NEW a \in Agents, NEW o, Parked(a), Leave(a, o)
  PROVE  ListInv'
  <1>1. /\ waiters' = {w \in waiters : w.id # id[a]} /\ id' = [id EXCEPT ![a] = NoId]
        /\ next_id' = next_id /\ bytes' = bytes /\ settled' = settled
        /\ pc' = [pc EXCEPT ![a] = "idle"] /\ req' = [req EXCEPT ![a] = NoRequest]
    BY DEF Leave, Return, memory
  <1>2. /\ \A b \in Agents : Parked(b)' <=> (b # a /\ Parked(b))
        /\ \A b \in Agents : b # a => id'[b] = id[b] /\ req'[b] = req[b] /\ pc'[b] = pc[b]
        /\ id'[a] = NoId /\ pc'[a] = "idle"
        /\ \A b \in Agents : Parked(b) /\ b # a => id[b] # id[a]
    BY <1>1 DEF TypeOK, Parked, ListInv, ListOK
  <1>3. ListOK'
    BY <1>1, <1>2 DEF ListInv, ListOK
  <1>4. \A k : k # id[a] => (waiter_notified(k)' <=> waiter_notified(k))
    BY <1>1 DEF waiter_notified
  <1>5. NoSleepAfterNotify'
    BY <1>2, <1>4 DEF ListInv, NoSleepAfterNotify, Asleep, Parked
  <1>6. NotifiedInOrder'
    BY <1>1 DEF ListInv, NotifiedInOrder
  <1>7. NoLostWakeup'
    BY <1>1, <1>2, <1>4 DEF ListInv, NoLostWakeup, Operand
  <1> QED
    BY <1>3, <1>5, <1>6, <1>7 DEF ListInv

\* Notifying: the oldest are marked, the sleepers are woken, and a notify that
\* marks everybody on its index leaves nobody unmarked there.
LEMMA NotifyKeeps ==
  ASSUME TypeOK, FramesOK, ListInv, NEW a \in Agents, Notify(a)
  PROVE  ListInv'
  <1> DEFINE i == req[a].index
             n == req[a].arg
             chosen == oldest(i, n)
  <1>1. /\ waiters' = (waiters \ chosen) \cup {marked(w) : w \in chosen}
        /\ settled' = IF chosen = candidates(i) THEN settled \cup {i} ELSE settled
        /\ pc' = [b \in Agents |-> IF b = a THEN "idle"
                                   ELSE IF chosen # {} /\ Asleep(b) THEN "awake" ELSE pc[b]]
        /\ req' = [req EXCEPT ![a] = NoRequest] /\ pc[a] = "ready"
        /\ UNCHANGED <<bytes, next_id, id>>
    BY DEF Notify, signalled, At
  <1>2. chosen \subseteq candidates(i) /\ candidates(i) \subseteq waiters
    BY DEF oldest, candidates
  <1>3. \A w \in waiters : /\ w \in Waiter /\ w.id \in Nat
                           /\ marked(w).id = w.id /\ marked(w).index = w.index
                           /\ marked(w).notified
    BY MarkedFields DEF TypeOK, Waiter
  <1>4. \A b \in Agents : /\ Parked(b)' <=> Parked(b)
                          /\ Parked(b) => req'[b] = req[b] /\ b # a
    BY <1>1 DEF TypeOK, Parked, Asleep
  <1> HIDE DEF chosen
  \* every waiter has exactly one successor, with its id and index
  <1>5. ASSUME NEW w \in waiters'
        PROVE  \E x \in waiters :
                 /\ w.id = x.id /\ w.index = x.index
                 /\ (w.notified <=> (x.notified \/ x \in chosen))
                 /\ w = IF x \in chosen THEN marked(x) ELSE x
    <2>1. CASE w \in waiters \ chosen
      BY <2>1
    <2>2. CASE w \in {marked(x) : x \in chosen}
      BY <1>2, <1>3, <2>2
    <2> QED
      BY <1>1, <2>1, <2>2
  <1>5b. ASSUME NEW x \in waiters
         PROVE  \E w \in waiters' :
                  /\ w.id = x.id /\ w.index = x.index
                  /\ (w.notified <=> (x.notified \/ x \in chosen))
    <2>1. CASE x \in chosen
      BY <1>1, <1>3, <2>1
    <2>2. CASE x \notin chosen
      BY <1>1, <2>2
    <2> QED
      BY <2>1, <2>2
  <1>6. ListOK'
    <2>1. ASSUME NEW w \in waiters'
          PROVE  w.id < next_id' /\ \E b \in Agents : Parked(b)' /\ id'[b] = w.id
      <3>1. PICK x \in waiters : w.id = x.id
        BY <1>5
      <3> QED
        BY <1>1, <1>4, <3>1 DEF ListInv, ListOK
    <2>2. ASSUME NEW w \in waiters', NEW y \in waiters', w.id = y.id PROVE w = y
      <3>1. PICK v \in waiters : w.id = v.id /\ w = IF v \in chosen THEN marked(v) ELSE v
        BY <1>5
      <3>2. PICK x \in waiters : y.id = x.id /\ y = IF x \in chosen THEN marked(x) ELSE x
        BY <1>5
      <3>3. v = x
        BY <2>2, <3>1, <3>2 DEF ListInv, ListOK
      <3> QED
        BY <3>1, <3>2, <3>3
    <2>3. \A b \in Agents : IF Parked(b)' THEN \E w \in waiters' : w.id = id'[b] /\ w.index = req'[b].index
                           ELSE id'[b] = NoId
      BY <1>1, <1>4, <1>5b DEF ListInv, ListOK
    <2> QED
      BY <2>1, <2>2, <2>3, <1>1, <1>4 DEF ListInv, ListOK
  \* the waiter with a given id is notified afterwards iff it was, or was chosen
  <1>7. ASSUME NEW b \in Agents, Parked(b), ~waiter_notified(id[b])'
        PROVE  \E x \in waiters : /\ x.id = id[b] /\ x.index = req[b].index
                                 /\ ~x.notified /\ x \notin chosen
    <2>1. PICK w \in waiters' : w.id = id[b] /\ ~w.notified
      BY <1>1, <1>7 DEF waiter_notified
    <2>2. PICK x \in waiters : /\ w.id = x.id
                              /\ (w.notified <=> (x.notified \/ x \in chosen))
      BY <1>5
    <2>3. x.index = req[b].index
      BY <1>7, <2>1, <2>2 DEF ListInv, ListOK
    <2> QED
      BY <2>1, <2>2, <2>3
  <1>8. NoSleepAfterNotify'
    <2> SUFFICES ASSUME NEW b \in Agents, Asleep(b)', waiter_notified(id[b])' PROVE FALSE
      BY DEF NoSleepAfterNotify
    <2>1. Asleep(b) /\ Parked(b) /\ chosen = {}
      BY <1>1 DEF Asleep, Parked
    <2>2. waiters' = waiters /\ id' = id
      BY <1>1, <2>1
    <2> QED
      BY <2>1, <2>2 DEF ListInv, NoSleepAfterNotify, waiter_notified
  <1>9. NotifiedInOrder'
    <2> SUFFICES ASSUME NEW w \in waiters', NEW y \in waiters',
                        w.index = y.index, w.id < y.id, y.notified
                 PROVE  w.notified
      BY DEF NotifiedInOrder
    <2>1. PICK v \in waiters : /\ w.id = v.id /\ w.index = v.index
                              /\ (w.notified <=> (v.notified \/ v \in chosen))
      BY <1>5
    <2>2. PICK x \in waiters : /\ y.id = x.id /\ y.index = x.index
                              /\ (y.notified <=> (x.notified \/ x \in chosen))
      BY <1>5
    <2>3. CASE x.notified
      BY <2>1, <2>2, <2>3 DEF ListInv, NotifiedInOrder
    <2>4. CASE x \in chosen /\ ~v.notified
      <3> DEFINE before(z) == {u \in candidates(i) : u.id < z.id}
      <3>1. v \in candidates(i) /\ x \in candidates(i)
        BY <1>2, <2>1, <2>2, <2>4 DEF candidates
      <3>2. before(v) \subseteq before(x)
        BY <1>2, <1>3, <2>1, <2>2
      <3>3. IsFiniteSet(before(x))
        BY <1>2, FS_Subset DEF TypeOK
      <3>4. Cardinality(before(v)) <= Cardinality(before(x))
        BY <3>2, <3>3, FS_Subset
      <3>5. Cardinality(before(v)) \in Nat /\ Cardinality(before(x)) \in Nat /\ n \in Nat
        BY <1>1, <3>2, <3>3, FS_Subset, FS_CardinalityType, RequestFields
           DEF Notify, signalled, At, FramesOK
      <3>6. Cardinality(before(x)) < n
        BY <2>4 DEF oldest, chosen
      <3>7. v \in chosen
        BY <3>1, <3>4, <3>5, <3>6 DEF oldest, chosen
      <3> QED
        BY <2>1, <3>7
    <2> QED
      BY <2>1, <2>2, <2>3, <2>4
  <1>10. NoLostWakeup'
    <2> SUFFICES ASSUME NEW b \in Agents, Parked(b)', ~waiter_notified(id[b])',
                        req'[b].index \in settled'
                 PROVE  atomic_values_equal(read_element(bytes, req'[b].index), Operand(b)')
      BY <1>1 DEF NoLostWakeup
    <2>1. Parked(b) /\ req'[b] = req[b]
      BY <1>4
    <2>2. PICK x \in waiters : /\ x.id = id[b] /\ x.index = req[b].index
                              /\ ~x.notified /\ x \notin chosen
      BY <1>7, <2>1
    <2>3. x.index \in settled
      BY <1>1, <2>1, <2>2 DEF candidates
    <2>4. ~waiter_notified(id[b])
      BY <2>2 DEF waiter_notified
    <2> QED
      BY <2>1, <2>2, <2>3, <2>4 DEF ListInv, NoLostWakeup, Operand
  <1> QED
    BY <1>6, <1>8, <1>9, <1>10 DEF ListInv

\* The list starts empty, and nothing has been counted.
LEMMA InitList == Init => ListInv /\ WokenAccounted
  <1>1. Init => {w \in waiters : w.notified} = {}
    BY DEF Init
  <1> QED
    BY <1>1, FS_EmptySet DEF Init, ListInv, ListOK, NoSleepAfterNotify, NotifiedInOrder,
       NoLostWakeup, WokenAccounted, Parked, Asleep

\* A thread woken for somebody else parks again.
LEMMA SleepAgainKeeps ==
  ASSUME TypeOK, ListInv, NEW a \in Agents, Wake(a), ~waiter_notified(id[a])
  PROVE  ListInv'
  <1>1. /\ pc[a] = "awake" /\ pc' = [pc EXCEPT ![a] = "asleep"]
        /\ UNCHANGED <<bytes, settled, waiters, next_id, id, req>>
    <2>1. CASE Leave(a, "ok") /\ waiter_notified(id[a])
      BY <2>1
    <2> QED
      BY <2>1 DEF Wake, Goto, memory, list
  <1>2. \A b \in Agents : (Parked(b)' <=> Parked(b)) /\ (Asleep(b)' => b = a \/ Asleep(b))
    BY <1>1 DEF TypeOK, Parked, Asleep
  <1>3. \A k : waiter_notified(k)' <=> waiter_notified(k)
    BY <1>1 DEF waiter_notified
  <1> QED
    BY <1>1, <1>2, <1>3 DEF ListInv, ListOK, NoSleepAfterNotify, NotifiedInOrder,
       NoLostWakeup, Operand

\* Every section of the lock keeps the invariant of the waiter list.
LEMMA NextList == TypeOK /\ FramesOK /\ ListInv /\ [Next]_vars => ListInv'
  <1> SUFFICES ASSUME TypeOK, FramesOK, ListInv, [Next]_vars PROVE ListInv'
    OBVIOUS
  <1>1. ASSUME NEW a \in Agents, Wake(a) PROVE ListInv'
    <2>1. CASE waiter_notified(id[a])
      BY <1>1, <2>1, LeaveKeeps DEF Wake, Parked
    <2>2. CASE ~waiter_notified(id[a])
      BY <1>1, <2>2, SleepAgainKeeps
    <2> QED
      BY <2>1, <2>2
  <1>2. ASSUME NEW a \in Agents, GiveUp(a) PROVE ListInv'
    BY <1>2, LeaveKeeps DEF GiveUp, Parked
  <1>3. CASE UNCHANGED vars
    <2>1. Quiet /\ Settled
      BY <1>3 DEF vars, Quiet, Settled, Parked, Asleep
    <2> QED
      BY <2>1, QuietKeeps
  <1> QED
    BY <1>1, <1>2, <1>3, QuietKeeps, QuietSteps, ParkKeeps, NotifyKeeps DEF Next, Step

\* Atomics.wait and Atomics.notify keep the waiter list right: unique ids, one
\* waiter per waiting agent, notified in the order they came, nobody asleep once
\* notified, and no lost wakeup - for all programs, stores and grows included.
THEOREM WaiterListCorrect ==
  Spec => [](ListOK /\ NoSleepAfterNotify /\ NotifiedInOrder /\ NoLostWakeup)
  <1>1. Init => ListInv
    BY InitList
  <1>2. ListInv => ListOK /\ NoSleepAfterNotify /\ NotifiedInOrder /\ NoLostWakeup
    BY DEF ListInv
  <1> QED
    BY <1>1, <1>2, NextList, TypeCorrect, PTL DEF Spec

\* Every waiting agent has one waiter in the list and every waiter one waiting
\* agent, whatever SharedBacking::wait's ways out are: the retain comes last.
THEOREM OneWaiterEach == Spec => []ListOK
  BY WaiterListCorrect, PTL

\* notify_all reaches every waiter it marked: none sleeps on.
THEOREM NobodyOversleeps == Spec => []NoSleepAfterNotify
  BY WaiterListCorrect, PTL

\* A count given to Atomics.notify goes to the waiters that came first.
THEOREM FirstComeFirstWoken == Spec => []NotifiedInOrder
  BY WaiterListCorrect, PTL

\* A wait that was notified returns "ok", also when its deadline has passed: the
\* second look after wait_until is taken under the lock.
THEOREM NotifiedReturnsOk == Spec => NotifyBeatsTimeout
  <1> DEFINE Beats == \A a \in Agents :
        Parked(a) /\ waiter_notified(id[a]) /\ ~Parked(a)' => outcome'[a] = "ok"
  <1>1. TypeOK /\ FramesOK /\ [Next]_vars => [Beats]_vars
    <2> SUFFICES ASSUME TypeOK, FramesOK, Next,
                        NEW a \in Agents, Parked(a), waiter_notified(id[a]), ~Parked(a)'
                 PROVE  outcome'[a] = "ok"
      OBVIOUS
    <2>1. PICK b \in Agents : Accept(b) \/ Refuse(b) \/ GrowCheck(b) \/ Step(b)
      BY DEF Next
    <2>2. CASE Wake(b)
      BY <2>2 DEF Wake, Leave, Return, Goto, Parked, TypeOK
    <2>3. CASE GiveUp(b)
      BY <2>3 DEF GiveUp, Leave, Return, Parked, TypeOK
    <2>4. CASE WaitPark(b)
      BY <2>4 DEF WaitPark, Goto, Parked, TypeOK
    <2>5. CASE Notify(b)
      BY <2>5 DEF Notify, signalled, At, Parked, Asleep, TypeOK
    <2> QED
      BY <2>1, <2>2, <2>3, <2>4, <2>5, QuietSteps DEF Step, Quiet
  <1> QED
    BY <1>1, TypeCorrect, PTL DEF Spec, NotifyBeatsTimeout


-----------------------------------------------------------------------------
(* What the memory itself guarantees: every notify that counted a waiter   *)
(* wakes it, and without the operations that put a whole copy back, shared *)
(* memory is atomic.                                                       *)

Notified == {w \in waiters : w.notified}

\* The notified waiters are finitely many.
LEMMA NotifiedFinite ==
  ASSUME TypeOK
  PROVE  IsFiniteSet(Notified) /\ Cardinality(Notified) \in Nat
  BY FS_Subset, FS_CardinalityType DEF TypeOK, Notified

\* Marking n candidates makes n more notified waiters.
LEMMA NotifyCounts ==
  ASSUME TypeOK, FramesOK, ListInv, NEW a \in Agents, Notify(a)
  PROVE  /\ woken' - woken = Cardinality(Notified') - Cardinality(Notified)
         /\ resumed' = resumed
  <1> DEFINE chosen == oldest(req[a].index, req[a].arg)
             done == {marked(w) : w \in chosen}
             mark == [w \in chosen |-> marked(w)]
  <1>1. /\ waiters' = (waiters \ chosen) \cup done
        /\ woken' = woken + Cardinality(chosen) /\ resumed' = resumed
    BY DEF Notify, signalled
  <1>2. chosen \subseteq waiters /\ (\A w \in chosen : ~w.notified)
    BY DEF oldest, candidates
  <1>3. \A w \in waiters : w \in Waiter /\ marked(w).id = w.id /\ marked(w).notified
    BY MarkedFields DEF TypeOK
  <1>4. IsFiniteSet(chosen) /\ Cardinality(chosen) \in Nat /\ IsFiniteSet(done)
    BY <1>2, MarkedFinite DEF TypeOK
  <1> HIDE DEF chosen
  <1>5. mark \in Bijection(chosen, done)
    <2>1. \A w, x \in chosen : marked(w) = marked(x) => w = x
      BY <1>2, <1>3 DEF ListInv, ListOK
    <2> QED
      BY <2>1 DEF Bijection, Injection, Surjection, IsInjective
  <1>6. Cardinality(done) = Cardinality(chosen)
    BY <1>4, <1>5, FS_Bijection DEF ExistsBijection
  <1>7. Notified' = Notified \cup done
    BY <1>1, <1>2, <1>3 DEF Notified
  <1>8. Notified \cap done = {}
    BY <1>2, <1>3 DEF Notified, ListInv, ListOK
  <1>9. Cardinality(Notified') = Cardinality(Notified) + Cardinality(done)
    <2>1. IsFiniteSet(Notified) /\ Cardinality(Notified) \in Nat /\ Cardinality(done) \in Nat
      BY <1>4, NotifiedFinite, FS_CardinalityType
    <2>2. Cardinality(Notified \cup done)
            = Cardinality(Notified) + Cardinality(done) - Cardinality(Notified \cap done)
      BY <1>4, <2>1, FS_Union
    <2>3. Cardinality(Notified \cap done) = 0
      BY <1>8, FS_EmptySet
    <2>4. Cardinality(Notified') = Cardinality(Notified \cup done)
      BY <1>7
    <2> HIDE DEF done
    <2> QED
      BY <2>1, <2>2, <2>3, <2>4
  <1> QED
    BY <1>1, <1>4, <1>6, <1>9, NotifiedFinite DEF TypeOK

\* Leaving with "ok" takes one notified waiter, with "timed-out" none.
LEMMA LeaveCounts ==
  ASSUME TypeOK, ListInv, NEW a \in Agents, Parked(a),
         Leave(a, IF waiter_notified(id[a]) THEN "ok" ELSE "timed-out")
  PROVE  /\ resumed' - resumed = Cardinality(Notified) - Cardinality(Notified')
         /\ woken' = woken
  <1>1. PICK w \in waiters : w.id = id[a]
    BY DEF ListInv, ListOK
  <1>2. waiter_notified(id[a]) <=> w.notified
    BY <1>1 DEF waiter_notified, ListInv, ListOK
  <1>3. waiters' = waiters \ {w} /\ woken' = woken
    BY <1>1 DEF Leave, ListInv, ListOK
  <1>4. CASE w.notified
    <2>1. Notified' = Notified \ {w} /\ w \in Notified
      BY <1>3, <1>4 DEF Notified
    <2>2. resumed' = resumed + 1
      BY <1>2, <1>4 DEF Leave
    <2>3. Cardinality(Notified \ {w}) = Cardinality(Notified) - 1
      BY <2>1, NotifiedFinite, FS_RemoveElement
    <2> QED
      BY <2>1, <2>2, <2>3, <1>3, NotifiedFinite DEF TypeOK
  <1>5. CASE ~w.notified
    <2>1. Notified' = Notified
      BY <1>3, <1>5 DEF Notified
    <2>2. resumed' = resumed
      BY <1>2, <1>5 DEF Leave
    <2> QED
      BY <2>1, <2>2, <1>3, NotifiedFinite DEF TypeOK
  <1> QED
    BY <1>4, <1>5

\* Every section keeps the balance of notified and resumed waits.
LEMMA NextCounts ==
  TypeOK /\ FramesOK /\ ListInv /\ WokenAccounted /\ [Next]_vars => WokenAccounted'
  <1> SUFFICES ASSUME TypeOK, FramesOK, ListInv, WokenAccounted, [Next]_vars
               PROVE  WokenAccounted'
    OBVIOUS
  <1>1. woken = resumed + Cardinality(Notified)
    BY DEF WokenAccounted, Notified
  <1>2. SUFFICES woken' = resumed' + Cardinality(Notified')
    BY DEF WokenAccounted, Notified
  <1>3. TypeOK'
    BY NextTypes
  <1>4. /\ Cardinality(Notified) \in Nat /\ Cardinality(Notified') \in Nat
        /\ woken \in Nat /\ woken' \in Nat /\ resumed \in Nat /\ resumed' \in Nat
    <2>1. Cardinality(Notified') \in Nat
      BY <1>3, FS_Subset, FS_CardinalityType DEF TypeOK, Notified
    <2> QED
      BY <2>1, <1>3, NotifiedFinite DEF TypeOK
  <1>5. ASSUME UNCHANGED <<waiters, woken, resumed>> PROVE woken' = resumed' + Cardinality(Notified')
    BY <1>1, <1>5 DEF Notified
  <1>6. CASE UNCHANGED vars
    BY <1>5, <1>6 DEF vars
  <1>7. ASSUME NEW a \in Agents, Accept(a) \/ Refuse(a) \/ GrowCheck(a)
        PROVE  woken' = resumed' + Cardinality(Notified')
    BY <1>5, <1>7 DEF Accept, Refuse, GrowCheck, growable, list, history
  <1>8. ASSUME NEW a \in Agents, Step(a) PROVE woken' = resumed' + Cardinality(Notified')
    <2>1. CASE WaitPark(a)
      <3>1. Notified' = Notified /\ UNCHANGED <<woken, resumed>>
        BY <2>1 DEF WaitPark, Notified, history
      <3> QED
        BY <1>1, <3>1
    <2>2. CASE Notify(a)
      BY <1>1, <1>4, <2>2, NotifyCounts
    <2>3. CASE GiveUp(a)
      <3>1. /\ resumed' - resumed = Cardinality(Notified) - Cardinality(Notified')
            /\ woken' = woken
        BY <2>3, LeaveCounts DEF GiveUp, Parked
      <3> QED
        BY <3>1, <1>1, <1>4
    <2>4. CASE Wake(a)
      <3>1. CASE waiter_notified(id[a])
        <4>1. /\ resumed' - resumed = Cardinality(Notified) - Cardinality(Notified')
              /\ woken' = woken
          BY <2>4, <3>1, LeaveCounts DEF Wake, Parked
        <4> QED
          BY <4>1, <1>1, <1>4
      <3>2. CASE ~waiter_notified(id[a])
        BY <2>4, <3>2, <1>5 DEF Wake, list, history
      <3> QED
        BY <3>1, <3>2
    <2>5. CASE Load(a) \/ Measure(a) \/ StoreCopy(a) \/ GrowCopy(a) \/ Expire(a)
      BY <2>5, <1>5 DEF Load, Measure, StoreCopy, GrowCopy, Expire, list, history
    <2>6. CASE ReadModifyWriteStep(a) \/ CompareExchange(a) \/ Write(a)
      BY <2>6, <1>5 DEF ReadModifyWriteStep, CompareExchange, Write, list, history
    <2>7. CASE StoreSet(a) \/ GrowSet(a) \/ WaitRefused(a) \/ WaitNotEqual(a)
      BY <2>7, <1>5 DEF StoreSet, GrowSet, WaitRefused, WaitNotEqual, list, history
    <2> QED
      BY <1>8, <2>1, <2>2, <2>3, <2>4, <2>5, <2>6, <2>7 DEF Step
  <1> QED
    BY <1>6, <1>7, <1>8 DEF Next

\* What Atomics.notify returns is exact: the numbers add up to the waits that
\* have returned "ok" and the notified ones on their way out.
THEOREM NotifyCountExact == Spec => []WokenAccounted
  <1>1. Init => ListInv /\ WokenAccounted
    BY InitList
  <1> QED
    BY <1>1, NextList, NextCounts, TypeCorrect, PTL DEF Spec

-----------------------------------------------------------------------------
(* Atomic memory.                                                          *)

\* No script stores, writes in bulk or grows: nothing puts a copy back.
NoCopies == \A a \in Agents : Program[a] \cap {"store", "grow"} = {}

\* An index once accepted stays inside the buffer.
InBounds ==
  \A a \in Agents : pc[a] \in {"ready", "measured"} => req[a].index \in DOMAIN bytes

ElementKinds == ReadModifyWrite \cup {"load", "store", "write", "compareExchange"}

\* Writing an element keeps the length.
LEMMA WriteDomain ==
  ASSUME NEW m \in Bytes, NEW i, NEW v
  PROVE  DOMAIN write_element(m, i, v) = DOMAIN m
  BY DEF write_element, Bytes

\* Without Atomics.store and grow no step of an agent changes the length.
LEMMA FixedLength ==
  ASSUME NoCopies, TypeOK, FramesOK, NEW a \in Agents, Step(a)
  PROVE  DOMAIN bytes' = DOMAIN bytes
  <1>1. CASE ReadModifyWriteStep(a) \/ Write(a)
    BY <1>1, WriteDomain DEF ReadModifyWriteStep, Write, SetBytes, TypeOK
  <1>2. CASE CompareExchange(a)
    BY <1>2, WriteDomain DEF CompareExchange, SetBytes, TypeOK
  <1>3. ~StoreSet(a) /\ ~GrowSet(a)
    BY DEF StoreSet, GrowSet, At, NoCopies, FramesOK
  <1>4. CASE Load(a) \/ Measure(a) \/ StoreCopy(a) \/ GrowCopy(a)
    BY <1>4 DEF Load, Measure, StoreCopy, GrowCopy, memory
  <1>5. CASE WaitRefused(a) \/ WaitNotEqual(a) \/ WaitPark(a) \/ Expire(a) \/ Notify(a)
    BY <1>5 DEF WaitRefused, WaitNotEqual, WaitPark, Expire, Notify, signalled, memory
  <1>6. CASE Wake(a) \/ GiveUp(a)
    BY <1>6 DEF Wake, GiveUp, Leave, memory
  <1> QED
    BY <1>1, <1>2, <1>3, <1>4, <1>5, <1>6 DEF Step

\* So an index that was checked stays in the buffer until it is used.
LEMMA NextBounds ==
  NoCopies /\ TypeOK /\ FramesOK /\ InBounds /\ [Next]_vars => InBounds'
  <1> SUFFICES ASSUME NoCopies, TypeOK, FramesOK, InBounds, [Next]_vars PROVE InBounds'
    OBVIOUS
  <1>1. CASE UNCHANGED vars
    BY <1>1 DEF vars, InBounds
  <1>2. ASSUME NEW a \in Agents, Accept(a) \/ Refuse(a) \/ GrowCheck(a) PROVE InBounds'
    BY <1>2 DEF Accept, Refuse, GrowCheck, growable, Calls, InBounds, TypeOK, memory
  <1>3. ASSUME NEW a \in Agents, Step(a) PROVE InBounds'
    <2>1. DOMAIN bytes' = DOMAIN bytes
      BY <1>3, FixedLength
    <2>2. ASSUME NEW b \in Agents, pc'[b] \in {"ready", "measured"}
          PROVE  pc[b] \in {"ready", "measured"} /\ req'[b] = req[b]
      <3>1. CASE Load(a) \/ Measure(a) \/ StoreCopy(a) \/ GrowCopy(a) \/ Expire(a)
        BY <2>2, <3>1 DEF Load, Measure, StoreCopy, GrowCopy, Expire, At, Goto, Return, TypeOK
      <3>2. CASE ReadModifyWriteStep(a) \/ CompareExchange(a) \/ Write(a)
        BY <2>2, <3>2 DEF ReadModifyWriteStep, CompareExchange, Write, Return, TypeOK
      <3>3. CASE StoreSet(a) \/ GrowSet(a) \/ WaitRefused(a) \/ WaitNotEqual(a) \/ WaitPark(a)
        BY <2>2, <3>3 DEF StoreSet, GrowSet, WaitRefused, WaitNotEqual, WaitPark, Goto, Return, TypeOK
      <3>4. CASE Wake(a) \/ GiveUp(a)
        BY <2>2, <3>4 DEF Wake, GiveUp, Leave, Goto, Return, TypeOK
      <3>5. CASE Notify(a)
        BY <2>2, <3>5 DEF Notify, signalled, TypeOK, Asleep
      <3> QED
        BY <1>3, <3>1, <3>2, <3>3, <3>4, <3>5 DEF Step
    <2> QED
      BY <2>1, <2>2 DEF InBounds
  <1> QED
    BY <1>1, <1>2, <1>3 DEF Next

\* AtomicMemory computes with the same operators.
LEMMA SameOperators ==
  /\ Atomic!ReadModifyWrite = ReadModifyWrite
  /\ \A v : Atomic!coerce_atomic_value(v) = coerce_atomic_value(v)
  /\ \A op \in ReadModifyWrite : \A x, y : Atomic!apply_atomic_op(op, x, y) = apply_atomic_op(op, x, y)
  /\ \A x, y : Atomic!atomic_values_equal(x, y) <=> atomic_values_equal(x, y)
  <1>1. Atomic!Modulus = Modulus /\ Atomic!Element = Element
    BY DEF Atomic!Modulus, Modulus, Atomic!Element, Element
  <1>2. \A x : Atomic!Bits(x) = Bits(x)
    BY DEF Atomic!Bits, Bits
  <1>3. \A S : Atomic!FromBits(S) = FromBits(S)
    BY DEF Atomic!FromBits, FromBits, Atomic!Element, Element, Atomic!Modulus, Modulus,
           Atomic!Bits, Bits
  <1>4. \A op \in ReadModifyWrite : \A x, y : Atomic!apply_atomic_op(op, x, y) = apply_atomic_op(op, x, y)
    <2> SUFFICES ASSUME NEW op \in ReadModifyWrite, NEW x, NEW y
                 PROVE  Atomic!apply_atomic_op(op, x, y) = apply_atomic_op(op, x, y)
      OBVIOUS
    <2> USE DEF Atomic!apply_atomic_op, apply_atomic_op
    <2>1. CASE op = "add"
      BY <1>1, <2>1
    <2>2. CASE op = "sub"
      BY <1>1, <2>2
    <2>3. CASE op = "and"
      BY <1>2, <1>3, <2>3
    <2>4. CASE op = "or"
      BY <1>2, <1>3, <2>4
    <2>5. CASE op = "xor"
      BY <1>2, <1>3, <2>5
    <2>6. CASE op = "exchange"
      BY <2>6
    <2> QED
      BY <2>1, <2>2, <2>3, <2>4, <2>5, <2>6 DEF ReadModifyWrite
  <1> QED
    BY <1>1, <1>4 DEF Atomic!ReadModifyWrite, ReadModifyWrite, Atomic!coerce_atomic_value,
       coerce_atomic_value, Atomic!atomic_values_equal, atomic_values_equal

\* A request on an element is one of the abstract memory.
LEMMA ElementRequest ==
  ASSUME NEW r \in Requests, r.kind \notin Waits \cup {"notify", "grow"}
  PROVE  r \in Atomic!ElementRequests /\ r.kind \in ElementKinds /\ r # NoRequest
  <1>1. CASE r \in [kind : ReadModifyWrite \cup {"store", "write"} \cup Waits,
                    index : Indices, arg : Arguments, alt : {0}]
    BY <1>1, NoRequestAssumption, SameOperators DEF Atomic!ElementRequests, ElementKinds
  <1>2. CASE r \in [kind : {"load"}, index : Indices, arg : {0}, alt : {0}]
    BY <1>2, NoRequestAssumption, SameOperators DEF Atomic!ElementRequests, ElementKinds
  <1>3. CASE r \in [kind : {"compareExchange"},
                    index : Indices, arg : Arguments, alt : Arguments]
    BY <1>3, NoRequestAssumption, SameOperators DEF Atomic!ElementRequests, ElementKinds
  <1> QED
    BY <1>1, <1>2, <1>3 DEF Requests

Hidden == Waits \cup {"notify", "grow"}

Shown(step, r) == IF step = "idle" \/ r.kind \in Hidden THEN NoRequest ELSE r

\* What one agent does to its frame is all that changes in the mapped state.
LEMMA FrameMaps ==
  ASSUME TypeOK, NEW a \in Agents, NEW x, NEW y,
         pc' = [pc EXCEPT ![a] = x], req' = [req EXCEPT ![a] = y]
  PROVE  pendingElements' = [pendingElements EXCEPT ![a] = Shown(x, y)]
  BY DEF TypeOK, pendingElements, Shown, Hidden

\* An agent about to act on its element, as atomic memory sees it.
LEMMA PendingIs ==
  ASSUME FramesOK, NEW a \in Agents, pc[a] # "idle", req[a].kind \notin Hidden
  PROVE  /\ pendingElements[a] = req[a] /\ req[a] # NoRequest
         /\ req[a] \in Atomic!ElementRequests
  BY ElementRequest DEF FramesOK, pendingElements, Hidden

\* The last section of an operation on an element is its atomic effect.
LEMMA PerformMaps ==
  ASSUME TypeOK, FramesOK, InBounds, NEW a \in Agents,
         pc[a] \in {"ready", "measured"}, req[a].kind \in ElementKinds,
         Return(a),
         bytes' = [bytes EXCEPT ![req[a].index] =
                     Atomic!NewElement(req[a], bytes[req[a].index])],
         ret' = [ret EXCEPT ![a] = Atomic!Answer(req[a], bytes[req[a].index])]
  PROVE  Atomic!Perform(a)
  <1>1. req[a].kind \notin Hidden
    BY DEF ElementKinds, Hidden, ReadModifyWrite, Waits
  <1>2. pendingElements[a] = req[a] /\ req[a] # NoRequest
    BY <1>1, PendingIs
  <1>3. pendingElements' = [pendingElements EXCEPT ![a] = NoRequest]
    BY FrameMaps DEF Return, Shown
  <1> QED
    BY <1>2, <1>3 DEF Atomic!Perform

\* Every step inside an operation is atomic memory's Perform, or a stutter.
LEMMA StepRefines ==
  ASSUME NoCopies, TypeOK, FramesOK, InBounds, NEW a \in Agents, Step(a)
  PROVE  Atomic!Next \/ UNCHANGED <<bytes, pendingElements, ret>>
  <1> DEFINE i == req[a].index
  <1> USE DEF TypeOK
  <1>1. ASSUME pc[a] \in {"ready", "measured"}, req[a].kind \in ElementKinds
        PROVE  i \in DOMAIN bytes /\ (\A v : write_element(bytes, i, v) = [bytes EXCEPT ![i] = v])
               /\ read_element(bytes, i) = bytes[i]
               /\ bytes = [bytes EXCEPT ![i] = bytes[i]]
    BY <1>1 DEF InBounds, write_element, read_element, Bytes
  <1>2. CASE Load(a)
    <2>1. Atomic!NewElement(req[a], bytes[i]) = bytes[i] /\ Atomic!Answer(req[a], bytes[i]) = bytes[i]
      BY <1>2, SameOperators
         DEF Load, At, Atomic!NewElement, Atomic!Answer, ReadModifyWrite
    <2> QED
      <3>1. pc[a] = "ready" /\ req[a].kind \in ElementKinds /\ Return(a)
            /\ bytes' = bytes
        BY <1>2 DEF Load, At, ElementKinds, memory
      <3>2. ret' = [ret EXCEPT ![a] = bytes[i]]
        BY <1>1, <1>2, <3>1 DEF Load
      <3> QED
        BY <1>1, <2>1, <3>1, <3>2, PerformMaps DEF Atomic!Next
  <1>3. CASE ReadModifyWriteStep(a)
    <2>1. /\ Atomic!NewElement(req[a], bytes[i]) = apply_atomic_op(req[a].kind, bytes[i], Operand(a))
          /\ Atomic!Answer(req[a], bytes[i]) = bytes[i]
      BY <1>3, SameOperators
         DEF ReadModifyWriteStep, At, Atomic!NewElement, Atomic!Answer, Operand, ReadModifyWrite
    <2> QED
      BY <1>1, <1>3, <2>1, PerformMaps
         DEF ReadModifyWriteStep, At, ElementKinds, SetBytes, Atomic!Next
  <1>4. CASE CompareExchange(a)
    <2>1. /\ Atomic!NewElement(req[a], bytes[i]) =
               IF atomic_values_equal(bytes[i], Operand(a))
               THEN coerce_atomic_value(req[a].alt) ELSE bytes[i]
          /\ Atomic!Answer(req[a], bytes[i]) = bytes[i]
      BY <1>4, SameOperators
         DEF CompareExchange, At, Atomic!NewElement, Atomic!Answer, Operand, ReadModifyWrite
    <2> QED
      BY <1>1, <1>4, <2>1, PerformMaps
         DEF CompareExchange, At, ElementKinds, SetBytes, Atomic!Next
  <1>5. CASE Write(a)
    <2>1. /\ Atomic!NewElement(req[a], bytes[i]) = Operand(a)
          /\ Atomic!Answer(req[a], bytes[i]) = req[a].arg
      BY <1>5, SameOperators
         DEF Write, At, Atomic!NewElement, Atomic!Answer, Operand, ReadModifyWrite
    <2> QED
      BY <1>1, <1>5, <2>1, PerformMaps DEF Write, At, ElementKinds, SetBytes, Atomic!Next
  <1>6. CASE Measure(a)
    <2>1. Goto(a, "measured") /\ pc[a] = "ready" /\ UNCHANGED <<bytes, ret>>
      BY <1>1, <1>6 DEF Measure, At, ElementKinds, memory
    <2>2. pendingElements' = pendingElements
      BY <2>1 DEF pendingElements, Goto
    <2> QED
      BY <2>1, <2>2
  <1>7. ~StoreCopy(a) /\ ~StoreSet(a) /\ ~GrowCopy(a) /\ ~GrowSet(a)
    BY DEF StoreCopy, StoreSet, GrowCopy, GrowSet, At, NoCopies, FramesOK
  <1>8. CASE WaitRefused(a) \/ WaitNotEqual(a) \/ WaitPark(a) \/ Expire(a)
    BY <1>8 DEF WaitRefused, WaitNotEqual, WaitPark, Expire, At, Goto, Return, memory,
       pendingElements, Waits
  <1>9. CASE Wake(a) \/ GiveUp(a)
    BY <1>9 DEF Wake, GiveUp, Leave, Goto, Return, memory, pendingElements, FramesOK, Parked, Waits
  <1>10. CASE Notify(a)
    BY <1>10 DEF Notify, signalled, At, Asleep, pendingElements, FramesOK, Parked, Waits
  <1> QED
    BY <1>2, <1>3, <1>4, <1>5, <1>6, <1>7, <1>8, <1>9, <1>10 DEF Step

\* Calling an operation is Call or Refuse, or a stutter.
LEMMA CallRefines ==
  ASSUME TypeOK, NEW a \in Agents, Accept(a) \/ Refuse(a) \/ GrowCheck(a), NoCopies
  PROVE  Atomic!Next \/ UNCHANGED <<bytes, pendingElements, ret>>
  <1>1. CASE Accept(a)
    <2>1. PICK r \in Requests : /\ r.kind # "grow" /\ r.index \in DOMAIN bytes
                               /\ req' = [req EXCEPT ![a] = r] /\ pc[a] = "idle"
      BY <1>1 DEF Accept, Calls
    <2>0. pc' = [pc EXCEPT ![a] = "ready"] /\ UNCHANGED <<bytes, ret>>
      BY <1>1 DEF Accept, memory
    <2>2. pendingElements' = [pendingElements EXCEPT ![a] = Shown("ready", r)]
      BY <2>0, <2>1, FrameMaps
    <2>3. pendingElements[a] = NoRequest
      BY <2>1 DEF pendingElements
    <2>4. CASE r.kind \in Hidden
      BY <2>0, <2>2, <2>3, <2>4 DEF Shown, pendingElements
    <2>5. CASE r.kind \notin Hidden
      <3>1. r \in Atomic!ElementRequests
        BY <2>5, ElementRequest DEF Hidden
      <3> QED
        BY <2>0, <2>1, <2>2, <2>3, <2>5, <3>1 DEF Shown, Atomic!Call, Atomic!Next
    <2> QED
      BY <2>4, <2>5
  <1>2. CASE Refuse(a)
    <2>1. pendingElements' = pendingElements /\ pendingElements[a] = NoRequest /\ bytes' = bytes
      BY <1>2 DEF Refuse, Calls, pendingElements, memory
    <2>2. ret' = ret \/ \E e \in {RangeError} \cup Arguments : ret' = [ret EXCEPT ![a] = e]
      BY <1>2, RequestFields DEF Refuse
    <2> QED
      BY <2>1, <2>2 DEF Atomic!Refuse, Atomic!Next
  <1>3. ~GrowCheck(a)
    BY DEF GrowCheck, growable, Calls, NoCopies
  <1> QED
    BY <1>1, <1>2, <1>3

\* Shared memory is atomic: whatever the agents interleave, every load, element
\* assignment, read-modify-write and compareExchange has the effect and the
\* result it would have had at one instant - as long as no script calls
\* Atomics.store, a bulk write or grow, which put a copy of the bytes back.
THEOREM MemoryIsAtomic == ASSUME NoCopies PROVE Spec => ImplementsAtomicMemory
  <1>1. Init => Atomic!Init /\ InBounds
    BY DEF Init, Atomic!Init, pendingElements, InBounds
  <1>2. TypeOK /\ FramesOK /\ InBounds /\ [Next]_vars => [Atomic!Next]_(Atomic!vars)
    <2> SUFFICES ASSUME TypeOK, FramesOK, InBounds, [Next]_vars
                 PROVE  Atomic!Next \/ UNCHANGED <<bytes, pendingElements, ret>>
      BY DEF Atomic!vars
    <2>1. CASE UNCHANGED vars
      BY <2>1 DEF vars, pendingElements
    <2> QED
      BY <2>1, StepRefines, CallRefines DEF Next
  <1>3. TypeOK /\ FramesOK /\ InBounds /\ [Next]_vars => InBounds'
    BY NextBounds
  <1> QED
    BY <1>1, <1>2, <1>3, TypeCorrect, PTL DEF Spec, ImplementsAtomicMemory, Atomic!Spec

===============================================================================
