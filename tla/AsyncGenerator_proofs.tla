------------------------- MODULE AsyncGenerator_proofs -------------------------
(***************************************************************************)
(* Proofs about AsyncGenerator, for any number of calls and awaits: until  *)
(* it is completed a generator has one driver, and the promises of its     *)
(* methods are settled as AsyncGeneratorRequests says.                     *)
(***************************************************************************)
EXTENDS AsyncGenerator, SequenceTheorems, TLAPS

Answer == [how : {"yield", "done", "reject"}, of : 0 .. MaxRequested]

Typed ==
  /\ generator \in GeneratorStates
  /\ draining \in BOOLEAN
  /\ driver \in {"idle", "drain", "body"}
  /\ requests \in Seq(1 .. MaxRequested)
  /\ requested \in Seq(RequestKinds)
  /\ replies \in Seq(Answer \cup {Unreplied})
  /\ Len(requested) <= MaxRequested
  /\ waiting \subseteq [type : {"await", "yield", "returnResume", "return"},
                        of : 0 .. MaxRequested, for : 1 .. MaxRequested, n : Nat]
  /\ scheduled \in Nat

(* The body runs in the state "running" and under a request; a reaction    *)
(* that leads back into the body waits only while the body is suspended.   *)
DriverMatches ==
  /\ driver = "body" => requests # <<>>
  /\ driver = "body" <=> generator = "running"
  /\ \A r \in waiting :
       IF r.type = "return" THEN generator = "completed"
       ELSE generator \in {"suspended", "delegateAwait"}

DriverInv == Typed /\ DriverMatches /\ OneDriver

LEMMA BoundIsNat == MaxRequested \in Nat
  BY GeneratorAssumption

LEMMA DriverInit == ASSUME GeneratorInit PROVE DriverInv
<1> USE DEF GeneratorInit
<1>1. Typed
  <2>1. /\ requests \in Seq(1 .. MaxRequested)
        /\ requested \in Seq(RequestKinds)
        /\ replies \in Seq(Answer \cup {Unreplied})
    OBVIOUS
  <2>2. Len(requested) <= MaxRequested
    BY BoundIsNat
  <2> QED BY <2>1, <2>2 DEF Typed, GeneratorStates
<1>2. DriverMatches
  BY DEF DriverMatches
<1>3. OneDriver
  BY DEF OneDriver
<1> QED BY <1>1, <1>2, <1>3 DEF DriverInv

(* The queue after the front has been settled, or found missing.           *)
LEMMA SettledQueue ==
  ASSUME Typed, NEW how \in {"yield", "done", "reject"}, NEW of \in 0 .. MaxRequested,
         SettleFront(how, of)
  PROVE  /\ requests' \in Seq(1 .. MaxRequested)
         /\ replies' \in Seq(Answer \cup {Unreplied})
<1>1. CASE requests = <<>>
  BY <1>1 DEF SettleFront, Typed
<1>2. CASE requests # <<>>
  <2>1. requests' = Tail(requests)
    BY <1>2 DEF SettleFront
  <2>2. requests' \in Seq(1 .. MaxRequested)
    BY <1>2, <2>1 DEF Typed
  <2>3. [how |-> how, of |-> of] \in Answer
    BY DEF Answer
  <2>4. replies' = [replies EXCEPT ![FrontRequest] = [how |-> how, of |-> of]]
    BY <1>2 DEF SettleFront
  <2>5. /\ replies \in [1 .. Len(replies) -> Answer \cup {Unreplied}]
        /\ Len(replies) \in Nat
    BY DEF Typed
  <2>6. replies' \in [1 .. Len(replies) -> Answer \cup {Unreplied}]
    BY <2>3, <2>4, <2>5
  <2>7. replies' \in Seq(Answer \cup {Unreplied})
    BY <2>5, <2>6
  <2> QED BY <2>2, <2>7
<1> QED BY <1>1, <1>2

(* The reactions after Schedule: of is a call, and the front exists.        *)
LEMMA ScheduledWell ==
  ASSUME Typed, NEW type \in {"await", "yield", "returnResume", "return"},
         NEW of \in 0 .. MaxRequested, Schedule(type, of), requests # <<>>
  PROVE  /\ scheduled' \in Nat
         /\ waiting' \subseteq [type : {"await", "yield", "returnResume", "return"},
                                of : 0 .. MaxRequested, for : 1 .. MaxRequested, n : Nat]
<1>1. FrontRequest \in 1 .. MaxRequested
  BY HeadTailProperties DEF Typed, FrontRequest
<1>2. [type |-> type, of |-> of, for |-> FrontRequest, n |-> scheduled]
        \in [type : {"await", "yield", "returnResume", "return"},
             of : 0 .. MaxRequested, for : 1 .. MaxRequested, n : Nat]
  BY <1>1 DEF Typed
<1>3. waiting' = waiting \cup
        {[type |-> type, of |-> of, for |-> FrontRequest, n |-> scheduled]}
  BY DEF Schedule
<1>4. scheduled' \in Nat
  BY DEF Schedule, Typed
<1> QED BY <1>2, <1>3, <1>4 DEF Typed

LEMMA FrontIsCall == ASSUME Typed, requests # <<>> PROVE FrontRequest \in 0 .. MaxRequested
  BY BoundIsNat, HeadTailProperties DEF Typed, FrontRequest

(* A call leaves the front at the front. *)
LEMMA Enqueued ==
  ASSUME Typed, NEW kind \in RequestKinds, enqueue(kind)
  PROVE  /\ requests' \in Seq(1 .. MaxRequested)
         /\ requests' # <<>>
         /\ requests # <<>> => Head(requests') = Head(requests)
         /\ requested' \in Seq(RequestKinds) /\ Len(requested') <= MaxRequested
         /\ replies' \in Seq(Answer \cup {Unreplied})
<1>1. Len(requested) + 1 \in 1 .. MaxRequested
  BY BoundIsNat DEF enqueue, Typed
<1>2. requests' = Append(requests, Len(requested) + 1)
  BY DEF enqueue
<1>3. /\ requests' \in Seq(1 .. MaxRequested)
      /\ requests' # <<>>
      /\ requests # <<>> => Head(requests') = Head(requests)
  BY <1>1, <1>2, AppendProperties DEF Typed
<1>4. /\ requested' \in Seq(RequestKinds)
      /\ Len(requested') = Len(requested) + 1
      /\ replies' \in Seq(Answer \cup {Unreplied})
  BY AppendProperties DEF enqueue, Typed
<1> QED BY <1>1, <1>3, <1>4, BoundIsNat

LEMMA DriverNext ==
  ASSUME DriverInv, [GeneratorNext]_generatorVars
  PROVE  DriverInv'
<1> USE DEF DriverInv
<1>1. ASSUME NEW kind \in RequestKinds, enqueue(kind) PROVE DriverInv'
  <2>1. /\ generator' = generator /\ waiting' = waiting /\ scheduled' = scheduled
        /\ IF draining THEN draining' = draining /\ driver' = driver
           ELSE draining' = TRUE /\ driver' = "drain"
    BY <1>1 DEF enqueue, Unscheduled
  <2>2. Typed'
    BY <1>1, <2>1, Enqueued DEF Typed
  <2>3. generator # "completed" /\ draining => driver' = driver
    BY <2>1
  <2>4. driver = "body" => draining
    BY DEF OneDriver, DriverMatches
  <2>5. DriverMatches'
    BY <1>1, <2>1, <2>4, Enqueued DEF DriverMatches, Typed
  <2>6. OneDriver'
    BY <1>1, <2>1, Enqueued DEF OneDriver, FrontRequest, Typed
  <2> QED BY <2>2, <2>5, <2>6
<1>2. CASE StopDraining
  <2>1. /\ driver = "drain" /\ requests = <<>> /\ draining' = FALSE /\ driver' = "idle"
        /\ UNCHANGED <<generator, waiting, scheduled, requests, requested, replies>>
    BY <1>2 DEF StopDraining, Unscheduled
  <2> QED BY <2>1 DEF Typed, DriverMatches, OneDriver, FrontRequest
<1>3. CASE settle_completed_front
  <2>1. /\ driver = "drain" /\ generator = "completed" /\ requests # <<>>
        /\ generator' = "completed" /\ requested' = requested
    BY <1>3 DEF settle_completed_front
  <2>2. CASE FrontIs({"return"})
    <3>1. /\ Schedule("return", FrontRequest) /\ draining' = FALSE /\ driver' = "idle"
          /\ requests' = requests /\ replies' = replies
      BY <1>3, <2>2 DEF settle_completed_front
    <3>2. Typed'
      BY <2>1, <3>1, ScheduledWell, FrontIsCall DEF Typed
    <3>3. DriverMatches'
      BY <2>1, <3>1 DEF DriverMatches, Schedule
    <3> QED BY <2>1, <3>2, <3>3 DEF OneDriver
  <2>3. CASE ~ FrontIs({"return"})
    <3>1. /\ draining' = draining /\ driver' = driver
          /\ waiting' = waiting /\ scheduled' = scheduled
      BY <1>3, <2>3 DEF settle_completed_front, Unscheduled
    <3>2. SettleFront("done", 0) \/ SettleFront("reject", FrontRequest)
      BY <1>3, <2>3 DEF settle_completed_front
    <3>3. Typed'
      BY <2>1, <3>1, <3>2, SettledQueue, FrontIsCall, BoundIsNat DEF Typed
    <3> QED BY <2>1, <3>1, <3>3 DEF OneDriver, DriverMatches
  <2> QED BY <2>2, <2>3
<1>4. CASE FinishUnstarted
  <2>1. /\ driver = "drain" /\ generator = "start" /\ requests # <<>>
        /\ generator' = "completed" /\ requested' = requested /\ draining' = draining
        /\ waiting = {}
    BY <1>4 DEF FinishUnstarted, FrontIs, OneDriver
  <2>2. CASE FrontIs({"return"})
    <3>1. /\ Schedule("return", FrontRequest) /\ driver' = "idle"
          /\ requests' = requests /\ replies' = replies
      BY <1>4, <2>2 DEF FinishUnstarted
    <3>2. Typed'
      BY <2>1, <3>1, ScheduledWell, FrontIsCall DEF Typed, GeneratorStates
    <3> QED BY <2>1, <3>1, <3>2 DEF DriverMatches, Schedule, OneDriver
  <2>3. CASE ~ FrontIs({"return"})
    <3>1. /\ SettleFront("reject", FrontRequest)
          /\ driver' = driver /\ waiting' = waiting /\ scheduled' = scheduled
      BY <1>4, <2>3 DEF FinishUnstarted, Unscheduled
    <3>2. Typed'
      BY <2>1, <3>1, SettledQueue, FrontIsCall DEF Typed, GeneratorStates
    <3> QED BY <2>1, <3>1, <3>2 DEF DriverMatches, OneDriver
  <2> QED BY <2>2, <2>3
<1>5. ASSUME driver \in {"drain", "body"}, generator # "completed", requests # <<>>,
             driver' = "idle", draining' = draining, requests' = requests,
             generator' \in {"suspended", "delegateAwait"},
             UNCHANGED <<requested, replies>>,
             NEW type \in {"await", "yield", "returnResume"},
             NEW of \in 0 .. MaxRequested, Schedule(type, of)
      PROVE  DriverInv'
  <2>1. waiting = {} /\ draining
    BY <1>5 DEF OneDriver, Typed
  <2>2. waiting' = {[type |-> type, of |-> of, for |-> FrontRequest, n |-> scheduled]}
    BY <1>5, <2>1 DEF Schedule
  <2>3. Typed'
    BY <1>5, ScheduledWell DEF Typed, GeneratorStates
  <2>4. DriverMatches'
    BY <1>5, <2>2 DEF DriverMatches
  <2>5. OneDriver'
    BY <1>5, <2>1, <2>2 DEF OneDriver, FrontRequest
  <2> QED BY <2>3, <2>4, <2>5
<1>6. CASE AwaitReturnValue
  <2>1. FrontRequest \in 0 .. MaxRequested
    BY <1>6, FrontIsCall DEF AwaitReturnValue, FrontIs
  <2> QED BY <1>5, <1>6, <2>1 DEF AwaitReturnValue, FrontIs
<1>7. CASE BodyAwaits \/ BodyYields
  <2>1. 0 \in 0 .. MaxRequested
    BY BoundIsNat
  <2> QED BY <1>5, <1>7, <2>1 DEF BodyAwaits, BodyYields, DriverMatches
<1>8. CASE ResumeFront
  <2>1. /\ driver = "drain" /\ generator # "completed" /\ requests # <<>>
        /\ generator' = "running" /\ driver' = "body"
        /\ UNCHANGED <<waiting, scheduled, draining, requests, requested, replies>>
    BY <1>8 DEF ResumeFront, FrontIs, Unscheduled
  <2> QED BY <2>1 DEF Typed, GeneratorStates, DriverMatches, OneDriver
<1>9. CASE BodyYieldsDelegate
  <2>1. /\ driver = "body" /\ generator # "completed" /\ SettleFront("yield", 0)
        /\ generator' = "delegate" /\ driver' = "drain"
        /\ UNCHANGED <<waiting, scheduled, draining, requested>>
    BY <1>9 DEF BodyYieldsDelegate, Unscheduled, DriverMatches
  <2>2. Typed'
    BY <2>1, SettledQueue, BoundIsNat DEF Typed, GeneratorStates
  <2>3. waiting = {} /\ draining
    BY <2>1 DEF OneDriver, Typed
  <2> QED BY <2>1, <2>2, <2>3 DEF DriverMatches, OneDriver
<1>10. CASE BodyReturns \/ BodyThrows
  <2>1. /\ driver = "body" /\ generator # "completed" /\ requests # <<>> /\ waiting = {}
        /\ generator' = "completed" /\ UNCHANGED <<draining, requested>>
    BY <1>10 DEF BodyReturns, BodyThrows, DriverMatches, OneDriver
  <2>2. \A of \in Returned \cup Thrown : of \in 0 .. MaxRequested
    BY <2>1, FrontIsCall, BoundIsNat DEF Returned, Thrown
  <2>3. PICK of \in Returned \cup Thrown :
           \/ Schedule("return", of) /\ driver' = "idle" /\ UNCHANGED <<requests, replies>>
           \/ /\ SettleFront("done", of) \/ SettleFront("reject", of)
              /\ driver' = "drain" /\ UNCHANGED <<waiting, scheduled>>
    BY <1>10 DEF BodyReturns, BodyThrows, Unscheduled
  <2>4. CASE Schedule("return", of) /\ driver' = "idle" /\ UNCHANGED <<requests, replies>>
    <3>1. Typed'
      BY <2>1, <2>2, <2>4, ScheduledWell DEF Typed, GeneratorStates
    <3> QED BY <2>1, <2>4, <3>1 DEF DriverMatches, Schedule, OneDriver
  <2>5. CASE /\ SettleFront("done", of) \/ SettleFront("reject", of)
             /\ driver' = "drain" /\ UNCHANGED <<waiting, scheduled>>
    <3>1. Typed'
      BY <2>1, <2>2, <2>5, SettledQueue DEF Typed, GeneratorStates
    <3> QED BY <2>1, <2>5, <3>1 DEF DriverMatches, OneDriver
  <2> QED BY <2>3, <2>4, <2>5
<1>11. ASSUME NEW r \in waiting, resume_body(r) PROVE DriverInv'
  <2>1. /\ driver = "idle" /\ waiting' = waiting \ {r} /\ scheduled' = scheduled
        /\ generator # "completed" /\ generator' = "running"
        /\ driver' = "body" /\ draining' = TRUE
        /\ UNCHANGED <<requests, requested, replies>>
    BY <1>11 DEF resume_body, Settled
  <2>2. waiting' = {} /\ requests # <<>>
    BY <2>1 DEF OneDriver
  <2>3. Typed'
    BY <2>1, <2>2 DEF Typed, GeneratorStates
  <2> QED BY <2>1, <2>2, <2>3 DEF DriverMatches, OneDriver
<1>12. ASSUME NEW r \in waiting, yield_fulfilled(r) PROVE DriverInv'
  <2>1. /\ r.type = "yield" /\ driver = "idle" /\ waiting' = waiting \ {r}
        /\ scheduled' = scheduled /\ SettleFront("yield", 0)
        /\ draining' = TRUE /\ driver' = "drain" /\ UNCHANGED <<generator, requested>>
    BY <1>12 DEF yield_fulfilled, Settled
  <2>2. generator \in {"suspended", "delegateAwait"}
    BY <2>1 DEF DriverMatches
  <2>3. waiting' = {}
    BY <2>1, <2>2 DEF OneDriver
  <2>4. Typed'
    BY <2>1, SettledQueue, BoundIsNat DEF Typed
  <2> QED BY <2>1, <2>2, <2>3, <2>4 DEF DriverMatches, OneDriver
<1>13. ASSUME NEW r \in waiting, NEW how \in {"done", "reject"}, return_settled(r, how)
       PROVE  DriverInv'
  <2>1. /\ r.type = "return" /\ driver = "idle" /\ waiting' = waiting \ {r}
        /\ scheduled' = scheduled /\ SettleFront(how, r.of)
        /\ draining' = TRUE /\ driver' = "drain" /\ UNCHANGED <<generator, requested>>
    BY <1>13 DEF return_settled, Settled
  <2>2. generator = "completed" /\ r.of \in 0 .. MaxRequested
    BY <2>1 DEF DriverMatches, Typed
  <2>3. Typed'
    BY <2>1, <2>2, SettledQueue DEF Typed
  <2> QED BY <2>1, <2>2, <2>3 DEF DriverMatches, OneDriver
<1>14. CASE UNCHANGED generatorVars
  <2>1. UNCHANGED <<generator, requests, draining, driver, waiting, scheduled, requested, replies>>
    BY <1>14 DEF generatorVars
  <2> QED BY <2>1 DEF Typed, DriverMatches, OneDriver, FrontRequest
<1> QED
  BY <1>1, <1>2, <1>3, <1>4, <1>6, <1>7, <1>8, <1>9, <1>10, <1>11, <1>12, <1>13, <1>14
     DEF GeneratorNext, GeneratorEngine

(* Until it is completed, a generator is driven by the loop, by its body   *)
(* or by one awaited promise, never by two of them.                        *)
THEOREM DriverCorrect == GeneratorSpec => []OneDriver
<1>1. GeneratorInit => DriverInv
  BY DriverInit
<1>2. DriverInv /\ [GeneratorNext]_generatorVars => DriverInv'
  BY DriverNext
<1>3. DriverInv => OneDriver
  BY DEF DriverInv
<1> QED BY <1>1, <1>2, <1>3, PTL DEF GeneratorSpec

-----------------------------------------------------------------------------
(* The calls that have a reply are the first ones, the queue is the others. *)
Replied == Len(requested) - Len(requests)

QueueInv ==
  /\ Len(replies) = Len(requested)
  /\ Len(requests) <= Len(requested)
  /\ \A j \in 1 .. Len(requests) : requests[j] = Replied + j
  /\ \A i \in 1 .. Len(replies) : replies[i] = Unreplied <=> i > Replied

AllYielded == \A i \in 1 .. Replied : replies[i].how = "yield"

(* A generator that is done and idle waits for the value of a return: that *)
(* of the front, or of an earlier one with a reply that closed it.  The    *)
(* value is the body's own only for the return that completed it.          *)
DoneInv ==
  /\ generator # "completed" => AllYielded
  /\ generator = "completed" /\ driver = "idle" =>
       IF requests = <<>> THEN ~ draining ELSE requested[Replied + 1] = "return"

ReturnInv ==
  \A r \in waiting : r.type = "return" =>
    /\ r.for \in 1 .. Replied + 1 /\ r.for <= Len(requested)
    /\ requested[r.for] = "return"
    /\ r.for <= Replied => replies[r.for].how # "yield"
    /\ r.of # r.for =>
         r.of = 0 /\ draining /\ driver = "idle" /\ waiting = {r} /\ AllYielded

ReplyInv == DriverInv /\ QueueInv /\ DoneInv /\ ReturnInv

LEMMA AnswerIsReply == Answer = Requests!Reply /\ Unreplied \notin Answer
<1>1. Answer \subseteq [how : {"yield", "done", "reject"}, of : Nat]
  BY BoundIsNat DEF Answer
<1> QED BY <1>1, GeneratorAssumption DEF Answer, Requests!Reply

LEMMA ReplyInit == ASSUME GeneratorInit PROVE ReplyInv
<1>1. /\ requests = <<>> /\ requested = <<>> /\ replies = <<>>
      /\ waiting = {} /\ generator = "start"
  BY DEF GeneratorInit
<1>2. Len(requests) = 0 /\ Len(requested) = 0 /\ Len(replies) = 0 /\ Replied = 0
  BY <1>1 DEF Replied
<1> QED BY <1>1, <1>2, DriverInit DEF ReplyInv, QueueInv, DoneInv, ReturnInv, AllYielded

LEMMA QueueFacts ==
  ASSUME Typed, QueueInv
  PROVE  /\ Replied \in Nat /\ Replied <= Len(requested)
         /\ requests # <<>> => /\ FrontRequest = Replied + 1
                              /\ Replied + 1 \in 1 .. Len(requested)
         /\ requests = <<>> => Replied = Len(requested)
         /\ \A i \in 1 .. Replied : replies[i] \in Answer
<1>1. Len(requests) \in Nat /\ Len(requested) \in Nat /\ Len(replies) = Len(requested)
  BY LenProperties DEF Typed, QueueInv
<1>2. Replied \in Nat /\ Replied <= Len(requested)
  BY <1>1 DEF Replied, QueueInv
<1>3. ASSUME requests # <<>> PROVE FrontRequest = Replied + 1 /\ Replied + 1 \in 1 .. Len(requested)
  <2>1. Len(requests) >= 1 /\ FrontRequest = requests[1]
    BY <1>3, EmptySeq DEF Typed, FrontRequest
  <2> QED BY <1>1, <1>2, <2>1 DEF QueueInv, Replied
<1>4. requests = <<>> => Replied = Len(requested)
  BY <1>1 DEF Replied
<1>5. \A i \in 1 .. Replied : replies[i] \in Answer
  <2>1. \A i \in 1 .. Len(replies) : replies[i] \in Answer \cup {Unreplied}
    BY DEF Typed
  <2> QED BY <1>1, <1>2, <2>1 DEF QueueInv
<1> QED BY <1>2, <1>3, <1>4, <1>5

LEMMA Settling ==
  ASSUME Typed, QueueInv, requests # <<>>, requested' = requested,
         NEW how \in {"yield", "done", "reject"}, NEW of \in 0 .. MaxRequested,
         SettleFront(how, of)
  PROVE  /\ QueueInv' /\ Replied' = Replied + 1
         /\ replies' = [replies EXCEPT ![Replied + 1] = [how |-> how, of |-> of]]
         /\ replies'[Replied + 1] = [how |-> how, of |-> of]
         /\ \A i \in 1 .. Replied : replies'[i] = replies[i]
         /\ Requests!IsFront(Replied + 1)
<1>1. /\ replies' = [replies EXCEPT ![Replied + 1] = [how |-> how, of |-> of]]
      /\ requests' = Tail(requests)
  BY QueueFacts DEF SettleFront
<1>2. /\ Len(requests') = Len(requests) - 1
      /\ \A i \in 1 .. Len(requests') : requests'[i] = requests[i + 1]
  BY <1>1, HeadTailProperties DEF Typed
<1>3. Len(requests) \in Nat /\ Len(requested) \in Nat /\ Len(requests) >= 1
  BY LenProperties, EmptySeq DEF Typed
<1>4. Replied' = Replied + 1
  BY <1>2, <1>3 DEF Replied
<1>5. /\ replies \in [1 .. Len(replies) -> Answer \cup {Unreplied}]
      /\ Len(replies) = Len(requested) /\ Len(replies) \in Nat
  BY <1>3 DEF Typed, QueueInv
<1>6. Replied + 1 \in 1 .. Len(replies) /\ Replied \in Nat
  BY <1>5, QueueFacts
<1>7. /\ replies'[Replied + 1] = [how |-> how, of |-> of]
      /\ \A i \in 1 .. Len(replies) : i # Replied + 1 => replies'[i] = replies[i]
      /\ Len(replies') = Len(replies)
  BY <1>1, <1>5, <1>6
<1>8. [how |-> how, of |-> of] # Unreplied
  BY AnswerIsReply DEF Answer
<1>9. QueueInv'
  <2>1. \A j \in 1 .. Len(requests') : requests'[j] = Replied' + j
    BY <1>2, <1>3, <1>4, <1>6 DEF QueueInv
  <2>2. \A i \in 1 .. Len(replies) : replies'[i] = Unreplied <=> i > Replied'
    <3> SUFFICES ASSUME NEW i \in 1 .. Len(replies)
                 PROVE  replies'[i] = Unreplied <=> i > Replied'
      OBVIOUS
    <3>1. CASE i = Replied + 1
      BY <1>4, <1>6, <1>7, <1>8, <3>1
    <3>2. CASE i # Replied + 1
      <4>1. replies'[i] = replies[i]
        BY <1>7, <3>2
      <4>2. replies[i] = Unreplied <=> i > Replied
        BY DEF QueueInv
      <4>3. i > Replied <=> i > Replied'
        BY <1>4, <1>5, <1>6, <3>2
      <4> QED BY <4>1, <4>2, <4>3
    <3> QED BY <3>1, <3>2
  <2>3. Len(requests') <= Len(requested)
    BY <1>2, <1>3 DEF QueueInv
  <2> QED BY <1>5, <1>7, <2>1, <2>2, <2>3 DEF QueueInv
<1>10. Requests!IsFront(Replied + 1)
  <2>1. replies[Replied + 1] = Unreplied
    BY <1>6 DEF QueueInv
  <2>2. \A j \in 1 .. (Replied + 1) - 1 : replies[j] # Unreplied
    BY <1>5, <1>6 DEF QueueInv
  <2> QED BY <2>1, <2>2 DEF Requests!IsFront
<1>11. \A i \in 1 .. Replied : replies'[i] = replies[i]
  BY <1>5, <1>6, <1>7
<1> QED BY <1>1, <1>4, <1>7, <1>9, <1>10, <1>11

(* A reply that follows from the call, or the first one that closes.       *)
LEMMA SettlesAsPromised ==
  ASSUME Typed, QueueInv, requests # <<>>, requested' = requested,
         NEW how \in {"yield", "done", "reject"}, NEW of \in 0 .. MaxRequested,
         SettleFront(how, of),
         AllYielded => [how |-> how, of |-> of] \in Requests!WhileOpen(Replied + 1),
         ~ AllYielded => [how |-> how, of |-> of] \in Requests!OnceDone(Replied + 1)
  PROVE  Requests!Next
<1>1. Replied \in Nat /\ Replied + 1 \in 1 .. Len(requested)
  BY QueueFacts
<1>2. Requests!Done(Replied + 1) <=> ~ AllYielded
  <2>1. \A i \in 1 .. Replied : replies[i] \in Requests!Reply
    BY QueueFacts, AnswerIsReply
  <2>2. Requests!Done(Replied + 1) <=>
          \E i \in 1 .. (Replied + 1) - 1 : replies[i] \in Requests!Reply /\ replies[i].how # "yield"
    BY DEF Requests!Done
  <2>3. (Replied + 1) - 1 = Replied
    BY <1>1
  <2> QED BY <2>1, <2>2, <2>3 DEF AllYielded
<1>3. Replied + 1 \in DOMAIN replies
  BY <1>1 DEF Typed, QueueInv
<1>4. /\ Requests!IsFront(Replied + 1)
      /\ replies' = [replies EXCEPT ![Replied + 1] = [how |-> how, of |-> of]]
  BY Settling
<1>5. [how |-> how, of |-> of] \in
        IF Requests!Done(Replied + 1) THEN Requests!OnceDone(Replied + 1)
        ELSE Requests!WhileOpen(Replied + 1)
  BY <1>2
<1>6. Requests!Settle
  BY <1>3, <1>4, <1>5 DEF Requests!Settle
<1> QED BY <1>6 DEF Requests!Next

LEMMA QueueGrows ==
  ASSUME Typed, QueueInv, NEW kind \in RequestKinds, enqueue(kind)
  PROVE  /\ QueueInv' /\ Replied' = Replied
         /\ Len(requested') = Len(requested) + 1
         /\ \A i \in 1 .. Len(requested) : requested'[i] = requested[i]
         /\ \A i \in 1 .. Replied : replies'[i] = replies[i]
         /\ Requests!Next
<1>1. /\ Len(requests') = Len(requests) + 1
      /\ requests'[Len(requests) + 1] = Len(requested) + 1
      /\ \A i \in 1 .. Len(requests) : requests'[i] = requests[i]
  <2>1. Len(requested) + 1 \in 1 .. MaxRequested
    BY BoundIsNat DEF enqueue, Typed
  <2> QED BY <2>1, AppendProperties DEF enqueue, Typed
<1>2. /\ Len(requested') = Len(requested) + 1
      /\ \A i \in 1 .. Len(requested) : requested'[i] = requested[i]
  BY AppendProperties DEF enqueue, Typed
<1>3. /\ Len(replies') = Len(replies) + 1
      /\ replies'[Len(replies) + 1] = Unreplied
      /\ \A i \in 1 .. Len(replies) : replies'[i] = replies[i]
  BY AppendProperties DEF enqueue, Typed
<1>4. Len(requests) \in Nat /\ Len(requested) \in Nat
  BY LenProperties DEF Typed
<1>5. Replied' = Replied /\ Replied \in Nat
  BY <1>1, <1>2, <1>4, QueueFacts DEF Replied
<1>6. QueueInv'
  <2>1. Len(replies') = Len(requested') /\ Len(requests') <= Len(requested')
    BY <1>1, <1>2, <1>3, <1>4 DEF QueueInv
  <2>2. \A j \in 1 .. Len(requests') : requests'[j] = Replied' + j
    <3> SUFFICES ASSUME NEW j \in 1 .. Len(requests') PROVE requests'[j] = Replied' + j
      OBVIOUS
    <3>1. CASE j \in 1 .. Len(requests)
      BY <1>1, <1>5, <3>1 DEF QueueInv
    <3>2. CASE j = Len(requests) + 1
      BY <1>1, <1>4, <1>5, <3>2 DEF Replied
    <3> QED BY <1>1, <1>4, <3>1, <3>2
  <2>3. \A i \in 1 .. Len(replies') : replies'[i] = Unreplied <=> i > Replied'
    <3> SUFFICES ASSUME NEW i \in 1 .. Len(replies')
                 PROVE  replies'[i] = Unreplied <=> i > Replied'
      OBVIOUS
    <3>1. CASE i \in 1 .. Len(replies)
      BY <1>3, <1>5, <3>1 DEF QueueInv
    <3>2. CASE i = Len(replies) + 1
      <4>1. Replied <= Len(replies) /\ Len(replies) \in Nat
        BY <1>4, QueueFacts DEF QueueInv
      <4> QED BY <1>3, <1>5, <3>2, <4>1
    <3> QED BY <1>3, <1>4, <3>1, <3>2 DEF QueueInv
  <2> QED BY <2>1, <2>2, <2>3 DEF QueueInv
<1>7. Requests!Next
  BY DEF enqueue, RequestKinds, Requests!RequestKinds, Requests!Next, Requests!Request
<1>8. \A i \in 1 .. Replied : replies'[i] = replies[i]
  BY <1>3, <1>4, <1>5, QueueFacts DEF QueueInv
<1> QED BY <1>2, <1>5, <1>6, <1>7, <1>8

Promised == [Requests!Next]_(Requests!vars)

(* A step that settles nothing and makes no call. *)
LEMMA QueueStays ==
  ASSUME UNCHANGED <<requests, requested, replies>>
  PROVE  /\ Promised /\ Replied' = Replied /\ AllYielded' = AllYielded
         /\ QueueInv => QueueInv'
  BY DEF Promised, Requests!vars, Replied, AllYielded, QueueInv

(* A yield is replied. *)
LEMMA YieldReplies ==
  ASSUME ReplyInv, generator # "completed", generator' # "completed",
         requests # <<>>, requested' = requested, SettleFront("yield", 0), waiting' = {}
  PROVE  QueueInv' /\ DoneInv' /\ ReturnInv' /\ Promised
<1>1. AllYielded /\ Replied \in Nat
  BY QueueFacts DEF ReplyInv, DoneInv, DriverInv
<1>2. 0 \in 0 .. MaxRequested
  BY BoundIsNat
<1>3. /\ QueueInv' /\ Replied' = Replied + 1
      /\ replies'[Replied + 1] = [how |-> "yield", of |-> 0]
      /\ \A i \in 1 .. Replied : replies'[i] = replies[i]
  BY <1>2, Settling DEF ReplyInv, DriverInv
<1>4. AllYielded'
  <2>1. \A i \in 1 .. Replied + 1 : replies'[i].how = "yield"
    BY <1>1, <1>3 DEF AllYielded
  <2> QED BY <1>3, <2>1 DEF AllYielded
<1>5. [how |-> "yield", of |-> 0] \in Requests!WhileOpen(Replied + 1)
  BY <1>2 DEF Requests!WhileOpen, Requests!Reply
<1>6. Promised
  BY <1>1, <1>2, <1>5, SettlesAsPromised DEF ReplyInv, DriverInv, Promised
<1>7. DoneInv'
  BY <1>4 DEF DoneInv
<1>8. ReturnInv'
  BY DEF ReturnInv
<1> QED BY <1>3, <1>6, <1>7, <1>8

(* A reply that closes the generator, or a later one: in any case the loop *)
(* goes on.                                                                *)
LEMMA ClosingReplies ==
  ASSUME ReplyInv, generator' = "completed", driver' = "drain",
         requests # <<>>, requested' = requested, waiting' \subseteq waiting,
         NEW how \in {"done", "reject"}, NEW of \in 0 .. MaxRequested,
         SettleFront(how, of),
         \A r \in waiting' : r.type = "return" => r.of = r.for,
         AllYielded => [how |-> how, of |-> of] \in Requests!WhileOpen(Replied + 1),
         ~ AllYielded => [how |-> how, of |-> of] \in Requests!OnceDone(Replied + 1)
  PROVE  QueueInv' /\ DoneInv' /\ ReturnInv' /\ Promised
<1>1. /\ QueueInv' /\ Replied' = Replied + 1 /\ Replied \in Nat
      /\ replies'[Replied + 1] = [how |-> how, of |-> of]
      /\ \A i \in 1 .. Replied : replies'[i] = replies[i]
  BY Settling, QueueFacts DEF ReplyInv, DriverInv
<1>2. Promised
  BY SettlesAsPromised DEF ReplyInv, DriverInv, Promised
<1>3. DoneInv'
  BY DEF DoneInv
<1>4. ReturnInv'
  <2> SUFFICES ASSUME NEW r \in waiting', r.type = "return"
               PROVE  /\ r.for \in 1 .. Replied' + 1 /\ r.for <= Len(requested')
                      /\ requested'[r.for] = "return"
                      /\ r.for <= Replied' => replies'[r.for].how # "yield"
                      /\ r.of = r.for
    BY DEF ReturnInv
  <2>1. /\ r.for \in 1 .. Replied + 1 /\ r.for <= Len(requested)
        /\ requested[r.for] = "return"
        /\ r.for <= Replied => replies[r.for].how # "yield"
    BY DEF ReplyInv, ReturnInv
  <2>2. r.for \in 1 .. Replied' + 1
    BY <1>1, <2>1
  <2>3. replies'[r.for].how # "yield"
    <3>1. CASE r.for = Replied + 1
      BY <1>1, <3>1
    <3>2. CASE r.for # Replied + 1
      BY <1>1, <2>1, <3>2
    <3> QED BY <3>1, <3>2
  <2> QED BY <2>1, <2>2, <2>3
<1> QED BY <1>1, <1>2, <1>3, <1>4

(* The value of the return at the front is awaited. *)
LEMMA ReturnAwaited ==
  ASSUME ReplyInv, driver # "idle", requests # <<>>, FrontIs({"return"}),
         NEW of \in 0 .. MaxRequested, Schedule("return", of),
         UNCHANGED <<requests, requested, replies>>,
         generator' = "completed", driver' = "idle",
         of # FrontRequest => of = 0 /\ draining' /\ waiting = {} /\ AllYielded
  PROVE  QueueInv' /\ DoneInv' /\ ReturnInv' /\ Promised
<1>1. /\ Promised /\ Replied' = Replied /\ AllYielded' = AllYielded /\ QueueInv'
      /\ requests' = requests /\ requested' = requested /\ replies' = replies
  BY QueueStays DEF ReplyInv
<1>2. FrontRequest = Replied + 1 /\ Replied + 1 \in 1 .. Len(requested) /\ Replied \in Nat
  BY QueueFacts DEF ReplyInv, DriverInv
<1>3. requested[Replied + 1] = "return"
  BY <1>2 DEF FrontIs
<1>4. DoneInv'
  BY <1>1, <1>3 DEF DoneInv
<1>5. ReturnInv'
  <2> SUFFICES ASSUME NEW r \in waiting', r.type = "return"
               PROVE  /\ r.for \in 1 .. Replied + 1 /\ r.for <= Len(requested)
                      /\ requested[r.for] = "return"
                      /\ r.for <= Replied => replies[r.for].how # "yield"
                      /\ r.of # r.for => r.of = 0 /\ draining' /\ waiting' = {r} /\ AllYielded
    BY <1>1 DEF ReturnInv
  <2>1. CASE r \in waiting
    <3>1. /\ r.for \in 1 .. Replied + 1 /\ r.for <= Len(requested)
          /\ requested[r.for] = "return"
          /\ r.for <= Replied => replies[r.for].how # "yield"
          /\ r.of = r.for
      BY <2>1 DEF ReplyInv, ReturnInv
    <3> QED BY <3>1
  <2>2. CASE r = [type |-> "return", of |-> of, for |-> FrontRequest, n |-> scheduled]
    <3>1. r.for = Replied + 1 /\ r.of = of
      BY <1>2, <2>2
    <3>2. waiting = {} => waiting' = {r}
      BY <2>2 DEF Schedule
    <3> QED BY <1>2, <1>3, <3>1, <3>2
  <2> QED BY <2>1, <2>2 DEF Schedule
<1> QED BY <1>1, <1>4, <1>5

(* Before the generator is completed nothing waits for the value of a return. *)
LEMMA OpenSteps ==
  ASSUME ReplyInv, generator # "completed", generator' # "completed",
         UNCHANGED <<requests, requested, replies>>,
         \A r \in waiting' : r \in waiting \/ r.type # "return"
  PROVE  QueueInv' /\ DoneInv' /\ ReturnInv' /\ Promised
<1>1. \A r \in waiting : r.type # "return"
  BY DEF ReplyInv, DriverInv, DriverMatches
<1> QED BY <1>1, QueueStays DEF ReplyInv, DoneInv, ReturnInv

LEMMA FrontKinds ==
  ASSUME Typed, QueueInv, requests # <<>>
  PROVE  /\ requested[FrontRequest] \in RequestKinds
         /\ FrontRequest = Replied + 1 /\ FrontRequest \in 0 .. MaxRequested
         /\ FrontIs({"return"}) <=> requested[FrontRequest] = "return"
         /\ FrontIs({"next"}) <=> requested[FrontRequest] = "next"
<1>1. FrontRequest = Replied + 1 /\ Replied + 1 \in 1 .. Len(requested)
  BY QueueFacts
<1> QED BY <1>1, FrontIsCall DEF Typed, FrontIs

LEMMA ReplyNext ==
  ASSUME ReplyInv, [GeneratorNext]_generatorVars
  PROVE  QueueInv' /\ DoneInv' /\ ReturnInv' /\ Promised
<1> DEFINE Kept == QueueInv' /\ DoneInv' /\ ReturnInv' /\ Promised
<1> USE DEF ReplyInv, DriverInv
<1>q. /\ Replied \in Nat /\ 0 \in 0 .. MaxRequested
      /\ generator # "completed" => AllYielded
  BY QueueFacts, BoundIsNat DEF DoneInv
<1>1. ASSUME NEW kind \in RequestKinds, enqueue(kind) PROVE Kept
  <2>1. /\ QueueInv' /\ Replied' = Replied
        /\ Len(requested') = Len(requested) + 1 /\ Len(requested) \in Nat
        /\ \A i \in 1 .. Len(requested) : requested'[i] = requested[i]
        /\ \A i \in 1 .. Replied : replies'[i] = replies[i]
        /\ Promised
    BY <1>1, QueueGrows, LenProperties DEF Promised, Typed
  <2>2. /\ generator' = generator /\ waiting' = waiting
        /\ draining => draining' = draining /\ driver' = driver
        /\ ~ draining => draining' = TRUE /\ driver' = "drain"
        /\ requests' # <<>>
    BY <1>1, Enqueued DEF enqueue, Unscheduled
  <2>3. AllYielded' <=> AllYielded
    BY <2>1 DEF AllYielded
  <2>4. DoneInv'
    <3>1. ASSUME generator = "completed", driver' = "idle"
          PROVE  requested'[Replied' + 1] = "return"
      <4>1. draining /\ driver = "idle"
        BY <2>2, <3>1
      <4>2. requests # <<>> /\ requested[Replied + 1] = "return"
        BY <3>1, <4>1 DEF DoneInv
      <4> QED BY <2>1, <4>2, QueueFacts
    <3> QED BY <2>2, <2>3, <3>1 DEF DoneInv
  <2>5. ReturnInv'
    <3> SUFFICES ASSUME NEW r \in waiting, r.type = "return"
                 PROVE  /\ r.for \in 1 .. Replied + 1 /\ r.for <= Len(requested')
                        /\ requested'[r.for] = "return"
                        /\ r.for <= Replied => replies'[r.for].how # "yield"
                        /\ r.of # r.for =>
                             r.of = 0 /\ draining' /\ driver' = "idle"
                               /\ waiting' = {r} /\ AllYielded'
      BY <2>1, <2>2 DEF ReturnInv
    <3>1. /\ r.for \in 1 .. Replied + 1 /\ r.for <= Len(requested)
          /\ requested[r.for] = "return"
          /\ r.for <= Replied => replies[r.for].how # "yield"
          /\ r.of # r.for =>
               r.of = 0 /\ draining /\ driver = "idle" /\ waiting = {r} /\ AllYielded
      BY DEF ReturnInv
    <3>2. r.for <= Len(requested') /\ requested'[r.for] = "return"
      BY <1>q, <2>1, <3>1
    <3>3. r.for <= Replied => replies'[r.for].how # "yield"
      BY <1>q, <2>1, <3>1
    <3> QED BY <2>2, <2>3, <3>1, <3>2, <3>3
  <2> QED BY <2>1, <2>4, <2>5
<1>2. CASE StopDraining
  <2>1. /\ requests = <<>> /\ ~ draining' /\ driver = "drain"
        /\ UNCHANGED <<generator, waiting, requests, requested, replies>>
    BY <1>2 DEF StopDraining, Unscheduled
  <2>2. \A r \in waiting : r.type = "return" => r.of = r.for
    BY <2>1 DEF ReturnInv
  <2> QED BY <2>1, <2>2, QueueStays DEF DoneInv, ReturnInv
<1>3. CASE settle_completed_front
  <2>1. /\ driver = "drain" /\ generator' = "completed" /\ requests # <<>>
        /\ requested' = requested
    BY <1>3 DEF settle_completed_front
  <2>2. CASE FrontIs({"return"})
    <3>1. /\ Schedule("return", FrontRequest) /\ driver' = "idle"
          /\ UNCHANGED <<requests, replies>>
      BY <1>3, <2>2 DEF settle_completed_front
    <3> QED BY <2>1, <2>2, <3>1, ReturnAwaited, FrontIsCall
  <2>3. CASE ~ FrontIs({"return"})
    <3>1. /\ driver' = "drain" /\ waiting' = waiting
          /\ IF FrontIs({"next"}) THEN SettleFront("done", 0)
             ELSE SettleFront("reject", FrontRequest)
      BY <1>3, <2>1, <2>3 DEF settle_completed_front, Unscheduled
    <3>2. \A r \in waiting' : r.type = "return" => r.of = r.for
      BY <2>1, <3>1 DEF ReturnInv
    <3>3. FrontRequest = Replied + 1 /\ FrontRequest \in 0 .. MaxRequested
      BY <2>1, FrontKinds
    <3>4. CASE requested[Replied + 1] = "next"
      <4>1. SettleFront("done", 0)
        BY <2>1, <3>1, <3>3, <3>4, FrontKinds
      <4>2. /\ [how |-> "done", of |-> 0] \in Requests!WhileOpen(Replied + 1)
            /\ [how |-> "done", of |-> 0] \in Requests!OnceDone(Replied + 1)
        BY <1>q, <3>4 DEF Requests!WhileOpen, Requests!OnceDone, Requests!Reply
      <4> QED BY <1>q, <2>1, <3>1, <3>2, <4>1, <4>2, ClosingReplies
    <3>5. CASE requested[Replied + 1] = "throw"
      <4>1. SettleFront("reject", Replied + 1)
        BY <2>1, <3>1, <3>3, <3>5, FrontKinds
      <4>2. /\ [how |-> "reject", of |-> Replied + 1] \in Requests!WhileOpen(Replied + 1)
            /\ [how |-> "reject", of |-> Replied + 1] \in Requests!OnceDone(Replied + 1)
        BY <3>3, <3>5 DEF Requests!WhileOpen, Requests!OnceDone, Requests!Reply
      <4> QED BY <2>1, <3>1, <3>2, <3>3, <4>1, <4>2, ClosingReplies
    <3> QED BY <2>1, <2>3, <3>3, <3>4, <3>5, FrontKinds DEF RequestKinds
  <2> QED BY <2>2, <2>3
<1>4. CASE FinishUnstarted
  <2>1. /\ driver = "drain" /\ generator' = "completed" /\ requests # <<>>
        /\ generator # "completed" /\ requested' = requested /\ waiting = {}
        /\ FrontIs({"return", "throw"})
    BY <1>4 DEF FinishUnstarted, FrontIs, OneDriver
  <2>2. CASE FrontIs({"return"})
    <3>1. /\ Schedule("return", FrontRequest) /\ driver' = "idle"
          /\ UNCHANGED <<requests, replies>>
      BY <1>4, <2>2 DEF FinishUnstarted
    <3> QED BY <2>1, <2>2, <3>1, ReturnAwaited, FrontIsCall
  <2>3. CASE ~ FrontIs({"return"})
    <3>1. /\ driver' = "drain" /\ waiting' = waiting /\ SettleFront("reject", FrontRequest)
      BY <1>4, <2>1, <2>3 DEF FinishUnstarted, Unscheduled
    <3>2. FrontRequest = Replied + 1 /\ FrontRequest \in 0 .. MaxRequested
      BY <2>1, FrontKinds
    <3>3. requested[Replied + 1] = "throw"
      BY <2>1, <2>3, <3>2 DEF FrontIs
    <3>4. [how |-> "reject", of |-> Replied + 1] \in Requests!WhileOpen(Replied + 1)
      BY <3>2, <3>3 DEF Requests!WhileOpen, Requests!Reply
    <3> QED BY <1>q, <2>1, <3>1, <3>2, <3>4, ClosingReplies
  <2> QED BY <2>2, <2>3
<1>5. CASE AwaitReturnValue
  <2>1. /\ generator # "completed" /\ generator' # "completed"
        /\ UNCHANGED <<requests, requested, replies>>
        /\ \A r \in waiting' : r \in waiting \/ r.type # "return"
    BY <1>5 DEF AwaitReturnValue, Schedule
  <2> QED BY <2>1, OpenSteps
<1>6. CASE BodyAwaits \/ BodyYields
  <2>1. /\ generator # "completed" /\ generator' # "completed"
        /\ UNCHANGED <<requests, requested, replies>>
        /\ \A r \in waiting' : r \in waiting \/ r.type # "return"
    BY <1>6 DEF BodyAwaits, BodyYields, Schedule, DriverMatches
  <2> QED BY <2>1, OpenSteps
<1>7. CASE ResumeFront
  <2>1. /\ generator # "completed" /\ generator' # "completed"
        /\ UNCHANGED <<requests, requested, replies>>
        /\ \A r \in waiting' : r \in waiting \/ r.type # "return"
    BY <1>7 DEF ResumeFront, Unscheduled
  <2> QED BY <2>1, OpenSteps
<1>8. CASE BodyYieldsDelegate
  <2>1. /\ driver = "body" /\ generator # "completed" /\ generator' # "completed"
        /\ requests # <<>> /\ requested' = requested
        /\ SettleFront("yield", 0) /\ waiting' = waiting
    BY <1>8 DEF BodyYieldsDelegate, Unscheduled, DriverMatches
  <2>2. waiting = {}
    BY <2>1 DEF OneDriver, Typed
  <2> QED BY <2>1, <2>2, YieldReplies
<1>9. CASE BodyReturns \/ BodyThrows
  <2>1. /\ driver = "body" /\ generator # "completed" /\ requests # <<>> /\ waiting = {}
        /\ draining /\ draining' = draining
        /\ generator' = "completed" /\ requested' = requested
    BY <1>9 DEF BodyReturns, BodyThrows, DriverMatches, OneDriver
  <2>2. FrontRequest = Replied + 1 /\ FrontRequest \in 0 .. MaxRequested
    BY <2>1, FrontKinds
  <2>3. ASSUME NEW of \in Returned, FrontIs({"return"}), Schedule("return", of),
               driver' = "idle", UNCHANGED <<requests, replies>>
        PROVE  Kept
    <3>1. of \in {0, FrontRequest}
      BY <2>3 DEF Returned
    <3>2. of \in 0 .. MaxRequested
      BY <1>q, <2>2, <3>1
    <3> QED BY <1>q, <2>1, <2>3, <3>1, <3>2, ReturnAwaited
  <2>4. ASSUME NEW how \in {"done", "reject"}, NEW of, SettleFront(how, of),
               UNCHANGED waiting, driver' = "drain",
               \/ of = 0
               \/ of = FrontRequest /\ <<requested[FrontRequest], how>> \in
                    {<<"return", "done">>, <<"return", "reject">>, <<"throw", "reject">>}
        PROVE  Kept
    <3>1. of \in 0 .. MaxRequested
      BY <1>q, <2>2, <2>4
    <3>2. [how |-> how, of |-> of] \in Requests!Reply
      BY <3>1 DEF Requests!Reply
    <3>3. [how |-> how, of |-> of] \in Requests!WhileOpen(Replied + 1)
      BY <2>2, <2>4, <3>2 DEF Requests!WhileOpen
    <3> QED BY <1>q, <2>1, <2>4, <3>1, <3>3, ClosingReplies
  <2>5. ASSUME NEW of \in Returned, SettleFront("done", of), UNCHANGED waiting, driver' = "drain"
        PROVE  Kept
    <3>1. of = 0 \/ (of = FrontRequest /\ requested[FrontRequest] = "return")
      BY <2>5 DEF Returned, FrontIs
    <3> QED BY <2>4, <2>5, <3>1
  <2>6. ASSUME NEW of \in Thrown, SettleFront("reject", of), UNCHANGED waiting, driver' = "drain"
        PROVE  Kept
    <3>1. of = 0 \/ (of = FrontRequest /\ requested[FrontRequest] \in {"return", "throw"})
      BY <2>6 DEF Thrown, FrontIs
    <3> QED BY <2>4, <2>6, <3>1
  <2> QED BY <1>9, <2>3, <2>5, <2>6 DEF BodyReturns, BodyThrows, Unscheduled
<1>10. ASSUME NEW r \in waiting, resume_body(r) PROVE Kept
  <2>1. /\ generator # "completed" /\ generator' # "completed"
        /\ UNCHANGED <<requests, requested, replies>>
        /\ \A s \in waiting' : s \in waiting \/ s.type # "return"
    BY <1>10 DEF resume_body, Settled
  <2> QED BY <2>1, OpenSteps
<1>11. ASSUME NEW r \in waiting, yield_fulfilled(r) PROVE Kept
  <2>1. /\ r.type = "yield" /\ waiting' = waiting \ {r} /\ SettleFront("yield", 0)
        /\ UNCHANGED <<generator, requested>>
    BY <1>11 DEF yield_fulfilled, Settled
  <2>2. generator # "completed"
    BY <2>1 DEF DriverMatches
  <2>3. waiting' = {} /\ requests # <<>>
    BY <2>1, <2>2 DEF OneDriver
  <2> QED BY <2>1, <2>2, <2>3, YieldReplies
<1>12. ASSUME NEW r \in waiting, NEW how \in {"done", "reject"}, return_settled(r, how)
       PROVE  Kept
  <2>1. /\ r.type = "return" /\ driver = "idle" /\ waiting' = waiting \ {r}
        /\ SettleFront(how, r.of)
        /\ draining' = TRUE /\ driver' = "drain" /\ UNCHANGED <<generator, requested>>
    BY <1>12 DEF return_settled, Settled
  <2>2. generator = "completed" /\ r.of \in 0 .. MaxRequested
    BY <2>1 DEF DriverMatches, Typed
  <2>3. \A s \in waiting' : s.type = "return" => s.of = s.for
    BY <2>1 DEF ReturnInv
  <2>4. /\ r.for \in 1 .. Replied + 1 /\ r.for <= Len(requested)
        /\ requested[r.for] = "return"
        /\ r.for <= Replied => replies[r.for].how # "yield"
        /\ r.of # r.for => r.of = 0 /\ AllYielded
    BY <2>1 DEF ReturnInv
  <2>5. CASE requests = <<>>
    <3>1. UNCHANGED <<requests, requested, replies>>
      BY <2>1, <2>5 DEF SettleFront
    <3> QED BY <2>1, <2>2, <2>3, <3>1, QueueStays DEF DoneInv, ReturnInv
  <2>6. CASE requests # <<>>
    <3>1. requested[Replied + 1] = "return"
      BY <2>1, <2>2, <2>6 DEF DoneInv
    <3>2. [how |-> how, of |-> r.of] \in Requests!Reply
      BY <2>2 DEF Requests!Reply
    <3>3. ASSUME AllYielded
          PROVE  [how |-> how, of |-> r.of] \in Requests!WhileOpen(Replied + 1)
      <4>1. r.for = Replied + 1
        BY <1>q, <2>4, <3>3 DEF AllYielded
      <4>2. r.of = 0 \/ r.of = Replied + 1
        BY <2>4, <4>1
      <4> QED BY <3>1, <3>2, <4>2 DEF Requests!WhileOpen
    <3>4. ASSUME ~ AllYielded
          PROVE  [how |-> how, of |-> r.of] \in Requests!OnceDone(Replied + 1)
      <4>1. r.of = r.for /\ r.of \in DOMAIN requested
        BY <2>4, <3>4 DEF Typed
      <4> QED BY <2>4, <3>1, <3>2, <4>1 DEF Requests!OnceDone
    <3> QED BY <2>1, <2>2, <2>3, <2>6, <3>3, <3>4, ClosingReplies
  <2> QED BY <2>5, <2>6
<1>13. CASE UNCHANGED generatorVars
  <2>1. /\ UNCHANGED <<requests, requested, replies>>
        /\ UNCHANGED <<generator, draining, driver, waiting>>
    BY <1>13 DEF generatorVars
  <2> QED BY <2>1, QueueStays DEF DoneInv, ReturnInv
<1> QED
  BY <1>1, <1>2, <1>3, <1>4, <1>5, <1>6, <1>7, <1>8, <1>9, <1>10, <1>11, <1>12, <1>13
     DEF GeneratorNext, GeneratorEngine

(* The promises that next, return and throw hand out settle in the order   *)
(* of the calls, each once, and as the call alone says once the generator  *)
(* has been said to be done: the loop, the awaits and the reactions        *)
(* implement AsyncGeneratorRequests.                                       *)
THEOREM GeneratorImplements == GeneratorSpec => ImplementsRequests
<1>1. GeneratorInit => ReplyInv /\ Requests!Init
  BY ReplyInit DEF GeneratorInit, Requests!Init
<1>2. ReplyInv /\ [GeneratorNext]_generatorVars => ReplyInv' /\ Promised
  BY ReplyNext, DriverNext DEF ReplyInv
<1>3. Promised <=> [Requests!Next]_(Requests!vars)
  BY DEF Promised
<1> QED BY <1>1, <1>2, <1>3, PTL DEF GeneratorSpec, ImplementsRequests, Requests!Spec
================================================================================
