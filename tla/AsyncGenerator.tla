---------------------------- MODULE AsyncGenerator ----------------------------
(***************************************************************************)
(* One async generator object (crates/qjs-runtime/src/async_generator.rs   *)
(* and bytecode/vm_generator.rs): next, return and throw queue requests,   *)
(* one loop serves the request at the front, and the promises it awaits    *)
(* re-enter the loop through reaction jobs.                                *)
(*                                                                         *)
(* The body is user code.  It ends each of its runs as it likes, and calls *)
(* the generator's own methods while it runs.  A promise that is awaited   *)
(* settles at any time; what a reaction is handed is the value that was    *)
(* awaited.  The names are prefixed: MCEngine composes this module.        *)
(***************************************************************************)
EXTENDS Integers, Sequences

CONSTANTS
  MaxRequested,             \* BOUND on the calls of next, return and throw
  MaxAwaited,               \* BOUND on the awaits of the body and its rejected yields
  Unreplied

ASSUME GeneratorAssumption ==
  /\ MaxRequested \in Nat /\ MaxAwaited \in Nat
  /\ Unreplied \notin [how : {"yield", "done", "reject"}, of : Nat]

RequestKinds == {"next", "return", "throw"}

(* generator_state(): SuspendedYield is "suspended" at a plain yield or     *)
(* await (SuspensionKind::Ordinary), "delegate" at a yield* that has handed *)
(* out a result, and "delegateAwait" when the yield* awaits.                *)
GeneratorStates ==
  {"start", "suspended", "delegate", "delegateAwait", "running", "completed"}

VARIABLES
  generator,                \* its state
  requests,                 \* the queue, front first: calls by number
  draining,                 \* the flag beside the queue
  driver,                   \* "drain" in the loop, "body" in the body, "idle"
  waiting,                  \* the reactions whose promise has not settled
  scheduled,                \* the reactions so far, to tell them apart
  awaited,                  \* so many of them so far
  requested,                \* every call so far
  replies                   \* how the promise of each call was settled

generatorVars ==
  <<generator, requests, draining, driver, waiting, scheduled, awaited, requested, replies>>

GeneratorInit ==
  /\ generator = "start" /\ requests = <<>> /\ draining = FALSE
  /\ driver = "idle" /\ waiting = {} /\ scheduled = 0 /\ awaited = 0
  /\ requested = <<>> /\ replies = <<>>

FrontRequest == Head(requests)

FrontIs(kinds) == requests # <<>> /\ requested[FrontRequest] \in kinds

\* resolve_front, reject_front: settle and dequeue the front, if there is one.
SettleFront(how, of) ==
  IF requests = <<>> THEN UNCHANGED <<requests, replies>>
  ELSE /\ replies' = [replies EXCEPT ![FrontRequest] = [how |-> how, of |-> of]]
       /\ requests' = Tail(requests)

\* The four schedule functions: a pair of reactions of the type.  of is the
\* call whose argument is awaited, 0 when it is a value of the body's.  for is
\* the request at the front, which the reactions themselves do not know.
Schedule(type, of) ==
  /\ scheduled' = scheduled + 1
  /\ waiting' = waiting \cup {[type |-> type, of |-> of, for |-> FrontRequest, n |-> scheduled]}

Unscheduled == UNCHANGED <<waiting, scheduled>>

-----------------------------------------------------------------------------
(* Requests.                                                               *)

\* Variant of enqueue: a throw goes to the front.
enqueue_throw_first(kind) ==
  /\ Len(requested) < MaxRequested
  /\ requested' = Append(requested, kind)
  /\ replies' = Append(replies, Unreplied)
  /\ requests' = IF kind = "throw" THEN <<Len(requested) + 1>> \o requests
                 ELSE Append(requests, Len(requested) + 1)
  /\ IF draining THEN UNCHANGED <<draining, driver>>
     ELSE draining' = TRUE /\ driver' = "drain"
  /\ Unscheduled /\ UNCHANGED <<generator, awaited>>

\* A call, from a script, a job, the body itself, or a getter that awaiting or
\* resolving reads inside the loop.
enqueue(kind) ==
  /\ Len(requested) < MaxRequested
  /\ requested' = Append(requested, kind)
  /\ replies' = Append(replies, Unreplied)
  /\ requests' = Append(requests, Len(requested) + 1)
  /\ IF draining THEN UNCHANGED <<draining, driver>>
     ELSE draining' = TRUE /\ driver' = "drain"
  /\ Unscheduled /\ UNCHANGED <<generator, awaited>>

-----------------------------------------------------------------------------
(* The loop.                                                               *)

\* Nothing to serve.
StopDraining ==
  /\ driver = "drain" /\ requests = <<>>
  /\ draining' = FALSE /\ driver' = "idle"
  /\ Unscheduled /\ UNCHANGED <<generator, requests, awaited, requested, replies>>

\* The generator is completed: the front is settled by its kind.  A return
\* awaits its value first, and the flag goes down although the front stays.
settle_completed_front ==
  /\ driver = "drain" /\ generator = "completed" /\ requests # <<>>
  /\ IF FrontIs({"return"})
     THEN /\ Schedule("return", FrontRequest)
          /\ draining' = FALSE /\ driver' = "idle"
          /\ UNCHANGED <<requests, replies>>
     ELSE /\ IF FrontIs({"next"}) THEN SettleFront("done", 0) ELSE SettleFront("reject", FrontRequest)
          /\ Unscheduled /\ UNCHANGED <<draining, driver>>
  /\ UNCHANGED <<generator, awaited, requested>>

\* A return or throw before the body has started completes the generator.
FinishUnstarted ==
  /\ driver = "drain" /\ generator = "start" /\ FrontIs({"return", "throw"})
  /\ generator' = "completed"
  /\ IF FrontIs({"return"})
     THEN /\ Schedule("return", FrontRequest) /\ driver' = "idle"
          /\ UNCHANGED <<requests, replies>>
     ELSE SettleFront("reject", FrontRequest) /\ Unscheduled /\ UNCHANGED driver
  /\ UNCHANGED <<draining, awaited, requested>>

\* Variant of AwaitReturnValue: the flag goes down, as for a completed generator.
AwaitReturnValueUnflagged ==
  /\ driver = "drain" /\ generator \in {"suspended", "delegate"} /\ FrontIs({"return"})
  /\ driver' = "idle" /\ draining' = FALSE
  /\ IF generator = "suspended"
     THEN Schedule("returnResume", FrontRequest) /\ UNCHANGED generator
     ELSE Schedule("await", FrontRequest) /\ generator' = "delegateAwait"
  /\ UNCHANGED <<requests, awaited, requested, replies>>

\* A return at a yield awaits its value before it resumes the body.
AwaitReturnValue ==
  /\ driver = "drain" /\ generator \in {"suspended", "delegate"} /\ FrontIs({"return"})
  /\ driver' = "idle"
  /\ IF generator = "suspended"
     THEN Schedule("returnResume", FrontRequest) /\ UNCHANGED generator
     ELSE Schedule("await", FrontRequest) /\ generator' = "delegateAwait"
  /\ UNCHANGED <<requests, draining, awaited, requested, replies>>

ResumeFront ==
  /\ driver = "drain"
  /\ \/ generator = "start" /\ FrontIs({"next"})
     \/ generator \in {"suspended", "delegate"} /\ FrontIs({"next", "throw"})
  /\ generator' = "running" /\ driver' = "body"
  /\ Unscheduled /\ UNCHANGED <<requests, draining, awaited, requested, replies>>

-----------------------------------------------------------------------------
(* The ends of a run of the body.                                          *)

BodyAwaits ==
  /\ driver = "body" /\ awaited < MaxAwaited
  /\ awaited' = awaited + 1
  /\ driver' = "idle" /\ Schedule("await", 0)
  /\ generator' \in {"suspended", "delegateAwait"}
  /\ UNCHANGED <<requests, draining, requested, replies>>

BodyYields ==
  /\ driver = "body"
  /\ driver' = "idle" /\ Schedule("yield", 0)
  /\ generator' = "suspended"
  /\ UNCHANGED <<requests, draining, awaited, requested, replies>>

\* yield* hands out the result of its iterator without another await.
BodyYieldsDelegate ==
  /\ driver = "body"
  /\ driver' = "drain" /\ SettleFront("yield", 0)
  /\ generator' = "delegate"
  /\ Unscheduled /\ UNCHANGED <<draining, awaited, requested>>

\* The body's value, or that of the return it is serving.
Returned == IF FrontIs({"return"}) THEN {0, FrontRequest} ELSE {0}

\* It returns.  Under a return request the value is awaited, unless it has
\* been (ReturnAlreadyAwaited).
BodyReturns ==
  /\ driver = "body"
  /\ generator' = "completed"
  /\ \E of \in Returned :
       \/ /\ FrontIs({"return"})
          /\ Schedule("return", of) /\ driver' = "idle"
          /\ UNCHANGED <<requests, replies>>
       \/ SettleFront("done", of) /\ Unscheduled /\ driver' = "drain"
  /\ UNCHANGED <<draining, awaited, requested>>

Thrown == IF FrontIs({"return", "throw"}) THEN {0, FrontRequest} ELSE {0}

BodyThrows ==
  /\ driver = "body"
  /\ generator' = "completed" /\ driver' = "drain"
  /\ \E of \in Thrown : SettleFront("reject", of)
  /\ Unscheduled /\ UNCHANGED <<draining, awaited, requested>>

-----------------------------------------------------------------------------
(* Reactions, each in a job of its own.                                    *)

Settled(r) == driver = "idle" /\ waiting' = waiting \ {r} /\ UNCHANGED scheduled

\* resume_body: the body goes on with the value, or with a throw.
resume_body(r) ==
  /\ r.type \in {"await", "returnResume", "yield"} /\ Settled(r)
  /\ generator \in {"suspended", "delegateAwait"}
  /\ generator' = "running" /\ driver' = "body" /\ draining' = TRUE
  /\ IF r.type = "yield" THEN awaited < MaxAwaited /\ awaited' = awaited + 1
     ELSE UNCHANGED awaited
  /\ UNCHANGED <<requests, requested, replies>>

\* The operand of a yield: only when it is rejected does the body go on.
yield_fulfilled(r) ==
  /\ r.type = "yield" /\ Settled(r)
  /\ SettleFront("yield", 0)
  /\ draining' = TRUE /\ driver' = "drain"
  /\ UNCHANGED <<generator, awaited, requested>>

\* Variant of return_settled: the loop is not entered again.
return_settled_only(r, how) ==
  /\ r.type = "return" /\ Settled(r)
  /\ SettleFront(how, r.of)
  /\ draining' = TRUE /\ driver' = "idle"
  /\ UNCHANGED <<generator, awaited, requested>>

return_settled(r, how) ==
  /\ r.type = "return" /\ Settled(r)
  /\ SettleFront(how, r.of)
  /\ draining' = TRUE /\ driver' = "drain"
  /\ UNCHANGED <<generator, awaited, requested>>

GeneratorEngine ==
  \/ StopDraining \/ settle_completed_front
  \/ FinishUnstarted \/ AwaitReturnValue \/ ResumeFront
  \/ BodyAwaits \/ BodyYields \/ BodyYieldsDelegate \/ BodyReturns \/ BodyThrows
  \/ \E r \in waiting :
       \/ resume_body(r) \/ yield_fulfilled(r)
       \/ return_settled(r, "done") \/ return_settled(r, "reject")

GeneratorNext == GeneratorEngine \/ \E k \in RequestKinds : enqueue(k)

\* The loop and the jobs run to their end; so do a body's runs, and what is
\* awaited settles.
GeneratorFairness == WF_generatorVars(GeneratorEngine)

GeneratorSpec == GeneratorInit /\ [][GeneratorNext]_generatorVars

-----------------------------------------------------------------------------
(* Properties.                                                             *)

GeneratorTypeOK ==
  /\ generator \in GeneratorStates
  /\ requests \in Seq(1 .. MaxRequested)
  /\ draining \in BOOLEAN
  /\ driver \in {"idle", "drain", "body"}
  /\ waiting \subseteq [type : {"await", "yield", "returnResume", "return"},
                        of : 0 .. MaxRequested, for : 1 .. MaxRequested, n : Nat]
  /\ scheduled \in Nat /\ awaited \in 0 .. MaxAwaited
  /\ requested \in Seq(RequestKinds) /\ Len(requested) <= MaxRequested
  /\ replies \in Seq([how : {"yield", "done", "reject"}, of : 0 .. MaxRequested]
                     \cup {Unreplied})

\* Until it is completed the generator has one driver: the loop, the body or
\* one awaited promise, and the flag is up exactly then; the request that is
\* awaited for is still at the front, so the body never gets another request
\* while it is in an await (async_generator.rs:356-368, 869-873).
OneDriver ==
  generator # "completed" =>
    /\ draining <=> driver # "idle" \/ waiting # {}
    /\ driver # "idle" => waiting = {}
    /\ \A r, s \in waiting : r = s
    /\ \A r \in waiting : requests # <<>> /\ r.for = FrontRequest

\* Every call is replied at last, whatever the body does.
EveryRequestReplied ==
  \A i \in 1 .. MaxRequested :
    Len(replies) >= i ~> Len(replies) >= i /\ replies[i] # Unreplied

\* Replies come in the order of the calls, once each, and are those of a
\* generator that is done once one of them says so: AsyncGeneratorRequests.
Requests == INSTANCE AsyncGeneratorRequests

ImplementsRequests == Requests!Spec

\* A return is replied with a value of its own, never with that of another
\* (schedule_return_await: "The front request remains queued until the
\* fulfillment/rejection reaction settles it, preserving request order").
OwnReply ==
  \A i \in DOMAIN replies :
    replies[i] # Unreplied => replies[i].of \in {0, i}

=============================================================================
