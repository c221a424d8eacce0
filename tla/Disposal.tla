------------------------------ MODULE Disposal ------------------------------
(***************************************************************************)
(* One block with `using` or `await using` declarations                    *)
(* (bytecode/vm_dispose.rs): its resources are registered as the           *)
(* declarations run and disposed last to first when the block is left, the *)
(* disposers being user code that may throw. A block that declares an      *)
(* `await using` is disposed one await at a time by a loop the compiler    *)
(* emits around dispose_async_step; any other by one dispose_scope.        *)
(***************************************************************************)
EXTENDS Naturals, Sequences, SequencesExt

CONSTANT MaxResources       \* bound on the declarations of the block

ASSUME DisposalAssumption == MaxResources \in Nat

VARIABLES asynchronous,     \* the block declares an await using
          stage,            \* where the block is
          resources,        \* DisposableScope.resources
          needs_await, has_awaited, deferred_error,
          completion,       \* the finalizer's pending abrupt completion
          registered,       \* history: every resource registered
          left,             \* history: the completion of the block
          disposal          \* history: calls, outcomes and awaits

scopeVars == <<needs_await, has_awaited, deferred_error>>
disposalVars == <<asynchronous, stage, resources, scopeVars, completion,
                  registered, left, disposal>>

-----------------------------------------------------------------------------
(* A fallback is an await using with only Symbol.dispose, a skipped one was *)
(* null or undefined. Sync resources that were null are not registered.    *)
ResourceKinds == {"sync", "async", "fallback", "skipped"}

Block == 0                  \* the block's own error; n is resource n's
NoError == MaxResources + 1

(* A completion is normal, a return or break, or a throw: the errors it    *)
(* carries, the last one outermost (SuppressedError nests the others).     *)
Normal == [abrupt |-> "none", errors |-> <<>>]
Return == [abrupt |-> "return", errors |-> <<>>]
Throw(errors) == [abrupt |-> "throw", errors |-> errors]

chained(error) == Throw(Append(completion.errors, error))

(* Variant: what a skipped resource owes is awaited at the end only. *)
owes_await_last == needs_await /\ ~ has_awaited /\ resources = <<>>

(* A skipped await using owes one await unless another resource awaited.   *)
owes_await == needs_await /\ ~ has_awaited

top == resources[Len(resources)]

-----------------------------------------------------------------------------
DisposalInit ==
    /\ asynchronous \in BOOLEAN
    /\ stage = "body"
    /\ resources = <<>> /\ registered = <<>> /\ disposal = <<>>
    /\ needs_await = FALSE /\ has_awaited = FALSE /\ deferred_error = NoError
    /\ completion = Normal /\ left = Normal

register_disposable(k) ==
    /\ stage = "body"
    /\ Len(registered) < MaxResources
    /\ asynchronous \/ k = "sync"
    /\ LET resource == [kind |-> k, id |-> Len(registered) + 1] IN
       /\ resources' = Append(resources, resource)
       /\ registered' = Append(registered, resource)
    /\ UNCHANGED <<asynchronous, stage, scopeVars, completion, disposal, left>>

(* The block is left: at its end, by return or break, or by a throw, which *)
(* a failed registration is too.                                           *)
leave_block(c) ==
    /\ stage = "body"
    /\ stage' = "disposing"
    /\ completion' = c /\ left' = c
    /\ UNCHANGED <<asynchronous, resources, scopeVars, registered, disposal>>

(* dispose_scope, one resource at a time.                                  *)
dispose_sync(fails) ==
    /\ stage = "disposing" /\ ~ asynchronous
    /\ resources # <<>>
    /\ resources' = Front(resources)
    /\ completion' = IF fails THEN chained(top.id) ELSE completion
    /\ disposal' = Append(disposal, [call |-> top.id, fails |-> fails])
    /\ UNCHANGED <<asynchronous, stage, scopeVars, registered, left>>

(* One turn of the loop of dispose_async_step: it chains the error a       *)
(* fallback left, awaits what a skipped resource still owes, passes over a *)
(* skipped one, or calls a disposer.                                       *)
chain_deferred ==
    /\ stage = "disposing" /\ asynchronous
    /\ deferred_error # NoError
    /\ completion' = chained(deferred_error)
    /\ deferred_error' = NoError
    /\ UNCHANGED <<asynchronous, stage, resources, needs_await, has_awaited,
                   registered, disposal, left>>

Await == [call |-> Block, fails |-> FALSE]

await_owed ==
    /\ stage = "disposing" /\ asynchronous
    /\ deferred_error = NoError
    /\ owes_await
    /\ resources # <<>> => top.kind = "sync"
    /\ needs_await' = FALSE
    /\ stage' = "awaiting"
    /\ disposal' = Append(disposal, Await)
    /\ UNCHANGED <<asynchronous, resources, has_awaited, deferred_error,
                   completion, registered, left>>

skip ==
    /\ stage = "disposing" /\ asynchronous
    /\ deferred_error = NoError
    /\ resources # <<>> /\ top.kind = "skipped"
    /\ resources' = Front(resources)
    /\ needs_await' = TRUE
    /\ UNCHANGED <<asynchronous, stage, has_awaited, deferred_error,
                   completion, registered, disposal, left>>

call_disposer(fails) ==
    /\ stage = "disposing" /\ asynchronous
    /\ deferred_error = NoError
    /\ resources # <<>> /\ top.kind # "skipped"
    /\ top.kind = "sync" => ~ owes_await
    /\ resources' = Front(resources)
    /\ LET awaits == top.kind = "fallback" \/ (top.kind = "async" /\ ~ fails)
           call == [call |-> top.id, fails |-> fails]
       IN /\ stage' = IF awaits THEN "awaiting" ELSE stage
          /\ has_awaited' = (has_awaited \/ awaits)
          /\ disposal' = disposal \o (IF awaits THEN <<call, Await>> ELSE <<call>>)
    /\ deferred_error' =
          IF fails /\ top.kind = "fallback" THEN top.id ELSE NoError
    /\ completion' =
          IF fails /\ top.kind # "fallback" THEN chained(top.id) ELSE completion
    /\ UNCHANGED <<asynchronous, needs_await, registered, left>>

last_call == disposal[Len(disposal) - 1]

(* The await resumes. Only the promise an async disposer returned may      *)
(* reject; DisposeAsyncRejected chains its reason, which counts as the     *)
(* failure of that call.                                                   *)
await_fulfilled ==
    /\ stage = "awaiting"
    /\ stage' = "disposing"
    /\ UNCHANGED <<asynchronous, resources, scopeVars, completion, registered,
                   disposal, left>>

dispose_async_rejected ==
    /\ stage = "awaiting"
    /\ Len(disposal) >= 2
    /\ last_call # Await /\ ~ last_call.fails
    /\ registered[last_call.call].kind = "async"
    /\ stage' = "disposing"
    /\ completion' = chained(last_call.call)
    /\ disposal' = [disposal EXCEPT ![Len(disposal) - 1].fails = TRUE]
    /\ UNCHANGED <<asynchronous, resources, scopeVars, registered, left>>

(* The scope is closed; EndFinally resumes the completion.                 *)
close_scope ==
    /\ stage = "disposing"
    /\ resources = <<>>
    /\ deferred_error = NoError
    /\ asynchronous => ~ owes_await
    /\ stage' = "closed"
    /\ UNCHANGED <<asynchronous, resources, scopeVars, completion, registered,
                   disposal, left>>

DisposalNext ==
    \/ \E k \in ResourceKinds : register_disposable(k)
    \/ \E c \in {Normal, Return, Throw(<<Block>>)} : leave_block(c)
    \/ \E fails \in BOOLEAN : dispose_sync(fails) \/ call_disposer(fails)
    \/ chain_deferred
    \/ await_owed
    \/ skip
    \/ await_fulfilled
    \/ dispose_async_rejected
    \/ close_scope

DisposalSpec == DisposalInit /\ [][DisposalNext]_disposalVars

-----------------------------------------------------------------------------
(* When the block is over every resource was disposed once, last to first; *)
(* the completion carries every failure in the order it happened, on top   *)
(* of the block's own error, and is the block's if nothing failed; the     *)
(* disposer of an async resource, and one that is a fallback,              *)
(* was awaited before the next call; and a skipped resource was awaited    *)
(* for before the next sync disposer and before the end.                   *)
calls == {i \in DOMAIN disposal : disposal[i] # Await}

failures == {disposal[i].call : i \in {j \in calls : disposal[j].fails}}

Skipped(n) == registered[n].kind = "skipped"

awaited_before(i) == \E j \in 1..(i - 1) : disposal[j] = Await

DisposedLastToFirst ==
    /\ {disposal[i].call : i \in calls} = {n \in DOMAIN registered : ~ Skipped(n)}
    /\ \A i, j \in calls : i < j => disposal[i].call > disposal[j].call

FailuresOnTop ==
    IF failures = {} THEN completion = left
    ELSE /\ completion.abrupt = "throw"
         /\ IsPrefix(left.errors, completion.errors)
         /\ LET on_top == (Len(left.errors) + 1)..Len(completion.errors) IN
            /\ {completion.errors[i] : i \in on_top} = failures
            /\ \A i, j \in on_top :
                  i < j => completion.errors[i] > completion.errors[j]

AwaitedInTurn ==
    /\ \A i \in calls :
          LET c == disposal[i]
              k == registered[c.call].kind
          IN /\ k = "fallback" \/ (k = "async" /\ ~ c.fails) => disposal[i + 1] = Await
             /\ k = "sync" /\ (\E n \in DOMAIN registered : Skipped(n) /\ n > c.call) =>
                   awaited_before(i)
    /\ (\E n \in DOMAIN registered : Skipped(n)) => awaited_before(Len(disposal) + 1)

EveryResourceDisposed ==
    stage = "closed" => DisposedLastToFirst /\ FailuresOnTop /\ AwaitedInTurn
=============================================================================
