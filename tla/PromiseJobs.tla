----------------------------- MODULE PromiseJobs -----------------------------
(***************************************************************************)
(* Promises, async functions and the job queue of one realm: promise.rs,   *)
(* promise/jobs.rs, promise/capability.rs and async_function.rs of         *)
(* crates/qjs-runtime/src, with the hosts that drain the queue.            *)
(*                                                                         *)
(* The engine is one thread.  User code (a script, a handler, a then       *)
(* method, the body of an async function or of a module) is free to call   *)
(* whatever it holds, one call per action, until it completes.  A          *)
(* resolving pair is the resolve and the reject function of one            *)
(* CreateResolvingFunctions, with the alreadyResolved cell they share.     *)
(* Promise.resolve(x) and await x of an x with a then method are the calls *)
(* New, CallResolving and, for await, AwaitPromise.  A promise the engine  *)
(* makes and drops (the throwaway of an await, the promise an internal     *)
(* then returns) is left out.                                              *)
(***************************************************************************)
EXTENDS Integers, Sequences, FiniteSets

CONSTANTS
  MaxPromises,              \* BOUND on the promises ever made
  MaxPairs,                 \* BOUND on the resolving pairs ever made
  MaxCalls,                 \* BOUND on the calls user code makes
  Plain,                    \* values that have no then method
  Thenables,                \* objects whose then method is user code
  Poisoned,                 \* objects whose then property throws when read
  AsyncFunctions,           \* BOUND: calls of async functions
  Features,                 \* what scripts use, among "import", "species"
  Failure,                  \* an error the engine makes
  Namespace,                \* what a successful import resolves with
  Undefined, NoPair, Throwing

Promise == 1 .. MaxPromises
Pair == 1 .. MaxPairs

ASSUME PromiseAssumption ==
  /\ MaxPromises \in Nat /\ MaxPairs \in Nat /\ MaxCalls \in Nat
  /\ Features \subseteq {"import", "species"}
  /\ NoPair \notin Pair /\ Throwing \notin Pair /\ NoPair # Throwing
  /\ (Plain \cup {Failure, Namespace, Undefined}) \cap (Thenables \cup Poisoned \cup Promise) = {}
  /\ Thenables \cap (Poisoned \cup Promise) = {} /\ Poisoned \cap Promise = {}

VARIABLES
  state, result,            \* slots of each promise
  reactions,                \* the registrations in its list of reactions
  born,                     \* promises made so far: 1 .. born
  target,                   \* the promise of each resolving pair made so far
  resolved,                 \* pairs whose alreadyResolved cell is set
  held,                     \* pairs user code holds
  jobs,                     \* the realm's queue
  batch,                    \* what the host's drain has left of its batch
  inner,                    \* ... and the drain nested in an import job
  nested,                   \* where that nested drain is
  importing,                \* the pair of the import job around it
  running,                  \* the user code that runs, and what it is for
  host,                     \* what the embedder is doing
  body,                     \* where each async function's body is
  promise_of,               \* its result promise
  calls,                    \* calls of user code so far, for MaxCalls
  enqueued,                 \* history: jobs enqueued so far
  started,                  \* history: the numbers of the jobs started
  regs,                     \* history: registrations (then, await) so far
  reacted,                  \* history: the registrations that were answered
  adopts                    \* history: the promise each promise was resolved with

slots == <<state, result, reactions>>
objects == <<born, target, held>>
drain == <<batch, inner, nested, importing>>
async == <<body, promise_of>>
vars == <<slots, objects, resolved, jobs, drain, running, host, async, calls,
          enqueued, started, regs, reacted, adopts>>

-----------------------------------------------------------------------------
Code(kind, of) == [kind |-> kind, of |-> of]

NoCode == Code("none", NoPair)

Idle == running = NoCode

Nobody == 0                 \* no promise has number 0

Handler(kind, of) == [kind |-> kind, of |-> of]

\* A handler that is not callable.
NoHandler == Handler("none", NoPair)

UserHandler == Handler("user", NoPair)

Init ==
  /\ state = [p \in Promise |-> "unborn"]
  /\ result = [p \in Promise |-> Undefined]
  /\ reactions = [p \in Promise |-> <<>>]
  /\ born = 0 /\ target = <<>> /\ held = {} /\ resolved = {}
  /\ jobs = <<>> /\ batch = <<>> /\ inner = <<>>
  /\ nested = "none" /\ importing = NoPair
  /\ running = Code("script", NoPair) /\ host = "script"
  /\ body = [f \in AsyncFunctions |-> "uncalled"]
  /\ promise_of = [f \in AsyncFunctions |-> Nobody]
  /\ calls = 0 /\ enqueued = 0 /\ started = {} /\ regs = 0 /\ reacted = {}
  /\ adopts = [p \in Promise |-> Nobody]

Values == Plain \cup Thenables \cup Poisoned \cup 1 .. born

\* Variant of Enqueue: at the front.
EnqueueFirst(new) ==
  /\ jobs' = [i \in 1 .. Len(new) |-> [job |-> new[i], seq |-> enqueued + i]] \o jobs
  /\ enqueued' = enqueued + Len(new)

\* jobs.set(jobs.len(), job), for each of new; seq numbers the jobs.
Enqueue(new) ==
  /\ jobs' = jobs \o [i \in 1 .. Len(new) |-> [job |-> new[i], seq |-> enqueued + i]]
  /\ enqueued' = enqueued + Len(new)

queue == <<jobs, enqueued>>

\* The two reactions that then and await make together, one for each outcome.
Registration(on_fulfilled, on_rejected, k) ==
  [on_fulfilled |-> on_fulfilled, on_rejected |-> on_rejected, cap |-> k, reg |-> regs + 1]

Half(r, fulfil) == IF fulfil THEN r.on_fulfilled ELSE r.on_rejected

\* The job of that half of registration r, on promise p, whose outcome is given.
ReactionJob(p, r, fulfil, v) ==
  [type |-> "reaction", fulfil |-> fulfil, handler |-> Half(r, fulfil), cap |-> r.cap,
   arg |-> v, reg |-> r.reg, source |-> p]

ThenableJob(p, thenable) == [type |-> "thenable", promise |-> p, thenable |-> thenable]

ImportJob(k) == [type |-> "import", cap |-> k]

\* Variant of settle_promise: the reactions of both kinds become jobs.
settle_promise_both(p, outcome, v) ==
  IF state[p] # "pending" THEN UNCHANGED <<slots, queue>>
  ELSE /\ state' = [state EXCEPT ![p] = outcome]
       /\ result' = [result EXCEPT ![p] = v]
       /\ reactions' = [reactions EXCEPT ![p] = <<>>]
       /\ Enqueue([i \in 1 .. 2 * Len(reactions[p]) |->
                      ReactionJob(p, reactions[p][(i + 1) \div 2], i % 2 = 1, v)])

\* Only a pending promise settles; of each registration the half for the other
\* outcome is dropped, the matching one becomes a job, in order.
settle_promise(p, outcome, v) ==
  IF state[p] # "pending" THEN UNCHANGED <<slots, queue>>
  ELSE /\ state' = [state EXCEPT ![p] = outcome]
       /\ result' = [result EXCEPT ![p] = v]
       /\ reactions' = [reactions EXCEPT ![p] = <<>>]
       /\ Enqueue([i \in 1 .. Len(reactions[p]) |->
                      ReactionJob(p, reactions[p][i], outcome = "fulfilled", v)])

\* Adopting a thenable takes a job of its own.
resolve_promise(p, v) ==
  IF v \in Thenables \cup (Promise \ {p})
  THEN /\ Enqueue(<<ThenableJob(p, v)>>)
       /\ adopts' = [adopts EXCEPT ![p] = IF v \in Promise THEN v ELSE Nobody]
       /\ UNCHANGED slots
  ELSE /\ IF v = p \/ v \in Poisoned THEN settle_promise(p, "rejected", Failure)
          ELSE settle_promise(p, "fulfilled", v)
       /\ UNCHANGED adopts

\* Variant of CallPair: the cell is set, but not looked at.
CallPairAnyway(k, how, v) ==
  /\ resolved' = resolved \cup {k}
  /\ IF how = "resolve" THEN resolve_promise(target[k], v)
     ELSE settle_promise(target[k], "rejected", v) /\ UNCHANGED adopts

\* resolve and reject of a pair: the first call of either counts.
CallPair(k, how, v) ==
  /\ resolved' = resolved \cup {k}
  /\ IF k \in resolved THEN UNCHANGED <<slots, queue, adopts>>
     ELSE IF how = "resolve" THEN resolve_promise(target[k], v)
     ELSE settle_promise(target[k], "rejected", v) /\ UNCHANGED adopts

NewPromise(p) ==
  /\ p = born + 1 /\ p \in Promise /\ born' = p
  /\ state' = [state EXCEPT ![p] = "pending"]
  /\ UNCHANGED <<result, reactions>>

NewPair(k, p) ==
  /\ k = Len(target) + 1 /\ k \in Pair
  /\ target' = Append(target, p)

\* Variant of Register: the reactions are kept whatever the state is.
RegisterPending(p, on_fulfilled, on_rejected, k) ==
  /\ regs' = regs + 1
  /\ reactions' = [reactions EXCEPT ![p] = Append(@, Registration(on_fulfilled, on_rejected, k))]
  /\ UNCHANGED queue

\* What then and await do with the reactions: keep them while p is pending,
\* else enqueue the job of the one that matches.
Register(p, on_fulfilled, on_rejected, k) ==
  LET r == Registration(on_fulfilled, on_rejected, k)
  IN  /\ regs' = regs + 1
      /\ IF state[p] = "pending"
         THEN reactions' = [reactions EXCEPT ![p] = Append(@, r)] /\ UNCHANGED queue
         ELSE /\ Enqueue(<<ReactionJob(p, r, state[p] = "fulfilled", result[p])>>)
              /\ UNCHANGED reactions

-----------------------------------------------------------------------------
(* What user code calls.                                                   *)

Call == ~Idle /\ calls < MaxCalls /\ calls' = calls + 1

\* new Promise((resolve, reject) => ...), the functions kept for later.
New ==
  /\ Call
  /\ \E p \in Promise, k \in Pair : NewPromise(p) /\ NewPair(k, p) /\ held' = held \cup {k}
  /\ UNCHANGED <<resolved, queue, drain, running, host, async, started, regs, reacted, adopts>>

CallResolving ==
  /\ Call
  /\ \E k \in held, how \in {"resolve", "reject"}, v \in Values : CallPair(k, how, v)
  /\ UNCHANGED <<objects, drain, running, host, async, started, regs, reacted>>

\* promise.then(on_fulfilled, on_rejected): a new capability, a native pair or,
\* by Symbol.species, functions of the script's, here functions that throw.
Then ==
  /\ Call
  /\ \E p \in 1 .. born, on_fulfilled, on_rejected \in {NoHandler, UserHandler} :
       \/ \E q \in Promise, k \in Pair :
            /\ NewPair(k, q) /\ q = born + 1 /\ born' = q
            /\ Register(p, on_fulfilled, on_rejected, k)
            /\ state' = [state EXCEPT ![q] = "pending"]
       \/ /\ "species" \in Features
          /\ Register(p, on_fulfilled, on_rejected, Throwing)
          /\ UNCHANGED <<born, target, state>>
  /\ UNCHANGED <<result, held, resolved, drain, running, host, async, started, reacted, adopts>>

\* Variant of Await: a rejection does not resume the body.
AwaitFulfilled(f, v) ==
  /\ body' = [body EXCEPT ![f] = "suspended"]
  /\ v \in Promise /\ Register(v, Handler("resume", f), NoHandler, NoPair)

\* The body of f awaits v: f is suspended, and resumed by a reaction of the
\* promise v, or of one that was resolved with v at once and nobody sees.
Await(f, v) ==
  /\ body' = [body EXCEPT ![f] = "suspended"]
  /\ LET resume == Handler("resume", f)
     IN  \/ v \in Promise /\ Register(v, resume, resume, NoPair)
         \/ /\ v \in Plain \cup Poisoned
            /\ regs' = regs + 1
            /\ Enqueue(<<ReactionJob(Nobody, Registration(resume, resume, NoPair), v \in Plain,
                                     IF v \in Plain THEN v ELSE Failure)>>)
            /\ UNCHANGED reactions

\* Calling an async function makes its promise and runs the body to its first
\* await.  (A body that completes before it awaits is a promise settled by
\* its maker: New and CallResolving.)
CallAsync ==
  /\ Call
  /\ \E f \in AsyncFunctions, p \in Promise, v \in Values :
       /\ body[f] = "uncalled"
       /\ p = born + 1 /\ born' = p
       /\ state' = [state EXCEPT ![p] = "pending"]
       /\ promise_of' = [promise_of EXCEPT ![f] = p]
       /\ Await(f, v)
  /\ UNCHANGED <<result, target, held, resolved, drain, running, host, started, reacted, adopts>>

\* import(specifier)
dynamic_import ==
  /\ Call /\ "import" \in Features
  /\ \E p \in Promise, k \in Pair :
       NewPromise(p) /\ NewPair(k, p) /\ Enqueue(<<ImportJob(k)>>)
  /\ UNCHANGED <<held, resolved, drain, running, host, async, started, regs, reacted, adopts>>

-----------------------------------------------------------------------------
(* Draining the queue.                                                     *)

\* The drain whose batch the engine is at: the one inside an import job, or
\* the host's.
Rest == IF nested = "draining" THEN inner ELSE batch

SetRest(rest) ==
  IF nested = "draining" THEN inner' = rest /\ UNCHANGED batch
  ELSE batch' = rest /\ UNCHANGED inner

Draining == host = "draining" /\ Idle /\ nested \in {"none", "draining"}

\* Variant of TakeBatch: the queue is not emptied.
TakeBatchCopy ==
  /\ Draining /\ Rest = <<>> /\ jobs # <<>>
  /\ SetRest(jobs)
  /\ UNCHANGED <<slots, objects, resolved, jobs, nested, importing, running, host, async,
                 calls, enqueued, started, regs, reacted, adopts>>

\* The batch is done: the whole queue is the next one.
TakeBatch ==
  /\ Draining /\ Rest = <<>> /\ jobs # <<>>
  /\ SetRest(jobs) /\ jobs' = <<>>
  /\ UNCHANGED <<slots, objects, resolved, nested, importing, running, host, async,
                 calls, enqueued, started, regs, reacted, adopts>>

\* The next job of the batch, of one type, begins.
Start(type) ==
  /\ Draining /\ Rest # <<>> /\ Head(Rest).job.type = type
  /\ started' = started \cup {Head(Rest).seq}

\* An error of a job ends the drain, and the rest of its batch is gone.  A
\* nested drain gives the error to its import, the host's to the embedder.
FailDrain ==
  /\ SetRest(<<>>)
  /\ IF nested = "draining" THEN nested' = "failed" /\ UNCHANGED host
     ELSE host' = "idle" /\ UNCHANGED nested
  /\ UNCHANGED <<slots, queue, resolved, adopts>>

\* A completion settles the capability of its reaction, if there is one.
settle_reaction_capability(k, how, v) ==
  /\ IF k = NoPair THEN UNCHANGED <<slots, queue, resolved, adopts>>
     ELSE CallPair(k, how, v)
  /\ UNCHANGED <<nested, host>>

\* Without a handler the settlement passes through; a resolving function as
\* handler settles its promise; a handler of the script's, or the body of an
\* async function, begins to run.
RunReaction ==
  /\ Start("reaction")
  /\ LET j == Head(Rest).job
         how == IF j.fulfil THEN "resolve" ELSE "reject"
     IN  /\ reacted' = reacted \cup {j.reg}
         /\ \/ /\ j.handler.kind = "none" /\ j.cap = Throwing
               /\ FailDrain
               /\ UNCHANGED <<running, body>>
            \/ /\ j.handler.kind = "none" /\ j.cap # Throwing
               /\ SetRest(Tail(Rest))
               /\ settle_reaction_capability(j.cap, how, j.arg)
               /\ UNCHANGED <<running, body>>
            \/ /\ j.handler.kind = "settle"
               /\ SetRest(Tail(Rest))
               /\ settle_reaction_capability(j.handler.of, how, j.arg)
               /\ UNCHANGED <<running, body>>
            \/ /\ j.handler.kind \in {"user", "resume"}
               /\ SetRest(Tail(Rest))
               /\ IF j.handler.kind = "user"
                  THEN running' = Code("handler", j.cap) /\ UNCHANGED body
                  ELSE /\ running' = Code("body", j.handler.of)
                       /\ body' = [body EXCEPT ![j.handler.of] = "running"]
               /\ UNCHANGED <<slots, queue, resolved, adopts, nested, host>>
  /\ UNCHANGED <<objects, importing, promise_of, calls, regs>>

\* Call then with a fresh pair: the then of a promise registers the pair's
\* functions, the then of another object is user code.
RunThenable ==
  /\ Start("thenable")
  /\ SetRest(Tail(Rest))
  /\ LET j == Head(Rest).job
     IN  \E k \in Pair :
           /\ NewPair(k, j.promise)
           /\ \/ /\ j.thenable \in Promise
                 /\ Register(j.thenable, Handler("settle", k), Handler("settle", k), NoPair)
                 /\ UNCHANGED <<held, running>>
              \/ /\ j.thenable \in Thenables
                 /\ held' = held \cup {k}
                 /\ running' = Code("then", k)
                 /\ UNCHANGED <<reactions, queue, regs>>
  /\ UNCHANGED <<state, result, born, resolved, nested, importing, host, async, calls,
                 reacted, adopts>>

\* An import job: the module does not load (or there is no host), or its body
\* runs, or that has run already and only the nested drain is left.
RunImport ==
  /\ Start("import") /\ nested = "none"
  /\ batch' = Tail(batch)
  /\ LET k == Head(batch).job.cap
     IN  \/ /\ CallPair(k, "reject", Failure)
            /\ UNCHANGED <<running, nested, importing>>
         \/ /\ running' = Code("module", k)
            /\ UNCHANGED <<slots, queue, resolved, adopts, nested, importing>>
         \/ /\ nested' = "draining" /\ importing' = k
            /\ UNCHANGED <<slots, queue, resolved, adopts, running>>
  /\ UNCHANGED <<objects, inner, host, async, calls, regs, reacted>>

\* Variant of EndNestedDrain: what follows an import job is not handed back.
EndNestedDrainDropping ==
  /\ Draining /\ nested = "draining"
  /\ \/ inner = <<>> /\ jobs = <<>>
     \/ inner # <<>> /\ Head(inner).job.type = "import"
  /\ inner' = <<>> /\ nested' = "done"
  /\ UNCHANGED <<slots, objects, resolved, batch, jobs, importing, running, host, async,
                 calls, enqueued, started, regs, reacted, adopts>>

\* The nested drain ends: there are no jobs left, or an import job is next,
\* which goes back to the front of the queue with all that follows it.
EndNestedDrain ==
  /\ Draining /\ nested = "draining"
  /\ \/ inner = <<>> /\ jobs = <<>>
     \/ inner # <<>> /\ Head(inner).job.type = "import"
  /\ jobs' = inner \o jobs /\ inner' = <<>>
  /\ nested' = "done"
  /\ UNCHANGED <<slots, objects, resolved, batch, importing, running, host, async,
                 calls, enqueued, started, regs, reacted, adopts>>

\* The import job settles its promise.  After a complete nested drain it still
\* rejects if the top-level await of some module has been rejected.
SettleImport ==
  /\ nested \in {"done", "failed"}
  /\ \/ nested = "done" /\ CallPair(importing, "resolve", Namespace)
     \/ CallPair(importing, "reject", Failure)
  /\ nested' = "none" /\ importing' = NoPair
  /\ UNCHANGED <<objects, batch, inner, running, host, async, calls, started, regs,
                 reacted>>

-----------------------------------------------------------------------------
(* How user code completes.                                                *)

\* The script returns its EvalOutcome, or throws, and there is none.
ScriptEnds ==
  /\ running.kind = "script"
  /\ running' = NoCode /\ host' \in {"idle", "failed"}
  /\ UNCHANGED <<slots, objects, resolved, jobs, drain, async, calls, enqueued,
                 started, regs, reacted, adopts>>

\* A handler returns or throws.
HandlerEnds ==
  /\ running.kind = "handler"
  /\ running' = NoCode
  /\ \/ running.of = Throwing /\ FailDrain
     \/ /\ running.of # Throwing
        /\ \E how \in {"resolve", "reject"}, v \in Values :
             settle_reaction_capability(running.of, how, v)
        /\ UNCHANGED <<batch, inner>>
  /\ UNCHANGED <<objects, importing, async, calls, started, regs, reacted>>

\* The then method of a thenable returns, or throws: a rejection, unless it
\* has called one of its functions.
ThenMethodEnds ==
  /\ running.kind = "then"
  /\ running' = NoCode
  /\ \/ UNCHANGED <<slots, queue, resolved, adopts>>
     \/ \E v \in Values : CallPair(running.of, "reject", v)
  /\ UNCHANGED <<objects, drain, host, async, calls, started, regs, reacted>>

\* The body of a module returns, and the queue is drained inside the import
\* job, or throws.
ModuleEnds ==
  /\ running.kind = "module"
  /\ running' = NoCode
  /\ \/ /\ nested' = "draining" /\ importing' = running.of
        /\ UNCHANGED <<slots, queue, resolved, adopts>>
     \/ /\ \E v \in Values : CallPair(running.of, "reject", v)
        /\ UNCHANGED <<nested, importing>>
  /\ UNCHANGED <<objects, batch, inner, host, async, calls, started, regs, reacted>>

\* The body of an async function awaits again ...
AwaitAgain ==
  /\ running.kind = "body" /\ calls < MaxCalls /\ calls' = calls + 1
  /\ running' = NoCode
  /\ \E v \in Values : Await(running.of, v)
  /\ UNCHANGED <<state, result, objects, resolved, drain, host, promise_of, started,
                 reacted, adopts>>

\* ... or returns, or throws.
BodyEnds ==
  /\ running.kind = "body"
  /\ running' = NoCode
  /\ body' = [body EXCEPT ![running.of] = "done"]
  /\ LET p == promise_of[running.of]
     IN  \E v \in Values :
           \/ resolve_promise(p, v)
           \/ settle_promise(p, "rejected", v) /\ UNCHANGED adopts
  /\ UNCHANGED <<objects, resolved, drain, host, promise_of, calls, started, regs,
                 reacted>>

\* The embedder drains the queue, as often as it likes.
run_jobs ==
  /\ host = "idle" /\ host' = "draining"
  /\ UNCHANGED <<slots, objects, resolved, jobs, drain, running, async, calls,
                 enqueued, started, regs, reacted, adopts>>

DrainEnds ==
  /\ Draining /\ nested = "none" /\ batch = <<>> /\ jobs = <<>>
  /\ host' = "idle"
  /\ UNCHANGED <<slots, objects, resolved, jobs, drain, running, async, calls,
                 enqueued, started, regs, reacted, adopts>>

UserCall == New \/ CallResolving \/ Then \/ CallAsync \/ dynamic_import

Complete ==
  ScriptEnds \/ HandlerEnds \/ ThenMethodEnds \/ ModuleEnds \/ AwaitAgain \/ BodyEnds

Engine ==
  \/ TakeBatch \/ RunReaction \/ RunThenable \/ RunImport
  \/ EndNestedDrain \/ SettleImport \/ DrainEnds

Next == UserCall \/ Complete \/ Engine \/ run_jobs

Spec == Init /\ [][Next]_vars

\* The engine keeps running and user code completes.
Fairness == WF_vars(Engine) /\ WF_vars(Complete)

FairSpec == Spec /\ Fairness

-----------------------------------------------------------------------------
(* Properties.                                                             *)

\* All the jobs that are waiting, wherever a drain has put them.
Waiting == batch \o inner \o jobs

\* Every job ever enqueued is waiting, once, or has been started; also when a
\* drain is nested in another, and when it hands jobs back.
NoJobLost ==
  /\ {Waiting[i].seq : i \in DOMAIN Waiting} \cup started = 1 .. enqueued
  /\ Len(Waiting) + Cardinality(started) = enqueued

\* The ways in which p can still be settled: by a pair whose cell is not set,
\* by a job that will call a then method for it, by the body of its function.
WaysToSettle(p) ==
    Cardinality({k \in DOMAIN target : target[k] = p /\ k \notin resolved})
  + Cardinality({i \in DOMAIN Waiting : Waiting[i].job.type = "thenable"
                   /\ Waiting[i].job.promise = p})
  + Cardinality({f \in AsyncFunctions : promise_of[f] = p /\ body[f] # "done"})

\* A promise is never cut off and never contested: exactly one way to settle it
\* is open while it is pending, through every thenable it adopts, whoever calls
\* which function how often and in whatever order; none once it has settled.  What
\* a failed drain has dropped (NoJobLost) is excused, here and in the next ones.
OneWayToSettle ==
  NoJobLost => \A p \in 1 .. born : WaysToSettle(p) = IF state[p] = "pending" THEN 1 ELSE 0

\* A reaction job runs the handler of the outcome its promise has, with its
\* result: one settlement never starts both handlers of a then.
JobMatchesPromise ==
  \A i \in DOMAIN Waiting :
    LET j == Waiting[i].job
    IN  j.type = "reaction" /\ j.source # Nobody =>
          /\ state[j.source] = IF j.fulfil THEN "fulfilled" ELSE "rejected"
          /\ result[j.source] = j.arg

\* Each registration is in one place: at a promise that is pending, in one
\* job, or answered.  None is left at a promise that settled, none runs twice.
ReactsOnce ==
  NoJobLost => \A r \in 1 .. regs :
      Cardinality({p \in Promise : state[p] = "pending"
                     /\ \E i \in DOMAIN reactions[p] : reactions[p][i].reg = r})
    + Cardinality({i \in DOMAIN Waiting : Waiting[i].job.type = "reaction"
                     /\ Waiting[i].job.reg = r})
    + (IF r \in reacted THEN 1 ELSE 0) = 1

\* A suspended async function has one registration that resumes it, whichever
\* way its promise settles; one that is not suspended has none.
SuspendedHasOneResume ==
  NoJobLost => \A f \in AsyncFunctions :
    LET resumes(h) == h.kind = "resume" /\ h.of = f
        at == {w \in Promise \X BOOLEAN :
                 \E i \in DOMAIN reactions[w[1]] : resumes(Half(reactions[w[1]][i], w[2]))}
        due == {i \in DOMAIN Waiting : Waiting[i].job.type = "reaction"
                  /\ resumes(Waiting[i].job.handler)}
    IN  IF body[f] = "suspended"
        THEN \/ Cardinality(at) = 2 /\ due = {}
             \/ at = {} /\ Cardinality(due) = 1
        ELSE at = {} /\ due = {}

\* A promise resolved with another promise has that one's outcome once no job
\* is left: nothing that user code does in between gets in before it.
AdoptedOutcome ==
  host = "idle" /\ jobs = <<>> /\ NoJobLost =>
    \A p \in Promise : adopts[p] # Nobody =>
      state[p] = state[adopts[p]] /\ result[p] = result[adopts[p]]

\* run_jobs runs the jobs "in FIFO order": none overtakes one enqueued before.
JobsInOrder == [][\A n \in started' \ started : \A m \in started : m < n]_started

\* A drain is not left before every job has been started, those that its jobs
\* enqueue and those of a nested drain included.
EveryJobStarts ==
  \A n \in 1 .. 3 * MaxCalls : (host = "draining" /\ n <= enqueued) ~> n \in started

=============================================================================
