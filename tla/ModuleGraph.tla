----------------------------- MODULE ModuleGraph -----------------------------
(***************************************************************************)
(* The module graph of one realm (crates/qjs-runtime/src/module: link.rs,  *)
(* mod.rs, host.rs, and bytecode/vm_module.rs): loading, linking and       *)
(* evaluating the root module, and the import jobs that do the same later. *)
(*                                                                         *)
(* The three depth-first walks are Rust recursions; stack is their call    *)
(* stack, one frame per module, top first, with the index of the request   *)
(* the frame is at.  A module is its canonical key.  What its text and the *)
(* host's resolver make of it is its source, which never changes.  Left    *)
(* out: the synthetic modules (bytes, JSON, text), whose status is         *)
(* Evaluated from the start; function hoists, which run no user code; and  *)
(* how an export is resolved.                                              *)
(***************************************************************************)
EXTENDS Integers, Sequences, FiniteSets

CONSTANTS
  Modules,                  \* canonical keys
  NoModule,
  Sources,                  \* the graphs of sources to start from
  MaxImports                \* BOUND on the calls of import() by code outside bodies

Bodies == {"completes", "throws", "awaits", "awaitsThenRejects", "awaitsImport"}

(* requests: requested_modules, in order.  loads: the resolver finds the   *)
(* module, and it parses.  resolves: every named import and every indirect *)
(* export of it resolves.  body: how its body ends, or what it awaits.     *)
(* calls: what its body calls import() with.                               *)
Source ==
  [requests : Seq(Modules), loads : BOOLEAN, resolves : BOOLEAN,
   body : Bodies, calls : Modules \cup {NoModule}]

ASSUME ModuleAssumption ==
  /\ IsFiniteSet(Modules) /\ NoModule \notin Modules
  /\ MaxImports \in Nat
  /\ \A s \in Sources : s \in [Modules -> Source]

VARIABLES
  source,
  root,                     \* the root, or NoModule when a script is the host
  status,                   \* of each module; "absent" is not in the registry
  static_evaluation,        \* the modules so marked
  body,                     \* of each module: where its body is
  phase,                    \* what the engine is doing
  stack,                    \* the frames of the walk it is in
  import,                   \* the import job that runs, or NoImport
  jobs,                     \* the realm's queue
  batch,                    \* what the host's drain has left of its batch
  imports                   \* calls of import() so far, for MaxImports

graph == <<status, static_evaluation>>
queue == <<jobs, batch, imports>>
vars == <<source, root, graph, body, phase, stack, import, queue>>

Frame(m, n) == [mod |-> m, next |-> n]

Import(by, m) == [type |-> "import", by |-> by, of |-> m]

NoImport == Import(NoModule, NoModule)

\* The job that resumes the body of m, suspended in an await.
Resume(m, how) == [type |-> "resume", by |-> m, how |-> how]

requests(m) == source[m].requests

Top == Head(stack)

OnStack == {stack[i].mod : i \in DOMAIN stack}

\* The module the walks began with.
Key == IF import = NoImport THEN root ELSE import.of

Init ==
  /\ source \in Sources
  /\ root \in Modules \cup {NoModule}
  /\ status = [m \in Modules |-> "absent"]
  /\ static_evaluation = {}
  /\ body = [m \in Modules |-> "unrun"]
  /\ phase = (IF root = NoModule THEN "draining" ELSE "start")
  /\ stack = <<>> /\ import = NoImport
  /\ jobs = <<>> /\ batch = <<>> /\ imports = 0

\* A walk fails, or an import ends.  The root's failure ends the evaluation;
\* an import settles its promise, and the body that awaits it will resume.
Answer(how, pending) ==
  IF import = NoImport
  THEN phase' = "failed" /\ jobs' = pending /\ UNCHANGED import
  ELSE /\ phase' = "draining" /\ import' = NoImport
       /\ jobs' = IF import.by # NoModule /\ source[import.by].body = "awaitsImport"
                  THEN Append(pending, Resume(import.by, how)) ELSE pending

-----------------------------------------------------------------------------
(* Loading.                                                                *)

\* Resolve and parse the module the walk begins with.
load ==
  /\ phase = "start" /\ stack = <<>>
  /\ IF status[Key] # "absent"
     THEN phase' = "load" /\ UNCHANGED <<status, stack, import, jobs>>
     ELSE IF ~source[Key].loads
     THEN Answer("throw", jobs) /\ UNCHANGED <<status, stack>>
     ELSE /\ phase' = "load"
          /\ status' = [status EXCEPT ![Key] = "Unlinked"]
          /\ stack' = <<Frame(Key, 1)>>
          /\ UNCHANGED <<import, jobs>>
  /\ UNCHANGED <<source, root, static_evaluation, body, batch, imports>>

\* The next request: a module in the registry is not loaded again.  An error
\* leaves what has been inserted.
insert_and_load_dependencies ==
  /\ phase = "load" /\ stack # <<>>
  /\ LET m == Top.mod
         d == requests(m)[Top.next]
         rest == <<Frame(m, Top.next + 1)>> \o Tail(stack)
     IN  IF Top.next > Len(requests(m))
         THEN stack' = Tail(stack) /\ UNCHANGED <<status, phase, import, jobs>>
         ELSE IF status[d] # "absent"
         THEN stack' = rest /\ UNCHANGED <<status, phase, import, jobs>>
         ELSE IF source[d].loads
         THEN /\ status' = [status EXCEPT ![d] = "Unlinked"]
              /\ stack' = <<Frame(d, 1)>> \o rest
              /\ UNCHANGED <<phase, import, jobs>>
         ELSE stack' = <<>> /\ Answer("throw", jobs) /\ UNCHANGED status
  /\ UNCHANGED <<source, root, static_evaluation, body, batch, imports>>

-----------------------------------------------------------------------------
(* Linking.                                                                *)

\* link(m) from a frame whose other frames are rest: every status but
\* Unlinked returns at once, and a module that is not there panics.
EnterLink(m, rest) ==
  IF status[m] = "absent"
  THEN phase' = "panicked" /\ stack' = rest /\ UNCHANGED status
  ELSE /\ phase' = "link"
       /\ IF status[m] = "Unlinked"
          THEN /\ status' = [status EXCEPT ![m] = "Linking"]
               /\ stack' = <<Frame(m, 1)>> \o rest
          ELSE stack' = rest /\ UNCHANGED status

BeginLink ==
  /\ phase = "load" /\ stack = <<>>
  /\ EnterLink(Key, <<>>)
  /\ UNCHANGED <<source, root, static_evaluation, body, import, queue>>

LinkDependency ==
  /\ phase = "link" /\ stack # <<>> /\ Top.next <= Len(requests(Top.mod))
  /\ EnterLink(requests(Top.mod)[Top.next],
               <<Frame(Top.mod, Top.next + 1)>> \o Tail(stack))
  /\ UNCHANGED <<source, root, static_evaluation, body, import, queue>>

\* Its dependencies are linked: validate the imports and indirect exports.
\* An error leaves every module of the stack in status Linking.
ValidateImports ==
  /\ phase = "link" /\ stack # <<>> /\ Top.next > Len(requests(Top.mod))
  /\ IF source[Top.mod].resolves
     THEN /\ status' = [status EXCEPT ![Top.mod] = "Linked"]
          /\ stack' = Tail(stack)
          /\ UNCHANGED <<phase, import, jobs>>
     ELSE stack' = <<>> /\ Answer("throw", jobs) /\ UNCHANGED status
  /\ UNCHANGED <<source, root, static_evaluation, body, batch, imports>>

-----------------------------------------------------------------------------
(* Evaluating.                                                             *)

\* Variants of Entered.
EnteredOnce == {"Evaluating"}

EnteredUnlinked == {"Linking", "Evaluating", "Evaluated"}

\* The statuses that make evaluate_with_drain return at once.
Entered == {"Evaluating", "Evaluated"}

\* What the evaluation of the root marks, and an import does not.
Marked(m) == IF import = NoImport THEN {m} ELSE {}

\* evaluate_with_drain(m): mark, and enter unless it has been entered.
EnterEvaluate(m, rest) ==
  IF status[m] = "absent"
  THEN phase' = "panicked" /\ stack' = rest /\ UNCHANGED graph
  ELSE /\ phase' = "evaluate"
       /\ static_evaluation' = static_evaluation \cup Marked(m)
       /\ IF status[m] \in Entered
          THEN stack' = rest /\ UNCHANGED status
          ELSE /\ status' = [status EXCEPT ![m] = "Evaluating"]
               /\ stack' = <<Frame(m, 1)>> \o rest

BeginEvaluate ==
  /\ phase = "link" /\ stack = <<>>
  /\ EnterEvaluate(Key, <<>>)
  /\ UNCHANGED <<source, root, body, import, queue>>

EvaluateDependency ==
  /\ phase = "evaluate" /\ stack # <<>> /\ Top.next <= Len(requests(Top.mod))
  /\ EnterEvaluate(requests(Top.mod)[Top.next],
                   <<Frame(Top.mod, Top.next + 1)>> \o Tail(stack))
  /\ UNCHANGED <<source, root, body, import, queue>>

\* Variant of FailEvaluate: only the module that failed is set back.
FailEvaluateTop(pending) ==
  /\ status' = IF stack = <<>> THEN status ELSE [status EXCEPT ![Top.mod] = "Linked"]
  /\ stack' = <<>>
  /\ Answer("throw", pending)

\* The error goes through every frame of the walk, and each sets its module
\* back to Linked.
FailEvaluate(pending) ==
  /\ status' = [m \in Modules |-> IF m \in OnStack THEN "Linked" ELSE status[m]]
  /\ stack' = <<>>
  /\ Answer("throw", pending)

\* Between the dependencies of a module and its body, and at the end of an
\* import: drain the queue, but not past an import job.
BeginSettle ==
  /\ phase = "evaluate"
  /\ IF stack = <<>> THEN import # NoImport
     ELSE Top.next = Len(requests(Top.mod)) + 1 /\ requests(Top.mod) # <<>>
  /\ phase' = "settle"
  /\ UNCHANGED <<source, root, graph, body, stack, import, queue>>

\* Variant of DrainEnds: nothing is drained.
DrainEndsAtOnce == TRUE

DrainEnds == IF jobs = <<>> THEN TRUE ELSE Head(jobs).type = "import"

\* Variant of async_module_rejection: a rejected import counts as well.
async_module_rejection_any(include_dynamic) == \E m \in Modules : body[m] = "rejected"

async_module_rejection(include_dynamic) ==
  \E m \in Modules : body[m] = "rejected" /\ (include_dynamic \/ m \in static_evaluation)

\* The drain is over: has a body been rejected?
settle_started_async_dependencies ==
  /\ phase = "settle" /\ DrainEnds
  /\ IF async_module_rejection(stack = <<>>) THEN FailEvaluate(jobs)
     ELSE IF stack = <<>> THEN Answer("resolve", jobs) /\ UNCHANGED <<status, stack>>
     ELSE /\ phase' = "evaluate"
          /\ stack' = <<Frame(Top.mod, Top.next + 1)>> \o Tail(stack)
          /\ UNCHANGED <<status, import, jobs>>
  /\ UNCHANGED <<source, root, static_evaluation, body, batch, imports>>

AtBody ==
  /\ phase = "evaluate" /\ stack # <<>>
  /\ Top.next = IF requests(Top.mod) = <<>> THEN 1 ELSE Len(requests(Top.mod)) + 2

\* The import the body of m calls.
Calls(m) == IF source[m].calls = NoModule THEN <<>> ELSE <<Import(m, source[m].calls)>>

\* The job that resumes it, when what it awaits is not that import.
Awaits(m) ==
  IF \/ source[m].body \in {"awaits", "awaitsThenRejects"}
     \/ source[m].body = "awaitsImport" /\ source[m].calls = NoModule
  THEN <<Resume(m, "resolve")>> ELSE <<>>

\* The body runs, to its end or to its first await.  One that awaits leaves
\* its promise, and its module is Evaluated.
evaluate_body ==
  /\ AtBody
  /\ LET m == Top.mod
     IN  IF source[m].body = "throws"
         THEN body' = [body EXCEPT ![m] = "threw"] /\ FailEvaluate(jobs \o Calls(m))
         ELSE /\ body' = [body EXCEPT ![m] = IF source[m].body = "completes" THEN "completed"
                                             ELSE "suspended"]
              /\ status' = [status EXCEPT ![m] = "Evaluated"]
              /\ stack' = Tail(stack)
              /\ jobs' = jobs \o Calls(m) \o Awaits(m)
              /\ UNCHANGED <<phase, import>>
  /\ UNCHANGED <<source, root, static_evaluation, batch, imports>>

\* The root is evaluated: the graph is free, and the host drains the queue.
RootEvaluated ==
  /\ phase = "evaluate" /\ stack = <<>> /\ import = NoImport
  /\ phase' = "draining"
  /\ UNCHANGED <<source, root, graph, body, stack, import, queue>>

-----------------------------------------------------------------------------
(* Jobs.                                                                   *)

\* The job resumes a body, which completes, or rejects its promise.
RunResume(job) ==
  /\ job.type = "resume"
  /\ body' = [body EXCEPT ![job.by] =
                IF job.how = "throw" \/ source[job.by].body = "awaitsThenRejects"
                THEN "rejected" ELSE "completed"]

\* ... in the drain of settle_started_async_dependencies
ResumeNested ==
  /\ phase = "settle" /\ ~DrainEnds
  /\ RunResume(Head(jobs)) /\ jobs' = Tail(jobs)
  /\ UNCHANGED <<source, root, graph, phase, stack, import, batch, imports>>

\* ... and in the host's.
ResumeOuter ==
  /\ phase = "draining" /\ batch # <<>>
  /\ RunResume(Head(batch)) /\ batch' = Tail(batch)
  /\ UNCHANGED <<source, root, graph, phase, stack, import, jobs, imports>>

TakeBatch ==
  /\ phase = "draining" /\ batch = <<>> /\ jobs # <<>>
  /\ batch' = jobs /\ jobs' = <<>>
  /\ UNCHANGED <<source, root, graph, body, phase, stack, import, imports>>

\* import_dynamic, in the job: resolve, load, link, evaluate, settle.
import_dynamic ==
  /\ phase = "draining" /\ batch # <<>> /\ Head(batch).type = "import"
  /\ import' = Head(batch) /\ batch' = Tail(batch)
  /\ phase' = "start"
  /\ UNCHANGED <<source, root, graph, body, stack, jobs, imports>>

\* User code that runs in some other job, or the script that is the host.
dynamic_import ==
  /\ phase = "draining" /\ imports < MaxImports
  /\ imports' = imports + 1
  /\ \E m \in Modules : jobs' = Append(jobs, Import(NoModule, m))
  /\ UNCHANGED <<source, root, graph, body, phase, stack, import, batch>>

\* eval_module: the queue is empty.
eval_module_ends ==
  /\ phase = "draining" /\ batch = <<>> /\ jobs = <<>>
  /\ phase' = IF root # NoModule /\ async_module_rejection(FALSE) THEN "failed" ELSE "done"
  /\ UNCHANGED <<source, root, graph, body, stack, import, queue>>

Walk ==
  \/ load \/ insert_and_load_dependencies
  \/ BeginLink \/ LinkDependency \/ ValidateImports
  \/ BeginEvaluate \/ EvaluateDependency \/ evaluate_body
  \/ BeginSettle \/ ResumeNested \/ settle_started_async_dependencies

Drain == RootEvaluated \/ ResumeOuter \/ TakeBatch \/ import_dynamic \/ eval_module_ends

Next == Walk \/ Drain \/ dynamic_import

Spec == Init /\ [][Next]_vars

-----------------------------------------------------------------------------
(* Properties.                                                             *)

\* The modules that m requests, directly or not, and m.
Reachable(m) ==
  {n \in Modules : \A S \in SUBSET Modules :
     m \in S /\ (\A k \in S : \A i \in DOMAIN requests(k) : requests(k)[i] \in S) => n \in S}

\* Whatever fails, at whatever depth, the status Evaluating is taken back: it
\* belongs to the modules of the evaluation that runs, each of them once
\* (evaluate_with_drain resets the status on each of its error paths).
EvaluatingIsOnStack ==
  /\ phase # "panicked" =>
       {m \in Modules : status[m] = "Evaluating"} =
         (IF phase \in {"evaluate", "settle"} THEN OnStack ELSE {})
  /\ \A i, j \in DOMAIN stack : stack[i].mod = stack[j].mod => i = j

\* Post-order, and once: when a body is about to run, each module it requests
\* has run or is on the stack, in a cycle; and a body that has run to its end,
\* or to an await, never runs again, whatever is imported (link.rs:521-566).
BodyIsReady ==
  AtBody =>
    /\ body[Top.mod] \in {"unrun", "threw"}
    /\ \A i \in DOMAIN requests(Top.mod) :
         LET d == requests(Top.mod)[i] IN status[d] = "Evaluated" \/ d \in OnStack

Plain(m) == source[m].body \in {"awaits", "awaitsThenRejects"}

\* A module of the requests of the one on top that has run, has awaited a
\* promise of nobody's import, and has not been resumed yet.
Unsettled(d) ==
  /\ \E i \in DOMAIN requests(Top.mod) : requests(Top.mod)[i] = d
  /\ d \notin OnStack /\ Plain(d) /\ body[d] = "suspended"

\* A body runs before the plain awaits of its requests have settled only for
\* one reason: an import job is in front of the job that resumes them, in the
\* queue, or around this walk.
SettledUnlessImport ==
  AtBody =>
    \A d \in Modules : Unsettled(d) =>
      \/ jobs # <<>> /\ Head(jobs).type = "import"
      \/ \E i \in DOMAIN batch : batch[i].type = "resume" /\ batch[i].by = d

\* The evaluation of the root fails for a module of the root's own graph: a
\* rejected import() is the business of the one who called it (records.rs and
\* link.rs:81-84, the flag static_evaluation).
StaticFailsForItself ==
  phase = "failed" =>
    \E m \in Reachable(root) :
      ~source[m].loads \/ ~source[m].resolves \/ body[m] \in {"threw", "rejected"}

\* An import that is about to resolve has evaluated everything it reaches,
\* unless a body among it once threw (and was in a cycle with the rest, which
\* stays Evaluated).
ImportReachesAll ==
  phase = "settle" /\ stack = <<>> /\ DrainEnds /\ ~async_module_rejection(TRUE) =>
    \/ \A m \in Reachable(import.of) : status[m] = "Evaluated"
    \/ \E m \in Reachable(import.of) : body[m] = "threw"

\* Linking "reports unresolvable imports ... as SyntaxErrors" (link.rs:5-6): the
\* body of a module with such an import never runs.  It does, the second time.
UnresolvedNeverRuns == AtBody => source[Top.mod].resolves

=============================================================================
