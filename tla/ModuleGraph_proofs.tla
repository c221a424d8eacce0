-------------------------- MODULE ModuleGraph_proofs --------------------------
(* What the module graph guarantees for any number of modules, whatever    *)
(* they request and import, and however loading, linking and bodies fail.  *)
EXTENDS ModuleGraph, SequenceTheorems, TLAPS

Frames == [mod : Modules, next : Nat \ {0}]

ImportJobs == [type : {"import"}, by : Modules \cup {NoModule}, of : Modules]

ResumeJobs == [type : {"resume"}, by : Modules, how : {"resolve", "throw"}]

AnyJob == ImportJobs \cup ResumeJobs

Statuses ==
  {"absent", "Unlinked", "Linking", "Linked", "Evaluating", "Evaluated"}

Walking == {"start", "load", "link", "evaluate", "settle"}

GraphTypes ==
  /\ source \in Sources /\ root \in Modules \cup {NoModule}
  /\ status \in [Modules -> Statuses] /\ static_evaluation \subseteq Modules
  /\ body \in [Modules -> {"unrun", "threw", "suspended", "completed", "rejected"}]
  /\ phase \in Walking \cup {"draining", "done", "failed", "panicked"}
  /\ stack \in Seq(Frames)
  /\ import \in ImportJobs \cup {NoImport}
  /\ jobs \in Seq(AnyJob) /\ batch \in Seq(AnyJob) /\ imports \in Nat

\* A walk begins with a module, and between walks there is none.
WalkInv ==
  /\ phase \in {"start", "draining", "done", "failed"} => stack = <<>>
  /\ phase \in {"draining", "done", "failed"} => import = NoImport
  /\ phase \in Walking \cup {"failed"} /\ import = NoImport => root # NoModule
  /\ phase = "settle" /\ stack = <<>> => import # NoImport

-----------------------------------------------------------------------------
(* The stack.                                                              *)

Mods(s) == {s[i].mod : i \in DOMAIN s}

Distinct(s) == \A i, j \in DOMAIN s : s[i].mod = s[j].mod => i = j

\* While a walk is on, its stack has a status of its own.
StackInv ==
  /\ Distinct(stack)
  /\ phase = "load" => \A m \in Mods(stack) : status[m] = "Unlinked"
  /\ phase = "link" => \A m \in Mods(stack) : status[m] = "Linking"
  /\ phase # "panicked" =>
       \A m \in Modules :
         status[m] = "Evaluating" <=> phase \in {"evaluate", "settle"} /\ m \in Mods(stack)

\* What a frame of the evaluation has walked past has been entered.
Visited(f, st) ==
  \A i \in DOMAIN requests(f.mod) : i < f.next => st[requests(f.mod)[i]] \in Entered

\* Below the top each frame is at one of its requests.
FramesOk(s, st) ==
  \A i \in DOMAIN s :
    /\ Visited(s[i], st)
    /\ i # 1 => s[i].next <= Len(requests(s[i].mod)) + 1

\* The top may be past the drain that follows them, which ends at an import.
TopOk(s, ph, pending) ==
  LET n == Len(requests(Head(s).mod))
  IN  s # <<>> =>
        /\ Head(s).next <= n + 2
        /\ ph = "settle" => Head(s).next = n + 1 /\ n # 0
        /\ Head(s).next = n + 2 =>
             n # 0 /\ (IF pending = <<>> THEN TRUE ELSE Head(pending).type = "import")

FramesInv ==
  phase \in {"evaluate", "settle"} => FramesOk(stack, status) /\ TopOk(stack, phase, jobs)

-----------------------------------------------------------------------------
(* What will resume a body.                                                *)

\* The job will resume the body of m, or settle the import that it awaits.
WillResume(job, m) ==
  /\ job.by = m
  /\ job.type = "resume" \/ source[m].body = "awaitsImport"

Has(s, m) == \E i \in DOMAIN s : WillResume(s[i], m)

Once(s, m) == \A i, j \in DOMAIN s : WillResume(s[i], m) /\ WillResume(s[j], m) => i = j

\* A body is suspended if and only if there is one such job, in the queue, in
\* the host's batch or running; and what has run is Evaluated, or threw.
ResumeInv ==
  \A m \in Modules :
    /\ Once(jobs, m) /\ Once(batch, m) /\ ~(Has(jobs, m) /\ Has(batch, m))
    /\ WillResume(import, m) => ~Has(jobs, m) /\ ~Has(batch, m)
    /\ body[m] = "suspended" <=> Has(jobs, m) \/ Has(batch, m) \/ WillResume(import, m)
    /\ body[m] \in {"unrun", "threw"} <=> status[m] # "Evaluated"
    /\ body[m] = "threw" => source[m].body = "throws"

-----------------------------------------------------------------------------
(* What a walk reaches.                                                    *)

\* Each frame was reached from those below it, and all from the first module.
Path(s) ==
  \A i, j \in DOMAIN s : i <= j => s[i].mod \in Reachable(s[j].mod)

PathInv ==
  /\ Path(stack)
  /\ phase \in Walking => Mods(stack) \subseteq Reachable(Key)
  /\ static_evaluation \subseteq Reachable(root)

\* The evaluation has the first module on its stack, or behind it.
KeyInv ==
  phase \in {"evaluate", "settle"} => Key \in Mods(stack) \/ status[Key] = "Evaluated"

Followed(m, st) == \A i \in DOMAIN requests(m) : st[requests(m)[i]] \in Entered

\* The evaluation of something m reaches has failed.
Spoiled(m, b) ==
  \/ \E n \in Reachable(m) : b[n] = "threw"
  \/ \E n \in Modules : b[n] = "rejected"

\* What an Evaluated module requests has been entered and not been set back,
\* unless a failure has set it back.
EvaluatedInv ==
  phase # "panicked" =>
    \A m \in Modules : status[m] = "Evaluated" => Followed(m, status) \/ Spoiled(m, body)

ReachInv == PathInv /\ KeyInv /\ EvaluatedInv /\ StaticFailsForItself

GraphInv == GraphTypes /\ WalkInv /\ StackInv /\ FramesInv /\ ResumeInv /\ ReachInv

-----------------------------------------------------------------------------
(* Sequences, and the stack as one.                                        *)

\* The tail of a sequence is the sequence moved by one.
LEMMA TailFacts ==
  ASSUME NEW S, NEW s \in Seq(S), s # <<>>
  PROVE  /\ Tail(s) \in Seq(S) /\ Head(s) \in S /\ Head(s) = s[1] /\ 1 \in DOMAIN s
         /\ \A i \in DOMAIN Tail(s) : i \in Int /\ i + 1 # 1 /\ i + 1 \in DOMAIN s /\ Tail(s)[i] = s[i + 1]
         /\ \A i \in DOMAIN s : i \in Nat \ {0}
                               /\ (i # 1 => i - 1 \in DOMAIN Tail(s) /\ Tail(s)[i - 1] = s[i])
  <1>1. /\ Tail(s) \in Seq(S) /\ Head(s) \in S /\ Head(s) = s[1]
        /\ Len(s) \in Nat \ {0} /\ DOMAIN s = 1 .. Len(s)
        /\ Len(Tail(s)) = Len(s) - 1 /\ DOMAIN Tail(s) = 1 .. Len(s) - 1
        /\ \A i \in 1 .. Len(s) - 1 : Tail(s)[i] = s[i + 1]
    OBVIOUS
  <1> QED
    BY <1>1

\* A sequence with an element in front of it is the sequence moved by one.
LEMMA ConsFacts ==
  ASSUME NEW S, NEW s \in Seq(S), NEW f \in S, NEW r, r = <<f>> \o s
  PROVE  /\ r \in Seq(S) /\ r # <<>> /\ Head(r) = f /\ 1 \in DOMAIN r /\ r[1] = f
         /\ \A i \in DOMAIN s : i \in Int /\ i + 1 # 1 /\ i + 1 \in DOMAIN r /\ r[i + 1] = s[i]
         /\ \A i \in DOMAIN r : i \in Nat \ {0}
                               /\ (i # 1 => i - 1 \in DOMAIN s /\ r[i] = s[i - 1])
  <1>1. /\ r \in Seq(S) /\ Len(r) = Len(s) + 1 /\ Len(s) \in Nat /\ r[1] = f
        /\ DOMAIN r = 1 .. Len(s) + 1 /\ DOMAIN s = 1 .. Len(s)
        /\ \A i \in 1 .. Len(s) : r[i + 1] = s[i]
    OBVIOUS
  <1>2. \A i \in DOMAIN r : i # 1 => i - 1 \in 1 .. Len(s) /\ (i - 1) + 1 = i
    BY <1>1
  <1>3. \A i \in DOMAIN r : i # 1 => i - 1 \in DOMAIN s /\ r[i] = s[i - 1]
    BY <1>1, <1>2
  <1>4. r # <<>> /\ Head(r) = f
    BY <1>1
  <1> QED
    BY <1>1, <1>3, <1>4

\* The frame on top goes on to its next request.
LEMMA AdvanceFacts ==
  ASSUME NEW s \in Seq(Frames), s # <<>>,
         NEW r, r = <<Frame(Head(s).mod, Head(s).next + 1)>> \o Tail(s)
  PROVE  /\ r \in Seq(Frames) /\ r # <<>> /\ DOMAIN r = DOMAIN s
         /\ Head(r) = r[1] /\ r[1].next = Head(s).next + 1 /\ r[1].mod = Head(s).mod
         /\ \A i \in DOMAIN s : r[i].mod = s[i].mod /\ (i # 1 => r[i] = s[i])
         /\ Mods(r) = Mods(s) /\ (Distinct(s) => Distinct(r)) /\ (Path(s) => Path(r))
  <1>1. Head(s) \in Frames /\ Head(s) = s[1]
    BY TailFacts
  <1>2. PICK f : f = Frame(Head(s).mod, Head(s).next + 1)
    OBVIOUS
  <1>3. f \in Frames /\ f.mod = Head(s).mod /\ f.next = Head(s).next + 1
    BY <1>1, <1>2 DEF Frames, Frame
  <1>4. /\ Len(r) = Len(s) /\ r \in Seq(Frames) /\ r # <<>> /\ r[1] = f /\ Head(r) = r[1]
        /\ \A i \in 1 .. Len(s) : i # 1 => r[i] = s[i]
        /\ DOMAIN r = 1 .. Len(s) /\ DOMAIN s = 1 .. Len(s)
    BY <1>2, <1>3
  <1>5. \A i \in DOMAIN s : r[i].mod = s[i].mod
    BY <1>1, <1>3, <1>4
  <1>6. Mods(r) = Mods(s)
    BY <1>4, <1>5 DEF Mods
  <1>7. (Distinct(s) => Distinct(r)) /\ (Path(s) => Path(r))
    BY <1>4, <1>5 DEF Distinct, Path
  <1> QED
    BY <1>1, <1>3, <1>4, <1>5, <1>6, <1>7

\* A frame is pushed.
LEMMA PushFacts ==
  ASSUME NEW s \in Seq(Frames), NEW d \in Modules, NEW r, r = <<Frame(d, 1)>> \o s
  PROVE  /\ r \in Seq(Frames) /\ r # <<>> /\ Head(r) = r[1] /\ r[1] = Frame(d, 1) /\ r[1].mod = d
         /\ \A i \in DOMAIN r : i \in Nat \ {0}
                               /\ (i # 1 => i - 1 \in DOMAIN s /\ r[i] = s[i - 1])
         /\ Mods(r) = {d} \cup Mods(s)
  <1>1. PICK f : f = Frame(d, 1)
    OBVIOUS
  <1>2. f \in Frames /\ f.mod = d
    BY <1>1 DEF Frames, Frame
  <1>3. /\ r \in Seq(Frames) /\ r # <<>> /\ Head(r) = f /\ 1 \in DOMAIN r /\ r[1] = f
        /\ \A i \in DOMAIN s : i \in Int /\ i + 1 # 1 /\ i + 1 \in DOMAIN r /\ r[i + 1] = s[i]
        /\ \A i \in DOMAIN r : i \in Nat \ {0}
                              /\ (i # 1 => i - 1 \in DOMAIN s /\ r[i] = s[i - 1])
    BY <1>1, <1>2, ConsFacts
  <1>4. Mods(r) = {d} \cup Mods(s)
    <2>1. \A i \in DOMAIN s : s[i].mod = r[i + 1].mod
      BY <1>3
    <2>2. \A i \in DOMAIN r : i = 1 \/ r[i].mod = s[i - 1].mod
      BY <1>3
    <2>3. ASSUME NEW m \in Mods(s) PROVE m \in Mods(r)
      <3>1. PICK i \in DOMAIN s : m = s[i].mod
        BY DEF Mods
      <3>2. i + 1 \in DOMAIN r /\ m = r[i + 1].mod
        BY <1>3, <2>1, <3>1
      <3> QED
        BY <3>2 DEF Mods
    <2>4. \A m : m \in Mods(r) => m = d \/ m \in Mods(s)
      BY <1>2, <1>3, <2>2 DEF Mods
    <2>5. d \in Mods(r)
      BY <1>2, <1>3 DEF Mods
    <2> QED
      BY <2>3, <2>4, <2>5
  <1> QED
    BY <1>1, <1>2, <1>3, <1>4

\* ... of a module that was not there ...
LEMMA PushDistinct ==
  ASSUME NEW s \in Seq(Frames), NEW d \in Modules, NEW r, r = <<Frame(d, 1)>> \o s,
         Distinct(s), d \notin Mods(s)
  PROVE  Distinct(r)
  <1>a. PICK f : f = Frame(d, 1)
    OBVIOUS
  <1>b. f \in Frames /\ f.mod = d
    BY <1>a DEF Frames, Frame
  <1>1. /\ r[1].mod = d
        /\ \A i \in DOMAIN r : i \in Nat \ {0}
                              /\ (i # 1 => i - 1 \in DOMAIN s /\ r[i] = s[i - 1])
    BY <1>a, <1>b, ConsFacts
  <1>2. SUFFICES ASSUME NEW i \in DOMAIN r, NEW j \in DOMAIN r, r[i].mod = r[j].mod
                 PROVE  i = j
    BY DEF Distinct
  <1>3. \A k \in DOMAIN r : k # 1 => r[k].mod \in Mods(s)
    BY <1>1 DEF Mods
  <1>4. CASE i = 1 \/ j = 1
    <2>1. \A k \in DOMAIN r : k # 1 => r[k].mod # d
      BY <1>3
    <2> QED
      BY <1>1, <1>2, <1>4, <2>1
  <1>5. CASE i # 1 /\ j # 1
    <2>1. i - 1 \in DOMAIN s /\ j - 1 \in DOMAIN s /\ s[i - 1].mod = s[j - 1].mod
          /\ i \in Int /\ j \in Int
      BY <1>1, <1>2, <1>5
    <2>2. i - 1 = j - 1
      BY <2>1 DEF Distinct
    <2> QED
      BY <2>1, <2>2
  <1> QED
    BY <1>4, <1>5

\* ... that all those below it reach.
LEMMA PushPath ==
  ASSUME NEW s \in Seq(Frames), NEW d \in Modules, NEW r, r = <<Frame(d, 1)>> \o s,
         Path(s), d \in Reachable(d), \A m \in Mods(s) : d \in Reachable(m)
  PROVE  Path(r)
  <1>a. PICK f : f = Frame(d, 1)
    OBVIOUS
  <1>b. f \in Frames /\ f.mod = d
    BY <1>a DEF Frames, Frame
  <1>c. Mods(r) = {d} \cup Mods(s)
    BY PushFacts
  <1>1. /\ r[1].mod = d /\ Mods(r) = {d} \cup Mods(s)
        /\ \A i \in DOMAIN r : i \in Nat \ {0}
                              /\ (i # 1 => i - 1 \in DOMAIN s /\ r[i] = s[i - 1])
    BY <1>a, <1>b, <1>c, ConsFacts
  <1>2. SUFFICES ASSUME NEW i \in DOMAIN r, NEW j \in DOMAIN r, i <= j
                 PROVE  r[i].mod \in Reachable(r[j].mod)
    BY DEF Path
  <1>3. CASE i = 1
    <2>1. r[j].mod \in {d} \cup Mods(s)
      BY <1>1 DEF Mods
    <2> QED
      BY <1>1, <1>3, <2>1
  <1>4. CASE i # 1
    <2>1. j # 1 /\ i - 1 <= j - 1
      BY <1>1, <1>2, <1>4
    <2> QED
      BY <1>1, <1>4, <2>1 DEF Path
  <1> QED
    BY <1>3, <1>4

\* The frame on top is popped.
LEMMA PopFacts ==
  ASSUME NEW s \in Seq(Frames), s # <<>>
  PROVE  /\ Head(s) \in Frames /\ Head(s).mod \in Modules /\ Head(s).mod \in Mods(s)
         /\ Head(s) = s[1] /\ 1 \in DOMAIN s
         /\ Tail(s) \in Seq(Frames) /\ Mods(s) = {Head(s).mod} \cup Mods(Tail(s))
         /\ Distinct(s) => Distinct(Tail(s)) /\ Head(s).mod \notin Mods(Tail(s))
         /\ Path(s) => Path(Tail(s)) /\ \A m \in Mods(s) : Head(s).mod \in Reachable(m)
  <1>1. /\ Tail(s) \in Seq(Frames) /\ Head(s) \in Frames /\ Head(s) = s[1] /\ 1 \in DOMAIN s
        /\ \A i \in DOMAIN Tail(s) : i \in Int /\ i + 1 # 1 /\ i + 1 \in DOMAIN s /\ Tail(s)[i] = s[i + 1]
        /\ \A i \in DOMAIN s : i \in Nat \ {0}
                              /\ (i # 1 => i - 1 \in DOMAIN Tail(s) /\ Tail(s)[i - 1] = s[i])
    BY TailFacts
  <1>2. Head(s).mod \in Modules
    BY <1>1 DEF Frames
  <1>3. Mods(s) = {Head(s).mod} \cup Mods(Tail(s))
    <2>1. \A i \in DOMAIN Tail(s) : Tail(s)[i].mod = s[i + 1].mod
      BY <1>1
    <2>2. \A i \in DOMAIN s : i = 1 \/ s[i].mod = Tail(s)[i - 1].mod
      BY <1>1
    <2>3. \A m : m \in Mods(Tail(s)) => m \in Mods(s)
      BY <1>1, <2>1 DEF Mods
    <2>4. ASSUME NEW m \in Mods(s) PROVE m = Head(s).mod \/ m \in Mods(Tail(s))
      <3>1. PICK i \in DOMAIN s : m = s[i].mod
        BY DEF Mods
      <3>2. CASE i = 1
        BY <1>1, <3>1, <3>2
      <3>3. CASE i # 1
        BY <1>1, <3>1, <3>3 DEF Mods
      <3> QED
        BY <3>2, <3>3
    <2>5. Head(s).mod \in Mods(s)
      BY <1>1 DEF Mods
    <2> QED
      BY <2>3, <2>4, <2>5
  <1>4. ASSUME Distinct(s) PROVE Distinct(Tail(s)) /\ Head(s).mod \notin Mods(Tail(s))
    BY <1>1, <1>4 DEF Distinct, Mods
  <1>5. ASSUME Path(s) PROVE Path(Tail(s)) /\ \A m \in Mods(s) : Head(s).mod \in Reachable(m)
    <2>1. \A i, j \in DOMAIN Tail(s) : i <= j => i + 1 <= j + 1
      BY <1>1
    <2>2. \A i \in DOMAIN s : 1 <= i
      BY <1>1
    <2> QED
      BY <1>1, <1>5, <2>1, <2>2 DEF Path, Mods
  <1> QED
    BY <1>1, <1>2, <1>3, <1>4, <1>5

\* The stack is made of modules.
LEMMA ModsType ==
  ASSUME NEW s \in Seq(Frames)
  PROVE  Mods(s) \subseteq Modules
  <1>1. \A i \in DOMAIN s : s[i] \in Frames
    OBVIOUS
  <1>2. \A i \in DOMAIN s : s[i].mod \in Modules
    BY <1>1 DEF Frames
  <1> QED
    BY <1>2 DEF Mods

\* The empty stack.
LEMMA EmptyFacts ==
  /\ <<>> \in Seq(Frames) /\ Mods(<<>>) = {} /\ Distinct(<<>>) /\ Path(<<>>)
  BY DEF Mods, Distinct, Path

-----------------------------------------------------------------------------
(* Types, and the stack of a walk.                                         *)

BaseInv == GraphTypes /\ WalkInv /\ StackInv

\* A walk begins with a module.
LEMMA KeyType ==
  ASSUME GraphTypes, WalkInv, phase \in Walking
  PROVE  Key \in Modules
  <1>1. import # NoImport => import \in ImportJobs
    BY DEF GraphTypes
  <1> QED
    BY <1>1 DEF Key, WalkInv, GraphTypes, ImportJobs

\* What a source says.
LEMMA SourceFacts ==
  ASSUME GraphTypes, NEW m \in Modules
  PROVE  /\ source[m] \in Source /\ requests(m) \in Seq(Modules)
         /\ Len(requests(m)) \in Nat /\ DOMAIN requests(m) = 1 .. Len(requests(m))
         /\ \A i \in 1 .. Len(requests(m)) : requests(m)[i] \in Modules
         /\ source[m].calls \in Modules \cup {NoModule}
  <1>1. source[m] \in Source
    BY ModuleAssumption DEF GraphTypes
  <1> QED
    BY <1>1 DEF Source, requests

\* A walk that fails, or an import that ends, leaves no walk behind.
LEMMA AnswerFacts ==
  ASSUME GraphTypes, WalkInv, phase \in Walking, NEW how \in {"resolve", "throw"},
         NEW pending \in Seq(AnyJob), Answer(how, pending)
  PROVE  /\ phase' \in {"failed", "draining"} /\ import' = NoImport /\ jobs' \in Seq(AnyJob)
         /\ phase' = "failed" => root # NoModule /\ import = NoImport
         /\ import # NoImport => phase' = "draining"
  <1>1. import = NoImport \/ import \in ImportJobs
    BY DEF GraphTypes
  <1>2. CASE import = NoImport
    BY <1>2 DEF Answer, WalkInv
  <1>3. CASE import # NoImport
    <2>1. import.by # NoModule => Resume(import.by, how) \in AnyJob
      BY <1>1, <1>3 DEF ImportJobs, Resume, AnyJob, ResumeJobs
    <2> QED
      BY <1>3, <2>1 DEF Answer
  <1> QED
    BY <1>2, <1>3

\* The jobs that a body enqueues.
LEMMA BodyJobsType ==
  ASSUME GraphTypes, NEW m \in Modules
  PROVE  Calls(m) \in Seq(AnyJob) /\ Awaits(m) \in Seq(AnyJob)
  <1>1. source[m].calls # NoModule => Import(m, source[m].calls) \in AnyJob
    BY SourceFacts DEF Import, AnyJob, ImportJobs
  <1>2. Resume(m, "resolve") \in AnyJob
    BY DEF Resume, AnyJob, ResumeJobs
  <1> QED
    BY <1>1, <1>2 DEF Calls, Awaits

\* What is pushed on the stack is there once.
LEMMA Pushed ==
  ASSUME NEW rest \in Seq(Frames), NEW m \in Modules, stack' = <<Frame(m, 1)>> \o rest,
         Distinct(rest), m \notin Mods(rest)
  PROVE  stack' \in Seq(Frames) /\ Mods(stack') = {m} \cup Mods(rest) /\ Distinct(stack')
  <1>1. PICK r : r = stack'
    OBVIOUS
  <1>2. r = <<Frame(m, 1)>> \o rest
    BY <1>1
  <1>3. r \in Seq(Frames) /\ Mods(r) = {m} \cup Mods(rest)
    BY <1>2, PushFacts
  <1>4. Distinct(r)
    BY <1>2, PushDistinct
  <1> QED
    BY <1>1, <1>3, <1>4

\* link(m): a module that is not linked yet is pushed, in the status Linking.
LEMMA EnterLinkBase ==
  ASSUME BaseInv, phase \in {"load", "link"}, NEW m \in Modules, NEW rest \in Seq(Frames),
         EnterLink(m, rest), Distinct(rest), \A x \in Mods(rest) : status[x] = "Linking",
         UNCHANGED <<source, root, static_evaluation, body, import, queue>>
  PROVE  BaseInv'
  <1> USE DEF BaseInv
  <1>1. \A x \in Modules : status[x] # "Evaluating"
    BY DEF StackInv
  <1>2. CASE status[m] = "absent"
    BY <1>2 DEF EnterLink, GraphTypes, WalkInv, StackInv, Walking, queue
  <1>3. CASE status[m] # "absent" /\ status[m] # "Unlinked"
    BY <1>1, <1>3 DEF EnterLink, GraphTypes, WalkInv, StackInv, Walking, queue
  <1>4. CASE status[m] = "Unlinked"
    <2>1. /\ stack' = <<Frame(m, 1)>> \o rest /\ phase' = "link"
          /\ status' = [status EXCEPT ![m] = "Linking"]
      BY <1>4 DEF EnterLink
    <2>2. stack' \in Seq(Frames) /\ Mods(stack') = {m} \cup Mods(rest) /\ Distinct(stack')
      <3>1. m \notin Mods(rest)
        BY <1>4
      <3> QED
        BY <2>1, <3>1, Pushed
    <2>3. \A x \in Modules : status'[x] = IF x = m THEN "Linking" ELSE status[x]
      BY <2>1 DEF GraphTypes
    <2>4. GraphTypes' /\ WalkInv'
      BY <2>1, <2>2 DEF GraphTypes, WalkInv, Walking, queue, Statuses
    <2>5. \A x \in Mods(rest) : x \in Modules
      BY ModsType
    <2>6. StackInv'
      BY <1>1, <2>1, <2>2, <2>3, <2>5 DEF StackInv
    <2> QED
      BY <2>4, <2>6
  <1> QED
    BY <1>2, <1>3, <1>4

\* evaluate_with_drain(m): a module that has not been entered is pushed.
LEMMA EnterEvaluateBase ==
  ASSUME BaseInv, phase \in {"link", "evaluate"}, NEW m \in Modules, NEW rest \in Seq(Frames),
         EnterEvaluate(m, rest), Distinct(rest),
         \A x \in Modules : status[x] = "Evaluating" <=> x \in Mods(rest),
         UNCHANGED <<source, root, body, import, queue>>
  PROVE  BaseInv'
  <1> USE DEF BaseInv
  <1>1. Marked(m) \subseteq Modules
    BY DEF Marked
  <1>2. CASE status[m] = "absent"
    BY <1>2 DEF EnterEvaluate, GraphTypes, WalkInv, StackInv, Walking, queue, graph
  <1>3. CASE status[m] # "absent" /\ status[m] \in Entered
    <2>1. /\ stack' = rest /\ phase' = "evaluate" /\ status' = status
          /\ static_evaluation' = static_evaluation \cup Marked(m)
      BY <1>3 DEF EnterEvaluate
    <2> QED
      BY <1>1, <2>1 DEF GraphTypes, WalkInv, StackInv, Walking, queue
  <1>4. CASE status[m] # "absent" /\ status[m] \notin Entered
    <2>1. /\ stack' = <<Frame(m, 1)>> \o rest /\ phase' = "evaluate"
          /\ status' = [status EXCEPT ![m] = "Evaluating"]
          /\ static_evaluation' = static_evaluation \cup Marked(m)
      BY <1>4 DEF EnterEvaluate
    <2>2. m \notin Mods(rest)
      BY <1>4 DEF Entered
    <2>3. stack' \in Seq(Frames) /\ Mods(stack') = {m} \cup Mods(rest) /\ Distinct(stack')
      <3>1. m \notin Mods(rest)
        BY <2>2
      <3> QED
        BY <2>1, <3>1, Pushed
    <2>4. \A x \in Modules : status'[x] = IF x = m THEN "Evaluating" ELSE status[x]
      BY <2>1 DEF GraphTypes
    <2>5. GraphTypes' /\ WalkInv'
      BY <1>1, <2>1, <2>3 DEF GraphTypes, WalkInv, Walking, queue, Statuses
    <2>6. StackInv'
      BY <2>1, <2>3, <2>4 DEF StackInv
    <2> QED
      BY <2>5, <2>6
  <1> QED
    BY <1>2, <1>3, <1>4

\* A walk that fails before the evaluation leaves no module Evaluating.
LEMMA FailsEarlyBase ==
  ASSUME BaseInv, phase \in {"start", "load", "link"}, Answer("throw", jobs),
         stack' = <<>>, status' = status,
         UNCHANGED <<source, root, static_evaluation, body, batch, imports>>
  PROVE  BaseInv'
  <1> USE DEF BaseInv
  <1>1. /\ phase' \in {"failed", "draining"} /\ import' = NoImport /\ jobs' \in Seq(AnyJob)
        /\ phase' = "failed" => root # NoModule
    BY AnswerFacts DEF Walking, GraphTypes
  <1>2. \A x \in Modules : status[x] # "Evaluating"
    BY DEF StackInv
  <1>3. GraphTypes' /\ WalkInv'
    BY <1>1, EmptyFacts DEF GraphTypes, WalkInv, Walking
  <1>4. StackInv'
    BY <1>1, <1>2, EmptyFacts DEF StackInv
  <1> QED
    BY <1>3, <1>4

\* ... and one that fails in the evaluation sets its modules back.
LEMMA FailEvaluateBase ==
  ASSUME BaseInv, phase \in {"evaluate", "settle"}, NEW pending \in Seq(AnyJob),
         FailEvaluate(pending),
         body' \in [Modules -> {"unrun", "threw", "suspended", "completed", "rejected"}],
         UNCHANGED <<source, root, static_evaluation, batch, imports>>
  PROVE  BaseInv'
  <1> USE DEF BaseInv
  <1>1. /\ stack' = <<>> /\ Answer("throw", pending)
        /\ status' = [m \in Modules |-> IF m \in OnStack THEN "Linked" ELSE status[m]]
    BY DEF FailEvaluate
  <1>2. /\ phase' \in {"failed", "draining"} /\ import' = NoImport /\ jobs' \in Seq(AnyJob)
        /\ phase' = "failed" => root # NoModule
    BY <1>1, AnswerFacts DEF Walking
  <1>3. GraphTypes' /\ WalkInv'
    BY <1>1, <1>2, EmptyFacts DEF GraphTypes, WalkInv, Walking, Statuses
  <1>4. \A x \in Modules : status'[x] # "Evaluating"
    BY <1>1 DEF StackInv, OnStack, Mods
  <1>5. StackInv'
    BY <1>1, <1>2, <1>4, EmptyFacts DEF StackInv
  <1> QED
    BY <1>3, <1>5


\* The frame on top, and its module's next request.
LEMMA TopFacts ==
  ASSUME BaseInv, stack # <<>>
  PROVE  /\ Top \in Frames /\ Top.mod \in Modules /\ Top.next \in Nat \ {0}
         /\ Top.mod \in Mods(stack) /\ Tail(stack) \in Seq(Frames)
         /\ Mods(stack) = {Top.mod} \cup Mods(Tail(stack))
         /\ Distinct(Tail(stack)) /\ Top.mod \notin Mods(Tail(stack))
         /\ Top.next <= Len(requests(Top.mod)) => requests(Top.mod)[Top.next] \in Modules
  <1>1. stack \in Seq(Frames) /\ Distinct(stack)
    BY DEF BaseInv, GraphTypes, StackInv
  <1>2. /\ Top \in Frames /\ Top.mod \in Modules /\ Top.mod \in Mods(stack)
        /\ Tail(stack) \in Seq(Frames) /\ Mods(stack) = {Top.mod} \cup Mods(Tail(stack))
        /\ Distinct(Tail(stack)) /\ Top.mod \notin Mods(Tail(stack))
    BY <1>1, PopFacts DEF Top
  <1>3. Top.next \in Nat \ {0}
    BY <1>2 DEF Frames
  <1>4. \A i \in 1 .. Len(requests(Top.mod)) : requests(Top.mod)[i] \in Modules
    BY <1>2, SourceFacts DEF BaseInv
  <1>5. Len(requests(Top.mod)) \in Nat
    BY <1>2, SourceFacts DEF BaseInv
  <1>6. Top.next <= Len(requests(Top.mod)) => requests(Top.mod)[Top.next] \in Modules
    BY <1>3, <1>4, <1>5
  <1> QED
    BY <1>2, <1>3, <1>6

\* The stack when the frame on top has gone on.
LEMMA Advanced ==
  ASSUME BaseInv, stack # <<>>,
         NEW rest, rest = <<Frame(Top.mod, Top.next + 1)>> \o Tail(stack)
  PROVE  rest \in Seq(Frames) /\ Mods(rest) = Mods(stack) /\ Distinct(rest)
  <1>1. stack \in Seq(Frames) /\ Distinct(stack)
    BY DEF BaseInv, GraphTypes, StackInv
  <1>2. rest = <<Frame(Head(stack).mod, Head(stack).next + 1)>> \o Tail(stack)
    BY DEF Top
  <1>3. rest \in Seq(Frames)
    BY <1>1, <1>2, AdvanceFacts
  <1>4. Mods(rest) = Mods(stack)
    BY <1>1, <1>2, AdvanceFacts
  <1>5. Distinct(rest)
    BY <1>1, <1>2, AdvanceFacts
  <1> QED
    BY <1>3, <1>4, <1>5

\* A module is loaded: it is new, and its frame is pushed.
LEMMA LoadedBase ==
  ASSUME BaseInv, phase \in {"start", "load"}, NEW m \in Modules, NEW rest \in Seq(Frames),
         Distinct(rest), \A x \in Mods(rest) : status[x] = "Unlinked",
         status[m] = "absent", status' = [status EXCEPT ![m] = "Unlinked"],
         stack' = <<Frame(m, 1)>> \o rest, phase' = "load",
         UNCHANGED <<source, root, static_evaluation, body, import, jobs, batch, imports>>
  PROVE  BaseInv'
  <1> USE DEF BaseInv
  <1>1. stack' \in Seq(Frames) /\ Mods(stack') = {m} \cup Mods(rest) /\ Distinct(stack')
    <2>1. m \notin Mods(rest)
      OBVIOUS
    <2> QED
      BY <2>1, Pushed
  <1>2. \A x \in Modules : status'[x] = IF x = m THEN "Unlinked" ELSE status[x]
    BY DEF GraphTypes
  <1>3. \A x \in Mods(rest) : x \in Modules
    BY ModsType
  <1>4. GraphTypes' /\ WalkInv'
    BY <1>1 DEF GraphTypes, WalkInv, Walking, Statuses
  <1>5. StackInv'
    BY <1>1, <1>2, <1>3 DEF StackInv
  <1> QED
    BY <1>4, <1>5

\* Loading keeps the types and the stack.
LEMMA LoadingBase ==
  ASSUME BaseInv, load \/ insert_and_load_dependencies
  PROVE  BaseInv'
  <1> USE DEF BaseInv
  <1>1. CASE load
    <2>1. Key \in Modules
      BY <1>1, KeyType DEF load, Walking
    <2>2. CASE status[Key] # "absent"
      BY <1>1, <2>2, EmptyFacts DEF load, GraphTypes, WalkInv, Walking, StackInv
    <2>3. CASE status[Key] = "absent" /\ ~source[Key].loads
      BY <1>1, <2>3, FailsEarlyBase DEF load
    <2>4. CASE status[Key] = "absent" /\ source[Key].loads
      <3>1. PICK k : k = Key
        OBVIOUS
      <3>2. <<Frame(k, 1)>> = <<Frame(k, 1)>> \o <<>>
        OBVIOUS
      <3>3. /\ stack' = <<Frame(k, 1)>> \o <<>> /\ phase' = "load" /\ status[k] = "absent"
            /\ status' = [status EXCEPT ![k] = "Unlinked"] /\ phase \in {"start", "load"}
            /\ UNCHANGED <<source, root, static_evaluation, body, import, jobs, batch, imports>>
        BY <1>1, <2>4, <3>1, <3>2 DEF load
      <3> QED
        BY <2>1, <3>1, <3>3, EmptyFacts, LoadedBase
    <2> QED
      BY <2>2, <2>3, <2>4
  <1>2. CASE insert_and_load_dependencies
    <2>1. PICK rest : rest = <<Frame(Top.mod, Top.next + 1)>> \o Tail(stack)
      OBVIOUS
    <2>2. phase = "load" /\ stack # <<>>
      BY <1>2 DEF insert_and_load_dependencies
    <2>3. rest \in Seq(Frames) /\ Mods(rest) = Mods(stack) /\ Distinct(rest)
      BY <2>1, <2>2, Advanced
    <2>4. /\ Top \in Frames /\ Top.mod \in Modules /\ Top.next \in Nat \ {0}
          /\ Tail(stack) \in Seq(Frames) /\ Distinct(Tail(stack))
          /\ Mods(stack) = {Top.mod} \cup Mods(Tail(stack))
          /\ Top.next <= Len(requests(Top.mod)) => requests(Top.mod)[Top.next] \in Modules
      BY <2>2, TopFacts
    <2>5. PICK d : d = requests(Top.mod)[Top.next]
      OBVIOUS
    <2>6. CASE Top.next > Len(requests(Top.mod))
      <3>1. stack' = Tail(stack) /\ UNCHANGED <<status, phase, import, jobs>>
            /\ UNCHANGED <<source, root, static_evaluation, body, batch, imports>>
        BY <1>2, <2>6 DEF insert_and_load_dependencies
      <3> QED
        BY <2>2, <2>4, <3>1 DEF GraphTypes, WalkInv, Walking, StackInv
    <2>7. CASE ~(Top.next > Len(requests(Top.mod))) /\ status[d] # "absent"
      <3>1. stack' = rest /\ UNCHANGED <<status, phase, import, jobs>>
            /\ UNCHANGED <<source, root, static_evaluation, body, batch, imports>>
        BY <1>2, <2>1, <2>5, <2>7 DEF insert_and_load_dependencies
      <3> QED
        BY <2>2, <2>3, <3>1 DEF GraphTypes, WalkInv, Walking, StackInv
    <2>8. CASE ~(Top.next > Len(requests(Top.mod))) /\ status[d] = "absent" /\ source[d].loads
      <3>1. /\ status' = [status EXCEPT ![d] = "Unlinked"]
            /\ stack' = <<Frame(d, 1)>> \o rest /\ phase' = "load"
            /\ UNCHANGED <<source, root, static_evaluation, body, import, jobs, batch, imports>>
        BY <1>2, <2>1, <2>2, <2>5, <2>8 DEF insert_and_load_dependencies
      <3>2. d \in Modules
        <4>1. Len(requests(Top.mod)) \in Nat
          BY <2>4, SourceFacts
        <4> QED
          BY <2>4, <2>5, <2>8, <4>1
      <3>3. \A x \in Mods(rest) : status[x] = "Unlinked"
        BY <2>2, <2>3 DEF StackInv
      <3> QED
        BY <2>2, <2>3, <2>8, <3>1, <3>2, <3>3, LoadedBase
    <2>9. CASE ~(Top.next > Len(requests(Top.mod))) /\ status[d] = "absent" /\ ~source[d].loads
      BY <1>2, <2>5, <2>9, FailsEarlyBase DEF insert_and_load_dependencies
    <2> QED
      BY <2>6, <2>7, <2>8, <2>9
  <1> QED
    BY <1>1, <1>2

\* So does linking ...
LEMMA LinkingBase ==
  ASSUME BaseInv, BeginLink \/ LinkDependency \/ ValidateImports
  PROVE  BaseInv'
  <1> USE DEF BaseInv
  <1>1. CASE BeginLink
    <2>1. PICK k : k = Key
      OBVIOUS
    <2>2. k \in Modules
      BY <1>1, <2>1, KeyType DEF BeginLink, Walking
    <2>3. /\ phase \in {"load", "link"} /\ EnterLink(k, <<>>)
          /\ UNCHANGED <<source, root, static_evaluation, body, import, queue>>
      BY <1>1, <2>1 DEF BeginLink
    <2> QED
      BY <2>2, <2>3, EmptyFacts, EnterLinkBase
  <1>2. CASE LinkDependency
    <2>1. PICK rest : rest = <<Frame(Top.mod, Top.next + 1)>> \o Tail(stack)
      OBVIOUS
    <2>2. PICK d : d = requests(Top.mod)[Top.next]
      OBVIOUS
    <2>3. /\ phase = "link" /\ stack # <<>> /\ EnterLink(d, rest)
          /\ UNCHANGED <<source, root, static_evaluation, body, import, queue>>
          /\ Top.next <= Len(requests(Top.mod))
      BY <1>2, <2>1, <2>2 DEF LinkDependency
    <2>4. rest \in Seq(Frames) /\ Mods(rest) = Mods(stack) /\ Distinct(rest)
      BY <2>1, <2>3, Advanced
    <2>5. d \in Modules
      BY <2>2, <2>3, TopFacts
    <2>6. \A x \in Mods(rest) : status[x] = "Linking"
      BY <2>3, <2>4 DEF StackInv
    <2> QED
      BY <2>3, <2>4, <2>5, <2>6, EnterLinkBase
  <1>3. CASE ValidateImports
    <2>1. /\ Top.mod \in Modules /\ Tail(stack) \in Seq(Frames)
          /\ Mods(stack) = {Top.mod} \cup Mods(Tail(stack))
          /\ Distinct(Tail(stack)) /\ Top.mod \notin Mods(Tail(stack))
      BY <1>3, TopFacts DEF ValidateImports
    <2>2. CASE source[Top.mod].resolves
      <3>1. PICK m : m = Top.mod
        OBVIOUS
      <3>2. /\ status' = [status EXCEPT ![m] = "Linked"] /\ stack' = Tail(stack) /\ phase = "link"
            /\ UNCHANGED <<source, root, static_evaluation, body, batch, imports, phase, import, jobs>>
        BY <1>3, <2>2, <3>1 DEF ValidateImports
      <3>3. \A x \in Modules : status'[x] = IF x = m THEN "Linked" ELSE status[x]
        BY <2>1, <3>1, <3>2 DEF GraphTypes
      <3>4. m \in Modules /\ stack' \in Seq(Frames) /\ Mods(stack) = {m} \cup Mods(stack')
            /\ m \notin Mods(stack') /\ Distinct(stack') /\ status[m] = "Linking"
            /\ Mods(stack) \subseteq Modules
        BY <2>1, <3>1, <3>2, ModsType DEF StackInv, GraphTypes
      <3>5. GraphTypes' /\ WalkInv'
        BY <3>2, <3>4 DEF GraphTypes, WalkInv, Walking, Statuses
      <3>6. StackInv'
        BY <3>2, <3>3, <3>4 DEF StackInv
      <3> QED
        BY <3>5, <3>6
    <2>3. CASE ~source[Top.mod].resolves
      BY <1>3, <2>3, FailsEarlyBase DEF ValidateImports
    <2> QED
      BY <2>2, <2>3
  <1> QED
    BY <1>1, <1>2, <1>3

\* ... and evaluating.
LEMMA EvaluatingBase ==
  ASSUME BaseInv, BeginEvaluate \/ EvaluateDependency \/ BeginSettle
                  \/ settle_started_async_dependencies
  PROVE  BaseInv'
  <1> USE DEF BaseInv
  <1>1. CASE BeginEvaluate
    <2>1. PICK k : k = Key
      OBVIOUS
    <2>2. k \in Modules
      BY <1>1, <2>1, KeyType DEF BeginEvaluate, Walking
    <2>3. /\ phase = "link" /\ stack = <<>> /\ EnterEvaluate(k, <<>>)
          /\ UNCHANGED <<source, root, body, import, queue>>
      BY <1>1, <2>1 DEF BeginEvaluate
    <2>4. \A x \in Modules : status[x] = "Evaluating" <=> x \in Mods(<<>>)
      BY <2>3, EmptyFacts DEF StackInv
    <2> QED
      BY <2>2, <2>3, <2>4, EmptyFacts, EnterEvaluateBase
  <1>2. CASE EvaluateDependency
    <2>1. PICK rest : rest = <<Frame(Top.mod, Top.next + 1)>> \o Tail(stack)
      OBVIOUS
    <2>2. PICK d : d = requests(Top.mod)[Top.next]
      OBVIOUS
    <2>3. /\ phase = "evaluate" /\ stack # <<>> /\ EnterEvaluate(d, rest)
          /\ UNCHANGED <<source, root, body, import, queue>>
          /\ Top.next <= Len(requests(Top.mod))
      BY <1>2, <2>1, <2>2 DEF EvaluateDependency
    <2>4. rest \in Seq(Frames) /\ Mods(rest) = Mods(stack) /\ Distinct(rest)
      BY <2>1, <2>3, Advanced
    <2>5. d \in Modules
      BY <2>2, <2>3, TopFacts
    <2>6. \A x \in Modules : status[x] = "Evaluating" <=> x \in Mods(rest)
      BY <2>3, <2>4 DEF StackInv
    <2> QED
      BY <2>3, <2>4, <2>5, <2>6, EnterEvaluateBase
  <1>3. CASE BeginSettle
    BY <1>3 DEF BeginSettle, GraphTypes, WalkInv, Walking, StackInv, queue, graph
  <1>4. CASE settle_started_async_dependencies
    <2>1. phase = "settle" /\ UNCHANGED <<source, root, static_evaluation, body, batch, imports>>
      BY <1>4 DEF settle_started_async_dependencies
    <2>2. CASE FailEvaluate(jobs)
      BY <2>1, <2>2, FailEvaluateBase DEF GraphTypes
    <2>3. CASE stack = <<>> /\ Answer("resolve", jobs) /\ UNCHANGED <<status, stack>>
      <3>1. import # NoImport
        BY <2>1, <2>3 DEF WalkInv
      <3>2. phase' = "draining" /\ import' = NoImport /\ jobs' \in Seq(AnyJob)
        BY <2>1, <2>3, <3>1, AnswerFacts DEF Walking, GraphTypes
      <3> QED
        BY <2>1, <2>3, <3>2, EmptyFacts DEF GraphTypes, WalkInv, Walking, StackInv
    <2>4. CASE /\ stack # <<>> /\ phase' = "evaluate"
               /\ stack' = <<Frame(Top.mod, Top.next + 1)>> \o Tail(stack)
               /\ UNCHANGED <<status, import, jobs>>
      <3>1. PICK rest : rest = <<Frame(Top.mod, Top.next + 1)>> \o Tail(stack)
        OBVIOUS
      <3>2. rest \in Seq(Frames) /\ Mods(rest) = Mods(stack) /\ Distinct(rest) /\ stack' = rest
        BY <2>4, <3>1, Advanced
      <3> QED
        BY <2>1, <2>4, <3>2 DEF GraphTypes, WalkInv, Walking, StackInv
    <2> QED
      BY <1>4, <2>2, <2>3, <2>4 DEF settle_started_async_dependencies
  <1> QED
    BY <1>1, <1>2, <1>3, <1>4

\* So do the bodies, when they begin ...
LEMMA BodyBase ==
  ASSUME BaseInv, evaluate_body
  PROVE  BaseInv'
  <1> USE DEF BaseInv
  <1>1. PICK m : m = Top.mod
    OBVIOUS
  <1>2. /\ phase = "evaluate" /\ stack # <<>>
        /\ UNCHANGED <<source, root, static_evaluation, batch, imports>>
    BY DEF evaluate_body, AtBody
  <1>3. /\ m \in Modules /\ Tail(stack) \in Seq(Frames)
        /\ Mods(stack) = {m} \cup Mods(Tail(stack))
        /\ Distinct(Tail(stack)) /\ m \notin Mods(Tail(stack))
    BY <1>1, <1>2, TopFacts
  <1>4. Calls(m) \in Seq(AnyJob) /\ Awaits(m) \in Seq(AnyJob)
    BY <1>3, BodyJobsType
  <1>5. CASE source[m].body = "throws"
    <2>1. body' = [body EXCEPT ![m] = "threw"] /\ FailEvaluate(jobs \o Calls(m))
      BY <1>1, <1>5 DEF evaluate_body
    <2>2. jobs \o Calls(m) \in Seq(AnyJob)
      BY <1>4 DEF GraphTypes
    <2>3. body' \in [Modules -> {"unrun", "threw", "suspended", "completed", "rejected"}]
      BY <1>3, <2>1 DEF GraphTypes
    <2> QED
      BY <1>2, <2>1, <2>2, <2>3, FailEvaluateBase
  <1>6. CASE source[m].body # "throws"
    <2>1. /\ body' = [body EXCEPT ![m] = IF source[m].body = "completes" THEN "completed"
                                         ELSE "suspended"]
          /\ status' = [status EXCEPT ![m] = "Evaluated"]
          /\ stack' = Tail(stack) /\ jobs' = jobs \o Calls(m) \o Awaits(m)
          /\ UNCHANGED <<phase, import>>
      BY <1>1, <1>6 DEF evaluate_body
    <2>2. jobs' \in Seq(AnyJob)
      BY <1>4, <2>1 DEF GraphTypes
    <2>3. \A x \in Modules : status'[x] = IF x = m THEN "Evaluated" ELSE status[x]
      BY <2>1 DEF GraphTypes
    <2>4. GraphTypes' /\ WalkInv'
      BY <1>2, <1>3, <2>1, <2>2 DEF GraphTypes, WalkInv, Walking, Statuses
    <2>5. StackInv'
      BY <1>2, <1>3, <2>1, <2>3 DEF StackInv
    <2> QED
      BY <2>4, <2>5
  <1> QED
    BY <1>5, <1>6

\* ... and when a job resumes them.
LEMMA ResumeBase ==
  ASSUME BaseInv, ResumeNested \/ ResumeOuter
  PROVE  BaseInv'
  <1> USE DEF BaseInv
  <1>1. ASSUME NEW job \in AnyJob, RunResume(job)
        PROVE  body' \in [Modules -> {"unrun", "threw", "suspended", "completed", "rejected"}]
    BY <1>1 DEF RunResume, GraphTypes, AnyJob, ResumeJobs, ImportJobs
  <1>2. CASE ResumeNested
    <2>1. jobs # <<>> /\ Head(jobs) \in AnyJob /\ Tail(jobs) \in Seq(AnyJob)
      BY <1>2 DEF ResumeNested, DrainEnds, GraphTypes
    <2> QED
      BY <1>1, <1>2, <2>1 DEF ResumeNested, GraphTypes, WalkInv, StackInv, graph
  <1>3. CASE ResumeOuter
    <2>1. batch # <<>> /\ Head(batch) \in AnyJob /\ Tail(batch) \in Seq(AnyJob)
      BY <1>3 DEF ResumeOuter, GraphTypes
    <2> QED
      BY <1>1, <1>3, <2>1 DEF ResumeOuter, GraphTypes, WalkInv, StackInv, graph
  <1> QED
    BY <1>2, <1>3

\* And the host.
LEMMA HostBase ==
  ASSUME BaseInv, RootEvaluated \/ TakeBatch \/ import_dynamic \/ eval_module_ends
                  \/ dynamic_import
  PROVE  BaseInv'
  <1> USE DEF BaseInv
  <1>1. CASE RootEvaluated
    BY <1>1, EmptyFacts DEF RootEvaluated, GraphTypes, WalkInv, StackInv, graph, queue, Walking
  <1>2. CASE TakeBatch
    BY <1>2 DEF TakeBatch, GraphTypes, WalkInv, StackInv, graph
  <1>3. CASE import_dynamic
    <2>1. Head(batch) \in AnyJob /\ Head(batch).type = "import" /\ Tail(batch) \in Seq(AnyJob)
      BY <1>3 DEF import_dynamic, GraphTypes
    <2>2. Head(batch) \in ImportJobs /\ Head(batch) # NoImport
      BY <2>1, ModuleAssumption DEF AnyJob, ImportJobs, ResumeJobs, NoImport, Import
    <2> QED
      BY <1>3, <2>1, <2>2 DEF import_dynamic, GraphTypes, WalkInv, StackInv, graph, Walking
  <1>4. CASE eval_module_ends
    BY <1>4 DEF eval_module_ends, GraphTypes, WalkInv, StackInv, graph, queue, Walking
  <1>5. CASE dynamic_import
    <2>1. \A m \in Modules : Import(NoModule, m) \in AnyJob
      BY DEF Import, AnyJob, ImportJobs
    <2> QED
      BY <1>5, <2>1 DEF dynamic_import, GraphTypes, WalkInv, StackInv, graph
  <1> QED
    BY <1>1, <1>2, <1>3, <1>4, <1>5

\* The types and the stack of a walk, in every step.
LEMMA BaseNext ==
  ASSUME BaseInv, [Next]_vars
  PROVE  BaseInv'
  <1>1. CASE Next
    BY <1>1, LoadingBase, LinkingBase, EvaluatingBase, BodyBase, ResumeBase, HostBase
       DEF Next, Walk, Drain
  <1>2. CASE UNCHANGED vars
    BY <1>2 DEF vars, graph, queue, BaseInv, GraphTypes, WalkInv, StackInv
  <1> QED
    BY <1>1, <1>2

\* The engine starts with no walk.
LEMMA BaseInit ==
  ASSUME Init
  PROVE  BaseInv
  <1>1. GraphTypes
    BY EmptyFacts, ModuleAssumption DEF Init, GraphTypes, Statuses, Walking, NoImport
  <1>2. WalkInv
    BY DEF Init, WalkInv, Walking
  <1>3. StackInv
    BY EmptyFacts DEF Init, StackInv
  <1> QED
    BY <1>1, <1>2, <1>3 DEF BaseInv

\* The types and the stack of a walk.
THEOREM WalksAreTyped == Spec => []BaseInv
  <1> QED
    BY BaseInit, BaseNext, PTL DEF Spec

\* Whatever fails, at whatever depth, the status Evaluating is taken back
\* (EvaluatingIsOnStack).
THEOREM EvaluatingTakenBack == Spec => []EvaluatingIsOnStack
  <1>1. ASSUME BaseInv PROVE EvaluatingIsOnStack
    <2>1. OnStack = Mods(stack) /\ Mods(stack) \subseteq Modules
      BY <1>1, ModsType DEF OnStack, Mods, BaseInv, GraphTypes
    <2>2. phase # "panicked" =>
            \A m \in Modules :
              status[m] = "Evaluating" <=> phase \in {"evaluate", "settle"} /\ m \in OnStack
      BY <1>1, <2>1 DEF BaseInv, StackInv
    <2>3. phase # "panicked" =>
            {m \in Modules : status[m] = "Evaluating"} =
              (IF phase \in {"evaluate", "settle"} THEN OnStack ELSE {})
      BY <2>1, <2>2
    <2>4. \A i, j \in DOMAIN stack : stack[i].mod = stack[j].mod => i = j
      BY <1>1 DEF BaseInv, StackInv, Distinct
    <2> QED
      BY <2>3, <2>4 DEF EvaluatingIsOnStack
  <1> QED
    BY <1>1, WalksAreTyped, PTL

-----------------------------------------------------------------------------
(* A suspended body has one job that will resume it.                       *)

\* The job taken from the front.
LEMMA TailTokens ==
  ASSUME NEW S, NEW s \in Seq(S), s # <<>>, NEW m, Once(s, m)
  PROVE  /\ Once(Tail(s), m) /\ (Has(s, m) <=> Has(Tail(s), m) \/ WillResume(Head(s), m))
         /\ ~(Has(Tail(s), m) /\ WillResume(Head(s), m))
  <1>1. /\ Head(s) = s[1] /\ 1 \in DOMAIN s
        /\ \A i \in DOMAIN Tail(s) : i \in Int /\ i + 1 # 1 /\ i + 1 \in DOMAIN s /\ Tail(s)[i] = s[i + 1]
        /\ \A i \in DOMAIN s : i \in Nat \ {0}
                              /\ (i # 1 => i - 1 \in DOMAIN Tail(s) /\ Tail(s)[i - 1] = s[i])
    BY TailFacts
  <1>2. Once(Tail(s), m)
    BY <1>1 DEF Once
  <1>3. ASSUME Has(s, m) PROVE Has(Tail(s), m) \/ WillResume(Head(s), m)
    BY <1>1, <1>3 DEF Has
  <1>4. ASSUME Has(Tail(s), m) PROVE Has(s, m) /\ ~WillResume(Head(s), m)
    BY <1>1, <1>4 DEF Has, Once
  <1>5. WillResume(Head(s), m) => Has(s, m)
    BY <1>1 DEF Has
  <1> QED
    BY <1>2, <1>3, <1>4, <1>5

\* The jobs of one sequence behind those of another.
LEMMA CatTokens ==
  ASSUME NEW S, NEW s \in Seq(S), NEW t \in Seq(S), NEW r, r = s \o t, NEW m,
         Once(s, m), Once(t, m), ~(Has(s, m) /\ Has(t, m))
  PROVE  Once(r, m) /\ (Has(r, m) <=> Has(s, m) \/ Has(t, m))
  <1>1. /\ Len(s) \in Nat /\ Len(t) \in Nat /\ DOMAIN s = 1 .. Len(s) /\ DOMAIN t = 1 .. Len(t)
        /\ DOMAIN r = 1 .. Len(s) + Len(t)
        /\ \A i \in 1 .. Len(s) : r[i] = s[i]
        /\ \A i \in 1 .. Len(t) : r[i + Len(s)] = t[i]
    OBVIOUS
  <1>2. \A i \in DOMAIN r : i \in DOMAIN s \/ (i - Len(s) \in DOMAIN t /\ r[i] = t[i - Len(s)])
    BY <1>1
  <1>3. \A i \in DOMAIN t : i + Len(s) \in DOMAIN r
    BY <1>1
  <1>4. \A i \in DOMAIN s : i \in DOMAIN r /\ r[i] = s[i]
    BY <1>1
  <1>5. Has(r, m) <=> Has(s, m) \/ Has(t, m)
    <2>1. Has(r, m) => Has(s, m) \/ Has(t, m)
      BY <1>2, <1>4 DEF Has
    <2>2. Has(s, m) => Has(r, m)
      BY <1>4 DEF Has
    <2>3. Has(t, m) => Has(r, m)
      BY <1>1, <1>3 DEF Has
    <2> QED
      BY <2>1, <2>2, <2>3
  <1>6. Once(r, m)
    <2>1. SUFFICES ASSUME NEW i \in DOMAIN r, NEW j \in DOMAIN r,
                          WillResume(r[i], m), WillResume(r[j], m)
                   PROVE  i = j
      BY DEF Once
    <2>2. CASE i \in DOMAIN s /\ j \in DOMAIN s
      BY <1>4, <2>1, <2>2 DEF Once
    <2>3. CASE i \notin DOMAIN s /\ j \notin DOMAIN s
      <3>1. i - Len(s) = j - Len(s)
        BY <1>2, <2>1, <2>3 DEF Once
      <3> QED
        BY <1>1, <3>1
    <2>4. CASE i \in DOMAIN s /\ j \notin DOMAIN s
      BY <1>2, <1>4, <2>1, <2>4 DEF Has
    <2>5. CASE i \notin DOMAIN s /\ j \in DOMAIN s
      BY <1>2, <1>4, <2>1, <2>5 DEF Has
    <2> QED
      BY <2>2, <2>3, <2>4, <2>5
  <1> QED
    BY <1>5, <1>6

\* None, and one.
LEMMA OneToken ==
  ASSUME NEW e, NEW m
  PROVE  /\ Once(<<>>, m) /\ ~Has(<<>>, m)
         /\ Once(<<e>>, m) /\ (Has(<<e>>, m) <=> WillResume(e, m))
  <1>1. DOMAIN <<e>> = {1} /\ <<e>>[1] = e /\ DOMAIN <<>> = {}
    OBVIOUS
  <1> QED
    BY <1>1 DEF Once, Has

\* A job appended.
LEMMA AppendTokens ==
  ASSUME NEW s \in Seq(AnyJob), NEW e \in AnyJob, NEW r, r = Append(s, e), NEW m,
         Once(s, m), ~(Has(s, m) /\ WillResume(e, m))
  PROVE  Once(r, m) /\ (Has(r, m) <=> Has(s, m) \/ WillResume(e, m))
  <1>1. PICK t : t = <<e>>
    OBVIOUS
  <1>2. t \in Seq(AnyJob) /\ r = s \o t
    BY <1>1
  <1>3. Once(t, m) /\ (Has(t, m) <=> WillResume(e, m))
    BY <1>1, OneToken
  <1> QED
    BY <1>2, <1>3, CatTokens

\* What the body of m enqueues resumes m only, and once if it suspends.
LEMMA BodyTokens ==
  ASSUME GraphTypes, NEW m \in Modules, NEW x \in Modules,
         NEW t, t = Calls(m) \o Awaits(m)
  PROVE  /\ t \in Seq(AnyJob) /\ Once(t, x)
         /\ Has(t, x) <=> x = m /\ source[m].body \in {"awaits", "awaitsThenRejects", "awaitsImport"}
         /\ Once(Calls(m), x) /\ (source[m].body = "throws" => ~Has(Calls(m), x))
  <1>1. Calls(m) \in Seq(AnyJob) /\ Awaits(m) \in Seq(AnyJob)
    BY BodyJobsType
  <1>2. PICK c : c = Import(m, source[m].calls)
    OBVIOUS
  <1>3. WillResume(c, x) <=> x = m /\ source[m].body = "awaitsImport"
    BY <1>2 DEF WillResume, Import
  <1>4. PICK a : a = Resume(m, "resolve")
    OBVIOUS
  <1>5. WillResume(a, x) <=> x = m
    BY <1>4 DEF WillResume, Resume
  <1>6. /\ Once(Calls(m), x)
        /\ Has(Calls(m), x) <=> x = m /\ source[m].body = "awaitsImport" /\ source[m].calls # NoModule
    <2>1. CASE source[m].calls = NoModule
      BY <2>1, OneToken DEF Calls
    <2>2. CASE source[m].calls # NoModule
      <3>1. Calls(m) = <<c>>
        BY <1>2, <2>2 DEF Calls
      <3> QED
        BY <1>3, <2>2, <3>1, OneToken
    <2> QED
      BY <2>1, <2>2
  <1>7. /\ Once(Awaits(m), x)
        /\ Has(Awaits(m), x) <=>
             /\ x = m
             /\ \/ source[m].body \in {"awaits", "awaitsThenRejects"}
                \/ source[m].body = "awaitsImport" /\ source[m].calls = NoModule
    <2>1. Awaits(m) = <<>> \/ Awaits(m) = <<a>>
      BY <1>4 DEF Awaits
    <2>2. CASE \/ source[m].body \in {"awaits", "awaitsThenRejects"}
               \/ source[m].body = "awaitsImport" /\ source[m].calls = NoModule
      <3>1. Awaits(m) = <<a>>
        BY <1>4, <2>2 DEF Awaits
      <3> QED
        BY <1>5, <2>2, <3>1, OneToken
    <2>3. CASE ~(\/ source[m].body \in {"awaits", "awaitsThenRejects"}
                 \/ source[m].body = "awaitsImport" /\ source[m].calls = NoModule)
      <3>1. Awaits(m) = <<>>
        BY <2>3 DEF Awaits
      <3> QED
        BY <2>3, <3>1, OneToken
    <2> QED
      BY <2>2, <2>3
  <1>8. ~(Has(Calls(m), x) /\ Has(Awaits(m), x))
    BY <1>6, <1>7
  <1>9. Once(t, x) /\ (Has(t, x) <=> Has(Calls(m), x) \/ Has(Awaits(m), x))
    BY <1>1, <1>6, <1>7, <1>8, CatTokens
  <1>10. Has(t, x) <=> x = m /\ source[m].body \in {"awaits", "awaitsThenRejects", "awaitsImport"}
    BY <1>6, <1>7, <1>9
  <1>11. t \in Seq(AnyJob)
    BY <1>1
  <1> QED
    BY <1>6, <1>9, <1>10, <1>11

\* The account of one module.
Accounted(J, B, I, m, b, evaluated) ==
  /\ Once(J, m) /\ Once(B, m) /\ ~(Has(J, m) /\ Has(B, m))
  /\ WillResume(I, m) => ~Has(J, m) /\ ~Has(B, m)
  /\ b = "suspended" <=> Has(J, m) \/ Has(B, m) \/ WillResume(I, m)
  /\ b \in {"unrun", "threw"} <=> ~evaluated
  /\ b = "threw" => source[m].body = "throws"

\* The accounts of all.
LEMMA AccountsNow ==
  ASSUME ResumeInv
  PROVE  \A m \in Modules : Accounted(jobs, batch, import, m, body[m], status[m] = "Evaluated")
  BY DEF ResumeInv, Accounted

\* ... and after a step.
LEMMA AccountsNext ==
  ASSUME source' = source, NEW J, NEW B, NEW I, J = jobs', B = batch', I = import',
         \A m \in Modules : Accounted(J, B, I, m, body'[m], status'[m] = "Evaluated")
  PROVE  ResumeInv'
  <1>1. \A m : Once(J, m) = (Once(jobs, m))' /\ Has(J, m) = (Has(jobs, m))'
    BY DEF Once, Has, WillResume
  <1>2. \A m : Once(B, m) = (Once(batch, m))' /\ Has(B, m) = (Has(batch, m))'
    BY DEF Once, Has, WillResume
  <1>3. \A m : WillResume(I, m) = (WillResume(import, m))'
    BY DEF WillResume
  <1> QED
    BY <1>1, <1>2, <1>3 DEF ResumeInv, Accounted

\* No import, and one that a body does not await, resume nothing.
LEMMA ImportTokens ==
  ASSUME GraphTypes, NEW m \in Modules
  PROVE  /\ ~WillResume(NoImport, m)
         /\ import = NoImport \/ import \in ImportJobs
         /\ import \in ImportJobs =>
              (WillResume(import, m) <=> import.by = m /\ source[m].body = "awaitsImport")
  <1>1. ~WillResume(NoImport, m)
    BY ModuleAssumption DEF WillResume, NoImport, Import
  <1>2. import = NoImport \/ import \in ImportJobs
    BY DEF GraphTypes
  <1>3. import \in ImportJobs =>
          (WillResume(import, m) <=> import.by = m /\ source[m].body = "awaitsImport")
    BY DEF WillResume, ImportJobs
  <1> QED
    BY <1>1, <1>2, <1>3

\* The answer to an import turns it into the job of the body that awaits it.
LEMMA AnswerTokens ==
  ASSUME GraphTypes, NEW pending \in Seq(AnyJob), NEW how \in {"resolve", "throw"},
         Answer(how, pending), NEW m \in Modules, Once(pending, m),
         WillResume(import, m) => ~Has(pending, m), NEW J, J = jobs', NEW I, I = import'
  PROVE  /\ Once(J, m) /\ (Has(J, m) <=> Has(pending, m) \/ WillResume(import, m))
         /\ ~WillResume(I, m)
  <1>1. /\ ~WillResume(NoImport, m)
        /\ import = NoImport \/ import \in ImportJobs
        /\ import \in ImportJobs =>
             (WillResume(import, m) <=> import.by = m /\ source[m].body = "awaitsImport")
    BY ImportTokens
  <1>2. CASE import = NoImport
    BY <1>1, <1>2 DEF Answer
  <1>3. CASE import # NoImport
    <2>1. I = NoImport /\ import \in ImportJobs
      BY <1>1, <1>3 DEF Answer
    <2>2. CASE import.by # NoModule /\ source[import.by].body = "awaitsImport"
      <3>1. PICK e : e = Resume(import.by, how)
        OBVIOUS
      <3>2. J = Append(pending, e)
        BY <1>3, <2>2, <3>1 DEF Answer
      <3>3. e \in AnyJob /\ (WillResume(e, m) <=> m = import.by)
        BY <2>1, <2>2, <3>1 DEF Resume, WillResume, AnyJob, ResumeJobs, ImportJobs
      <3>4. WillResume(e, m) <=> WillResume(import, m)
        BY <1>1, <2>1, <2>2, <3>3
      <3>5. Once(J, m) /\ (Has(J, m) <=> Has(pending, m) \/ WillResume(e, m))
        BY <3>2, <3>3, <3>4, AppendTokens
      <3> QED
        BY <1>1, <2>1, <3>4, <3>5
    <2>3. CASE ~(import.by # NoModule /\ source[import.by].body = "awaitsImport")
      <3>1. J = pending
        BY <1>3, <2>3 DEF Answer
      <3>2. ~WillResume(import, m)
        BY <1>1, <2>1, <2>3, ModuleAssumption
      <3> QED
        BY <1>1, <2>1, <3>1, <3>2
    <2> QED
      BY <2>2, <2>3
  <1> QED
    BY <1>2, <1>3

\* A step that leaves the queue and the bodies alone.
LEMMA QuietResume ==
  ASSUME ResumeInv, UNCHANGED <<source, body, import, jobs, batch>>,
         \A m \in Modules : status'[m] = "Evaluated" <=> status[m] = "Evaluated"
  PROVE  ResumeInv'
  BY AccountsNow, AccountsNext

\* A walk that fails, or an import that ends, in a step that runs no body.
LEMMA AnswerResume ==
  ASSUME GraphTypes, ResumeInv, NEW how \in {"resolve", "throw"}, Answer(how, jobs),
         UNCHANGED <<source, body, batch>>,
         \A m \in Modules : status'[m] = "Evaluated" <=> status[m] = "Evaluated"
  PROVE  ResumeInv'
  <1>1. PICK J, I : J = jobs' /\ I = import'
    OBVIOUS
  <1>2. ASSUME NEW m \in Modules
        PROVE  Accounted(J, batch, I, m, body[m], status'[m] = "Evaluated")
    <2>1. Accounted(jobs, batch, import, m, body[m], status[m] = "Evaluated")
      BY AccountsNow
    <2>2. /\ Once(J, m) /\ (Has(J, m) <=> Has(jobs, m) \/ WillResume(import, m))
          /\ ~WillResume(I, m)
      <3>1. jobs \in Seq(AnyJob) /\ Once(jobs, m) /\ (WillResume(import, m) => ~Has(jobs, m))
        BY <2>1 DEF Accounted, GraphTypes
      <3>2. J = jobs' /\ I = import'
        BY <1>1
      <3> QED
        BY <3>1, <3>2, AnswerTokens
    <2> QED
      BY <2>1, <2>2 DEF Accounted
  <1> QED
    BY <1>1, <1>2, AccountsNext

\* The statuses of a failed evaluation.
LEMMA FailEvaluateStatus ==
  ASSUME BaseInv, phase \in {"evaluate", "settle"}, NEW pending, FailEvaluate(pending)
  PROVE  /\ \A m \in Modules : status'[m] = IF m \in Mods(stack) THEN "Linked" ELSE status[m]
         /\ \A m \in Modules : status'[m] = "Evaluated" <=> status[m] = "Evaluated"
         /\ stack' = <<>> /\ Answer("throw", pending)
  <1>1. OnStack = Mods(stack)
    BY DEF OnStack, Mods
  <1>2. /\ \A m \in Modules : status'[m] = IF m \in Mods(stack) THEN "Linked" ELSE status[m]
        /\ stack' = <<>> /\ Answer("throw", pending)
    BY <1>1 DEF FailEvaluate
  <1>3. \A m \in Mods(stack) : m \in Modules => status[m] = "Evaluating"
    BY DEF BaseInv, StackInv
  <1> QED
    BY <1>2, <1>3

\* The steps of a walk that run no body.
LEMMA WalkResume ==
  ASSUME BaseInv, ResumeInv,
         \/ load \/ insert_and_load_dependencies \/ BeginLink \/ LinkDependency
         \/ ValidateImports \/ BeginEvaluate \/ EvaluateDependency \/ BeginSettle
         \/ settle_started_async_dependencies
  PROVE  ResumeInv'
  <1>1. GraphTypes
    BY DEF BaseInv
  <1>2. CASE load
    <2>1. UNCHANGED <<source, body, batch>>
      BY <1>2 DEF load
    <2>2. CASE Answer("throw", jobs) /\ status' = status
      BY <1>1, <2>1, <2>2, AnswerResume
    <2>3. CASE /\ UNCHANGED <<import, jobs>>
               /\ \/ status' = status
                  \/ status[Key] = "absent" /\ status' = [status EXCEPT ![Key] = "Unlinked"]
      <3>1. \A m \in Modules : status'[m] = "Evaluated" <=> status[m] = "Evaluated"
        BY <1>1, <2>3 DEF GraphTypes
      <3> QED
        BY <2>1, <2>3, <3>1, QuietResume
    <2> QED
      BY <1>2, <2>2, <2>3 DEF load
  <1>3. CASE insert_and_load_dependencies
    <2>1. UNCHANGED <<source, body, batch>>
      BY <1>3 DEF insert_and_load_dependencies
    <2>2. CASE Answer("throw", jobs) /\ status' = status
      BY <1>1, <2>1, <2>2, AnswerResume
    <2>3. PICK d : d = requests(Top.mod)[Top.next]
      OBVIOUS
    <2>4. CASE /\ UNCHANGED <<import, jobs>>
               /\ \/ status' = status
                  \/ status[d] = "absent" /\ status' = [status EXCEPT ![d] = "Unlinked"]
      <3>1. \A m \in Modules : status'[m] = "Evaluated" <=> status[m] = "Evaluated"
        BY <1>1, <2>4 DEF GraphTypes
      <3> QED
        BY <2>1, <2>4, <3>1, QuietResume
    <2> QED
      BY <1>3, <2>2, <2>3, <2>4 DEF insert_and_load_dependencies
  <1>4. CASE BeginLink \/ LinkDependency
    <2>1. UNCHANGED <<source, body, import, jobs, batch>>
      BY <1>4 DEF BeginLink, LinkDependency, queue
    <2>2. ASSUME NEW k, NEW rest, EnterLink(k, rest)
          PROVE  \A m \in Modules : status'[m] = "Evaluated" <=> status[m] = "Evaluated"
      BY <1>1, <2>2 DEF EnterLink, GraphTypes
    <2>3. \A m \in Modules : status'[m] = "Evaluated" <=> status[m] = "Evaluated"
      BY <1>4, <2>2 DEF BeginLink, LinkDependency
    <2> QED
      BY <2>1, <2>3, QuietResume
  <1>5. CASE ValidateImports
    <2>1. UNCHANGED <<source, body, batch>>
      BY <1>5 DEF ValidateImports
    <2>2. CASE Answer("throw", jobs) /\ status' = status
      BY <1>1, <2>1, <2>2, AnswerResume
    <2>3. CASE UNCHANGED <<import, jobs>> /\ status' = [status EXCEPT ![Top.mod] = "Linked"]
      <3>1. status[Top.mod] = "Linking"
        BY <1>5, TopFacts DEF ValidateImports, BaseInv, StackInv
      <3>2. \A m \in Modules : status'[m] = "Evaluated" <=> status[m] = "Evaluated"
        BY <1>1, <2>3, <3>1 DEF GraphTypes
      <3> QED
        BY <2>1, <2>3, <3>2, QuietResume
    <2> QED
      BY <1>5, <2>2, <2>3 DEF ValidateImports
  <1>6. CASE BeginEvaluate \/ EvaluateDependency
    <2>1. UNCHANGED <<source, body, import, jobs, batch>>
      BY <1>6 DEF BeginEvaluate, EvaluateDependency, queue
    <2>2. ASSUME NEW k, NEW rest, EnterEvaluate(k, rest)
          PROVE  \A m \in Modules : status'[m] = "Evaluated" <=> status[m] = "Evaluated"
      BY <1>1, <2>2 DEF EnterEvaluate, GraphTypes, graph, Entered
    <2>3. \A m \in Modules : status'[m] = "Evaluated" <=> status[m] = "Evaluated"
      BY <1>6, <2>2 DEF BeginEvaluate, EvaluateDependency
    <2> QED
      BY <2>1, <2>3, QuietResume
  <1>7. CASE BeginSettle
    BY <1>7, QuietResume DEF BeginSettle, graph, queue
  <1>8. CASE settle_started_async_dependencies
    <2>1. UNCHANGED <<source, body, batch>> /\ phase = "settle"
      BY <1>8 DEF settle_started_async_dependencies
    <2>2. CASE FailEvaluate(jobs)
      BY <1>1, <2>1, <2>2, FailEvaluateStatus, AnswerResume
    <2>3. CASE Answer("resolve", jobs) /\ status' = status
      BY <1>1, <2>1, <2>3, AnswerResume
    <2>4. CASE UNCHANGED <<status, import, jobs>>
      BY <2>1, <2>4, QuietResume
    <2> QED
      BY <1>8, <2>2, <2>3, <2>4 DEF settle_started_async_dependencies
  <1> QED
    BY <1>2, <1>3, <1>4, <1>5, <1>6, <1>7, <1>8

\* A body that runs leaves one job if it is suspended, and none if it is not.
LEMMA BodyResume ==
  ASSUME BaseInv, ResumeInv, evaluate_body
  PROVE  ResumeInv'
  <1>1. PICK m : m = Top.mod
    OBVIOUS
  <1>2. /\ phase = "evaluate" /\ stack # <<>> /\ GraphTypes
        /\ UNCHANGED <<source, root, static_evaluation, batch, imports>>
    BY DEF evaluate_body, AtBody, BaseInv
  <1>3. m \in Modules /\ m \in Mods(stack) /\ status[m] = "Evaluating"
    BY <1>1, <1>2, TopFacts DEF BaseInv, StackInv
  <1>4. PICK J, I : J = jobs' /\ I = import'
    OBVIOUS
  <1>5. \A x \in Modules : Accounted(jobs, batch, import, x, body[x], status[x] = "Evaluated")
    BY AccountsNow
  <1>6. /\ Once(jobs, m) /\ Once(batch, m) /\ ~Has(jobs, m) /\ ~Has(batch, m)
        /\ ~WillResume(import, m) /\ body[m] \in {"unrun", "threw"}
    BY <1>3, <1>5 DEF Accounted
  <1>7. CASE source[m].body = "throws"
    <2>1. body' = [body EXCEPT ![m] = "threw"] /\ FailEvaluate(jobs \o Calls(m))
      BY <1>1, <1>7 DEF evaluate_body
    <2>2. PICK pending : pending = jobs \o Calls(m)
      OBVIOUS
    <2>3. /\ Answer("throw", pending)
          /\ \A x \in Modules : status'[x] = "Evaluated" <=> status[x] = "Evaluated"
      BY <1>2, <2>1, <2>2, FailEvaluateStatus
    <2>4. pending \in Seq(AnyJob) /\ jobs \in Seq(AnyJob) /\ Calls(m) \in Seq(AnyJob)
      BY <1>2, <1>3, <2>2, BodyJobsType DEF GraphTypes
    <2>5. \A x \in Modules : body'[x] = IF x = m THEN "threw" ELSE body[x]
      BY <1>2, <2>1 DEF GraphTypes
    <2>6. ASSUME NEW x \in Modules
          PROVE  Accounted(J, batch, I, x, body'[x], status'[x] = "Evaluated")
      <3>1. Accounted(jobs, batch, import, x, body[x], status[x] = "Evaluated")
        BY <1>5
      <3>2. Once(Calls(m), x) /\ ~Has(Calls(m), x)
        BY <1>2, <1>3, <1>7, BodyTokens
      <3>3. Once(pending, x) /\ (Has(pending, x) <=> Has(jobs, x))
        <4>1. Once(jobs, x)
          BY <3>1 DEF Accounted
        <4> QED
          BY <2>2, <2>4, <3>2, <4>1, CatTokens
      <3>4. /\ Once(J, x) /\ (Has(J, x) <=> Has(pending, x) \/ WillResume(import, x))
            /\ ~WillResume(I, x)
        <4>1. J = jobs' /\ I = import' /\ (WillResume(import, x) => ~Has(pending, x))
          BY <1>4, <3>1, <3>3 DEF Accounted
        <4> QED
          BY <1>2, <2>3, <2>4, <3>3, <4>1, AnswerTokens
      <3>5. status'[x] = "Evaluated" <=> status[x] = "Evaluated"
        BY <2>3
      <3>6. CASE x = m
        BY <1>3, <1>6, <1>7, <2>5, <3>1, <3>3, <3>4, <3>5, <3>6 DEF Accounted
      <3>7. CASE x # m
        BY <2>5, <3>1, <3>3, <3>4, <3>5, <3>7 DEF Accounted
      <3> QED
        BY <3>6, <3>7
    <2> QED
      BY <1>2, <1>4, <2>6, AccountsNext
  <1>8. CASE source[m].body # "throws"
    <2>1. PICK t : t = Calls(m) \o Awaits(m)
      OBVIOUS
    <2>2. /\ body' = [body EXCEPT ![m] = IF source[m].body = "completes" THEN "completed"
                                         ELSE "suspended"]
          /\ status' = [status EXCEPT ![m] = "Evaluated"]
          /\ jobs' = jobs \o Calls(m) \o Awaits(m) /\ import' = import
      BY <1>1, <1>8 DEF evaluate_body
    <2>3. Calls(m) \in Seq(AnyJob) /\ Awaits(m) \in Seq(AnyJob) /\ jobs \in Seq(AnyJob)
      BY <1>2, <1>3, BodyJobsType DEF GraphTypes
    <2>4. J = jobs \o t
      BY <1>4, <2>1, <2>2, <2>3
    <2>5. source[m].body \in Bodies
      BY <1>2, <1>3, SourceFacts DEF Source
    <2>6. \A x \in Modules :
            /\ body'[x] = IF x = m THEN IF source[m].body = "completes" THEN "completed"
                                        ELSE "suspended"
                          ELSE body[x]
            /\ status'[x] = IF x = m THEN "Evaluated" ELSE status[x]
      BY <1>2, <2>2 DEF GraphTypes
    <2>7. ASSUME NEW x \in Modules
          PROVE  Accounted(J, batch, I, x, body'[x], status'[x] = "Evaluated")
      <3>1. Accounted(jobs, batch, import, x, body[x], status[x] = "Evaluated")
        BY <1>5
      <3>2. /\ t \in Seq(AnyJob) /\ Once(t, x)
            /\ Has(t, x) <=> x = m /\ source[m].body \in {"awaits", "awaitsThenRejects", "awaitsImport"}
        BY <1>2, <1>3, <2>1, BodyTokens
      <3>3. Once(J, x) /\ (Has(J, x) <=> Has(jobs, x) \/ Has(t, x))
        <4>1. Once(jobs, x) /\ ~(Has(jobs, x) /\ Has(t, x))
          BY <1>6, <3>1, <3>2 DEF Accounted
        <4> QED
          BY <2>3, <2>4, <3>2, <4>1, CatTokens
      <3>4. I = import
        BY <1>4, <2>2
      <3>5. CASE x = m
        <4>1. Has(t, x) <=> source[m].body # "completes"
          BY <1>8, <2>5, <3>2, <3>5 DEF Bodies
        <4>2. /\ status'[x] = "Evaluated"
              /\ body'[x] = IF source[m].body = "completes" THEN "completed" ELSE "suspended"
          BY <2>6, <3>5
        <4> QED
          BY <1>6, <3>3, <3>4, <3>5, <4>1, <4>2 DEF Accounted
      <3>6. CASE x # m
        <4>1. ~Has(t, x)
          BY <3>2, <3>6
        <4>2. status'[x] = status[x] /\ body'[x] = body[x]
          BY <2>6, <3>6
        <4> QED
          BY <3>1, <3>3, <3>4, <4>1, <4>2 DEF Accounted
      <3> QED
        BY <3>5, <3>6
    <2> QED
      BY <1>2, <1>4, <2>7, AccountsNext
  <1> QED
    BY <1>7, <1>8

\* The job that resumes a body is gone when it is no longer suspended.
LEMMA ResumeResume ==
  ASSUME BaseInv, ResumeInv, ResumeNested \/ ResumeOuter
  PROVE  ResumeInv'
  <1>1. GraphTypes /\ jobs \in Seq(AnyJob) /\ batch \in Seq(AnyJob)
    BY DEF BaseInv, GraphTypes
  <1>2. ASSUME NEW job, RunResume(job)
        PROVE  /\ \A x : WillResume(job, x) <=> job.by = x
               /\ \A x \in Modules : x # job.by => body'[x] = body[x]
               /\ job.by \in Modules => body'[job.by] \in {"rejected", "completed"}
    BY <1>1, <1>2 DEF RunResume, WillResume, GraphTypes
  <1>3. CASE ResumeNested
    <2>1. jobs # <<>> /\ RunResume(Head(jobs)) /\ jobs' = Tail(jobs)
          /\ UNCHANGED <<source, status, import, batch>>
      BY <1>3 DEF ResumeNested, DrainEnds, graph
    <2>2. PICK job : job = Head(jobs)
      OBVIOUS
    <2>3. /\ \A x : WillResume(job, x) <=> job.by = x
          /\ \A x \in Modules : x # job.by => body'[x] = body[x]
          /\ job.by \in Modules => body'[job.by] \in {"rejected", "completed"}
      BY <1>2, <2>1, <2>2
    <2>4. ASSUME NEW x \in Modules
          PROVE  Accounted(Tail(jobs), batch, import, x, body'[x], status[x] = "Evaluated")
      <3>1. Accounted(jobs, batch, import, x, body[x], status[x] = "Evaluated")
        BY AccountsNow
      <3>2. /\ Once(Tail(jobs), x)
            /\ Has(jobs, x) <=> Has(Tail(jobs), x) \/ WillResume(job, x)
            /\ ~(Has(Tail(jobs), x) /\ WillResume(job, x))
        <4>1. Once(jobs, x)
          BY <3>1 DEF Accounted
        <4> QED
          BY <1>1, <2>1, <2>2, <4>1, TailTokens
      <3>3. CASE job.by = x
        <4>1. WillResume(job, x) /\ body'[x] \in {"rejected", "completed"}
          BY <2>3, <3>3
        <4> QED
          BY <3>1, <3>2, <4>1 DEF Accounted
      <3>4. CASE job.by # x
        <4>1. ~WillResume(job, x) /\ body'[x] = body[x]
          BY <2>3, <3>4
        <4> QED
          BY <3>1, <3>2, <4>1 DEF Accounted
      <3> QED
        BY <3>3, <3>4
    <2> QED
      BY <2>1, <2>4, AccountsNext
  <1>4. CASE ResumeOuter
    <2>1. batch # <<>> /\ RunResume(Head(batch)) /\ batch' = Tail(batch)
          /\ UNCHANGED <<source, status, import, jobs>>
      BY <1>4 DEF ResumeOuter, graph
    <2>2. PICK job : job = Head(batch)
      OBVIOUS
    <2>3. /\ \A x : WillResume(job, x) <=> job.by = x
          /\ \A x \in Modules : x # job.by => body'[x] = body[x]
          /\ job.by \in Modules => body'[job.by] \in {"rejected", "completed"}
      BY <1>2, <2>1, <2>2
    <2>4. ASSUME NEW x \in Modules
          PROVE  Accounted(jobs, Tail(batch), import, x, body'[x], status[x] = "Evaluated")
      <3>1. Accounted(jobs, batch, import, x, body[x], status[x] = "Evaluated")
        BY AccountsNow
      <3>2. /\ Once(Tail(batch), x)
            /\ Has(batch, x) <=> Has(Tail(batch), x) \/ WillResume(job, x)
            /\ ~(Has(Tail(batch), x) /\ WillResume(job, x))
        <4>1. Once(batch, x)
          BY <3>1 DEF Accounted
        <4> QED
          BY <1>1, <2>1, <2>2, <4>1, TailTokens
      <3>3. CASE job.by = x
        <4>1. WillResume(job, x) /\ body'[x] \in {"rejected", "completed"}
          BY <2>3, <3>3
        <4> QED
          BY <3>1, <3>2, <4>1 DEF Accounted
      <3>4. CASE job.by # x
        <4>1. ~WillResume(job, x) /\ body'[x] = body[x]
          BY <2>3, <3>4
        <4> QED
          BY <3>1, <3>2, <4>1 DEF Accounted
      <3> QED
        BY <3>3, <3>4
    <2> QED
      BY <2>1, <2>4, AccountsNext
  <1> QED
    BY <1>3, <1>4

\* The host moves jobs, and makes one of them the import that runs.
LEMMA HostResume ==
  ASSUME BaseInv, ResumeInv,
         RootEvaluated \/ TakeBatch \/ import_dynamic \/ eval_module_ends \/ dynamic_import
  PROVE  ResumeInv'
  <1>1. /\ GraphTypes /\ jobs \in Seq(AnyJob) /\ batch \in Seq(AnyJob)
        /\ phase = "draining" => import = NoImport
    BY DEF BaseInv, GraphTypes, WalkInv
  <1>2. CASE RootEvaluated
    BY <1>2, QuietResume DEF RootEvaluated, graph, queue
  <1>3. CASE TakeBatch
    <2>1. /\ batch = <<>> /\ jobs' = <<>> /\ batch' = jobs
          /\ UNCHANGED <<source, status, import, body>>
      BY <1>3 DEF TakeBatch, graph
    <2>2. ASSUME NEW x \in Modules
          PROVE  Accounted(<<>>, jobs, import, x, body[x], status[x] = "Evaluated")
      <3>1. Accounted(jobs, batch, import, x, body[x], status[x] = "Evaluated")
        BY AccountsNow
      <3>2. Once(<<>>, x) /\ ~Has(<<>>, x)
        BY OneToken
      <3> QED
        BY <2>1, <3>1, <3>2 DEF Accounted
    <2> QED
      BY <2>1, <2>2, AccountsNext
  <1>4. CASE import_dynamic
    <2>1. /\ batch # <<>> /\ import' = Head(batch) /\ batch' = Tail(batch) /\ import = NoImport
          /\ UNCHANGED <<source, status, body, jobs>>
      BY <1>1, <1>4 DEF import_dynamic, graph
    <2>2. PICK job : job = Head(batch)
      OBVIOUS
    <2>3. ASSUME NEW x \in Modules
          PROVE  Accounted(jobs, Tail(batch), job, x, body[x], status[x] = "Evaluated")
      <3>1. Accounted(jobs, batch, import, x, body[x], status[x] = "Evaluated")
        BY AccountsNow
      <3>2. /\ Once(Tail(batch), x)
            /\ Has(batch, x) <=> Has(Tail(batch), x) \/ WillResume(job, x)
            /\ ~(Has(Tail(batch), x) /\ WillResume(job, x))
        <4>1. Once(batch, x)
          BY <3>1 DEF Accounted
        <4> QED
          BY <1>1, <2>1, <2>2, <4>1, TailTokens
      <3>3. ~WillResume(import, x)
        BY <1>1, <2>1, ImportTokens
      <3> QED
        BY <3>1, <3>2, <3>3 DEF Accounted
    <2> QED
      BY <2>1, <2>2, <2>3, AccountsNext
  <1>5. CASE eval_module_ends
    BY <1>5, QuietResume DEF eval_module_ends, graph, queue
  <1>6. CASE dynamic_import
    <2>1. PICK m \in Modules : jobs' = Append(jobs, Import(NoModule, m))
      BY <1>6 DEF dynamic_import
    <2>2. PICK e : e = Import(NoModule, m)
      OBVIOUS
    <2>3. PICK J : J = Append(jobs, e)
      OBVIOUS
    <2>4. e \in AnyJob /\ J = jobs' /\ UNCHANGED <<source, status, body, batch, import>>
      BY <1>6, <2>1, <2>2, <2>3 DEF dynamic_import, graph, Import, AnyJob, ImportJobs
    <2>5. ASSUME NEW x \in Modules
          PROVE  Accounted(J, batch, import, x, body[x], status[x] = "Evaluated")
      <3>1. Accounted(jobs, batch, import, x, body[x], status[x] = "Evaluated")
        BY AccountsNow
      <3>2. ~WillResume(e, x)
        BY <2>2, ModuleAssumption DEF WillResume, Import
      <3>3. Once(J, x) /\ (Has(J, x) <=> Has(jobs, x))
        <4>1. Once(jobs, x)
          BY <3>1 DEF Accounted
        <4> QED
          BY <1>1, <2>3, <2>4, <3>2, <4>1, AppendTokens
      <3> QED
        BY <3>1, <3>3 DEF Accounted
    <2> QED
      BY <2>4, <2>5, AccountsNext
  <1> QED
    BY <1>2, <1>3, <1>4, <1>5, <1>6

\* In every step a suspended body has one job that will resume it.
LEMMA ResumeNext ==
  ASSUME BaseInv, ResumeInv, [Next]_vars
  PROVE  ResumeInv'
  <1>1. CASE Next
    BY <1>1, WalkResume, BodyResume, ResumeResume, HostResume DEF Next, Walk, Drain
  <1>2. CASE UNCHANGED vars
    BY <1>2, QuietResume DEF vars, graph, queue
  <1> QED
    BY <1>1, <1>2

\* At the start no body has run.
LEMMA ResumeInit ==
  ASSUME Init
  PROVE  ResumeInv
  <1>1. \A m \in Modules : Once(jobs, m) /\ ~Has(jobs, m) /\ Once(batch, m) /\ ~Has(batch, m)
    BY OneToken DEF Init
  <1>2. \A m \in Modules : ~WillResume(import, m)
    BY ModuleAssumption DEF Init, WillResume, NoImport, Import
  <1>3. \A m \in Modules : body[m] = "unrun" /\ status[m] = "absent"
    BY DEF Init
  <1> QED
    BY <1>1, <1>2, <1>3 DEF ResumeInv

\* Every suspended body has one job that will resume it: in the queue, in the
\* batch of the host's drain, or the import that runs.
THEOREM SuspendedIsResumedOnce == Spec => []ResumeInv
  <1> QED
    BY BaseInit, BaseNext, ResumeInit, ResumeNext, PTL DEF Spec

-----------------------------------------------------------------------------
(* What the frames of an evaluation have behind them.                      *)

\* The frames, after a step.
LEMMA FramesThen ==
  ASSUME source' = source, NEW s, NEW st, NEW ph, NEW J,
         s = stack', st = status', ph = phase', J = jobs',
         ph \in {"evaluate", "settle"} => FramesOk(s, st) /\ TopOk(s, ph, J)
  PROVE  FramesInv'
  <1>1. FramesOk(s, st) = (FramesOk(stack, status))'
    BY DEF FramesOk, Visited, requests
  <1>2. TopOk(s, ph, J) = (TopOk(stack, phase, jobs))'
    BY DEF TopOk, requests
  <1> QED
    BY <1>1, <1>2 DEF FramesInv

\* Nothing entered is left, as long as the evaluation goes on.
LEMMA StillVisited ==
  ASSUME GraphTypes, NEW f, f.mod \in Modules, NEW st, Visited(f, status),
         \A m \in Modules : status[m] \in Entered => st[m] \in Entered
  PROVE  Visited(f, st)
  <1>1. \A i \in DOMAIN requests(f.mod) : requests(f.mod)[i] \in Modules
    BY SourceFacts
  <1> QED
    BY <1>1 DEF Visited

\* ... on the whole stack.
LEMMA StillFrames ==
  ASSUME GraphTypes, FramesOk(stack, status), NEW st,
         \A m \in Modules : status[m] \in Entered => st[m] \in Entered
  PROVE  FramesOk(stack, st)
  <1>1. \A i \in DOMAIN stack : stack[i].mod \in Modules
    BY ModsType DEF Mods, GraphTypes
  <1> QED
    BY <1>1, StillVisited DEF FramesOk

\* A frame that has just been pushed has nothing behind it.
LEMMA NewFrame ==
  ASSUME GraphTypes, NEW s \in Seq(Frames), NEW m \in Modules, NEW st, NEW ph, NEW J, ph # "settle",
         FramesOk(s, st), s # <<>> => s[1].next <= Len(requests(s[1].mod)) + 1,
         NEW r, r = <<Frame(m, 1)>> \o s
  PROVE  FramesOk(r, st) /\ TopOk(r, ph, J)
  <1>1. PICK f : f = Frame(m, 1)
    OBVIOUS
  <1>2. f \in Frames /\ f.mod = m /\ f.next = 1
    BY <1>1 DEF Frames, Frame
  <1>3. /\ r[1] = f /\ Head(r) = f
        /\ \A i \in DOMAIN r : i \in Nat \ {0}
                              /\ (i # 1 => i - 1 \in DOMAIN s /\ r[i] = s[i - 1])
    BY <1>1, <1>2, ConsFacts
  <1>4. Visited(f, st)
    <2>1. DOMAIN requests(m) = 1 .. Len(requests(m))
      BY SourceFacts
    <2> QED
      BY <1>2, <2>1 DEF Visited
  <1>5. \A i \in DOMAIN s : i = 1 => s # <<>>
    OBVIOUS
  <1>6. \A i \in DOMAIN s : Visited(s[i], st) /\ s[i].next <= Len(requests(s[i].mod)) + 1
    BY <1>5 DEF FramesOk
  <1>7. FramesOk(r, st)
    BY <1>3, <1>4, <1>6 DEF FramesOk
  <1>8. TopOk(r, ph, J)
    <2>1. Len(requests(m)) \in Nat
      BY SourceFacts
    <2> QED
      BY <1>2, <1>3, <2>1 DEF TopOk
  <1> QED
    BY <1>7, <1>8

\* The frame on top has gone past its request, which has been entered.
LEMMA TopAdvances ==
  ASSUME BaseInv, stack # <<>>, NEW rest, rest = <<Frame(Top.mod, Top.next + 1)>> \o Tail(stack),
         FramesOk(stack, status), NEW st,
         \A m \in Modules : status[m] \in Entered => st[m] \in Entered,
         Top.next <= Len(requests(Top.mod)) => st[requests(Top.mod)[Top.next]] \in Entered
  PROVE  /\ FramesOk(rest, st) /\ Head(rest) = rest[1] /\ rest # <<>>
         /\ rest[1].mod = Top.mod /\ rest[1].next = Top.next + 1
  <1>1. GraphTypes /\ stack \in Seq(Frames)
    BY DEF BaseInv, GraphTypes
  <1>2. rest = <<Frame(Head(stack).mod, Head(stack).next + 1)>> \o Tail(stack)
    BY DEF Top
  <1>3. /\ DOMAIN rest = DOMAIN stack /\ Head(rest) = rest[1] /\ rest # <<>>
        /\ rest[1].next = Head(stack).next + 1 /\ rest[1].mod = Head(stack).mod
        /\ \A i \in DOMAIN stack : rest[i].mod = stack[i].mod /\ (i # 1 => rest[i] = stack[i])
    BY <1>1, <1>2, AdvanceFacts
  <1>4. Top = stack[1] /\ 1 \in DOMAIN stack /\ Top.mod \in Modules /\ Top.next \in Nat \ {0}
    BY <1>1, TailFacts, TopFacts DEF Top
  <1>5. FramesOk(stack, st)
    BY <1>1, StillFrames
  <1>6. Visited(rest[1], st)
    <2>1. Visited(Top, st)
      BY <1>4, <1>5 DEF FramesOk
    <2>2. DOMAIN requests(Top.mod) = 1 .. Len(requests(Top.mod)) /\ Len(requests(Top.mod)) \in Nat
      BY <1>1, <1>4, SourceFacts
    <2>3. \A i \in DOMAIN requests(Top.mod) : i < Top.next + 1 => i < Top.next \/ i = Top.next
      BY <1>4, <2>2
    <2>4. rest[1].mod = Top.mod /\ rest[1].next = Top.next + 1
      BY <1>3 DEF Top
    <2>5. \A i \in DOMAIN requests(Top.mod) :
            i < Top.next + 1 => st[requests(Top.mod)[i]] \in Entered
      BY <2>1, <2>2, <2>3 DEF Visited
    <2> QED
      BY <2>4, <2>5 DEF Visited
  <1>7. FramesOk(rest, st)
    BY <1>3, <1>5, <1>6 DEF FramesOk
  <1> QED
    BY <1>3, <1>7 DEF Top

\* evaluate_with_drain(m), from a frame that has just gone on to it.
LEMMA EnterEvaluateFrames ==
  ASSUME BaseInv, NEW m \in Modules, NEW rest \in Seq(Frames), EnterEvaluate(m, rest),
         source' = source,
         \A st : (\A x \in Modules : status[x] \in Entered => st[x] \in Entered) /\ st[m] \in Entered
                   => FramesOk(rest, st),
         rest # <<>> => /\ Head(rest) = rest[1]
                        /\ rest[1].next <= Len(requests(rest[1].mod)) + 1
                        /\ Len(requests(rest[1].mod)) \in Nat /\ rest[1].next \in Nat
  PROVE  FramesInv'
  <1>1. PICK s, st, ph, J : s = stack' /\ st = status' /\ ph = phase' /\ J = jobs'
    OBVIOUS
  <1>2. GraphTypes
    BY DEF BaseInv
  <1>3. CASE status[m] = "absent"
    BY <1>1, <1>3, FramesThen DEF EnterEvaluate
  <1>4. CASE status[m] # "absent" /\ status[m] \in Entered
    <2>1. s = rest /\ st = status /\ ph = "evaluate"
      BY <1>1, <1>4 DEF EnterEvaluate
    <2>2. FramesOk(s, st)
      BY <1>4, <2>1
    <2>3. TopOk(s, ph, J)
      BY <2>1 DEF TopOk
    <2> QED
      BY <1>1, <2>2, <2>3, FramesThen
  <1>5. CASE status[m] # "absent" /\ status[m] \notin Entered
    <2>1. s = <<Frame(m, 1)>> \o rest /\ st = [status EXCEPT ![m] = "Evaluating"] /\ ph = "evaluate"
      BY <1>1, <1>5 DEF EnterEvaluate
    <2>2. \A x \in Modules : status[x] \in Entered => st[x] \in Entered
      BY <1>2, <2>1 DEF GraphTypes, Entered
    <2>3. st[m] \in Entered
      BY <1>2, <2>1 DEF GraphTypes, Entered
    <2>4. FramesOk(rest, st)
      BY <2>2, <2>3
    <2>5. FramesOk(s, st) /\ TopOk(s, ph, J)
      <3>1. ph # "settle" /\ (rest # <<>> => rest[1].next <= Len(requests(rest[1].mod)) + 1)
        BY <2>1
      <3> QED
        BY <1>2, <2>1, <2>4, <3>1, NewFrame
    <2> QED
      BY <1>1, <2>5, FramesThen
  <1> QED
    BY <1>3, <1>4, <1>5

\* A step after which no evaluation is on.
LEMMA NoFrames ==
  ASSUME phase' \notin {"evaluate", "settle"}
  PROVE  FramesInv'
  BY DEF FramesInv

\* A failed walk is over.
LEMMA AnswerFrames ==
  ASSUME NEW how, NEW pending, Answer(how, pending)
  PROVE  FramesInv'
  BY NoFrames DEF Answer

\* What the frames have behind them, in every step.
LEMMA FramesNext ==
  ASSUME BaseInv, FramesInv, [Next]_vars
  PROVE  FramesInv'
  <1>1. GraphTypes /\ stack \in Seq(Frames)
    BY DEF BaseInv, GraphTypes
  <1>2. CASE load
    <2>1. phase' = "load" \/ Answer("throw", jobs)
      BY <1>2 DEF load
    <2> QED
      BY <2>1, NoFrames, AnswerFrames
  <1>3. CASE insert_and_load_dependencies
    <2>1. phase' = "load" \/ Answer("throw", jobs)
      BY <1>3 DEF insert_and_load_dependencies
    <2> QED
      BY <2>1, NoFrames, AnswerFrames
  <1>4. CASE BeginLink \/ LinkDependency
    <2>1. phase' \in {"link", "panicked"}
      BY <1>4 DEF BeginLink, LinkDependency, EnterLink
    <2> QED
      BY <2>1, NoFrames
  <1>5. CASE ValidateImports
    <2>1. phase' = "link" \/ Answer("throw", jobs)
      BY <1>5 DEF ValidateImports
    <2> QED
      BY <2>1, NoFrames, AnswerFrames
  <1>6. CASE BeginEvaluate
    <2>1. PICK k : k = Key
      OBVIOUS
    <2>2. EnterEvaluate(k, <<>>) /\ source' = source
      BY <1>6, <2>1 DEF BeginEvaluate
    <2>3. k \in Modules
      BY <1>6, <2>1, KeyType DEF BeginEvaluate, Walking, BaseInv
    <2>4. \A st : FramesOk(<<>>, st)
      BY DEF FramesOk
    <2> QED
      BY <2>2, <2>3, <2>4, EmptyFacts, EnterEvaluateFrames
  <1>7. CASE EvaluateDependency
    <2>1. PICK rest : rest = <<Frame(Top.mod, Top.next + 1)>> \o Tail(stack)
      OBVIOUS
    <2>2. PICK d : d = requests(Top.mod)[Top.next]
      OBVIOUS
    <2>3. /\ phase = "evaluate" /\ stack # <<>> /\ EnterEvaluate(d, rest)
          /\ source' = source /\ Top.next <= Len(requests(Top.mod))
      BY <1>7, <2>1, <2>2 DEF EvaluateDependency
    <2>4. rest \in Seq(Frames)
      BY <2>1, <2>3, Advanced
    <2>5. d \in Modules /\ Top.mod \in Modules /\ Top.next \in Nat \ {0}
      BY <2>2, <2>3, TopFacts
    <2>6. FramesOk(stack, status)
      BY <2>3 DEF FramesInv
    <2>7. \A st : (\A x \in Modules : status[x] \in Entered => st[x] \in Entered) /\ st[d] \in Entered
                    => FramesOk(rest, st)
      BY <2>1, <2>2, <2>3, <2>6, TopAdvances
    <2>8. Head(rest) = rest[1] /\ rest[1].mod = Top.mod /\ rest[1].next = Top.next + 1
      BY <1>1, <2>1, <2>3, AdvanceFacts DEF Top
    <2>9. Len(requests(Top.mod)) \in Nat
      BY <1>1, <2>5, SourceFacts
    <2>10. /\ rest[1].next <= Len(requests(rest[1].mod)) + 1
           /\ Len(requests(rest[1].mod)) \in Nat /\ rest[1].next \in Nat
      BY <2>3, <2>5, <2>8, <2>9
    <2> QED
      BY <2>3, <2>4, <2>5, <2>7, <2>8, <2>10, EnterEvaluateFrames
  <1>8. CASE BeginSettle
    <2>1. /\ phase = "evaluate" /\ phase' = "settle"
          /\ UNCHANGED <<source, status, stack, jobs>>
          /\ stack # <<>> => Top.next = Len(requests(Top.mod)) + 1 /\ requests(Top.mod) # <<>>
      BY <1>8 DEF BeginSettle, graph, queue
    <2>2. FramesOk(stack, status) /\ TopOk(stack, "evaluate", jobs)
      BY <2>1 DEF FramesInv
    <2>3. TopOk(stack, "settle", jobs)
      <3>1. SUFFICES ASSUME stack # <<>> PROVE TopOk(stack, "settle", jobs)
        BY DEF TopOk
      <3>2. Top.mod \in Modules
        BY <3>1, TopFacts
      <3>3. requests(Top.mod) \in Seq(Modules) /\ Len(requests(Top.mod)) \in Nat
        BY <1>1, <3>2, SourceFacts
      <3>4. Len(requests(Top.mod)) # 0
        BY <2>1, <3>1, <3>3
      <3> QED
        BY <2>1, <3>1, <3>3, <3>4 DEF TopOk, Top
    <2> QED
      BY <2>1, <2>2, <2>3, FramesThen
  <1>9. CASE settle_started_async_dependencies
    <2>1. phase = "settle" /\ DrainEnds /\ source' = source
      BY <1>9 DEF settle_started_async_dependencies
    <2>2. CASE FailEvaluate(jobs) \/ Answer("resolve", jobs)
      BY <2>2, AnswerFrames DEF FailEvaluate
    <2>3. CASE /\ stack # <<>> /\ phase' = "evaluate"
               /\ stack' = <<Frame(Top.mod, Top.next + 1)>> \o Tail(stack)
               /\ UNCHANGED <<status, import, jobs>>
      <3>1. PICK rest : rest = <<Frame(Top.mod, Top.next + 1)>> \o Tail(stack)
        OBVIOUS
      <3>2. FramesOk(stack, status) /\ TopOk(stack, "settle", jobs)
        BY <2>1 DEF FramesInv
      <3>3. Top.next = Len(requests(Top.mod)) + 1 /\ Len(requests(Top.mod)) # 0
        BY <2>3, <3>2 DEF TopOk, Top
      <3>4. Top.mod \in Modules
        BY <2>3, TopFacts
      <3>5. Len(requests(Top.mod)) \in Nat
        BY <1>1, <3>4, SourceFacts
      <3>6. /\ FramesOk(rest, status) /\ Head(rest) = rest[1] /\ rest # <<>>
            /\ rest[1].mod = Top.mod /\ rest[1].next = Top.next + 1
        <4>1. ~(Top.next <= Len(requests(Top.mod)))
          BY <3>3, <3>5
        <4> QED
          BY <2>3, <3>1, <3>2, <4>1, TopAdvances
      <3>7. TopOk(rest, "evaluate", jobs)
        BY <2>1, <3>3, <3>5, <3>6 DEF TopOk, DrainEnds
      <3>8. rest = stack' /\ status = status' /\ phase' = "evaluate" /\ jobs = jobs'
        BY <2>3, <3>1
      <3> QED
        BY <2>1, <3>6, <3>7, <3>8, FramesThen
    <2> QED
      BY <1>9, <2>2, <2>3 DEF settle_started_async_dependencies
  <1>10. CASE evaluate_body
    <2>1. phase = "evaluate" /\ stack # <<>> /\ source' = source
      BY <1>10 DEF evaluate_body, AtBody
    <2>2. PICK m : m = Top.mod
      OBVIOUS
    <2>3. CASE source[m].body = "throws"
      BY <1>10, <2>2, <2>3, AnswerFrames DEF evaluate_body, FailEvaluate
    <2>4. CASE source[m].body # "throws"
      <3>1. PICK s, st, J : s = Tail(stack) /\ st = [status EXCEPT ![m] = "Evaluated"] /\ J = jobs'
        OBVIOUS
      <3>2. s = stack' /\ st = status' /\ phase' = "evaluate"
        BY <1>10, <2>1, <2>2, <2>4, <3>1 DEF evaluate_body
      <3>3. \A x \in Modules : status[x] \in Entered => st[x] \in Entered
        BY <1>1, <3>1 DEF GraphTypes, Entered
      <3>4. FramesOk(stack, st)
        BY <1>1, <2>1, <3>3, StillFrames DEF FramesInv
      <3>5. \A i \in DOMAIN s : i \in Int /\ i + 1 # 1 /\ i + 1 \in DOMAIN stack /\ s[i] = stack[i + 1]
        BY <1>1, <2>1, <3>1, TailFacts
      <3>6. \A i \in DOMAIN s : Visited(s[i], st) /\ s[i].next <= Len(requests(s[i].mod)) + 1
        BY <3>4, <3>5 DEF FramesOk
      <3>7. FramesOk(s, st)
        BY <3>6 DEF FramesOk
      <3>8. TopOk(s, "evaluate", J)
        <4>1. SUFFICES ASSUME s # <<>> PROVE TopOk(s, "evaluate", J)
          BY DEF TopOk
        <4>2. s \in Seq(Frames)
          BY <1>1, <2>1, <3>1, TailFacts
        <4>3. Head(s) = s[1] /\ 1 \in DOMAIN s /\ Head(s) \in Frames
          BY <4>1, <4>2, TailFacts
        <4>4. Head(s).mod \in Modules /\ Head(s).next \in Nat
          BY <4>3 DEF Frames
        <4>5. Len(requests(Head(s).mod)) \in Nat
          BY <1>1, <4>4, SourceFacts
        <4>6. Head(s).next <= Len(requests(Head(s).mod)) + 1
          BY <3>6, <4>3
        <4> QED
          BY <4>4, <4>5, <4>6 DEF TopOk
      <3> QED
        BY <2>1, <3>1, <3>2, <3>7, <3>8, FramesThen
    <2> QED
      BY <2>3, <2>4
  <1>11. CASE ResumeNested
    <2>1. phase = "settle" /\ UNCHANGED <<source, status, phase, stack>>
      BY <1>11 DEF ResumeNested, graph
    <2>2. PICK J : J = jobs'
      OBVIOUS
    <2>3. FramesOk(stack, status) /\ TopOk(stack, "settle", jobs)
      BY <2>1 DEF FramesInv
    <2>4. TopOk(stack, "settle", J)
      <3>1. SUFFICES ASSUME stack # <<>> PROVE TopOk(stack, "settle", J)
        BY DEF TopOk
      <3>2. Top.mod \in Modules
        BY <3>1, TopFacts
      <3>3. Len(requests(Top.mod)) \in Nat
        BY <1>1, <3>2, SourceFacts
      <3> QED
        BY <2>3, <3>1, <3>3 DEF TopOk, Top
    <2> QED
      BY <2>1, <2>2, <2>3, <2>4, FramesThen
  <1>12. CASE Drain \/ dynamic_import
    <2>1. phase' \notin {"evaluate", "settle"}
      BY <1>12 DEF Drain, RootEvaluated, ResumeOuter, TakeBatch, import_dynamic,
                   eval_module_ends, dynamic_import
    <2> QED
      BY <2>1, NoFrames
  <1>13. CASE UNCHANGED vars
    BY <1>13, FramesThen DEF vars, graph, queue, FramesInv
  <1> QED
    BY <1>2, <1>3, <1>4, <1>5, <1>6, <1>7, <1>8, <1>9, <1>10, <1>11, <1>12, <1>13 DEF Next, Walk

\* The walks, the jobs of the suspended bodies, and what the frames have
\* behind them.
RunInv == BaseInv /\ ResumeInv /\ FramesInv

LEMMA RunInvariant == Spec => []RunInv
  <1>1. Init => RunInv
    BY BaseInit, ResumeInit DEF Init, RunInv, FramesInv
  <1>2. RunInv /\ [Next]_vars => RunInv'
    BY BaseNext, ResumeNext, FramesNext DEF RunInv
  <1> QED
    BY <1>1, <1>2, PTL DEF Spec

\* Where a body is about to run, the drain before it has ended.
LEMMA AtBodyFacts ==
  ASSUME RunInv, AtBody
  PROVE  /\ Top.mod \in Modules /\ status[Top.mod] = "Evaluating"
         /\ requests(Top.mod) # <<>> => DrainEnds
         /\ \A i \in DOMAIN requests(Top.mod) : status[requests(Top.mod)[i]] \in Entered
  <1>1. phase = "evaluate" /\ stack # <<>> /\ BaseInv /\ GraphTypes /\ stack \in Seq(Frames)
    BY DEF AtBody, RunInv, BaseInv, GraphTypes
  <1>2. Top.mod \in Modules /\ Top.mod \in Mods(stack)
    BY <1>1, TopFacts
  <1>3. status[Top.mod] = "Evaluating"
    BY <1>1, <1>2 DEF BaseInv, StackInv
  <1>4. FramesOk(stack, status) /\ TopOk(stack, "evaluate", jobs)
    BY <1>1 DEF RunInv, FramesInv
  <1>5. Len(requests(Top.mod)) \in Nat /\ DOMAIN requests(Top.mod) = 1 .. Len(requests(Top.mod))
    BY <1>1, <1>2, SourceFacts
  <1>6. requests(Top.mod) # <<>> => DrainEnds
    BY <1>1, <1>4, <1>5 DEF AtBody, TopOk, Top, DrainEnds
  <1>7. Visited(Top, status)
    BY <1>1, <1>4, TailFacts DEF FramesOk, Top
  <1>8. \A i \in DOMAIN requests(Top.mod) : status[requests(Top.mod)[i]] \in Entered
    <2>1. CASE requests(Top.mod) = <<>>
      BY <2>1
    <2>2. CASE requests(Top.mod) # <<>>
      <3>1. Top.next = Len(requests(Top.mod)) + 2
        BY <2>2 DEF AtBody
      <3> QED
        BY <1>5, <1>7, <3>1 DEF Visited
    <2> QED
      BY <2>1, <2>2
  <1> QED
    BY <1>2, <1>3, <1>6, <1>8

\* Post-order, and once: what a body requests has run before it or is on the
\* stack, and a body that has run does not run again (BodyIsReady).
THEOREM BodiesRunInOrder == Spec => []BodyIsReady
  <1>1. ASSUME RunInv PROVE BodyIsReady
    <2>1. SUFFICES ASSUME AtBody PROVE BodyIsReady
      BY DEF BodyIsReady
    <2>2. /\ Top.mod \in Modules /\ status[Top.mod] = "Evaluating"
          /\ \A i \in DOMAIN requests(Top.mod) : status[requests(Top.mod)[i]] \in Entered
      BY <1>1, <2>1, AtBodyFacts
    <2>3. body[Top.mod] \in {"unrun", "threw"}
      BY <1>1, <2>2 DEF RunInv, ResumeInv
    <2>4. \A i \in DOMAIN requests(Top.mod) : requests(Top.mod)[i] \in Modules
      BY <1>1, <2>2, SourceFacts DEF RunInv, BaseInv
    <2>5. \A d \in Modules : status[d] = "Evaluating" => d \in OnStack
      BY <1>1, <2>1 DEF RunInv, BaseInv, StackInv, AtBody, OnStack, Mods
    <2> QED
      BY <2>2, <2>3, <2>4, <2>5 DEF BodyIsReady, Entered
  <1> QED
    BY <1>1, RunInvariant, PTL

\* A body runs before the plain awaits of its requests have settled only for
\* an import job in front of them or around the walk (SettledUnlessImport).
THEOREM AwaitsSettleFirst == Spec => []SettledUnlessImport
  <1>1. ASSUME RunInv PROVE SettledUnlessImport
    <2>1. SUFFICES ASSUME AtBody, NEW d \in Modules, Unsettled(d)
                   PROVE  \/ jobs # <<>> /\ Head(jobs).type = "import"
                          \/ \E i \in DOMAIN batch : batch[i].type = "resume" /\ batch[i].by = d
      BY DEF SettledUnlessImport
    <2>2. requests(Top.mod) # <<>> /\ Plain(d) /\ body[d] = "suspended"
      <3>1. DOMAIN <<>> = {}
        OBVIOUS
      <3> QED
        BY <2>1, <3>1 DEF Unsettled
    <2>3. DrainEnds
      BY <1>1, <2>1, <2>2, AtBodyFacts
    <2>4. \A job : WillResume(job, d) => job.type = "resume" /\ job.by = d
      BY <2>2 DEF WillResume, Plain
    <2>5. ~WillResume(import, d)
      BY <1>1, <2>4, ImportTokens DEF RunInv, BaseInv, ImportJobs
    <2>6. Has(jobs, d) \/ Has(batch, d)
      BY <1>1, <2>2, <2>5 DEF RunInv, ResumeInv
    <2>7. CASE Has(batch, d)
      BY <2>4, <2>7 DEF Has
    <2>8. CASE Has(jobs, d)
      <3>1. jobs # <<>>
        BY <2>8, OneToken DEF Has
      <3> QED
        BY <2>3, <3>1 DEF DrainEnds
    <2> QED
      BY <2>6, <2>7, <2>8
  <1> QED
    BY <1>1, RunInvariant, PTL

-----------------------------------------------------------------------------
(* What a module reaches.                                                  *)

\* A module reaches itself, what a module it reaches requests, and what a
\* module it reaches reaches.
LEMMA ReachableFacts ==
  /\ \A m \in Modules : m \in Reachable(m)
  /\ \A m, n : n \in Reachable(m) =>
       \A i \in DOMAIN requests(n) : requests(n)[i] \in Modules => requests(n)[i] \in Reachable(m)
  /\ \A m, n, k : n \in Reachable(m) /\ k \in Reachable(n) => k \in Reachable(m)
  /\ \A m : Reachable(m) \subseteq Modules
  <1>1. \A m \in Modules : m \in Reachable(m)
    BY DEF Reachable
  <1>2. ASSUME NEW m, NEW n \in Reachable(m), NEW i \in DOMAIN requests(n),
               requests(n)[i] \in Modules
        PROVE  requests(n)[i] \in Reachable(m)
    BY <1>2 DEF Reachable
  <1>3. ASSUME NEW m, NEW n \in Reachable(m), NEW k \in Reachable(n)
        PROVE  k \in Reachable(m)
    BY DEF Reachable
  <1>4. \A m : Reachable(m) \subseteq Modules
    BY DEF Reachable
  <1> QED
    BY <1>1, <1>2, <1>3, <1>4

\* What is closed under requests holds all that its members reach.
LEMMA ReachableClosed ==
  ASSUME NEW S \in SUBSET Modules, \A k \in S : \A i \in DOMAIN requests(k) : requests(k)[i] \in S,
         NEW m \in S
  PROVE  Reachable(m) \subseteq S
  BY DEF Reachable

\* The sources do not change.
LEMMA ReachableStays ==
  ASSUME source' = source
  PROVE  \A m : (Reachable(m))' = Reachable(m)
  BY DEF Reachable, requests

\* The stack and the first module of the walk, after a step.
LEMMA PathThen ==
  ASSUME source' = source, root' = root, NEW s, NEW se, NEW k, NEW ph,
         s = stack', se = static_evaluation', k = Key', ph = phase',
         Path(s), se \subseteq Reachable(root),
         ph \in Walking => Mods(s) \subseteq Reachable(k)
  PROVE  PathInv'
  <1>1. \A m : (Reachable(m))' = Reachable(m)
    BY ReachableStays
  <1>2. Path(stack)'
    BY <1>1 DEF Path
  <1>3. (Mods(stack))' = Mods(s)
    BY DEF Mods
  <1>4. (static_evaluation \subseteq Reachable(root))'
    BY <1>1
  <1>5. ph \in Walking => Mods(s) \subseteq (Reachable(Key))'
    BY <1>1
  <1> QED
    BY <1>2, <1>3, <1>4, <1>5 DEF PathInv

\* What Evaluated modules request, after a step.
LEMMA EvaluatedThen ==
  ASSUME source' = source, NEW st, NEW b, NEW ph, st = status', b = body', ph = phase',
         ph # "panicked" =>
           \A m \in Modules : st[m] = "Evaluated" => Followed(m, st) \/ Spoiled(m, b)
  PROVE  EvaluatedInv'
  <1>1. \A m : (Reachable(m))' = Reachable(m)
    BY ReachableStays
  <1>2. \A m : (Followed(m, status))' = Followed(m, st)
    BY DEF Followed, requests
  <1>3. \A m : (Spoiled(m, body))' = Spoiled(m, b)
    BY <1>1 DEF Spoiled
  <1> QED
    BY <1>2, <1>3 DEF EvaluatedInv

\* Why an evaluation of the root failed, after a step.
LEMMA FailedThen ==
  ASSUME source' = source, root' = root, NEW b, b = body',
         phase' = "failed" =>
           \E m \in Reachable(root) :
             ~source[m].loads \/ ~source[m].resolves \/ b[m] \in {"threw", "rejected"}
  PROVE  StaticFailsForItself'
  <1>1. \A m : (Reachable(m))' = Reachable(m)
    BY ReachableStays
  <1> QED
    BY <1>1 DEF StaticFailsForItself

\* The frame on top: what it requests, everything below it reaches.
LEMMA TopReach ==
  ASSUME BaseInv, PathInv, stack # <<>>, phase \in Walking
  PROVE  /\ Top.mod \in Reachable(Key) /\ Path(Tail(stack))
         /\ Mods(Tail(stack)) \subseteq Reachable(Key)
         /\ \A m \in Mods(stack) : Top.mod \in Reachable(m)
         /\ Top.next <= Len(requests(Top.mod)) =>
              LET d == requests(Top.mod)[Top.next]
              IN  d \in Reachable(Key) /\ \A m \in {d} \cup Mods(stack) : d \in Reachable(m)
  <1>1. /\ Top.mod \in Modules /\ Top.next \in Nat \ {0} /\ Top.mod \in Mods(stack)
        /\ Mods(stack) = {Top.mod} \cup Mods(Tail(stack))
        /\ Top.next <= Len(requests(Top.mod)) => requests(Top.mod)[Top.next] \in Modules
    BY TopFacts
  <1>2. stack \in Seq(Frames) /\ Path(stack) /\ Mods(stack) \subseteq Reachable(Key)
    BY DEF BaseInv, GraphTypes, PathInv
  <1>3. Path(Tail(stack)) /\ \A m \in Mods(stack) : Head(stack).mod \in Reachable(m)
    BY <1>2, PopFacts
  <1>4. DOMAIN requests(Top.mod) = 1 .. Len(requests(Top.mod)) /\ Len(requests(Top.mod)) \in Nat
    BY <1>1, SourceFacts DEF BaseInv
  <1>5. ASSUME NEW d, d = requests(Top.mod)[Top.next], Top.next <= Len(requests(Top.mod))
        PROVE  d \in Reachable(Key) /\ \A m \in {d} \cup Mods(stack) : d \in Reachable(m)
    <2>1. Top.next \in DOMAIN requests(Top.mod) /\ d \in Modules
      BY <1>1, <1>4, <1>5
    <2>2. \A m : Top.mod \in Reachable(m) => d \in Reachable(m)
      BY <1>5, <2>1, ReachableFacts
    <2>3. d \in Reachable(d)
      BY <2>1, ReachableFacts
    <2> QED
      BY <1>1, <1>2, <1>3, <2>2, <2>3 DEF Top
  <1> QED
    BY <1>1, <1>2, <1>3, <1>5 DEF Top

\* A module is pushed on a stack that reaches it.
LEMMA PushedPath ==
  ASSUME source' = source, root' = root, NEW rest \in Seq(Frames), NEW m \in Modules,
         stack' = <<Frame(m, 1)>> \o rest, Path(rest),
         NEW k, k = Key', m \in Reachable(k), Mods(rest) \subseteq Reachable(k),
         \A x \in Mods(rest) : m \in Reachable(x), static_evaluation' \subseteq Reachable(root)
  PROVE  PathInv'
  <1>1. PICK s, se, ph : s = stack' /\ se = static_evaluation' /\ ph = phase'
    OBVIOUS
  <1>2. s = <<Frame(m, 1)>> \o rest
    BY <1>1
  <1>3. Mods(s) = {m} \cup Mods(rest)
    BY <1>2, PushFacts
  <1>4. m \in Reachable(m) /\ \A x \in Mods(rest) : m \in Reachable(x)
    BY ReachableFacts
  <1>5. Path(s)
    BY <1>2, <1>4, PushPath
  <1>6. Mods(s) \subseteq Reachable(k)
    BY <1>3
  <1> QED
    BY <1>1, <1>5, <1>6, PathThen

\* ... or the stack keeps modules that it had.
LEMMA KeptPath ==
  ASSUME source' = source, root' = root, NEW s, s = stack', Path(s),
         NEW k, k = Key', phase' \in Walking => Mods(s) \subseteq Reachable(k),
         static_evaluation' \subseteq Reachable(root)
  PROVE  PathInv'
  <1>1. PICK se, ph : se = static_evaluation' /\ ph = phase'
    OBVIOUS
  <1> QED
    BY <1>1, PathThen

\* ... or it is empty.
LEMMA NoPath ==
  ASSUME source' = source, root' = root, stack' = <<>>,
         static_evaluation' \subseteq Reachable(root)
  PROVE  PathInv'
  <1>1. PICK s, k : s = <<>> /\ k = Key'
    OBVIOUS
  <1>2. Path(s) /\ Mods(s) = {}
    BY <1>1, EmptyFacts
  <1> QED
    BY <1>1, <1>2, KeptPath

\* Loading and linking.
LEMMA EarlyPath ==
  ASSUME BaseInv, PathInv,
         \/ load \/ insert_and_load_dependencies \/ BeginLink \/ LinkDependency
         \/ ValidateImports
  PROVE  PathInv'
  <1>1. /\ source' = source /\ root' = root /\ static_evaluation' = static_evaluation
        /\ static_evaluation' \subseteq Reachable(root)
    BY DEF load, insert_and_load_dependencies, BeginLink, LinkDependency, ValidateImports, PathInv
  <1>2. phase \in Walking /\ stack \in Seq(Frames) /\ GraphTypes /\ WalkInv
    BY DEF load, insert_and_load_dependencies, BeginLink, LinkDependency, ValidateImports,
           Walking, BaseInv, GraphTypes
  <1>3. PICK k : k = Key
    OBVIOUS
  <1>4. k \in Modules /\ k \in Reachable(k) /\ Path(stack) /\ Mods(stack) \subseteq Reachable(k)
    BY <1>2, <1>3, KeyType, ReachableFacts DEF PathInv
  <1>5. import' = import => k = Key'
    BY <1>1, <1>3 DEF Key
  <1>6. PICK rest : rest = <<Frame(Top.mod, Top.next + 1)>> \o Tail(stack)
    OBVIOUS
  <1>7. PICK d : d = requests(Top.mod)[Top.next]
    OBVIOUS
  <1>8. stack # <<>> => rest \in Seq(Frames) /\ Mods(rest) = Mods(stack)
    BY <1>6, Advanced DEF BaseInv
  <1>9. stack # <<>> => Path(rest)
    BY <1>2, <1>4, <1>6, AdvanceFacts DEF Top
  <1>10. stack # <<>> /\ Top.next <= Len(requests(Top.mod)) =>
           d \in Modules /\ d \in Reachable(k) /\ \A m \in Mods(rest) : d \in Reachable(m)
    BY <1>2, <1>3, <1>7, <1>8, TopFacts, TopReach
  <1>11. CASE load
    <2>1. CASE stack' = stack
      BY <1>1, <1>11, <2>1, NoPath DEF load
    <2>2. CASE stack' = <<Frame(Key, 1)>> /\ import' = import
      <3>1. stack' = <<Frame(k, 1)>> \o <<>>
        BY <1>3, <2>2
      <3> QED
        BY <1>1, <1>4, <1>5, <2>2, <3>1, EmptyFacts, PushedPath
    <2> QED
      BY <1>11, <2>1, <2>2 DEF load
  <1>12. CASE insert_and_load_dependencies
    <2>1. stack # <<>> /\ Top.next \in Nat /\ Top.mod \in Modules
      BY <1>12, TopFacts DEF insert_and_load_dependencies
    <2>2. Len(requests(Top.mod)) \in Nat
      BY <1>2, <2>1, SourceFacts
    <2>3. CASE stack' = Tail(stack) /\ import' = import
      <3>1. Path(Tail(stack)) /\ Mods(Tail(stack)) \subseteq Reachable(k)
        BY <1>2, <1>3, <2>1, TopReach
      <3> QED
        BY <1>1, <1>5, <2>3, <3>1, KeptPath
    <2>4. CASE stack' = rest /\ import' = import
      BY <1>1, <1>4, <1>5, <1>8, <1>9, <2>1, <2>4, KeptPath
    <2>5. CASE stack' = <<Frame(d, 1)>> \o rest /\ import' = import /\ Top.next <= Len(requests(Top.mod))
      BY <1>1, <1>4, <1>5, <1>8, <1>9, <1>10, <2>1, <2>5, PushedPath
    <2>6. CASE stack' = <<>>
      BY <1>1, <2>6, NoPath
    <2> QED
      BY <1>6, <1>7, <1>12, <2>1, <2>2, <2>3, <2>4, <2>5, <2>6 DEF insert_and_load_dependencies
  <1>13. CASE BeginLink
    <2>1. stack = <<>> /\ import' = import /\ EnterLink(k, <<>>)
      BY <1>3, <1>13 DEF BeginLink
    <2>2. CASE stack' = <<>>
      BY <1>1, <2>2, NoPath
    <2>3. CASE stack' = <<Frame(k, 1)>> \o <<>>
      BY <1>1, <1>4, <1>5, <2>1, <2>3, EmptyFacts, PushedPath
    <2> QED
      BY <2>1, <2>2, <2>3 DEF EnterLink
  <1>14. CASE LinkDependency
    <2>1. /\ stack # <<>> /\ import' = import /\ EnterLink(d, rest)
          /\ Top.next <= Len(requests(Top.mod))
      BY <1>6, <1>7, <1>14 DEF LinkDependency
    <2>2. CASE stack' = rest
      BY <1>1, <1>4, <1>5, <1>8, <1>9, <2>1, <2>2, KeptPath
    <2>3. CASE stack' = <<Frame(d, 1)>> \o rest
      BY <1>1, <1>4, <1>5, <1>8, <1>9, <1>10, <2>1, <2>3, PushedPath
    <2> QED
      BY <2>1, <2>2, <2>3 DEF EnterLink
  <1>15. CASE ValidateImports
    <2>1. CASE stack' = Tail(stack) /\ import' = import
      <3>1. Path(Tail(stack)) /\ Mods(Tail(stack)) \subseteq Reachable(k)
        BY <1>2, <1>3, <1>15, TopReach DEF ValidateImports
      <3> QED
        BY <1>1, <1>5, <2>1, <3>1, KeptPath
    <2>2. CASE stack' = <<>>
      BY <1>1, <2>2, NoPath
    <2> QED
      BY <1>15, <2>1, <2>2 DEF ValidateImports
  <1> QED
    BY <1>11, <1>12, <1>13, <1>14, <1>15

\* Evaluating.
LEMMA EvaluatePath ==
  ASSUME BaseInv, PathInv,
         \/ BeginEvaluate \/ EvaluateDependency \/ BeginSettle \/ ResumeNested
         \/ settle_started_async_dependencies \/ evaluate_body
  PROVE  PathInv'
  <1>1. source' = source /\ root' = root
    BY DEF BeginEvaluate, EvaluateDependency, BeginSettle, ResumeNested,
           settle_started_async_dependencies, evaluate_body
  <1>2. phase \in Walking /\ stack \in Seq(Frames) /\ GraphTypes /\ WalkInv
    BY DEF BeginEvaluate, EvaluateDependency, BeginSettle, ResumeNested,
           settle_started_async_dependencies, evaluate_body, AtBody, Walking, BaseInv, GraphTypes
  <1>3. PICK k : k = Key
    OBVIOUS
  <1>4. k \in Modules /\ k \in Reachable(k) /\ Path(stack) /\ Mods(stack) \subseteq Reachable(k)
    BY <1>2, <1>3, KeyType, ReachableFacts DEF PathInv
  <1>5. import' = import => k = Key'
    BY <1>1, <1>3 DEF Key
  <1>6. PICK rest : rest = <<Frame(Top.mod, Top.next + 1)>> \o Tail(stack)
    OBVIOUS
  <1>7. PICK d : d = requests(Top.mod)[Top.next]
    OBVIOUS
  <1>8. stack # <<>> => rest \in Seq(Frames) /\ Mods(rest) = Mods(stack)
    BY <1>6, Advanced DEF BaseInv
  <1>9. stack # <<>> => Path(rest)
    BY <1>2, <1>4, <1>6, AdvanceFacts DEF Top
  <1>10. stack # <<>> /\ Top.next <= Len(requests(Top.mod)) =>
           d \in Modules /\ d \in Reachable(k) /\ \A m \in Mods(rest) : d \in Reachable(m)
    BY <1>2, <1>3, <1>7, <1>8, TopFacts, TopReach
  <1>11. ASSUME NEW m \in Reachable(k), NEW rs, EnterEvaluate(m, rs)
         PROVE  static_evaluation' \subseteq Reachable(root)
    <2>1. Marked(m) \subseteq Reachable(root)
      BY <1>3, <1>11 DEF Marked, Key
    <2>2. \/ static_evaluation' = static_evaluation
          \/ static_evaluation' = static_evaluation \cup Marked(m)
      BY <1>11 DEF EnterEvaluate, graph
    <2> QED
      BY <2>1, <2>2 DEF PathInv
  <1>12. CASE BeginEvaluate
    <2>1. stack = <<>> /\ import' = import /\ EnterEvaluate(k, <<>>)
      BY <1>3, <1>12 DEF BeginEvaluate
    <2>2. static_evaluation' \subseteq Reachable(root)
      BY <1>4, <1>11, <2>1
    <2>3. CASE stack' = <<>>
      BY <1>1, <2>2, <2>3, NoPath
    <2>4. CASE stack' = <<Frame(k, 1)>> \o <<>>
      BY <1>1, <1>4, <1>5, <2>1, <2>2, <2>4, EmptyFacts, PushedPath
    <2> QED
      BY <2>1, <2>3, <2>4 DEF EnterEvaluate
  <1>13. CASE EvaluateDependency
    <2>1. /\ stack # <<>> /\ import' = import /\ EnterEvaluate(d, rest)
          /\ Top.next <= Len(requests(Top.mod))
      BY <1>6, <1>7, <1>13 DEF EvaluateDependency
    <2>2. static_evaluation' \subseteq Reachable(root)
      BY <1>10, <1>11, <2>1
    <2>3. CASE stack' = rest
      BY <1>1, <1>4, <1>5, <1>8, <1>9, <2>1, <2>2, <2>3, KeptPath
    <2>4. CASE stack' = <<Frame(d, 1)>> \o rest
      BY <1>1, <1>4, <1>5, <1>8, <1>9, <1>10, <2>1, <2>2, <2>4, PushedPath
    <2> QED
      BY <2>1, <2>3, <2>4 DEF EnterEvaluate
  <1>14. CASE BeginSettle \/ ResumeNested
    <2>1. stack' = stack /\ import' = import /\ static_evaluation' = static_evaluation
      BY <1>14 DEF BeginSettle, ResumeNested, graph
    <2>2. static_evaluation' \subseteq Reachable(root)
      BY <2>1 DEF PathInv
    <2> QED
      BY <1>1, <1>4, <1>5, <2>1, <2>2, KeptPath
  <1>15. CASE settle_started_async_dependencies
    <2>1. static_evaluation' \subseteq Reachable(root) /\ phase = "settle"
      BY <1>15 DEF settle_started_async_dependencies, PathInv
    <2>2. CASE stack' = <<>>
      BY <1>1, <2>1, <2>2, NoPath
    <2>3. CASE stack # <<>> /\ stack' = rest /\ import' = import
      BY <1>1, <1>4, <1>5, <1>8, <1>9, <2>1, <2>3, KeptPath
    <2>4. (stack = <<>> /\ stack' = stack) => stack' = <<>>
      OBVIOUS
    <2> QED
      BY <1>6, <1>15, <2>2, <2>3, <2>4 DEF settle_started_async_dependencies, FailEvaluate
  <1>16. CASE evaluate_body
    <2>1. static_evaluation' \subseteq Reachable(root) /\ stack # <<>>
      BY <1>16 DEF evaluate_body, AtBody, PathInv
    <2>2. CASE stack' = <<>>
      BY <1>1, <2>1, <2>2, NoPath
    <2>3. CASE stack' = Tail(stack) /\ import' = import
      <3>1. Path(Tail(stack)) /\ Mods(Tail(stack)) \subseteq Reachable(k)
        BY <1>2, <1>3, <2>1, TopReach
      <3> QED
        BY <1>1, <1>5, <2>1, <2>3, <3>1, KeptPath
    <2> QED
      BY <1>16, <2>2, <2>3 DEF evaluate_body, FailEvaluate
  <1> QED
    BY <1>12, <1>13, <1>14, <1>15, <1>16

\* Every step.
LEMMA PathNext ==
  ASSUME BaseInv, PathInv, [Next]_vars
  PROVE  PathInv'
  <1>1. CASE \/ load \/ insert_and_load_dependencies \/ BeginLink \/ LinkDependency
             \/ ValidateImports
    BY <1>1, EarlyPath
  <1>2. CASE \/ BeginEvaluate \/ EvaluateDependency \/ BeginSettle \/ ResumeNested
             \/ settle_started_async_dependencies \/ evaluate_body
    BY <1>2, EvaluatePath
  <1>3. CASE Drain \/ dynamic_import
    <2>1. /\ stack' = stack /\ stack = <<>> /\ source' = source /\ root' = root
          /\ static_evaluation' = static_evaluation
      BY <1>3 DEF Drain, RootEvaluated, ResumeOuter, TakeBatch, import_dynamic,
                  eval_module_ends, dynamic_import, graph, BaseInv, WalkInv
    <2> QED
      BY <2>1, NoPath DEF PathInv
  <1>4. CASE UNCHANGED vars
    <2>1. /\ stack' = stack /\ source' = source /\ root' = root /\ import' = import
          /\ static_evaluation' = static_evaluation /\ phase' = phase
      BY <1>4 DEF vars, graph
    <2>2. PICK k : k = Key
      OBVIOUS
    <2>3. k = Key'
      BY <2>1, <2>2 DEF Key
    <2>4. Path(stack) /\ (phase' \in Walking => Mods(stack) \subseteq Reachable(k))
      BY <2>1, <2>2 DEF PathInv
    <2>5. static_evaluation' \subseteq Reachable(root)
      BY <2>1 DEF PathInv
    <2> QED
      BY <2>1, <2>3, <2>4, <2>5, KeptPath
  <1> QED
    BY <1>1, <1>2, <1>3, <1>4 DEF Next, Walk

\* The first module of an evaluation, in every step.
LEMMA KeyNext ==
  ASSUME BaseInv, KeyInv, [Next]_vars
  PROVE  KeyInv'
  <1>1. GraphTypes /\ stack \in Seq(Frames)
    BY DEF BaseInv, GraphTypes
  <1>2. PICK s, st, k, ph : s = stack' /\ st = status' /\ k = Key' /\ ph = phase'
    OBVIOUS
  <1>3. ASSUME ph \in {"evaluate", "settle"} => k \in Mods(s) \/ st[k] = "Evaluated"
        PROVE  KeyInv'
    <2>1. (Mods(stack))' = Mods(s)
      BY <1>2 DEF Mods
    <2> QED
      BY <1>2, <1>3, <2>1 DEF KeyInv
  <1>4. root' = root /\ import' = import => k = Key
    BY <1>2 DEF Key
  <1>5. CASE ph \notin {"evaluate", "settle"}
    BY <1>3, <1>5
  <1>6. CASE BeginEvaluate
    <2>1. /\ phase = "link" /\ EnterEvaluate(k, <<>>) /\ k \in Modules
      BY <1>4, <1>6, KeyType DEF BeginEvaluate, Walking, BaseInv
    <2>2. CASE status[k] \in Entered /\ st = status
      <3>1. status[k] # "Evaluating"
        BY <2>1 DEF BaseInv, StackInv
      <3> QED
        BY <1>3, <2>2, <3>1 DEF Entered
    <2>3. CASE s = <<Frame(k, 1)>> \o <<>>
      <3>1. Mods(s) = {k} \cup Mods(<<>>)
        BY <2>1, <2>3, EmptyFacts, PushFacts
      <3> QED
        BY <1>3, <3>1
    <2> QED
      BY <1>2, <1>5, <2>1, <2>2, <2>3 DEF EnterEvaluate
  <1>7. CASE EvaluateDependency
    <2>1. PICK rest : rest = <<Frame(Top.mod, Top.next + 1)>> \o Tail(stack)
      OBVIOUS
    <2>2. PICK d : d = requests(Top.mod)[Top.next]
      OBVIOUS
    <2>3. /\ phase = "evaluate" /\ stack # <<>> /\ EnterEvaluate(d, rest) /\ k = Key
          /\ Top.next <= Len(requests(Top.mod))
      BY <1>4, <1>7, <2>1, <2>2 DEF EvaluateDependency
    <2>4. rest \in Seq(Frames) /\ Mods(rest) = Mods(stack)
      BY <2>1, <2>3, Advanced
    <2>5. d \in Modules
      BY <2>2, <2>3, TopFacts
    <2>6. k \in Mods(rest) \/ status[k] = "Evaluated"
      BY <2>3, <2>4 DEF KeyInv
    <2>7. CASE s = rest /\ st = status
      BY <1>3, <2>6, <2>7
    <2>8. CASE s = <<Frame(d, 1)>> \o rest /\ st = [status EXCEPT ![d] = "Evaluating"]
               /\ status[d] \notin Entered
      <3>1. Mods(s) = {d} \cup Mods(rest)
        BY <2>4, <2>5, <2>8, PushFacts
      <3>2. status[k] = "Evaluated" => st[k] = "Evaluated"
        BY <1>1, <2>8 DEF GraphTypes, Entered
      <3> QED
        BY <1>3, <2>6, <3>1, <3>2
    <2> QED
      BY <1>2, <1>5, <2>3, <2>7, <2>8 DEF EnterEvaluate
  <1>8. CASE BeginSettle \/ ResumeNested \/ UNCHANGED vars
    <2>1. s = stack /\ st = status /\ k = Key /\ (ph \in {"evaluate", "settle"} => phase \in {"evaluate", "settle"})
      BY <1>2, <1>4, <1>8 DEF BeginSettle, ResumeNested, vars, graph
    <2> QED
      BY <1>3, <2>1 DEF KeyInv
  <1>9. CASE settle_started_async_dependencies
    <2>1. CASE ph \in {"failed", "draining"}
      BY <1>5, <2>1
    <2>2. CASE /\ stack # <<>> /\ stack' = <<Frame(Top.mod, Top.next + 1)>> \o Tail(stack)
               /\ UNCHANGED <<status, import, root>>
      <3>1. Mods(s) = Mods(stack)
        BY <1>2, <2>2, Advanced
      <3>2. phase = "settle" /\ k = Key /\ st = status
        BY <1>2, <1>4, <1>9, <2>2 DEF settle_started_async_dependencies
      <3> QED
        BY <1>3, <3>1, <3>2 DEF KeyInv
    <2> QED
      BY <1>2, <1>9, <2>1, <2>2 DEF settle_started_async_dependencies, FailEvaluate, Answer
  <1>10. CASE evaluate_body
    <2>1. phase = "evaluate" /\ stack # <<>> /\ root' = root
      BY <1>10 DEF evaluate_body, AtBody
    <2>2. CASE ph \in {"failed", "draining"}
      BY <1>5, <2>2
    <2>3. CASE /\ stack' = Tail(stack) /\ import' = import
               /\ status' = [status EXCEPT ![Top.mod] = "Evaluated"]
      <3>1. Mods(stack) = {Top.mod} \cup Mods(s) /\ Top.mod \in Modules
        BY <1>2, <2>1, <2>3, TopFacts
      <3>2. k = Key /\ (k \in Mods(stack) \/ status[k] = "Evaluated")
        BY <1>4, <2>1, <2>3 DEF KeyInv
      <3>3. st[Top.mod] = "Evaluated" /\ (status[k] = "Evaluated" => st[k] = "Evaluated")
        BY <1>1, <1>2, <2>3, <3>1 DEF GraphTypes
      <3> QED
        BY <1>3, <3>1, <3>2, <3>3
    <2> QED
      BY <1>2, <1>10, <2>2, <2>3 DEF evaluate_body, FailEvaluate, Answer
  <1>11. CASE \/ load \/ insert_and_load_dependencies \/ BeginLink \/ LinkDependency
              \/ ValidateImports \/ Drain \/ dynamic_import
    <2>1. phase' \notin {"evaluate", "settle"}
      BY <1>11 DEF load, insert_and_load_dependencies, BeginLink, LinkDependency, ValidateImports,
                   EnterLink, Answer, Drain, RootEvaluated, ResumeOuter, TakeBatch, import_dynamic,
                   eval_module_ends, dynamic_import
    <2> QED
      BY <1>2, <1>5, <2>1
  <1> QED
    BY <1>6, <1>7, <1>8, <1>9, <1>10, <1>11 DEF Next, Walk

-----------------------------------------------------------------------------
(* Failures leave a mark.                                                  *)

\* A body that threw throws again, and one that was rejected does not run.
LEMMA FailuresStay ==
  ASSUME RunInv, [Next]_vars
  PROVE  \A n \in Modules : body[n] \in {"threw", "rejected"} => body'[n] = body[n]
  <1>1. BaseInv /\ ResumeInv /\ GraphTypes
    BY DEF RunInv, BaseInv
  <1>2. CASE evaluate_body
    <2>1. PICK m : m = Top.mod
      OBVIOUS
    <2>2. m \in Modules /\ status[m] = "Evaluating"
      BY <1>2, <2>1, AtBodyFacts DEF evaluate_body
    <2>3. body[m] \in {"unrun", "threw"} /\ (body[m] = "threw" => source[m].body = "throws")
      BY <1>1, <2>2 DEF ResumeInv
    <2>4. \/ body' = [body EXCEPT ![m] = "threw"]
          \/ source[m].body # "throws" /\ \E v : body' = [body EXCEPT ![m] = v]
      BY <1>2, <2>1 DEF evaluate_body
    <2> QED
      BY <1>1, <2>3, <2>4 DEF GraphTypes
  <1>3. ASSUME NEW job, RunResume(job), \A m \in Modules : WillResume(job, m) => body[m] = "suspended"
        PROVE  \A n \in Modules : body[n] \in {"threw", "rejected"} => body'[n] = body[n]
    <2>1. job.type = "resume" /\ \E v : body' = [body EXCEPT ![job.by] = v]
      BY <1>3 DEF RunResume
    <2>2. job.by \in Modules => body[job.by] = "suspended"
      BY <1>3, <2>1 DEF WillResume
    <2> QED
      BY <1>1, <2>1, <2>2 DEF GraphTypes
  <1>4. CASE ResumeNested
    <2>1. jobs # <<>> /\ RunResume(Head(jobs))
      BY <1>4 DEF ResumeNested, DrainEnds
    <2>2. Head(jobs) = jobs[1] /\ 1 \in DOMAIN jobs
      BY <1>1, <2>1, TailFacts DEF GraphTypes
    <2>3. \A m \in Modules : WillResume(Head(jobs), m) => body[m] = "suspended"
      BY <1>1, <2>2 DEF ResumeInv, Has
    <2> QED
      BY <1>3, <2>1, <2>3
  <1>5. CASE ResumeOuter
    <2>1. batch # <<>> /\ RunResume(Head(batch))
      BY <1>5 DEF ResumeOuter
    <2>2. Head(batch) = batch[1] /\ 1 \in DOMAIN batch
      BY <1>1, <2>1, TailFacts DEF GraphTypes
    <2>3. \A m \in Modules : WillResume(Head(batch), m) => body[m] = "suspended"
      BY <1>1, <2>2 DEF ResumeInv, Has
    <2> QED
      BY <1>3, <2>1, <2>3
  <1>6. CASE body' = body
    BY <1>6
  <1> QED
    BY <1>2, <1>4, <1>5, <1>6
       DEF Next, Walk, Drain, load, insert_and_load_dependencies, BeginLink, LinkDependency,
           ValidateImports, BeginEvaluate, EvaluateDependency, BeginSettle,
           settle_started_async_dependencies, RootEvaluated, TakeBatch, import_dynamic,
           eval_module_ends, dynamic_import, vars

\* A failed evaluation, when there is the mark of it in what each module of
\* the stack reaches.
LEMMA FailEvaluateMarks ==
  ASSUME RunInv, EvaluatedInv, phase \in {"evaluate", "settle"}, NEW pending, FailEvaluate(pending),
         source' = source, NEW b, b = body',
         \A n \in Modules : body[n] \in {"threw", "rejected"} => b[n] = body[n],
         \A m \in Mods(stack) : Spoiled(m, b)
  PROVE  EvaluatedInv'
  <1>1. BaseInv /\ GraphTypes
    BY DEF RunInv, BaseInv
  <1>2. PICK st, ph : st = status' /\ ph = phase'
    OBVIOUS
  <1>3. \A m \in Modules : st[m] = IF m \in Mods(stack) THEN "Linked" ELSE status[m]
    BY <1>1, <1>2, FailEvaluateStatus
  <1>4. ASSUME NEW m \in Modules, st[m] = "Evaluated"
        PROVE  Followed(m, st) \/ Spoiled(m, b)
    <2>1. status[m] = "Evaluated"
      BY <1>3, <1>4
    <2>2. \A n \in Reachable(m) : n \in Modules
      BY ReachableFacts
    <2>3. Spoiled(m, body) => Spoiled(m, b)
      BY <2>2 DEF Spoiled
    <2>4. CASE Followed(m, status) /\ ~Followed(m, st)
      <3>1. PICK i \in DOMAIN requests(m) :
              status[requests(m)[i]] \in Entered /\ st[requests(m)[i]] \notin Entered
        BY <2>4 DEF Followed
      <3>2. PICK d : d = requests(m)[i]
        OBVIOUS
      <3>3. d \in Modules
        BY <1>1, <3>1, <3>2, SourceFacts
      <3>4. d \in Mods(stack)
        BY <1>3, <3>1, <3>2, <3>3
      <3>5. m \in Reachable(m) /\ d \in Reachable(m)
        BY <3>1, <3>2, <3>3, ReachableFacts
      <3>6. Spoiled(d, b)
        BY <3>4
      <3>7. \A n \in Reachable(d) : n \in Reachable(m)
        BY <3>5, ReachableFacts
      <3> QED
        BY <3>6, <3>7 DEF Spoiled
    <2> QED
      BY <2>1, <2>3, <2>4 DEF EvaluatedInv
  <1> QED
    BY <1>2, <1>4, EvaluatedThen

\* A step that takes back no entry, and makes no module Evaluated.
LEMMA EvaluatedKept ==
  ASSUME RunInv, EvaluatedInv, phase # "panicked", source' = source, NEW b, b = body',
         \A n \in Modules : body[n] \in {"threw", "rejected"} => b[n] = body[n],
         \A m \in Modules : status[m] \in Entered => status'[m] \in Entered,
         \A m \in Modules : status'[m] = "Evaluated" =>
           status[m] = "Evaluated" \/ Followed(m, status)
  PROVE  EvaluatedInv'
  <1>1. GraphTypes
    BY DEF RunInv, BaseInv
  <1>2. PICK st, ph : st = status' /\ ph = phase'
    OBVIOUS
  <1>3. ASSUME NEW m \in Modules, st[m] = "Evaluated"
        PROVE  Followed(m, st) \/ Spoiled(m, b)
    <2>1. \A n \in Reachable(m) : n \in Modules
      BY ReachableFacts
    <2>2. Spoiled(m, body) => Spoiled(m, b)
      BY <2>1 DEF Spoiled
    <2>3. \A i \in DOMAIN requests(m) : requests(m)[i] \in Modules
      BY <1>1, SourceFacts
    <2>4. Followed(m, status) => Followed(m, st)
      BY <1>2, <2>3 DEF Followed
    <2>5. status[m] = "Evaluated" \/ Followed(m, status)
      BY <1>2, <1>3
    <2> QED
      BY <2>2, <2>4, <2>5 DEF EvaluatedInv
  <1> QED
    BY <1>2, <1>3, EvaluatedThen

\* What Evaluated modules request, in every step.
LEMMA EvaluatedNext ==
  ASSUME RunInv, PathInv, EvaluatedInv, [Next]_vars
  PROVE  EvaluatedInv'
  <1>1. BaseInv /\ GraphTypes /\ stack \in Seq(Frames)
    BY DEF RunInv, BaseInv, GraphTypes
  <1>2. PICK b : b = body'
    OBVIOUS
  <1>3. \A n \in Modules : body[n] \in {"threw", "rejected"} => b[n] = body[n]
    BY <1>2, FailuresStay
  <1>4. source' = source
    BY DEF Next, Walk, Drain, load, insert_and_load_dependencies, BeginLink, LinkDependency,
           ValidateImports, BeginEvaluate, EvaluateDependency, BeginSettle, evaluate_body,
           ResumeNested, ResumeOuter,
           settle_started_async_dependencies, RootEvaluated, TakeBatch, import_dynamic,
           eval_module_ends, dynamic_import, vars
  <1>5. CASE phase # "panicked" /\ \E x, v : /\ status[x] \notin Entered /\ v # "Evaluated"
                                             /\ status' = [status EXCEPT ![x] = v]
    <2>1. PICK x, v : status[x] \notin Entered /\ v # "Evaluated" /\ status' = [status EXCEPT ![x] = v]
      BY <1>5
    <2>2. /\ \A m \in Modules : status[m] \in Entered => status'[m] \in Entered
          /\ \A m \in Modules : status'[m] = "Evaluated" => status[m] = "Evaluated"
      BY <1>1, <2>1 DEF GraphTypes
    <2> QED
      BY <1>2, <1>3, <1>4, <1>5, <2>2, EvaluatedKept
  <1>6. CASE phase # "panicked" /\ status' = status
    BY <1>2, <1>3, <1>4, <1>6, EvaluatedKept
  <1>7. CASE load
    BY <1>5, <1>6, <1>7 DEF load, Entered
  <1>8. CASE insert_and_load_dependencies
    <2>1. PICK d : d = requests(Top.mod)[Top.next]
      OBVIOUS
    <2>2. status' = status \/ (status[d] \notin Entered /\ status' = [status EXCEPT ![d] = "Unlinked"])
      BY <1>8, <2>1 DEF insert_and_load_dependencies, Entered
    <2>3. phase # "panicked"
      BY <1>8 DEF insert_and_load_dependencies
    <2> QED
      BY <1>5, <1>6, <2>2, <2>3
  <1>9. CASE BeginLink \/ LinkDependency
    <2>1. ASSUME NEW k, NEW rest, EnterLink(k, rest)
          PROVE  status' = status \/ (status[k] \notin Entered /\ status' = [status EXCEPT ![k] = "Linking"])
      BY <2>1 DEF EnterLink, Entered
    <2>2. \/ status' = status
          \/ \E k : status[k] \notin Entered /\ status' = [status EXCEPT ![k] = "Linking"]
      BY <1>9, <2>1 DEF BeginLink, LinkDependency
    <2>3. phase # "panicked"
      BY <1>9 DEF BeginLink, LinkDependency
    <2> QED
      BY <1>5, <1>6, <2>2, <2>3
  <1>10. CASE ValidateImports
    <2>1. phase = "link" /\ status[Top.mod] = "Linking"
      BY <1>1, <1>10, TopFacts DEF ValidateImports, BaseInv, StackInv
    <2>2. \/ status' = status
          \/ status[Top.mod] \notin Entered /\ status' = [status EXCEPT ![Top.mod] = "Linked"]
      BY <1>10, <2>1 DEF ValidateImports, Entered
    <2> QED
      BY <1>5, <1>6, <2>1, <2>2
  <1>11. CASE BeginEvaluate \/ EvaluateDependency
    <2>1. ASSUME NEW k, NEW rest, EnterEvaluate(k, rest)
          PROVE  \/ status' = status
                 \/ status[k] \notin Entered /\ status' = [status EXCEPT ![k] = "Evaluating"]
      BY <2>1 DEF EnterEvaluate, graph
    <2>2. \/ status' = status
          \/ \E k : status[k] \notin Entered /\ status' = [status EXCEPT ![k] = "Evaluating"]
      BY <1>11, <2>1 DEF BeginEvaluate, EvaluateDependency
    <2>3. phase # "panicked"
      BY <1>11 DEF BeginEvaluate, EvaluateDependency
    <2> QED
      BY <1>5, <1>6, <2>2, <2>3
  <1>12. CASE BeginSettle \/ ResumeNested \/ Drain \/ dynamic_import
    <2>1. phase # "panicked" /\ status' = status
      BY <1>12 DEF BeginSettle, ResumeNested, Drain, RootEvaluated, ResumeOuter, TakeBatch,
                   import_dynamic, eval_module_ends, dynamic_import, graph
    <2> QED
      BY <1>6, <2>1
  <1>13. CASE settle_started_async_dependencies
    <2>1. phase = "settle" /\ body' = body
      BY <1>13 DEF settle_started_async_dependencies
    <2>2. CASE FailEvaluate(jobs) /\ \E n \in Modules : body[n] = "rejected"
      <3>1. \A m \in Mods(stack) : Spoiled(m, b)
        BY <1>2, <2>1, <2>2 DEF Spoiled
      <3> QED
        BY <1>2, <1>3, <1>4, <2>1, <2>2, <3>1, FailEvaluateMarks
    <2>3. CASE status' = status
      BY <1>6, <2>1, <2>3
    <2> QED
      BY <1>13, <2>2, <2>3 DEF settle_started_async_dependencies, async_module_rejection
  <1>14. CASE evaluate_body
    <2>1. PICK m : m = Top.mod
      OBVIOUS
    <2>2. /\ m \in Modules /\ status[m] = "Evaluating" /\ phase = "evaluate" /\ stack # <<>>
          /\ \A i \in DOMAIN requests(m) : status[requests(m)[i]] \in Entered
      BY <1>14, <2>1, AtBodyFacts DEF evaluate_body, AtBody
    <2>3. CASE source[m].body = "throws"
      <3>1. body' = [body EXCEPT ![m] = "threw"] /\ FailEvaluate(jobs \o Calls(m))
        BY <1>14, <2>1, <2>3 DEF evaluate_body
      <3>2. b[m] = "threw"
        BY <1>1, <1>2, <2>2, <3>1 DEF GraphTypes
      <3>3. \A x \in Mods(stack) : m \in Reachable(x)
        BY <1>1, <2>1, <2>2, TopReach DEF Walking
      <3>4. \A x \in Mods(stack) : Spoiled(x, b)
        BY <3>2, <3>3 DEF Spoiled
      <3> QED
        BY <1>2, <1>3, <1>4, <2>2, <3>1, <3>4, FailEvaluateMarks
    <2>4. CASE source[m].body # "throws"
      <3>1. status' = [status EXCEPT ![m] = "Evaluated"]
        BY <1>14, <2>1, <2>4 DEF evaluate_body
      <3>2. /\ \A x \in Modules : status[x] \in Entered => status'[x] \in Entered
            /\ \A x \in Modules : status'[x] = "Evaluated" => status[x] = "Evaluated" \/ x = m
        BY <1>1, <3>1 DEF GraphTypes, Entered
      <3>3. Followed(m, status)
        BY <2>2 DEF Followed
      <3> QED
        BY <1>2, <1>3, <1>4, <2>2, <3>2, <3>3, EvaluatedKept
    <2> QED
      BY <2>3, <2>4
  <1>15. CASE UNCHANGED vars
    <2>1. phase' = phase /\ status' = status
      BY <1>15 DEF vars, graph
    <2>2. CASE phase = "panicked"
      BY <2>1, <2>2 DEF EvaluatedInv
    <2> QED
      BY <1>6, <2>1, <2>2
  <1> QED
    BY <1>7, <1>8, <1>9, <1>10, <1>11, <1>12, <1>13, <1>14, <1>15 DEF Next, Walk

\* The evaluation of the root fails for a module of the root's own graph, in
\* every step.
LEMMA FailedNext ==
  ASSUME RunInv, PathInv, StaticFailsForItself, [Next]_vars
  PROVE  StaticFailsForItself'
  <1>1. BaseInv /\ GraphTypes /\ WalkInv
    BY DEF RunInv, BaseInv
  <1>2. PICK b : b = body'
    OBVIOUS
  <1>3. source' = source /\ root' = root
    BY DEF Next, Walk, Drain, load, insert_and_load_dependencies, BeginLink, LinkDependency,
           ValidateImports, BeginEvaluate, EvaluateDependency, BeginSettle, evaluate_body,
           ResumeNested, ResumeOuter,
           settle_started_async_dependencies, RootEvaluated, TakeBatch, import_dynamic,
           eval_module_ends, dynamic_import, vars
  <1>4. CASE phase' # "failed"
    BY <1>2, <1>3, <1>4, FailedThen
  <1>5. ASSUME NEW m \in Reachable(root),
               ~source[m].loads \/ ~source[m].resolves \/ b[m] \in {"threw", "rejected"}
        PROVE  StaticFailsForItself'
    BY <1>2, <1>3, <1>5, FailedThen
  <1>6. \A how, pending : Answer(how, pending) /\ phase' = "failed" => import = NoImport
    BY DEF Answer
  <1>7. import = NoImport => Key = root
    BY DEF Key
  <1>8. CASE load
    <2>1. CASE phase' = "load"
      BY <1>4, <2>1
    <2>2. CASE Answer("throw", jobs) /\ ~source[Key].loads
      <3>1. Key \in Reachable(Key)
        BY <1>1, <1>8, KeyType, ReachableFacts DEF load, Walking
      <3> QED
        BY <1>4, <1>5, <1>6, <1>7, <2>2, <3>1
    <2> QED
      BY <1>8, <2>1, <2>2 DEF load
  <1>9. CASE insert_and_load_dependencies
    <2>1. PICK d : d = requests(Top.mod)[Top.next]
      OBVIOUS
    <2>2. phase = "load" /\ stack # <<>>
      BY <1>9 DEF insert_and_load_dependencies
    <2>3. CASE phase' = phase
      BY <1>4, <2>2, <2>3
    <2>4. CASE Answer("throw", jobs) /\ ~source[d].loads /\ ~(Top.next > Len(requests(Top.mod)))
      <3>1. Top.mod \in Modules /\ Top.next \in Nat
        BY <1>1, <2>2, TopFacts
      <3>2. Len(requests(Top.mod)) \in Nat
        BY <1>1, <3>1, SourceFacts
      <3>3. d \in Reachable(Key)
        BY <1>1, <2>1, <2>2, <2>4, <3>1, <3>2, TopReach DEF Walking
      <3> QED
        BY <1>4, <1>5, <1>6, <1>7, <2>4, <3>3
    <2> QED
      BY <1>9, <2>1, <2>3, <2>4 DEF insert_and_load_dependencies
  <1>10. CASE ValidateImports
    <2>1. CASE phase' = phase
      BY <1>4, <1>10, <2>1 DEF ValidateImports
    <2>2. CASE Answer("throw", jobs) /\ ~source[Top.mod].resolves
      <3>1. Top.mod \in Reachable(Key)
        BY <1>1, <1>10, TopReach DEF ValidateImports, Walking
      <3> QED
        BY <1>4, <1>5, <1>6, <1>7, <2>2, <3>1
    <2> QED
      BY <1>10, <2>1, <2>2 DEF ValidateImports
  <1>11. CASE evaluate_body
    <2>1. PICK m : m = Top.mod
      OBVIOUS
    <2>2. m \in Modules /\ phase = "evaluate" /\ stack # <<>>
      BY <1>11, <2>1, AtBodyFacts DEF evaluate_body, AtBody
    <2>3. CASE phase' = phase
      BY <1>4, <2>2, <2>3
    <2>4. CASE body' = [body EXCEPT ![m] = "threw"] /\ FailEvaluate(jobs \o Calls(m))
      <3>1. b[m] = "threw"
        BY <1>1, <1>2, <2>2, <2>4 DEF GraphTypes
      <3>2. m \in Reachable(Key)
        BY <1>1, <2>1, <2>2, TopReach DEF Walking
      <3>3. phase' = "failed" => import = NoImport
        BY <1>6, <2>4 DEF FailEvaluate
      <3> QED
        BY <1>4, <1>5, <1>7, <3>1, <3>2, <3>3
    <2> QED
      BY <1>11, <2>1, <2>3, <2>4 DEF evaluate_body
  <1>12. CASE settle_started_async_dependencies
    <2>1. phase = "settle" /\ body' = body
      BY <1>12 DEF settle_started_async_dependencies
    <2>2. CASE phase' = "failed"
      <3>1. import = NoImport
        BY <1>6, <1>12, <2>2 DEF settle_started_async_dependencies, FailEvaluate
      <3>2. stack # <<>>
        BY <1>1, <2>1, <3>1 DEF WalkInv
      <3>3. async_module_rejection(FALSE)
        BY <1>12, <2>2, <3>2 DEF settle_started_async_dependencies
      <3>4. PICK m \in Modules : body[m] = "rejected" /\ m \in static_evaluation
        BY <3>3 DEF async_module_rejection
      <3>5. m \in Reachable(root)
        BY <3>4 DEF PathInv
      <3> QED
        BY <1>2, <1>5, <2>1, <3>4, <3>5
    <2> QED
      BY <1>4, <2>2
  <1>13. CASE eval_module_ends
    <2>1. CASE async_module_rejection(FALSE)
      <3>1. PICK m \in Modules : body[m] = "rejected" /\ m \in static_evaluation
        BY <2>1 DEF async_module_rejection
      <3>2. m \in Reachable(root) /\ body' = body
        BY <1>13, <3>1 DEF PathInv, eval_module_ends
      <3> QED
        BY <1>2, <1>5, <3>1, <3>2
    <2>2. CASE ~async_module_rejection(FALSE)
      BY <1>4, <1>13, <2>2 DEF eval_module_ends
    <2> QED
      BY <2>1, <2>2
  <1>14. CASE \/ BeginLink \/ LinkDependency \/ BeginEvaluate \/ EvaluateDependency
              \/ BeginSettle \/ ResumeNested \/ RootEvaluated \/ ResumeOuter \/ TakeBatch
              \/ import_dynamic \/ dynamic_import
    <2>1. phase' # "failed"
      BY <1>14 DEF BeginLink, LinkDependency, BeginEvaluate, EvaluateDependency, EnterLink,
                   EnterEvaluate, BeginSettle, ResumeNested, RootEvaluated, ResumeOuter,
                   TakeBatch, import_dynamic, dynamic_import
    <2> QED
      BY <1>4, <2>1
  <1>15. CASE UNCHANGED vars
    <2>1. b = body /\ phase' = phase
      BY <1>2, <1>15 DEF vars
    <2> QED
      BY <1>4, <1>5, <2>1 DEF StaticFailsForItself
  <1> QED
    BY <1>8, <1>9, <1>10, <1>11, <1>12, <1>13, <1>14, <1>15 DEF Next, Walk, Drain

-----------------------------------------------------------------------------
(* The invariant of the graph.                                             *)

\* All of it.
THEOREM GraphInvariant == Spec => []GraphInv
  <1>1. Init => GraphInv
    <2>1. SUFFICES ASSUME Init PROVE GraphInv
      OBVIOUS
    <2>2. BaseInv /\ ResumeInv /\ FramesInv
      BY <2>1, BaseInit, ResumeInit DEF Init, FramesInv
    <2>3. PathInv
      <3>1. stack = <<>> /\ static_evaluation = {}
        BY <2>1 DEF Init
      <3> QED
        BY <3>1, EmptyFacts DEF PathInv
    <2>4. KeyInv /\ EvaluatedInv /\ StaticFailsForItself
      BY <2>1 DEF Init, KeyInv, EvaluatedInv, StaticFailsForItself
    <2> QED
      BY <2>2, <2>3, <2>4 DEF GraphInv, BaseInv, ReachInv
  <1>2. GraphInv /\ [Next]_vars => GraphInv'
    <2>1. SUFFICES ASSUME GraphInv, [Next]_vars PROVE GraphInv'
      OBVIOUS
    <2>2. RunInv /\ BaseInv /\ ResumeInv /\ FramesInv /\ ReachInv
      BY <2>1 DEF GraphInv, RunInv, BaseInv
    <2>3. BaseInv' /\ ResumeInv' /\ FramesInv'
      BY <2>1, <2>2, BaseNext, ResumeNext, FramesNext
    <2>4. PathInv' /\ KeyInv' /\ EvaluatedInv' /\ StaticFailsForItself'
      BY <2>1, <2>2, PathNext, KeyNext, EvaluatedNext, FailedNext DEF ReachInv
    <2> QED
      BY <2>3, <2>4 DEF GraphInv, BaseInv, ReachInv
  <1> QED
    BY <1>1, <1>2, PTL DEF Spec

\* The evaluation of the root fails for a module of the root's own graph, never
\* for one that only an import() reaches (StaticFailsForItself).
THEOREM RootFailsForItself == Spec => []StaticFailsForItself
  <1>1. GraphInv => StaticFailsForItself
    BY DEF GraphInv, ReachInv
  <1> QED
    BY <1>1, GraphInvariant, PTL

\* An import about to resolve has evaluated all it reaches, unless a body of it
\* threw (ImportReachesAll).
THEOREM ImportsReachAll == Spec => []ImportReachesAll
  <1>1. ASSUME GraphInv PROVE ImportReachesAll
    <2>1. SUFFICES ASSUME phase = "settle", stack = <<>>, ~async_module_rejection(TRUE),
                          ~(\E m \in Reachable(import.of) : body[m] = "threw")
                   PROVE  \A m \in Reachable(import.of) : status[m] = "Evaluated"
      BY DEF ImportReachesAll
    <2>2. GraphTypes /\ WalkInv /\ StackInv /\ KeyInv /\ EvaluatedInv
      BY <1>1 DEF GraphInv, ReachInv
    <2>3. Mods(stack) = {}
      BY <2>1, EmptyFacts
    <2>4. \A m \in Modules : status[m] # "Evaluating"
      BY <2>1, <2>2, <2>3 DEF StackInv
    <2>5. PICK k : k = import.of
      OBVIOUS
    <2>6. Key = k /\ k \in Modules
      BY <2>1, <2>2, <2>5, KeyType DEF Key, WalkInv, Walking
    <2>7. status[k] = "Evaluated"
      BY <2>1, <2>2, <2>3, <2>6 DEF KeyInv
    <2>8. PICK S : S = {m \in Reachable(k) : status[m] = "Evaluated"}
      OBVIOUS
    <2>9. S \in SUBSET Modules /\ k \in S
      BY <2>6, <2>7, <2>8, ReachableFacts
    <2>10. ASSUME NEW m \in S, NEW i \in DOMAIN requests(m) PROVE requests(m)[i] \in S
      <3>1. m \in Modules /\ m \in Reachable(k) /\ status[m] = "Evaluated"
        BY <2>8, <2>9
      <3>2. ~Spoiled(m, body)
        <4>1. \A n \in Reachable(m) : n \in Reachable(k)
          BY <3>1, ReachableFacts
        <4> QED
          BY <2>1, <2>5, <4>1 DEF Spoiled, async_module_rejection
      <3>3. Followed(m, status)
        BY <2>1, <2>2, <3>1, <3>2 DEF EvaluatedInv
      <3>4. PICK d : d = requests(m)[i]
        OBVIOUS
      <3>5. d \in Modules /\ status[d] \in Entered
        BY <2>2, <3>1, <3>3, <3>4, SourceFacts DEF Followed
      <3>6. status[d] = "Evaluated"
        BY <2>4, <3>5 DEF Entered
      <3>7. d \in Reachable(k)
        BY <3>1, <3>4, <3>5, ReachableFacts
      <3> QED
        BY <2>8, <3>4, <3>6, <3>7
    <2>11. Reachable(k) \subseteq S
      BY <2>9, <2>10, ReachableClosed
    <2> QED
      BY <2>5, <2>8, <2>11
  <1> QED
    BY <1>1, GraphInvariant, PTL
=============================================================================
