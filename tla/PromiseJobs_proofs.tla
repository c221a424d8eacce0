------------------------- MODULE PromiseJobs_proofs -------------------------
EXTENDS PromiseJobs, FiniteSetTheorems, SequenceTheorems, TLAPS

-----------------------------------------------------------------------------
(* Types.                                                                  *)

Results == Plain \cup Thenables \cup Poisoned \cup Promise \cup {Failure, Namespace, Undefined}

Caps == Pair \cup {NoPair, Throwing}

Handlers ==
  [kind : {"none", "user"}, of : {NoPair}] \cup [kind : {"settle"}, of : Pair]
    \cup [kind : {"resume"}, of : AsyncFunctions]

Registrations == [on_fulfilled : Handlers, on_rejected : Handlers, cap : Caps, reg : Nat]

ReactionJobs ==
  [type : {"reaction"}, fulfil : BOOLEAN, handler : Handlers, cap : Caps, arg : Results,
   reg : Nat, source : Promise \cup {Nobody}]

ThenableJobs == [type : {"thenable"}, promise : Promise, thenable : Thenables \cup Promise]

ImportJobs == [type : {"import"}, cap : Pair]

AllJobs == ReactionJobs \cup ThenableJobs \cup ImportJobs

Queued == [job : AllJobs, seq : Nat]

Codes ==
  [kind : {"none", "script"}, of : {NoPair}] \cup [kind : {"handler"}, of : Caps]
    \cup [kind : {"then", "module"}, of : Pair] \cup [kind : {"body"}, of : AsyncFunctions]

SlotTypes ==
  /\ state \in [Promise -> {"unborn", "pending", "fulfilled", "rejected"}]
  /\ result \in [Promise -> Results]
  /\ reactions \in [Promise -> Seq(Registrations)]
  /\ adopts \in [Promise -> Promise \cup {Nobody}]

ObjectTypes ==
  /\ born \in 0 .. MaxPromises
  /\ target \in Seq(Promise) /\ Len(target) <= MaxPairs
  /\ resolved \subseteq DOMAIN target /\ held \subseteq DOMAIN target
  /\ body \in [AsyncFunctions -> {"uncalled", "suspended", "running", "done"}]
  /\ promise_of \in [AsyncFunctions -> Promise \cup {Nobody}]
  /\ regs \in Nat /\ reacted \subseteq 1 .. regs

QueueTypes ==
  /\ jobs \in Seq(Queued) /\ batch \in Seq(Queued) /\ inner \in Seq(Queued)
  /\ enqueued \in Nat /\ started \subseteq 1 .. enqueued

PhaseTypes ==
  /\ running \in Codes
  /\ nested \in {"none", "draining", "done", "failed"}
  /\ importing \in (IF nested = "none" THEN {NoPair} ELSE Pair)
  /\ host \in {"script", "idle", "draining", "failed"}
  /\ calls \in Nat
  /\ nested # "draining" => inner = <<>>
  /\ nested \in {"done", "failed"} => Idle
  /\ host # "draining" => batch = <<>> /\ nested = "none"
                            /\ (running = NoCode \/ running.kind = "script")
  /\ running.kind = "script" => host = "script"

TypeInv == SlotTypes /\ ObjectTypes /\ QueueTypes /\ PhaseTypes

-----------------------------------------------------------------------------
(* The jobs that wait.                                                     *)

Rng(s) == {s[i] : i \in DOMAIN s}

Jobs == Rng(batch) \cup Rng(inner) \cup Rng(jobs)

NoRepeat(s) == \A i, j \in DOMAIN s : s[i].seq = s[j].seq => i = j

InOrder(s) == \A i, j \in DOMAIN s : i < j => s[i].seq < s[j].seq

Before(S, T) == \A x \in S, y \in T : x.seq < y.seq

\* In a batch, and from the batches to the queue, the numbers grow; none that
\* waits was started.
QueueInv ==
  /\ InOrder(batch) /\ InOrder(inner) /\ InOrder(jobs)
  /\ Before(Rng(batch), Rng(inner)) /\ Before(Rng(batch), Rng(jobs))
  /\ Before(Rng(inner), Rng(jobs))
  /\ \A x \in Jobs : x.seq \in 1 .. enqueued /\ x.seq \notin started

Kept == {x.seq : x \in Jobs} \cup started = 1 .. enqueued

-----------------------------------------------------------------------------
\* The pairs made so far, and what stands where a capability has none.
Made == DOMAIN target \cup {NoPair, Throwing}

\* Whatever is mentioned has been made.
KnownObjects ==
  /\ \A p \in Promise : state[p] = "unborn" <=> p > born
  /\ \A k \in DOMAIN target : target[k] \in 1 .. born
  /\ \A f \in AsyncFunctions : /\ promise_of[f] \in 0 .. born
                               /\ promise_of[f] = Nobody <=> body[f] = "uncalled"

\* r is the registration at place i of the list of p.
Listed(p, i, r) == i \in DOMAIN reactions[p] /\ reactions[p][i] = r

KnownRegistration(r) ==
  /\ r.cap \in Made /\ r.reg \in 1 .. regs
  /\ r.on_fulfilled.kind = "settle" => r.on_fulfilled.of \in DOMAIN target
  /\ r.on_rejected.kind = "settle" => r.on_rejected.of \in DOMAIN target

KnownJob(j) ==
  /\ j.type = "reaction" =>
       /\ j.cap \in Made /\ j.source \in 0 .. born /\ j.reg \in 1 .. regs
       /\ j.handler.kind = "settle" => j.handler.of \in DOMAIN target
  /\ j.type = "thenable" =>
       j.promise \in 1 .. born /\ j.thenable \in Thenables \cup 1 .. born
  /\ j.type = "import" => j.cap \in DOMAIN target

KnownLists ==
  /\ \A p \in Promise, i \in Nat, r \in Registrations : Listed(p, i, r) => KnownRegistration(r)
  /\ \A x \in Jobs : KnownJob(x.job)

KnownCode ==
  /\ running.kind \in {"handler", "then", "module"} => running.of \in Made
  /\ running.kind = "body" => body[running.of] = "running"
  /\ importing \in Made

Known == KnownObjects /\ KnownLists /\ KnownCode

\* What a promise can be fulfilled with.
Plainly == Plain \cup {Failure, Namespace, Undefined}

\* A promise that settled has no registration left, and its jobs are those of
\* its outcome.
Matches ==
  /\ \A p \in Promise, i \in Nat, r \in Registrations : Listed(p, i, r) => state[p] = "pending"
  /\ \A p \in Promise : state[p] \in {"unborn", "pending"} => result[p] = Undefined
  /\ \A p \in Promise : state[p] = "fulfilled" => result[p] \in Plainly
  /\ \A x \in Jobs :
       x.job.type = "reaction" /\ x.job.source # Nobody =>
          /\ state[x.job.source] = IF x.job.fulfil THEN "fulfilled" ELSE "rejected"
          /\ result[x.job.source] = x.job.arg
  /\ \A x \in Jobs : x.job.type = "reaction" /\ x.job.fulfil => x.job.arg \in Plainly

\* The job x resumes the body of f.
ResumeDue(f, x) ==
  x \in Jobs /\ x.job.type = "reaction" /\ x.job.handler = Handler("resume", f)

\* The registration at place i of p does.
ResumeAt(f, p, i) ==
  \E r \in Registrations : Listed(p, i, r) /\ r.on_fulfilled = Handler("resume", f)

\* At most one resumes f, and none if f is not suspended.
ResumeInv ==
  /\ \A p \in Promise, i \in Nat, r \in Registrations, f \in AsyncFunctions :
       Listed(p, i, r) => (r.on_rejected = Handler("resume", f) <=> r.on_fulfilled = Handler("resume", f))
  /\ \A p \in Promise, i \in Nat, f \in AsyncFunctions : ResumeAt(f, p, i) =>
       /\ body[f] = "suspended"
       /\ \A q \in Promise, j \in Nat : ResumeAt(f, q, j) => q = p /\ j = i
       /\ \A x \in Jobs : ~ResumeDue(f, x)
  /\ \A x \in Jobs, f \in AsyncFunctions : ResumeDue(f, x) =>
       /\ body[f] = "suspended"
       /\ \A y \in Jobs : ResumeDue(f, y) => y = x

AInv == TypeInv /\ QueueInv /\ Known /\ Matches /\ ResumeInv

-----------------------------------------------------------------------------
(* Sequences as lists of jobs.                                             *)

\* The elements of Tail(s) are those of s but the head, which is one of them.
LEMMA RngTail ==
  ASSUME NEW S, NEW s \in Seq(S), s # <<>>
  PROVE  /\ Tail(s) \in Seq(S) /\ Head(s) \in S
         /\ Head(s) = s[1] /\ 1 \in DOMAIN s
         /\ Rng(s) = {Head(s)} \cup Rng(Tail(s))
         /\ \A i \in DOMAIN Tail(s) : i + 1 \in DOMAIN s /\ Tail(s)[i] = s[i + 1] /\ i \in Nat \ {0}
  <1>1. /\ Tail(s) \in Seq(S) /\ Head(s) \in S /\ Head(s) = s[1]
        /\ Len(s) \in Nat \ {0} /\ DOMAIN s = 1 .. Len(s)
        /\ Len(Tail(s)) = Len(s) - 1 /\ DOMAIN Tail(s) = 1 .. Len(s) - 1
        /\ \A i \in 1 .. Len(s) - 1 : Tail(s)[i] = s[i + 1]
    OBVIOUS
  <1>2. \A i \in DOMAIN s : i # 1 => i - 1 \in DOMAIN Tail(s) /\ Tail(s)[i - 1] = s[i]
    BY <1>1
  <1>3. \A i \in DOMAIN Tail(s) : i + 1 \in DOMAIN s /\ Tail(s)[i] = s[i + 1] /\ i \in Nat \ {0}
    BY <1>1
  <1>4. 1 \in DOMAIN s
    BY <1>1
  <1> DEFINE t == Tail(s)
             h == Head(s)
  <1> HIDE DEF t, h
  <1>5. /\ \A i \in DOMAIN s : i # 1 => i - 1 \in DOMAIN t /\ t[i - 1] = s[i]
        /\ \A i \in DOMAIN t : i + 1 \in DOMAIN s /\ t[i] = s[i + 1]
        /\ h = s[1]
    BY <1>1, <1>2, <1>3 DEF t, h
  <1>6. Rng(s) = {h} \cup Rng(t)
    BY <1>4, <1>5 DEF Rng
  <1> QED
    BY <1>1, <1>3, <1>4, <1>6 DEF t, h

\* ... and of a concatenation, those of both.
LEMMA ConcatAt ==
  ASSUME NEW S, NEW s \in Seq(S), NEW t \in Seq(S)
  PROVE  /\ s \o t \in Seq(S)
         /\ \A i \in DOMAIN s : i \in DOMAIN (s \o t) /\ (s \o t)[i] = s[i]
         /\ \A i \in DOMAIN t : Len(s) + i \in DOMAIN (s \o t) /\ (s \o t)[Len(s) + i] = t[i]
         /\ \A i \in DOMAIN (s \o t) :
              /\ i \in Int
              /\ \/ i \in DOMAIN s /\ (s \o t)[i] = s[i]
                 \/ i - Len(s) \in DOMAIN t /\ (s \o t)[i] = t[i - Len(s)]
  <1> DEFINE u == s \o t
  <1>1. /\ u \in Seq(S) /\ Len(s) \in Nat /\ Len(t) \in Nat
        /\ DOMAIN s = 1 .. Len(s) /\ DOMAIN t = 1 .. Len(t)
        /\ Len(u) = Len(s) + Len(t) /\ DOMAIN u = 1 .. Len(u)
        /\ \A i \in 1 .. Len(s) + Len(t) : u[i] = IF i <= Len(s) THEN s[i] ELSE t[i - Len(s)]
    BY ConcatProperties, LenProperties
  <1> HIDE DEF u
  <1>2. \A i \in DOMAIN s : i \in DOMAIN u /\ u[i] = s[i]
    BY <1>1
  <1>3. \A i \in DOMAIN t : Len(s) + i \in DOMAIN u /\ u[Len(s) + i] = t[i]
    BY <1>1
  <1>4. \A i \in DOMAIN u : /\ i \in Int
                            /\ \/ i \in DOMAIN s /\ u[i] = s[i]
                               \/ i - Len(s) \in DOMAIN t /\ u[i] = t[i - Len(s)]
    BY <1>1
  <1> QED
    BY <1>1, <1>2, <1>3, <1>4 DEF u

\* The elements of a concatenation are those of both sequences.
LEMMA RngConcat ==
  ASSUME NEW S, NEW s \in Seq(S), NEW t \in Seq(S)
  PROVE  s \o t \in Seq(S) /\ Rng(s \o t) = Rng(s) \cup Rng(t)
  <1> DEFINE u == s \o t
  <1>1. /\ u \in Seq(S)
        /\ \A i \in DOMAIN s : i \in DOMAIN u /\ u[i] = s[i]
        /\ \A i \in DOMAIN t : Len(s) + i \in DOMAIN u /\ u[Len(s) + i] = t[i]
        /\ \A i \in DOMAIN u : \/ i \in DOMAIN s /\ u[i] = s[i]
                               \/ i - Len(s) \in DOMAIN t /\ u[i] = t[i - Len(s)]
    BY ConcatAt
  <1> HIDE DEF u
  <1>2. u \in Seq(S) /\ Rng(u) = Rng(s) \cup Rng(t)
    BY <1>1 DEF Rng
  <1> QED
    BY <1>2 DEF u

\* Sequences of jobs in order, one before the other, are one in order.
LEMMA InOrderConcat ==
  ASSUME NEW S, NEW s \in Seq(S), NEW t \in Seq(S),
         InOrder(s), InOrder(t), Before(Rng(s), Rng(t))
  PROVE  InOrder(s \o t)
  <1> DEFINE u == s \o t
  <1>1. \A i \in DOMAIN u : /\ i \in Int
                            /\ \/ i \in DOMAIN s /\ u[i] = s[i]
                               \/ i - Len(s) \in DOMAIN t /\ u[i] = t[i - Len(s)]
    BY ConcatAt
  <1>2. \A i \in DOMAIN s, j \in DOMAIN t : s[i].seq < t[j].seq
    BY DEF Before, Rng
  <1>3. Len(s) \in Nat /\ DOMAIN s = 1 .. Len(s) /\ DOMAIN t = 1 .. Len(t)
    BY LenProperties
  <1> HIDE DEF u
  <1>4. SUFFICES ASSUME NEW i \in DOMAIN u, NEW j \in DOMAIN u, i < j
                 PROVE  u[i].seq < u[j].seq
    BY DEF InOrder, u
  <1>5. CASE j \in DOMAIN s
    <2>1. i \in DOMAIN s /\ u[i] = s[i] /\ u[j] = s[j]
      BY <1>1, <1>3, <1>4, <1>5
    <2> QED
      BY <1>4, <1>5, <2>1 DEF InOrder
  <1>6. CASE j \notin DOMAIN s /\ i \in DOMAIN s
    <2>1. u[i] = s[i] /\ j - Len(s) \in DOMAIN t /\ u[j] = t[j - Len(s)]
      BY <1>1, <1>3, <1>6
    <2> QED
      BY <1>2, <1>6, <2>1
  <1>7. CASE j \notin DOMAIN s /\ i \notin DOMAIN s
    <2>1. PICK k, l : k = i - Len(s) /\ l = j - Len(s)
      OBVIOUS
    <2>2. k \in DOMAIN t /\ u[i] = t[k] /\ l \in DOMAIN t /\ u[j] = t[l] /\ k < l
      BY <1>1, <1>3, <1>4, <1>7, <2>1
    <2> QED
      BY <2>2 DEF InOrder
  <1> QED
    BY <1>5, <1>6, <1>7

\* The head comes before the rest.
LEMMA InOrderTail ==
  ASSUME NEW s \in Seq(Queued), s # <<>>, InOrder(s)
  PROVE  /\ InOrder(Tail(s))
         /\ \A x \in Rng(Tail(s)) : Head(s).seq < x.seq
         /\ Rng(Tail(s)) = Rng(s) \ {Head(s)}
  <1>1. \A i \in DOMAIN Tail(s) : i + 1 \in DOMAIN s /\ Tail(s)[i] = s[i + 1] /\ i \in Nat \ {0}
    BY RngTail
  <1>2. /\ Head(s) = s[1] /\ 1 \in DOMAIN s /\ Rng(s) = {Head(s)} \cup Rng(Tail(s))
        /\ Head(s) \in Queued
    BY RngTail
  <1>3. InOrder(Tail(s))
    <2>1. SUFFICES ASSUME NEW i \in DOMAIN Tail(s), NEW j \in DOMAIN Tail(s), i < j
                   PROVE  Tail(s)[i].seq < Tail(s)[j].seq
      BY DEF InOrder
    <2>2. i + 1 < j + 1
      BY <1>1, <2>1
    <2> QED
      BY <1>1, <2>2 DEF InOrder
  <1>4. \A i \in DOMAIN Tail(s) : Head(s).seq < Tail(s)[i].seq
    <2>1. SUFFICES ASSUME NEW i \in DOMAIN Tail(s)
                   PROVE  Head(s).seq < Tail(s)[i].seq
      OBVIOUS
    <2>2. 1 < i + 1
      BY <1>1
    <2> QED
      BY <1>1, <1>2, <2>2 DEF InOrder
  <1>5. \A x \in Rng(Tail(s)) : Head(s).seq < x.seq
    BY <1>4 DEF Rng
  <1>6. Head(s).seq \in Nat
    BY <1>2 DEF Queued
  <1> QED
    BY <1>2, <1>3, <1>5, <1>6

\* A sequence of jobs in order has each number once.
LEMMA InOrderNoRepeat ==
  ASSUME NEW s \in Seq(Queued), InOrder(s)
  PROVE  NoRepeat(s)
  <1>1. SUFFICES ASSUME NEW i \in DOMAIN s, NEW j \in DOMAIN s, s[i].seq = s[j].seq
                 PROVE  i = j
    BY DEF NoRepeat
  <1>2. s[i] \in Queued /\ i \in Nat /\ j \in Nat
    OBVIOUS
  <1>3. s[i].seq \in Nat
    BY <1>2 DEF Queued
  <1>4. ~(i < j) /\ ~(j < i)
    BY <1>1, <1>3 DEF InOrder
  <1> QED
    BY <1>2, <1>4

\* The empty sequence has no elements, and is in order.
LEMMA RngEmpty == Rng(<<>>) = {} /\ InOrder(<<>>)
  BY DEF Rng, InOrder
-----------------------------------------------------------------------------
(* What a step does to the jobs that wait: the jobs in gone leave, those in *)
(* new, numbered from enqueued + 1 on, come.                               *)

Fresh(new) ==
  /\ new \subseteq Queued
  /\ enqueued' \in Nat /\ enqueued <= enqueued'
  /\ \A x \in new : x.seq \in enqueued + 1 .. enqueued'
  /\ \A n \in enqueued + 1 .. enqueued' : \E x \in new : x.seq = n

Grew(new) ==
  /\ Fresh(new)
  /\ jobs' \in Seq(Queued) /\ InOrder(jobs') /\ Rng(jobs') = Rng(jobs) \cup new

Moved(gone, new) ==
  /\ Fresh(new)
  /\ gone \subseteq Jobs
  /\ Jobs' = (Jobs \ gone) \cup new

\* No two jobs that wait have the same number.
LEMMA JobsDiffer ==
  ASSUME QueueTypes, QueueInv
  PROVE  \A x, y \in Jobs : x.seq = y.seq => x = y
  <1>1. \A x \in Jobs : x.seq \in Int
    BY DEF QueueInv
  <1>2. NoRepeat(batch) /\ NoRepeat(inner) /\ NoRepeat(jobs)
    BY InOrderNoRepeat DEF QueueInv, QueueTypes
  <1> QED
    BY <1>1, <1>2 DEF QueueInv, Jobs, Before, NoRepeat, Rng

\* No job is in two of the batches and the queue.
LEMMA JobsApart ==
  ASSUME QueueInv
  PROVE  /\ Rng(batch) \cap Rng(inner) = {} /\ Rng(batch) \cap Rng(jobs) = {}
         /\ Rng(inner) \cap Rng(jobs) = {}
  <1>1. \A x \in Jobs : ~(x.seq < x.seq)
    BY DEF QueueInv
  <1> QED
    BY <1>1 DEF QueueInv, Jobs, Before

\* A step that enqueues nothing adds no job.
LEMMA Unqueued ==
  ASSUME QueueTypes, QueueInv, UNCHANGED queue
  PROVE  Grew({})
  <1>1. jobs' = jobs /\ enqueued' = enqueued /\ enqueued \in Nat
    BY DEF queue, QueueTypes
  <1> QED
    BY <1>1 DEF Grew, Fresh, QueueTypes, QueueInv, InOrder, Rng

FreshOf(new) == {[job |-> new[i], seq |-> enqueued + i] : i \in 1 .. Len(new)}

\* Enqueue puts its jobs, numbered on, behind those in the queue.
LEMMA EnqueueGrows ==
  ASSUME QueueTypes, QueueInv, NEW new \in Seq(AllJobs), Enqueue(new)
  PROVE  Grew(FreshOf(new))
  <1> DEFINE t == [i \in 1 .. Len(new) |-> [job |-> new[i], seq |-> enqueued + i]]
  <1>1. enqueued \in Nat /\ Len(new) \in Nat /\ enqueued' = enqueued + Len(new)
    BY LenProperties DEF QueueTypes, Enqueue
  <1>2. \A i \in 1 .. Len(new) : new[i] \in AllJobs
    BY ElementOfSeq
  <1>3. \A i \in 1 .. Len(new) : [job |-> new[i], seq |-> enqueued + i] \in Queued
    BY <1>1, <1>2 DEF Queued
  <1>4. /\ t \in Seq(Queued) /\ DOMAIN t = 1 .. Len(new)
        /\ \A i \in 1 .. Len(new) : t[i] = [job |-> new[i], seq |-> enqueued + i]
    BY <1>1, <1>3, IsASeq
  <1>5. Rng(t) = FreshOf(new) /\ InOrder(t)
    <2>1. \A i \in 1 .. Len(new) : t[i].seq = enqueued + i
      BY <1>4
    <2>2. InOrder(t)
      BY <1>1, <1>4, <2>1 DEF InOrder
    <2> QED
      BY <1>4, <2>2 DEF Rng, FreshOf
  <1>6. jobs' = jobs \o t /\ jobs \in Seq(Queued)
    BY DEF Enqueue, QueueTypes
  <1> HIDE DEF t
  <1>7. Before(Rng(jobs), Rng(t))
    <2>1. \A x \in Rng(jobs) : x.seq \in 1 .. enqueued
      BY DEF QueueInv, Jobs
    <2>2. \A x \in Rng(t) : x.seq \in enqueued + 1 .. enqueued + Len(new)
      BY <1>1, <1>5 DEF FreshOf
    <2> QED
      BY <1>1, <2>1, <2>2 DEF Before
  <1>8. jobs' \in Seq(Queued) /\ Rng(jobs') = Rng(jobs) \cup FreshOf(new) /\ InOrder(jobs')
    BY <1>4, <1>5, <1>6, <1>7, RngConcat, InOrderConcat DEF QueueInv
  <1>9. Fresh(FreshOf(new))
    <2>1. FreshOf(new) \subseteq Queued
      BY <1>3 DEF FreshOf
    <2>2. \A x \in FreshOf(new) : x.seq \in enqueued + 1 .. enqueued'
      BY <1>1 DEF FreshOf
    <2>3. ASSUME NEW n \in enqueued + 1 .. enqueued'
          PROVE  \E x \in FreshOf(new) : x.seq = n
      <3>1. n - enqueued \in 1 .. Len(new) /\ enqueued + (n - enqueued) = n
        BY <1>1
      <3>2. [job |-> new[n - enqueued], seq |-> n] \in FreshOf(new)
        BY <3>1 DEF FreshOf
      <3> QED
        BY <3>2
    <2> QED
      BY <1>1, <2>1, <2>2, <2>3 DEF Fresh
  <1> QED
    BY <1>8, <1>9 DEF Grew

\* The next three are the ways in which a step treats the batches.  No job is
\* begun ...
LEMMA MoveNone ==
  ASSUME QueueTypes, QueueInv, NEW new, Grew(new), batch' = batch, inner' = inner,
         started' = started
  PROVE  Moved({}, new) /\ QueueTypes' /\ QueueInv'
  <1>1. Moved({}, new)
    BY DEF Moved, Grew, Jobs
  <1>2. QueueTypes'
    BY DEF QueueTypes, Grew, Fresh
  <1>3. Rng(batch)' = Rng(batch) /\ Rng(inner)' = Rng(inner)
    BY DEF Rng
  <1>4. \A x \in Rng(batch) \cup Rng(inner), y \in new : x.seq < y.seq
    <2>1. \A x \in Rng(batch) \cup Rng(inner) : x.seq \in 1 .. enqueued
      BY DEF QueueInv, Jobs
    <2>2. \A y \in new : y.seq \in enqueued + 1 .. enqueued'
      BY DEF Grew, Fresh
    <2> QED
      BY <2>1, <2>2 DEF QueueTypes
  <1>5. \A x \in Jobs' : x.seq \in 1 .. enqueued' /\ x.seq \notin started'
    <2>1. ASSUME NEW x \in Jobs PROVE x.seq \in 1 .. enqueued' /\ x.seq \notin started'
      BY DEF QueueInv, Grew, Fresh, QueueTypes
    <2>2. ASSUME NEW x \in new PROVE x.seq \in 1 .. enqueued' /\ x.seq \notin started'
      BY DEF Grew, Fresh, QueueTypes
    <2> QED
      BY <1>1, <2>1, <2>2 DEF Moved
  <1>6. InOrder(batch)' /\ InOrder(inner)' /\ InOrder(jobs)'
    BY DEF Grew, QueueInv, InOrder
  <1>7. Before(Rng(batch), Rng(inner))' /\ Before(Rng(batch), Rng(jobs))' /\ Before(Rng(inner), Rng(jobs))'
    BY <1>3, <1>4 DEF Grew, QueueInv, Before
  <1> QED
    BY <1>1, <1>2, <1>5, <1>6, <1>7 DEF QueueInv

\* ... or one is begun: the head of the batch the engine is at ...
LEMMA MoveStart ==
  ASSUME QueueTypes, QueueInv, NEW new, Grew(new), Rest # <<>>, SetRest(Tail(Rest)),
         started' = started \cup {Head(Rest).seq}
  PROVE  /\ Head(Rest) \in Jobs /\ Head(Rest) \in Queued
         /\ Moved({Head(Rest)}, new) /\ QueueTypes' /\ QueueInv'
  <1> DEFINE h == Head(Rest)
  <1>1. Rest \in Seq(Queued) /\ InOrder(Rest)
    BY DEF Rest, QueueTypes, QueueInv
  <1>2. /\ Tail(Rest) \in Seq(Queued) /\ h \in Queued /\ h \in Rng(Rest)
        /\ InOrder(Tail(Rest)) /\ Rng(Tail(Rest)) = Rng(Rest) \ {h}
        /\ \A x \in Rng(Tail(Rest)) : h.seq < x.seq
    BY <1>1, RngTail, InOrderTail
  <1>3. h \in Jobs
    BY <1>2 DEF Rest, Jobs
  <1>4. /\ batch' \in Seq(Queued) /\ inner' \in Seq(Queued)
        /\ InOrder(batch') /\ InOrder(inner')
        /\ Rng(batch') \subseteq Rng(batch) /\ Rng(inner') \subseteq Rng(inner)
        /\ Rng(batch') \cup Rng(inner') = (Rng(batch) \cup Rng(inner)) \ {h}
    <2>1. CASE nested = "draining"
      <3>1. inner' = Tail(inner) /\ batch' = batch /\ Rest = inner
        BY <2>1 DEF SetRest, Rest
      <3>2. h \notin Rng(batch)
        BY <1>2, <3>1, JobsApart
      <3> QED
        BY <1>2, <3>1, <3>2 DEF QueueTypes, QueueInv
    <2>2. CASE nested # "draining"
      <3>1. batch' = Tail(batch) /\ inner' = inner /\ Rest = batch
        BY <2>2 DEF SetRest, Rest
      <3>2. h \notin Rng(inner)
        BY <1>2, <3>1, JobsApart
      <3> QED
        BY <1>2, <3>1, <3>2 DEF QueueTypes, QueueInv
    <2> QED
      BY <2>1, <2>2
  <1>5. h \notin Rng(jobs)
    BY <1>2, JobsApart DEF Rest
  <1>6. Moved({h}, new)
    BY <1>3, <1>4, <1>5 DEF Moved, Grew, Jobs, Fresh, QueueInv
  <1>7. \A x \in Rng(batch) \cup Rng(inner), y \in new : x.seq < y.seq
    <2>1. \A x \in Rng(batch) \cup Rng(inner) : x.seq \in 1 .. enqueued
      BY DEF QueueInv, Jobs
    <2>2. \A y \in new : y.seq \in enqueued + 1 .. enqueued'
      BY DEF Grew, Fresh
    <2> QED
      BY <2>1, <2>2 DEF QueueTypes
  <1>8. h.seq \in 1 .. enqueued /\ h.seq \notin started
    BY <1>3 DEF QueueInv
  <1>9. \A x \in Jobs' : x.seq \in 1 .. enqueued' /\ x.seq \notin started'
    <2>1. ASSUME NEW x \in Jobs, x # h PROVE x.seq \in 1 .. enqueued' /\ x.seq \notin started'
      <3>1. x.seq \in 1 .. enqueued /\ x.seq \notin started
        BY DEF QueueInv
      <3>2. x.seq # h.seq
        BY <1>3, <2>1, JobsDiffer
      <3> QED
        BY <3>1, <3>2 DEF Grew, Fresh, QueueTypes
    <2>2. ASSUME NEW x \in new PROVE x.seq \in 1 .. enqueued' /\ x.seq \notin started'
      BY <1>8 DEF Grew, Fresh, QueueTypes
    <2> QED
      BY <1>6, <2>1, <2>2 DEF Moved
  <1>10. QueueTypes'
    <2>1. enqueued' \in Nat /\ jobs' \in Seq(Queued)
      BY DEF Grew, Fresh
    <2>2. \A n \in started' : n \in 1 .. enqueued
      BY <1>8 DEF QueueTypes
    <2>3. 1 .. enqueued \subseteq 1 .. enqueued'
      BY DEF Grew, Fresh, QueueTypes
    <2> QED
      BY <1>4, <2>1, <2>2, <2>3 DEF QueueTypes
  <1>11. Before(Rng(batch), Rng(inner))' /\ Before(Rng(batch), Rng(jobs))' /\ Before(Rng(inner), Rng(jobs))'
    <2>1. Rng(jobs)' = Rng(jobs) \cup new /\ Rng(batch)' = Rng(batch') /\ Rng(inner)' = Rng(inner')
      BY DEF Grew, Rng
    <2> QED
      BY <2>1, <1>4, <1>7 DEF QueueInv, Before
  <1>12. InOrder(batch)' /\ InOrder(inner)' /\ InOrder(jobs)'
    BY <1>4 DEF Grew, InOrder
  <1> QED
    BY <1>2, <1>3, <1>6, <1>9, <1>10, <1>11, <1>12 DEF QueueInv

\* ... or the rest of that batch is dropped, its head begun or not.
LEMMA MoveFail ==
  ASSUME QueueTypes, QueueInv, SetRest(<<>>), UNCHANGED queue,
         \/ started' = started
         \/ Rest # <<>> /\ started' = started \cup {Head(Rest).seq}
  PROVE  /\ Moved(Rng(Rest), {}) /\ QueueTypes' /\ QueueInv'
         /\ \A x \in Rng(Rest) : x.seq \notin {y.seq : y \in Jobs'}
         /\ Rest # <<>> => Head(Rest) \in Rng(Rest) /\ Head(Rest) \in Queued
  <1>1. Rng(Rest) \subseteq Jobs
    BY DEF Rest, Jobs
  <1>2. jobs' = jobs /\ enqueued' = enqueued
    BY DEF queue
  <1>3. Rng(<<>>) = {} /\ InOrder(<<>>) /\ <<>> \in Seq(Queued)
    BY RngEmpty
  <1>4. /\ batch' \in Seq(Queued) /\ inner' \in Seq(Queued)
        /\ InOrder(batch') /\ InOrder(inner')
        /\ Rng(batch') \subseteq Rng(batch) /\ Rng(inner') \subseteq Rng(inner)
        /\ Rng(batch') \cup Rng(inner') = (Rng(batch) \cup Rng(inner)) \ Rng(Rest)
    <2>1. CASE nested = "draining"
      <3>1. inner' = <<>> /\ batch' = batch /\ Rest = inner
        BY <2>1 DEF SetRest, Rest
      <3>2. Rng(inner) \cap Rng(batch) = {}
        BY JobsApart
      <3> QED
        BY <1>3, <3>1, <3>2 DEF QueueTypes, QueueInv
    <2>2. CASE nested # "draining"
      <3>1. batch' = <<>> /\ inner' = inner /\ Rest = batch
        BY <2>2 DEF SetRest, Rest
      <3>2. Rng(inner) \cap Rng(batch) = {}
        BY JobsApart
      <3> QED
        BY <1>3, <3>1, <3>2 DEF QueueTypes, QueueInv
    <2> QED
      BY <2>1, <2>2
  <1>5. Rng(Rest) \cap Rng(jobs) = {}
    BY JobsApart DEF Rest
  <1>6. Rng(jobs)' = Rng(jobs) /\ Rng(batch)' = Rng(batch') /\ Rng(inner)' = Rng(inner')
    BY <1>2 DEF Rng
  <1>7. Jobs' = Jobs \ Rng(Rest)
    BY <1>4, <1>5, <1>6 DEF Jobs
  <1>8. Moved(Rng(Rest), {})
    BY <1>1, <1>2, <1>7 DEF Moved, Fresh, QueueTypes
  <1>9. \A x \in Rng(Rest), y \in Jobs' : x.seq # y.seq
    BY <1>1, <1>7, JobsDiffer
  <1>10. Rest # <<>> => Head(Rest) \in Rng(Rest) /\ Head(Rest) \in Queued
    <2>1. Rest \in Seq(Queued)
      BY DEF Rest, QueueTypes
    <2> QED
      BY <2>1, RngTail
  <1>11. QueueTypes'
    <2>1. started' \subseteq 1 .. enqueued
      <3>1. CASE started' = started
        BY <3>1 DEF QueueTypes
      <3>2. CASE Rest # <<>> /\ started' = started \cup {Head(Rest).seq}
        <4>1. Head(Rest).seq \in 1 .. enqueued
          BY <1>1, <1>10, <3>2 DEF QueueInv
        <4> QED
          BY <3>2, <4>1 DEF QueueTypes
      <3> QED
        BY <3>1, <3>2
    <2> QED
      BY <1>2, <1>4, <2>1 DEF QueueTypes
  <1>12. \A x \in Jobs' : x.seq \in 1 .. enqueued' /\ x.seq \notin started'
    BY <1>2, <1>7, <1>9, <1>10 DEF QueueInv
  <1>13. Before(Rng(batch), Rng(inner))' /\ Before(Rng(batch), Rng(jobs))' /\ Before(Rng(inner), Rng(jobs))'
    BY <1>4, <1>6 DEF QueueInv, Before
  <1>14. InOrder(batch)' /\ InOrder(inner)' /\ InOrder(jobs)'
    BY <1>2, <1>4 DEF QueueInv, InOrder
  <1> QED
    BY <1>8, <1>9, <1>10, <1>11, <1>12, <1>13, <1>14 DEF QueueInv

\* Jobs that only change lists are the same jobs.
LEMMA MoveLists ==
  ASSUME QueueTypes, QueueInv, UNCHANGED <<enqueued, started>>, nested # "draining" => inner = <<>>,
         \/ /\ Rest = <<>> /\ SetRest(jobs) /\ jobs' = <<>>
         \/ jobs' = inner \o jobs /\ inner' = <<>> /\ batch' = batch
  PROVE  Moved({}, {}) /\ QueueTypes' /\ QueueInv'
  <1>1. Rng(<<>>) = {} /\ InOrder(<<>>) /\ <<>> \in Seq(Queued)
    BY RngEmpty
  <1>2. inner \o jobs \in Seq(Queued) /\ Rng(inner \o jobs) = Rng(inner) \cup Rng(jobs)
        /\ InOrder(inner \o jobs)
    BY RngConcat, InOrderConcat DEF QueueTypes, QueueInv
  <1>3. \/ batch = <<>> /\ batch' = jobs /\ inner' = inner /\ jobs' = <<>> /\ inner = <<>>
        \/ inner = <<>> /\ inner' = jobs /\ batch' = batch /\ jobs' = <<>>
        \/ jobs' = inner \o jobs /\ inner' = <<>> /\ batch' = batch
    BY DEF Rest, SetRest
  <1>4. /\ batch' \in Seq(Queued) /\ inner' \in Seq(Queued) /\ jobs' \in Seq(Queued)
        /\ InOrder(batch') /\ InOrder(inner') /\ InOrder(jobs')
        /\ Rng(batch') \cup Rng(inner') \cup Rng(jobs') = Jobs
        /\ Before(Rng(batch'), Rng(inner')) /\ Before(Rng(batch'), Rng(jobs'))
        /\ Before(Rng(inner'), Rng(jobs'))
    <2>1. CASE /\ batch = <<>> /\ batch' = jobs /\ inner' = inner
               /\ jobs' = <<>> /\ inner = <<>>
      BY <1>1, <2>1 DEF QueueTypes, QueueInv, Jobs, Before
    <2>2. CASE inner = <<>> /\ inner' = jobs /\ batch' = batch /\ jobs' = <<>>
      BY <1>1, <2>2 DEF QueueTypes, QueueInv, Jobs, Before
    <2>3. CASE jobs' = inner \o jobs /\ inner' = <<>> /\ batch' = batch
      BY <1>1, <1>2, <2>3 DEF QueueTypes, QueueInv, Jobs, Before
    <2> QED
      BY <1>3, <2>1, <2>2, <2>3
  <1>5. Jobs' = Jobs
    BY <1>4 DEF Jobs, Rng
  <1>6. QueueTypes' /\ Moved({}, {})
    BY <1>4, <1>5 DEF QueueTypes, Moved, Fresh
  <1> QED
    BY <1>4, <1>5, <1>6 DEF QueueInv, InOrder, Before, Rng

-----------------------------------------------------------------------------
(* The operations of promise.rs, with the jobs they enqueue as a set.       *)

SettleJobs(p, outcome, v) ==
  {[job |-> ReactionJob(p, reactions[p][i], outcome = "fulfilled", v), seq |-> enqueued + i] :
     i \in DOMAIN reactions[p]}

Settles(p, outcome, v, new) ==
  IF state[p] # "pending" THEN UNCHANGED slots /\ new = {}
  ELSE /\ state' = [state EXCEPT ![p] = outcome]
       /\ result' = [result EXCEPT ![p] = v]
       /\ reactions' = [reactions EXCEPT ![p] = <<>>]
       /\ new = SettleJobs(p, outcome, v)

Resolves(p, v, new) ==
  \/ /\ v \in Thenables \cup (Promise \ {p})
     /\ UNCHANGED slots
     /\ adopts' = [adopts EXCEPT ![p] = IF v \in Promise THEN v ELSE Nobody]
     /\ new = {[job |-> ThenableJob(p, v), seq |-> enqueued + 1]}
  \/ /\ v = p \/ v \in Poisoned
     /\ Settles(p, "rejected", Failure, new) /\ UNCHANGED adopts
  \/ /\ v \in Plainly
     /\ Settles(p, "fulfilled", v, new) /\ UNCHANGED adopts

Calls(k, how, v, new) ==
  /\ resolved' = resolved \cup {k}
  /\ IF k \in resolved THEN UNCHANGED <<slots, adopts>> /\ new = {}
     ELSE IF how = "resolve" THEN Resolves(target[k], v, new)
     ELSE Settles(target[k], "rejected", v, new) /\ UNCHANGED adopts

Registers(p, on_fulfilled, on_rejected, k, new) ==
  LET r == Registration(on_fulfilled, on_rejected, k)
  IN  /\ regs' = regs + 1
      /\ IF state[p] = "pending"
         THEN reactions' = [reactions EXCEPT ![p] = Append(@, r)] /\ new = {}
         ELSE /\ UNCHANGED reactions
              /\ new = {[job |-> ReactionJob(p, r, state[p] = "fulfilled", result[p]),
                         seq |-> enqueued + 1]}

AwaitJob(f, v) ==
  LET resume == Handler("resume", f)
  IN  ReactionJob(Nobody, Registration(resume, resume, NoPair), v \in Plain,
                  IF v \in Plain THEN v ELSE Failure)

Awaits(f, v, new) ==
  /\ body' = [body EXCEPT ![f] = "suspended"]
  /\ LET resume == Handler("resume", f)
     IN  \/ v \in Promise /\ Registers(v, resume, resume, NoPair, new)
         \/ /\ v \in Plain \cup Poisoned
            /\ regs' = regs + 1 /\ UNCHANGED reactions
            /\ new = {[job |-> AwaitJob(f, v), seq |-> enqueued + 1]}

\* A reaction job of a registration is a job.
LEMMA ReactionJobType ==
  ASSUME NEW r \in Registrations, NEW p \in Promise \cup {Nobody}, NEW fulfil \in BOOLEAN,
         NEW v \in Results
  PROVE  ReactionJob(p, r, fulfil, v) \in AllJobs
  <1>1. Half(r, fulfil) \in Handlers
    BY DEF Half, Registrations
  <1> QED
    BY <1>1 DEF ReactionJob, AllJobs, ReactionJobs, Registrations

\* What then and await register has the type of a registration.
LEMMA RegistrationType ==
  ASSUME TypeInv, NEW h \in Handlers, NEW g \in Handlers, NEW k \in Caps
  PROVE  Registration(h, g, k) \in Registrations
  BY DEF Registration, Registrations, TypeInv, ObjectTypes

\* One job enqueued.
LEMMA EnqueueOne ==
  ASSUME TypeInv, QueueInv, NEW job \in AllJobs, Enqueue(<<job>>)
  PROVE  Grew({[job |-> job, seq |-> enqueued + 1]})
  <1>1. <<job>> \in Seq(AllJobs) /\ Len(<<job>>) = 1 /\ <<job>>[1] = job
    OBVIOUS
  <1>2. Grew(FreshOf(<<job>>))
    BY <1>1, EnqueueGrows DEF TypeInv
  <1>3. FreshOf(<<job>>) = {[job |-> <<job>>[i], seq |-> enqueued + i] : i \in {1}}
    BY <1>1 DEF FreshOf
  <1>4. FreshOf(<<job>>) = {[job |-> job, seq |-> enqueued + 1]}
    BY <1>1, <1>3
  <1> QED
    BY <1>2, <1>4

\* settle_promise: the jobs it enqueues are those of the matching reactions.
LEMMA SettleEffect ==
  ASSUME TypeInv, QueueInv, NEW p \in Promise, NEW outcome, NEW v \in Results,
         settle_promise(p, outcome, v)
  PROVE  \E new : Grew(new) /\ Settles(p, outcome, v, new)
  <1>1. CASE state[p] # "pending"
    <2>1. UNCHANGED queue /\ UNCHANGED slots
      BY <1>1 DEF settle_promise
    <2>2. Grew({})
      BY <2>1, Unqueued DEF TypeInv
    <2> QED
      BY <1>1, <2>1, <2>2 DEF Settles
  <1>2. CASE state[p] = "pending"
    <2> DEFINE n == Len(reactions[p])
               t == [i \in 1 .. n |-> ReactionJob(p, reactions[p][i], outcome = "fulfilled", v)]
    <2>1. reactions[p] \in Seq(Registrations) /\ n \in Nat /\ DOMAIN reactions[p] = 1 .. n
      BY LenProperties DEF TypeInv, SlotTypes
    <2>2. \A i \in 1 .. n : ReactionJob(p, reactions[p][i], outcome = "fulfilled", v) \in AllJobs
      <3>1. \A i \in 1 .. n : reactions[p][i] \in Registrations
        BY <2>1, ElementOfSeq
      <3> QED
        BY <3>1, ReactionJobType
    <2>3. t \in Seq(AllJobs) /\ Len(t) = n
          /\ \A i \in 1 .. n : t[i] = ReactionJob(p, reactions[p][i], outcome = "fulfilled", v)
      BY <2>1, <2>2, IsASeq
    <2>4. Enqueue(t) /\ state' = [state EXCEPT ![p] = outcome]
          /\ result' = [result EXCEPT ![p] = v] /\ reactions' = [reactions EXCEPT ![p] = <<>>]
      BY <1>2 DEF settle_promise
    <2> HIDE DEF t
    <2>5. Grew(FreshOf(t))
      BY <2>3, <2>4, EnqueueGrows DEF TypeInv
    <2>6. FreshOf(t) = SettleJobs(p, outcome, v)
      BY <2>1, <2>3 DEF FreshOf, SettleJobs
    <2> QED
      BY <1>2, <2>4, <2>5, <2>6 DEF Settles
  <1> QED
    BY <1>1, <1>2

\* resolve_promise enqueues a thenable job, or the jobs of a settlement.
LEMMA ResolveEffect ==
  ASSUME TypeInv, QueueInv, NEW p \in Promise, NEW v \in Results, resolve_promise(p, v)
  PROVE  \E new : Grew(new) /\ Resolves(p, v, new)
  <1>1. CASE v \in Thenables \cup (Promise \ {p})
    <2>1. ThenableJob(p, v) \in AllJobs
      BY <1>1 DEF ThenableJob, AllJobs, ThenableJobs
    <2>2. Grew({[job |-> ThenableJob(p, v), seq |-> enqueued + 1]})
      BY <1>1, <2>1, EnqueueOne DEF resolve_promise
    <2> QED
      BY <1>1, <2>2 DEF resolve_promise, Resolves
  <1>2. CASE v \notin Thenables \cup (Promise \ {p}) /\ (v = p \/ v \in Poisoned)
    BY <1>2, SettleEffect DEF resolve_promise, Resolves, Results
  <1>3. CASE v \notin Thenables \cup (Promise \ {p}) /\ ~(v = p \/ v \in Poisoned)
    BY <1>3, SettleEffect DEF resolve_promise, Resolves, Results, Plainly
  <1> QED
    BY <1>1, <1>2, <1>3

\* A call of a resolving function does what resolve_promise or settle_promise
\* do, or nothing.
LEMMA CallEffect ==
  ASSUME TypeInv, QueueInv, NEW k \in DOMAIN target, NEW how, NEW v \in Results,
         CallPair(k, how, v)
  PROVE  \E new : Grew(new) /\ Calls(k, how, v, new)
  <1>1. CASE k \in resolved
    BY <1>1, Unqueued DEF CallPair, Calls, TypeInv
  <1>2. CASE k \notin resolved
    <2>1. target[k] \in Promise
      BY DEF TypeInv, ObjectTypes
    <2> QED
      BY <1>2, <2>1, ResolveEffect, SettleEffect DEF CallPair, Calls
  <1> QED
    BY <1>1, <1>2

\* Register enqueues at most the job of the registration it makes.
LEMMA RegisterEffect ==
  ASSUME TypeInv, QueueInv, NEW p \in Promise, NEW h \in Handlers, NEW g \in Handlers,
         NEW k \in Caps, Register(p, h, g, k)
  PROVE  \E new : Grew(new) /\ Registers(p, h, g, k, new)
  <1> DEFINE r == Registration(h, g, k)
  <1>1. CASE state[p] = "pending"
    BY <1>1, Unqueued DEF Register, Registers, TypeInv
  <1>2. CASE state[p] # "pending"
    <2>1. ReactionJob(p, r, state[p] = "fulfilled", result[p]) \in AllJobs
      BY RegistrationType, ReactionJobType DEF TypeInv, SlotTypes
    <2> QED
      BY <1>2, <2>1, EnqueueOne DEF Register, Registers
  <1> QED
    BY <1>1, <1>2

\* An await enqueues at most the job that resumes its body.
LEMMA AwaitEffect ==
  ASSUME TypeInv, QueueInv, NEW f \in AsyncFunctions, NEW v \in Results, Await(f, v)
  PROVE  \E new : Grew(new) /\ Awaits(f, v, new)
  <1> DEFINE resume == Handler("resume", f)
  <1>1. resume \in Handlers /\ NoPair \in Caps
    BY DEF Handler, Handlers, Caps
  <1>2. CASE v \in Promise /\ Register(v, resume, resume, NoPair)
    BY <1>1, <1>2, RegisterEffect DEF Await, Awaits
  <1>3. CASE /\ v \in Plain \cup Poisoned
             /\ regs' = regs + 1
             /\ Enqueue(<<ReactionJob(Nobody, Registration(resume, resume, NoPair), v \in Plain,
                                      IF v \in Plain THEN v ELSE Failure)>>)
             /\ UNCHANGED reactions
    <2>1. AwaitJob(f, v) \in AllJobs
      <3>1. Registration(resume, resume, NoPair) \in Registrations
        BY <1>1, RegistrationType
      <3>2. (IF v \in Plain THEN v ELSE Failure) \in Results
        BY DEF Results
      <3>3. (v \in Plain) \in BOOLEAN
        OBVIOUS
      <3> QED
        BY <3>1, <3>2, <3>3, ReactionJobType DEF AwaitJob
    <2>2. Grew({[job |-> AwaitJob(f, v), seq |-> enqueued + 1]})
      BY <1>3, <2>1, EnqueueOne DEF AwaitJob
    <2> QED
      BY <1>3, <2>2 DEF Await, Awaits
  <1> QED
    BY <1>2, <1>3 DEF Await

-----------------------------------------------------------------------------
(* The steps, by what they do to promises, pairs and waiting jobs.          *)

QueueOK == QueueTypes /\ QueueInv

\* What is a promise resolved with.
Resolutions == Values \cup {Failure, Namespace, Undefined}

\* A call of a function of the pair k, while no job begins.
Calling(k) ==
  /\ k \in DOMAIN target
  /\ \E how \in {"resolve", "reject"}, v \in Resolutions : \E new :
       Calls(k, how, v, new) /\ Moved({}, new)

\* The promises made so far are promises.
LEMMA BornType == ASSUME TypeInv PROVE born \in Nat /\ 1 .. born \subseteq Promise
  BY PromiseAssumption DEF Promise, TypeInv, ObjectTypes

\* What user code, or the engine, resolves with is a result a promise may
\* have.
LEMMA ValuesType == ASSUME TypeInv PROVE Values \subseteq Results /\ Resolutions \subseteq Results
  BY BornType DEF Values, Results, Resolutions

\* What Start says of the job that begins.
LEMMA StartFacts ==
  ASSUME AInv, NEW type, Start(type)
  PROVE  /\ Rest # <<>> /\ Head(Rest) \in Jobs /\ Head(Rest) \in Queued
         /\ started' = started \cup {Head(Rest).seq}
         /\ Head(Rest).job \in AllJobs /\ Head(Rest).job.type = type
         /\ Idle /\ host = "draining" /\ nested \in {"none", "draining"}
  <1>1. Rest # <<>> /\ Rest \in Seq(Queued)
    BY DEF Start, Rest, AInv, TypeInv, QueueTypes
  <1>2. Head(Rest) \in Queued /\ Head(Rest) \in Rng(Rest)
    BY <1>1, RngTail
  <1>3. Head(Rest) \in Jobs
    BY <1>2 DEF Rest, Jobs
  <1> QED
    BY <1>1, <1>2, <1>3 DEF Start, Draining, Queued

\* A call while no job begins, and as the effect of a job that begins.
LEMMA CallMoves ==
  ASSUME AInv, NEW k \in DOMAIN target, NEW how \in {"resolve", "reject"}, NEW v \in Results,
         CallPair(k, how, v), batch' = batch, inner' = inner, started' = started
  PROVE  QueueOK' /\ \E new : Calls(k, how, v, new) /\ Moved({}, new)
  <1>1. PICK new : Grew(new) /\ Calls(k, how, v, new)
    BY CallEffect DEF AInv
  <1> QED
    BY <1>1, MoveNone DEF AInv, TypeInv, QueueOK

\* A call as the effect of the job that begins keeps the queue in order.
LEMMA CallStarts ==
  ASSUME AInv, NEW k \in DOMAIN target, NEW how \in {"resolve", "reject"}, NEW v \in Results,
         CallPair(k, how, v), Rest # <<>>, SetRest(Tail(Rest)),
         started' = started \cup {Head(Rest).seq}
  PROVE  QueueOK' /\ \E new : Calls(k, how, v, new) /\ Moved({Head(Rest)}, new)
  <1>1. PICK new : Grew(new) /\ Calls(k, how, v, new)
    BY CallEffect DEF AInv
  <1> QED
    BY <1>1, MoveStart DEF AInv, TypeInv, QueueOK

\* Steps that leave the promises alone.
LEMMA KeepMoves ==
  ASSUME AInv, UNCHANGED queue, batch' = batch, inner' = inner, started' = started
  PROVE  QueueOK' /\ Moved({}, {})
  BY Unqueued, MoveNone DEF AInv, TypeInv, QueueOK

\* A job that begins, and enqueues nothing, just leaves.
LEMMA KeepStarts ==
  ASSUME AInv, UNCHANGED queue, Rest # <<>>, SetRest(Tail(Rest)),
         started' = started \cup {Head(Rest).seq}
  PROVE  QueueOK' /\ Moved({Head(Rest)}, {})
  BY Unqueued, MoveStart DEF AInv, TypeInv, QueueOK

-----------------------------------------------------------------------------
(* User calls.                                                             *)

NewStep(p, k) ==
  /\ NewPromise(p) /\ NewPair(k, p) /\ held' = held \cup {k} /\ Moved({}, {})
  /\ UNCHANGED <<resolved, nested, importing, running, host, async, regs, reacted, adopts>>

\* new Promise: no job moves.
LEMMA NewMoves ==
  ASSUME AInv, New
  PROVE  QueueOK' /\ \E p \in Promise, k \in Pair : NewStep(p, k)
  <1>1. QueueOK' /\ Moved({}, {})
    BY KeepMoves DEF New, drain
  <1> QED
    BY <1>1 DEF New, NewStep, drain

\* A call of a function that user code holds: it is a call of a pair made
\* before.
LEMMA CallResolvingMoves ==
  ASSUME AInv, CallResolving
  PROVE  QueueOK' /\ \E k \in held : Calling(k)
  <1>1. PICK k \in held, how \in {"resolve", "reject"}, v \in Values : CallPair(k, how, v)
    BY DEF CallResolving
  <1>2. k \in DOMAIN target /\ v \in Results
    BY ValuesType DEF AInv, TypeInv, ObjectTypes
  <1>3. batch' = batch /\ inner' = inner /\ started' = started
    BY DEF CallResolving, drain
  <1>4. QueueOK' /\ \E new : Calls(k, how, v, new) /\ Moved({}, new)
    BY <1>1, <1>2, <1>3, CallMoves
  <1> QED
    BY <1>2, <1>4 DEF Calling, Resolutions

ThenNative(p, q, k, on_fulfilled, on_rejected, new) ==
  /\ p \in 1 .. born /\ q \in Promise /\ q = born + 1 /\ born' = q /\ NewPair(k, q)
  /\ state' = [state EXCEPT ![q] = "pending"]
  /\ Registers(p, on_fulfilled, on_rejected, k, new)

ThenSpecies(p, on_fulfilled, on_rejected, new) ==
  /\ "species" \in Features /\ p \in 1 .. born
  /\ Registers(p, on_fulfilled, on_rejected, Throwing, new)
  /\ UNCHANGED <<born, target, state>>

\* then: the job it enqueues, if the promise has settled, is the only new
\* one.
LEMMA ThenMoves ==
  ASSUME AInv, Then
  PROVE  /\ QueueOK'
         /\ \E p \in Promise, on_fulfilled, on_rejected \in {NoHandler, UserHandler} : \E new :
              /\ Moved({}, new)
              /\ \/ \E q \in Promise, k \in Pair : ThenNative(p, q, k, on_fulfilled, on_rejected, new)
                 \/ ThenSpecies(p, on_fulfilled, on_rejected, new)
  <1>1. PICK p \in 1 .. born, h \in {NoHandler, UserHandler}, g \in {NoHandler, UserHandler} :
          \/ \E q \in Promise, k \in Pair :
               /\ NewPair(k, q) /\ q = born + 1 /\ born' = q
               /\ Register(p, h, g, k)
               /\ state' = [state EXCEPT ![q] = "pending"]
          \/ /\ "species" \in Features
             /\ Register(p, h, g, Throwing)
             /\ UNCHANGED <<born, target, state>>
    BY DEF Then
  <1>2. p \in Promise
    BY BornType DEF AInv
  <1>3. h \in Handlers /\ g \in Handlers /\ Throwing \in Caps /\ Pair \subseteq Caps
    BY DEF NoHandler, UserHandler, Handler, Handlers, Caps
  <1>4. batch' = batch /\ inner' = inner /\ started' = started
    BY DEF Then, drain
  <1>5. \A new : Grew(new) => Moved({}, new) /\ QueueOK'
    BY <1>4, MoveNone DEF AInv, TypeInv, QueueOK
  <1>6. CASE \E q \in Promise, k \in Pair :
               /\ NewPair(k, q) /\ q = born + 1 /\ born' = q
               /\ Register(p, h, g, k)
               /\ state' = [state EXCEPT ![q] = "pending"]
    <2>1. PICK q \in Promise, k \in Pair :
               /\ NewPair(k, q) /\ q = born + 1 /\ born' = q
               /\ Register(p, h, g, k)
               /\ state' = [state EXCEPT ![q] = "pending"]
      BY <1>6
    <2>2. PICK new : Grew(new) /\ Registers(p, h, g, k, new)
      BY <1>2, <1>3, <2>1, RegisterEffect DEF AInv
    <2> QED
      BY <1>2, <1>5, <2>1, <2>2 DEF ThenNative
  <1>7. CASE /\ "species" \in Features
             /\ Register(p, h, g, Throwing)
             /\ UNCHANGED <<born, target, state>>
    <2>1. PICK new : Grew(new) /\ Registers(p, h, g, Throwing, new)
      BY <1>2, <1>3, <1>7, RegisterEffect DEF AInv
    <2> QED
      BY <1>2, <1>5, <1>7, <2>1 DEF ThenSpecies
  <1> QED
    BY <1>1, <1>6, <1>7

CallAsyncStep(f, p, v, new) ==
  /\ body[f] = "uncalled" /\ p = born + 1 /\ born' = p
  /\ state' = [state EXCEPT ![p] = "pending"]
  /\ promise_of' = [promise_of EXCEPT ![f] = p]
  /\ Awaits(f, v, new) /\ Moved({}, new)

\* A call of an async function: its first await makes the only new job.
LEMMA CallAsyncMoves ==
  ASSUME AInv, CallAsync
  PROVE  /\ QueueOK'
         /\ \E f \in AsyncFunctions, p \in Promise, v \in Values : \E new : CallAsyncStep(f, p, v, new)
  <1>1. PICK f \in AsyncFunctions, p \in Promise, v \in Values :
          /\ body[f] = "uncalled" /\ p = born + 1 /\ born' = p
          /\ state' = [state EXCEPT ![p] = "pending"]
          /\ promise_of' = [promise_of EXCEPT ![f] = p]
          /\ Await(f, v)
    BY DEF CallAsync
  <1>2. PICK new : Grew(new) /\ Awaits(f, v, new)
    BY <1>1, AwaitEffect, ValuesType DEF AInv
  <1>3. Moved({}, new) /\ QueueOK'
    BY <1>2, MoveNone DEF CallAsync, drain, AInv, TypeInv, QueueOK
  <1> QED
    BY <1>1, <1>2, <1>3 DEF CallAsyncStep

ImportedJob(k) == [job |-> ImportJob(k), seq |-> enqueued + 1]

\* import(): the import job is the only new one.
LEMMA ImportMoves ==
  ASSUME AInv, dynamic_import
  PROVE  /\ QueueOK'
         /\ \E p \in Promise, k \in Pair :
              NewPromise(p) /\ NewPair(k, p) /\ Moved({}, {ImportedJob(k)})
  <1>1. PICK p \in Promise, k \in Pair :
          NewPromise(p) /\ NewPair(k, p) /\ Enqueue(<<ImportJob(k)>>)
    BY DEF dynamic_import
  <1>2. ImportJob(k) \in AllJobs
    BY DEF ImportJob, ImportJobs, AllJobs
  <1>3. Grew({ImportedJob(k)})
    BY <1>1, <1>2, EnqueueOne DEF AInv, ImportedJob
  <1>4. Moved({}, {ImportedJob(k)}) /\ QueueOK'
    BY <1>3, MoveNone DEF dynamic_import, drain, AInv, TypeInv, QueueOK
  <1> QED
    BY <1>1, <1>4

-----------------------------------------------------------------------------
(* Steps of a drain.                                                       *)

\* Taking a batch, and handing one back, moves jobs between the lists and
\* loses none.
LEMMA TakeBatchMoves ==
  ASSUME AInv, TakeBatch \/ EndNestedDrain
  PROVE  QueueOK' /\ Moved({}, {})
  BY MoveLists DEF TakeBatch, EndNestedDrain, AInv, TypeInv, PhaseTypes, QueueOK

\* A call of what stands as a capability: a pair, or nothing.
LEMMA CapabilityCall ==
  ASSUME AInv, NEW k \in DOMAIN target \cup {NoPair},
         NEW how \in {"resolve", "reject"}, NEW v \in Results,
         settle_reaction_capability(k, how, v)
  PROVE  \/ UNCHANGED <<slots, queue, resolved, adopts>>
         \/ k \in DOMAIN target /\ CallPair(k, how, v)
  <1>1. CASE k = NoPair
    BY <1>1 DEF settle_reaction_capability
  <1>2. CASE k # NoPair
    BY <1>2 DEF settle_reaction_capability
  <1> QED
    BY <1>1, <1>2

\* What RunReaction does with its job h, if the drain goes on: it answers with
\* a call of the pair k, or it begins code of the script's.
Answers(h, k, new) ==
  LET how == IF h.job.fulfil THEN "resolve" ELSE "reject"
  IN  /\ k \in DOMAIN target
      /\ Calls(k, how, h.job.arg, new) /\ Moved({h}, new)
      /\ UNCHANGED <<running, body, nested, host>>

Begins(h) ==
  /\ Moved({h}, {}) /\ UNCHANGED <<slots, resolved, adopts, nested, host>>
  /\ \/ h.job.handler.kind = "none" /\ h.job.cap = NoPair /\ UNCHANGED <<running, body>>
     \/ h.job.handler.kind = "user" /\ running' = Code("handler", h.job.cap) /\ UNCHANGED body
     \/ /\ h.job.handler.kind = "resume" /\ running' = Code("body", h.job.handler.of)
        /\ body' = [body EXCEPT ![h.job.handler.of] = "running"]

\* ... or it throws, and what follows in its batch goes too.
Fails(h) ==
  /\ h.job.handler.kind = "none" /\ h.job.cap = Throwing
  /\ h \in Rng(Rest) /\ Moved(Rng(Rest), {})
  /\ \A x \in Rng(Rest) : x.seq \notin {y.seq : y \in Jobs'}
  /\ UNCHANGED <<slots, resolved, adopts, running, body>> /\ FailDrain

ReactionStep(h) ==
  /\ h \in Jobs /\ h \in Queued /\ h.job \in ReactionJobs
  /\ started' = started \cup {h.seq} /\ reacted' = reacted \cup {h.job.reg}
  /\ \/ Fails(h)
     \/ Begins(h)
     \/ \E new : /\ h.job.handler.kind = "none" /\ h.job.cap # Throwing
                 /\ Answers(h, h.job.cap, new)
     \/ \E new : h.job.handler.kind = "settle" /\ Answers(h, h.job.handler.of, new)

\* A reaction job does one of what ReactionStep names.
LEMMA ReactionMoves ==
  ASSUME AInv, RunReaction
  PROVE  QueueOK' /\ ReactionStep(Head(Rest)) /\ Idle /\ host = "draining"
         /\ nested \in {"none", "draining"}
  <1> DEFINE h == Head(Rest)
             j == h.job
             how == IF j.fulfil THEN "resolve" ELSE "reject"
  <1>1. /\ Rest # <<>> /\ h \in Jobs /\ h \in Queued /\ started' = started \cup {h.seq}
        /\ j \in AllJobs /\ j.type = "reaction" /\ Idle /\ host = "draining"
        /\ nested \in {"none", "draining"}
    BY StartFacts DEF RunReaction
  <1>2. j \in ReactionJobs
    BY <1>1 DEF AllJobs, ThenableJobs, ImportJobs
  <1>3. reacted' = reacted \cup {j.reg}
    BY DEF RunReaction
  <1>4. /\ how \in {"resolve", "reject"} /\ j.arg \in Results
        /\ j.cap \in Made /\ (j.handler.kind = "settle" => j.handler.of \in DOMAIN target)
    BY <1>1, <1>2 DEF ReactionJobs, AInv, Known, KnownLists, KnownJob
  <1>5. CASE /\ j.handler.kind = "none" /\ j.cap = Throwing
             /\ FailDrain /\ UNCHANGED <<running, body>>
    <2>1. SetRest(<<>>) /\ UNCHANGED queue /\ UNCHANGED <<slots, resolved, adopts>>
      BY <1>5 DEF FailDrain
    <2>2. /\ Moved(Rng(Rest), {}) /\ QueueOK' /\ h \in Rng(Rest)
          /\ \A x \in Rng(Rest) : x.seq \notin {y.seq : y \in Jobs'}
      BY <1>1, <2>1, MoveFail DEF AInv, TypeInv, QueueOK
    <2> QED
      BY <1>1, <1>2, <1>3, <1>5, <2>1, <2>2 DEF ReactionStep, Fails
  <1>6. ASSUME NEW k \in DOMAIN target \cup {NoPair}, SetRest(Tail(Rest)),
               settle_reaction_capability(k, how, j.arg), UNCHANGED <<running, body>>
        PROVE  /\ QueueOK' /\ UNCHANGED <<nested, host>>
               /\ \/ \E new : Answers(h, k, new)
                  \/ k = NoPair /\ Moved({h}, {}) /\ UNCHANGED <<slots, resolved, adopts>>
    <2>1. UNCHANGED <<nested, host>>
      BY <1>6 DEF settle_reaction_capability
    <2>2. CASE k = NoPair
      <3>1. UNCHANGED <<slots, queue, resolved, adopts>>
        BY <1>6, <2>2 DEF settle_reaction_capability
      <3> QED
        BY <1>1, <1>6, <2>1, <2>2, <3>1, KeepStarts
    <2>3. CASE k # NoPair
      <3>1. k \in DOMAIN target /\ CallPair(k, how, j.arg)
        BY <1>6, <2>3 DEF settle_reaction_capability
      <3>2. QueueOK' /\ \E new : Calls(k, how, j.arg, new) /\ Moved({h}, new)
        BY <1>1, <1>4, <1>6, <3>1, CallStarts
      <3> QED
        BY <1>6, <2>1, <3>1, <3>2 DEF Answers
    <2> QED
      BY <2>2, <2>3
  <1>7. CASE /\ j.handler.kind = "none" /\ j.cap # Throwing
             /\ SetRest(Tail(Rest))
             /\ settle_reaction_capability(j.cap, how, j.arg)
             /\ UNCHANGED <<running, body>>
    <2>1. j.cap \in DOMAIN target \cup {NoPair}
      BY <1>4, <1>7 DEF Made
    <2> HIDE DEF how
    <2>2. /\ QueueOK' /\ UNCHANGED <<nested, host>>
          /\ \/ \E new : Answers(h, j.cap, new)
             \/ j.cap = NoPair /\ Moved({h}, {}) /\ UNCHANGED <<slots, resolved, adopts>>
      BY <1>6, <1>7, <2>1
    <2> QED
      BY <1>1, <1>2, <1>3, <1>7, <2>2 DEF ReactionStep, Begins
  <1>8. CASE /\ j.handler.kind = "settle"
             /\ SetRest(Tail(Rest))
             /\ settle_reaction_capability(j.handler.of, how, j.arg)
             /\ UNCHANGED <<running, body>>
    <2>1. j.handler.of \in DOMAIN target /\ j.handler.of # NoPair
      <3>1. DOMAIN target \subseteq Pair
        BY PromiseAssumption DEF Pair, AInv, TypeInv, ObjectTypes
      <3> QED
        BY <1>4, <1>8, <3>1, PromiseAssumption
    <2> HIDE DEF how
    <2>2. QueueOK' /\ \E new : Answers(h, j.handler.of, new)
      BY <1>6, <1>8, <2>1
    <2> QED
      BY <1>1, <1>2, <1>3, <1>8, <2>2 DEF ReactionStep
  <1>9. CASE /\ j.handler.kind \in {"user", "resume"}
             /\ SetRest(Tail(Rest))
             /\ IF j.handler.kind = "user"
                THEN running' = Code("handler", j.cap) /\ UNCHANGED body
                ELSE /\ running' = Code("body", j.handler.of)
                     /\ body' = [body EXCEPT ![j.handler.of] = "running"]
             /\ UNCHANGED <<slots, queue, resolved, adopts, nested, host>>
    <2>1. QueueOK' /\ Moved({h}, {})
      BY <1>1, <1>9, KeepStarts
    <2>2. Begins(h)
      BY <1>9, <2>1 DEF Begins
    <2> QED
      BY <1>1, <1>2, <1>3, <2>1, <2>2 DEF ReactionStep
  <1> QED
    <2>1. \/ /\ j.handler.kind = "none" /\ j.cap = Throwing
             /\ FailDrain /\ UNCHANGED <<running, body>>
          \/ /\ j.handler.kind = "none" /\ j.cap # Throwing
             /\ SetRest(Tail(Rest))
             /\ settle_reaction_capability(j.cap, how, j.arg)
             /\ UNCHANGED <<running, body>>
          \/ /\ j.handler.kind = "settle"
             /\ SetRest(Tail(Rest))
             /\ settle_reaction_capability(j.handler.of, how, j.arg)
             /\ UNCHANGED <<running, body>>
          \/ /\ j.handler.kind \in {"user", "resume"}
             /\ SetRest(Tail(Rest))
             /\ IF j.handler.kind = "user"
                THEN running' = Code("handler", j.cap) /\ UNCHANGED body
                ELSE /\ running' = Code("body", j.handler.of)
                     /\ body' = [body EXCEPT ![j.handler.of] = "running"]
             /\ UNCHANGED <<slots, queue, resolved, adopts, nested, host>>
      BY DEF RunReaction
    <2> QED
      BY <1>1, <1>5, <1>7, <1>8, <1>9, <2>1

\* The pair k is made for the promise of the job h; then is called on h's
\* thenable, natively or as code of the script's.
ThenableStep(h, k, new) ==
  /\ h \in Jobs /\ h \in Queued /\ h.job \in ThenableJobs
  /\ k \in Pair /\ NewPair(k, h.job.promise) /\ Moved({h}, new)
  /\ \/ /\ h.job.thenable \in Promise
        /\ Registers(h.job.thenable, Handler("settle", k), Handler("settle", k), NoPair, new)
        /\ UNCHANGED <<held, running>>
     \/ /\ h.job.thenable \in Thenables /\ new = {}
        /\ held' = held \cup {k} /\ running' = Code("then", k)
        /\ UNCHANGED <<reactions, regs>>

\* A thenable job does what ThenableStep says.
LEMMA ThenableMoves ==
  ASSUME AInv, RunThenable
  PROVE  /\ QueueOK' /\ Idle /\ host = "draining" /\ nested \in {"none", "draining"}
         /\ started' = started \cup {Head(Rest).seq}
         /\ \E k, new : ThenableStep(Head(Rest), k, new)
  <1> DEFINE h == Head(Rest)
             j == h.job
  <1>1. /\ Rest # <<>> /\ h \in Jobs /\ h \in Queued /\ started' = started \cup {h.seq}
        /\ j \in AllJobs /\ j.type = "thenable" /\ Idle /\ host = "draining"
        /\ nested \in {"none", "draining"} /\ SetRest(Tail(Rest))
    BY StartFacts DEF RunThenable
  <1>2. j \in ThenableJobs
    BY <1>1 DEF AllJobs, ReactionJobs, ImportJobs
  <1>3. PICK k \in Pair :
           /\ NewPair(k, j.promise)
           /\ \/ /\ j.thenable \in Promise
                 /\ Register(j.thenable, Handler("settle", k), Handler("settle", k), NoPair)
                 /\ UNCHANGED <<held, running>>
              \/ /\ j.thenable \in Thenables
                 /\ held' = held \cup {k}
                 /\ running' = Code("then", k)
                 /\ UNCHANGED <<reactions, queue, regs>>
    BY DEF RunThenable
  <1>4. CASE /\ j.thenable \in Promise
             /\ Register(j.thenable, Handler("settle", k), Handler("settle", k), NoPair)
             /\ UNCHANGED <<held, running>>
    <2>1. Handler("settle", k) \in Handlers /\ NoPair \in Caps
      BY DEF Handler, Handlers, Caps
    <2>2. PICK new : Grew(new) /\ Registers(j.thenable, Handler("settle", k), Handler("settle", k), NoPair, new)
      BY <1>4, <2>1, RegisterEffect DEF AInv
    <2>3. QueueOK' /\ Moved({h}, new)
      BY <1>1, <2>2, MoveStart DEF AInv, TypeInv, QueueOK
    <2> QED
      BY <1>1, <1>2, <1>3, <1>4, <2>2, <2>3 DEF ThenableStep
  <1>5. CASE /\ j.thenable \in Thenables
             /\ held' = held \cup {k}
             /\ running' = Code("then", k)
             /\ UNCHANGED <<reactions, queue, regs>>
    <2>1. QueueOK' /\ Moved({h}, {})
      BY <1>1, <1>5, KeepStarts
    <2> QED
      BY <1>1, <1>2, <1>3, <1>5, <2>1 DEF ThenableStep
  <1> QED
    BY <1>3, <1>4, <1>5

\* An import job rejects, runs the body of its module, or begins a nested
\* drain.
LEMMA RunImportMoves ==
  ASSUME AInv, RunImport
  PROVE  /\ QueueOK' /\ Idle /\ host = "draining" /\ nested = "none"
         /\ \E h \in Jobs :
              /\ h \in Queued /\ h.job \in ImportJobs /\ h.job.cap \in DOMAIN target
              /\ started' = started \cup {h.seq}
              /\ \/ /\ \E new : Calls(h.job.cap, "reject", Failure, new) /\ Moved({h}, new)
                    /\ UNCHANGED <<running, nested, importing>>
                 \/ /\ running' = Code("module", h.job.cap) /\ Moved({h}, {})
                    /\ UNCHANGED <<slots, resolved, adopts, nested, importing>>
                 \/ /\ nested' = "draining" /\ importing' = h.job.cap /\ Moved({h}, {})
                    /\ UNCHANGED <<slots, resolved, adopts, running>>
  <1> DEFINE h == Head(Rest)
  <1>1. /\ Rest # <<>> /\ h \in Jobs /\ h \in Queued /\ started' = started \cup {h.seq}
        /\ h.job \in AllJobs /\ h.job.type = "import" /\ Idle /\ host = "draining"
    BY StartFacts DEF RunImport
  <1>2. h.job \in ImportJobs /\ h.job.cap \in DOMAIN target
    BY <1>1 DEF AllJobs, ReactionJobs, ThenableJobs, AInv, Known, KnownLists, KnownJob
  <1>3. nested = "none" /\ Rest = batch /\ SetRest(Tail(Rest))
    BY DEF RunImport, Rest, SetRest
  <1>4. CASE /\ CallPair(h.job.cap, "reject", Failure)
             /\ UNCHANGED <<running, nested, importing>>
    <2>1. Failure \in Results
      BY DEF Results
    <2>2. QueueOK' /\ \E new : Calls(h.job.cap, "reject", Failure, new) /\ Moved({h}, new)
      BY <1>1, <1>2, <1>3, <1>4, <2>1, CallStarts
    <2> QED
      BY <1>1, <1>2, <1>3, <1>4, <2>2
  <1>5. CASE UNCHANGED <<slots, queue, resolved, adopts>>
             /\ \/ running' = Code("module", h.job.cap) /\ UNCHANGED <<nested, importing>>
                \/ nested' = "draining" /\ importing' = h.job.cap /\ UNCHANGED running
    <2>1. QueueOK' /\ Moved({h}, {})
      BY <1>1, <1>3, <1>5, KeepStarts
    <2> QED
      BY <1>1, <1>2, <1>3, <1>5, <2>1
  <1> QED
    <2>1. \/ CallPair(h.job.cap, "reject", Failure) /\ UNCHANGED <<running, nested, importing>>
          \/ /\ UNCHANGED <<slots, queue, resolved, adopts>>
             /\ \/ running' = Code("module", h.job.cap) /\ UNCHANGED <<nested, importing>>
                \/ nested' = "draining" /\ importing' = h.job.cap /\ UNCHANGED running
      BY <1>3 DEF RunImport
    <2> QED
      BY <1>4, <1>5, <2>1

\* The pair of the import job around a nested drain has been made.
LEMMA ImportingMade ==
  ASSUME AInv, nested # "none"
  PROVE  importing \in DOMAIN target
  <1>1. importing \in Pair /\ importing \in Made
    BY DEF AInv, TypeInv, PhaseTypes, Known, KnownCode
  <1> QED
    BY <1>1, PromiseAssumption DEF Made

\* The end of an import job is a call of the pair it has made.
LEMMA SettleImportMoves ==
  ASSUME AInv, SettleImport
  PROVE  QueueOK' /\ importing \in DOMAIN target
         /\ Calling(importing)
  <1>1. importing \in DOMAIN target
    BY ImportingMade DEF SettleImport
  <1>2. \/ CallPair(importing, "resolve", Namespace)
        \/ CallPair(importing, "reject", Failure)
    BY DEF SettleImport
  <1>3. /\ Namespace \in Results /\ Failure \in Results
        /\ Namespace \in Resolutions /\ Failure \in Resolutions
    BY DEF Results, Resolutions
  <1>4. batch' = batch /\ inner' = inner /\ started' = started
    BY DEF SettleImport
  <1> QED
    BY <1>1, <1>2, <1>3, <1>4, CallMoves DEF Calling

-----------------------------------------------------------------------------
(* Completions.                                                            *)

\* What a completion does for the capability k.
Settling(k) ==
  \/ UNCHANGED <<slots, resolved, adopts>> /\ Moved({}, {})
  \/ Calling(k)

\* A handler that ends fails the drain, if its capability throws, or settles
\* the capability.
LEMMA HandlerEndsMoves ==
  ASSUME AInv, HandlerEnds
  PROVE  /\ QueueOK' /\ started' = started
         /\ \/ /\ running.of = Throwing /\ FailDrain /\ Moved(Rng(Rest), {})
               /\ UNCHANGED <<slots, resolved, adopts>>
               /\ \A x \in Rng(Rest) : x.seq \notin {y.seq : y \in Jobs'}
            \/ running.of # Throwing /\ Settling(running.of) /\ UNCHANGED <<nested, host>>
  <1>1. started' = started /\ running.of \in Made
    BY DEF HandlerEnds, AInv, Known, KnownCode
  <1>2. CASE running.of = Throwing /\ FailDrain
    <2>1. SetRest(<<>>) /\ UNCHANGED queue /\ UNCHANGED <<slots, resolved, adopts>>
      BY <1>2 DEF FailDrain
    <2>2. /\ Moved(Rng(Rest), {}) /\ QueueOK'
          /\ \A x \in Rng(Rest) : x.seq \notin {y.seq : y \in Jobs'}
      BY <1>1, <2>1, MoveFail DEF AInv, TypeInv, QueueOK
    <2> QED
      BY <1>1, <1>2, <2>1, <2>2
  <1>3. CASE /\ running.of # Throwing
             /\ \E how \in {"resolve", "reject"}, v \in Values :
                  settle_reaction_capability(running.of, how, v)
             /\ UNCHANGED <<batch, inner>>
    <2>1. PICK how \in {"resolve", "reject"}, v \in Values :
             settle_reaction_capability(running.of, how, v)
      BY <1>3
    <2>2. v \in Results /\ running.of \in DOMAIN target \cup {NoPair}
      BY <1>1, <1>3, ValuesType DEF Made, AInv
    <2>3. UNCHANGED <<nested, host>>
      BY <2>1 DEF settle_reaction_capability
    <2>4. CASE UNCHANGED <<slots, queue, resolved, adopts>>
      BY <1>1, <1>3, <2>3, <2>4, KeepMoves DEF Settling
    <2>5. CASE running.of \in DOMAIN target /\ CallPair(running.of, how, v)
      <3>1. QueueOK' /\ \E new : Calls(running.of, how, v, new) /\ Moved({}, new)
        BY <1>1, <1>3, <2>2, <2>5, CallMoves
      <3> QED
        BY <1>1, <1>3, <2>2, <2>3, <2>5, <3>1 DEF Settling, Calling, Resolutions
    <2> QED
      BY <2>1, <2>2, <2>4, <2>5, CapabilityCall
  <1> QED
    BY <1>2, <1>3 DEF HandlerEnds

\* The pair that the then method of a thenable, or the body of a module, is for.
LEMMA CodeMade ==
  ASSUME AInv, running.kind \in {"then", "module"}
  PROVE  running.of \in DOMAIN target
  <1>1. running.of \in Pair /\ running.of \in Made
    BY DEF AInv, TypeInv, PhaseTypes, Codes, Known, KnownCode
  <1> QED
    BY <1>1, PromiseAssumption DEF Made

\* A then method that ends calls the reject function of its pair, or nothing.
LEMMA ThenMethodEndsMoves ==
  ASSUME AInv, ThenMethodEnds
  PROVE  QueueOK' /\ Settling(running.of)
  <1>1. running.of \in DOMAIN target
    BY CodeMade DEF ThenMethodEnds
  <1>2. batch' = batch /\ inner' = inner /\ started' = started
    BY DEF ThenMethodEnds, drain
  <1>3. CASE UNCHANGED <<slots, queue, resolved, adopts>>
    BY <1>2, <1>3, KeepMoves DEF Settling
  <1>4. CASE \E v \in Values : CallPair(running.of, "reject", v)
    <2>1. PICK v \in Values : CallPair(running.of, "reject", v)
      BY <1>4
    <2>2. v \in Results
      BY ValuesType DEF AInv
    <2>3. QueueOK' /\ \E new : Calls(running.of, "reject", v, new) /\ Moved({}, new)
      BY <1>1, <1>2, <2>1, <2>2, CallMoves
    <2> QED
      BY <1>1, <2>2, <2>3 DEF Settling, Calling, Resolutions
  <1> QED
    BY <1>3, <1>4 DEF ThenMethodEnds

\* The body of a module that ends begins the nested drain, or rejects.
LEMMA ModuleEndsMoves ==
  ASSUME AInv, ModuleEnds
  PROVE  QueueOK' /\ running.of \in DOMAIN target
         /\ \/ /\ nested' = "draining" /\ importing' = running.of /\ Moved({}, {})
               /\ UNCHANGED <<slots, resolved, adopts>>
            \/ Settling(running.of) /\ UNCHANGED <<nested, importing>>
  <1>1. running.of \in DOMAIN target
    BY CodeMade DEF ModuleEnds
  <1>2. batch' = batch /\ inner' = inner /\ started' = started
    BY DEF ModuleEnds
  <1>3. CASE /\ nested' = "draining" /\ importing' = running.of
             /\ UNCHANGED <<slots, queue, resolved, adopts>>
    BY <1>1, <1>2, <1>3, KeepMoves
  <1>4. CASE (\E v \in Values : CallPair(running.of, "reject", v)) /\ UNCHANGED <<nested, importing>>
    <2>1. PICK v \in Values : CallPair(running.of, "reject", v)
      BY <1>4
    <2>2. v \in Results
      BY ValuesType DEF AInv
    <2>3. QueueOK' /\ \E new : Calls(running.of, "reject", v, new) /\ Moved({}, new)
      BY <1>1, <1>2, <2>1, <2>2, CallMoves
    <2> QED
      BY <1>1, <1>4, <2>2, <2>3 DEF Settling, Calling, Resolutions
  <1> QED
    BY <1>3, <1>4 DEF ModuleEnds

\* The function whose body runs.
LEMMA BodyRuns ==
  ASSUME AInv, running.kind = "body"
  PROVE  running.of \in AsyncFunctions /\ body[running.of] = "running"
         /\ promise_of[running.of] \in Promise
  <1>1. running.of \in AsyncFunctions /\ body[running.of] = "running"
    BY DEF AInv, TypeInv, PhaseTypes, Codes, Known, KnownCode
  <1> QED
    BY <1>1 DEF AInv, TypeInv, ObjectTypes, Known, KnownObjects

\* A further await of a body: the job it makes is the only new one.
LEMMA AwaitAgainMoves ==
  ASSUME AInv, AwaitAgain
  PROVE  QueueOK' /\ \E v \in Values : \E new : Awaits(running.of, v, new) /\ Moved({}, new)
  <1>1. PICK v \in Values : Await(running.of, v)
    BY DEF AwaitAgain
  <1>2. PICK new : Grew(new) /\ Awaits(running.of, v, new)
    BY <1>1, AwaitEffect, ValuesType, BodyRuns DEF AInv, AwaitAgain
  <1>3. Moved({}, new) /\ QueueOK'
    BY <1>2, MoveNone DEF AwaitAgain, drain, AInv, TypeInv, QueueOK
  <1> QED
    BY <1>2, <1>3

\* A body that ends resolves or rejects the promise of its function.
LEMMA BodyEndsMoves ==
  ASSUME AInv, BodyEnds
  PROVE  LET p == promise_of[running.of]
         IN  QueueOK' /\ \E v \in Values : \E new :
               /\ Moved({}, new)
               /\ \/ Resolves(p, v, new)
                  \/ Settles(p, "rejected", v, new) /\ UNCHANGED adopts
  <1> DEFINE p == promise_of[running.of]
  <1>1. PICK v \in Values : \/ resolve_promise(p, v)
                            \/ settle_promise(p, "rejected", v) /\ UNCHANGED adopts
    BY DEF BodyEnds
  <1>2. p \in Promise /\ v \in Results
    BY BodyRuns, ValuesType DEF BodyEnds, AInv
  <1> HIDE DEF p
  <1>3. PICK new : Grew(new) /\ \/ Resolves(p, v, new)
                                \/ Settles(p, "rejected", v, new) /\ UNCHANGED adopts
    BY <1>1, <1>2, ResolveEffect, SettleEffect DEF AInv
  <1>4. Moved({}, new) /\ QueueOK'
    BY <1>3, MoveNone DEF BodyEnds, drain, AInv, TypeInv, QueueOK
  <1> QED
    BY <1>3, <1>4 DEF p

\* The steps of the host move no job.
LEMMA OtherMoves ==
  ASSUME AInv, ScriptEnds \/ run_jobs \/ DrainEnds
  PROVE  QueueOK' /\ Moved({}, {})
  BY KeepMoves DEF ScriptEnds, run_jobs, DrainEnds, drain, queue

-----------------------------------------------------------------------------
(* Type correctness.                                                       *)

\* Settling keeps the types of the slots ...
LEMMA SettlesTypes ==
  ASSUME TypeInv, NEW p \in Promise, NEW outcome \in {"fulfilled", "rejected"},
         NEW v \in Results, NEW new, Settles(p, outcome, v, new), UNCHANGED adopts
  PROVE  SlotTypes'
  <1>1. <<>> \in Seq(Registrations)
    OBVIOUS
  <1> QED
    BY <1>1 DEF Settles, slots, TypeInv, SlotTypes

\* ... so does resolving ...
LEMMA ResolvesTypes ==
  ASSUME TypeInv, NEW p \in Promise, NEW v \in Results, NEW new, Resolves(p, v, new)
  PROVE  SlotTypes'
  <1>1. CASE v \in Thenables \cup (Promise \ {p}) /\ UNCHANGED slots
             /\ adopts' = [adopts EXCEPT ![p] = IF v \in Promise THEN v ELSE Nobody]
    BY <1>1 DEF slots, TypeInv, SlotTypes
  <1>2. CASE Settles(p, "rejected", Failure, new) /\ UNCHANGED adopts
    BY <1>2, SettlesTypes DEF Results
  <1>3. CASE Settles(p, "fulfilled", v, new) /\ UNCHANGED adopts
    BY <1>3, SettlesTypes
  <1> QED
    BY <1>1, <1>2, <1>3 DEF Resolves

\* ... and so does a call of a resolving function.
LEMMA CallsTypes ==
  ASSUME TypeInv, NEW k \in DOMAIN target, NEW how, NEW v \in Results, NEW new,
         Calls(k, how, v, new)
  PROVE  SlotTypes' /\ resolved' \subseteq DOMAIN target
  <1>1. target[k] \in Promise /\ resolved' \subseteq DOMAIN target
    BY DEF TypeInv, ObjectTypes, Calls
  <1>2. CASE UNCHANGED <<slots, adopts>>
    BY <1>1, <1>2 DEF slots, TypeInv, SlotTypes
  <1> QED
    BY <1>1, <1>2, ResolvesTypes, SettlesTypes DEF Calls

\* Registering keeps the types of the lists of reactions ...
LEMMA RegistersTypes ==
  ASSUME TypeInv, NEW p \in Promise, NEW h \in Handlers, NEW g \in Handlers, NEW k \in Caps,
         NEW new, Registers(p, h, g, k, new)
  PROVE  reactions' \in [Promise -> Seq(Registrations)] /\ regs' = regs + 1
  <1>1. Append(reactions[p], Registration(h, g, k)) \in Seq(Registrations)
    BY RegistrationType DEF TypeInv, SlotTypes
  <1> QED
    BY <1>1 DEF Registers, TypeInv, SlotTypes

\* ... and so does an await, which suspends its body.
LEMMA AwaitsTypes ==
  ASSUME TypeInv, NEW f \in AsyncFunctions, NEW v, NEW new, Awaits(f, v, new)
  PROVE  /\ reactions' \in [Promise -> Seq(Registrations)] /\ regs' = regs + 1
         /\ body' \in [AsyncFunctions -> {"uncalled", "suspended", "running", "done"}]
  <1>1. Handler("resume", f) \in Handlers /\ NoPair \in Caps
    BY DEF Handler, Handlers, Caps
  <1>2. body' \in [AsyncFunctions -> {"uncalled", "suspended", "running", "done"}]
    BY DEF Awaits, TypeInv, ObjectTypes
  <1>3. reactions' \in [Promise -> Seq(Registrations)] /\ regs' = regs + 1
    BY <1>1, RegistersTypes DEF Awaits, TypeInv, SlotTypes
  <1> QED
    BY <1>2, <1>3

\* A pair is made for p.
LEMMA NewPairTypes ==
  ASSUME TypeInv, NEW p \in Promise, NEW k \in Pair, NewPair(k, p)
  PROVE  /\ target' \in Seq(Promise) /\ Len(target') <= MaxPairs
         /\ DOMAIN target' = DOMAIN target \cup {k} /\ k \notin DOMAIN target
         /\ target'[k] = p /\ \A l \in DOMAIN target : target'[l] = target[l]
  <1>1. target \in Seq(Promise) /\ Len(target) \in Nat /\ DOMAIN target = 1 .. Len(target)
    BY LenProperties DEF TypeInv, ObjectTypes
  <1>2. /\ target' = Append(target, p) /\ k = Len(target) + 1 /\ k <= MaxPairs
    BY PromiseAssumption DEF NewPair, Pair
  <1>3. /\ target' \in Seq(Promise) /\ Len(target') = Len(target) + 1 /\ target'[k] = p
        /\ \A i \in 1 .. Len(target) : target'[i] = target[i]
        /\ DOMAIN target' = 1 .. Len(target) + 1
    BY <1>1, <1>2, AppendProperties, LenProperties
  <1> QED
    BY <1>1, <1>2, <1>3

\* Settling and calling leave what the types of the other variables are about.
LEMMA SettlingTypes ==
  ASSUME TypeInv, NEW k, Settling(k)
  PROVE  SlotTypes' /\ resolved' \subseteq DOMAIN target
  <1>1. CASE UNCHANGED <<slots, resolved, adopts>>
    BY <1>1 DEF slots, TypeInv, SlotTypes, ObjectTypes
  <1> QED
    BY <1>1, CallsTypes, ValuesType DEF Settling, Calling

\* A step that leaves the drains and the code that runs alone keeps their
\* types.
LEMMA PhaseUnchanged ==
  ASSUME TypeInv, UNCHANGED <<batch, inner, nested, importing, running, host>>,
         calls' = calls \/ calls' = calls + 1
  PROVE  PhaseTypes'
  BY DEF TypeInv, PhaseTypes, Idle

\* The objects, when a step only calls.
LEMMA ObjectsUnchanged ==
  ASSUME TypeInv, UNCHANGED <<objects, regs, reacted, async>>, resolved' \subseteq DOMAIN target
  PROVE  ObjectTypes'
  BY DEF TypeInv, ObjectTypes, objects, async

\* One more registration keeps the types of the history.
LEMMA RegsGrow ==
  ASSUME TypeInv, regs' = regs + 1, reacted' = reacted
  PROVE  regs' \in Nat /\ reacted' \subseteq 1 .. regs'
  BY DEF TypeInv, ObjectTypes

\* Each call of user code keeps the types ...
LEMMA UserCallTypes ==
  ASSUME AInv, UserCall
  PROVE  SlotTypes' /\ ObjectTypes' /\ PhaseTypes'
  <1> USE DEF AInv
  <1>1. CASE New
    <2>1. PICK p \in Promise, k \in Pair : NewStep(p, k)
      BY <1>1, NewMoves
    <2>2. SlotTypes'
      BY <1>1, <2>1 DEF NewStep, NewPromise, TypeInv, SlotTypes
    <2>3. born' \in 0 .. MaxPromises
      BY <2>1, PromiseAssumption DEF NewStep, NewPromise, Promise
    <2>4. ObjectTypes'
      BY <2>1, <2>3, NewPairTypes DEF NewStep, TypeInv, ObjectTypes, async
    <2>5. PhaseTypes'
      BY <1>1, PhaseUnchanged DEF New, drain, Call
    <2> QED
      BY <2>2, <2>4, <2>5
  <1>2. CASE CallResolving
    <2>1. PICK k \in held : Settling(k)
      BY <1>2, CallResolvingMoves DEF Settling
    <2>2. SlotTypes' /\ resolved' \subseteq DOMAIN target
      BY <2>1, SettlingTypes
    <2>3. ObjectTypes'
      BY <1>2, <2>2, ObjectsUnchanged DEF CallResolving
    <2>4. PhaseTypes'
      BY <1>2, PhaseUnchanged DEF CallResolving, drain, Call
    <2> QED
      BY <2>2, <2>3, <2>4
  <1>3. CASE Then
    <2>1. PICK p, h, g, new :
             /\ p \in Promise /\ h \in {NoHandler, UserHandler} /\ g \in {NoHandler, UserHandler}
             /\ \/ \E q \in Promise, k \in Pair : ThenNative(p, q, k, h, g, new)
                \/ ThenSpecies(p, h, g, new)
      BY <1>3, ThenMoves
    <2>2. /\ p \in Promise /\ h \in Handlers /\ g \in Handlers
          /\ Throwing \in Caps /\ Pair \subseteq Caps
      BY <2>1 DEF NoHandler, UserHandler, Handler, Handlers, Caps
    <2>3. UNCHANGED <<result, held, resolved, async, reacted, adopts>>
      BY <1>3 DEF Then
    <2>6. PhaseTypes'
      BY <1>3, PhaseUnchanged DEF Then, drain, Call
    <2>4. CASE \E q \in Promise, k \in Pair : ThenNative(p, q, k, h, g, new)
      <3>1. PICK q \in Promise, k \in Pair : ThenNative(p, q, k, h, g, new)
        BY <2>4
      <3>2. reactions' \in [Promise -> Seq(Registrations)] /\ regs' = regs + 1
        BY <2>2, <3>1, RegistersTypes DEF ThenNative
      <3>3. SlotTypes'
        BY <2>3, <3>1, <3>2 DEF ThenNative, TypeInv, SlotTypes
      <3>4. born' \in 0 .. MaxPromises
        BY <3>1, PromiseAssumption DEF ThenNative, Promise
      <3>5. ObjectTypes'
        BY <2>3, <3>1, <3>2, <3>4, NewPairTypes, RegsGrow DEF ThenNative, TypeInv, ObjectTypes, async
      <3> QED
        BY <2>6, <3>3, <3>5
    <2>5. CASE ThenSpecies(p, h, g, new)
      <3>1. reactions' \in [Promise -> Seq(Registrations)] /\ regs' = regs + 1
        BY <2>2, <2>5, RegistersTypes DEF ThenSpecies
      <3>2. SlotTypes'
        BY <2>3, <2>5, <3>1 DEF ThenSpecies, TypeInv, SlotTypes
      <3>3. ObjectTypes'
        BY <2>3, <2>5, <3>1, RegsGrow DEF ThenSpecies, TypeInv, ObjectTypes, async
      <3> QED
        BY <2>6, <3>2, <3>3
    <2> QED
      BY <2>1, <2>4, <2>5
  <1>4. CASE CallAsync
    <2>1. PICK f, p, v, new :
             f \in AsyncFunctions /\ p \in Promise /\ v \in Values /\ CallAsyncStep(f, p, v, new)
      BY <1>4, CallAsyncMoves
    <2>2. UNCHANGED <<result, target, held, resolved, reacted, adopts>>
      BY <1>4 DEF CallAsync
    <2>3. /\ reactions' \in [Promise -> Seq(Registrations)] /\ regs' = regs + 1
          /\ body' \in [AsyncFunctions -> {"uncalled", "suspended", "running", "done"}]
      BY <2>1, AwaitsTypes DEF CallAsyncStep
    <2>4. SlotTypes'
      BY <2>1, <2>2, <2>3 DEF CallAsyncStep, TypeInv, SlotTypes
    <2>5. born' \in 0 .. MaxPromises
      BY <2>1, PromiseAssumption DEF CallAsyncStep, Promise
    <2>6. ObjectTypes'
      BY <2>1, <2>2, <2>3, <2>5, RegsGrow DEF CallAsyncStep, TypeInv, ObjectTypes
    <2>7. PhaseTypes'
      BY <1>4, PhaseUnchanged DEF CallAsync, drain, Call
    <2> QED
      BY <2>4, <2>6, <2>7
  <1>5. CASE dynamic_import
    <2>1. PICK p \in Promise, k \in Pair : NewPromise(p) /\ NewPair(k, p)
      BY <1>5, ImportMoves
    <2>2. UNCHANGED <<held, resolved, async, regs, reacted, adopts>>
      BY <1>5 DEF dynamic_import
    <2>3. SlotTypes'
      BY <2>1, <2>2 DEF NewPromise, TypeInv, SlotTypes
    <2>4. born' \in 0 .. MaxPromises
      BY <2>1, PromiseAssumption DEF NewPromise, Promise
    <2>5. ObjectTypes'
      BY <2>1, <2>2, <2>4, NewPairTypes DEF TypeInv, ObjectTypes, async
    <2>6. PhaseTypes'
      BY <1>5, PhaseUnchanged DEF dynamic_import, drain, Call
    <2> QED
      BY <2>3, <2>5, <2>6
  <1> QED
    BY <1>1, <1>2, <1>3, <1>4, <1>5 DEF UserCall

\* The drain that fails.
LEMMA FailDrainPhase ==
  ASSUME TypeInv, FailDrain, nested \in {"none", "draining"}, running' = NoCode,
         importing' = importing, calls' = calls
  PROVE  PhaseTypes'
  BY DEF TypeInv, PhaseTypes, Idle, FailDrain, SetRest, Codes, NoCode, Code

\* Code of the script's that ends, or begins, in a drain that goes on.
LEMMA DrainGoesOn ==
  ASSUME TypeInv, host = "draining", UNCHANGED <<host, nested, importing, calls>>,
         nested \in {"none", "draining"}, running' \in Codes, running'.kind # "script",
         \/ UNCHANGED <<batch, inner>>
         \/ \E rest : SetRest(rest)
  PROVE  PhaseTypes'
  BY DEF TypeInv, PhaseTypes, Idle, SetRest

\* ... so does each way in which user code completes ...
LEMMA CompleteTypes ==
  ASSUME AInv, Complete
  PROVE  SlotTypes' /\ ObjectTypes' /\ PhaseTypes'
  <1> USE DEF AInv
  <1>1. CASE ScriptEnds
    <2>1. SlotTypes' /\ ObjectTypes'
      BY <1>1 DEF ScriptEnds, slots, objects, async, TypeInv, SlotTypes, ObjectTypes
    <2>2. PhaseTypes'
      BY <1>1 DEF ScriptEnds, drain, TypeInv, PhaseTypes, Codes, NoCode, Code, Idle
    <2> QED
      BY <2>1, <2>2
  <1>2. /\ NoCode \in Codes /\ NoCode.kind # "script"
        /\ (running.kind \in {"handler", "then", "module", "body"} =>
              ~Idle /\ host = "draining" /\ nested \in {"none", "draining"})
    BY DEF Codes, NoCode, Code, Idle, TypeInv, PhaseTypes
  <1>3. CASE HandlerEnds
    <2>1. running.kind = "handler" /\ running' = NoCode /\ UNCHANGED <<objects, importing, async, calls, regs, reacted>>
      BY <1>3 DEF HandlerEnds
    <2>2. \/ /\ running.of = Throwing /\ FailDrain /\ Moved(Rng(Rest), {})
             /\ UNCHANGED <<slots, resolved, adopts>>
          \/ running.of # Throwing /\ Settling(running.of) /\ UNCHANGED <<nested, host>>
      BY <1>3, HandlerEndsMoves
    <2>3. CASE FailDrain /\ UNCHANGED <<slots, resolved, adopts>>
      <3>1. SlotTypes' /\ resolved' \subseteq DOMAIN target
        BY <2>3 DEF slots, TypeInv, SlotTypes, ObjectTypes
      <3>2. PhaseTypes'
        BY <1>2, <2>1, <2>3, FailDrainPhase
      <3> QED
        BY <2>1, <3>1, <3>2, ObjectsUnchanged
    <2>4. CASE running.of # Throwing /\ Settling(running.of) /\ UNCHANGED <<nested, host>>
      <3>1. SlotTypes' /\ resolved' \subseteq DOMAIN target
        BY <2>4, SettlingTypes
      <3>2. UNCHANGED <<batch, inner>>
        BY <1>3, <2>4 DEF HandlerEnds
      <3>3. PhaseTypes'
        BY <1>2, <2>1, <2>4, <3>2, DrainGoesOn
      <3> QED
        BY <2>1, <3>1, <3>3, ObjectsUnchanged
    <2> QED
      BY <2>2, <2>3, <2>4
  <1>4. CASE ThenMethodEnds
    <2>1. /\ running.kind = "then" /\ running' = NoCode
          /\ UNCHANGED <<objects, batch, inner, nested, importing, host, async, calls, regs, reacted>>
      BY <1>4 DEF ThenMethodEnds, drain
    <2>2. SlotTypes' /\ resolved' \subseteq DOMAIN target
      BY <1>4, ThenMethodEndsMoves, SettlingTypes
    <2>3. PhaseTypes'
      BY <1>2, <2>1, DrainGoesOn
    <2> QED
      BY <2>1, <2>2, <2>3, ObjectsUnchanged
  <1>5. CASE ModuleEnds
    <2>1. /\ running.kind = "module" /\ running' = NoCode /\ running.of \in DOMAIN target
          /\ UNCHANGED <<objects, batch, inner, host, async, calls, regs, reacted>>
      BY <1>5, ModuleEndsMoves DEF ModuleEnds
    <2>2. \/ /\ nested' = "draining" /\ importing' = running.of
             /\ UNCHANGED <<slots, resolved, adopts>>
          \/ Settling(running.of) /\ UNCHANGED <<nested, importing>>
      BY <1>5, ModuleEndsMoves
    <2>3. SlotTypes' /\ resolved' \subseteq DOMAIN target
      BY <2>2, SettlingTypes DEF slots, TypeInv, SlotTypes, ObjectTypes
    <2>4. running.of \in Pair
      BY <2>1 DEF TypeInv, PhaseTypes, Codes
    <2>5. PhaseTypes'
      BY <1>2, <2>1, <2>2, <2>4, DrainGoesOn DEF TypeInv, PhaseTypes, Idle
    <2> QED
      BY <2>1, <2>3, <2>5, ObjectsUnchanged
  <1>6. CASE AwaitAgain
    <2>1. /\ running.kind = "body" /\ running' = NoCode /\ calls' = calls + 1
          /\ UNCHANGED <<state, result, objects, resolved, batch, inner, nested, importing, host,
                         promise_of, reacted, adopts>>
      BY <1>6 DEF AwaitAgain, drain
    <2>2. /\ reactions' \in [Promise -> Seq(Registrations)] /\ regs' = regs + 1
          /\ body' \in [AsyncFunctions -> {"uncalled", "suspended", "running", "done"}]
      BY <1>6, <2>1, AwaitAgainMoves, AwaitsTypes, BodyRuns
    <2>3. SlotTypes'
      BY <2>1, <2>2 DEF TypeInv, SlotTypes
    <2>4. ObjectTypes'
      BY <2>1, <2>2, RegsGrow DEF TypeInv, ObjectTypes, objects
    <2>5. PhaseTypes'
      BY <1>2, <2>1 DEF TypeInv, PhaseTypes, Idle
    <2> QED
      BY <2>3, <2>4, <2>5
  <1>7. CASE BodyEnds
    <2> DEFINE p == promise_of[running.of]
    <2>1. /\ running.kind = "body" /\ running' = NoCode
          /\ body' = [body EXCEPT ![running.of] = "done"]
          /\ UNCHANGED <<objects, resolved, batch, inner, nested, importing, host, promise_of,
                         calls, regs, reacted>>
      BY <1>7 DEF BodyEnds, drain
    <2>2. p \in Promise /\ running.of \in AsyncFunctions
      BY <2>1, BodyRuns
    <2>3. PICK v, new :
             /\ v \in Values
             /\ \/ Resolves(p, v, new)
                \/ Settles(p, "rejected", v, new) /\ UNCHANGED adopts
      BY <1>7, BodyEndsMoves
    <2> HIDE DEF p
    <2>4. SlotTypes'
      BY <2>2, <2>3, ResolvesTypes, SettlesTypes, ValuesType
    <2>5. ObjectTypes'
      BY <2>1, <2>2 DEF TypeInv, ObjectTypes, objects
    <2>6. PhaseTypes'
      BY <1>2, <2>1, DrainGoesOn
    <2> QED
      BY <2>4, <2>5, <2>6
  <1> QED
    BY <1>1, <1>3, <1>4, <1>5, <1>6, <1>7 DEF Complete

\* What a drain does to the objects when it only calls.
LEMMA ReactionTypes ==
  ASSUME AInv, RunReaction
  PROVE  SlotTypes' /\ ObjectTypes' /\ PhaseTypes'
  <1> DEFINE h == Head(Rest)
  <1> USE DEF AInv
  <1>1. /\ QueueOK' /\ ReactionStep(h) /\ Idle /\ host = "draining"
        /\ nested \in {"none", "draining"}
    BY ReactionMoves
  <1>2. UNCHANGED <<objects, importing, promise_of, calls, regs>>
    BY DEF RunReaction
  <1>3. h.job \in ReactionJobs /\ h \in Jobs /\ reacted' = reacted \cup {h.job.reg}
    BY <1>1 DEF ReactionStep
  <1> HIDE DEF h
  <1>4. h.job.reg \in 1 .. regs
    BY <1>3 DEF Known, KnownLists, KnownJob, ReactionJobs
  <1>5. \/ UNCHANGED <<batch, inner>>
        \/ \E rest : SetRest(rest)
    BY DEF RunReaction, FailDrain
  <1>6. NoCode \in Codes /\ NoCode.kind # "script" /\ running = NoCode
    BY <1>1 DEF Idle, NoCode, Code, Codes
  <1>7. reacted' \subseteq 1 .. regs
    BY <1>3, <1>4 DEF TypeInv, ObjectTypes
  <1>8. CASE Fails(h)
    <2>1. UNCHANGED <<slots, resolved, adopts, running, body>> /\ FailDrain
      BY <1>8 DEF Fails
    <2>2. PhaseTypes'
      BY <1>1, <1>2, <1>6, <2>1, FailDrainPhase
    <2> QED
      BY <1>2, <1>7, <2>1, <2>2 DEF TypeInv, SlotTypes, ObjectTypes, slots, objects
  <1>9. CASE Begins(h)
    <2>1. UNCHANGED <<slots, resolved, adopts, nested, host>>
      BY <1>9 DEF Begins
    <2>2. /\ running' \in Codes /\ running'.kind # "script"
          /\ body' \in [AsyncFunctions -> {"uncalled", "suspended", "running", "done"}]
      <3>1. h.job.cap \in Caps /\ h.job.handler \in Handlers
        BY <1>3 DEF ReactionJobs
      <3>2. h.job.handler.kind = "resume" => h.job.handler.of \in AsyncFunctions
        BY <3>1 DEF Handlers
      <3> QED
        BY <1>6, <1>9, <3>1, <3>2 DEF Begins, Codes, Code, TypeInv, ObjectTypes
    <2>3. PhaseTypes'
      BY <1>1, <1>2, <1>5, <2>1, <2>2, DrainGoesOn
    <2> QED
      BY <1>2, <1>7, <2>1, <2>2, <2>3 DEF TypeInv, SlotTypes, ObjectTypes, slots, objects
  <1>10. ASSUME NEW k, NEW new, Answers(h, k, new)
         PROVE  SlotTypes' /\ ObjectTypes' /\ PhaseTypes'
    <2>1. h.job.arg \in Results
      BY <1>3 DEF ReactionJobs
    <2>2. SlotTypes' /\ resolved' \subseteq DOMAIN target
      BY <1>10, <2>1, CallsTypes DEF Answers
    <2>3. UNCHANGED <<running, body, nested, host>>
      BY <1>10 DEF Answers
    <2>4. PhaseTypes'
      BY <1>1, <1>2, <1>5, <1>6, <2>3, DrainGoesOn
    <2> QED
      BY <1>2, <1>7, <2>2, <2>3, <2>4 DEF TypeInv, ObjectTypes, objects
  <1> QED
    BY <1>1, <1>8, <1>9, <1>10 DEF ReactionStep

\* ... and each step of the drain, and of the host.
LEMMA EngineTypes ==
  ASSUME AInv, Engine \/ run_jobs
  PROVE  SlotTypes' /\ ObjectTypes' /\ PhaseTypes'
  <1> USE DEF AInv
  <1>1. CASE TakeBatch
    <2>1. SlotTypes' /\ ObjectTypes'
      BY <1>1 DEF TakeBatch, slots, objects, async, TypeInv, SlotTypes, ObjectTypes
    <2>2. PhaseTypes'
      BY <1>1 DEF TakeBatch, Draining, SetRest, TypeInv, PhaseTypes, Idle
    <2> QED
      BY <2>1, <2>2
  <1>2. CASE EndNestedDrain
    <2>1. SlotTypes' /\ ObjectTypes'
      BY <1>2 DEF EndNestedDrain, slots, objects, async, TypeInv, SlotTypes, ObjectTypes
    <2>2. PhaseTypes'
      BY <1>2 DEF EndNestedDrain, Draining, TypeInv, PhaseTypes, Idle
    <2> QED
      BY <2>1, <2>2
  <1>3. CASE DrainEnds \/ run_jobs
    <2>1. SlotTypes' /\ ObjectTypes'
      BY <1>3 DEF DrainEnds, run_jobs, slots, objects, async, TypeInv, SlotTypes, ObjectTypes
    <2>2. PhaseTypes'
      BY <1>3 DEF DrainEnds, run_jobs, drain, Draining, TypeInv, PhaseTypes, Idle, NoCode, Code
    <2> QED
      BY <2>1, <2>2
  <1>4. CASE RunThenable
    <2>1. PICK k, new : ThenableStep(Head(Rest), k, new)
      BY <1>4, ThenableMoves
    <2>2. /\ host = "draining" /\ nested \in {"none", "draining"} /\ running = NoCode
          /\ SetRest(Tail(Rest))
          /\ UNCHANGED <<state, result, born, resolved, nested, importing, host, async, calls,
                         reacted, adopts>>
      BY <1>4, ThenableMoves DEF RunThenable, Idle
    <2> DEFINE h == Head(Rest)
    <2>3. /\ h.job.promise \in Promise /\ k \in Pair /\ NewPair(k, h.job.promise)
          /\ h.job.thenable \in Thenables \cup Promise
      BY <2>1 DEF ThenableStep, ThenableJobs
    <2> HIDE DEF h
    <2>4. /\ target' \in Seq(Promise) /\ Len(target') <= MaxPairs
          /\ DOMAIN target' = DOMAIN target \cup {k}
      BY <2>3, NewPairTypes
    <2>5. CASE /\ h.job.thenable \in Promise
               /\ Registers(h.job.thenable, Handler("settle", k), Handler("settle", k), NoPair, new)
               /\ UNCHANGED <<held, running>>
      <3>1. Handler("settle", k) \in Handlers /\ NoPair \in Caps
        BY <2>3 DEF Handler, Handlers, Caps
      <3>2. reactions' \in [Promise -> Seq(Registrations)] /\ regs' = regs + 1
        BY <2>5, <3>1, RegistersTypes
      <3>3. SlotTypes'
        BY <2>2, <3>2 DEF TypeInv, SlotTypes
      <3>4. ObjectTypes'
        BY <2>2, <2>4, <2>5, <3>2, RegsGrow DEF TypeInv, ObjectTypes, async
      <3>5. running' \in Codes /\ running'.kind # "script"
        BY <2>2, <2>5 DEF Codes, NoCode, Code
      <3>6. PhaseTypes'
        BY <2>2, <3>5, DrainGoesOn
      <3> QED
        BY <3>3, <3>4, <3>6
    <2>6. CASE /\ h.job.thenable \in Thenables /\ new = {}
               /\ held' = held \cup {k} /\ running' = Code("then", k)
               /\ UNCHANGED <<reactions, regs>>
      <3>1. SlotTypes'
        BY <2>2, <2>6 DEF TypeInv, SlotTypes
      <3>2. ObjectTypes'
        BY <2>2, <2>4, <2>6 DEF TypeInv, ObjectTypes, async
      <3>3. running' \in Codes /\ running'.kind # "script"
        BY <2>3, <2>6 DEF Codes, Code
      <3>4. PhaseTypes'
        BY <2>2, <3>3, DrainGoesOn
      <3> QED
        BY <3>1, <3>2, <3>4
    <2> QED
      BY <2>1, <2>5, <2>6 DEF ThenableStep, h
  <1>5. CASE RunImport
    <2>1. PICK h \in Jobs :
             /\ h \in Queued /\ h.job \in ImportJobs /\ h.job.cap \in DOMAIN target
             /\ \/ /\ \E new : Calls(h.job.cap, "reject", Failure, new) /\ Moved({h}, new)
                   /\ UNCHANGED <<running, nested, importing>>
                \/ /\ running' = Code("module", h.job.cap) /\ Moved({h}, {})
                   /\ UNCHANGED <<slots, resolved, adopts, nested, importing>>
                \/ /\ nested' = "draining" /\ importing' = h.job.cap /\ Moved({h}, {})
                   /\ UNCHANGED <<slots, resolved, adopts, running>>
      BY <1>5, RunImportMoves
    <2>2. /\ host = "draining" /\ nested = "none" /\ running = NoCode /\ h.job.cap \in Pair
          /\ UNCHANGED <<objects, inner, host, async, calls, regs, reacted>>
      BY <1>5, <2>1, RunImportMoves DEF RunImport, Idle, ImportJobs
    <2>3. SlotTypes' /\ resolved' \subseteq DOMAIN target
      <3>1. CASE UNCHANGED <<slots, resolved, adopts>>
        BY <3>1 DEF slots, TypeInv, SlotTypes, ObjectTypes
      <3>2. Failure \in Results
        BY DEF Results
      <3> QED
        BY <2>1, <3>1, <3>2, CallsTypes
    <2>4. PhaseTypes'
      BY <2>1, <2>2 DEF TypeInv, PhaseTypes, Idle, NoCode, Code, Codes
    <2> QED
      BY <2>2, <2>3, <2>4, ObjectsUnchanged
  <1>6. CASE SettleImport
    <2>1. /\ nested \in {"done", "failed"} /\ nested' = "none" /\ importing' = NoPair
          /\ UNCHANGED <<objects, batch, inner, running, host, async, calls, regs, reacted>>
      BY <1>6 DEF SettleImport
    <2>2. SlotTypes' /\ resolved' \subseteq DOMAIN target
      BY <1>6, SettleImportMoves, SettlingTypes DEF Settling
    <2>3. PhaseTypes'
      BY <2>1 DEF TypeInv, PhaseTypes, Idle
    <2> QED
      BY <2>1, <2>2, <2>3, ObjectsUnchanged
  <1>7. CASE RunReaction
    BY <1>7, ReactionTypes
  <1> QED
    BY <1>1, <1>2, <1>3, <1>4, <1>5, <1>6, <1>7 DEF Engine

-----------------------------------------------------------------------------
(* The lists of registrations, and the jobs, after an operation.            *)

\* What a list of reactions holds is a registration at a positive place,
\* within its length.
LEMMA ListedType ==
  ASSUME TypeInv, NEW p \in Promise
  PROVE  /\ \A i, r : Listed(p, i, r) => i \in Nat \ {0} /\ r \in Registrations
         /\ Len(reactions[p]) \in Nat
         /\ \A r : ~Listed(p, Len(reactions[p]) + 1, r)
  <1>1. reactions[p] \in Seq(Registrations)
    BY DEF TypeInv, SlotTypes
  <1>2. Len(reactions[p]) \in Nat /\ DOMAIN reactions[p] = 1 .. Len(reactions[p])
        /\ \A i \in 1 .. Len(reactions[p]) : reactions[p][i] \in Registrations
    BY <1>1, LenProperties, ElementOfSeq
  <1> QED
    BY <1>2 DEF Listed

\* A settlement empties the list of its promise, into jobs.
LEMMA SettlesLists ==
  ASSUME TypeInv, NEW p \in Promise, NEW outcome, NEW v, NEW new, Settles(p, outcome, v, new)
  PROVE  /\ \A q \in Promise : \A i, r : Listed(q, i, r)' <=> Listed(q, i, r) /\ (q # p \/ state[p] # "pending")
         /\ \A x : x \in new <=>
              /\ state[p] = "pending"
              /\ \E i \in Nat, r \in Registrations :
                   /\ Listed(p, i, r)
                   /\ x = [job |-> ReactionJob(p, r, outcome = "fulfilled", v), seq |-> enqueued + i]
  <1>1. CASE state[p] # "pending"
    BY <1>1 DEF Settles, slots, Listed
  <1>2. CASE state[p] = "pending"
    <2>1. reactions' = [reactions EXCEPT ![p] = <<>>] /\ new = SettleJobs(p, outcome, v)
      BY <1>2 DEF Settles
    <2>2. reactions'[p] = <<>> /\ \A q \in Promise : q # p => reactions'[q] = reactions[q]
      BY <2>1 DEF TypeInv, SlotTypes
    <2>3. \A i : i \notin DOMAIN reactions'[p]
      BY <2>2
    <2>4. \A q \in Promise : \A i, r : Listed(q, i, r)' <=> Listed(q, i, r) /\ q # p
      BY <2>2, <2>3 DEF Listed
    <2>5. \A x : x \in new <=>
             \E i \in Nat, r \in Registrations :
                   /\ Listed(p, i, r)
                   /\ x = [job |-> ReactionJob(p, r, outcome = "fulfilled", v), seq |-> enqueued + i]
      BY <2>1, ListedType DEF SettleJobs, Listed
    <2> QED
      BY <1>2, <2>4, <2>5
  <1> QED
    BY <1>1, <1>2

\* Registering lengthens the list of a pending promise.
LEMMA RegistersLists ==
  ASSUME TypeInv, NEW p \in Promise, NEW h, NEW g, NEW k, NEW new, Registers(p, h, g, k, new)
  PROVE  \A q \in Promise : \A i, r : Listed(q, i, r)' <=>
           \/ Listed(q, i, r)
           \/ /\ state[p] = "pending" /\ q = p /\ i = Len(reactions[p]) + 1
              /\ r = Registration(h, g, k)
  <1> DEFINE s == reactions[p]
             reg == Registration(h, g, k)
  <1>1. s \in Seq(Registrations) /\ Len(s) \in Nat /\ DOMAIN s = 1 .. Len(s)
    BY LenProperties DEF TypeInv, SlotTypes
  <1>2. CASE state[p] = "pending"
    <2>1. reactions' = [reactions EXCEPT ![p] = Append(s, reg)]
      BY <1>2 DEF Registers
    <2>2. reactions'[p] = Append(s, reg) /\ \A q \in Promise : q # p => reactions'[q] = reactions[q]
      BY <2>1 DEF TypeInv, SlotTypes
    <2>3. /\ DOMAIN Append(s, reg) = 1 .. Len(s) + 1
          /\ Append(s, reg)[Len(s) + 1] = reg
          /\ \A i \in 1 .. Len(s) : Append(s, reg)[i] = s[i]
      BY <1>1
    <2> HIDE DEF reg
    <2>4. \A i, r : Listed(p, i, r)' <=> Listed(p, i, r) \/ (i = Len(s) + 1 /\ r = reg)
      BY <1>1, <2>2, <2>3 DEF Listed
    <2> QED
      BY <1>2, <2>2, <2>4 DEF Listed, reg
  <1>3. CASE state[p] # "pending"
    BY <1>3 DEF Registers, Listed
  <1> QED
    BY <1>2, <1>3

\* Lists that are unchanged hold the same registrations.
LEMMA ListsUnchanged ==
  ASSUME reactions' = reactions
  PROVE  \A q \in Promise : \A i, r : Listed(q, i, r)' <=> Listed(q, i, r)
  BY DEF Listed

-----------------------------------------------------------------------------
(* Whatever is mentioned has been made.                                    *)

\* The lists only mention what has been made if what is new on them does.
LEMMA KnownListsKept ==
  ASSUME AInv, NEW gone, NEW new, Moved(gone, new),
         born' \in Nat, born <= born', regs' \in Nat, regs <= regs',
         DOMAIN target \subseteq DOMAIN target',
         \A x \in new : KnownJob(x.job)',
         \A p \in Promise, i \in Nat, r \in Registrations :
            Listed(p, i, r)' => Listed(p, i, r) \/ KnownRegistration(r)'
  PROVE  KnownLists'
  <1>1. regs \in Nat /\ born \in Nat
    BY DEF AInv, TypeInv, ObjectTypes
  <1>2. Made \subseteq Made'
    BY DEF Made
  <1>3. ASSUME NEW r, KnownRegistration(r)
        PROVE  KnownRegistration(r)'
    BY <1>1, <1>2, <1>3 DEF KnownRegistration
  <1>4. ASSUME NEW j, KnownJob(j)
        PROVE  KnownJob(j)'
    BY <1>1, <1>2, <1>4 DEF KnownJob
  <1>5. \A x \in Jobs' : x \in Jobs \/ x \in new
    BY DEF Moved
  <1>6. ASSUME NEW x \in Jobs' PROVE KnownJob(x.job)'
    BY <1>4, <1>5 DEF AInv, Known, KnownLists
  <1>7. \A p \in Promise, i \in Nat, r \in Registrations : Listed(p, i, r)' => KnownRegistration(r)'
    BY <1>3 DEF AInv, Known, KnownLists
  <1> QED
    BY <1>6, <1>7 DEF KnownLists

\* A settlement makes jobs of what it knows.
LEMMA SettlesKnown ==
  ASSUME AInv, NEW p \in 1 .. born, NEW outcome, NEW v, NEW new, Settles(p, outcome, v, new)
  PROVE  /\ \A x \in new : KnownJob(x.job)
         /\ \A q \in Promise : \A i, r : Listed(q, i, r)' => Listed(q, i, r)
         /\ outcome \in {"fulfilled", "rejected"} =>
              \A q \in Promise : state'[q] = "unborn" <=> state[q] = "unborn"
  <1>1. p \in Promise /\ born \in Nat
    BY BornType DEF AInv
  <1>2. ASSUME NEW x \in new PROVE KnownJob(x.job)
    <2>1. PICK i \in Nat, r \in Registrations :
             /\ Listed(p, i, r)
             /\ x = [job |-> ReactionJob(p, r, outcome = "fulfilled", v), seq |-> enqueued + i]
      BY <1>1, SettlesLists DEF AInv
    <2>2. KnownRegistration(r)
      BY <1>1, <2>1 DEF AInv, Known, KnownLists
    <2> QED
      BY <1>1, <2>1, <2>2 DEF KnownJob, ReactionJob, Half, KnownRegistration
  <1>3. \A q \in Promise : \A i, r : Listed(q, i, r)' => Listed(q, i, r)
    BY <1>1, SettlesLists DEF AInv
  <1>4. outcome \in {"fulfilled", "rejected"} =>
              \A q \in Promise : state'[q] = "unborn" <=> state[q] = "unborn"
    BY <1>1 DEF Settles, slots, AInv, TypeInv, SlotTypes
  <1> QED
    BY <1>2, <1>3, <1>4

\* Resolving mentions nothing that has not been made ...
LEMMA ResolvesKnown ==
  ASSUME AInv, NEW p \in 1 .. born, NEW v \in Resolutions, NEW new, Resolves(p, v, new)
  PROVE  /\ \A x \in new : KnownJob(x.job)
         /\ \A q \in Promise : \A i, r : Listed(q, i, r)' => Listed(q, i, r)
         /\ \A q \in Promise : state'[q] = "unborn" <=> state[q] = "unborn"
  <1>1. CASE /\ v \in Thenables \cup (Promise \ {p})
             /\ UNCHANGED slots /\ new = {[job |-> ThenableJob(p, v), seq |-> enqueued + 1]}
    <2>1. v \in Thenables \cup 1 .. born
      BY <1>1, PromiseAssumption DEF Resolutions, Values
    <2> QED
      BY <1>1, <2>1 DEF KnownJob, ThenableJob, slots, Listed
  <1>2. CASE Settles(p, "rejected", Failure, new)
    BY <1>2, SettlesKnown
  <1>3. CASE Settles(p, "fulfilled", v, new)
    BY <1>3, SettlesKnown
  <1> QED
    BY <1>1, <1>2, <1>3 DEF Resolves

\* ... nor does a call of a resolving function ...
LEMMA CallsKnown ==
  ASSUME AInv, NEW k \in DOMAIN target, NEW how, NEW v, how = "resolve" => v \in Resolutions,
         NEW new, Calls(k, how, v, new)
  PROVE  /\ \A x \in new : KnownJob(x.job)
         /\ \A q \in Promise : \A i, r : Listed(q, i, r)' => Listed(q, i, r)
         /\ \A q \in Promise : state'[q] = "unborn" <=> state[q] = "unborn"
  <1>1. target[k] \in 1 .. born
    BY DEF AInv, Known, KnownObjects
  <1>2. CASE UNCHANGED <<slots, adopts>> /\ new = {}
    BY <1>2 DEF slots, Listed
  <1> QED
    BY <1>1, <1>2, ResolvesKnown, SettlesKnown DEF Calls

\* ... nor the end of user code that settles a capability.
LEMMA SettlingKnown ==
  ASSUME AInv, NEW k, Settling(k), UNCHANGED <<born, target, regs>>
  PROVE  KnownLists' /\ \A q \in Promise : state'[q] = "unborn" <=> state[q] = "unborn"
  <1> USE DEF AInv
  <1>1. regs \in Nat /\ born \in Nat
    BY DEF TypeInv, ObjectTypes
  <1>2. CASE UNCHANGED <<slots, resolved, adopts>> /\ Moved({}, {})
    BY <1>1, <1>2, KnownListsKept DEF slots, Listed
  <1>3. CASE Calling(k)
    <2>1. PICK how, v, new :
             how \in {"resolve", "reject"} /\ v \in Resolutions /\
             Calls(k, how, v, new) /\ Moved({}, new)
      BY <1>3 DEF Calling
    <2>2. /\ \A x \in new : KnownJob(x.job)
          /\ \A q \in Promise : \A i, r : Listed(q, i, r)' => Listed(q, i, r)
          /\ \A q \in Promise : state'[q] = "unborn" <=> state[q] = "unborn"
      BY <1>3, <2>1, CallsKnown DEF Calling
    <2>3. \A x \in new : KnownJob(x.job)'
      BY <2>2 DEF KnownJob, Made
    <2> QED
      BY <1>1, <2>1, <2>2, <2>3, KnownListsKept
  <1> QED
    BY <1>2, <1>3 DEF Settling

\* The new registration, or its job, mentions only what has been made ...
LEMMA RegistersKnown ==
  ASSUME AInv, NEW p \in 1 .. born, NEW h \in Handlers, NEW g \in Handlers, NEW k \in Caps,
         NEW new, Registers(p, h, g, k, new),
         k \in Made', h.kind = "settle" => h.of \in DOMAIN target',
         g.kind = "settle" => g.of \in DOMAIN target', born' \in Nat, born <= born'
  PROVE  /\ regs \in Nat /\ regs' = regs + 1
         /\ \A x \in new : KnownJob(x.job)'
         /\ \A q \in Promise, i \in Nat, r \in Registrations :
              Listed(q, i, r)' => Listed(q, i, r) \/ KnownRegistration(r)'
  <1>0. PICK reg : reg = Registration(h, g, k)
    OBVIOUS
  <1>1. p \in Promise /\ born \in Nat /\ regs \in Nat /\ regs' = regs + 1
    BY BornType DEF AInv, TypeInv, ObjectTypes, Registers
  <1>2. KnownRegistration(reg)' /\ reg.cap = k /\ reg.reg = regs + 1
        /\ reg.on_fulfilled = h /\ reg.on_rejected = g
    BY <1>0, <1>1 DEF KnownRegistration, Registration
  <1>3. \A q \in Promise, i \in Nat, r \in Registrations : Listed(q, i, r)' => Listed(q, i, r) \/ r = reg
    BY <1>0, <1>1, RegistersLists DEF AInv
  <1>4. ASSUME NEW x \in new PROVE KnownJob(x.job)'
    <2>1. x.job = ReactionJob(p, reg, state[p] = "fulfilled", result[p])
      BY <1>0 DEF Registers
    <2> QED
      BY <1>1, <1>2, <2>1 DEF KnownJob, ReactionJob, Half
  <1> QED
    BY <1>1, <1>2, <1>3, <1>4

\* ... and so does that of an await.
LEMMA AwaitsKnown ==
  ASSUME AInv, NEW f \in AsyncFunctions, NEW v \in Values, NEW new, Awaits(f, v, new),
         born' \in Nat, born <= born'
  PROVE  /\ regs \in Nat /\ regs' = regs + 1
         /\ \A x \in new : KnownJob(x.job)'
         /\ \A q \in Promise, i \in Nat, r \in Registrations :
              Listed(q, i, r)' => Listed(q, i, r) \/ KnownRegistration(r)'
  <1> DEFINE resume == Handler("resume", f)
  <1>1. /\ resume \in Handlers /\ resume.kind # "settle"
        /\ NoPair \in Caps /\ NoPair \in Made'
    BY DEF Handler, Handlers, Caps, Made
  <1> HIDE DEF resume
  <1>2. CASE v \in Promise /\ Registers(v, resume, resume, NoPair, new)
    <2>1. v \in 1 .. born
      BY <1>2, PromiseAssumption DEF Values
    <2> QED
      BY <1>1, <1>2, <2>1, RegistersKnown
  <1>3. CASE /\ regs' = regs + 1 /\ UNCHANGED reactions
             /\ new = {[job |-> AwaitJob(f, v), seq |-> enqueued + 1]}
    <2>1. regs \in Nat
      BY DEF AInv, TypeInv, ObjectTypes
    <2>2. PICK j : j = AwaitJob(f, v)
      OBVIOUS
    <2>3. /\ j.type = "reaction" /\ j.cap = NoPair /\ j.reg = regs + 1 /\ j.source = 0
          /\ j.handler.kind # "settle"
      BY <2>2 DEF AwaitJob, ReactionJob, Registration, Half, Handler, Nobody
    <2>4. KnownJob(j)'
      BY <1>1, <1>3, <2>1, <2>3 DEF KnownJob
    <2>5. \A x \in new : x.job = j
      BY <1>3, <2>2
    <2> QED
      BY <1>3, <2>1, <2>4, <2>5, ListsUnchanged
  <1> QED
    BY <1>2, <1>3 DEF Awaits, resume

\* A promise and, if k is not in use, a pair for it.
LEMMA ObjectsGrow ==
  ASSUME AInv, NEW q \in Promise, q = born + 1, born' = q,
         state' = [state EXCEPT ![q] = "pending"],
         \/ target' = target
         \/ \E k \in Pair : NewPair(k, q)
  PROVE  /\ born \in Nat /\ born' \in Nat /\ born <= born'
         /\ DOMAIN target \subseteq DOMAIN target'
         /\ \A p \in Promise : state'[p] = "unborn" <=> p > born'
         /\ \A k \in DOMAIN target' : target'[k] \in 1 .. born'
  <1> USE DEF AInv
  <1>1. born \in Nat /\ born' \in Nat /\ born <= born'
    BY BornType DEF Promise
  <1>2. \A p \in Promise : state'[p] = "unborn" <=> p > born'
    BY <1>1, PromiseAssumption DEF Promise, Known, KnownObjects, TypeInv, SlotTypes
  <1>3. \A k \in DOMAIN target : target[k] \in 1 .. born'
    BY <1>1 DEF Known, KnownObjects
  <1>4. CASE target' = target
    BY <1>1, <1>2, <1>3, <1>4
  <1>5. CASE \E k \in Pair : NewPair(k, q)
    <2>1. PICK k \in Pair : NewPair(k, q)
      BY <1>5
    <2>2. /\ DOMAIN target' = DOMAIN target \cup {k} /\ target'[k] = q
          /\ \A l \in DOMAIN target : target'[l] = target[l]
      BY <2>1, NewPairTypes
    <2>3. \A l \in DOMAIN target' : target'[l] \in 1 .. born'
      BY <1>1, <1>3, <2>2
    <2> QED
      BY <1>1, <1>2, <2>2, <2>3
  <1> QED
    BY <1>4, <1>5

\* Each call of user code keeps Known ...
LEMMA UserCallKnown ==
  ASSUME AInv, UserCall
  PROVE  Known'
  <1> USE DEF AInv
  <1>0. born \in Nat /\ regs \in Nat
    BY DEF TypeInv, ObjectTypes
  <1>1. ASSUME NEW q \in Promise, q = born + 1, born' = q,
               state' = [state EXCEPT ![q] = "pending"],
               \/ target' = target
               \/ \E k \in Pair : NewPair(k, q),
               UNCHANGED <<running, importing, async>>
        PROVE  KnownObjects' /\ KnownCode'
    <2>1. /\ born \in Nat /\ born' \in Nat /\ born <= born'
          /\ DOMAIN target \subseteq DOMAIN target'
          /\ \A p \in Promise : state'[p] = "unborn" <=> p > born'
          /\ \A k \in DOMAIN target' : target'[k] \in 1 .. born'
      BY <1>1, ObjectsGrow
    <2>2. KnownObjects'
      BY <1>1, <2>1 DEF Known, KnownObjects, async
    <2>3. KnownCode'
      BY <1>1, <2>1 DEF Known, KnownCode, Made, async
    <2> QED
      BY <2>2, <2>3
  <1>2. CASE New
    <2>1. PICK p \in Promise, k \in Pair : NewStep(p, k)
      BY <1>2, NewMoves
    <2>2. KnownObjects' /\ KnownCode' /\ born' \in Nat /\ born <= born' /\ DOMAIN target \subseteq DOMAIN target'
      BY <1>1, <2>1, ObjectsGrow DEF NewStep, NewPromise
    <2>3. KnownLists'
      BY <1>0, <2>1, <2>2, KnownListsKept DEF NewStep, NewPromise, Listed
    <2> QED
      BY <2>2, <2>3 DEF Known
  <1>3. CASE CallResolving
    <2>1. PICK k \in held : Settling(k)
      BY <1>3, CallResolvingMoves DEF Settling
    <2>2. UNCHANGED <<objects, drain, running, async, regs>>
      BY <1>3 DEF CallResolving
    <2>3. KnownLists' /\ \A q \in Promise : state'[q] = "unborn" <=> state[q] = "unborn"
      BY <2>1, <2>2, SettlingKnown DEF objects
    <2>4. KnownObjects' /\ KnownCode'
      BY <2>2, <2>3 DEF Known, KnownObjects, KnownCode, Made, objects, drain, async
    <2> QED
      BY <2>3, <2>4 DEF Known
  <1>4. CASE Then
    <2>1. PICK p, h, g, new :
              /\ p \in Promise /\ h \in {NoHandler, UserHandler} /\ g \in {NoHandler, UserHandler}
              /\ Moved({}, new)
              /\ \/ \E q \in Promise, k \in Pair : ThenNative(p, q, k, h, g, new)
                 \/ ThenSpecies(p, h, g, new)
      BY <1>4, ThenMoves
    <2>2. /\ h \in Handlers /\ g \in Handlers /\ Throwing \in Caps /\ Pair \subseteq Caps
          /\ h.kind # "settle" /\ g.kind # "settle"
      BY <2>1 DEF NoHandler, UserHandler, Handler, Handlers, Caps
    <2>3. UNCHANGED <<running, importing, async>>
      BY <1>4 DEF Then, drain
    <2>4. CASE \E q \in Promise, k \in Pair : ThenNative(p, q, k, h, g, new)
      <3>1. PICK q \in Promise, k \in Pair : ThenNative(p, q, k, h, g, new)
        BY <2>4
      <3>2. /\ KnownObjects' /\ KnownCode' /\ born' \in Nat /\ born <= born'
            /\ DOMAIN target \subseteq DOMAIN target'
        BY <1>1, <2>3, <3>1, ObjectsGrow DEF ThenNative
      <3>3. k \in Made'
        BY <3>1, NewPairTypes DEF ThenNative, Made
      <3>4. p \in 1 .. born /\ Registers(p, h, g, k, new)
        BY <3>1 DEF ThenNative
      <3>5. /\ regs' = regs + 1
            /\ \A x \in new : KnownJob(x.job)'
            /\ \A y \in Promise, i \in Nat, r \in Registrations :
                 Listed(y, i, r)' => Listed(y, i, r) \/ KnownRegistration(r)'
        BY <2>2, <3>2, <3>3, <3>4, RegistersKnown
      <3>6. KnownLists'
        BY <1>0, <2>1, <3>2, <3>5, KnownListsKept
      <3> QED
        BY <3>2, <3>6 DEF Known
    <2>5. CASE ThenSpecies(p, h, g, new)
      <3>1. p \in 1 .. born /\ Registers(p, h, g, Throwing, new) /\ UNCHANGED <<born, target, state>>
        BY <2>5 DEF ThenSpecies
      <3>2. KnownObjects' /\ KnownCode'
        BY <2>3, <3>1 DEF Known, KnownObjects, KnownCode, Made, async
      <3>3. /\ regs' = regs + 1
            /\ \A x \in new : KnownJob(x.job)'
            /\ \A y \in Promise, i \in Nat, r \in Registrations :
                 Listed(y, i, r)' => Listed(y, i, r) \/ KnownRegistration(r)'
        BY <1>0, <2>2, <3>1, RegistersKnown DEF Made
      <3>4. KnownLists'
        BY <1>0, <2>1, <3>1, <3>3, KnownListsKept
      <3> QED
        BY <3>2, <3>4 DEF Known
    <2> QED
      BY <2>1, <2>4, <2>5
  <1>5. CASE CallAsync
    <2>1. PICK f, p, v, new :
             f \in AsyncFunctions /\ p \in Promise /\ v \in Values /\ CallAsyncStep(f, p, v, new)
      BY <1>5, CallAsyncMoves
    <2>2. UNCHANGED <<target, running, importing>>
      BY <1>5 DEF CallAsync, drain
    <2>3. /\ born' \in Nat /\ born <= born'
          /\ \A q \in Promise : state'[q] = "unborn" <=> q > born'
          /\ \A k \in DOMAIN target' : target'[k] \in 1 .. born'
      BY <1>0, <2>1, <2>2, ObjectsGrow DEF CallAsyncStep
    <2>4. body' = [body EXCEPT ![f] = "suspended"] /\ promise_of' = [promise_of EXCEPT ![f] = p]
          /\ body[f] = "uncalled" /\ p \in 1 .. born'
      BY <1>0, <2>1 DEF CallAsyncStep, Awaits
    <2>5. ASSUME NEW g \in AsyncFunctions
          PROVE  promise_of'[g] \in 0 .. born' /\ (promise_of'[g] = Nobody <=> body'[g] = "uncalled")
      <3>1. CASE g = f
        BY <2>3, <2>4, <3>1 DEF Nobody, TypeInv, ObjectTypes
      <3>2. CASE g # f
        BY <1>0, <2>3, <2>4, <3>2 DEF Nobody, TypeInv, ObjectTypes, Known, KnownObjects
      <3> QED
        BY <3>1, <3>2
    <2>6. KnownObjects'
      BY <2>3, <2>5 DEF KnownObjects
    <2>7. KnownCode'
      <3>1. running.kind = "body" => running.of \in AsyncFunctions /\ running.of # f
        BY <2>4, BodyRuns
      <3> QED
        BY <2>2, <2>4, <3>1 DEF Known, KnownCode, Made, TypeInv, ObjectTypes
    <2>8. /\ regs' = regs + 1
          /\ \A x \in new : KnownJob(x.job)'
          /\ \A q \in Promise, i \in Nat, r \in Registrations :
               Listed(q, i, r)' => Listed(q, i, r) \/ KnownRegistration(r)'
      BY <2>1, <2>3, AwaitsKnown DEF CallAsyncStep
    <2>9. KnownLists'
      BY <1>0, <2>1, <2>2, <2>3, <2>8, KnownListsKept DEF CallAsyncStep
    <2> QED
      BY <2>6, <2>7, <2>9 DEF Known
  <1>6. CASE dynamic_import
    <2>1. PICK p \in Promise, k \in Pair :
            NewPromise(p) /\ NewPair(k, p) /\ Moved({}, {ImportedJob(k)})
      BY <1>6, ImportMoves
    <2>2. UNCHANGED <<running, importing, async, regs>>
      BY <1>6 DEF dynamic_import, drain
    <2>3. /\ KnownObjects' /\ KnownCode' /\ born' \in Nat /\ born <= born'
          /\ DOMAIN target \subseteq DOMAIN target'
      BY <1>1, <2>1, <2>2, ObjectsGrow DEF NewPromise
    <2>4. PICK x : x = ImportedJob(k)
      OBVIOUS
    <2>5. KnownJob(x.job)'
      BY <2>1, <2>4, NewPairTypes DEF ImportedJob, ImportJob, KnownJob
    <2>6. reactions' = reactions
      BY <2>1 DEF NewPromise
    <2>7. KnownLists'
      BY <1>0, <2>1, <2>2, <2>3, <2>4, <2>5, <2>6, KnownListsKept, ListsUnchanged
    <2> QED
      BY <2>3, <2>7 DEF Known
  <1> QED
    BY <1>2, <1>3, <1>4, <1>5, <1>6 DEF UserCall

\* Steps that only move jobs.
LEMMA MovedKnown ==
  ASSUME AInv, NEW gone, Moved(gone, {}), UNCHANGED <<reactions, born, target, regs>>
  PROVE  KnownLists'
  <1>1. regs \in Nat /\ born \in Nat
    BY DEF AInv, TypeInv, ObjectTypes
  <1> QED
    BY <1>1, KnownListsKept, ListsUnchanged

\* The objects stay known when no promise or pair is made and no function is
\* called.
LEMMA ObjectsKnown ==
  ASSUME AInv, UNCHANGED <<born, target, promise_of>>,
         \A q \in Promise : state'[q] = "unborn" <=> state[q] = "unborn",
         \A f \in AsyncFunctions : body'[f] = "uncalled" <=> body[f] = "uncalled"
  PROVE  KnownObjects'
  BY DEF AInv, Known, KnownObjects

\* ... so does each way in which user code completes ...
LEMMA CompleteKnown ==
  ASSUME AInv, Complete
  PROVE  Known'
  <1> USE DEF AInv
  <1>1. NoCode.kind = "none"
    BY DEF NoCode, Code
  <1>2. CASE ScriptEnds
    <2>1. Moved({}, {}) /\ UNCHANGED <<slots, objects, async, importing, regs>> /\ running' = NoCode
      BY <1>2, OtherMoves DEF ScriptEnds, drain
    <2>2. KnownLists' /\ KnownObjects'
      BY <2>1, MovedKnown, ObjectsKnown DEF slots, objects, async
    <2> QED
      BY <1>1, <2>1, <2>2 DEF Known, KnownCode, Made, objects
  <1>3. ASSUME Settling(running.of), running' = NoCode, UNCHANGED <<objects, async, regs>>,
               importing' = importing \/ importing' \in Made
        PROVE  Known'
    <2>1. KnownLists' /\ \A q \in Promise : state'[q] = "unborn" <=> state[q] = "unborn"
      BY <1>3, SettlingKnown DEF objects
    <2>2. KnownObjects'
      BY <1>3, <2>1, ObjectsKnown DEF objects, async
    <2> QED
      BY <1>1, <1>3, <2>1, <2>2 DEF Known, KnownCode, Made, objects
  <1>4. CASE HandlerEnds
    <2>1. running' = NoCode /\ UNCHANGED <<objects, importing, async, regs>>
      BY <1>4 DEF HandlerEnds
    <2>2. CASE Moved(Rng(Rest), {}) /\ UNCHANGED <<slots, resolved, adopts>>
      <3>1. KnownLists' /\ KnownObjects'
        BY <2>1, <2>2, MovedKnown, ObjectsKnown DEF slots, objects, async
      <3> QED
        BY <1>1, <2>1, <3>1 DEF Known, KnownCode, Made, objects
    <2> QED
      BY <1>3, <1>4, <2>1, <2>2, HandlerEndsMoves
  <1>5. CASE ThenMethodEnds
    BY <1>3, <1>5, ThenMethodEndsMoves DEF ThenMethodEnds, drain
  <1>6. CASE ModuleEnds
    <2>1. running' = NoCode /\ UNCHANGED <<objects, async, regs>>
      BY <1>6 DEF ModuleEnds
    <2>2. Settling(running.of) /\ (importing' = importing \/ importing' \in Made)
      BY <1>6, ModuleEndsMoves DEF Settling, Made
    <2> QED
      BY <1>3, <2>1, <2>2
  <1>7. CASE AwaitAgain
    <2>1. /\ running.kind = "body" /\ running' = NoCode
          /\ UNCHANGED <<state, objects, importing, promise_of>>
      BY <1>7 DEF AwaitAgain, drain
    <2>2. PICK v, new :
             v \in Values /\ Awaits(running.of, v, new) /\ Moved({}, new)
      BY <1>7, AwaitAgainMoves
    <2>3. running.of \in AsyncFunctions /\ body[running.of] = "running"
      BY <2>1, BodyRuns
    <2>4. born' = born /\ target' = target /\ born \in Nat
      BY <2>1 DEF objects, TypeInv, ObjectTypes
    <2>5. /\ regs \in Nat /\ regs' = regs + 1
          /\ \A x \in new : KnownJob(x.job)'
          /\ \A q \in Promise, i \in Nat, r \in Registrations :
               Listed(q, i, r)' => Listed(q, i, r) \/ KnownRegistration(r)'
      BY <2>2, <2>3, <2>4, AwaitsKnown
    <2>6. KnownLists'
      BY <2>2, <2>4, <2>5, KnownListsKept
    <2>7. body' = [body EXCEPT ![running.of] = "suspended"]
      BY <2>2 DEF Awaits
    <2>8. KnownObjects'
      BY <2>1, <2>3, <2>4, <2>7, ObjectsKnown DEF TypeInv, ObjectTypes
    <2> QED
      BY <1>1, <2>1, <2>4, <2>6, <2>8 DEF Known, KnownCode, Made
  <1>8. CASE BodyEnds
    <2> DEFINE p == promise_of[running.of]
    <2>1. /\ running.kind = "body" /\ running' = NoCode
          /\ body' = [body EXCEPT ![running.of] = "done"]
          /\ UNCHANGED <<objects, importing, promise_of, regs>>
      BY <1>8 DEF BodyEnds, drain
    <2>2. PICK v, new :
             /\ v \in Values
             /\ Moved({}, new)
             /\ \/ Resolves(p, v, new)
                \/ Settles(p, "rejected", v, new) /\ UNCHANGED adopts
      BY <1>8, BodyEndsMoves
    <2>3. running.of \in AsyncFunctions /\ body[running.of] = "running" /\ p \in 1 .. born
      BY <2>1, BodyRuns DEF Known, KnownObjects, TypeInv, ObjectTypes, Nobody
    <2>4. born' = born /\ target' = target /\ born \in Nat /\ regs \in Nat
      BY <2>1 DEF objects, TypeInv, ObjectTypes
    <2> HIDE DEF p
    <2>5. /\ \A x \in new : KnownJob(x.job)
          /\ \A q \in Promise : \A i, r : Listed(q, i, r)' => Listed(q, i, r)
          /\ \A q \in Promise : state'[q] = "unborn" <=> state[q] = "unborn"
      BY <2>2, <2>3, ResolvesKnown, SettlesKnown DEF Resolutions
    <2>6. \A x \in new : KnownJob(x.job)'
      BY <2>1, <2>4, <2>5 DEF KnownJob, Made
    <2>7. KnownLists'
      BY <2>1, <2>2, <2>4, <2>5, <2>6, KnownListsKept
    <2>8. KnownObjects'
      BY <2>1, <2>3, <2>4, <2>5, ObjectsKnown DEF TypeInv, ObjectTypes
    <2> QED
      BY <1>1, <2>1, <2>4, <2>7, <2>8 DEF Known, KnownCode, Made
  <1> QED
    BY <1>2, <1>4, <1>5, <1>6, <1>7, <1>8 DEF Complete

\* Which functions have been called does not change when one is resumed.
LEMMA BeginsKnown ==
  ASSUME AInv, NEW h \in Jobs, h.job \in ReactionJobs, Begins(h)
  PROVE  /\ \A f \in AsyncFunctions : body'[f] = "uncalled" <=> body[f] = "uncalled"
         /\ running' = running \/ running'.kind \in {"handler", "body"}
         /\ running'.kind = "handler" => running'.of \in Made \/ running' = running
         /\ running'.kind = "body" => body'[running'.of] = "running" \/ running' = running
  <1> USE DEF AInv
  <1>1. h.job.type = "reaction" /\ h.job.cap \in Made /\ h.job.handler \in Handlers
    BY DEF ReactionJobs, Known, KnownLists, KnownJob
  <1>2. CASE running' = running /\ body' = body
    BY <1>2
  <1>3. CASE running' = Code("handler", h.job.cap) /\ UNCHANGED body
    BY <1>1, <1>3 DEF Code
  <1>4. CASE h.job.handler.kind = "resume" /\ running' = Code("body", h.job.handler.of)
             /\ body' = [body EXCEPT ![h.job.handler.of] = "running"]
    <2>1. h.job.handler.of \in AsyncFunctions
          /\ h.job.handler = Handler("resume", h.job.handler.of)
      BY <1>1, <1>4 DEF Handlers, Handler
    <2>2. body[h.job.handler.of] = "suspended"
      BY <1>1, <2>1 DEF ResumeInv, ResumeDue
    <2> QED
      BY <1>4, <2>1, <2>2 DEF Code, TypeInv, ObjectTypes
  <1> QED
    BY <1>2, <1>3, <1>4 DEF Begins

\* ... so does a reaction job ...
LEMMA ReactionKnown ==
  ASSUME AInv, RunReaction
  PROVE  Known'
  <1> DEFINE h == Head(Rest)
  <1> USE DEF AInv
  <1>1. ReactionStep(h) /\ Idle
    BY ReactionMoves
  <1>2. UNCHANGED <<objects, importing, promise_of, regs>>
    BY DEF RunReaction
  <1> HIDE DEF h
  <1>3. h.job \in ReactionJobs /\ h \in Jobs
    BY <1>1 DEF ReactionStep
  <1>4. regs \in Nat /\ born \in Nat
    BY DEF TypeInv, ObjectTypes
  <1>5. CASE Fails(h)
    <2>1. UNCHANGED <<slots, body, running>> /\ Moved(Rng(Rest), {})
      BY <1>5 DEF Fails
    <2>2. KnownLists' /\ KnownObjects'
      BY <1>2, <2>1, MovedKnown, ObjectsKnown DEF slots, objects
    <2> QED
      BY <1>2, <2>1, <2>2 DEF Known, KnownCode, Made, objects
  <1>6. CASE Begins(h)
    <2>1. UNCHANGED slots /\ Moved({h}, {})
      BY <1>6 DEF Begins
    <2>2. KnownLists' /\ KnownObjects'
      BY <1>2, <1>3, <1>6, <2>1, MovedKnown, ObjectsKnown, BeginsKnown DEF slots, objects
    <2>3. KnownCode'
      BY <1>1, <1>2, <1>3, <1>6, BeginsKnown
         DEF Known, KnownCode, Made, objects, Idle, NoCode, Code
    <2> QED
      BY <2>2, <2>3 DEF Known
  <1>7. ASSUME NEW k, NEW new, Answers(h, k, new)
        PROVE  Known'
    <2> DEFINE how == IF h.job.fulfil THEN "resolve" ELSE "reject"
    <2>1. /\ k \in DOMAIN target /\ Calls(k, how, h.job.arg, new) /\ Moved({h}, new)
          /\ UNCHANGED <<running, body>>
      BY <1>7 DEF Answers
    <2>2. how = "resolve" => h.job.arg \in Resolutions
      BY <1>3 DEF Matches, ReactionJobs, Plainly, Resolutions, Values
    <2> HIDE DEF how
    <2>3. /\ \A x \in new : KnownJob(x.job)
          /\ \A q \in Promise : \A i, r : Listed(q, i, r)' => Listed(q, i, r)
          /\ \A q \in Promise : state'[q] = "unborn" <=> state[q] = "unborn"
      BY <2>1, <2>2, CallsKnown
    <2>4. \A x \in new : KnownJob(x.job)'
      BY <1>2, <2>3 DEF KnownJob, Made, objects
    <2>5. KnownLists'
      BY <1>2, <1>4, <2>1, <2>3, <2>4, KnownListsKept DEF objects
    <2>6. KnownObjects'
      BY <1>2, <2>1, <2>3, ObjectsKnown DEF objects
    <2> QED
      BY <1>2, <2>1, <2>5, <2>6 DEF Known, KnownCode, Made, objects
  <1> QED
    BY <1>1, <1>5, <1>6, <1>7 DEF ReactionStep

\* ... and so do the other steps of the drain, and of the host.
LEMMA EngineKnown ==
  ASSUME AInv, Engine \/ run_jobs
  PROVE  Known'
  <1> USE DEF AInv
  <1>0. born \in Nat /\ regs \in Nat
    BY DEF TypeInv, ObjectTypes
  <1>1. CASE TakeBatch \/ EndNestedDrain \/ DrainEnds \/ run_jobs
    <2>1. Moved({}, {}) /\ UNCHANGED <<slots, objects, running, async, importing, regs>>
      BY <1>1, TakeBatchMoves, OtherMoves DEF TakeBatch, EndNestedDrain, DrainEnds, run_jobs, drain
    <2>2. KnownLists' /\ KnownObjects'
      BY <2>1, MovedKnown, ObjectsKnown DEF slots, objects, async
    <2> QED
      BY <2>1, <2>2 DEF Known, KnownCode, Made, objects, async
  <1>2. CASE RunReaction
    BY <1>2, ReactionKnown
  <1>3. CASE RunThenable
    <2> DEFINE h == Head(Rest)
    <2>1. PICK k, new : ThenableStep(h, k, new)
      BY <1>3, ThenableMoves
    <2>2. /\ Idle /\ UNCHANGED <<state, born, importing, async>>
      BY <1>3, ThenableMoves DEF RunThenable
    <2> HIDE DEF h
    <2>3. /\ h \in Jobs /\ h.job \in ThenableJobs /\ k \in Pair
          /\ NewPair(k, h.job.promise) /\ Moved({h}, new)
          /\ h.job.promise \in 1 .. born /\ h.job.thenable \in Thenables \cup 1 .. born
          /\ h.job.promise \in Promise
      BY <2>1 DEF ThenableStep, ThenableJobs, Known, KnownLists, KnownJob
    <2>4. /\ DOMAIN target' = DOMAIN target \cup {k} /\ target'[k] = h.job.promise
          /\ \A l \in DOMAIN target : target'[l] = target[l]
      BY <2>3, NewPairTypes
    <2>5. KnownObjects'
      BY <2>2, <2>3, <2>4 DEF Known, KnownObjects, async
    <2>6. CASE /\ h.job.thenable \in Promise
               /\ Registers(h.job.thenable, Handler("settle", k), Handler("settle", k), NoPair, new)
               /\ UNCHANGED <<held, running>>
      <3>1. /\ Handler("settle", k) \in Handlers /\ NoPair \in Caps /\ NoPair \in Made'
            /\ Handler("settle", k).of = k /\ k \in DOMAIN target'
        BY <2>3, <2>4 DEF Handler, Handlers, Caps, Made
      <3>2. h.job.thenable \in 1 .. born
        BY <2>3, <2>6, PromiseAssumption
      <3>3. /\ regs' = regs + 1
            /\ \A x \in new : KnownJob(x.job)'
            /\ \A q \in Promise, i \in Nat, r \in Registrations :
                 Listed(q, i, r)' => Listed(q, i, r) \/ KnownRegistration(r)'
        BY <1>0, <2>2, <2>6, <3>1, <3>2, RegistersKnown
      <3>4. KnownLists'
        BY <1>0, <2>2, <2>3, <2>4, <3>3, KnownListsKept
      <3>5. KnownCode'
        BY <2>2, <2>4, <2>6 DEF Known, KnownCode, Made, Idle, NoCode, Code
      <3> QED
        BY <2>5, <3>4, <3>5 DEF Known
    <2>7. CASE /\ h.job.thenable \in Thenables /\ new = {}
               /\ held' = held \cup {k} /\ running' = Code("then", k)
               /\ UNCHANGED <<reactions, regs>>
      <3>1. KnownLists'
        BY <1>0, <2>2, <2>3, <2>4, <2>7, KnownListsKept, ListsUnchanged
      <3>2. KnownCode'
        BY <2>2, <2>4, <2>7 DEF Known, KnownCode, Made, Code
      <3> QED
        BY <2>5, <3>1, <3>2 DEF Known
    <2> QED
      BY <2>1, <2>6, <2>7 DEF ThenableStep
  <1>4. CASE RunImport
    <2>1. PICK h \in Jobs :
             /\ h \in Queued /\ h.job \in ImportJobs /\ h.job.cap \in DOMAIN target
             /\ \/ /\ \E new : Calls(h.job.cap, "reject", Failure, new) /\ Moved({h}, new)
                   /\ UNCHANGED <<running, nested, importing>>
                \/ /\ running' = Code("module", h.job.cap) /\ Moved({h}, {})
                   /\ UNCHANGED <<slots, resolved, adopts, nested, importing>>
                \/ /\ nested' = "draining" /\ importing' = h.job.cap /\ Moved({h}, {})
                   /\ UNCHANGED <<slots, resolved, adopts, running>>
      BY <1>4, RunImportMoves
    <2>2. running = NoCode /\ UNCHANGED <<objects, async, regs>>
      BY <1>4, RunImportMoves DEF RunImport, Idle
    <2>3. KnownCode'
      BY <2>1, <2>2 DEF Known, KnownCode, Made, NoCode, Code, objects
    <2>4. CASE \E new : Calls(h.job.cap, "reject", Failure, new) /\ Moved({h}, new)
      <3>1. PICK new : Calls(h.job.cap, "reject", Failure, new) /\ Moved({h}, new)
        BY <2>4
      <3>2. /\ \A x \in new : KnownJob(x.job)
            /\ \A q \in Promise : \A i, r : Listed(q, i, r)' => Listed(q, i, r)
            /\ \A q \in Promise : state'[q] = "unborn" <=> state[q] = "unborn"
        BY <2>1, <3>1, CallsKnown
      <3>3. \A x \in new : KnownJob(x.job)'
        BY <2>2, <3>2 DEF KnownJob, Made, objects
      <3>4. KnownLists'
        BY <1>0, <2>2, <3>1, <3>2, <3>3, KnownListsKept DEF objects
      <3>5. KnownObjects'
        BY <2>2, <3>2, ObjectsKnown DEF objects, async
      <3> QED
        BY <2>3, <3>4, <3>5 DEF Known
    <2>5. CASE Moved({h}, {}) /\ UNCHANGED slots
      <3>1. KnownLists' /\ KnownObjects'
        BY <2>2, <2>5, MovedKnown, ObjectsKnown DEF slots, objects, async
      <3> QED
        BY <2>3, <3>1 DEF Known
    <2> QED
      BY <2>1, <2>4, <2>5
  <1>5. CASE SettleImport
    <2>1. importing' = NoPair /\ UNCHANGED <<objects, running, async, regs>> /\ Settling(importing)
      BY <1>5, SettleImportMoves DEF SettleImport, Settling
    <2>2. KnownLists' /\ \A q \in Promise : state'[q] = "unborn" <=> state[q] = "unborn"
      BY <2>1, SettlingKnown DEF objects
    <2>3. KnownObjects'
      BY <2>1, <2>2, ObjectsKnown DEF objects, async
    <2> QED
      BY <2>1, <2>2, <2>3 DEF Known, KnownCode, Made, objects, async
  <1> QED
    BY <1>1, <1>2, <1>3, <1>4, <1>5 DEF Engine

-----------------------------------------------------------------------------
(* Settled promises keep their outcome, and jobs match it.                  *)

MatchesStep(new) ==
  /\ \A p \in Promise : state[p] \notin {"unborn", "pending"} =>
       state'[p] = state[p] /\ result'[p] = result[p]
  /\ \A p \in Promise : /\ state'[p] \in {"unborn", "pending"} => result'[p] = Undefined
                        /\ state'[p] = "fulfilled" => result'[p] \in Plainly
  /\ \A p \in Promise, i \in Nat, r \in Registrations : Listed(p, i, r)' => state'[p] = "pending"
  /\ \A x \in new : x.job.type = "reaction" =>
       /\ x.job.source # Nobody =>
            /\ state'[x.job.source] = IF x.job.fulfil THEN "fulfilled" ELSE "rejected"
            /\ result'[x.job.source] = x.job.arg
       /\ x.job.fulfil => x.job.arg \in Plainly

\* What waits is a job with its number.
LEMMA JobsType ==
  ASSUME TypeInv
  PROVE  Jobs \subseteq Queued
  <1>1. \A s \in Seq(Queued) : Rng(s) \subseteq Queued
    BY ElementOfSeq, LenProperties DEF Rng
  <1> QED
    BY <1>1 DEF Jobs, TypeInv, QueueTypes

\* A step that MatchesStep describes keeps Matches, whatever jobs leave.
LEMMA MatchesKept ==
  ASSUME AInv, NEW gone, NEW new, Moved(gone, new), MatchesStep(new)
  PROVE  Matches'
  <1>1. \A x \in Jobs' : x \in Jobs \/ x \in new
    BY DEF Moved
  <1>2. ASSUME NEW x \in Jobs, x.job.type = "reaction"
        PROVE  /\ x.job.source # Nobody =>
                    /\ state'[x.job.source] = IF x.job.fulfil THEN "fulfilled" ELSE "rejected"
                    /\ result'[x.job.source] = x.job.arg
               /\ x.job.fulfil => x.job.arg \in Plainly
    <2>1. x.job \in ReactionJobs
      BY <1>2, JobsType DEF Queued, AllJobs, ThenableJobs, ImportJobs, AInv
    <2>2. x.job.source \in Promise \cup {Nobody}
      BY <2>1 DEF ReactionJobs
    <2> QED
      BY <1>2, <2>2 DEF MatchesStep, AInv, Matches
  <1> QED
    BY <1>1, <1>2 DEF MatchesStep, Matches

\* Nothing new on the lists, and no settlement.
LEMMA QuietMatches ==
  ASSUME AInv, result' = result,
         \A p \in Promise : state'[p] = state[p] \/ (state[p] = "unborn" /\ state'[p] = "pending"),
         \A p \in Promise, i \in Nat, r \in Registrations : Listed(p, i, r)' => Listed(p, i, r)
  PROVE  MatchesStep({})
  BY DEF MatchesStep, AInv, Matches

\* Settling does what MatchesStep asks: all the registrations of the promise
\* become jobs of its outcome ...
LEMMA SettlesMatches ==
  ASSUME AInv, NEW p \in 1 .. born, NEW outcome \in {"fulfilled", "rejected"}, NEW v, NEW new,
         Settles(p, outcome, v, new), outcome = "fulfilled" => v \in Plainly
  PROVE  MatchesStep(new)
  <1> USE DEF AInv
  <1>1. p \in Promise /\ state \in [Promise -> {"unborn", "pending", "fulfilled", "rejected"}]
        /\ result \in [Promise -> Results]
    BY BornType DEF TypeInv, SlotTypes
  <1>2. CASE state[p] # "pending"
    <2>1. UNCHANGED slots /\ new = {}
      BY <1>2 DEF Settles
    <2> QED
      BY <2>1, QuietMatches, ListsUnchanged DEF slots
  <1>3. CASE state[p] = "pending"
    <2>1. /\ state' = [state EXCEPT ![p] = outcome]
          /\ result' = [result EXCEPT ![p] = v]
      BY <1>3 DEF Settles
    <2>2. \A q \in Promise, i \in Nat, r \in Registrations : Listed(q, i, r)' => Listed(q, i, r) /\ q # p
      BY <1>1, <1>3, SettlesLists
    <2>3. ASSUME NEW x \in new
          PROVE  x.job.source = p /\ x.job.fulfil = (outcome = "fulfilled") /\ x.job.arg = v
      BY <1>1, SettlesLists DEF ReactionJob
    <2>4. state'[p] = outcome /\ result'[p] = v
          /\ \A q \in Promise : q # p => state'[q] = state[q] /\ result'[q] = result[q]
      BY <1>1, <2>1
    <2> QED
      BY <1>1, <1>3, <2>2, <2>3, <2>4 DEF MatchesStep, Matches
  <1> QED
    BY <1>2, <1>3

\* ... so does resolving ...
LEMMA ResolvesMatches ==
  ASSUME AInv, NEW p \in 1 .. born, NEW v, NEW new, Resolves(p, v, new)
  PROVE  MatchesStep(new)
  <1>1. CASE UNCHANGED slots /\ new = {[job |-> ThenableJob(p, v), seq |-> enqueued + 1]}
    <2>1. MatchesStep({})
      BY <1>1, QuietMatches, ListsUnchanged DEF slots
    <2>2. \A x \in new : x.job.type # "reaction"
      BY <1>1 DEF ThenableJob
    <2> QED
      BY <2>1, <2>2 DEF MatchesStep
  <1>2. CASE Settles(p, "rejected", Failure, new)
    BY <1>2, SettlesMatches
  <1>3. CASE Settles(p, "fulfilled", v, new) /\ v \in Plainly
    BY <1>3, SettlesMatches
  <1> QED
    BY <1>1, <1>2, <1>3 DEF Resolves

\* ... so does a call of a resolving function ...
LEMMA CallsMatches ==
  ASSUME AInv, NEW k \in DOMAIN target, NEW how, NEW v, NEW new, Calls(k, how, v, new)
  PROVE  MatchesStep(new)
  <1>1. target[k] \in 1 .. born
    BY DEF AInv, Known, KnownObjects
  <1>2. CASE UNCHANGED <<slots, adopts>> /\ new = {}
    BY <1>2, QuietMatches, ListsUnchanged DEF slots
  <1> QED
    BY <1>1, <1>2, ResolvesMatches, SettlesMatches DEF Calls

\* ... and so does the end of user code that settles a capability.
LEMMA SettlingMatches ==
  ASSUME AInv, NEW k, Settling(k)
  PROVE  Matches'
  <1>1. CASE UNCHANGED <<slots, resolved, adopts>> /\ Moved({}, {})
    BY <1>1, MatchesKept, QuietMatches, ListsUnchanged DEF slots
  <1>2. CASE Calling(k)
    BY <1>2, MatchesKept, CallsMatches DEF Calling
  <1> QED
    BY <1>1, <1>2 DEF Settling

\* A registration at a settled promise becomes the job of its outcome at once
\* ...
LEMMA RegistersMatches ==
  ASSUME AInv, NEW p \in 1 .. born, NEW h, NEW g, NEW k, NEW new, Registers(p, h, g, k, new),
         result' = result,
         \A q \in Promise : state'[q] = state[q] \/ (state[q] = "unborn" /\ state'[q] = "pending")
  PROVE  MatchesStep(new)
  <1> USE DEF AInv
  <1>1. p \in Promise /\ state[p] \in {"pending", "fulfilled", "rejected"}
    <2>1. p \in Promise /\ born \in Nat
      BY BornType
    <2>2. state[p] # "unborn"
      BY <2>1 DEF Known, KnownObjects
    <2> QED
      BY <2>1, <2>2 DEF TypeInv, SlotTypes
  <1>2. \A q \in Promise, i \in Nat, r \in Registrations : Listed(q, i, r)' =>
           Listed(q, i, r) \/ (state[p] = "pending" /\ q = p)
    BY <1>1, RegistersLists
  <1>3. ASSUME NEW x \in new
        PROVE  /\ x.job.source = p /\ x.job.arg = result[p]
               /\ x.job.fulfil = (state[p] = "fulfilled") /\ state[p] # "pending"
    BY DEF Registers, ReactionJob
  <1> QED
    BY <1>1, <1>2, <1>3 DEF MatchesStep, Matches

\* ... also that of an await.
LEMMA AwaitsMatches ==
  ASSUME AInv, NEW f \in AsyncFunctions, NEW v \in Values, NEW new, Awaits(f, v, new),
         result' = result,
         \A q \in Promise : state'[q] = state[q] \/ (state[q] = "unborn" /\ state'[q] = "pending")
  PROVE  MatchesStep(new)
  <1> DEFINE resume == Handler("resume", f)
  <1>1. CASE v \in Promise /\ Registers(v, resume, resume, NoPair, new)
    <2>1. v \in 1 .. born
      BY <1>1, PromiseAssumption DEF Values
    <2> QED
      BY <1>1, <2>1, RegistersMatches
  <1>2. CASE UNCHANGED reactions /\ new = {[job |-> AwaitJob(f, v), seq |-> enqueued + 1]}
    <2>1. MatchesStep({})
      BY <1>2, QuietMatches, ListsUnchanged
    <2>2. \A x \in new : x.job.source = Nobody /\ (x.job.fulfil => x.job.arg \in Plainly)
      BY <1>2 DEF AwaitJob, ReactionJob, Plainly
    <2> QED
      BY <2>1, <2>2 DEF MatchesStep
  <1> QED
    BY <1>1, <1>2 DEF Awaits

\* The new promise q was unborn.
LEMMA NewPromiseState ==
  ASSUME AInv, NEW q \in Promise, q = born + 1, state' = [state EXCEPT ![q] = "pending"]
  PROVE  /\ \A p \in Promise : state'[p] = state[p] \/ (state[p] = "unborn" /\ state'[p] = "pending")
         /\ state[q] = "unborn" /\ state'[q] = "pending"
         /\ \A p \in Promise : p # q => state'[p] = state[p]
  <1>1. state[q] = "unborn"
    BY BornType DEF AInv, Known, KnownObjects
  <1> QED
    BY <1>1 DEF AInv, TypeInv, SlotTypes

\* Every step keeps Matches.
LEMMA MatchesNext ==
  ASSUME AInv, Next
  PROVE  Matches'
  <1> USE DEF AInv
  <1>1. CASE New
    <2>1. PICK p \in Promise, k \in Pair : NewStep(p, k)
      BY <1>1, NewMoves
    <2>2. /\ Moved({}, {}) /\ result' = result /\ reactions' = reactions
          /\ p = born + 1 /\ state' = [state EXCEPT ![p] = "pending"]
      BY <2>1 DEF NewStep, NewPromise
    <2> QED
      BY <2>2, NewPromiseState, QuietMatches, MatchesKept, ListsUnchanged
  <1>2. CASE CallResolving
    BY <1>2, CallResolvingMoves, SettlingMatches DEF Settling
  <1>3. CASE Then
    <2>1. PICK p, h, g, new :
              /\ p \in Promise /\ h \in {NoHandler, UserHandler} /\ g \in {NoHandler, UserHandler}
              /\ Moved({}, new)
              /\ \/ \E q \in Promise, k \in Pair : ThenNative(p, q, k, h, g, new)
                 \/ ThenSpecies(p, h, g, new)
      BY <1>3, ThenMoves
    <2>2. result' = result
      BY <1>3 DEF Then
    <2>3. /\ \A q \in Promise : state'[q] = state[q] \/ (state[q] = "unborn" /\ state'[q] = "pending")
          /\ p \in 1 .. born /\ \E k : Registers(p, h, g, k, new)
      BY <2>1, NewPromiseState DEF ThenNative, ThenSpecies
    <2> QED
      BY <2>1, <2>2, <2>3, RegistersMatches, MatchesKept
  <1>4. CASE CallAsync
    <2>1. PICK f, p, v, new :
             f \in AsyncFunctions /\ p \in Promise /\ v \in Values /\ CallAsyncStep(f, p, v, new)
      BY <1>4, CallAsyncMoves
    <2>2. result' = result
      BY <1>4 DEF CallAsync
    <2>3. MatchesStep(new) /\ Moved({}, new)
      BY <2>1, <2>2, NewPromiseState, AwaitsMatches DEF CallAsyncStep
    <2> QED
      BY <2>3, MatchesKept
  <1>5. CASE dynamic_import
    <2>1. PICK p \in Promise, k \in Pair :
            NewPromise(p) /\ NewPair(k, p) /\ Moved({}, {ImportedJob(k)})
      BY <1>5, ImportMoves
    <2>2. /\ result' = result /\ reactions' = reactions
          /\ p = born + 1 /\ state' = [state EXCEPT ![p] = "pending"]
      BY <2>1 DEF NewPromise
    <2>3. MatchesStep({})
      BY <2>2, NewPromiseState, QuietMatches, ListsUnchanged
    <2>4. MatchesStep({ImportedJob(k)})
      BY <2>3 DEF MatchesStep, ImportedJob, ImportJob
    <2> QED
      BY <2>1, <2>4, MatchesKept
  <1>6. CASE HandlerEnds \/ ThenMethodEnds \/ ModuleEnds \/ SettleImport
    <2>1. CASE \E k : Settling(k)
      BY <2>1, SettlingMatches
    <2>2. CASE UNCHANGED slots /\ \E gone : Moved(gone, {})
      BY <2>2, QuietMatches, MatchesKept, ListsUnchanged DEF slots
    <2> QED
      BY <1>6, <2>1, <2>2, HandlerEndsMoves, ThenMethodEndsMoves, ModuleEndsMoves,
         SettleImportMoves DEF Settling
  <1>7. CASE ScriptEnds \/ TakeBatch \/ EndNestedDrain \/ DrainEnds \/ run_jobs
    <2>1. UNCHANGED slots /\ Moved({}, {})
      BY <1>7, TakeBatchMoves, OtherMoves DEF ScriptEnds, TakeBatch, EndNestedDrain, DrainEnds, run_jobs
    <2> QED
      BY <2>1, QuietMatches, MatchesKept, ListsUnchanged DEF slots
  <1>8. CASE AwaitAgain
    <2>1. UNCHANGED <<state, result>> /\ running.of \in AsyncFunctions
      BY <1>8, BodyRuns DEF AwaitAgain
    <2>2. PICK v, new :
             v \in Values /\ Awaits(running.of, v, new) /\ Moved({}, new)
      BY <1>8, AwaitAgainMoves
    <2> QED
      BY <2>1, <2>2, AwaitsMatches, MatchesKept
  <1>9. CASE BodyEnds
    <2> DEFINE p == promise_of[running.of]
    <2>1. PICK v, new :
             /\ v \in Values
             /\ Moved({}, new)
             /\ \/ Resolves(p, v, new)
                \/ Settles(p, "rejected", v, new) /\ UNCHANGED adopts
      BY <1>9, BodyEndsMoves
    <2>2. p \in 1 .. born
      BY <1>9, BodyRuns DEF BodyEnds, Known, KnownObjects, TypeInv, ObjectTypes, Nobody
    <2> HIDE DEF p
    <2> QED
      BY <2>1, <2>2, ResolvesMatches, SettlesMatches, MatchesKept
  <1>10. CASE RunReaction
    <2> DEFINE h == Head(Rest)
    <2>1. ReactionStep(h)
      BY <1>10, ReactionMoves
    <2> HIDE DEF h
    <2>2. CASE Fails(h) \/ Begins(h)
      <3>1. UNCHANGED slots /\ \E gone : Moved(gone, {})
        BY <2>2 DEF Fails, Begins
      <3> QED
        BY <3>1, QuietMatches, MatchesKept, ListsUnchanged DEF slots
    <2>3. ASSUME NEW k, NEW new, Answers(h, k, new) PROVE Matches'
      BY <2>3, CallsMatches, MatchesKept DEF Answers
    <2> QED
      BY <2>1, <2>2, <2>3 DEF ReactionStep
  <1>11. CASE RunThenable
    <2> DEFINE h == Head(Rest)
    <2>1. PICK k, new : ThenableStep(h, k, new)
      BY <1>11, ThenableMoves
    <2>2. UNCHANGED <<state, result>>
      BY <1>11 DEF RunThenable
    <2> HIDE DEF h
    <2>3. h \in Jobs /\ h.job \in ThenableJobs /\ Moved({h}, new)
      BY <2>1 DEF ThenableStep
    <2>4. CASE /\ h.job.thenable \in Promise
               /\ Registers(h.job.thenable, Handler("settle", k), Handler("settle", k), NoPair, new)
      <3>1. h.job.thenable \in 1 .. born
        BY <2>3, <2>4, PromiseAssumption DEF ThenableJobs, Known, KnownLists, KnownJob
      <3> QED
        BY <2>2, <2>3, <2>4, <3>1, RegistersMatches, MatchesKept
    <2>5. CASE new = {} /\ UNCHANGED reactions
      BY <2>2, <2>3, <2>5, QuietMatches, MatchesKept, ListsUnchanged
    <2> QED
      BY <2>1, <2>4, <2>5 DEF ThenableStep
  <1>12. CASE RunImport
    <2>1. CASE UNCHANGED slots /\ \E gone : Moved(gone, {})
      BY <2>1, QuietMatches, MatchesKept, ListsUnchanged DEF slots
    <2>2. CASE \E k \in DOMAIN target : \E gone, new : Calls(k, "reject", Failure, new) /\ Moved(gone, new)
      BY <2>2, CallsMatches, MatchesKept
    <2> QED
      BY <1>12, <2>1, <2>2, RunImportMoves
  <1> QED
    BY <1>1, <1>2, <1>3, <1>4, <1>5, <1>6, <1>7, <1>8, <1>9, <1>10, <1>11, <1>12
       DEF Next, UserCall, Complete, Engine

-----------------------------------------------------------------------------
(* What resumes an async function.                                         *)

\* Nothing new resumes a function, and one that is not suspended any more was
\* due to a job that has left.
LEMMA ResumeKept ==
  ASSUME AInv, NEW gone, NEW new, Moved(gone, new),
         \A p \in Promise, i \in Nat, r \in Registrations : Listed(p, i, r)' =>
           Listed(p, i, r) \/ (r.on_fulfilled.kind # "resume" /\ r.on_rejected.kind # "resume"),
         \A x \in new : x.job.type = "reaction" => x.job.handler.kind # "resume",
         \A f \in AsyncFunctions : body[f] = "suspended" =>
           body'[f] = "suspended" \/ \E h \in gone : ResumeDue(f, h)
  PROVE  ResumeInv'
  <1> USE DEF AInv
  <1>1. \A f : Handler("resume", f).kind = "resume"
    BY DEF Handler
  <1>2. \A p \in Promise, i \in Nat, f \in AsyncFunctions : ResumeAt(f, p, i)' => ResumeAt(f, p, i)
    BY <1>1 DEF ResumeAt
  <1>3. \A x, f : ResumeDue(f, x)' => ResumeDue(f, x) /\ x \notin gone
    BY <1>1 DEF ResumeDue, Moved
  <1>4. \A p \in Promise, i \in Nat, r \in Registrations, f \in AsyncFunctions :
          Listed(p, i, r)' => (r.on_rejected = Handler("resume", f) <=> r.on_fulfilled = Handler("resume", f))
    BY <1>1 DEF ResumeInv
  <1>5. ASSUME NEW p \in Promise, NEW i \in Nat, NEW f \in AsyncFunctions, ResumeAt(f, p, i)'
        PROVE  /\ body'[f] = "suspended"
               /\ \A q \in Promise, j \in Nat : ResumeAt(f, q, j)' => q = p /\ j = i
               /\ \A x \in Jobs' : ~ResumeDue(f, x)'
    <2>1. ResumeAt(f, p, i)
      BY <1>2, <1>5
    <2>2. \A x : ~ResumeDue(f, x)
      BY <2>1 DEF ResumeInv, ResumeDue
    <2> QED
      BY <1>2, <1>3, <2>1, <2>2 DEF ResumeInv
  <1>6. ASSUME NEW x \in Jobs', NEW f \in AsyncFunctions, ResumeDue(f, x)'
        PROVE  /\ body'[f] = "suspended"
               /\ \A y \in Jobs' : ResumeDue(f, y)' => y = x
    <2>1. ResumeDue(f, x) /\ x \notin gone
      BY <1>3, <1>6
    <2>2. \A y : ResumeDue(f, y) => y = x
      BY <2>1 DEF ResumeInv, ResumeDue
    <2>3. body[f] = "suspended"
      BY <2>1 DEF ResumeInv, ResumeDue
    <2> QED
      BY <1>3, <2>1, <2>2, <2>3
  <1> QED
    BY <1>4, <1>5, <1>6 DEF ResumeInv

\* A settlement makes jobs of the registrations that resume.
LEMMA SettlesResume ==
  ASSUME AInv, NEW p \in Promise, NEW outcome, NEW v, NEW gone, NEW new,
         Settles(p, outcome, v, new), Moved(gone, new),
         \A f \in AsyncFunctions : body[f] = "suspended" => body'[f] = "suspended"
  PROVE  ResumeInv'
  <1> USE DEF AInv
  <1>1. \A q \in Promise : \A i, r : Listed(q, i, r)' <=> Listed(q, i, r) /\ (q # p \/ state[p] # "pending")
    BY SettlesLists
  <1>2. \A x \in new : state[p] = "pending"
    BY SettlesLists
  <1>3. ASSUME NEW x \in new, NEW f \in AsyncFunctions, x.job.handler = Handler("resume", f)
        PROVE  \E i \in Nat, r \in Registrations :
                 /\ Listed(p, i, r) /\ r.on_fulfilled = Handler("resume", f)
                 /\ x = [job |-> ReactionJob(p, r, outcome = "fulfilled", v), seq |-> enqueued + i]
    <2>1. PICK i \in Nat, r \in Registrations :
             /\ Listed(p, i, r)
             /\ x = [job |-> ReactionJob(p, r, outcome = "fulfilled", v), seq |-> enqueued + i]
      BY SettlesLists
    <2>2. x.job.handler = Half(r, outcome = "fulfilled")
      BY <2>1 DEF ReactionJob
    <2>3. r.on_fulfilled = Handler("resume", f) \/ r.on_rejected = Handler("resume", f)
      BY <1>3, <2>2 DEF Half
    <2>4. r.on_fulfilled = Handler("resume", f)
      BY <2>1, <2>3 DEF ResumeInv
    <2> QED
      BY <2>1, <2>4
  <1>4. \A q \in Promise, i \in Nat, f \in AsyncFunctions : ResumeAt(f, q, i)' =>
          ResumeAt(f, q, i) /\ (q # p \/ state[p] # "pending")
    BY <1>1 DEF ResumeAt
  <1>5. \A x, f : ResumeDue(f, x)' => ResumeDue(f, x) \/ (x \in new /\ x.job.handler = Handler("resume", f))
    BY DEF ResumeDue, Moved
  <1>6. \A x \in new, f \in AsyncFunctions : x.job.handler = Handler("resume", f) =>
          state[p] = "pending" /\ \E i \in Nat : ResumeAt(f, p, i)
    BY <1>2, <1>3 DEF ResumeAt
  <1>7. \A q \in Promise, i \in Nat, r \in Registrations, f \in AsyncFunctions :
          Listed(q, i, r)' => (r.on_rejected = Handler("resume", f) <=> r.on_fulfilled = Handler("resume", f))
    BY <1>1 DEF ResumeInv
  <1>8. ASSUME NEW q \in Promise, NEW i \in Nat, NEW f \in AsyncFunctions, ResumeAt(f, q, i)'
        PROVE  /\ body'[f] = "suspended"
               /\ \A y \in Promise, j \in Nat : ResumeAt(f, y, j)' => y = q /\ j = i
               /\ \A x \in Jobs' : ~ResumeDue(f, x)'
    <2>1. ResumeAt(f, q, i) /\ (q # p \/ state[p] # "pending")
      BY <1>4, <1>8
    <2>2. \A y \in Promise, j \in Nat : ResumeAt(f, y, j) => y = q /\ j = i
      BY <2>1 DEF ResumeInv
    <2>3. \A x \in Jobs' : ~ResumeDue(f, x)'
      <3>1. \A x : ~ResumeDue(f, x)
        BY <2>1 DEF ResumeInv, ResumeDue
      <3>2. \A x \in new : x.job.handler # Handler("resume", f)
        BY <1>6, <2>1, <2>2
      <3> QED
        BY <1>5, <3>1, <3>2
    <2> QED
      BY <1>4, <2>1, <2>2, <2>3 DEF ResumeInv
  <1>9. ASSUME NEW x \in Jobs', NEW f \in AsyncFunctions, ResumeDue(f, x)'
        PROVE  /\ body'[f] = "suspended"
               /\ \A y \in Jobs' : ResumeDue(f, y)' => y = x
    <2>1. CASE ResumeDue(f, x)
      <3>1. \A q \in Promise, i \in Nat : ~ResumeAt(f, q, i)
        BY <2>1 DEF ResumeInv, ResumeDue
      <3>2. \A y \in new : y.job.handler # Handler("resume", f)
        BY <1>6, <3>1
      <3> QED
        BY <1>5, <2>1, <3>2 DEF ResumeInv, ResumeDue
    <2>2. CASE x \in new /\ x.job.handler = Handler("resume", f)
      <3>1. PICK i \in Nat, r \in Registrations :
                 /\ Listed(p, i, r) /\ r.on_fulfilled = Handler("resume", f)
                 /\ x = [job |-> ReactionJob(p, r, outcome = "fulfilled", v), seq |-> enqueued + i]
        BY <1>3, <2>2
      <3>2. ResumeAt(f, p, i)
        BY <3>1 DEF ResumeAt
      <3>3. body[f] = "suspended" /\ (\A y : ~ResumeDue(f, y))
            /\ \A j \in Nat : ResumeAt(f, p, j) => j = i
        BY <3>2 DEF ResumeInv, ResumeDue
      <3>4. ASSUME NEW y \in new, y.job.handler = Handler("resume", f)
            PROVE  y = x
        <4>1. PICK j \in Nat, s \in Registrations :
                 /\ Listed(p, j, s) /\ s.on_fulfilled = Handler("resume", f)
                 /\ y = [job |-> ReactionJob(p, s, outcome = "fulfilled", v), seq |-> enqueued + j]
          BY <1>3, <3>4
        <4>2. j = i /\ s = r
          BY <3>1, <3>3, <4>1 DEF ResumeAt, Listed
        <4> QED
          BY <3>1, <4>1, <4>2
      <3> QED
        BY <1>5, <3>3, <3>4
    <2> QED
      BY <1>5, <1>9, <2>1, <2>2
  <1> QED
    BY <1>7, <1>8, <1>9 DEF ResumeInv

\* Resolving makes no registration that resumes a body, and no second job of
\* one ...
LEMMA ResolvesResume ==
  ASSUME AInv, NEW p \in Promise, NEW v, NEW gone, NEW new,
         Resolves(p, v, new), Moved(gone, new),
         \A f \in AsyncFunctions : body[f] = "suspended" => body'[f] = "suspended"
  PROVE  ResumeInv'
  <1>1. CASE UNCHANGED slots /\ new = {[job |-> ThenableJob(p, v), seq |-> enqueued + 1]}
    <2>1. \A x \in new : x.job.type # "reaction"
      BY <1>1 DEF ThenableJob
    <2> QED
      BY <1>1, <2>1, ResumeKept, ListsUnchanged DEF slots
  <1> QED
    BY <1>1, SettlesResume DEF Resolves

\* ... nor does a call of a resolving function ...
LEMMA CallsResume ==
  ASSUME AInv, NEW k \in DOMAIN target, NEW how, NEW v, NEW gone, NEW new,
         Calls(k, how, v, new), Moved(gone, new),
         \A f \in AsyncFunctions : body[f] = "suspended" => body'[f] = "suspended"
  PROVE  ResumeInv'
  <1>1. target[k] \in Promise
    BY DEF AInv, TypeInv, ObjectTypes
  <1>2. CASE UNCHANGED <<slots, adopts>> /\ new = {}
    BY <1>2, ResumeKept, ListsUnchanged DEF slots
  <1> QED
    BY <1>1, <1>2, ResolvesResume, SettlesResume DEF Calls

\* ... nor the end of user code that settles a capability.
LEMMA SettlingResume ==
  ASSUME AInv, NEW k, Settling(k), body' = body
  PROVE  ResumeInv'
  <1>1. CASE UNCHANGED <<slots, resolved, adopts>> /\ Moved({}, {})
    BY <1>1, ResumeKept, ListsUnchanged DEF slots
  <1>2. CASE Calling(k)
    BY <1>2, CallsResume DEF Calling
  <1> QED
    BY <1>1, <1>2 DEF Settling

\* A function that begins to wait had nothing that resumes it.
LEMMA AwaitsResume ==
  ASSUME AInv, NEW f \in AsyncFunctions, NEW v, NEW new, Awaits(f, v, new), Moved({}, new),
         body[f] # "suspended"
  PROVE  ResumeInv'
  <1> USE DEF AInv
  <1> DEFINE resume == Handler("resume", f)
  <1>1. /\ body'[f] = "suspended"
        /\ \A g \in AsyncFunctions : g # f => body'[g] = body[g]
    BY DEF Awaits, TypeInv, ObjectTypes
  <1>2. (\A p \in Promise, i \in Nat : ~ResumeAt(f, p, i)) /\ (\A x : ~ResumeDue(f, x))
    BY DEF ResumeInv, ResumeDue
  <1>3. \A g \in AsyncFunctions : Handler("resume", g) = resume <=> g = f
    BY DEF Handler
  <1>4. CASE v \in Promise /\ state[v] = "pending" /\ Registers(v, resume, resume, NoPair, new)
    <2> DEFINE n == Len(reactions[v]) + 1
    <2>1. PICK reg : reg = Registration(resume, resume, NoPair)
      OBVIOUS
    <2>2. new = {} /\ n \in Nat
      BY <1>4, ListedType DEF Registers
    <2>3. reg.on_fulfilled = resume /\ reg.on_rejected = resume
      BY <2>1 DEF Registration
    <2>4. \A q \in Promise : \A i, r : Listed(q, i, r)' <=>
             Listed(q, i, r) \/ (q = v /\ i = n /\ r = reg)
      BY <1>4, <2>1, RegistersLists
    <2> HIDE DEF n, resume
    <2>5. \A q \in Promise, i \in Nat, g \in AsyncFunctions : ResumeAt(g, q, i)' =>
             ResumeAt(g, q, i) \/ (q = v /\ i = n /\ g = f)
      BY <1>3, <2>3, <2>4 DEF ResumeAt
    <2>6. \A x, g : ResumeDue(g, x)' <=> ResumeDue(g, x)
      BY <2>2 DEF ResumeDue, Moved
    <2>7. \A q \in Promise, i \in Nat, r \in Registrations, g \in AsyncFunctions :
          Listed(q, i, r)' => (r.on_rejected = Handler("resume", g) <=> r.on_fulfilled = Handler("resume", g))
      BY <2>3, <2>4 DEF ResumeInv
    <2>8. \A q \in Promise, i \in Nat, g \in AsyncFunctions : ResumeAt(g, q, i)' =>
             /\ body'[g] = "suspended"
             /\ \A y \in Promise, j \in Nat : ResumeAt(g, y, j)' => y = q /\ j = i
             /\ \A x \in Jobs' : ~ResumeDue(g, x)'
      <3>1. SUFFICES ASSUME NEW q \in Promise, NEW i \in Nat, NEW g \in AsyncFunctions, ResumeAt(g, q, i)'
                     PROVE  /\ body'[g] = "suspended"
                            /\ \A y \in Promise, j \in Nat : ResumeAt(g, y, j)' => y = q /\ j = i
                            /\ \A x \in Jobs' : ~ResumeDue(g, x)'
        OBVIOUS
      <3>2. CASE g = f
        BY <1>1, <1>2, <2>5, <2>6, <3>1, <3>2
      <3>3. CASE g # f
        <4>1. ResumeAt(g, q, i)
          BY <2>5, <3>1, <3>3
        <4>2. \A x : ~ResumeDue(g, x)
          BY <4>1 DEF ResumeInv, ResumeDue
        <4> QED
          BY <1>1, <2>5, <2>6, <3>3, <4>1, <4>2 DEF ResumeInv
      <3> QED
        BY <3>2, <3>3
    <2>9. \A x \in Jobs', g \in AsyncFunctions : ResumeDue(g, x)' =>
             body'[g] = "suspended" /\ \A y \in Jobs' : ResumeDue(g, y)' => y = x
      <3>1. \A x, g : ResumeDue(g, x) => x \in Jobs /\ g # f
        BY <1>2 DEF ResumeDue
      <3> QED
        BY <1>1, <2>6, <3>1 DEF ResumeInv
    <2> QED
      BY <2>7, <2>8, <2>9 DEF ResumeInv
  <1>5. ASSUME NEW p, NEW fulfil, NEW a, UNCHANGED reactions,
               new = {[job |-> ReactionJob(p, Registration(resume, resume, NoPair), fulfil, a),
                       seq |-> enqueued + 1]}
        PROVE  ResumeInv'
    <2>1. PICK x : x = [job |-> ReactionJob(p, Registration(resume, resume, NoPair), fulfil, a),
                        seq |-> enqueued + 1]
      OBVIOUS
    <2>2. new = {x} /\ x.job.handler = resume
      BY <1>5, <2>1 DEF ReactionJob, Registration, Half
    <2>3. \A q, i, g : ResumeAt(g, q, i)' <=> ResumeAt(g, q, i)
      BY <1>5 DEF ResumeAt, Listed
    <2> HIDE DEF resume
    <2>4. \A y : \A g \in AsyncFunctions : ResumeDue(g, y)' => ResumeDue(g, y) \/ (y = x /\ g = f)
      BY <1>3, <2>2 DEF ResumeDue, Moved
    <2>5. \A q \in Promise, i \in Nat, r \in Registrations, g \in AsyncFunctions :
          Listed(q, i, r)' => (r.on_rejected = Handler("resume", g) <=> r.on_fulfilled = Handler("resume", g))
      BY <1>5, ListsUnchanged DEF ResumeInv
    <2>6. \A q \in Promise, i \in Nat, g \in AsyncFunctions : ResumeAt(g, q, i)' =>
             /\ body'[g] = "suspended"
             /\ \A y \in Promise, j \in Nat : ResumeAt(g, y, j)' => y = q /\ j = i
             /\ \A y \in Jobs' : ~ResumeDue(g, y)'
      <3>1. SUFFICES ASSUME NEW q \in Promise, NEW i \in Nat, NEW g \in AsyncFunctions, ResumeAt(g, q, i)
                     PROVE  /\ body'[g] = "suspended"
                            /\ \A y \in Promise, j \in Nat : ResumeAt(g, y, j) => y = q /\ j = i
                            /\ \A y : ~ResumeDue(g, y)'
        BY <2>3
      <3>2. g # f /\ \A y : ~ResumeDue(g, y)
        BY <1>2, <3>1 DEF ResumeInv, ResumeDue
      <3> QED
        BY <1>1, <2>4, <3>1, <3>2 DEF ResumeInv
    <2>7. \A y \in Jobs', g \in AsyncFunctions : ResumeDue(g, y)' =>
             body'[g] = "suspended" /\ \A z \in Jobs' : ResumeDue(g, z)' => z = y
      <3>1. \A y, g : ResumeDue(g, y) => y \in Jobs /\ g # f
        BY <1>2 DEF ResumeDue
      <3> QED
        BY <1>1, <2>4, <3>1 DEF ResumeInv
    <2> QED
      BY <2>5, <2>6, <2>7 DEF ResumeInv
  <1> QED
    BY <1>4, <1>5 DEF Awaits, Registers, AwaitJob


\* What a registration that resumes nothing adds does not resume either.
LEMMA RegistersResume ==
  ASSUME AInv, NEW p \in Promise, NEW h, NEW g, NEW k, NEW gone, NEW new,
         Registers(p, h, g, k, new), Moved(gone, new), h.kind # "resume", g.kind # "resume",
         UNCHANGED body
  PROVE  ResumeInv'
  <1>1. \A q \in Promise, i \in Nat, r \in Registrations : Listed(q, i, r)' =>
          Listed(q, i, r) \/ (r.on_fulfilled.kind # "resume" /\ r.on_rejected.kind # "resume")
    BY RegistersLists DEF AInv, Registration
  <1>2. \A x \in new : x.job.handler.kind # "resume"
    BY DEF Registers, ReactionJob, Registration, Half
  <1> QED
    BY <1>1, <1>2, ResumeKept

\* The body that runs was suspended when its job began, and only then.
LEMMA ReactionResume ==
  ASSUME AInv, NEW h, ReactionStep(h)
  PROVE  ResumeInv'
  <1>1. CASE Fails(h)
    <2>1. UNCHANGED <<slots, body>> /\ Moved(Rng(Rest), {})
      BY <1>1 DEF Fails
    <2> QED
      BY <2>1, ResumeKept, ListsUnchanged DEF slots
  <1>2. CASE Begins(h)
    <2>1. UNCHANGED slots /\ Moved({h}, {}) /\ h \in Jobs /\ h.job \in ReactionJobs
      BY <1>2 DEF Begins, ReactionStep
    <2>2. \A f \in AsyncFunctions : body[f] = "suspended" =>
            body'[f] = "suspended" \/ \E x \in {h} : ResumeDue(f, x)
      <3>1. SUFFICES ASSUME NEW f \in AsyncFunctions, body[f] = "suspended", body'[f] # "suspended"
                     PROVE  ResumeDue(f, h)
        OBVIOUS
      <3>2. h.job.handler.kind = "resume" /\ h.job.handler.of = f
        BY <1>2, <3>1 DEF Begins, AInv, TypeInv, ObjectTypes
      <3>3. h.job.handler = Handler("resume", f) /\ h.job.type = "reaction"
        BY <2>1, <3>2 DEF ReactionJobs, Handlers, Handler
      <3> QED
        BY <2>1, <3>3 DEF ResumeDue
    <2> QED
      BY <2>1, <2>2, ResumeKept, ListsUnchanged DEF slots
  <1>3. ASSUME NEW k, NEW new, Answers(h, k, new) PROVE ResumeInv'
    BY <1>3, CallsResume DEF Answers
  <1> QED
    BY <1>1, <1>2, <1>3 DEF ReactionStep

\* Every step keeps ResumeInv.
LEMMA ResumeNext ==
  ASSUME AInv, Next
  PROVE  ResumeInv'
  <1> USE DEF AInv
  <1>1. CASE New \/ dynamic_import
    <2>1. reactions' = reactions /\ body' = body
      BY <1>1 DEF New, dynamic_import, NewPromise, async
    <2>2. Moved({}, {}) \/ \E k \in Pair : Moved({}, {ImportedJob(k)})
      BY <1>1, NewMoves, ImportMoves DEF NewStep
    <2>3. \A k : ImportedJob(k).job.type # "reaction"
      BY DEF ImportedJob, ImportJob
    <2>4. CASE Moved({}, {})
      BY <2>1, <2>4, ResumeKept, ListsUnchanged
    <2>5. ASSUME NEW k \in Pair, Moved({}, {ImportedJob(k)}) PROVE ResumeInv'
      <3>1. \A x \in {ImportedJob(k)} : x.job.type # "reaction"
        BY <2>3
      <3> QED
        BY <2>1, <2>5, <3>1, ResumeKept, ListsUnchanged
    <2> QED
      BY <2>2, <2>4, <2>5
  <1>2. CASE CallResolving
    <2>1. body' = body
      BY <1>2 DEF CallResolving, async
    <2> QED
      BY <1>2, <2>1, CallResolvingMoves, SettlingResume DEF Settling
  <1>3. CASE Then
    <2>1. PICK p, h, g, new :
              /\ p \in Promise /\ h \in {NoHandler, UserHandler} /\ g \in {NoHandler, UserHandler}
              /\ Moved({}, new)
              /\ \/ \E q \in Promise, k \in Pair : ThenNative(p, q, k, h, g, new)
                 \/ ThenSpecies(p, h, g, new)
      BY <1>3, ThenMoves
    <2>2. body' = body
      BY <1>3 DEF Then, async
    <2>3. h.kind # "resume" /\ g.kind # "resume"
      BY <2>1 DEF NoHandler, UserHandler, Handler
    <2>4. \E k : Registers(p, h, g, k, new)
      BY <2>1 DEF ThenNative, ThenSpecies
    <2> QED
      BY <2>1, <2>2, <2>3, <2>4, RegistersResume
  <1>4. CASE CallAsync
    <2>1. PICK f, p, v, new :
             f \in AsyncFunctions /\ p \in Promise /\ v \in Values /\ CallAsyncStep(f, p, v, new)
      BY <1>4, CallAsyncMoves
    <2> QED
      BY <2>1, AwaitsResume DEF CallAsyncStep
  <1>5. CASE HandlerEnds \/ ThenMethodEnds \/ ModuleEnds \/ SettleImport
    <2>1. body' = body
      BY <1>5 DEF HandlerEnds, ThenMethodEnds, ModuleEnds, SettleImport, async
    <2>2. CASE \E k : Settling(k)
      BY <2>1, <2>2, SettlingResume
    <2>3. CASE UNCHANGED slots /\ \E gone : Moved(gone, {})
      BY <2>1, <2>3, ResumeKept, ListsUnchanged DEF slots
    <2> QED
      BY <1>5, <2>2, <2>3, HandlerEndsMoves, ThenMethodEndsMoves, ModuleEndsMoves,
         SettleImportMoves DEF Settling
  <1>6. CASE ScriptEnds \/ TakeBatch \/ EndNestedDrain \/ DrainEnds \/ run_jobs
    <2>1. UNCHANGED <<slots, body>> /\ Moved({}, {})
      BY <1>6, TakeBatchMoves, OtherMoves
         DEF ScriptEnds, TakeBatch, EndNestedDrain, DrainEnds, run_jobs, async
    <2> QED
      BY <2>1, ResumeKept, ListsUnchanged DEF slots
  <1>7. CASE AwaitAgain
    <2>1. running.of \in AsyncFunctions /\ body[running.of] # "suspended"
      BY <1>7, BodyRuns DEF AwaitAgain
    <2> QED
      BY <1>7, <2>1, AwaitAgainMoves, AwaitsResume
  <1>8. CASE BodyEnds
    <2> DEFINE p == promise_of[running.of]
    <2>1. PICK v, new :
             /\ v \in Values
             /\ Moved({}, new)
             /\ \/ Resolves(p, v, new)
                \/ Settles(p, "rejected", v, new) /\ UNCHANGED adopts
      BY <1>8, BodyEndsMoves
    <2>2. p \in Promise /\ running.of \in AsyncFunctions /\ body[running.of] # "suspended"
      BY <1>8, BodyRuns DEF BodyEnds
    <2>3. \A f \in AsyncFunctions : body[f] = "suspended" => body'[f] = "suspended"
      BY <1>8, <2>2 DEF BodyEnds, TypeInv, ObjectTypes
    <2> HIDE DEF p
    <2> QED
      BY <2>1, <2>2, <2>3, ResolvesResume, SettlesResume
  <1>9. CASE RunReaction
    BY <1>9, ReactionMoves, ReactionResume
  <1>10. CASE RunThenable
    <2> DEFINE h == Head(Rest)
    <2>1. PICK k, new : ThenableStep(h, k, new)
      BY <1>10, ThenableMoves
    <2>2. UNCHANGED body
      BY <1>10 DEF RunThenable, async
    <2> HIDE DEF h
    <2>3. Moved({h}, new) /\ Handler("settle", k).kind # "resume"
      BY <2>1 DEF ThenableStep, Handler
    <2>4. CASE /\ h.job.thenable \in Promise
               /\ Registers(h.job.thenable, Handler("settle", k), Handler("settle", k), NoPair, new)
      BY <2>2, <2>3, <2>4, RegistersResume
    <2>5. CASE new = {} /\ UNCHANGED reactions
      BY <2>2, <2>3, <2>5, ResumeKept, ListsUnchanged
    <2> QED
      BY <2>1, <2>4, <2>5 DEF ThenableStep
  <1>11. CASE RunImport
    <2>1. body' = body
      BY <1>11 DEF RunImport, async
    <2>2. CASE UNCHANGED slots /\ \E gone : Moved(gone, {})
      BY <2>1, <2>2, ResumeKept, ListsUnchanged DEF slots
    <2>3. CASE \E k \in DOMAIN target : \E gone, new : Calls(k, "reject", Failure, new) /\ Moved(gone, new)
      BY <2>1, <2>3, CallsResume
    <2> QED
      BY <1>11, <2>2, <2>3, RunImportMoves
  <1> QED
    BY <1>1, <1>2, <1>3, <1>4, <1>5, <1>6, <1>7, <1>8, <1>9, <1>10, <1>11
       DEF Next, UserCall, Complete, Engine

\* Every step keeps the order of the jobs.
LEMMA QueueNext ==
  ASSUME AInv, Next
  PROVE  QueueTypes' /\ QueueInv'
  BY NewMoves, CallResolvingMoves, ThenMoves, CallAsyncMoves, ImportMoves, TakeBatchMoves,
     ReactionMoves, ThenableMoves, RunImportMoves, SettleImportMoves, HandlerEndsMoves,
     ThenMethodEndsMoves, ModuleEndsMoves, AwaitAgainMoves, BodyEndsMoves, OtherMoves
     DEF Next, UserCall, Complete, Engine, QueueOK

\* AInv holds at the start ...
LEMMA AInit ==
  ASSUME Init
  PROVE  AInv
  <1> USE DEF Init
  <1>1. TypeInv
    <2>1. SlotTypes
      BY DEF SlotTypes, Results, Nobody
    <2>2. ObjectTypes
      BY PromiseAssumption DEF ObjectTypes, Nobody
    <2>3. QueueTypes /\ PhaseTypes
      BY DEF QueueTypes, PhaseTypes, Code, Codes, NoCode
    <2> QED
      BY <2>1, <2>2, <2>3 DEF TypeInv
  <1>2. Jobs = {} /\ \A p \in Promise : \A i, r : ~Listed(p, i, r)
    BY RngEmpty DEF Jobs, Listed
  <1>3. QueueInv
    BY <1>2, RngEmpty DEF QueueInv, InOrder, Before
  <1>4. Known
    <2>1. KnownObjects
      BY DEF KnownObjects, Promise, Nobody
    <2>2. KnownLists /\ KnownCode
      BY <1>2 DEF KnownLists, KnownCode, Code, Made
    <2> QED
      BY <2>1, <2>2 DEF Known
  <1>5. Matches /\ ResumeInv
    BY <1>2 DEF Matches, ResumeInv, ResumeAt, ResumeDue
  <1> QED
    BY <1>1, <1>3, <1>4, <1>5 DEF AInv

\* ... and every step keeps it.
LEMMA AStep ==
  ASSUME AInv, [Next]_vars
  PROVE  AInv'
  <1>1. CASE Next
    <2>1. TypeInv' /\ Known'
      BY <1>1, UserCallTypes, CompleteTypes, EngineTypes, QueueNext, UserCallKnown,
         CompleteKnown, EngineKnown DEF Next, TypeInv
    <2> QED
      BY <1>1, <2>1, QueueNext, MatchesNext, ResumeNext DEF AInv
  <1>2. CASE UNCHANGED vars
    <2>1. TypeInv'
      BY <1>2 DEF AInv, vars, slots, objects, drain, async, TypeInv, SlotTypes, ObjectTypes,
         QueueTypes, PhaseTypes, Idle, NoCode
    <2>2. Jobs' = Jobs /\ QueueInv'
      BY <1>2 DEF AInv, vars, drain, QueueInv, Jobs, Rng, InOrder, Before
    <2>3. \A p, i, r : Listed(p, i, r)' <=> Listed(p, i, r)
      BY <1>2 DEF vars, slots, Listed
    <2>4. KnownObjects' /\ KnownCode'
      BY <1>2 DEF AInv, Known, vars, slots, objects, drain, async, KnownObjects, KnownCode, Made
    <2>5. KnownLists'
      BY <1>2, <2>2, <2>3 DEF AInv, Known, vars, slots, objects, KnownLists, KnownRegistration,
         KnownJob, Made
    <2>6. Matches'
      BY <1>2, <2>2, <2>3 DEF AInv, Matches, vars, slots
    <2>7. ResumeInv'
      BY <1>2, <2>2, <2>3 DEF AInv, ResumeInv, ResumeAt, ResumeDue, vars, async
    <2> QED
      BY <2>1, <2>2, <2>4, <2>5, <2>6, <2>7 DEF AInv, Known
  <1> QED
    BY <1>1, <1>2

\* Types, the order of the jobs, and how they fit the promises: the invariant
\* on which all the following rests.
THEOREM Types == Spec => []AInv
  BY AInit, AStep, PTL DEF Spec

-----------------------------------------------------------------------------
(* A registration that is added is listed, or is a job at once.            *)

Adds(g, new) ==
  \/ /\ new = {}
     /\ \E p \in Promise, n \in Nat : \A q \in Promise : \A i, r :
          Listed(q, i, r)' <=> Listed(q, i, r) \/ (q = p /\ i = n /\ r = g)
  \/ /\ UNCHANGED reactions
     /\ \E p, fulfil, a : new = {[job |-> ReactionJob(p, g, fulfil, a), seq |-> enqueued + 1]}

\* Register adds one registration, or the job of one ...
LEMMA RegistersAdds ==
  ASSUME AInv, NEW p \in Promise, NEW h \in Handlers, NEW g \in Handlers, NEW k \in Caps,
         NEW new, Registers(p, h, g, k, new)
  PROVE  \E r \in Registrations :
           r = Registration(h, g, k) /\ Adds(r, new) /\ r.reg = regs + 1 /\ regs' = regs + 1
  <1>1. PICK r \in Registrations : r = Registration(h, g, k)
    BY RegistrationType DEF AInv
  <1>2. r.reg = regs + 1 /\ regs' = regs + 1
    BY <1>1 DEF Registration, Registers
  <1>3. CASE state[p] = "pending"
    <2>1. PICK n : n = Len(reactions[p]) + 1
      OBVIOUS
    <2>2. n \in Nat /\ new = {}
      BY <1>3, <2>1, ListedType DEF AInv, Registers
    <2>3. \A q \in Promise : \A i, s : Listed(q, i, s)' <=> Listed(q, i, s) \/ (q = p /\ i = n /\ s = r)
      BY <1>1, <1>3, <2>1, RegistersLists DEF AInv
    <2> QED
      BY <1>1, <1>2, <2>2, <2>3 DEF Adds
  <1>4. CASE state[p] # "pending"
    BY <1>1, <1>2, <1>4 DEF Adds, Registers
  <1> QED
    BY <1>3, <1>4

\* ... and so does an await.
LEMMA AwaitsAdds ==
  ASSUME AInv, NEW f \in AsyncFunctions, NEW v, NEW new, Awaits(f, v, new)
  PROVE  \E r \in Registrations :
           /\ r = Registration(Handler("resume", f), Handler("resume", f), NoPair)
           /\ Adds(r, new) /\ r.reg = regs + 1 /\ regs' = regs + 1
  <1>1. PICK resume : resume = Handler("resume", f)
    OBVIOUS
  <1>2. resume \in Handlers /\ NoPair \in Caps
    BY <1>1 DEF Handler, Handlers, Caps
  <1>3. PICK r \in Registrations : r = Registration(resume, resume, NoPair)
    BY <1>2, RegistrationType DEF AInv
  <1>4. CASE v \in Promise /\ Registers(v, resume, resume, NoPair, new)
    BY <1>1, <1>2, <1>4, RegistersAdds
  <1>5. CASE /\ UNCHANGED reactions /\ regs' = regs + 1
             /\ new = {[job |-> AwaitJob(f, v), seq |-> enqueued + 1]}
    BY <1>1, <1>3, <1>5 DEF AwaitJob, Adds, Registration
  <1> QED
    BY <1>1, <1>4, <1>5 DEF Awaits

-----------------------------------------------------------------------------
(* The jobs that wait, as one sequence.                                    *)

\* Waiting holds the jobs that wait, each once.
LEMMA WaitingFacts ==
  ASSUME TypeInv, QueueInv
  PROVE  Waiting \in Seq(Queued) /\ Rng(Waiting) = Jobs
         /\ InOrder(Waiting) /\ NoRepeat(Waiting)
  <1>1. batch \in Seq(Queued) /\ inner \in Seq(Queued) /\ jobs \in Seq(Queued)
    BY DEF TypeInv, QueueTypes
  <1>2. /\ batch \o inner \in Seq(Queued) /\ Rng(batch \o inner) = Rng(batch) \cup Rng(inner)
        /\ InOrder(batch \o inner)
    BY <1>1, RngConcat, InOrderConcat DEF QueueInv
  <1>3. Before(Rng(batch \o inner), Rng(jobs))
    BY <1>2 DEF QueueInv, Before
  <1>4. PICK s : s = batch \o inner
    OBVIOUS
  <1>5. s \o jobs \in Seq(Queued) /\ Rng(s \o jobs) = Rng(s) \cup Rng(jobs) /\ InOrder(s \o jobs)
    <2>1. s \in Seq(Queued) /\ InOrder(s) /\ InOrder(jobs) /\ Before(Rng(s), Rng(jobs))
      BY <1>2, <1>3, <1>4 DEF QueueInv
    <2>2. s \o jobs \in Seq(Queued) /\ Rng(s \o jobs) = Rng(s) \cup Rng(jobs)
      BY <1>1, <2>1, RngConcat
    <2>3. InOrder(s \o jobs)
      BY <1>1, <2>1, InOrderConcat
    <2> QED
      BY <2>2, <2>3
  <1>6. Waiting = s \o jobs
    BY <1>4 DEF Waiting
  <1> QED
    BY <1>2, <1>4, <1>5, <1>6, InOrderNoRepeat DEF Jobs

\* A set of places of Waiting whose jobs satisfy what exactly one job does.
LEMMA OnePlace ==
  ASSUME TypeInv, QueueInv, NEW D, D \subseteq DOMAIN Waiting, NEW x \in Jobs,
         \A i \in DOMAIN Waiting : i \in D <=> Waiting[i] = x
  PROVE  IsFiniteSet(D) /\ Cardinality(D) = 1
  <1>1. PICK i \in DOMAIN Waiting : Waiting[i] = x
    BY WaitingFacts DEF Rng
  <1>2. \A j \in DOMAIN Waiting : Waiting[j] = x => j = i
    BY <1>1, WaitingFacts DEF NoRepeat
  <1>3. D = {i}
    BY <1>1, <1>2
  <1> QED
    BY <1>3, FS_Singleton

\* Nothing is lost: every number is one of a job that waits, or was started.
LEMMA LostNone ==
  ASSUME TypeInv, QueueInv, NoJobLost
  PROVE  Kept
  <1>1. {Waiting[i].seq : i \in DOMAIN Waiting} = {x.seq : x \in Jobs}
    BY WaitingFacts DEF Rng
  <1> QED
    BY <1>1 DEF NoJobLost, Kept

\* A job that leaves and is kept was started by this step; and what is kept
\* after a step was kept before it.
LEMMA GoneStarted ==
  ASSUME AInv, NEW gone, NEW new, Moved(gone, new), Kept',
         started' \subseteq started \cup {x.seq : x \in gone}
  PROVE  Kept /\ \A x \in gone : x.seq \in started' \ started
  <1>1. /\ enqueued \in Nat /\ enqueued' \in Nat /\ enqueued <= enqueued'
        /\ \A x \in new : x.seq \in enqueued + 1 .. enqueued'
        /\ gone \subseteq Jobs /\ Jobs' = (Jobs \ gone) \cup new
        /\ started \subseteq 1 .. enqueued
        /\ \A x \in Jobs : x.seq \in 1 .. enqueued /\ x.seq \notin started
    BY DEF AInv, TypeInv, QueueTypes, QueueInv, Moved, Fresh
  <1>2. \A n \in 1 .. enqueued : n \in started' \/ \E x \in Jobs' : x.seq = n
    <2>1. {x.seq : x \in Jobs'} \cup started' = 1 .. enqueued'
      BY DEF Kept
    <2> QED
      BY <1>1, <2>1
  <1>3. \A n \in 1 .. enqueued : n \in started' \/ \E x \in Jobs \ gone : x.seq = n
    BY <1>1, <1>2
  <1>4. ASSUME NEW n \in 1 .. enqueued
        PROVE  n \in started \/ \E x \in Jobs : x.seq = n
    BY <1>1, <1>3
  <1>5. {x.seq : x \in Jobs} \cup started = 1 .. enqueued
    BY <1>1, <1>4
  <1>6. ASSUME NEW x \in gone PROVE x.seq \in started' \ started
    BY <1>1, <1>3, JobsDiffer DEF AInv, TypeInv
  <1> QED
    BY <1>5, <1>6 DEF Kept

\* If no job is lost, a step that starts none lets none leave ...
LEMMA NoneLeaves ==
  ASSUME AInv, NEW gone, NEW new, Moved(gone, new), Kept', started' = started
  PROVE  Kept /\ gone = {}
  BY GoneStarted

\* ... and one that starts a job lets only that one leave.
LEMMA OneLeaves ==
  ASSUME AInv, NEW gone, NEW new, Moved(gone, new), Kept', NEW h \in gone,
         started' = started \cup {h.seq}
  PROVE  Kept /\ gone = {h}
  <1>1. gone \subseteq Jobs
    BY DEF Moved
  <1>2. Kept /\ \A x \in gone : x.seq = h.seq
    BY GoneStarted
  <1> QED
    BY <1>1, <1>2, JobsDiffer DEF AInv, TypeInv

\* A reaction job runs the handler of the outcome its promise has.
THEOREM JobMatches == Spec => []JobMatchesPromise
  <1>1. AInv => JobMatchesPromise
    <2>1. SUFFICES ASSUME AInv PROVE JobMatchesPromise
      OBVIOUS
    <2>2. \A i \in DOMAIN Waiting : Waiting[i] \in Jobs
      BY <2>1, WaitingFacts DEF AInv, Rng
    <2> QED
      BY <2>1, <2>2 DEF AInv, Matches, JobMatchesPromise
  <1> QED
    BY <1>1, Types, PTL

-----------------------------------------------------------------------------
(* A suspended function has something that resumes it.                     *)

SomeResume ==
  Kept => \A f \in AsyncFunctions : body[f] = "suspended" =>
     \/ \E p \in Promise, i \in Nat : ResumeAt(f, p, i)
     \/ \E x \in Jobs : ResumeDue(f, x)

\* What leaves, if nothing is lost, does not leave a function suspended.
Resumed(gone) ==
  Kept' => /\ Kept
           /\ \A x \in gone, f \in AsyncFunctions : ResumeDue(f, x) => body'[f] # "suspended"

\* A step that starts no job resumes no body ...
LEMMA NoneResumed ==
  ASSUME AInv, NEW gone, NEW new, Moved(gone, new), started' = started
  PROVE  Resumed(gone)
  BY NoneLeaves DEF Resumed

\* ... and one that starts a job resumes at most the body of that job.
LEMMA OneResumed ==
  ASSUME AInv, NEW h, NEW gone, NEW new, Moved(gone, new), h \in gone,
         started' = started \cup {h.seq},
         \A f \in AsyncFunctions : ResumeDue(f, h) => body'[f] # "suspended"
  PROVE  Resumed(gone)
  BY OneLeaves DEF Resumed

\* A step that lets no registration leave keeps SomeResume ...
LEMMA SomeResumeKept ==
  ASSUME AInv, SomeResume, NEW gone, NEW new, Moved(gone, new), Resumed(gone),
         \A p \in Promise, i \in Nat, r \in Registrations : Listed(p, i, r) => Listed(p, i, r)',
         \A f \in AsyncFunctions : body'[f] = "suspended" => body[f] = "suspended"
  PROVE  SomeResume'
  <1>1. SUFFICES ASSUME Kept', NEW f \in AsyncFunctions, body'[f] = "suspended"
                 PROVE  \/ \E p \in Promise, i \in Nat : ResumeAt(f, p, i)'
                        \/ \E x \in Jobs' : ResumeDue(f, x)'
    BY DEF SomeResume
  <1>2. CASE \E p \in Promise, i \in Nat : ResumeAt(f, p, i)
    BY <1>2 DEF ResumeAt
  <1>3. CASE \E x \in Jobs : ResumeDue(f, x)
    BY <1>1, <1>3 DEF Resumed, ResumeDue, Moved
  <1> QED
    BY <1>1, <1>2, <1>3 DEF SomeResume, Resumed

\* ... so does settling, for the registration becomes a job ...
LEMMA SomeResumeSettles ==
  ASSUME AInv, SomeResume, NEW p \in Promise, NEW outcome, NEW v, NEW gone, NEW new,
         Settles(p, outcome, v, new), Moved(gone, new), Resumed(gone),
         \A f \in AsyncFunctions : body'[f] = "suspended" => body[f] = "suspended"
  PROVE  SomeResume'
  <1> USE DEF AInv
  <1>1. SUFFICES ASSUME Kept', NEW f \in AsyncFunctions, body'[f] = "suspended"
                 PROVE  \/ \E q \in Promise, i \in Nat : ResumeAt(f, q, i)'
                        \/ \E x \in Jobs' : ResumeDue(f, x)'
    BY DEF SomeResume
  <1>2. CASE \E q \in Promise, i \in Nat : ResumeAt(f, q, i)
    <2>1. PICK q \in Promise, i \in Nat, r \in Registrations :
             Listed(q, i, r) /\ r.on_fulfilled = Handler("resume", f)
      BY <1>2 DEF ResumeAt
    <2>2. CASE q # p \/ state[p] # "pending"
      <3>1. Listed(q, i, r)'
        BY <2>1, <2>2, SettlesLists
      <3> QED
        BY <2>1, <3>1 DEF ResumeAt
    <2>3. CASE q = p /\ state[p] = "pending"
      <3>1. PICK x : x = [job |-> ReactionJob(p, r, outcome = "fulfilled", v), seq |-> enqueued + i]
        OBVIOUS
      <3>2. x \in new
        BY <2>1, <2>3, <3>1, SettlesLists
      <3>3. r.on_rejected = Handler("resume", f)
        BY <2>1 DEF ResumeInv
      <3>4. x.job.type = "reaction" /\ x.job.handler = Handler("resume", f)
        BY <2>1, <3>1, <3>3 DEF ReactionJob, Half
      <3> QED
        BY <3>2, <3>4 DEF ResumeDue, Moved
    <2> QED
      BY <2>2, <2>3
  <1>3. CASE \E x \in Jobs : ResumeDue(f, x)
    BY <1>1, <1>3 DEF Resumed, ResumeDue, Moved
  <1> QED
    BY <1>1, <1>2, <1>3 DEF SomeResume, Resumed

\* ... so does resolving ...
LEMMA SomeResumeResolves ==
  ASSUME AInv, SomeResume, NEW p \in Promise, NEW v, NEW gone, NEW new,
         Resolves(p, v, new), Moved(gone, new), Resumed(gone),
         \A f \in AsyncFunctions : body'[f] = "suspended" => body[f] = "suspended"
  PROVE  SomeResume'
  <1>1. CASE UNCHANGED slots
    BY <1>1, SomeResumeKept, ListsUnchanged DEF slots
  <1> QED
    BY <1>1, SomeResumeSettles DEF Resolves

\* ... so does a call of a resolving function ...
LEMMA SomeResumeCalls ==
  ASSUME AInv, SomeResume, NEW k \in DOMAIN target, NEW how, NEW v, NEW gone, NEW new,
         Calls(k, how, v, new), Moved(gone, new), Resumed(gone),
         \A f \in AsyncFunctions : body'[f] = "suspended" => body[f] = "suspended"
  PROVE  SomeResume'
  <1>1. target[k] \in Promise
    BY DEF AInv, TypeInv, ObjectTypes
  <1>2. CASE UNCHANGED slots
    BY <1>2, SomeResumeKept, ListsUnchanged DEF slots
  <1> QED
    BY <1>1, <1>2, SomeResumeResolves, SomeResumeSettles DEF Calls

\* ... so does the end of user code that settles a capability ...
LEMMA SomeResumeSettling ==
  ASSUME AInv, SomeResume, NEW k, Settling(k), body' = body, started' = started
  PROVE  SomeResume'
  <1>1. CASE UNCHANGED slots /\ Moved({}, {})
    BY <1>1, NoneResumed, SomeResumeKept, ListsUnchanged DEF slots
  <1>2. CASE Calling(k)
    BY <1>2, NoneResumed, SomeResumeCalls DEF Calling
  <1> QED
    BY <1>1, <1>2 DEF Settling

\* ... so does a new registration ...
LEMMA SomeResumeRegisters ==
  ASSUME AInv, SomeResume, NEW p \in Promise, NEW h, NEW g, NEW k, NEW gone, NEW new,
         Registers(p, h, g, k, new), Moved(gone, new), Resumed(gone),
         \A f \in AsyncFunctions : body'[f] = "suspended" => body[f] = "suspended"
  PROVE  SomeResume'
  <1>1. \A q \in Promise, i \in Nat, r \in Registrations : Listed(q, i, r) => Listed(q, i, r)'
    BY RegistersLists DEF AInv
  <1> QED
    BY <1>1, SomeResumeKept

\* ... so does an await, whose registration is the one of the body it
\* suspends ...
LEMMA SomeResumeAwaits ==
  ASSUME AInv, SomeResume, NEW f \in AsyncFunctions, NEW v, NEW new, Awaits(f, v, new),
         Moved({}, new), started' = started
  PROVE  SomeResume'
  <1> USE DEF AInv
  <1>1. SUFFICES ASSUME Kept', NEW g \in AsyncFunctions, body'[g] = "suspended"
                 PROVE  \/ \E q \in Promise, i \in Nat : ResumeAt(g, q, i)'
                        \/ \E x \in Jobs' : ResumeDue(g, x)'
    BY DEF SomeResume
  <1>2. PICK resume : resume = Handler("resume", f)
    OBVIOUS
  <1>3. PICK reg \in Registrations : reg = Registration(resume, resume, NoPair) /\ Adds(reg, new)
    BY <1>2, AwaitsAdds
  <1>4. reg.on_fulfilled = resume /\ reg.on_rejected = resume
    BY <1>3 DEF Registration
  <1>6. CASE g = f
    <2>1. ASSUME NEW q \in Promise, NEW n \in Nat, Listed(q, n, reg)'
          PROVE  ResumeAt(g, q, n)'
      BY <1>2, <1>4, <1>6, <2>1 DEF ResumeAt
    <2>2. ASSUME NEW p, NEW fulfil, NEW a,
                 new = {[job |-> ReactionJob(p, reg, fulfil, a), seq |-> enqueued + 1]}
          PROVE  \E y \in Jobs' : ResumeDue(g, y)'
      <3>1. PICK x : x = [job |-> ReactionJob(p, reg, fulfil, a), seq |-> enqueued + 1]
        OBVIOUS
      <3>2. x.job.type = "reaction" /\ x.job.handler = resume
        BY <1>4, <3>1 DEF ReactionJob, Half
      <3>3. x \in Jobs'
        BY <2>2, <3>1 DEF Moved
      <3> QED
        BY <1>2, <1>6, <3>2, <3>3 DEF ResumeDue
    <2> QED
      BY <1>3, <2>1, <2>2 DEF Adds
  <1>7. CASE g # f
    <2>1. body[g] = "suspended" /\ Kept
      BY <1>1, <1>7, NoneLeaves DEF Awaits, TypeInv, ObjectTypes
    <2>2. \A q \in Promise : \A i, r : Listed(q, i, r) => Listed(q, i, r)'
      BY <1>3, ListsUnchanged DEF Adds
    <2>3. \A x : ResumeDue(g, x) => ResumeDue(g, x)' /\ x \in Jobs'
      BY DEF ResumeDue, Moved
    <2> QED
      BY <2>1, <2>2, <2>3 DEF SomeResume, ResumeAt
  <1> QED
    BY <1>6, <1>7

\* ... so does a reaction job: the body it resumes is not suspended any more
\* ...
LEMMA SomeResumeReaction ==
  ASSUME AInv, SomeResume, NEW h, ReactionStep(h)
  PROVE  SomeResume'
  <1>1. h \in Jobs /\ h.job.type = "reaction" /\ started' = started \cup {h.seq}
    BY DEF ReactionStep, ReactionJobs
  <1>2. CASE Fails(h)
    <2>1. UNCHANGED <<slots, body>> /\ Moved(Rng(Rest), {}) /\ h \in Rng(Rest)
          /\ h.job.handler.kind # "resume"
      BY <1>2 DEF Fails
    <2>2. Resumed(Rng(Rest))
      <3>1. \A f \in AsyncFunctions : ~ResumeDue(f, h)
        BY <2>1 DEF ResumeDue, Handler
      <3> QED
        BY <1>1, <2>1, <3>1, OneResumed
    <2> QED
      BY <2>1, <2>2, SomeResumeKept, ListsUnchanged DEF slots
  <1>3. CASE Begins(h)
    <2>1. UNCHANGED slots /\ Moved({h}, {})
      BY <1>3 DEF Begins
    <2>2. \A f \in AsyncFunctions : body'[f] = "suspended" => body[f] = "suspended"
      BY <1>3 DEF Begins, AInv, TypeInv, ObjectTypes
    <2>3. \A f \in AsyncFunctions : ResumeDue(f, h) => body'[f] # "suspended"
      BY <1>3 DEF Begins, ResumeDue, Handler, AInv, TypeInv, ObjectTypes
    <2>4. Resumed({h})
      BY <1>1, <2>1, <2>3, OneResumed
    <2> QED
      BY <2>1, <2>2, <2>4, SomeResumeKept, ListsUnchanged DEF slots
  <1>4. ASSUME NEW k, NEW new, Answers(h, k, new), h.job.handler.kind # "resume"
        PROVE  SomeResume'
    <2>1. Moved({h}, new) /\ UNCHANGED body /\ k \in DOMAIN target
          /\ \E how : Calls(k, how, h.job.arg, new)
      BY <1>4 DEF Answers
    <2>2. Resumed({h})
      <3>1. \A f \in AsyncFunctions : ~ResumeDue(f, h)
        BY <1>4 DEF ResumeDue, Handler
      <3> QED
        BY <1>1, <2>1, <3>1, OneResumed
    <2> QED
      BY <2>1, <2>2, SomeResumeCalls
  <1> QED
    BY <1>2, <1>3, <1>4 DEF ReactionStep

\* No job that is not a reaction resumes anything.
LEMMA OtherResumed ==
  ASSUME AInv, NEW h, NEW new, Moved({h}, new), started' = started \cup {h.seq},
         h.job.type # "reaction"
  PROVE  Resumed({h})
  <1>1. \A f \in AsyncFunctions : ~ResumeDue(f, h)
    BY DEF ResumeDue
  <1> QED
    BY <1>1, OneResumed

\* ... and so does every step.
LEMMA SomeResumeNext ==
  ASSUME AInv, SomeResume, Next
  PROVE  SomeResume'
  <1> USE DEF AInv
  <1>1. CASE New \/ dynamic_import
    <2>1. reactions' = reactions /\ body' = body /\ started' = started
      BY <1>1 DEF New, dynamic_import, NewPromise, async
    <2>2. \E new : Moved({}, new)
      BY <1>1, NewMoves, ImportMoves DEF NewStep
    <2> QED
      BY <2>1, <2>2, NoneResumed, SomeResumeKept, ListsUnchanged
  <1>2. CASE CallResolving
    <2>1. body' = body /\ started' = started
      BY <1>2 DEF CallResolving, async
    <2> QED
      BY <1>2, <2>1, CallResolvingMoves, SomeResumeSettling DEF Settling
  <1>3. CASE Then
    <2>1. PICK p, h, g, new :
              /\ p \in Promise /\ h \in {NoHandler, UserHandler} /\ g \in {NoHandler, UserHandler}
              /\ Moved({}, new)
              /\ \/ \E q \in Promise, k \in Pair : ThenNative(p, q, k, h, g, new)
                 \/ ThenSpecies(p, h, g, new)
      BY <1>3, ThenMoves
    <2>2. body' = body /\ started' = started
      BY <1>3 DEF Then, async
    <2>3. \E k : Registers(p, h, g, k, new)
      BY <2>1 DEF ThenNative, ThenSpecies
    <2> QED
      BY <2>1, <2>2, <2>3, NoneResumed, SomeResumeRegisters
  <1>4. CASE CallAsync
    <2>1. PICK f, p, v, new :
             f \in AsyncFunctions /\ p \in Promise /\ v \in Values /\ CallAsyncStep(f, p, v, new)
      BY <1>4, CallAsyncMoves
    <2>2. started' = started
      BY <1>4 DEF CallAsync
    <2> QED
      BY <2>1, <2>2, SomeResumeAwaits DEF CallAsyncStep
  <1>5. CASE HandlerEnds \/ ThenMethodEnds \/ ModuleEnds \/ SettleImport
    <2>1. body' = body /\ started' = started
      BY <1>5 DEF HandlerEnds, ThenMethodEnds, ModuleEnds, SettleImport, async
    <2>2. CASE \E k : Settling(k)
      BY <2>1, <2>2, SomeResumeSettling
    <2>3. CASE UNCHANGED slots /\ \E gone : Moved(gone, {})
      BY <2>1, <2>3, NoneResumed, SomeResumeKept, ListsUnchanged DEF slots
    <2> QED
      BY <1>5, <2>2, <2>3, HandlerEndsMoves, ThenMethodEndsMoves, ModuleEndsMoves,
         SettleImportMoves DEF Settling
  <1>6. CASE ScriptEnds \/ TakeBatch \/ EndNestedDrain \/ DrainEnds \/ run_jobs
    <2>1. UNCHANGED <<slots, body, started>> /\ Moved({}, {})
      BY <1>6, TakeBatchMoves, OtherMoves
         DEF ScriptEnds, TakeBatch, EndNestedDrain, DrainEnds, run_jobs, async
    <2> QED
      BY <2>1, NoneResumed, SomeResumeKept, ListsUnchanged DEF slots
  <1>7. CASE AwaitAgain
    <2>1. running.of \in AsyncFunctions /\ started' = started
      BY <1>7, BodyRuns DEF AwaitAgain
    <2> QED
      BY <1>7, <2>1, AwaitAgainMoves, SomeResumeAwaits
  <1>8. CASE BodyEnds
    <2> DEFINE p == promise_of[running.of]
    <2>1. PICK v, new :
             /\ v \in Values
             /\ Moved({}, new)
             /\ \/ Resolves(p, v, new)
                \/ Settles(p, "rejected", v, new) /\ UNCHANGED adopts
      BY <1>8, BodyEndsMoves
    <2>2. p \in Promise /\ running.of \in AsyncFunctions /\ started' = started
      BY <1>8, BodyRuns DEF BodyEnds
    <2>3. \A f \in AsyncFunctions : body'[f] = "suspended" => body[f] = "suspended"
      BY <1>8, <2>2 DEF BodyEnds, TypeInv, ObjectTypes
    <2> HIDE DEF p
    <2> QED
      BY <2>1, <2>2, <2>3, NoneResumed, SomeResumeResolves, SomeResumeSettles
  <1>9. CASE RunReaction
    BY <1>9, ReactionMoves, SomeResumeReaction
  <1>10. CASE RunThenable
    <2> DEFINE h == Head(Rest)
    <2>1. PICK k, new : ThenableStep(h, k, new)
      BY <1>10, ThenableMoves
    <2>2. UNCHANGED body /\ started' = started \cup {h.seq}
      BY <1>10, ThenableMoves DEF RunThenable, async
    <2> HIDE DEF h
    <2>3. Moved({h}, new) /\ h.job.type # "reaction"
      BY <2>1 DEF ThenableStep, ThenableJobs
    <2>4. Resumed({h})
      BY <2>2, <2>3, OtherResumed
    <2>5. CASE /\ h.job.thenable \in Promise
               /\ Registers(h.job.thenable, Handler("settle", k), Handler("settle", k), NoPair, new)
      BY <2>2, <2>3, <2>4, <2>5, SomeResumeRegisters
    <2>6. CASE UNCHANGED reactions
      BY <2>2, <2>3, <2>4, <2>6, SomeResumeKept, ListsUnchanged
    <2> QED
      BY <2>1, <2>5, <2>6 DEF ThenableStep
  <1>11. CASE RunImport
    <2>1. body' = body
      BY <1>11 DEF RunImport, async
    <2>2. PICK h \in Jobs :
              /\ h.job \in ImportJobs /\ h.job.cap \in DOMAIN target
              /\ started' = started \cup {h.seq}
              /\ \/ \E new : Calls(h.job.cap, "reject", Failure, new) /\ Moved({h}, new)
                 \/ UNCHANGED slots /\ Moved({h}, {})
      BY <1>11, RunImportMoves
    <2>3. h.job.type # "reaction"
      BY <2>2 DEF ImportJobs
    <2>4. CASE UNCHANGED slots /\ Moved({h}, {})
      BY <2>1, <2>2, <2>3, <2>4, OtherResumed, SomeResumeKept, ListsUnchanged DEF slots
    <2>5. CASE \E new : Calls(h.job.cap, "reject", Failure, new) /\ Moved({h}, new)
      BY <2>1, <2>2, <2>3, <2>5, OtherResumed, SomeResumeCalls
    <2> QED
      BY <2>2, <2>4, <2>5
  <1> QED
    BY <1>1, <1>2, <1>3, <1>4, <1>5, <1>6, <1>7, <1>8, <1>9, <1>10, <1>11
       DEF Next, UserCall, Complete, Engine

\* The set of the places where f is resumed from, as SuspendedHasOneResume has it.
ResumesAt(f) ==
  {w \in Promise \X BOOLEAN :
     \E i \in DOMAIN reactions[w[1]] : Half(reactions[w[1]][i], w[2]) = Handler("resume", f)}

ResumesDue(f) ==
  {i \in DOMAIN Waiting : Waiting[i].job.type = "reaction"
     /\ Waiting[i].job.handler = Handler("resume", f)}

\* Registrations that resume f count twice, once for each half, or not at all
\* ...
LEMMA ResumesAtFacts ==
  ASSUME AInv, NEW f \in AsyncFunctions
  PROVE  /\ (\A p \in Promise, i \in Nat : ~ResumeAt(f, p, i)) => ResumesAt(f) = {}
         /\ (\E p \in Promise, i \in Nat : ResumeAt(f, p, i)) => Cardinality(ResumesAt(f)) = 2
  <1> USE DEF AInv
  <1>1. \A w \in Promise \X BOOLEAN : w \in ResumesAt(f) <=> \E i \in Nat : ResumeAt(f, w[1], i)
    <2>1. SUFFICES ASSUME NEW p \in Promise, NEW b \in BOOLEAN
                   PROVE  <<p, b>> \in ResumesAt(f) <=> \E i \in Nat : ResumeAt(f, p, i)
      OBVIOUS
    <2>2. \A i \in DOMAIN reactions[p] :
             Listed(p, i, reactions[p][i]) /\ i \in Nat /\ reactions[p][i] \in Registrations
      BY ListedType DEF Listed
    <2>3. \A i \in DOMAIN reactions[p] :
             Half(reactions[p][i], b) = Handler("resume", f)
               <=> reactions[p][i].on_fulfilled = Handler("resume", f)
      BY <2>2 DEF ResumeInv, Half
    <2>4. <<p, b>> \in ResumesAt(f)
            <=> \E i \in DOMAIN reactions[p] : Half(reactions[p][i], b) = Handler("resume", f)
      BY DEF ResumesAt
    <2>5. (\E i \in Nat : ResumeAt(f, p, i))
            <=> \E i \in DOMAIN reactions[p] : reactions[p][i].on_fulfilled = Handler("resume", f)
      BY <2>2 DEF ResumeAt, Listed
    <2> QED
      BY <2>3, <2>4, <2>5
  <1>2. ResumesAt(f) \subseteq Promise \X BOOLEAN
    BY DEF ResumesAt
  <1>3. ASSUME NEW p \in Promise, NEW i \in Nat, ResumeAt(f, p, i)
        PROVE  Cardinality(ResumesAt(f)) = 2
    <2>1. \A q \in Promise, j \in Nat : ResumeAt(f, q, j) => q = p
      BY <1>3 DEF ResumeInv
    <2>2. ResumesAt(f) = {<<p, TRUE>>} \cup {<<p, FALSE>>}
      <3>1. \A w \in Promise \X BOOLEAN : w \in ResumesAt(f) <=> w[1] = p
        BY <1>1, <1>3, <2>1
      <3>2. <<p, TRUE>> \in ResumesAt(f) /\ <<p, FALSE>> \in ResumesAt(f)
        <4>1. \A b \in BOOLEAN : <<p, b>> \in Promise \X BOOLEAN /\ <<p, b>>[1] = p
          OBVIOUS
        <4> QED
          BY <3>1, <4>1
      <3>3. ASSUME NEW w \in ResumesAt(f) PROVE w = <<p, TRUE>> \/ w = <<p, FALSE>>
        <4>1. PICK q \in Promise, b \in BOOLEAN : w = <<q, b>>
          BY <1>2
        <4>2. q = p
          BY <1>2, <3>1, <4>1
        <4> QED
          BY <4>1, <4>2
      <3> QED
        BY <3>2, <3>3
    <2>3. <<p, FALSE>> \notin {<<p, TRUE>>}
      OBVIOUS
    <2>4. PICK S : S = {<<p, TRUE>>}
      OBVIOUS
    <2>5. PICK x : x = <<p, FALSE>>
      OBVIOUS
    <2>6. IsFiniteSet(S) /\ Cardinality(S) = 1 /\ x \notin S
      BY <2>3, <2>4, <2>5, FS_Singleton
    <2>7. Cardinality(S \cup {x}) = 2
      <3>1. Cardinality(S \cup {x}) = Cardinality(S) + 1
        BY <2>6, FS_AddElement, Zenon
      <3> QED
        BY <2>6, <3>1
    <2> QED
      BY <2>2, <2>4, <2>5, <2>7
  <1> QED
    BY <1>1, <1>2, <1>3

\* ... and the jobs that do count once, or not at all.
LEMMA ResumesDueFacts ==
  ASSUME AInv, NEW f \in AsyncFunctions
  PROVE  /\ (\A x \in Jobs : ~ResumeDue(f, x)) => ResumesDue(f) = {}
         /\ (\E x \in Jobs : ResumeDue(f, x)) => Cardinality(ResumesDue(f)) = 1
  <1> USE DEF AInv
  <1>1. \A i \in DOMAIN Waiting : Waiting[i] \in Jobs
          /\ (i \in ResumesDue(f) <=> ResumeDue(f, Waiting[i]))
    BY WaitingFacts DEF Rng, ResumesDue, ResumeDue
  <1>2. ResumesDue(f) \subseteq DOMAIN Waiting
    BY DEF ResumesDue
  <1>3. ASSUME NEW x \in Jobs, ResumeDue(f, x) PROVE Cardinality(ResumesDue(f)) = 1
    <2>1. \A y \in Jobs : ResumeDue(f, y) <=> y = x
      BY <1>3 DEF ResumeInv
    <2> QED
      BY <1>1, <1>2, <2>1, OnePlace
  <1> QED
    BY <1>1, <1>2, <1>3

\* A suspended async function has one registration that resumes it, whichever
\* way its promise settles; one that is not suspended has none.
THEOREM OneResume == Spec => []SuspendedHasOneResume
  <1>1. AInv /\ SomeResume => SuspendedHasOneResume
    <2>1. SUFFICES ASSUME AInv, SomeResume, NoJobLost, NEW f \in AsyncFunctions
                   PROVE  IF body[f] = "suspended"
                          THEN \/ Cardinality(ResumesAt(f)) = 2 /\ ResumesDue(f) = {}
                               \/ ResumesAt(f) = {} /\ Cardinality(ResumesDue(f)) = 1
                          ELSE ResumesAt(f) = {} /\ ResumesDue(f) = {}
      <3>1. \A g \in AsyncFunctions :
              /\ \A r \in Registrations, b \in BOOLEAN :
                    Half(r, b).kind = "resume" /\ Half(r, b).of = g <=> Half(r, b) = Handler("resume", g)
              /\ \A x \in Queued : x.job.type = "reaction" =>
                    (x.job.handler.kind = "resume" /\ x.job.handler.of = g
                       <=> x.job.handler = Handler("resume", g))
        <4>1. \A h \in Handlers, g \in AsyncFunctions :
                h.kind = "resume" /\ h.of = g <=> h = Handler("resume", g)
          BY DEF Handlers, Handler
        <4>2. \A r \in Registrations, b \in BOOLEAN : Half(r, b) \in Handlers
          BY DEF Registrations, Half
        <4>3. \A x \in Queued : x.job.type = "reaction" => x.job.handler \in Handlers
          BY DEF Queued, AllJobs, ReactionJobs, ThenableJobs, ImportJobs
        <4> QED
          BY <4>1, <4>2, <4>3
      <3>2. ASSUME AInv, NEW g \in AsyncFunctions
            PROVE  /\ ResumesAt(g) =
                        {w \in Promise \X BOOLEAN : \E i \in DOMAIN reactions[w[1]] :
                           /\ Half(reactions[w[1]][i], w[2]).kind = "resume"
                           /\ Half(reactions[w[1]][i], w[2]).of = g}
                   /\ ResumesDue(g) =
                        {i \in DOMAIN Waiting : Waiting[i].job.type = "reaction"
                           /\ Waiting[i].job.handler.kind = "resume" /\ Waiting[i].job.handler.of = g}
        <4>1. \A p \in Promise : \A i \in DOMAIN reactions[p] : reactions[p][i] \in Registrations
          BY <3>2, ListedType DEF AInv, Listed
        <4>2. \A i \in DOMAIN Waiting : Waiting[i] \in Queued
          BY <3>2, WaitingFacts DEF AInv
        <4>3. \A w \in Promise \X BOOLEAN : w[1] \in Promise /\ w[2] \in BOOLEAN
          OBVIOUS
        <4> QED
          BY <3>1, <4>1, <4>2, <4>3 DEF ResumesAt, ResumesDue
      <3> QED
        BY <3>2 DEF SuspendedHasOneResume
    <2>2. Kept
      BY <2>1, LostNone DEF AInv
    <2>3. CASE \E p \in Promise, i \in Nat : ResumeAt(f, p, i)
      <3>1. body[f] = "suspended" /\ \A x \in Jobs : ~ResumeDue(f, x)
        BY <2>1, <2>3 DEF AInv, ResumeInv
      <3> QED
        BY <2>1, <2>3, <3>1, ResumesAtFacts, ResumesDueFacts
    <2>4. CASE \E x \in Jobs : ResumeDue(f, x)
      <3>1. body[f] = "suspended" /\ \A p \in Promise, i \in Nat : ~ResumeAt(f, p, i)
        BY <2>1, <2>4 DEF AInv, ResumeInv
      <3> QED
        BY <2>1, <2>4, <3>1, ResumesAtFacts, ResumesDueFacts
    <2>5. CASE ~(\E p \in Promise, i \in Nat : ResumeAt(f, p, i)) /\ ~(\E x \in Jobs : ResumeDue(f, x))
      <3>1. body[f] # "suspended"
        BY <2>1, <2>2, <2>5 DEF SomeResume
      <3> QED
        BY <2>1, <2>5, <3>1, ResumesAtFacts, ResumesDueFacts
    <2> QED
      BY <2>3, <2>4, <2>5
  <1>2. Init => SomeResume
    BY DEF Init, SomeResume
  <1>3. AInv /\ SomeResume /\ [Next]_vars => SomeResume'
    <2>1. ASSUME AInv, SomeResume, UNCHANGED vars PROVE SomeResume'
      <3>1. Jobs' = Jobs /\ Kept' = Kept /\ body' = body
        BY <2>1 DEF vars, drain, async, Jobs, Rng, Kept
      <3>2. \A f, p, i : ResumeAt(f, p, i)' <=> ResumeAt(f, p, i)
        BY <2>1 DEF vars, slots, ResumeAt, Listed
      <3>3. \A f, x : ResumeDue(f, x)' <=> ResumeDue(f, x)
        BY <3>1 DEF ResumeDue
      <3> QED
        BY <2>1, <3>1, <3>2, <3>3 DEF SomeResume
    <2> QED
      BY <2>1, SomeResumeNext
  <1> QED
    BY <1>1, <1>2, <1>3, Types, PTL DEF Spec

-----------------------------------------------------------------------------
(* Where a registration is.                                                *)

At(r, p, i) == \E g \in Registrations : Listed(p, i, g) /\ g.reg = r

Due(r, x) == x \in Jobs /\ x.job.type = "reaction" /\ x.job.reg = r

\* A registration is in one place only, and in none once it was answered ...
OnePlaceInv ==
  /\ \A r : \A p \in Promise : \A i : At(r, p, i) =>
       /\ r \notin reacted
       /\ \A q \in Promise : \A j : At(r, q, j) => q = p /\ j = i
       /\ \A x : ~Due(r, x)
  /\ \A r, x : Due(r, x) => r \notin reacted /\ \A y : Due(r, y) => y = x

\* ... but in one until then, unless something was lost.
SomePlace ==
  Kept => \A r \in 1 .. regs : r \notin reacted =>
     \/ \E p \in Promise : \E i : At(r, p, i)
     \/ \E x : Due(r, x)

PlaceInv == OnePlaceInv /\ SomePlace

\* What a step answers is what leaves: all that does, if nothing is lost.
Answered(gone) ==
  /\ reacted \subseteq reacted'
  /\ \A r \in reacted' : r \in reacted \/ \E x \in gone : Due(r, x)
  /\ Kept' => Kept /\ \A x \in gone : \A r : Due(r, x) => r \in reacted'

\* A step that starts no job answers no registration ...
LEMMA NoneAnswered ==
  ASSUME AInv, NEW gone, NEW new, Moved(gone, new), UNCHANGED <<started, reacted>>
  PROVE  Answered(gone)
  BY NoneLeaves DEF Answered

\* ... and one that starts a job answers that of the job.
LEMMA OneAnswered ==
  ASSUME AInv, NEW h, NEW gone, NEW new, Moved(gone, new), h \in gone,
         started' = started \cup {h.seq},
         \/ h.job.type = "reaction" /\ reacted' = reacted \cup {h.job.reg}
         \/ h.job.type # "reaction" /\ reacted' = reacted
  PROVE  Answered(gone)
  <1>1. h \in Jobs
    BY DEF Moved
  <1>2. Kept' => Kept /\ gone = {h}
    BY OneLeaves
  <1> QED
    BY <1>1, <1>2 DEF Answered, Due

\* A step that makes no registration and no reaction job keeps PlaceInv ...
LEMMA PlaceKept ==
  ASSUME AInv, PlaceInv, NEW gone, NEW new, Moved(gone, new), Answered(gone), regs' = regs,
         reactions' = reactions, \A x \in new : x.job.type # "reaction"
  PROVE  PlaceInv'
  <1>1. \A r, p, i : At(r, p, i)' <=> At(r, p, i)
    BY DEF At, Listed
  <1>2. \A r, x : Due(r, x)' <=> Due(r, x) /\ x \notin gone
    BY DEF Due, Moved
  <1>3. OnePlaceInv'
    BY <1>1, <1>2 DEF PlaceInv, OnePlaceInv, Answered
  <1>4. SomePlace'
    BY <1>1, <1>2 DEF PlaceInv, SomePlace, Answered
  <1> QED
    BY <1>3, <1>4 DEF PlaceInv

\* A settlement takes the registrations of p from its list to the queue.
LEMMA PlaceSettles ==
  ASSUME AInv, PlaceInv, NEW p \in Promise, NEW outcome, NEW v, NEW gone, NEW new,
         Settles(p, outcome, v, new), Moved(gone, new), Answered(gone), regs' = regs
  PROVE  PlaceInv'
  <1> USE DEF AInv
  <1>1. \A q \in Promise : \A r, i : At(r, q, i)' <=> At(r, q, i) /\ (q # p \/ state[p] # "pending")
    BY SettlesLists DEF At
  <1>2. \A x \in new : state[p] = "pending" /\ \E i : \E g \in Registrations :
           Listed(p, i, g) /\ x.job.reg = g.reg
             /\ x = [job |-> ReactionJob(p, g, outcome = "fulfilled", v), seq |-> enqueued + i]
    BY SettlesLists DEF ReactionJob
  <1>3. \A r, i : state[p] = "pending" /\ At(r, p, i) =>
          \E x \in new : x.job.type = "reaction" /\ x.job.reg = r
    <2>1. SUFFICES ASSUME NEW i, NEW g \in Registrations, Listed(p, i, g), state[p] = "pending"
                   PROVE  \E x \in new : x.job.type = "reaction" /\ x.job.reg = g.reg
      BY DEF At
    <2>2. PICK x : x = [job |-> ReactionJob(p, g, outcome = "fulfilled", v), seq |-> enqueued + i]
      OBVIOUS
    <2>3. x \in new
      BY <2>1, <2>2, SettlesLists, ListedType
    <2>4. x.job.type = "reaction" /\ x.job.reg = g.reg
      BY <2>2 DEF ReactionJob
    <2> QED
      BY <2>3, <2>4
  <1>4. \A r, x : Due(r, x)' => \/ Due(r, x) /\ x \notin gone
                                \/ x \in new /\ x.job.reg = r
    BY DEF Due, Moved
  <1>5. \A r, x : Due(r, x) /\ x \notin gone => Due(r, x)'
    BY DEF Due, Moved
  <1>6. \A r : \A x \in new : x.job.reg = r => state[p] = "pending" /\ \E i : At(r, p, i)
    BY <1>2 DEF At
  <1>7. \A x, y \in new : x.job.reg = y.job.reg => x = y
    <2>1. SUFFICES ASSUME NEW x \in new, NEW y \in new, x.job.reg = y.job.reg PROVE x = y
      OBVIOUS
    <2>2. PICK i, g :
             /\ g \in Registrations
             /\ Listed(p, i, g) /\ x.job.reg = g.reg
             /\ x = [job |-> ReactionJob(p, g, outcome = "fulfilled", v), seq |-> enqueued + i]
      BY <1>2
    <2>3. PICK j, f :
             /\ f \in Registrations
             /\ Listed(p, j, f) /\ y.job.reg = f.reg
             /\ y = [job |-> ReactionJob(p, f, outcome = "fulfilled", v), seq |-> enqueued + j]
      BY <1>2
    <2>4. i = j /\ g = f
      <3>1. At(g.reg, p, i) /\ At(g.reg, p, j)
        BY <2>1, <2>2, <2>3 DEF At
      <3>2. i = j
        BY <3>1 DEF PlaceInv, OnePlaceInv
      <3> QED
        BY <2>2, <2>3, <3>2 DEF Listed
    <2> QED
      BY <2>2, <2>3, <2>4
  <1>8. OnePlaceInv'
    <2>1. ASSUME NEW r, NEW q \in Promise, NEW i, At(r, q, i)'
          PROVE  /\ r \notin reacted'
                 /\ \A y \in Promise : \A j : At(r, y, j)' => y = q /\ j = i
                 /\ \A x : ~Due(r, x)'
      <3>1. At(r, q, i) /\ (q # p \/ state[p] # "pending")
        BY <1>1, <2>1
      <3>2. /\ r \notin reacted /\ (\A y \in Promise : \A j : At(r, y, j) => y = q /\ j = i)
            /\ \A x : ~Due(r, x)
        BY <3>1 DEF PlaceInv, OnePlaceInv
      <3> QED
        BY <1>1, <1>4, <1>6, <3>1, <3>2 DEF Answered
    <2>2. ASSUME NEW r, NEW x, Due(r, x)'
          PROVE  r \notin reacted' /\ \A y : Due(r, y)' => y = x
      <3>1. CASE Due(r, x) /\ x \notin gone
        <4>1. /\ r \notin reacted /\ (\A y : Due(r, y) => y = x)
              /\ \A q \in Promise : \A i : ~At(r, q, i)
          BY <3>1 DEF PlaceInv, OnePlaceInv
        <4> QED
          BY <1>4, <1>6, <3>1, <4>1 DEF Answered
      <3>2. CASE x \in new /\ x.job.reg = r
        <4>1. r \notin reacted /\ \A y : ~Due(r, y)
          BY <1>6, <3>2 DEF PlaceInv, OnePlaceInv
        <4> QED
          BY <1>4, <1>7, <3>2, <4>1 DEF Answered
      <3> QED
        BY <1>4, <2>2, <3>1, <3>2
    <2> QED
      BY <2>1, <2>2 DEF OnePlaceInv
  <1>9. SomePlace'
    <2>1. SUFFICES ASSUME Kept', NEW r \in 1 .. regs, r \notin reacted'
                   PROVE  \/ \E q \in Promise : \E i : At(r, q, i)'
                          \/ \E x : Due(r, x)'
      BY DEF SomePlace
    <2>2. (\E q \in Promise : \E i : At(r, q, i)) \/ (\E x : Due(r, x))
      BY <2>1 DEF PlaceInv, SomePlace, Answered
    <2>3. CASE \E q \in Promise : \E i : At(r, q, i)
      <3>1. PICK q, i :
             q \in Promise /\ At(r, q, i)
        BY <2>3
      <3>2. CASE q # p \/ state[p] # "pending"
        BY <1>1, <3>1, <3>2
      <3>3. CASE q = p /\ state[p] = "pending"
        BY <1>3, <3>1, <3>3 DEF Due, Moved
      <3> QED
        BY <3>2, <3>3
    <2>4. CASE \E x : Due(r, x)
      BY <1>5, <2>1, <2>4 DEF Answered
    <2> QED
      BY <2>2, <2>3, <2>4
  <1> QED
    BY <1>8, <1>9 DEF PlaceInv

\* ... so does resolving ...
LEMMA PlaceResolves ==
  ASSUME AInv, PlaceInv, NEW p \in Promise, NEW v, NEW gone, NEW new,
         Resolves(p, v, new), Moved(gone, new), Answered(gone), regs' = regs
  PROVE  PlaceInv'
  <1>1. CASE UNCHANGED slots /\ new = {[job |-> ThenableJob(p, v), seq |-> enqueued + 1]}
    <2>1. \A x \in new : x.job.type # "reaction"
      BY <1>1 DEF ThenableJob
    <2> QED
      BY <1>1, <2>1, PlaceKept DEF slots
  <1> QED
    BY <1>1, PlaceSettles DEF Resolves

\* ... so does a call of a resolving function ...
LEMMA PlaceCalls ==
  ASSUME AInv, PlaceInv, NEW k \in DOMAIN target, NEW how, NEW v, NEW gone, NEW new,
         Calls(k, how, v, new), Moved(gone, new), Answered(gone), regs' = regs
  PROVE  PlaceInv'
  <1>1. target[k] \in Promise
    BY DEF AInv, TypeInv, ObjectTypes
  <1>2. CASE UNCHANGED slots /\ new = {}
    BY <1>2, PlaceKept DEF slots
  <1> QED
    BY <1>1, <1>2, PlaceResolves, PlaceSettles DEF Calls

\* ... so does the end of user code that settles a capability ...
LEMMA PlaceSettling ==
  ASSUME AInv, PlaceInv, NEW k, Settling(k), UNCHANGED <<regs, reacted, started>>
  PROVE  PlaceInv'
  <1>1. CASE UNCHANGED slots /\ Moved({}, {})
    BY <1>1, NoneAnswered, PlaceKept DEF slots
  <1>2. CASE Calling(k)
    BY <1>2, NoneAnswered, PlaceCalls DEF Calling
  <1> QED
    BY <1>1, <1>2 DEF Settling

\* A new registration has a number of its own.
LEMMA PlaceAdds ==
  ASSUME AInv, PlaceInv, NEW g \in Registrations, NEW gone, NEW new, Adds(g, new),
         Moved(gone, new), Answered(gone), g.reg = regs + 1, regs' = regs + 1, reacted' = reacted
  PROVE  PlaceInv'
  <1> USE DEF AInv
  <1>1. regs \in Nat /\ reacted \subseteq 1 .. regs
    BY DEF TypeInv, ObjectTypes
  <1>2. \A r : \A p \in Promise : \A i : At(r, p, i) => r \in 1 .. regs
    BY ListedType DEF At, Known, KnownLists, KnownRegistration
  <1>3. \A r, x : Due(r, x) => r \in 1 .. regs
    BY DEF Due, Known, KnownLists, KnownJob
  <1>4. PICK r0 : r0 = regs + 1
    OBVIOUS
  <1>5. r0 \notin 1 .. regs /\ 1 .. regs' = 1 .. regs \cup {r0} /\ g.reg = r0
    BY <1>1, <1>4
  <1>6. CASE /\ new = {}
             /\ \E p \in Promise, n \in Nat : \A q \in Promise : \A i, r :
                  Listed(q, i, r)' <=> Listed(q, i, r) \/ (q = p /\ i = n /\ r = g)
    <2>1. PICK p \in Promise, n \in Nat : \A q \in Promise : \A i, r :
             Listed(q, i, r)' <=> Listed(q, i, r) \/ (q = p /\ i = n /\ r = g)
      BY <1>6
    <2>2. \A r : \A q \in Promise : \A i : At(r, q, i)' <=> At(r, q, i) \/ (r = r0 /\ q = p /\ i = n)
      BY <1>5, <2>1 DEF At
    <2>3. \A r, x : Due(r, x)' <=> Due(r, x) /\ x \notin gone
      BY <1>6 DEF Due, Moved
    <2>4. OnePlaceInv'
      BY <1>1, <1>2, <1>3, <1>5, <2>2, <2>3 DEF PlaceInv, OnePlaceInv
    <2>5. SomePlace'
      BY <1>5, <2>2, <2>3 DEF PlaceInv, SomePlace, Answered
    <2> QED
      BY <2>4, <2>5 DEF PlaceInv
  <1>7. ASSUME UNCHANGED reactions, NEW p, NEW fulfil, NEW a,
               new = {[job |-> ReactionJob(p, g, fulfil, a), seq |-> enqueued + 1]}
        PROVE  PlaceInv'
    <2>1. PICK x : x = [job |-> ReactionJob(p, g, fulfil, a), seq |-> enqueued + 1]
      OBVIOUS
    <2>2. new = {x} /\ x.job.type = "reaction" /\ x.job.reg = r0
      BY <1>5, <1>7, <2>1 DEF ReactionJob
    <2>3. \A r : \A q \in Promise : \A i : At(r, q, i)' <=> At(r, q, i)
      BY <1>7 DEF At, Listed
    <2>4. \A r, y : Due(r, y)' <=> (Due(r, y) /\ y \notin gone) \/ (r = r0 /\ y = x)
      BY <2>2 DEF Due, Moved
    <2>5. OnePlaceInv'
      BY <1>1, <1>2, <1>3, <1>5, <2>3, <2>4 DEF PlaceInv, OnePlaceInv
    <2>6. SomePlace'
      BY <1>5, <2>3, <2>4 DEF PlaceInv, SomePlace, Answered
    <2> QED
      BY <2>5, <2>6 DEF PlaceInv
  <1> QED
    BY <1>6, <1>7 DEF Adds

\* ... so does a reaction job, whose registration is now answered ...
LEMMA PlaceReaction ==
  ASSUME AInv, PlaceInv, NEW h, ReactionStep(h), regs' = regs
  PROVE  PlaceInv'
  <1>1. h.job.type = "reaction" /\ started' = started \cup {h.seq}
        /\ reacted' = reacted \cup {h.job.reg}
    BY DEF ReactionStep, ReactionJobs
  <1>2. CASE Fails(h)
    <2>1. UNCHANGED slots /\ Moved(Rng(Rest), {}) /\ h \in Rng(Rest)
      BY <1>2 DEF Fails
    <2> QED
      BY <1>1, <2>1, OneAnswered, PlaceKept DEF slots
  <1>3. CASE Begins(h)
    <2>1. UNCHANGED slots /\ Moved({h}, {})
      BY <1>3 DEF Begins
    <2> QED
      BY <1>1, <2>1, OneAnswered, PlaceKept DEF slots
  <1>4. ASSUME NEW k, NEW new, Answers(h, k, new) PROVE PlaceInv'
    <2>1. Moved({h}, new) /\ k \in DOMAIN target /\ \E how : Calls(k, how, h.job.arg, new)
      BY <1>4 DEF Answers
    <2> QED
      BY <1>1, <2>1, OneAnswered, PlaceCalls
  <1> QED
    BY <1>2, <1>3, <1>4 DEF ReactionStep

\* ... and so does every step.
LEMMA PlaceNext ==
  ASSUME AInv, PlaceInv, Next
  PROVE  PlaceInv'
  <1> USE DEF AInv
  <1>1. CASE New \/ dynamic_import
    <2>1. UNCHANGED <<reactions, started, reacted, regs>>
      BY <1>1 DEF New, dynamic_import, NewPromise
    <2>2. Moved({}, {}) \/ \E k \in Pair : Moved({}, {ImportedJob(k)})
      BY <1>1, NewMoves, ImportMoves DEF NewStep
    <2>3. \A k : \A x \in {ImportedJob(k)} : x.job.type # "reaction"
      BY DEF ImportedJob, ImportJob
    <2>4. PICK new : Moved({}, new) /\ \A x \in new : x.job.type # "reaction"
      <3>1. CASE Moved({}, {})
        BY <3>1
      <3>2. CASE \E k \in Pair : Moved({}, {ImportedJob(k)})
        <4>1. PICK k \in Pair : Moved({}, {ImportedJob(k)})
          BY <3>2
        <4>2. PICK s : s = {ImportedJob(k)}
          OBVIOUS
        <4>3. Moved({}, s) /\ \A x \in s : x.job.type # "reaction"
          BY <2>3, <4>1, <4>2
        <4> QED
          BY <4>3
      <3> QED
        BY <2>2, <3>1, <3>2
    <2>5. Answered({})
      BY <2>1, <2>4, NoneAnswered
    <2> QED
      BY <2>1, <2>4, <2>5, PlaceKept
  <1>2. CASE CallResolving
    <2>1. UNCHANGED <<started, reacted, regs>>
      BY <1>2 DEF CallResolving
    <2> QED
      BY <1>2, <2>1, CallResolvingMoves, PlaceSettling DEF Settling
  <1>3. CASE Then
    <2>1. PICK p, h, g, new :
              /\ p \in Promise /\ h \in {NoHandler, UserHandler} /\ g \in {NoHandler, UserHandler}
              /\ Moved({}, new)
              /\ \/ \E q \in Promise, k \in Pair : ThenNative(p, q, k, h, g, new)
                 \/ ThenSpecies(p, h, g, new)
      BY <1>3, ThenMoves
    <2>2. UNCHANGED <<started, reacted>>
      BY <1>3 DEF Then
    <2>3. h \in Handlers /\ g \in Handlers /\ Throwing \in Caps /\ Pair \subseteq Caps
      BY <2>1 DEF NoHandler, UserHandler, Handler, Handlers, Caps
    <2>4. \E k \in Caps : Registers(p, h, g, k, new)
      BY <2>1, <2>3 DEF ThenNative, ThenSpecies
    <2>5. \E r \in Registrations : Adds(r, new) /\ r.reg = regs + 1 /\ regs' = regs + 1
      BY <2>1, <2>3, <2>4, RegistersAdds
    <2> QED
      BY <2>1, <2>2, <2>5, NoneAnswered, PlaceAdds
  <1>4. CASE CallAsync \/ AwaitAgain
    <2>1. UNCHANGED <<started, reacted>>
      BY <1>4 DEF CallAsync, AwaitAgain
    <2>2. \E f \in AsyncFunctions : \E v, new : Awaits(f, v, new) /\ Moved({}, new)
      BY <1>4, CallAsyncMoves, AwaitAgainMoves, BodyRuns DEF CallAsyncStep, AwaitAgain
    <2>3. \E new : \E r \in Registrations :
             Moved({}, new) /\ Adds(r, new) /\ r.reg = regs + 1 /\ regs' = regs + 1
      BY <2>2, AwaitsAdds
    <2> QED
      BY <2>1, <2>3, NoneAnswered, PlaceAdds
  <1>5. CASE HandlerEnds \/ ThenMethodEnds \/ ModuleEnds \/ SettleImport
    <2>1. UNCHANGED <<started, reacted, regs>>
      BY <1>5 DEF HandlerEnds, ThenMethodEnds, ModuleEnds, SettleImport
    <2>2. CASE \E k : Settling(k)
      BY <2>1, <2>2, PlaceSettling
    <2>3. CASE UNCHANGED slots /\ \E gone : Moved(gone, {})
      BY <2>1, <2>3, NoneAnswered, PlaceKept DEF slots
    <2> QED
      BY <1>5, <2>2, <2>3, HandlerEndsMoves, ThenMethodEndsMoves, ModuleEndsMoves,
         SettleImportMoves DEF Settling
  <1>6. CASE ScriptEnds \/ TakeBatch \/ EndNestedDrain \/ DrainEnds \/ run_jobs
    <2>1. UNCHANGED <<slots, started, reacted, regs>> /\ Moved({}, {})
      BY <1>6, TakeBatchMoves, OtherMoves
         DEF ScriptEnds, TakeBatch, EndNestedDrain, DrainEnds, run_jobs
    <2> QED
      BY <2>1, NoneAnswered, PlaceKept DEF slots
  <1>7. CASE BodyEnds
    <2> DEFINE p == promise_of[running.of]
    <2>1. PICK v, new :
             /\ v \in Values
             /\ Moved({}, new)
             /\ \/ Resolves(p, v, new)
                \/ Settles(p, "rejected", v, new) /\ UNCHANGED adopts
      BY <1>7, BodyEndsMoves
    <2>2. p \in Promise /\ UNCHANGED <<started, reacted, regs>>
      BY <1>7, BodyRuns DEF BodyEnds
    <2> HIDE DEF p
    <2> QED
      BY <2>1, <2>2, NoneAnswered, PlaceResolves, PlaceSettles
  <1>8. CASE RunReaction
    <2>1. regs' = regs
      BY <1>8 DEF RunReaction
    <2> QED
      BY <1>8, <2>1, ReactionMoves, PlaceReaction
  <1>9. CASE RunThenable
    <2> DEFINE h == Head(Rest)
    <2>1. PICK k, new : ThenableStep(h, k, new)
      BY <1>9, ThenableMoves
    <2>2. reacted' = reacted /\ started' = started \cup {h.seq}
      BY <1>9, ThenableMoves DEF RunThenable
    <2> HIDE DEF h
    <2>3. Moved({h}, new) /\ h.job.type # "reaction"
      BY <2>1 DEF ThenableStep, ThenableJobs
    <2>4. Answered({h})
      BY <2>2, <2>3, OneAnswered
    <2>5. CASE /\ h.job.thenable \in Promise
               /\ Registers(h.job.thenable, Handler("settle", k), Handler("settle", k), NoPair, new)
      <3>1. Handler("settle", k) \in Handlers /\ NoPair \in Caps
        BY <2>1 DEF ThenableStep, Handler, Handlers, Caps
      <3>2. \E r \in Registrations : Adds(r, new) /\ r.reg = regs + 1 /\ regs' = regs + 1
        BY <2>5, <3>1, RegistersAdds
      <3> QED
        BY <2>2, <2>3, <2>4, <3>2, PlaceAdds
    <2>6. CASE UNCHANGED <<reactions, regs>> /\ new = {}
      BY <2>3, <2>4, <2>6, PlaceKept
    <2> QED
      BY <2>1, <2>5, <2>6 DEF ThenableStep
  <1>10. CASE RunImport
    <2>1. UNCHANGED <<reacted, regs>>
      BY <1>10 DEF RunImport
    <2>2. PICK h \in Jobs :
              /\ h.job \in ImportJobs /\ h.job.cap \in DOMAIN target
              /\ started' = started \cup {h.seq}
              /\ \/ \E new : Calls(h.job.cap, "reject", Failure, new) /\ Moved({h}, new)
                 \/ UNCHANGED slots /\ Moved({h}, {})
      BY <1>10, RunImportMoves
    <2>3. h.job.type # "reaction"
      BY <2>2 DEF ImportJobs
    <2>4. CASE UNCHANGED slots /\ Moved({h}, {})
      BY <2>1, <2>2, <2>3, <2>4, OneAnswered, PlaceKept DEF slots
    <2>5. CASE \E new : Calls(h.job.cap, "reject", Failure, new) /\ Moved({h}, new)
      BY <2>1, <2>2, <2>3, <2>5, OneAnswered, PlaceCalls
    <2> QED
      BY <2>2, <2>4, <2>5
  <1> QED
    BY <1>1, <1>2, <1>3, <1>4, <1>5, <1>6, <1>7, <1>8, <1>9, <1>10
       DEF Next, UserCall, Complete, Engine

\* The places of r at promises, and in the queue, as ReactsOnce counts them.
PlacesAt(r) ==
  {p \in Promise : state[p] = "pending" /\ \E i \in DOMAIN reactions[p] : reactions[p][i].reg = r}

PlacesDue(r) ==
  {i \in DOMAIN Waiting : Waiting[i].job.type = "reaction" /\ Waiting[i].job.reg = r}

\* The places of a registration are none or one, at the promises and among
\* the jobs.
LEMMA PlacesFacts ==
  ASSUME AInv, OnePlaceInv, NEW r
  PROVE  /\ (\A p \in Promise : \A i : ~At(r, p, i)) => Cardinality(PlacesAt(r)) = 0
         /\ (\E p \in Promise : \E i : At(r, p, i)) => Cardinality(PlacesAt(r)) = 1
         /\ (\A x : ~Due(r, x)) => Cardinality(PlacesDue(r)) = 0
         /\ (\E x : Due(r, x)) => Cardinality(PlacesDue(r)) = 1
  <1> USE DEF AInv
  <1>1. \A p \in Promise : p \in PlacesAt(r) <=> \E i : At(r, p, i)
    <2>1. \A p \in Promise : \A i \in DOMAIN reactions[p] :
             Listed(p, i, reactions[p][i]) /\ reactions[p][i] \in Registrations
      BY ListedType DEF Listed
    <2>2. \A p \in Promise : \A i : At(r, p, i) => state[p] = "pending"
      BY ListedType DEF At, Matches
    <2> QED
      BY <2>1, <2>2 DEF PlacesAt, At, Listed
  <1>2. PlacesAt(r) \subseteq Promise
    BY DEF PlacesAt
  <1>3. ASSUME NEW p \in Promise, NEW i, At(r, p, i) PROVE Cardinality(PlacesAt(r)) = 1
    <2>1. PlacesAt(r) = {p}
      BY <1>1, <1>2, <1>3 DEF OnePlaceInv
    <2> QED
      BY <2>1, FS_Singleton
  <1>4. \A i \in DOMAIN Waiting : Waiting[i] \in Jobs /\ (i \in PlacesDue(r) <=> Due(r, Waiting[i]))
    BY WaitingFacts DEF Rng, PlacesDue, Due
  <1>5. PlacesDue(r) \subseteq DOMAIN Waiting
    BY DEF PlacesDue
  <1>6. ASSUME NEW x, Due(r, x) PROVE Cardinality(PlacesDue(r)) = 1
    <2>1. x \in Jobs /\ \A y : Due(r, y) <=> y = x
      BY <1>6 DEF OnePlaceInv, Due
    <2> QED
      BY <1>4, <1>5, <2>1, OnePlace
  <1>7. (\A p \in Promise : \A i : ~At(r, p, i)) => PlacesAt(r) = {}
    BY <1>1, <1>2
  <1>8. (\A x : ~Due(r, x)) => PlacesDue(r) = {}
    BY <1>4, <1>5
  <1> QED
    BY <1>3, <1>6, <1>7, <1>8, FS_EmptySet

\* Each registration is in one place: at a promise that is pending, in one
\* job, or answered.
THEOREM ReactOnce == Spec => []ReactsOnce
  <1>1. AInv /\ PlaceInv => ReactsOnce
    <2>1. SUFFICES ASSUME AInv, PlaceInv, NoJobLost, NEW r \in 1 .. regs
                   PROVE  Cardinality(PlacesAt(r)) + Cardinality(PlacesDue(r))
                            + (IF r \in reacted THEN 1 ELSE 0) = 1
      BY DEF ReactsOnce, PlacesAt, PlacesDue
    <2>2. Kept
      BY <2>1, LostNone DEF AInv
    <2>3. OnePlaceInv
      BY <2>1 DEF PlaceInv
    <2>4. CASE \E p \in Promise : \E i : At(r, p, i)
      <3>1. r \notin reacted /\ \A x : ~Due(r, x)
        BY <2>3, <2>4 DEF OnePlaceInv
      <3> QED
        BY <2>1, <2>3, <2>4, <3>1, PlacesFacts
    <2>5. CASE \E x : Due(r, x)
      <3>1. r \notin reacted /\ \A p \in Promise : \A i : ~At(r, p, i)
        BY <2>3, <2>5 DEF OnePlaceInv
      <3> QED
        BY <2>1, <2>3, <2>5, <3>1, PlacesFacts
    <2>6. CASE ~(\E p \in Promise : \E i : At(r, p, i)) /\ ~(\E x : Due(r, x))
      <3>1. r \in reacted
        BY <2>1, <2>2, <2>6 DEF PlaceInv, SomePlace
      <3> QED
        BY <2>1, <2>3, <2>6, <3>1, PlacesFacts
    <2> QED
      BY <2>4, <2>5, <2>6
  <1>2. Init => PlaceInv
    <2>1. SUFFICES ASSUME Init PROVE PlaceInv
      OBVIOUS
    <2>2. (\A r : \A p \in Promise : \A i : ~At(r, p, i)) /\ (\A r, x : ~Due(r, x))
      BY <2>1, RngEmpty DEF Init, At, Listed, Due, Jobs
    <2> QED
      BY <2>1, <2>2 DEF Init, PlaceInv, OnePlaceInv, SomePlace
  <1>3. AInv /\ PlaceInv /\ [Next]_vars => PlaceInv'
    <2>1. ASSUME AInv, PlaceInv, UNCHANGED vars PROVE PlaceInv'
      <3>1. Jobs' = Jobs /\ Kept' = Kept /\ regs' = regs /\ reacted' = reacted
        BY <2>1 DEF vars, drain, Jobs, Rng, Kept
      <3>2. \A r, p, i : At(r, p, i)' <=> At(r, p, i)
        BY <2>1 DEF vars, slots, At, Listed
      <3>3. \A r, x : Due(r, x)' <=> Due(r, x)
        BY <3>1 DEF Due
      <3> QED
        BY <2>1, <3>1, <3>2, <3>3 DEF PlaceInv, OnePlaceInv, SomePlace
    <2> QED
      BY <2>1, PlaceNext
  <1> QED
    BY <1>1, <1>2, <1>3, Types, PTL DEF Spec

-----------------------------------------------------------------------------
(* The ways to settle a promise.                                           *)

PairWay(k, p) == k \in DOMAIN target /\ target[k] = p /\ k \notin resolved

JobWay(x, p) == x \in Jobs /\ x.job.type = "thenable" /\ x.job.promise = p

BodyWay(f, p) == f \in AsyncFunctions /\ promise_of[f] = p /\ body[f] # "done"

\* A promise has one way at most, and none once it has settled ...
OneWay(p) ==
  /\ \A k : PairWay(k, p) => /\ state[p] = "pending"
                             /\ \A l : PairWay(l, p) => l = k
                             /\ \A x : ~JobWay(x, p)
                             /\ \A f : ~BodyWay(f, p)
  /\ \A x : JobWay(x, p) => /\ state[p] = "pending"
                            /\ \A y : JobWay(y, p) => y = x
                            /\ \A f : ~BodyWay(f, p)
  /\ \A f : BodyWay(f, p) => state[p] = "pending" /\ \A g : BodyWay(g, p) => g = f

\* ... but has one until then, unless something was lost.
SomeWay(p) ==
  Kept /\ state[p] = "pending" =>
    (\E k : PairWay(k, p)) \/ (\E x : JobWay(x, p)) \/ (\E f : BodyWay(f, p))

Ways(p) == OneWay(p) /\ SomeWay(p)

WaysInv == \A p \in Promise : Ways(p)

\* No thenable job leaves, if nothing is lost.
Untied(gone) == Kept' => Kept /\ \A x \in gone : x.job.type # "thenable"

NoThenable(new) == \A x \in new : x.job.type # "thenable"

\* No body ends.
SameBodies ==
  promise_of' = promise_of /\ \A f \in AsyncFunctions : body'[f] = "done" <=> body[f] = "done"

\* A step that starts no job lets no thenable job leave ...
LEMMA NoneUntied ==
  ASSUME AInv, NEW gone, NEW new, Moved(gone, new), started' = started
  PROVE  Untied(gone)
  BY NoneLeaves DEF Untied

\* ... nor does one that starts a job of another type.
LEMMA OneUntied ==
  ASSUME AInv, NEW h, NEW gone, NEW new, Moved(gone, new), h \in gone,
         started' = started \cup {h.seq}, h.job.type # "thenable"
  PROVE  Untied(gone)
  BY OneLeaves DEF Untied

\* Nothing changes for p.
LEMMA WaysKept ==
  ASSUME AInv, NEW p \in Promise, Ways(p), NEW gone, NEW new, Moved(gone, new),
         state'[p] = state[p], Kept' => Kept /\ \A x \in gone : ~JobWay(x, p),
         \A x \in new : x.job.type = "thenable" => x.job.promise # p,
         \A k : PairWay(k, p)' <=> PairWay(k, p),
         \A f : BodyWay(f, p)' <=> BodyWay(f, p)
  PROVE  Ways(p)'
  <1>1. \A x : JobWay(x, p)' <=> JobWay(x, p) /\ x \notin gone
    BY DEF JobWay, Moved
  <1>2. OneWay(p)'
    BY <1>1 DEF Ways, OneWay
  <1>3. SomeWay(p)'
    BY <1>1 DEF Ways, SomeWay
  <1> QED
    BY <1>2, <1>3 DEF Ways

\* A step that touches no state, pair, body or thenable job keeps the ways to
\* settle.
LEMMA WaysQuiet ==
  ASSUME AInv, WaysInv, NEW gone, NEW new, Moved(gone, new), Untied(gone), NoThenable(new),
         UNCHANGED <<state, target, resolved>>, SameBodies
  PROVE  WaysInv'
  <1>1. SUFFICES ASSUME NEW p \in Promise PROVE Ways(p)'
    BY DEF WaysInv
  <1>2. \A k : PairWay(k, p)' <=> PairWay(k, p)
    BY DEF PairWay
  <1>3. \A f : BodyWay(f, p)' <=> BodyWay(f, p)
    BY DEF BodyWay, SameBodies
  <1>4. Ways(p) /\ (Kept' => Kept /\ \A x \in gone : ~JobWay(x, p))
    BY DEF WaysInv, Untied, JobWay
  <1>5. \A x \in new : x.job.type = "thenable" => x.job.promise # p
    BY DEF NoThenable
  <1> QED
    BY <1>2, <1>3, <1>4, <1>5, WaysKept

\* Settling enqueues no thenable job, and touches one promise.
LEMMA SettlesNoThenable ==
  ASSUME AInv, NEW p \in Promise, NEW outcome, NEW v, NEW new, Settles(p, outcome, v, new)
  PROVE  NoThenable(new) /\ \A q \in Promise : q # p => state'[q] = state[q]
  <1>1. \A x \in new : x.job.type = "reaction"
    BY SettlesLists DEF AInv, ReactionJob
  <1> QED
    BY <1>1 DEF NoThenable, Settles, slots, AInv, TypeInv, SlotTypes

\* A new registration enqueues no thenable job.
LEMMA AddsNoThenable ==
  ASSUME NEW g, NEW new, Adds(g, new)
  PROVE  NoThenable(new)
  <1>1. ASSUME NEW p, NEW fulfil, NEW a,
               new = {[job |-> ReactionJob(p, g, fulfil, a), seq |-> enqueued + 1]}
        PROVE  NoThenable(new)
    BY <1>1 DEF NoThenable, ReactionJob
  <1> QED
    BY <1>1 DEF Adds, NoThenable

\* The only way of p was taken: p settles, or a job takes over.
LEMMA WaysTaken ==
  ASSUME AInv, WaysInv, NEW p \in Promise, NEW v, NEW new, NEW gone, Moved(gone, new),
         Untied(gone), state[p] = "pending",
         \/ Resolves(p, v, new)
         \/ Settles(p, "rejected", v, new),
         \A x : ~JobWay(x, p), \A k : ~PairWay(k, p)', \A f : ~BodyWay(f, p)',
         \A q \in Promise \ {p} : /\ \A k : PairWay(k, q)' <=> PairWay(k, q)
                                  /\ \A f : BodyWay(f, q)' <=> BodyWay(f, q)
  PROVE  WaysInv'
  <1> USE DEF AInv
  <1>1. CASE \E outcome \in {"fulfilled", "rejected"} : \E a : Settles(p, outcome, a, new)
    <2>1. PICK outcome, a : outcome \in {"fulfilled", "rejected"} /\ Settles(p, outcome, a, new)
      BY <1>1
    <2>2. NoThenable(new) /\ \A q \in Promise : q # p => state'[q] = state[q]
      BY <2>1, SettlesNoThenable
    <2>3. Ways(p)'
      <3>1. state'[p] # "pending"
        BY <2>1 DEF Settles, TypeInv, SlotTypes
      <3>2. \A x : ~JobWay(x, p)'
        BY <2>2 DEF JobWay, Moved, NoThenable
      <3> QED
        BY <3>1, <3>2 DEF Ways, OneWay, SomeWay
    <2>4. ASSUME NEW q \in Promise, q # p PROVE Ways(q)'
      <3>1. state'[q] = state[q] /\ \A x \in new : x.job.type = "thenable" => x.job.promise # q
        BY <2>2, <2>4 DEF NoThenable
      <3>2. Ways(q) /\ (Kept' => Kept /\ \A x \in gone : ~JobWay(x, q))
        BY DEF WaysInv, Untied, JobWay
      <3> QED
        BY <2>4, <3>1, <3>2, WaysKept
    <2> QED
      BY <2>3, <2>4 DEF WaysInv
  <1>2. CASE UNCHANGED slots /\ new = {[job |-> ThenableJob(p, v), seq |-> enqueued + 1]}
    <2>1. PICK t : t = [job |-> ThenableJob(p, v), seq |-> enqueued + 1]
      OBVIOUS
    <2>2. new = {t} /\ t.job.type = "thenable" /\ t.job.promise = p
      BY <1>2, <2>1 DEF ThenableJob
    <2>3. Ways(p)'
      <3>1. \A x : JobWay(x, p)' <=> x = t
        BY <2>2 DEF JobWay, Moved
      <3>2. state'[p] = "pending"
        BY <1>2 DEF slots
      <3> QED
        BY <3>1, <3>2 DEF Ways, OneWay, SomeWay
    <2>4. ASSUME NEW q \in Promise, q # p PROVE Ways(q)'
      <3>1. state'[q] = state[q] /\ \A x \in new : x.job.type = "thenable" => x.job.promise # q
        BY <1>2, <2>2, <2>4 DEF slots
      <3>2. Ways(q) /\ (Kept' => Kept /\ \A x \in gone : ~JobWay(x, q))
        BY DEF WaysInv, Untied, JobWay
      <3> QED
        BY <2>4, <3>1, <3>2, WaysKept
    <2> QED
      BY <2>3, <2>4 DEF WaysInv
  <1> QED
    BY <1>1, <1>2 DEF Resolves

\* The cell of a pair closes its way.
LEMMA WaysCalls ==
  ASSUME AInv, WaysInv, NEW k \in DOMAIN target, NEW how, NEW v, NEW gone, NEW new,
         Calls(k, how, v, new), Moved(gone, new), Untied(gone), target' = target, SameBodies
  PROVE  WaysInv'
  <1> USE DEF AInv
  <1>1. CASE k \in resolved
    <2>1. UNCHANGED <<state, resolved>> /\ NoThenable(new)
      BY <1>1 DEF Calls, slots, NoThenable
    <2> QED
      BY <2>1, WaysQuiet
  <1>2. CASE k \notin resolved
    <2>1. PICK p \in Promise : p = target[k]
      BY DEF TypeInv, ObjectTypes
    <2>2. PairWay(k, p)
      BY <1>2, <2>1 DEF PairWay
    <2>3. /\ state[p] = "pending" /\ (\A x : ~JobWay(x, p)) /\ (\A f : ~BodyWay(f, p))
          /\ \A l : PairWay(l, p) => l = k
      BY <2>2 DEF WaysInv, Ways, OneWay
    <2>4. \A l, q : PairWay(l, q)' <=> PairWay(l, q) /\ l # k
      BY DEF PairWay, Calls
    <2>5. \A f, q : BodyWay(f, q)' <=> BodyWay(f, q)
      BY DEF BodyWay, SameBodies
    <2>6. \A q : PairWay(k, q) => q = p
      BY <2>1 DEF PairWay
    <2>7. Resolves(p, v, new) \/ Settles(p, "rejected", v, new)
      BY <1>2, <2>1 DEF Calls
    <2> QED
      BY <2>3, <2>4, <2>5, <2>6, <2>7, WaysTaken
  <1> QED
    BY <1>1, <1>2

\* The end of user code that settles a capability keeps the ways to settle
\* ...
LEMMA WaysSettling ==
  ASSUME AInv, WaysInv, NEW k, Settling(k), UNCHANGED <<target, started>>, SameBodies
  PROVE  WaysInv'
  <1>1. CASE UNCHANGED <<slots, resolved>> /\ Moved({}, {})
    <2>1. NoThenable({}) /\ state' = state /\ resolved' = resolved
      BY <1>1 DEF NoThenable, slots
    <2> QED
      BY <1>1, <2>1, NoneUntied, WaysQuiet
  <1>2. CASE Calling(k)
    BY <1>2, NoneUntied, WaysCalls DEF Calling
  <1> QED
    BY <1>1, <1>2 DEF Settling

\* What has been made is not what is made now.
LEMMA NoWayYet ==
  ASSUME AInv, NEW q \in Promise, q = born + 1
  PROVE  /\ \A k : ~PairWay(k, q)
         /\ \A x : ~JobWay(x, q)
         /\ \A f : ~BodyWay(f, q)
  BY DEF AInv, TypeInv, ObjectTypes, Known, KnownObjects, KnownLists, KnownJob, PairWay, JobWay,
     BodyWay

\* A promise is made with a pair ...
LEMMA WaysNewPair ==
  ASSUME AInv, WaysInv, NEW q \in Promise, q = born + 1, state' = [state EXCEPT ![q] = "pending"],
         NEW k \in Pair, NewPair(k, q), NEW new, Moved({}, new), NoThenable(new),
         UNCHANGED <<resolved, started>>, SameBodies
  PROVE  WaysInv'
  <1> USE DEF AInv
  <1>1. /\ DOMAIN target' = DOMAIN target \cup {k} /\ k \notin DOMAIN target
        /\ target'[k] = q /\ \A l \in DOMAIN target : target'[l] = target[l]
    BY NewPairTypes
  <1>2. k \notin resolved
    BY <1>1 DEF TypeInv, ObjectTypes
  <1>3. \A l, p : PairWay(l, p)' <=> PairWay(l, p) \/ (l = k /\ p = q)
    BY <1>1, <1>2 DEF PairWay
  <1>4. \A f, p : BodyWay(f, p)' <=> BodyWay(f, p)
    BY DEF BodyWay, SameBodies
  <1>5. Untied({})
    BY NoneUntied
  <1>6. Ways(q)'
    <2>1. \A x : JobWay(x, q)' <=> JobWay(x, q)
      BY DEF JobWay, Moved, NoThenable
    <2>2. state'[q] = "pending"
      BY NewPromiseState
    <2> QED
      BY <1>3, <1>4, <2>1, <2>2, NoWayYet DEF Ways, OneWay, SomeWay
  <1>7. ASSUME NEW p \in Promise, p # q PROVE Ways(p)'
    <2>1. state'[p] = state[p] /\ \A x \in new : x.job.type = "thenable" => x.job.promise # p
      BY <1>7, NewPromiseState DEF NoThenable
    <2>2. Ways(p) /\ (Kept' => Kept /\ \A x \in {} : ~JobWay(x, p))
      BY <1>5 DEF WaysInv, Untied
    <2> QED
      BY <1>3, <1>4, <1>7, <2>1, <2>2, WaysKept
  <1> QED
    BY <1>6, <1>7 DEF WaysInv

\* ... or by the call of an async function.
LEMMA WaysNewBody ==
  ASSUME AInv, WaysInv, NEW f \in AsyncFunctions, NEW q, NEW v, NEW new,
         CallAsyncStep(f, q, v, new), q \in Promise, UNCHANGED <<target, resolved, started>>
  PROVE  WaysInv'
  <1> USE DEF AInv
  <1>1. /\ q = born + 1 /\ state' = [state EXCEPT ![q] = "pending"] /\ body[f] = "uncalled"
        /\ promise_of' = [promise_of EXCEPT ![f] = q] /\ Awaits(f, v, new) /\ Moved({}, new)
    BY DEF CallAsyncStep
  <1>2. body'[f] = "suspended" /\ \A g \in AsyncFunctions : g # f => body'[g] = body[g]
    BY <1>1 DEF Awaits, TypeInv, ObjectTypes
  <1>3. promise_of'[f] = q /\ \A g \in AsyncFunctions : g # f => promise_of'[g] = promise_of[g]
    BY <1>1 DEF TypeInv, ObjectTypes
  <1>4. promise_of[f] = Nobody /\ Nobody \notin Promise
    BY <1>1 DEF Known, KnownObjects, Nobody, Promise
  <1>5. \A g : \A p \in Promise : BodyWay(g, p)' <=> BodyWay(g, p) \/ (g = f /\ p = q)
    BY <1>2, <1>3, <1>4 DEF BodyWay
  <1>6. \A l, p : PairWay(l, p)' <=> PairWay(l, p)
    BY DEF PairWay
  <1>7. Untied({}) /\ NoThenable(new)
    BY <1>1, NoneUntied, AwaitsAdds, AddsNoThenable
  <1>8. Ways(q)'
    <2>1. \A x : JobWay(x, q)' <=> JobWay(x, q)
      BY <1>1, <1>7 DEF JobWay, Moved, NoThenable
    <2>2. state'[q] = "pending"
      BY <1>1, NewPromiseState
    <2> QED
      BY <1>1, <1>5, <1>6, <2>1, <2>2, NoWayYet DEF Ways, OneWay, SomeWay
  <1>9. ASSUME NEW p \in Promise, p # q PROVE Ways(p)'
    <2>1. state'[p] = state[p] /\ \A x \in new : x.job.type = "thenable" => x.job.promise # p
      BY <1>1, <1>7, <1>9, NewPromiseState DEF NoThenable
    <2>2. Ways(p) /\ (Kept' => Kept /\ \A x \in {} : ~JobWay(x, p))
      BY <1>7 DEF WaysInv, Untied
    <2>3. \A g : BodyWay(g, p)' <=> BodyWay(g, p)
      BY <1>5, <1>9
    <2> QED
      BY <1>1, <1>6, <2>1, <2>2, <2>3, WaysKept
  <1> QED
    BY <1>8, <1>9 DEF WaysInv

\* A job that adopts becomes a pair.
LEMMA WaysThenable ==
  ASSUME AInv, WaysInv, NEW h, NEW k, NEW new, ThenableStep(h, k, new), NoThenable(new),
         UNCHANGED <<state, resolved>>, started' = started \cup {h.seq}, SameBodies
  PROVE  WaysInv'
  <1> USE DEF AInv
  <1>1. PICK p \in Promise : p = h.job.promise
    BY DEF ThenableStep, ThenableJobs
  <1>2. /\ h \in Jobs /\ h.job.type = "thenable" /\ k \in Pair /\ NewPair(k, p) /\ Moved({h}, new)
    BY <1>1 DEF ThenableStep, ThenableJobs
  <1>3. /\ DOMAIN target' = DOMAIN target \cup {k} /\ k \notin DOMAIN target
        /\ target'[k] = p /\ \A l \in DOMAIN target : target'[l] = target[l]
    BY <1>2, NewPairTypes
  <1>4. k \notin resolved
    BY <1>3 DEF TypeInv, ObjectTypes
  <1>5. \A l, q : PairWay(l, q)' <=> PairWay(l, q) \/ (l = k /\ q = p)
    BY <1>3, <1>4 DEF PairWay
  <1>6. \A f, q : BodyWay(f, q)' <=> BodyWay(f, q)
    BY DEF BodyWay, SameBodies
  <1>7. Kept' => Kept
    BY <1>2, OneLeaves
  <1>8. JobWay(h, p)
    BY <1>1, <1>2 DEF JobWay
  <1>9. Ways(p)'
    <2>1. /\ state[p] = "pending" /\ (\A y : JobWay(y, p) => y = h) /\ (\A f : ~BodyWay(f, p))
          /\ \A l : ~PairWay(l, p)
      BY <1>8 DEF WaysInv, Ways, OneWay
    <2>2. \A x : ~JobWay(x, p)'
      BY <1>2, <2>1 DEF JobWay, Moved, NoThenable
    <2> QED
      BY <1>5, <1>6, <2>1, <2>2 DEF Ways, OneWay, SomeWay
  <1>10. ASSUME NEW q \in Promise, q # p PROVE Ways(q)'
    <2>1. state'[q] = state[q] /\ \A x \in new : x.job.type = "thenable" => x.job.promise # q
      BY DEF NoThenable
    <2>2. Ways(q) /\ (Kept' => Kept /\ \A x \in {h} : ~JobWay(x, q))
      BY <1>1, <1>7, <1>10 DEF WaysInv, JobWay
    <2> QED
      BY <1>2, <1>5, <1>6, <1>10, <2>1, <2>2, WaysKept
  <1> QED
    BY <1>9, <1>10 DEF WaysInv

\* ... so does a reaction job ...
LEMMA WaysReaction ==
  ASSUME AInv, WaysInv, NEW h, ReactionStep(h), UNCHANGED <<target, promise_of>>, Idle
  PROVE  WaysInv'
  <1> USE DEF AInv
  <1>1. h.job.type # "thenable" /\ started' = started \cup {h.seq} /\ NoThenable({})
        /\ h \in Jobs /\ h.job \in ReactionJobs
    BY DEF ReactionStep, ReactionJobs, NoThenable
  <1>2. CASE Fails(h)
    <2>1. UNCHANGED <<slots, resolved, body>> /\ Moved(Rng(Rest), {}) /\ h \in Rng(Rest)
      BY <1>2 DEF Fails
    <2> QED
      BY <1>1, <2>1, OneUntied, WaysQuiet DEF slots, SameBodies
  <1>3. CASE Begins(h)
    <2>1. UNCHANGED <<slots, resolved>> /\ Moved({h}, {})
      BY <1>3 DEF Begins
    <2>2. SameBodies
      <3>1. CASE UNCHANGED body
        BY <3>1 DEF SameBodies
      <3>2. CASE /\ h.job.handler.kind = "resume"
                 /\ body' = [body EXCEPT ![h.job.handler.of] = "running"]
        <4>1. PICK f \in AsyncFunctions : h.job.handler = Handler("resume", f)
          BY <1>1, <3>2 DEF ReactionJobs, Handlers, Handler
        <4>2. ResumeDue(f, h)
          BY <1>1, <4>1 DEF ResumeDue, ReactionJobs
        <4>3. body[f] = "suspended" /\ h.job.handler.of = f
          BY <4>1, <4>2 DEF ResumeInv, ResumeDue, Handler
        <4> QED
          BY <3>2, <4>3 DEF SameBodies, TypeInv, ObjectTypes
      <3> QED
        BY <1>3, <3>1, <3>2 DEF Begins
    <2> QED
      BY <1>1, <2>1, <2>2, OneUntied, WaysQuiet DEF slots
  <1>4. ASSUME NEW k, NEW new, Answers(h, k, new) PROVE WaysInv'
    <2>1. Moved({h}, new) /\ k \in DOMAIN target /\ (\E how : Calls(k, how, h.job.arg, new))
          /\ SameBodies
      BY <1>4 DEF Answers, SameBodies
    <2> QED
      BY <1>1, <2>1, OneUntied, WaysCalls
  <1> QED
    BY <1>2, <1>3, <1>4 DEF ReactionStep

\* The result promise of the body that ends has no other way.
LEMMA WaysBodyEnds ==
  ASSUME AInv, WaysInv, BodyEnds
  PROVE  WaysInv'
  <1> USE DEF AInv
  <1>1. PICK f \in AsyncFunctions : f = running.of
    BY BodyRuns DEF BodyEnds
  <1>2. PICK p \in Promise : p = promise_of[f]
    BY <1>1, BodyRuns DEF BodyEnds
  <1>3. PICK v, new :
             /\ v \in Values
             /\ Moved({}, new)
             /\ \/ Resolves(p, v, new)
                \/ Settles(p, "rejected", v, new)
    BY <1>1, <1>2, BodyEndsMoves
  <1>4. BodyWay(f, p)
    BY <1>1, <1>2, BodyRuns DEF BodyWay, BodyEnds
  <1>5. /\ state[p] = "pending" /\ (\A g : BodyWay(g, p) => g = f)
        /\ (\A k : ~PairWay(k, p)) /\ (\A x : ~JobWay(x, p))
    BY <1>4 DEF WaysInv, Ways, OneWay
  <1>6. /\ body' = [body EXCEPT ![f] = "done"]
        /\ UNCHANGED <<target, resolved, promise_of, started>>
    BY <1>1 DEF BodyEnds, objects
  <1>7. \A k, q : PairWay(k, q)' <=> PairWay(k, q)
    BY <1>6 DEF PairWay
  <1>8. \A g, q : BodyWay(g, q)' <=> BodyWay(g, q) /\ g # f
    BY <1>6 DEF BodyWay, TypeInv, ObjectTypes
  <1>9. \A q : BodyWay(f, q) => q = p
    BY <1>2 DEF BodyWay
  <1>10. Untied({})
    BY <1>3, <1>6, NoneUntied
  <1> QED
    BY <1>3, <1>5, <1>7, <1>8, <1>9, <1>10, WaysTaken

\* ... and so does every step.
LEMMA WaysNext ==
  ASSUME AInv, WaysInv, Next
  PROVE  WaysInv'
  <1> USE DEF AInv
  <1>1. CASE New \/ dynamic_import
    <2>1. UNCHANGED <<started, resolved>> /\ SameBodies
      BY <1>1 DEF New, dynamic_import, async, SameBodies
    <2>2. PICK p \in Promise, k \in Pair :
            NewPromise(p) /\ NewPair(k, p) /\ (Moved({}, {}) \/ Moved({}, {ImportedJob(k)}))
      BY <1>1, NewMoves, ImportMoves DEF NewStep
    <2>3. p = born + 1 /\ state' = [state EXCEPT ![p] = "pending"]
      BY <2>2 DEF NewPromise
    <2>4. NoThenable({}) /\ NoThenable({ImportedJob(k)})
      BY DEF NoThenable, ImportedJob, ImportJob
    <2>5. CASE Moved({}, {})
      BY <2>1, <2>2, <2>3, <2>4, <2>5, WaysNewPair
    <2>6. CASE Moved({}, {ImportedJob(k)})
      <3>1. PICK s : s = {ImportedJob(k)}
        OBVIOUS
      <3>2. Moved({}, s) /\ NoThenable(s)
        BY <2>4, <2>6, <3>1
      <3> QED
        BY <2>1, <2>2, <2>3, <3>2, WaysNewPair
    <2> QED
      BY <2>2, <2>5, <2>6
  <1>2. CASE CallResolving
    <2>1. UNCHANGED <<target, started>> /\ SameBodies
      BY <1>2 DEF CallResolving, objects, async, SameBodies
    <2> QED
      BY <1>2, <2>1, CallResolvingMoves, WaysSettling DEF Settling
  <1>3. CASE Then
    <2>1. PICK p, h, g, new :
              /\ p \in Promise /\ h \in {NoHandler, UserHandler} /\ g \in {NoHandler, UserHandler}
              /\ Moved({}, new)
              /\ \/ \E q \in Promise, k \in Pair : ThenNative(p, q, k, h, g, new)
                 \/ ThenSpecies(p, h, g, new)
      BY <1>3, ThenMoves
    <2>2. UNCHANGED <<started, resolved>> /\ SameBodies
      BY <1>3 DEF Then, async, SameBodies
    <2>3. h \in Handlers /\ g \in Handlers /\ Throwing \in Caps /\ Pair \subseteq Caps
      BY <2>1 DEF NoHandler, UserHandler, Handler, Handlers, Caps
    <2>4. \E k \in Caps : Registers(p, h, g, k, new)
      BY <2>1, <2>3 DEF ThenNative, ThenSpecies
    <2>5. NoThenable(new)
      BY <2>1, <2>3, <2>4, RegistersAdds, AddsNoThenable
    <2>6. CASE \E q \in Promise, k \in Pair : ThenNative(p, q, k, h, g, new)
      <3>1. PICK q \in Promise, k \in Pair : ThenNative(p, q, k, h, g, new)
        BY <2>6
      <3>2. q = born + 1 /\ state' = [state EXCEPT ![q] = "pending"] /\ NewPair(k, q)
        BY <3>1 DEF ThenNative
      <3> QED
        BY <2>1, <2>2, <2>5, <3>2, WaysNewPair
    <2>7. CASE ThenSpecies(p, h, g, new)
      BY <2>1, <2>2, <2>5, <2>7, NoneUntied, WaysQuiet DEF ThenSpecies
    <2> QED
      BY <2>1, <2>6, <2>7
  <1>4. CASE CallAsync
    <2>1. UNCHANGED <<target, resolved, started>>
      BY <1>4 DEF CallAsync
    <2> QED
      BY <1>4, <2>1, CallAsyncMoves, WaysNewBody
  <1>5. CASE AwaitAgain
    <2>1. PICK f \in AsyncFunctions : f = running.of /\ body[f] = "running"
      BY <1>5, BodyRuns DEF AwaitAgain
    <2>2. PICK v, new : Awaits(f, v, new) /\ Moved({}, new)
      BY <1>5, <2>1, AwaitAgainMoves
    <2>3. UNCHANGED <<state, target, resolved, started>> /\ promise_of' = promise_of
      BY <1>5 DEF AwaitAgain, objects
    <2>4. SameBodies
      BY <2>1, <2>2, <2>3 DEF Awaits, SameBodies, TypeInv, ObjectTypes
    <2>5. Untied({}) /\ NoThenable(new)
      BY <2>2, <2>3, NoneUntied, AwaitsAdds, AddsNoThenable
    <2> QED
      BY <2>2, <2>3, <2>4, <2>5, WaysQuiet
  <1>6. CASE HandlerEnds \/ ThenMethodEnds \/ ModuleEnds \/ SettleImport
    <2>1. UNCHANGED <<target, started>> /\ SameBodies
      BY <1>6 DEF HandlerEnds, ThenMethodEnds, ModuleEnds, SettleImport, objects, async, SameBodies
    <2>2. CASE \E k : Settling(k)
      BY <2>1, <2>2, WaysSettling
    <2>3. CASE UNCHANGED <<slots, resolved>> /\ \E gone : Moved(gone, {})
      <3>1. NoThenable({}) /\ state' = state /\ resolved' = resolved
        BY <2>3 DEF NoThenable, slots
      <3> QED
        BY <2>1, <2>3, <3>1, NoneUntied, WaysQuiet
    <2> QED
      BY <1>6, <2>2, <2>3, HandlerEndsMoves, ThenMethodEndsMoves, ModuleEndsMoves,
         SettleImportMoves DEF Settling
  <1>7. CASE ScriptEnds \/ TakeBatch \/ EndNestedDrain \/ DrainEnds \/ run_jobs
    <2>1. UNCHANGED <<state, target, resolved, started>> /\ SameBodies /\ Moved({}, {})
          /\ NoThenable({})
      BY <1>7, TakeBatchMoves, OtherMoves
         DEF ScriptEnds, TakeBatch, EndNestedDrain, DrainEnds, run_jobs, slots, objects, async,
             SameBodies, NoThenable
    <2> QED
      BY <2>1, NoneUntied, WaysQuiet
  <1>8. CASE BodyEnds
    BY <1>8, WaysBodyEnds
  <1>9. CASE RunReaction
    <2>1. UNCHANGED <<target, promise_of>>
      BY <1>9 DEF RunReaction, objects
    <2> QED
      BY <1>9, <2>1, ReactionMoves, WaysReaction
  <1>10. CASE RunThenable
    <2>1. PICK h : h = Head(Rest)
      OBVIOUS
    <2>2. PICK k, new : ThenableStep(h, k, new)
      BY <1>10, <2>1, ThenableMoves
    <2>3. UNCHANGED <<state, resolved>> /\ started' = started \cup {h.seq} /\ SameBodies
      BY <1>10, <2>1, ThenableMoves DEF RunThenable, async, SameBodies
    <2>4. NoThenable(new)
      <3>1. Handler("settle", k) \in Handlers /\ NoPair \in Caps
        BY <2>2 DEF ThenableStep, Handler, Handlers, Caps
      <3>2. CASE /\ h.job.thenable \in Promise
                 /\ Registers(h.job.thenable, Handler("settle", k), Handler("settle", k), NoPair, new)
        BY <3>1, <3>2, RegistersAdds, AddsNoThenable
      <3>3. CASE new = {}
        BY <3>3 DEF NoThenable
      <3> QED
        BY <2>2, <3>2, <3>3 DEF ThenableStep
    <2> QED
      BY <2>2, <2>3, <2>4, WaysThenable
  <1>11. CASE RunImport
    <2>1. target' = target /\ SameBodies
      BY <1>11 DEF RunImport, objects, async, SameBodies
    <2>2. PICK h \in Jobs :
              /\ h.job \in ImportJobs /\ h.job.cap \in DOMAIN target
              /\ started' = started \cup {h.seq}
              /\ \/ \E new : Calls(h.job.cap, "reject", Failure, new) /\ Moved({h}, new)
                 \/ UNCHANGED <<slots, resolved>> /\ Moved({h}, {})
      BY <1>11, RunImportMoves
    <2>3. h.job.type # "thenable" /\ NoThenable({})
      BY <2>2 DEF ImportJobs, NoThenable
    <2>4. CASE UNCHANGED <<slots, resolved>> /\ Moved({h}, {})
      BY <2>1, <2>2, <2>3, <2>4, OneUntied, WaysQuiet DEF slots
    <2>5. CASE \E new : Calls(h.job.cap, "reject", Failure, new) /\ Moved({h}, new)
      BY <2>1, <2>2, <2>3, <2>5, OneUntied, WaysCalls
    <2> QED
      BY <2>2, <2>4, <2>5
  <1> QED
    BY <1>1, <1>2, <1>3, <1>4, <1>5, <1>6, <1>7, <1>8, <1>9, <1>10, <1>11
       DEF Next, UserCall, Complete, Engine

PairWays(p) == {k \in DOMAIN target : target[k] = p /\ k \notin resolved}

JobWays(p) ==
  {i \in DOMAIN Waiting : Waiting[i].job.type = "thenable" /\ Waiting[i].job.promise = p}

BodyWays(p) == {f \in AsyncFunctions : promise_of[f] = p /\ body[f] # "done"}

\* The ways to settle p of each kind are none or one.
LEMMA WaysCount ==
  ASSUME AInv, NEW p \in Promise, OneWay(p)
  PROVE  /\ (\A k : ~PairWay(k, p)) => Cardinality(PairWays(p)) = 0
         /\ (\E k : PairWay(k, p)) => Cardinality(PairWays(p)) = 1
         /\ (\A x : ~JobWay(x, p)) => Cardinality(JobWays(p)) = 0
         /\ (\E x : JobWay(x, p)) => Cardinality(JobWays(p)) = 1
         /\ (\A f : ~BodyWay(f, p)) => Cardinality(BodyWays(p)) = 0
         /\ (\E f : BodyWay(f, p)) => Cardinality(BodyWays(p)) = 1
  <1> USE DEF AInv
  <1>1. \A k : k \in PairWays(p) <=> PairWay(k, p)
    BY DEF PairWays, PairWay
  <1>2. \A f : f \in BodyWays(p) <=> BodyWay(f, p)
    BY DEF BodyWays, BodyWay
  <1>3. \A i \in DOMAIN Waiting : Waiting[i] \in Jobs /\ (i \in JobWays(p) <=> JobWay(Waiting[i], p))
    BY WaitingFacts DEF Rng, JobWays, JobWay
  <1>4. JobWays(p) \subseteq DOMAIN Waiting
    BY DEF JobWays
  <1>5. ASSUME NEW k, PairWay(k, p) PROVE Cardinality(PairWays(p)) = 1
    <2>1. PairWays(p) = {k}
      BY <1>1, <1>5 DEF OneWay
    <2> QED
      BY <2>1, FS_Singleton
  <1>6. ASSUME NEW f, BodyWay(f, p) PROVE Cardinality(BodyWays(p)) = 1
    <2>1. BodyWays(p) = {f}
      BY <1>2, <1>6 DEF OneWay
    <2> QED
      BY <2>1, FS_Singleton
  <1>7. ASSUME NEW x, JobWay(x, p) PROVE Cardinality(JobWays(p)) = 1
    <2>1. x \in Jobs /\ \A y : JobWay(y, p) <=> y = x
      BY <1>7 DEF OneWay, JobWay
    <2> QED
      BY <1>3, <1>4, <2>1, OnePlace
  <1>8. (\A k : ~PairWay(k, p)) => PairWays(p) = {}
    BY <1>1
  <1>9. (\A f : ~BodyWay(f, p)) => BodyWays(p) = {}
    BY <1>2
  <1>10. (\A x : ~JobWay(x, p)) => JobWays(p) = {}
    BY <1>3, <1>4
  <1> QED
    BY <1>5, <1>6, <1>7, <1>8, <1>9, <1>10, FS_EmptySet

\* The inductive invariant of OneWaySettles.
LEMMA WaysAlways == Spec => []WaysInv
  <1>1. Init => WaysInv
    <2>1. SUFFICES ASSUME Init, NEW p \in Promise PROVE Ways(p)
      BY DEF WaysInv
    <2>2. /\ \A k : ~PairWay(k, p)
          /\ \A x : ~JobWay(x, p)
          /\ \A f : ~BodyWay(f, p)
      BY <2>1, RngEmpty DEF Init, PairWay, JobWay, BodyWay, Jobs, Promise, Nobody
    <2> QED
      BY <2>1, <2>2 DEF Init, Ways, OneWay, SomeWay
  <1>2. AInv /\ WaysInv /\ [Next]_vars => WaysInv'
    <2>1. ASSUME AInv, WaysInv, UNCHANGED vars PROVE WaysInv'
      <3>1. Jobs' = Jobs /\ Kept' = Kept /\ state' = state
        BY <2>1 DEF vars, slots, drain, Jobs, Rng, Kept
      <3>2. \A k, p : PairWay(k, p)' <=> PairWay(k, p)
        BY <2>1 DEF vars, objects, PairWay
      <3>3. \A f, p : BodyWay(f, p)' <=> BodyWay(f, p)
        BY <2>1 DEF vars, async, BodyWay
      <3>4. \A x, p : JobWay(x, p)' <=> JobWay(x, p)
        BY <3>1 DEF JobWay
      <3> QED
        BY <2>1, <3>1, <3>2, <3>3, <3>4 DEF WaysInv, Ways, OneWay, SomeWay
    <2> QED
      BY <2>1, WaysNext
  <1> QED
    BY <1>1, <1>2, Types, PTL DEF Spec

\* Exactly one way to settle a promise is open while it is pending, none once
\* it has settled.
THEOREM OneWaySettles == Spec => []OneWayToSettle
  <1>1. AInv /\ WaysInv => OneWayToSettle
    <2>1. SUFFICES ASSUME AInv, WaysInv, NoJobLost, NEW p \in 1 .. born
                   PROVE  WaysToSettle(p) = IF state[p] = "pending" THEN 1 ELSE 0
      BY DEF OneWayToSettle
    <2>2. Kept /\ p \in Promise
      BY <2>1, LostNone, BornType DEF AInv
    <2>3. Ways(p) /\ OneWay(p)
      BY <2>1, <2>2 DEF WaysInv, Ways
    <2>4. WaysToSettle(p) = Cardinality(PairWays(p)) + Cardinality(JobWays(p)) + Cardinality(BodyWays(p))
      BY DEF WaysToSettle, PairWays, JobWays, BodyWays
    <2>5. CASE \E k : PairWay(k, p)
      <3>1. state[p] = "pending" /\ (\A x : ~JobWay(x, p)) /\ (\A f : ~BodyWay(f, p))
        BY <2>3, <2>5 DEF OneWay
      <3> QED
        BY <2>1, <2>2, <2>3, <2>4, <2>5, <3>1, WaysCount
    <2>6. CASE \E x : JobWay(x, p)
      <3>1. state[p] = "pending" /\ (\A k : ~PairWay(k, p)) /\ (\A f : ~BodyWay(f, p))
        BY <2>3, <2>6 DEF OneWay
      <3> QED
        BY <2>1, <2>2, <2>3, <2>4, <2>6, <3>1, WaysCount
    <2>7. CASE \E f : BodyWay(f, p)
      <3>1. state[p] = "pending" /\ (\A k : ~PairWay(k, p)) /\ (\A x : ~JobWay(x, p))
        BY <2>3, <2>7 DEF OneWay
      <3> QED
        BY <2>1, <2>2, <2>3, <2>4, <2>7, <3>1, WaysCount
    <2>8. CASE (\A k : ~PairWay(k, p)) /\ (\A x : ~JobWay(x, p)) /\ (\A f : ~BodyWay(f, p))
      <3>1. state[p] # "pending"
        BY <2>2, <2>3, <2>8 DEF Ways, SomeWay
      <3> QED
        BY <2>1, <2>2, <2>3, <2>4, <2>8, <3>1, WaysCount
    <2> QED
      BY <2>5, <2>6, <2>7, <2>8
  <1> QED
    BY <1>1, Types, WaysAlways, PTL

-----------------------------------------------------------------------------
(* Without Symbol.species nothing is lost.                                 *)

\* No capability stands for functions of the script's.
NativeInv ==
  /\ Kept
  /\ \A p \in Promise, i \in Nat, r \in Registrations : Listed(p, i, r) => r.cap # Throwing
  /\ \A x \in Jobs : x.job.type = "reaction" => x.job.cap # Throwing
  /\ running.kind = "handler" => running.of # Throwing

NativeJobs(new) == \A x \in new : x.job.type = "reaction" => x.job.cap # Throwing

\* What leaves is what is started.
LEMMA KeptStep ==
  ASSUME AInv, Kept, NEW gone, NEW new, Moved(gone, new),
         started' = started \cup {x.seq : x \in gone}
  PROVE  Kept'
  <1>1. /\ enqueued \in Nat /\ enqueued' \in Nat /\ enqueued <= enqueued'
        /\ \A x \in new : x.seq \in enqueued + 1 .. enqueued'
        /\ \A n \in enqueued + 1 .. enqueued' : \E x \in new : x.seq = n
        /\ gone \subseteq Jobs /\ Jobs' = (Jobs \ gone) \cup new
        /\ started \subseteq 1 .. enqueued
        /\ \A x \in Jobs : x.seq \in 1 .. enqueued
    BY DEF AInv, TypeInv, QueueTypes, QueueInv, Moved, Fresh
  <1>2. \A n \in 1 .. enqueued : n \in started \/ \E x \in Jobs : x.seq = n
    <2>1. {x.seq : x \in Jobs} \cup started = 1 .. enqueued
      BY DEF Kept
    <2> QED
      BY <2>1
  <1>3. \A n \in 1 .. enqueued' : n \in started' \/ \E x \in Jobs' : x.seq = n
    <2>1. ASSUME NEW n \in 1 .. enqueued
          PROVE  n \in started' \/ \E x \in Jobs' : x.seq = n
      BY <1>1, <1>2
    <2>2. ASSUME NEW n \in enqueued + 1 .. enqueued'
          PROVE  n \in started' \/ \E x \in Jobs' : x.seq = n
      BY <1>1
    <2> QED
      BY <1>1, <2>1, <2>2
  <1>4. ASSUME NEW x \in Jobs' PROVE x.seq \in 1 .. enqueued'
    BY <1>1
  <1>5. started' \subseteq 1 .. enqueued'
    <2>1. ASSUME NEW x \in gone PROVE x.seq \in 1 .. enqueued
      BY <1>1
    <2>2. started' \subseteq 1 .. enqueued
      BY <1>1, <2>1
    <2>3. 1 .. enqueued \subseteq 1 .. enqueued'
      BY <1>1
    <2> QED
      BY <2>2, <2>3
  <1>6. {x.seq : x \in Jobs'} \cup started' = 1 .. enqueued'
    BY <1>3, <1>4, <1>5
  <1> QED
    BY <1>6 DEF Kept

\* A step that adds nothing of a throwing capability, and starts what leaves,
\* keeps NativeInv.
LEMMA NativeKept ==
  ASSUME AInv, NativeInv, NEW gone, NEW new, Moved(gone, new), NativeJobs(new),
         \/ gone = {} /\ started' = started
         \/ \E h : gone = {h} /\ started' = started \cup {h.seq},
         \A p \in Promise, i \in Nat, r \in Registrations :
            Listed(p, i, r)' => Listed(p, i, r) \/ r.cap # Throwing,
         running'.kind = "handler" => running'.of # Throwing
  PROVE  NativeInv'
  <1>1. started' = started \cup {x.seq : x \in gone}
    OBVIOUS
  <1>2. Kept'
    BY <1>1, KeptStep DEF NativeInv
  <1>3. \A x \in Jobs' : x.job.type = "reaction" => x.job.cap # Throwing
    BY DEF Moved, NativeInv, NativeJobs
  <1> QED
    BY <1>2, <1>3 DEF NativeInv

\* Settling adds nothing of a throwing capability ...
LEMMA SettlesNative ==
  ASSUME AInv, NativeInv, NEW p \in Promise, NEW outcome, NEW v, NEW new,
         Settles(p, outcome, v, new)
  PROVE  /\ NativeJobs(new)
         /\ \A q \in Promise, i \in Nat, r \in Registrations : Listed(q, i, r)' => Listed(q, i, r)
  <1>1. \A q \in Promise, i \in Nat, r \in Registrations : Listed(q, i, r)' => Listed(q, i, r)
    BY SettlesLists DEF AInv
  <1>2. ASSUME NEW x \in new PROVE x.job.cap # Throwing
    <2>1. PICK i \in Nat, r \in Registrations :
             /\ Listed(p, i, r)
             /\ x = [job |-> ReactionJob(p, r, outcome = "fulfilled", v), seq |-> enqueued + i]
      BY SettlesLists DEF AInv
    <2>2. x.job.cap = r.cap
      BY <2>1 DEF ReactionJob
    <2> QED
      BY <2>1, <2>2 DEF NativeInv
  <1> QED
    BY <1>1, <1>2 DEF NativeJobs

\* ... nor does resolving ...
LEMMA ResolvesNative ==
  ASSUME AInv, NativeInv, NEW p \in Promise, NEW v, NEW new, Resolves(p, v, new)
  PROVE  /\ NativeJobs(new)
         /\ \A q \in Promise, i \in Nat, r \in Registrations : Listed(q, i, r)' => Listed(q, i, r)
  <1>1. CASE UNCHANGED slots /\ new = {[job |-> ThenableJob(p, v), seq |-> enqueued + 1]}
    <2>1. NativeJobs(new)
      BY <1>1 DEF NativeJobs, ThenableJob
    <2> QED
      BY <1>1, <2>1, ListsUnchanged DEF slots
  <1> QED
    BY <1>1, SettlesNative DEF Resolves

\* ... nor does a call of a resolving function ...
LEMMA CallsNative ==
  ASSUME AInv, NativeInv, NEW k \in DOMAIN target, NEW how, NEW v, NEW new, Calls(k, how, v, new)
  PROVE  /\ NativeJobs(new)
         /\ \A q \in Promise, i \in Nat, r \in Registrations : Listed(q, i, r)' => Listed(q, i, r)
  <1>1. target[k] \in Promise
    BY DEF AInv, TypeInv, ObjectTypes
  <1>2. CASE UNCHANGED slots /\ new = {}
    BY <1>2, ListsUnchanged DEF slots, NativeJobs
  <1> QED
    BY <1>1, <1>2, SettlesNative, ResolvesNative DEF Calls

\* ... so that the end of user code that settles a capability keeps NativeInv
\* ...
LEMMA SettlingNative ==
  ASSUME AInv, NativeInv, NEW k, Settling(k), started' = started,
         running'.kind = "handler" => running'.of # Throwing
  PROVE  NativeInv'
  <1>1. CASE UNCHANGED slots /\ Moved({}, {})
    <2>1. NativeJobs({})
      BY DEF NativeJobs
    <2> QED
      BY <1>1, <2>1, NativeKept, ListsUnchanged DEF slots
  <1>2. CASE Calling(k)
    <2>1. PICK how, v, new : k \in DOMAIN target /\ Calls(k, how, v, new) /\ Moved({}, new)
      BY <1>2 DEF Calling
    <2> QED
      BY <2>1, CallsNative, NativeKept
  <1> QED
    BY <1>1, <1>2 DEF Settling

\* ... nor does a registration whose capability is native.
LEMMA AddsNative ==
  ASSUME AInv, NEW g \in Registrations, NEW new, Adds(g, new), g.cap # Throwing
  PROVE  /\ NativeJobs(new)
         /\ \A q \in Promise, i \in Nat, r \in Registrations :
              Listed(q, i, r)' => Listed(q, i, r) \/ r.cap # Throwing
  <1>1. ASSUME NEW p, NEW fulfil, NEW a, UNCHANGED reactions,
               new = {[job |-> ReactionJob(p, g, fulfil, a), seq |-> enqueued + 1]}
        PROVE  NativeJobs(new)
    BY <1>1 DEF NativeJobs, ReactionJob
  <1>2. NativeJobs({})
    BY DEF NativeJobs
  <1> QED
    BY <1>1, <1>2, ListsUnchanged DEF Adds

\* A reaction job without a throwing capability keeps NativeInv ...
LEMMA NativeReaction ==
  ASSUME AInv, NativeInv, NEW h, ReactionStep(h), Idle
  PROVE  NativeInv'
  <1> USE DEF AInv
  <1>1. started' = started \cup {h.seq} /\ h \in Jobs /\ h.job.type = "reaction" /\ NativeJobs({})
    BY DEF ReactionStep, ReactionJobs, NativeJobs
  <1>2. ~Fails(h) /\ h.job.cap # Throwing
    BY <1>1 DEF Fails, NativeInv
  <1>3. running.kind # "handler"
    BY DEF Idle, NoCode, Code
  <1>4. CASE Begins(h)
    <2>1. UNCHANGED slots /\ Moved({h}, {})
      BY <1>4 DEF Begins
    <2>2. running'.kind = "handler" => running'.of # Throwing
      BY <1>2, <1>3, <1>4 DEF Begins, Code
    <2> QED
      BY <1>1, <2>1, <2>2, NativeKept, ListsUnchanged DEF slots
  <1>5. ASSUME NEW k, NEW new, Answers(h, k, new) PROVE NativeInv'
    <2>1. Moved({h}, new) /\ k \in DOMAIN target /\ (\E how : Calls(k, how, h.job.arg, new))
          /\ running'.kind # "handler"
      BY <1>3, <1>5 DEF Answers
    <2> QED
      BY <1>1, <2>1, CallsNative, NativeKept
  <1> QED
    BY <1>2, <1>4, <1>5 DEF ReactionStep

\* ... and, without Symbol.species, so does every step.
LEMMA NativeNext ==
  ASSUME "species" \notin Features, AInv, NativeInv, Next
  PROVE  NativeInv'
  <1> USE DEF AInv
  <1>1. NativeJobs({}) /\ NoCode.kind # "handler"
    BY DEF NativeJobs, NoCode, Code
  <1>2. CASE New \/ dynamic_import
    <2>1. UNCHANGED <<reactions, started, running>>
      BY <1>2 DEF New, dynamic_import, NewPromise
    <2>2. Moved({}, {}) \/ \E k \in Pair : Moved({}, {ImportedJob(k)})
      BY <1>2, NewMoves, ImportMoves DEF NewStep
    <2>3. CASE Moved({}, {})
      BY <1>1, <2>1, <2>3, NativeKept, ListsUnchanged DEF NativeInv
    <2>4. ASSUME NEW k \in Pair, Moved({}, {ImportedJob(k)}) PROVE NativeInv'
      <3>1. PICK s : s = {ImportedJob(k)}
        OBVIOUS
      <3>2. NativeJobs(s)
        BY <3>1 DEF NativeJobs, ImportedJob, ImportJob
      <3> QED
        BY <2>1, <2>4, <3>1, <3>2, NativeKept, ListsUnchanged DEF NativeInv
    <2> QED
      BY <2>2, <2>3, <2>4
  <1>3. CASE CallResolving
    <2>1. UNCHANGED <<started, running>>
      BY <1>3 DEF CallResolving
    <2> QED
      BY <1>3, <2>1, CallResolvingMoves, SettlingNative DEF Settling, NativeInv
  <1>4. CASE Then
    <2>1. PICK p, h, g, new :
              /\ p \in Promise /\ h \in {NoHandler, UserHandler} /\ g \in {NoHandler, UserHandler}
              /\ Moved({}, new)
              /\ \E q \in Promise, k \in Pair : ThenNative(p, q, k, h, g, new)
      BY <1>4, ThenMoves DEF ThenSpecies
    <2>2. UNCHANGED <<started, running>>
      BY <1>4 DEF Then
    <2>3. h \in Handlers /\ g \in Handlers /\ Pair \subseteq Caps
      BY <2>1 DEF NoHandler, UserHandler, Handler, Handlers, Caps
    <2>4. PICK k \in Pair : Registers(p, h, g, k, new)
      BY <2>1 DEF ThenNative
    <2>5. \E r \in Registrations : r = Registration(h, g, k) /\ Adds(r, new)
      BY <2>1, <2>3, <2>4, RegistersAdds
    <2>6. PICK r \in Registrations : Adds(r, new) /\ r.cap # Throwing
      BY <2>5, PromiseAssumption DEF Registration
    <2> QED
      BY <2>1, <2>2, <2>6, AddsNative, NativeKept DEF NativeInv
  <1>5. CASE CallAsync \/ AwaitAgain
    <2>1. started' = started /\ (running' = running \/ running' = NoCode)
      BY <1>5 DEF CallAsync, AwaitAgain
    <2>2. PICK f, v, new : f \in AsyncFunctions /\ Awaits(f, v, new) /\ Moved({}, new)
      BY <1>5, CallAsyncMoves, AwaitAgainMoves, BodyRuns DEF CallAsyncStep, AwaitAgain
    <2>3. \E r \in Registrations :
             r = Registration(Handler("resume", f), Handler("resume", f), NoPair) /\ Adds(r, new)
      BY <2>2, AwaitsAdds
    <2>4. PICK r \in Registrations : Adds(r, new) /\ r.cap # Throwing
      BY <2>3, PromiseAssumption DEF Registration
    <2> QED
      BY <1>1, <2>1, <2>2, <2>4, AddsNative, NativeKept DEF NativeInv
  <1>6. CASE HandlerEnds \/ ThenMethodEnds \/ ModuleEnds \/ SettleImport
    <2>1. started' = started /\ (running' = running \/ running' = NoCode)
      BY <1>6 DEF HandlerEnds, ThenMethodEnds, ModuleEnds, SettleImport
    <2>2. running'.kind = "handler" => running'.of # Throwing
      BY <1>1, <2>1 DEF NativeInv
    <2>3. CASE \E k : Settling(k)
      BY <2>1, <2>2, <2>3, SettlingNative
    <2>4. CASE UNCHANGED slots /\ Moved({}, {})
      BY <1>1, <2>1, <2>2, <2>4, NativeKept, ListsUnchanged DEF slots
    <2>5. HandlerEnds => running.of # Throwing
      BY DEF HandlerEnds, NativeInv
    <2> QED
      BY <1>6, <2>3, <2>4, <2>5, HandlerEndsMoves, ThenMethodEndsMoves, ModuleEndsMoves,
         SettleImportMoves DEF Settling
  <1>7. CASE ScriptEnds \/ TakeBatch \/ EndNestedDrain \/ DrainEnds \/ run_jobs
    <2>1. UNCHANGED <<slots, started>> /\ Moved({}, {}) /\ (running' = running \/ running' = NoCode)
      BY <1>7, TakeBatchMoves, OtherMoves
         DEF ScriptEnds, TakeBatch, EndNestedDrain, DrainEnds, run_jobs
    <2> QED
      BY <1>1, <2>1, NativeKept, ListsUnchanged DEF slots, NativeInv
  <1>8. CASE BodyEnds
    <2> DEFINE p == promise_of[running.of]
    <2>1. PICK v, new :
             /\ v \in Values
             /\ Moved({}, new)
             /\ \/ Resolves(p, v, new)
                \/ Settles(p, "rejected", v, new) /\ UNCHANGED adopts
      BY <1>8, BodyEndsMoves
    <2>2. p \in Promise /\ started' = started /\ running' = NoCode
      BY <1>8, BodyRuns DEF BodyEnds
    <2> HIDE DEF p
    <2> QED
      BY <1>1, <2>1, <2>2, ResolvesNative, SettlesNative, NativeKept
  <1>9. CASE RunReaction
    BY <1>9, ReactionMoves, NativeReaction
  <1>10. CASE RunThenable
    <2>1. PICK h : h = Head(Rest)
      OBVIOUS
    <2>2. PICK k, new : ThenableStep(h, k, new)
      BY <1>10, <2>1, ThenableMoves
    <2>3. started' = started \cup {h.seq} /\ Idle
      BY <1>10, <2>1, ThenableMoves
    <2>4. Moved({h}, new) /\ running'.kind # "handler"
      BY <2>2, <2>3 DEF ThenableStep, Idle, NoCode, Code
    <2>5. CASE /\ h.job.thenable \in Promise
               /\ Registers(h.job.thenable, Handler("settle", k), Handler("settle", k), NoPair, new)
      <3>1. Handler("settle", k) \in Handlers /\ NoPair \in Caps
        BY <2>2 DEF ThenableStep, Handler, Handlers, Caps
      <3>2. \E r \in Registrations :
               r = Registration(Handler("settle", k), Handler("settle", k), NoPair) /\ Adds(r, new)
        BY <2>5, <3>1, RegistersAdds
      <3>3. PICK r \in Registrations : Adds(r, new) /\ r.cap # Throwing
        BY <3>2, PromiseAssumption DEF Registration
      <3> QED
        BY <2>3, <2>4, <3>3, AddsNative, NativeKept
    <2>6. CASE UNCHANGED reactions /\ new = {}
      BY <1>1, <2>3, <2>4, <2>6, NativeKept, ListsUnchanged
    <2> QED
      BY <2>2, <2>5, <2>6 DEF ThenableStep
  <1>11. CASE RunImport
    <2>1. PICK h \in Jobs :
              /\ h.job.cap \in DOMAIN target
              /\ started' = started \cup {h.seq}
              /\ running' = running \/ running' = Code("module", h.job.cap)
              /\ \/ \E new : Calls(h.job.cap, "reject", Failure, new) /\ Moved({h}, new)
                 \/ UNCHANGED slots /\ Moved({h}, {})
      BY <1>11, RunImportMoves
    <2>2. running'.kind = "handler" => running'.of # Throwing
      BY <2>1 DEF Code, NativeInv
    <2>3. CASE UNCHANGED slots /\ Moved({h}, {})
      BY <1>1, <2>1, <2>2, <2>3, NativeKept, ListsUnchanged DEF slots
    <2>4. CASE \E new : Calls(h.job.cap, "reject", Failure, new) /\ Moved({h}, new)
      BY <2>1, <2>2, <2>4, CallsNative, NativeKept
    <2> QED
      BY <2>1, <2>3, <2>4
  <1> QED
    BY <1>2, <1>3, <1>4, <1>5, <1>6, <1>7, <1>8, <1>9, <1>10, <1>11
       DEF Next, UserCall, Complete, Engine

\* That what was enqueued waits or was started, as sets, counts as NoJobLost
\* counts it.
LEMMA KeptNotLost ==
  ASSUME AInv, Kept
  PROVE  NoJobLost
  <1> DEFINE n == Len(Waiting)
             S == {Waiting[i].seq : i \in DOMAIN Waiting}
             f == [i \in 1 .. n |-> Waiting[i].seq]
  <1>1. /\ Waiting \in Seq(Queued) /\ Rng(Waiting) = Jobs /\ NoRepeat(Waiting)
        /\ n \in Nat /\ DOMAIN Waiting = 1 .. n
    BY WaitingFacts, LenProperties DEF AInv
  <1>2. S = {x.seq : x \in Jobs}
    BY <1>1 DEF Rng
  <1>3. S \cup started = 1 .. enqueued /\ S \cap started = {}
    BY <1>2 DEF Kept, AInv, QueueInv
  <1>4. Cardinality(S) = n
    <2>1. f \in Bijection(1 .. n, S)
      <3>1. f \in [1 .. n -> S]
        BY <1>1
      <3>2. \A i, j \in 1 .. n : f[i] = f[j] => i = j
        BY <1>1 DEF NoRepeat
      <3>3. \A s \in S : \E i \in 1 .. n : f[i] = s
        BY <1>1
      <3> HIDE DEF f, S, n
      <3> QED
        BY <3>1, <3>2, <3>3 DEF Bijection, Injection, IsInjective, Surjection
    <2> HIDE DEF f, S, n
    <2>2. ExistsBijection(1 .. n, S)
      BY <2>1 DEF ExistsBijection
    <2> QED
      BY <1>1, <2>2, FS_CountingElements
  <1> HIDE DEF S
  <1>5. IsFiniteSet(1 .. enqueued) /\ Cardinality(1 .. enqueued) = enqueued /\ enqueued \in Nat
    BY FS_Interval DEF AInv, TypeInv, QueueTypes
  <1>6. IsFiniteSet(S) /\ IsFiniteSet(started)
    BY <1>3, <1>5, FS_Subset
  <1>7. Cardinality(S \cup started) = Cardinality(S) + Cardinality(started) - Cardinality({})
    BY <1>3, <1>6, FS_Union
  <1>8. Cardinality({}) = 0 /\ Cardinality(started) \in Nat /\ Cardinality(S) \in Nat
    BY <1>6, FS_EmptySet, FS_CardinalityType
  <1>9. Cardinality(S \cup started) = enqueued
    BY <1>3, <1>5
  <1>10. n + Cardinality(started) = enqueued
    <2> HIDE DEF n
    <2> QED
      BY <1>4, <1>5, <1>7, <1>8, <1>9
  <1> QED
    BY <1>3, <1>10 DEF NoJobLost, S

\* Without Symbol.species no drain ever fails, and every job ever enqueued is
\* waiting, once, or has been started.
THEOREM NothingLost == ASSUME "species" \notin Features PROVE Spec => []NoJobLost
  <1>1. Init => NativeInv
    <2>1. SUFFICES ASSUME Init PROVE NativeInv
      OBVIOUS
    <2>2. Jobs = {} /\ \A p \in Promise : \A i, r : ~Listed(p, i, r)
      BY <2>1, RngEmpty DEF Init, Jobs, Listed
    <2> QED
      BY <2>1, <2>2 DEF Init, NativeInv, Kept, Code
  <1>2. AInv /\ NativeInv /\ [Next]_vars => NativeInv'
    <2>1. ASSUME AInv, NativeInv, UNCHANGED vars PROVE NativeInv'
      <3>1. Jobs' = Jobs /\ Kept' = Kept /\ running' = running
        BY <2>1 DEF vars, drain, Jobs, Rng, Kept
      <3>2. \A p, i, r : Listed(p, i, r)' <=> Listed(p, i, r)
        BY <2>1 DEF vars, slots, Listed
      <3> QED
        BY <2>1, <3>1, <3>2 DEF NativeInv
    <2> QED
      BY <2>1, NativeNext
  <1>3. AInv /\ NativeInv => NoJobLost
    BY KeptNotLost DEF NativeInv
  <1> QED
    BY <1>1, <1>2, <1>3, Types, PTL DEF Spec

-----------------------------------------------------------------------------
(* Adoption.                                                               *)

\* The registration at place i of q settles the promise of k, when q settles.
SettleAt(k, q, i) ==
  \E r \in Registrations : Listed(q, i, r) /\ r.on_fulfilled = Handler("settle", k)

\* The job x does.
SettleDue(k, x) ==
  x \in Jobs /\ x.job.type = "reaction" /\ x.job.handler = Handler("settle", k)

\* The promise whose outcome will reach the pair k.
Source(k, q) ==
  \/ q \in Promise /\ \E i \in Nat : SettleAt(k, q, i)
  \/ \E x : SettleDue(k, x) /\ x.job.source = q

\* k is the capability of a registration or of a job ...
Mentioned(k) ==
  \/ \E p \in Promise, i \in Nat, r \in Registrations : Listed(p, i, r) /\ r.cap = k
  \/ \E x \in Jobs : x.job.type # "thenable" /\ x.job.cap = k

\* ... or in the hands of the code that runs.
Handed(k) ==
  \/ k \in held \/ importing = k
  \/ running.kind \in {"handler", "then", "module"} /\ running.of = k

InUse(k) == Mentioned(k) \/ Handed(k)

Adopted(x) == IF x.job.thenable \in Promise THEN x.job.thenable ELSE Nobody

\* What p was resolved with is where its only way comes from; a way that comes
\* from elsewhere is that of a promise that was not resolved with another.
Adoption(p) ==
  /\ \A k : PairWay(k, p) => /\ \A q : Source(k, q) => adopts[p] = q
                             /\ InUse(k) => adopts[p] = Nobody
                             /\ Kept /\ adopts[p] # Nobody => \E q : Source(k, q)
  /\ \A x : JobWay(x, p) => adopts[p] = Adopted(x)
  /\ \A f : BodyWay(f, p) => adopts[p] = Nobody
  /\ state[p] = "unborn" => adopts[p] = Nobody
  /\ state[p] \in {"fulfilled", "rejected"} /\ adopts[p] # Nobody =>
       state[adopts[p]] = state[p] /\ result[adopts[p]] = result[p]

\* A registration settles the same promise whatever the outcome.
Both(r) ==
  \A k : r.on_rejected = Handler("settle", k) <=> r.on_fulfilled = Handler("settle", k)

AllBoth == \A p \in Promise, i \in Nat, r \in Registrations : Listed(p, i, r) => Both(r)

AdoptInv == AllBoth /\ \A p \in Promise : Adoption(p)

\* What a step in which the jobs in gone leave does to the sources of k ...
Steady(k, gone) ==
  /\ \A q : Source(k, q)' => Source(k, q)
  /\ (\A x \in gone : ~SettleDue(k, x)) => \A q : Source(k, q) => Source(k, q)'

\* ... to the capabilities that are mentioned, of which c may be new ...
NoMention(c) == \A k : Mentioned(k)' => Mentioned(k) \/ k = c

\* ... and to what has settled.
SettledStays ==
  \A p \in Promise : state[p] \in {"fulfilled", "rejected"} =>
    state'[p] = state[p] /\ result'[p] = result[p]

\* What a pair that was not yet made is not.
LEMMA NotYetUsed ==
  ASSUME AInv, NEW k \in Pair, k \notin DOMAIN target
  PROVE  ~InUse(k) /\ \A q : ~Source(k, q)
  <1> USE DEF AInv
  <1>1. k \notin Made
    BY PromiseAssumption DEF Made
  <1>2. ~Mentioned(k)
    <2>1. \A p \in Promise, i \in Nat, r \in Registrations : Listed(p, i, r) => r.cap # k
      BY <1>1 DEF Known, KnownLists, KnownRegistration
    <2>2. \A x \in Jobs : x.job.type # "thenable" => x.job.cap # k
      <3>1. \A x \in Jobs : x.job.type \in {"reaction", "thenable", "import"}
        BY JobsType DEF Queued, AllJobs, ReactionJobs, ThenableJobs, ImportJobs
      <3> QED
        BY <1>1, <3>1 DEF Known, KnownLists, KnownJob, Made
    <2> QED
      BY <2>1, <2>2 DEF Mentioned
  <1>3. ~Handed(k)
    BY <1>1 DEF Handed, Known, KnownCode, TypeInv, ObjectTypes
  <1>4. \A q, i : q \in Promise /\ i \in Nat => ~SettleAt(k, q, i)
    <2>1. \A p \in Promise, i \in Nat, r \in Registrations :
            Listed(p, i, r) => r.on_fulfilled # Handler("settle", k)
      BY DEF Known, KnownLists, KnownRegistration, Handler
    <2> QED
      BY <2>1 DEF SettleAt
  <1>5. \A x : ~SettleDue(k, x)
    BY DEF SettleDue, Known, KnownLists, KnownJob, Handler
  <1> QED
    BY <1>2, <1>3, <1>4, <1>5 DEF InUse, Source

\* Sources, when no registration comes or goes ...
LEMMA QuietSource ==
  ASSUME AInv, NEW gone, NEW new, Moved(gone, new), reactions' = reactions, NEW k,
         \A x \in new : x.job.type = "reaction" => x.job.handler # Handler("settle", k)
  PROVE  Steady(k, gone)
  <1>1. \A q, i : SettleAt(k, q, i)' <=> SettleAt(k, q, i)
    BY DEF SettleAt, Listed
  <1>2. \A x : SettleDue(k, x)' <=> SettleDue(k, x) /\ x \notin gone
    BY DEF SettleDue, Moved
  <1> QED
    BY <1>1, <1>2 DEF Steady, Source

\* ... when p settles, and its registrations become jobs ...
LEMMA SettlesSource ==
  ASSUME AInv, AllBoth, NEW p \in Promise, NEW outcome, NEW v, NEW gone, NEW new,
         Settles(p, outcome, v, new), Moved(gone, new), NEW k
  PROVE  Steady(k, gone)
  <1> USE DEF AInv
  <1>1. CASE state[p] # "pending"
    <2>1. reactions' = reactions /\ new = {}
      BY <1>1 DEF Settles, slots
    <2> QED
      BY <2>1, QuietSource
  <1>2. CASE state[p] = "pending"
    <2>1. \A q \in Promise : \A i, r : Listed(q, i, r)' <=> Listed(q, i, r) /\ q # p
      BY <1>2, SettlesLists
    <2>2. \A x : x \in new <=> \E i \in Nat, r \in Registrations :
                   /\ Listed(p, i, r)
                   /\ x = [job |-> ReactionJob(p, r, outcome = "fulfilled", v), seq |-> enqueued + i]
      BY <1>2, SettlesLists
    <2>3. ASSUME NEW i \in Nat, NEW r \in Registrations, Listed(p, i, r), NEW x,
                 x = [job |-> ReactionJob(p, r, outcome = "fulfilled", v), seq |-> enqueued + i]
          PROVE  /\ x.job.handler = Handler("settle", k) <=> r.on_fulfilled = Handler("settle", k)
                 /\ x.job.type = "reaction" /\ x.job.source = p
      <3>1. x.job.handler = r.on_fulfilled \/ x.job.handler = r.on_rejected
        BY <2>3 DEF ReactionJob, Half
      <3>2. r.on_rejected = Handler("settle", k) <=> r.on_fulfilled = Handler("settle", k)
        BY <2>3 DEF AllBoth, Both
      <3>3. x.job.type = "reaction" /\ x.job.source = p
        BY <2>3 DEF ReactionJob
      <3> QED
        BY <3>1, <3>2, <3>3
    <2>4. \A q \in Promise, i \in Nat : SettleAt(k, q, i)' <=> SettleAt(k, q, i) /\ q # p
      BY <2>1 DEF SettleAt
    <2>5. \A x : SettleDue(k, x)' <=>
            (SettleDue(k, x) /\ x \notin gone) \/ (x \in new /\ x.job.type = "reaction" /\ x.job.handler = Handler("settle", k))
      BY DEF SettleDue, Moved
    <2>6. \A x \in new : x.job.handler = Handler("settle", k) =>
             x.job.source = p /\ \E i \in Nat : SettleAt(k, p, i)
      BY <2>2, <2>3 DEF SettleAt
    <2>7. ASSUME NEW i \in Nat, SettleAt(k, p, i) PROVE \E x : SettleDue(k, x)' /\ x.job.source = p
      <3>1. PICK r \in Registrations : Listed(p, i, r) /\ r.on_fulfilled = Handler("settle", k)
        BY <2>7 DEF SettleAt
      <3>2. PICK x : x = [job |-> ReactionJob(p, r, outcome = "fulfilled", v), seq |-> enqueued + i]
        OBVIOUS
      <3>3. x \in new
        BY <2>2, <3>1, <3>2
      <3>4. x.job.handler = Handler("settle", k) /\ x.job.type = "reaction" /\ x.job.source = p
        BY <2>3, <3>1, <3>2
      <3> QED
        BY <2>5, <3>3, <3>4
    <2>8. \A q : Source(k, q)' => Source(k, q)
      BY <2>4, <2>5, <2>6 DEF Source
    <2>9. (\A x \in gone : ~SettleDue(k, x)) => \A q : Source(k, q) => Source(k, q)'
      BY <2>4, <2>5, <2>7 DEF Source
    <2> QED
      BY <2>8, <2>9 DEF Steady
  <1> QED
    BY <1>1, <1>2

\* ... and when one is added that settles nothing of k's.
LEMMA AddsSource ==
  ASSUME AInv, NEW g \in Registrations, NEW gone, NEW new, Adds(g, new), Moved(gone, new), NEW k,
         Both(g), g.on_fulfilled # Handler("settle", k)
  PROVE  Steady(k, gone)
  <1>1. g.on_rejected # Handler("settle", k)
    BY DEF Both
  <1>2. ASSUME NEW p, NEW fulfil, NEW a, UNCHANGED reactions,
               new = {[job |-> ReactionJob(p, g, fulfil, a), seq |-> enqueued + 1]}
        PROVE  Steady(k, gone)
    BY <1>1, <1>2, QuietSource DEF ReactionJob, Half
  <1>3. ASSUME new = {}, NEW p \in Promise, NEW n \in Nat,
               \A q \in Promise : \A i, r : Listed(q, i, r)' <=> Listed(q, i, r) \/ (q = p /\ i = n /\ r = g)
        PROVE  Steady(k, gone)
    <2>1. \A q \in Promise, i \in Nat : SettleAt(k, q, i)' <=> SettleAt(k, q, i)
      BY <1>3 DEF SettleAt
    <2>2. \A x : SettleDue(k, x)' <=> SettleDue(k, x) /\ x \notin gone
      BY <1>3 DEF SettleDue, Moved
    <2> QED
      BY <2>1, <2>2 DEF Steady, Source
  <1> QED
    BY <1>2, <1>3 DEF Adds

\* Capabilities, when no registration comes or goes ...
LEMMA QuietMentions ==
  ASSUME AInv, NEW gone, NEW new, Moved(gone, new), reactions' = reactions, NEW c,
         \A x \in new : x.job.type # "thenable" => x.job.cap = c
  PROVE  NoMention(c)
  BY DEF NoMention, Mentioned, Moved, Listed

\* ... when p settles ...
LEMMA SettlesMentions ==
  ASSUME AInv, NEW p \in Promise, NEW outcome, NEW v, NEW gone, NEW new,
         Settles(p, outcome, v, new), Moved(gone, new)
  PROVE  NoMention(NoPair)
  <1>1. \A q \in Promise : \A i, r : Listed(q, i, r)' => Listed(q, i, r)
    BY SettlesLists DEF AInv
  <1>2. ASSUME NEW x \in new
        PROVE  \E i \in Nat, r \in Registrations : Listed(p, i, r) /\ x.job.cap = r.cap
    <2>1. PICK i \in Nat, r \in Registrations :
             /\ Listed(p, i, r)
             /\ x = [job |-> ReactionJob(p, r, outcome = "fulfilled", v), seq |-> enqueued + i]
      BY SettlesLists DEF AInv
    <2> QED
      BY <2>1 DEF ReactionJob
  <1> QED
    BY <1>1, <1>2 DEF NoMention, Mentioned, Moved

\* ... and when g is added.
LEMMA AddsMentions ==
  ASSUME AInv, NEW g \in Registrations, NEW gone, NEW new, Adds(g, new), Moved(gone, new)
  PROVE  NoMention(g.cap)
  <1>1. ASSUME NEW p, NEW fulfil, NEW a, UNCHANGED reactions,
               new = {[job |-> ReactionJob(p, g, fulfil, a), seq |-> enqueued + 1]}
        PROVE  NoMention(g.cap)
    BY <1>1, QuietMentions DEF ReactionJob
  <1>2. ASSUME new = {}, NEW p \in Promise, NEW n \in Nat,
               \A q \in Promise : \A i, r : Listed(q, i, r)' <=> Listed(q, i, r) \/ (q = p /\ i = n /\ r = g)
        PROVE  NoMention(g.cap)
    BY <1>2 DEF NoMention, Mentioned, Moved
  <1> QED
    BY <1>1, <1>2 DEF Adds

\* A registration with the same handler in both halves keeps AllBoth ...
LEMMA AddsBoth ==
  ASSUME AInv, AllBoth, NEW g \in Registrations, NEW new, Adds(g, new), Both(g)
  PROVE  AllBoth'
  <1>1. \A q \in Promise : \A i, r : Listed(q, i, r)' => Listed(q, i, r) \/ r = g
    BY ListsUnchanged DEF Adds
  <1>2. \A r : Both(r)' <=> Both(r)
    BY DEF Both
  <1> QED
    BY <1>1, <1>2 DEF AllBoth

\* ... and so does a step that makes none.
LEMMA FewerBoth ==
  ASSUME AllBoth, \A q \in Promise, i \in Nat, r \in Registrations : Listed(q, i, r)' => Listed(q, i, r)
  PROVE  AllBoth'
  BY DEF AllBoth, Both

\* A pair that is a way to settle is a pair.
LEMMA PairWayPair ==
  ASSUME AInv
  PROVE  \A k, p : PairWay(k, p) => k \in Pair /\ k # NoPair /\ k # Throwing
  <1>1. DOMAIN target \subseteq Pair
    BY PromiseAssumption DEF AInv, TypeInv, ObjectTypes, Pair
  <1> QED
    BY <1>1, PromiseAssumption DEF PairWay

\* p is left alone.
LEMMA AdoptionKept ==
  ASSUME AInv, NEW p \in Promise, Adoption(p), NEW gone, Kept' => Kept, SettledStays,
         adopts'[p] = adopts[p], state'[p] = state[p], result'[p] = result[p],
         \A k : PairWay(k, p)' =>
           /\ PairWay(k, p) /\ Steady(k, gone) /\ (InUse(k)' => InUse(k))
           /\ Kept' => \A x \in gone : ~SettleDue(k, x),
         \A x : JobWay(x, p)' => JobWay(x, p),
         \A f : BodyWay(f, p)' => BodyWay(f, p)
  PROVE  Adoption(p)'
  <1> USE DEF AInv
  <1>1. ASSUME NEW k, PairWay(k, p)'
        PROVE  /\ \A q : Source(k, q)' => adopts'[p] = q
               /\ InUse(k)' => adopts'[p] = Nobody
               /\ Kept' /\ adopts'[p] # Nobody => \E q : Source(k, q)'
    BY <1>1 DEF Adoption, Steady
  <1>2. \A x : JobWay(x, p)' => adopts'[p] = Adopted(x)
    BY DEF Adoption
  <1>3. \A f : BodyWay(f, p)' => adopts'[p] = Nobody
    BY DEF Adoption
  <1>4. state'[p] \in {"fulfilled", "rejected"} /\ adopts'[p] # Nobody =>
          state'[adopts'[p]] = state'[p] /\ result'[adopts'[p]] = result'[p]
    <2>1. SUFFICES ASSUME state[p] \in {"fulfilled", "rejected"}, adopts[p] # Nobody
                   PROVE  state'[adopts[p]] = state[p] /\ result'[adopts[p]] = result[p]
      OBVIOUS
    <2>2. adopts[p] \in Promise
      BY <2>1 DEF TypeInv, SlotTypes
    <2> QED
      BY <2>1, <2>2 DEF Adoption, SettledStays
  <1>5. state'[p] = "unborn" => adopts'[p] = Nobody
    BY DEF Adoption
  <1> QED
    BY <1>1, <1>2, <1>3, <1>4, <1>5 DEF Adoption, Adopted

\* What has settled stays so.
LEMMA SettlesStays ==
  ASSUME AInv, NEW p \in Promise, NEW outcome, NEW v, NEW new, Settles(p, outcome, v, new)
  PROVE  /\ SettledStays
         /\ \A q \in Promise : q # p => state'[q] = state[q] /\ result'[q] = result[q]
         /\ state[p] = "pending" => state'[p] = outcome /\ result'[p] = v
  BY DEF Settles, SettledStays, slots, AInv, TypeInv, SlotTypes

\* Resolving touches no promise but its own, and none that has settled.
LEMMA ResolvesStays ==
  ASSUME AInv, NEW p \in Promise, NEW v, NEW new, Resolves(p, v, new)
  PROVE  /\ SettledStays
         /\ \A q \in Promise : q # p => /\ state'[q] = state[q] /\ result'[q] = result[q]
                                        /\ adopts'[q] = adopts[q]
  BY SettlesStays DEF Resolves, slots, SettledStays, AInv, TypeInv, SlotTypes

\* p settles: with nothing it was resolved with, or with that one's outcome.
LEMMA AdoptionSettled ==
  ASSUME AInv, NEW p \in Promise, NEW outcome \in {"fulfilled", "rejected"}, NEW v, NEW gone,
         NEW new, Moved(gone, new), Settles(p, outcome, v, new), state[p] = "pending",
         UNCHANGED adopts,
         \A x : ~JobWay(x, p), \A k : ~PairWay(k, p)', \A f : ~BodyWay(f, p)',
         adopts[p] # Nobody => state[adopts[p]] = outcome /\ result[adopts[p]] = v
  PROVE  Adoption(p)'
  <1> USE DEF AInv
  <1>1. state'[p] = outcome /\ result'[p] = v /\ SettledStays /\ NoThenable(new)
    BY SettlesStays, SettlesNoThenable
  <1>2. \A x : ~JobWay(x, p)'
    BY <1>1 DEF JobWay, Moved, NoThenable
  <1>3. adopts[p] # Nobody => state'[adopts[p]] = outcome /\ result'[adopts[p]] = v
    <2>1. SUFFICES ASSUME adopts[p] # Nobody
                   PROVE  state'[adopts[p]] = outcome /\ result'[adopts[p]] = v
      OBVIOUS
    <2>2. adopts[p] \in Promise
      BY <2>1 DEF TypeInv, SlotTypes
    <2> QED
      BY <1>1, <2>1, <2>2 DEF SettledStays
  <1> QED
    BY <1>1, <1>2, <1>3 DEF Adoption

\* The only way of p was taken.
LEMMA AdoptionTaken ==
  ASSUME AInv, NEW p \in Promise, NEW v, NEW gone, NEW new, Moved(gone, new), state[p] = "pending",
         \/ Resolves(p, v, new)
         \/ Settles(p, "rejected", v, new) /\ UNCHANGED adopts,
         \A x : ~JobWay(x, p), \A k : ~PairWay(k, p)', \A f : ~BodyWay(f, p)',
         adopts[p] # Nobody =>
           \/ /\ state[adopts[p]] = "fulfilled" /\ result[adopts[p]] = v /\ v \in Plainly
              /\ Resolves(p, v, new)
           \/ /\ state[adopts[p]] = "rejected" /\ result[adopts[p]] = v
              /\ Settles(p, "rejected", v, new) /\ UNCHANGED adopts
  PROVE  Adoption(p)'
  <1> USE DEF AInv
  <1>1. CASE adopts[p] = Nobody
    <2>1. CASE \E outcome \in {"fulfilled", "rejected"} : \E a : Settles(p, outcome, a, new) /\ UNCHANGED adopts
      BY <1>1, <2>1, AdoptionSettled
    <2>2. CASE /\ UNCHANGED slots
               /\ adopts' = [adopts EXCEPT ![p] = IF v \in Promise THEN v ELSE Nobody]
               /\ new = {[job |-> ThenableJob(p, v), seq |-> enqueued + 1]}
      <3>1. PICK t : t = [job |-> ThenableJob(p, v), seq |-> enqueued + 1]
        OBVIOUS
      <3>2. Adopted(t) = (IF v \in Promise THEN v ELSE Nobody)
        BY <3>1 DEF Adopted, ThenableJob
      <3>3. adopts'[p] = Adopted(t)
        BY <2>2, <3>2 DEF TypeInv, SlotTypes
      <3>4. \A x : JobWay(x, p)' => x = t
        BY <2>2, <3>1 DEF JobWay, Moved
      <3>5. state'[p] = "pending"
        BY <2>2 DEF slots
      <3> QED
        BY <3>3, <3>4, <3>5 DEF Adoption
    <2> QED
      BY <2>1, <2>2 DEF Resolves
  <1>2. CASE state[adopts[p]] = "rejected" /\ result[adopts[p]] = v
             /\ Settles(p, "rejected", v, new) /\ UNCHANGED adopts
    BY <1>2, AdoptionSettled
  <1>3. CASE state[adopts[p]] = "fulfilled" /\ result[adopts[p]] = v /\ v \in Plainly
             /\ Resolves(p, v, new)
    <2>1. v \notin Thenables \cup Poisoned \cup Promise
      BY <1>3, PromiseAssumption DEF Plainly
    <2>2. Settles(p, "fulfilled", v, new) /\ UNCHANGED adopts
      BY <1>3, <2>1 DEF Resolves
    <2> QED
      BY <1>3, <2>2, AdoptionSettled
  <1> QED
    BY <1>1, <1>2, <1>3

\* Nothing is resolved or settled.
LEMMA AdoptionQuiet ==
  ASSUME AInv, AdoptInv, NEW gone, NEW new, Moved(gone, new), AllBoth',
         NEW c \in {NoPair, Throwing}, NoMention(c), Kept' => Kept,
         UNCHANGED <<state, result, adopts, target, resolved>>, SameBodies, NoThenable(new),
         \A k \in Pair : Handed(k)' => InUse(k),
         \A k : k \notin resolved => Steady(k, gone) /\ (Kept' => \A x \in gone : ~SettleDue(k, x))
  PROVE  AdoptInv'
  <1>1. SUFFICES ASSUME NEW p \in Promise PROVE Adoption(p)'
    BY DEF AdoptInv
  <1>2. ASSUME NEW k, PairWay(k, p)'
        PROVE  /\ PairWay(k, p) /\ Steady(k, gone) /\ (InUse(k)' => InUse(k))
               /\ Kept' => \A x \in gone : ~SettleDue(k, x)
    <2>1. PairWay(k, p) /\ k \notin resolved
      BY <1>2 DEF PairWay
    <2>2. k # c /\ k \in Pair
      BY <2>1, PairWayPair
    <2> QED
      BY <2>1, <2>2 DEF InUse, NoMention
  <1>3. \A x : JobWay(x, p)' => JobWay(x, p)
    BY DEF JobWay, Moved, NoThenable
  <1>4. \A f : BodyWay(f, p)' => BodyWay(f, p)
    BY DEF BodyWay, SameBodies
  <1>5. SettledStays
    BY DEF SettledStays
  <1> QED
    BY <1>2, <1>3, <1>4, <1>5, AdoptionKept DEF AdoptInv

\* A function of the pair k is called, by who has it in use or by the job that
\* brings the outcome of what its promise was resolved with.
LEMMA AdoptionCalls ==
  ASSUME AInv, WaysInv, AdoptInv, NEW k \in DOMAIN target, NEW how, NEW v, NEW gone, NEW new,
         Calls(k, how, v, new), Moved(gone, new), target' = target, SameBodies, Kept' => Kept,
         \A l : l # k => (Kept' => \A x \in gone : ~SettleDue(l, x)),
         \A l \in Pair : Handed(l)' => InUse(l),
         \/ InUse(k)
         \/ \E x : /\ SettleDue(k, x) /\ v = x.job.arg
                   /\ how = IF x.job.fulfil THEN "resolve" ELSE "reject"
  PROVE  AdoptInv'
  <1> USE DEF AInv
  <1>1. CASE k \in resolved
    <2>1. UNCHANGED <<state, result, reactions, adopts, resolved>> /\ new = {}
      BY <1>1 DEF Calls, slots
    <2>2. \A l : Steady(l, gone)
      BY <2>1, QuietSource
    <2>3. NoMention(NoPair)
      BY <2>1, QuietMentions
    <2>4. AllBoth'
      BY <2>1, ListsUnchanged, FewerBoth DEF AdoptInv
    <2> QED
      BY <1>1, <2>1, <2>2, <2>3, <2>4, AdoptionQuiet DEF NoThenable
  <1>2. CASE k \notin resolved
    <2>1. PICK p \in Promise : p = target[k]
      BY DEF TypeInv, ObjectTypes
    <2>2. PairWay(k, p)
      BY <1>2, <2>1 DEF PairWay
    <2>3. /\ state[p] = "pending" /\ (\A x : ~JobWay(x, p)) /\ (\A f : ~BodyWay(f, p))
          /\ \A l : PairWay(l, p) => l = k
      BY <2>2 DEF WaysInv, Ways, OneWay
    <2>4. \A l, q : PairWay(l, q)' <=> PairWay(l, q) /\ l # k
      BY DEF PairWay, Calls
    <2>5. \A f, q : BodyWay(f, q)' <=> BodyWay(f, q)
      BY DEF BodyWay, SameBodies
    <2>6. \/ Resolves(p, v, new)
          \/ Settles(p, "rejected", v, new) /\ UNCHANGED adopts
      BY <1>2, <2>1 DEF Calls
    <2>7. how = "resolve" => Resolves(p, v, new)
      BY <1>2, <2>1 DEF Calls
    <2>8. how # "resolve" => Settles(p, "rejected", v, new) /\ UNCHANGED adopts
      BY <1>2, <2>1 DEF Calls
    <2>9. adopts[p] # Nobody =>
           \/ /\ state[adopts[p]] = "fulfilled" /\ result[adopts[p]] = v /\ v \in Plainly
              /\ Resolves(p, v, new)
           \/ /\ state[adopts[p]] = "rejected" /\ result[adopts[p]] = v
              /\ Settles(p, "rejected", v, new) /\ UNCHANGED adopts
      <3>1. SUFFICES ASSUME adopts[p] # Nobody
                     PROVE  \/ /\ state[adopts[p]] = "fulfilled" /\ result[adopts[p]] = v /\ v \in Plainly
                               /\ Resolves(p, v, new)
                            \/ /\ state[adopts[p]] = "rejected" /\ result[adopts[p]] = v
                               /\ Settles(p, "rejected", v, new) /\ UNCHANGED adopts
        OBVIOUS
      <3>2. ~InUse(k)
        BY <2>2, <3>1 DEF AdoptInv, Adoption
      <3>3. PICK x : /\ SettleDue(k, x) /\ v = x.job.arg
                     /\ how = IF x.job.fulfil THEN "resolve" ELSE "reject"
        BY <3>2
      <3>4. Source(k, x.job.source)
        BY <3>3 DEF Source
      <3>5. adopts[p] = x.job.source
        BY <2>2, <3>4 DEF AdoptInv, Adoption
      <3>6. /\ state[adopts[p]] = IF x.job.fulfil THEN "fulfilled" ELSE "rejected"
            /\ result[adopts[p]] = v
        BY <3>1, <3>3, <3>5 DEF SettleDue, Matches
      <3>7. x.job.fulfil => v \in Plainly
        BY <3>3 DEF SettleDue, Matches
      <3> QED
        BY <2>7, <2>8, <3>3, <3>6, <3>7
    <2>10. Adoption(p)'
      BY <2>3, <2>4, <2>5, <2>6, <2>9, AdoptionTaken
    <2>11. \A l : Steady(l, gone)
      <3>1. ASSUME new = {[job |-> ThenableJob(p, v), seq |-> enqueued + 1]}, UNCHANGED slots
            PROVE  \A l : Steady(l, gone)
        BY <3>1, QuietSource DEF slots, ThenableJob
      <3> QED
        BY <2>6, <3>1, SettlesSource DEF Resolves, AdoptInv
    <2>12. NoMention(NoPair)
      <3>1. ASSUME new = {[job |-> ThenableJob(p, v), seq |-> enqueued + 1]}, UNCHANGED slots
            PROVE  NoMention(NoPair)
        BY <3>1, QuietMentions DEF slots, ThenableJob
      <3> QED
        BY <2>6, <3>1, SettlesMentions DEF Resolves
    <2>13. AllBoth'
      <3>1. \A q \in Promise, i \in Nat, r \in Registrations : Listed(q, i, r)' => Listed(q, i, r)
        BY <2>6, SettlesLists, ListsUnchanged DEF Resolves, slots
      <3> QED
        BY <3>1, FewerBoth DEF AdoptInv
    <2>14. /\ SettledStays
           /\ \A q \in Promise : q # p => /\ state'[q] = state[q] /\ result'[q] = result[q]
                                          /\ adopts'[q] = adopts[q]
      BY <2>6, ResolvesStays, SettlesStays
    <2>15. ASSUME NEW q \in Promise, q # p PROVE Adoption(q)'
      <3>1. \A x : JobWay(x, q)' => JobWay(x, q)
        <4>1. CASE new = {[job |-> ThenableJob(p, v), seq |-> enqueued + 1]}
          BY <2>15, <4>1 DEF JobWay, Moved, ThenableJob
        <4>2. CASE NoThenable(new)
          BY <4>2 DEF JobWay, Moved, NoThenable
        <4> QED
          BY <2>6, <4>1, <4>2, SettlesNoThenable DEF Resolves
      <3>2. ASSUME NEW l, PairWay(l, q)'
            PROVE  /\ PairWay(l, q) /\ Steady(l, gone) /\ (InUse(l)' => InUse(l))
                   /\ Kept' => \A x \in gone : ~SettleDue(l, x)
        <4>1. PairWay(l, q) /\ l # k
          BY <2>4, <3>2
        <4>2. l # NoPair /\ l \in Pair
          BY <4>1, PairWayPair
        <4> QED
          BY <2>11, <2>12, <4>1, <4>2 DEF InUse, NoMention
      <3> QED
        BY <2>5, <2>14, <2>15, <3>1, <3>2, AdoptionKept DEF AdoptInv
    <2> QED
      BY <2>10, <2>13, <2>15 DEF AdoptInv
  <1> QED
    BY <1>1, <1>2

\* The end of user code that settles a capability keeps AdoptInv ...
LEMMA AdoptionSettling ==
  ASSUME AInv, WaysInv, AdoptInv, NEW k, Settling(k), UNCHANGED <<target, started>>, SameBodies,
         InUse(k), \A l \in Pair : Handed(l)' => InUse(l)
  PROVE  AdoptInv'
  <1>1. CASE UNCHANGED <<slots, resolved, adopts>> /\ Moved({}, {})
    <2>1. \A l : Steady(l, {})
      BY <1>1, QuietSource DEF slots
    <2>2. NoMention(NoPair)
      BY <1>1, QuietMentions DEF slots
    <2>3. AllBoth'
      BY <1>1, ListsUnchanged, FewerBoth DEF AdoptInv, slots
    <2>4. NoThenable({}) /\ (Kept' => Kept)
      BY <1>1, NoneLeaves DEF NoThenable
    <2>5. UNCHANGED <<state, result, adopts, target, resolved>>
      BY <1>1 DEF slots
    <2> QED
      BY <1>1, <2>1, <2>2, <2>3, <2>4, <2>5, AdoptionQuiet
  <1>2. CASE Calling(k)
    <2>1. PICK how, v, new : k \in DOMAIN target /\ Calls(k, how, v, new) /\ Moved({}, new)
      BY <1>2 DEF Calling
    <2>2. Kept' => Kept
      BY <2>1, NoneLeaves
    <2> QED
      BY <2>1, <2>2, AdoptionCalls
  <1> QED
    BY <1>1, <1>2 DEF Settling

\* A promise is made with a pair ...
LEMMA AdoptionNewPair ==
  ASSUME AInv, AdoptInv, NEW q \in Promise, q = born + 1, state' = [state EXCEPT ![q] = "pending"],
         NEW k \in Pair, NewPair(k, q), NEW new, Moved({}, new), NoThenable(new), AllBoth',
         NoMention(k), UNCHANGED <<resolved, started, result, adopts>>, SameBodies,
         \A l : Handed(l)' => Handed(l) \/ l = k, \A l : Steady(l, {})
  PROVE  AdoptInv'
  <1> USE DEF AInv
  <1>1. /\ DOMAIN target' = DOMAIN target \cup {k} /\ k \notin DOMAIN target
        /\ target'[k] = q /\ \A l \in DOMAIN target : target'[l] = target[l]
    BY NewPairTypes
  <1>2. \A l, p : PairWay(l, p)' => (PairWay(l, p) /\ l # k) \/ (l = k /\ p = q)
    BY <1>1 DEF PairWay
  <1>3. \A f, p : BodyWay(f, p)' => BodyWay(f, p)
    BY DEF BodyWay, SameBodies
  <1>4. \A x, p : JobWay(x, p)' => JobWay(x, p)
    BY DEF JobWay, Moved, NoThenable
  <1>5. /\ state[q] = "unborn" /\ state'[q] = "pending"
        /\ \A p \in Promise : p # q => state'[p] = state[p]
    BY NewPromiseState
  <1>6. SettledStays /\ (Kept' => Kept)
    BY <1>5, NoneLeaves DEF SettledStays
  <1>7. Adoption(q)'
    <2>1. adopts[q] = Nobody
      BY <1>5 DEF AdoptInv, Adoption
    <2>2. ~InUse(k) /\ \A p : ~Source(k, p)
      BY <1>1, NotYetUsed
    <2>3. \A p : ~Source(k, p)'
      BY <2>2 DEF Steady
    <2> QED
      BY <1>2, <1>3, <1>4, <1>5, <2>1, <2>3, NoWayYet DEF Adoption
  <1>8. ASSUME NEW p \in Promise, p # q PROVE Adoption(p)'
    <2>1. ASSUME NEW l, PairWay(l, p)'
          PROVE  PairWay(l, p) /\ Steady(l, {}) /\ (InUse(l)' => InUse(l))
      BY <1>2, <1>8, <2>1 DEF InUse, NoMention
    <2> QED
      BY <1>3, <1>4, <1>5, <1>6, <1>8, <2>1, AdoptionKept DEF AdoptInv
  <1> QED
    BY <1>7, <1>8 DEF AdoptInv

\* ... or by the call of an async function.
LEMMA AdoptionNewBody ==
  ASSUME AInv, AdoptInv, NEW f \in AsyncFunctions, NEW q \in Promise, NEW v, NEW new,
         CallAsyncStep(f, q, v, new), NoThenable(new), AllBoth', NoMention(NoPair),
         UNCHANGED <<target, resolved, started, result, adopts>>,
         \A l : Handed(l)' => Handed(l), \A l : Steady(l, {})
  PROVE  AdoptInv'
  <1> USE DEF AInv
  <1>1. /\ q = born + 1 /\ state' = [state EXCEPT ![q] = "pending"] /\ body[f] = "uncalled"
        /\ promise_of' = [promise_of EXCEPT ![f] = q] /\ Awaits(f, v, new) /\ Moved({}, new)
    BY DEF CallAsyncStep
  <1>2. body'[f] = "suspended" /\ \A g \in AsyncFunctions : g # f => body'[g] = body[g]
    BY <1>1 DEF Awaits, TypeInv, ObjectTypes
  <1>3. promise_of'[f] = q /\ \A g \in AsyncFunctions : g # f => promise_of'[g] = promise_of[g]
    BY <1>1 DEF TypeInv, ObjectTypes
  <1>4. \A g, p : BodyWay(g, p)' => BodyWay(g, p) \/ p = q
    BY <1>2, <1>3 DEF BodyWay
  <1>5. \A l, p : PairWay(l, p)' <=> PairWay(l, p)
    BY DEF PairWay
  <1>6. \A x, p : JobWay(x, p)' => JobWay(x, p)
    BY <1>1 DEF JobWay, Moved, NoThenable
  <1>7. /\ state[q] = "unborn" /\ state'[q] = "pending"
        /\ \A p \in Promise : p # q => state'[p] = state[p]
    BY <1>1, NewPromiseState
  <1>8. SettledStays /\ (Kept' => Kept)
    BY <1>1, <1>7, NoneLeaves DEF SettledStays
  <1>9. Adoption(q)'
    <2>1. adopts[q] = Nobody
      BY <1>7 DEF AdoptInv, Adoption
    <2> QED
      BY <1>1, <1>5, <1>6, <1>7, <2>1, NoWayYet DEF Adoption
  <1>10. ASSUME NEW p \in Promise, p # q PROVE Adoption(p)'
    <2>1. ASSUME NEW l, PairWay(l, p)'
          PROVE  PairWay(l, p) /\ Steady(l, {}) /\ (InUse(l)' => InUse(l))
      <3>1. PairWay(l, p) /\ l # NoPair
        BY <1>5, <2>1, PairWayPair
      <3> QED
        BY <3>1 DEF InUse, NoMention
    <2> QED
      BY <1>4, <1>6, <1>7, <1>8, <1>10, <2>1, AdoptionKept DEF AdoptInv
  <1> QED
    BY <1>9, <1>10 DEF AdoptInv

\* A registration of the functions of k at t makes t the only source of k.
LEMMA RegistersSource ==
  ASSUME AInv, NEW t \in Promise, NEW k \in Pair, k \notin DOMAIN target, NEW gone, NEW new,
         Registers(t, Handler("settle", k), Handler("settle", k), NoPair, new), Moved(gone, new),
         \A x \in gone : x.job.type = "thenable"
  PROVE  (\A q : Source(k, q)' => q = t) /\ \E q : Source(k, q)'
  <1> USE DEF AInv
  <1>1. \A q : ~Source(k, q)
    BY NotYetUsed
  <1>2. PICK s : s = Handler("settle", k)
    OBVIOUS
  <1>3. s \in Handlers /\ NoPair \in Caps
    BY <1>2 DEF Handler, Handlers, Caps
  <1>4. PICK r \in Registrations : r = Registration(s, s, NoPair)
    BY <1>3, RegistrationType
  <1>5. r.on_fulfilled = s /\ r.on_rejected = s
    BY <1>4 DEF Registration
  <1>6. \A q, i : q \in Promise /\ i \in Nat => ~SettleAt(k, q, i)
    BY <1>1 DEF Source
  <1>7. \A x : ~SettleDue(k, x)
    BY <1>1 DEF Source
  <1>8. CASE state[t] = "pending"
    <2>1. PICK n : n = Len(reactions[t]) + 1
      OBVIOUS
    <2>2. \A q \in Promise : \A i, g : Listed(q, i, g)' <=> Listed(q, i, g) \/ (q = t /\ i = n /\ g = r)
      BY <1>2, <1>4, <1>8, <2>1, RegistersLists
    <2>3. n \in Nat /\ new = {}
      BY <1>2, <1>8, <2>1, ListedType DEF Registers
    <2>4. \A q \in Promise, i \in Nat : SettleAt(k, q, i)' <=> q = t /\ i = n
      BY <1>2, <1>5, <1>6, <2>2 DEF SettleAt
    <2>5. \A x : ~SettleDue(k, x)'
      BY <1>7, <2>3 DEF SettleDue, Moved
    <2> QED
      BY <2>3, <2>4, <2>5 DEF Source
  <1>9. CASE state[t] # "pending"
    <2>1. PICK x : x = [job |-> ReactionJob(t, r, state[t] = "fulfilled", result[t]),
                         seq |-> enqueued + 1]
      OBVIOUS
    <2>2. x.job.type = "reaction" /\ x.job.source = t /\ x.job.handler = s
      BY <1>5, <2>1 DEF ReactionJob, Half
    <2>3. new = {x} /\ reactions' = reactions
      BY <1>2, <1>4, <1>9, <2>1 DEF Registers
    <2>4. \A q, i : q \in Promise /\ i \in Nat => ~SettleAt(k, q, i)'
      BY <1>6, <2>3 DEF SettleAt, Listed
    <2>5. \A y : SettleDue(k, y)' <=> y = x
      BY <1>2, <1>7, <2>2, <2>3 DEF SettleDue, Moved
    <2> QED
      BY <2>2, <2>4, <2>5 DEF Source
  <1> QED
    BY <1>8, <1>9

\* A job that adopts makes a pair, and gives it to the thenable.
LEMMA AdoptionThenable ==
  ASSUME AInv, WaysInv, AdoptInv, NEW h, NEW k, NEW new, ThenableStep(h, k, new),
         UNCHANGED <<state, result, resolved, adopts, importing>>, started' = started \cup {h.seq},
         SameBodies, Idle
  PROVE  AdoptInv'
  <1> USE DEF AInv
  <1>1. PICK p \in Promise : p = h.job.promise
    BY DEF ThenableStep, ThenableJobs
  <1>2. PICK t : t = h.job.thenable
    OBVIOUS
  <1>3. /\ h \in Jobs /\ h.job.type = "thenable" /\ k \in Pair /\ NewPair(k, p) /\ Moved({h}, new)
    BY <1>1 DEF ThenableStep, ThenableJobs
  <1>4. /\ DOMAIN target' = DOMAIN target \cup {k} /\ k \notin DOMAIN target
        /\ target'[k] = p /\ \A l \in DOMAIN target : target'[l] = target[l]
    BY <1>3, NewPairTypes
  <1>5. \A l, q : PairWay(l, q)' => (PairWay(l, q) /\ l # k) \/ (l = k /\ q = p)
    BY <1>4 DEF PairWay
  <1>6. JobWay(h, p)
    BY <1>1, <1>3 DEF JobWay
  <1>7. /\ state[p] = "pending" /\ (\A y : JobWay(y, p) => y = h) /\ (\A f : ~BodyWay(f, p))
        /\ \A l : ~PairWay(l, p)
    BY <1>6 DEF WaysInv, Ways, OneWay
  <1>8. adopts[p] = IF t \in Promise THEN t ELSE Nobody
    BY <1>2, <1>6 DEF AdoptInv, Adoption, Adopted
  <1>9. ~InUse(k) /\ \A q : ~Source(k, q)
    BY <1>3, <1>4, NotYetUsed
  <1>10. PICK s : s = Handler("settle", k)
    OBVIOUS
  <1>11. s \in Handlers /\ NoPair \in Caps /\ \A l : l # k => s # Handler("settle", l)
    BY <1>3, <1>10 DEF Handler, Handlers, Caps
  <1>12. /\ \A l : l # k => Steady(l, {h})
         /\ NoMention(NoPair) /\ AllBoth' /\ NoThenable(new)
         /\ (\A q : Source(k, q)' => adopts[p] = q)
         /\ adopts[p] # Nobody => \E q : Source(k, q)'
         /\ Handed(k)' => adopts[p] = Nobody
         /\ \A l : l # k /\ Handed(l)' => Handed(l)
    <2>1. CASE t \in Promise /\ Registers(t, s, s, NoPair, new) /\ UNCHANGED <<held, running>>
      <3>1. PICK r \in Registrations : r = Registration(s, s, NoPair) /\ Adds(r, new)
        BY <1>11, <2>1, RegistersAdds
      <3>2. r.on_fulfilled = s /\ r.on_rejected = s /\ r.cap = NoPair
        BY <3>1 DEF Registration
      <3>3. Both(r)
        BY <3>2 DEF Both
      <3>4. \A l : l # k => Steady(l, {h})
        BY <1>3, <1>11, <3>1, <3>2, <3>3, AddsSource
      <3>5. NoMention(NoPair) /\ AllBoth' /\ NoThenable(new)
        BY <1>3, <3>1, <3>2, <3>3, AddsMentions, AddsBoth, AddsNoThenable DEF AdoptInv
      <3>6. (\A q : Source(k, q)' => q = t) /\ \E q : Source(k, q)'
        BY <1>3, <1>4, <1>10, <2>1, RegistersSource
      <3>7. \A l : Handed(l)' => Handed(l)
        BY <2>1 DEF Handed
      <3>8. ~Handed(k)
        BY <1>9 DEF InUse
      <3> QED
        BY <1>8, <2>1, <3>4, <3>5, <3>6, <3>7, <3>8
    <2>2. CASE /\ t \in Thenables /\ new = {} /\ reactions' = reactions
               /\ held' = held \cup {k} /\ running' = Code("then", k)
      <3>1. adopts[p] = Nobody
        BY <1>8, <2>2, PromiseAssumption
      <3>2. \A l : Steady(l, {h})
        BY <1>3, <2>2, QuietSource
      <3>3. NoMention(NoPair)
        BY <1>3, <2>2, QuietMentions
      <3>4. AllBoth' /\ NoThenable(new)
        BY <2>2, ListsUnchanged, FewerBoth DEF AdoptInv, NoThenable
      <3>5. \A q : ~Source(k, q)'
        BY <1>9, <3>2 DEF Steady
      <3>6. \A l : Handed(l)' => Handed(l) \/ l = k
        BY <2>2 DEF Handed, Code
      <3> QED
        BY <3>1, <3>2, <3>3, <3>4, <3>5, <3>6
    <2> QED
      BY <1>2, <1>10, <2>1, <2>2 DEF ThenableStep
  <1>13. \A f, q : BodyWay(f, q)' <=> BodyWay(f, q)
    BY DEF BodyWay, SameBodies
  <1>14. (Kept' => Kept) /\ SettledStays
    BY <1>3, OneLeaves DEF SettledStays
  <1>15. \A x, q : JobWay(x, q)' => JobWay(x, q) /\ x # h
    BY <1>3, <1>12 DEF JobWay, Moved, NoThenable
  <1>16. NoPair # k
    BY <1>3, PromiseAssumption
  <1>17. Adoption(p)'
    <2>1. ~Mentioned(k)'
      BY <1>9, <1>12, <1>16 DEF NoMention, InUse
    <2> QED
      BY <1>5, <1>7, <1>12, <1>13, <1>15, <2>1 DEF Adoption, InUse
  <1>18. ASSUME NEW q \in Promise, q # p PROVE Adoption(q)'
    <2>1. ASSUME NEW l, PairWay(l, q)'
          PROVE  /\ PairWay(l, q) /\ Steady(l, {h}) /\ (InUse(l)' => InUse(l))
                 /\ \A x \in {h} : ~SettleDue(l, x)
      <3>1. PairWay(l, q) /\ l # k
        BY <1>5, <1>18, <2>1
      <3>2. l # NoPair
        BY <3>1, PairWayPair
      <3> QED
        BY <1>3, <1>12, <3>1, <3>2 DEF InUse, NoMention, SettleDue
    <2> QED
      BY <1>13, <1>14, <1>15, <1>18, <2>1, AdoptionKept DEF AdoptInv
  <1> QED
    BY <1>12, <1>17, <1>18 DEF AdoptInv

\* A step that hands out no pair leaves the handed ones in use.
LEMMA HandedKept ==
  ASSUME held' = held, importing' = importing,
         running' = running \/ running'.kind \in {"none", "body"}
  PROVE  \A l : Handed(l)' => InUse(l)
  BY DEF InUse, Handed

\* ... so does a reaction job ...
LEMMA AdoptionReaction ==
  ASSUME AInv, WaysInv, AdoptInv, NEW h, ReactionStep(h),
         UNCHANGED <<target, held, importing, promise_of>>, Idle
  PROVE  AdoptInv'
  <1> USE DEF AInv
  <1>1. /\ h.job.type = "reaction" /\ started' = started \cup {h.seq} /\ h \in Jobs
        /\ h.job \in ReactionJobs
    BY DEF ReactionStep, ReactionJobs
  <1>2. \A k : h.job.handler # Handler("settle", k) => ~SettleDue(k, h)
    BY DEF SettleDue
  <1>9. \A k : Handler("settle", k).kind = "settle"
    BY DEF Handler
  <1>3. CASE Fails(h)
    <2>1. /\ UNCHANGED <<slots, resolved, adopts, body, running>>
          /\ Moved(Rng(Rest), {}) /\ h \in Rng(Rest) /\ h.job.handler.kind = "none"
      BY <1>3 DEF Fails
    <2>2. Kept' => Kept /\ Rng(Rest) = {h}
      BY <1>1, <2>1, OneLeaves
    <2>3. \A k : ~SettleDue(k, h)
      BY <1>2, <1>9, <2>1
    <2>4. \A k : Steady(k, Rng(Rest))
      BY <2>1, QuietSource DEF slots
    <2>5. NoMention(NoPair) /\ AllBoth' /\ NoThenable({})
      BY <2>1, QuietMentions, ListsUnchanged, FewerBoth DEF slots, AdoptInv, NoThenable
    <2>6. \A l : Handed(l)' => InUse(l)
      BY <2>1, HandedKept
    <2>7. UNCHANGED <<state, result, adopts, target, resolved>> /\ SameBodies
      BY <2>1 DEF slots, SameBodies
    <2> QED
      BY <2>1, <2>2, <2>3, <2>4, <2>5, <2>6, <2>7, AdoptionQuiet
  <1>4. CASE Begins(h)
    <2>1. UNCHANGED <<slots, resolved, adopts>> /\ Moved({h}, {}) /\ h.job.handler.kind # "settle"
      BY <1>4 DEF Begins
    <2>2. Kept' => Kept
      BY <1>1, <2>1, OneLeaves
    <2>3. \A k : ~SettleDue(k, h)
      BY <1>2, <1>9, <2>1
    <2>4. \A k : Steady(k, {h})
      BY <2>1, QuietSource DEF slots
    <2>5. NoMention(NoPair) /\ AllBoth' /\ NoThenable({})
      BY <2>1, QuietMentions, ListsUnchanged, FewerBoth DEF slots, AdoptInv, NoThenable
    <2>6. \A l : Handed(l)' => InUse(l)
      <3>1. CASE running' = Code("handler", h.job.cap)
        BY <1>1, <3>1 DEF Handed, InUse, Mentioned, Code
      <3>2. CASE running' = running \/ running'.kind = "body"
        BY <3>2, HandedKept
      <3> QED
        BY <1>4, <3>1, <3>2 DEF Begins, Code
    <2>7. SameBodies
      <3>1. CASE UNCHANGED body
        BY <3>1 DEF SameBodies
      <3>2. CASE /\ h.job.handler.kind = "resume"
                 /\ body' = [body EXCEPT ![h.job.handler.of] = "running"]
        <4>1. PICK f \in AsyncFunctions : h.job.handler = Handler("resume", f)
          BY <1>1, <3>2 DEF ReactionJobs, Handlers, Handler
        <4>2. ResumeDue(f, h)
          BY <1>1, <4>1 DEF ResumeDue, ReactionJobs
        <4>3. body[f] = "suspended" /\ h.job.handler.of = f
          BY <4>1, <4>2 DEF ResumeInv, ResumeDue, Handler
        <4> QED
          BY <3>2, <4>3 DEF SameBodies, TypeInv, ObjectTypes
      <3> QED
        BY <1>4, <3>1, <3>2 DEF Begins
    <2>8. UNCHANGED <<state, result, adopts, target, resolved>>
      BY <2>1 DEF slots
    <2> QED
      BY <2>1, <2>2, <2>3, <2>4, <2>5, <2>6, <2>7, <2>8, AdoptionQuiet
  <1>5. ASSUME NEW k, NEW new, Answers(h, k, new), \A l : l # k => ~SettleDue(l, h),
               InUse(k) \/ SettleDue(k, h)
        PROVE  AdoptInv'
    <2>1. /\ Moved({h}, new) /\ k \in DOMAIN target
          /\ Calls(k, IF h.job.fulfil THEN "resolve" ELSE "reject", h.job.arg, new)
          /\ SameBodies /\ running' = running
      BY <1>5 DEF Answers, SameBodies
    <2>2. Kept' => Kept
      BY <1>1, <2>1, OneLeaves
    <2>3. \A l : Handed(l)' => InUse(l)
      BY <2>1, HandedKept
    <2>4. PICK how : how = IF h.job.fulfil THEN "resolve" ELSE "reject"
      OBVIOUS
    <2>5. Calls(k, how, h.job.arg, new)
      BY <2>1, <2>4
    <2> QED
      BY <1>5, <2>1, <2>2, <2>3, <2>4, <2>5, AdoptionCalls
  <1>6. ASSUME NEW new, h.job.handler.kind = "none", Answers(h, h.job.cap, new) PROVE AdoptInv'
    <2>1. InUse(h.job.cap)
      BY <1>1 DEF InUse, Mentioned
    <2>2. \A l : ~SettleDue(l, h)
      BY <1>2, <1>6, <1>9
    <2> QED
      BY <1>5, <1>6, <2>1, <2>2
  <1>7. ASSUME NEW new, h.job.handler.kind = "settle", Answers(h, h.job.handler.of, new)
        PROVE  AdoptInv'
    <2>1. PICK k \in Pair : h.job.handler = Handler("settle", k)
      BY <1>1, <1>7 DEF ReactionJobs, Handlers, Handler
    <2>2. SettleDue(k, h) /\ \A l : l # k => ~SettleDue(l, h)
      BY <1>1, <1>2, <2>1 DEF SettleDue, Handler
    <2>3. h.job.handler.of = k
      BY <2>1 DEF Handler
    <2> QED
      BY <1>5, <1>7, <2>2, <2>3
  <1> QED
    BY <1>3, <1>4, <1>6, <1>7 DEF ReactionStep

\* ... so does a body that ends ...
LEMMA AdoptionBodyEnds ==
  ASSUME AInv, WaysInv, AdoptInv, BodyEnds
  PROVE  AdoptInv'
  <1> USE DEF AInv
  <1>1. PICK f \in AsyncFunctions : f = running.of
    BY BodyRuns DEF BodyEnds
  <1>2. PICK p \in Promise : p = promise_of[f]
    BY <1>1, BodyRuns DEF BodyEnds
  <1>3. PICK v, new :
             /\ v \in Values
             /\ Moved({}, new)
             /\ \/ Resolves(p, v, new)
                \/ Settles(p, "rejected", v, new) /\ UNCHANGED adopts
    BY <1>1, <1>2, BodyEndsMoves
  <1>4. BodyWay(f, p)
    BY <1>1, <1>2, BodyRuns DEF BodyWay, BodyEnds
  <1>5. /\ state[p] = "pending" /\ (\A g : BodyWay(g, p) => g = f)
        /\ (\A k : ~PairWay(k, p)) /\ (\A x : ~JobWay(x, p))
    BY <1>4 DEF WaysInv, Ways, OneWay
  <1>6. /\ body' = [body EXCEPT ![f] = "done"]
        /\ UNCHANGED <<target, resolved, promise_of, started, held, importing>>
        /\ running'.kind = "none"
    BY <1>1 DEF BodyEnds, objects, drain, NoCode, Code
  <1>7. \A k, q : PairWay(k, q)' <=> PairWay(k, q)
    BY <1>6 DEF PairWay
  <1>8. \A g, q : BodyWay(g, q)' <=> BodyWay(g, q) /\ g # f
    BY <1>6 DEF BodyWay, TypeInv, ObjectTypes
  <1>9. Kept' => Kept
    BY <1>3, <1>6, NoneLeaves
  <1>10. adopts[p] = Nobody
    BY <1>4 DEF AdoptInv, Adoption
  <1>11. Adoption(p)'
    BY <1>3, <1>5, <1>7, <1>8, <1>10, AdoptionTaken
  <1>12. \A l : Steady(l, {})
    <2>1. ASSUME new = {[job |-> ThenableJob(p, v), seq |-> enqueued + 1]}, UNCHANGED slots
          PROVE  \A l : Steady(l, {})
      BY <1>3, <2>1, QuietSource DEF slots, ThenableJob
    <2> QED
      BY <1>3, <2>1, SettlesSource DEF Resolves, AdoptInv
  <1>13. NoMention(NoPair)
    <2>1. ASSUME new = {[job |-> ThenableJob(p, v), seq |-> enqueued + 1]}, UNCHANGED slots
          PROVE  NoMention(NoPair)
      BY <1>3, <2>1, QuietMentions DEF slots, ThenableJob
    <2> QED
      BY <1>3, <2>1, SettlesMentions DEF Resolves
  <1>14. AllBoth'
    <2>1. \A q \in Promise, i \in Nat, r \in Registrations : Listed(q, i, r)' => Listed(q, i, r)
      BY <1>3, SettlesLists, ListsUnchanged DEF Resolves, slots
    <2> QED
      BY <2>1, FewerBoth DEF AdoptInv
  <1>15. /\ SettledStays
         /\ \A q \in Promise : q # p => /\ state'[q] = state[q] /\ result'[q] = result[q]
                                        /\ adopts'[q] = adopts[q]
    BY <1>3, ResolvesStays, SettlesStays
  <1>16. \A l : Handed(l)' => InUse(l)
    BY <1>6, HandedKept
  <1>17. ASSUME NEW q \in Promise, q # p PROVE Adoption(q)'
    <2>1. \A x : JobWay(x, q)' => JobWay(x, q)
      <3>1. CASE new = {[job |-> ThenableJob(p, v), seq |-> enqueued + 1]}
        BY <1>3, <1>17, <3>1 DEF JobWay, Moved, ThenableJob
      <3>2. CASE NoThenable(new)
        BY <1>3, <3>2 DEF JobWay, Moved, NoThenable
      <3> QED
        BY <1>3, <3>1, <3>2, SettlesNoThenable DEF Resolves
    <2>2. ASSUME NEW l, PairWay(l, q)'
          PROVE  PairWay(l, q) /\ Steady(l, {}) /\ (InUse(l)' => InUse(l))
      <3>1. PairWay(l, q) /\ l # NoPair
        <4>1. PairWay(l, q)
          BY <1>7, <2>2
        <4> QED
          BY <4>1, PairWayPair
      <3> QED
        BY <1>12, <1>13, <1>16, <3>1 DEF InUse, NoMention
    <2> QED
      BY <1>8, <1>9, <1>15, <1>17, <2>1, <2>2, AdoptionKept DEF AdoptInv
  <1> QED
    BY <1>11, <1>14, <1>17 DEF AdoptInv

\* ... and so does every step.
LEMMA AdoptionNext ==
  ASSUME AInv, WaysInv, AdoptInv, Next
  PROVE  AdoptInv'
  <1> USE DEF AInv
  <1>1. CASE New \/ dynamic_import
    <2>1. /\ UNCHANGED <<started, resolved, importing, running, reactions, result, adopts>>
          /\ SameBodies
      BY <1>1 DEF New, dynamic_import, async, drain, SameBodies, NewPromise
    <2>2. CASE New
      <3>1. PICK p \in Promise, k \in Pair : NewStep(p, k)
        BY <2>2, NewMoves
      <3>2. /\ p = born + 1 /\ state' = [state EXCEPT ![p] = "pending"] /\ NewPair(k, p)
            /\ held' = held \cup {k} /\ Moved({}, {})
        BY <3>1 DEF NewStep, NewPromise
      <3>3. \A l : Handed(l)' => Handed(l) \/ l = k
        BY <2>1, <3>2 DEF Handed
      <3>4. /\ NoThenable({}) /\ NoMention(k) /\ AllBoth' /\ \A l : Steady(l, {})
        BY <2>1, <3>2, QuietMentions, QuietSource, ListsUnchanged, FewerBoth
           DEF NoThenable, AdoptInv
      <3> QED
        BY <2>1, <3>2, <3>3, <3>4, AdoptionNewPair
    <2>3. CASE dynamic_import
      <3>1. PICK p \in Promise, k \in Pair :
              NewPromise(p) /\ NewPair(k, p) /\ Moved({}, {ImportedJob(k)})
        BY <2>3, ImportMoves
      <3>2. p = born + 1 /\ state' = [state EXCEPT ![p] = "pending"] /\ held' = held
        BY <2>3, <3>1 DEF NewPromise, dynamic_import
      <3>3. PICK s : s = {ImportedJob(k)}
        OBVIOUS
      <3>4. \A x \in s : x.job.type = "import" /\ x.job.cap = k
        BY <3>3 DEF ImportedJob, ImportJob
      <3>5. Moved({}, s)
        BY <3>1, <3>3
      <3>6. \A l : Handed(l)' => Handed(l) \/ l = k
        BY <2>1, <3>2 DEF Handed
      <3>7. NoThenable(s) /\ NoMention(k)
        BY <2>1, <3>4, <3>5, QuietMentions DEF NoThenable
      <3>8. AllBoth' /\ \A l : Steady(l, {})
        BY <2>1, <3>4, <3>5, QuietSource, ListsUnchanged, FewerBoth DEF AdoptInv
      <3> QED
        BY <2>1, <3>1, <3>2, <3>5, <3>6, <3>7, <3>8, AdoptionNewPair
    <2> QED
      BY <1>1, <2>2, <2>3
  <1>2. CASE CallResolving
    <2>1. /\ UNCHANGED <<target, started, held, importing>> /\ SameBodies /\ running' = running
      BY <1>2 DEF CallResolving, objects, async, drain, SameBodies
    <2>2. PICK k \in held : Calling(k)
      BY <1>2, CallResolvingMoves
    <2>3. InUse(k)
      BY DEF InUse, Handed
    <2> QED
      BY <2>1, <2>2, <2>3, HandedKept, AdoptionSettling DEF Settling
  <1>3. CASE Then
    <2>1. PICK p, h, g, new :
              /\ p \in Promise /\ h \in {NoHandler, UserHandler} /\ g \in {NoHandler, UserHandler}
              /\ Moved({}, new)
              /\ \/ \E q \in Promise, k \in Pair : ThenNative(p, q, k, h, g, new)
                 \/ ThenSpecies(p, h, g, new)
      BY <1>3, ThenMoves
    <2>2. /\ UNCHANGED <<started, resolved, held, importing, result, adopts>> /\ SameBodies
          /\ running' = running
      BY <1>3 DEF Then, async, drain, SameBodies
    <2>3. h \in Handlers /\ g \in Handlers /\ Throwing \in Caps /\ Pair \subseteq Caps
      BY <2>1 DEF NoHandler, UserHandler, Handler, Handlers, Caps
    <2>4. \A l : h # Handler("settle", l) /\ g # Handler("settle", l)
      BY <2>1 DEF NoHandler, UserHandler, Handler
    <2>5. ASSUME NEW k \in Caps, Registers(p, h, g, k, new)
          PROVE  NoThenable(new) /\ NoMention(k) /\ AllBoth' /\ \A l : Steady(l, {})
      <3>1. \E r \in Registrations : r = Registration(h, g, k) /\ Adds(r, new)
        BY <2>1, <2>3, <2>5, RegistersAdds
      <3>2. PICK r \in Registrations :
              /\ Adds(r, new) /\ r.cap = k /\ r.on_fulfilled = h /\ r.on_rejected = g
        BY <3>1 DEF Registration
      <3>3. Both(r)
        BY <2>4, <3>2 DEF Both
      <3> QED
        BY <2>1, <2>4, <3>2, <3>3, AddsNoThenable, AddsMentions, AddsBoth, AddsSource DEF AdoptInv
    <2>6. \A l : Handed(l)' => Handed(l)
      BY <2>2 DEF Handed
    <2>7. ASSUME NEW q \in Promise, NEW k \in Pair, ThenNative(p, q, k, h, g, new)
          PROVE  AdoptInv'
      <3>1. /\ q = born + 1 /\ state' = [state EXCEPT ![q] = "pending"] /\ NewPair(k, q)
            /\ Registers(p, h, g, k, new)
        BY <2>7 DEF ThenNative
      <3>2. NoThenable(new) /\ NoMention(k) /\ AllBoth' /\ \A l : Steady(l, {})
        BY <2>3, <2>5, <3>1
      <3> QED
        BY <2>1, <2>2, <2>6, <3>1, <3>2, AdoptionNewPair
    <2>8. CASE ThenSpecies(p, h, g, new)
      <3>1. UNCHANGED <<state, target>> /\ Registers(p, h, g, Throwing, new)
        BY <2>8 DEF ThenSpecies
      <3>2. NoThenable(new) /\ NoMention(Throwing) /\ AllBoth' /\ \A l : Steady(l, {})
        BY <2>3, <2>5, <3>1
      <3>3. Kept' => Kept
        BY <2>1, <2>2, NoneLeaves
      <3>4. \A l : Handed(l)' => InUse(l)
        BY <2>6 DEF InUse
      <3> QED
        BY <2>1, <2>2, <3>1, <3>2, <3>3, <3>4, AdoptionQuiet
    <2> QED
      BY <2>1, <2>7, <2>8
  <1>4. ASSUME NEW f \in AsyncFunctions, NEW v, NEW new, Awaits(f, v, new), Moved({}, new)
        PROVE  NoThenable(new) /\ NoMention(NoPair) /\ AllBoth' /\ \A l : Steady(l, {})
    <2>1. \E r \in Registrations :
             r = Registration(Handler("resume", f), Handler("resume", f), NoPair) /\ Adds(r, new)
      BY <1>4, AwaitsAdds
    <2>2. PICK r \in Registrations :
            /\ Adds(r, new) /\ r.cap = NoPair
            /\ r.on_fulfilled = Handler("resume", f) /\ r.on_rejected = Handler("resume", f)
      BY <2>1 DEF Registration
    <2>3. \A l : Handler("resume", f) # Handler("settle", l)
      BY DEF Handler
    <2>4. Both(r)
      BY <2>2 DEF Both
    <2>5. \A l : Steady(l, {})
      BY <1>4, <2>2, <2>3, <2>4, AddsSource
    <2>6. NoThenable(new) /\ AllBoth'
      BY <2>2, <2>4, AddsNoThenable, AddsBoth DEF AdoptInv
    <2>7. NoMention(NoPair)
      BY <1>4, <2>2, AddsMentions
    <2> QED
      BY <2>5, <2>6, <2>7
  <1>5. CASE CallAsync
    <2>1. /\ UNCHANGED <<target, resolved, started, held, importing, result, adopts>>
          /\ running' = running
      BY <1>5 DEF CallAsync, drain
    <2>2. PICK f, p, v, new :
            f \in AsyncFunctions /\ p \in Promise /\ CallAsyncStep(f, p, v, new)
      BY <1>5, CallAsyncMoves
    <2>3. Awaits(f, v, new) /\ Moved({}, new)
      BY <2>2 DEF CallAsyncStep
    <2>4. NoThenable(new) /\ NoMention(NoPair) /\ AllBoth' /\ \A l : Steady(l, {})
      BY <1>4, <2>2, <2>3
    <2>5. \A l : Handed(l)' => Handed(l)
      BY <2>1 DEF Handed
    <2> QED
      BY <2>1, <2>2, <2>4, <2>5, AdoptionNewBody
  <1>6. CASE AwaitAgain
    <2>1. PICK f \in AsyncFunctions : f = running.of /\ body[f] = "running"
      BY <1>6, BodyRuns DEF AwaitAgain
    <2>2. PICK v, new : Awaits(f, v, new) /\ Moved({}, new)
      BY <1>6, <2>1, AwaitAgainMoves
    <2>3. /\ UNCHANGED <<state, result, adopts, target, resolved, started, held, importing>>
          /\ promise_of' = promise_of /\ running'.kind = "none"
      BY <1>6 DEF AwaitAgain, objects, drain, NoCode, Code
    <2>4. SameBodies
      BY <2>1, <2>2, <2>3 DEF Awaits, SameBodies, TypeInv, ObjectTypes
    <2>5. NoThenable(new) /\ NoMention(NoPair) /\ AllBoth' /\ \A l : Steady(l, {})
      BY <1>4, <2>2
    <2>6. (Kept' => Kept) /\ \A l : Handed(l)' => InUse(l)
      BY <2>2, <2>3, NoneLeaves, HandedKept
    <2> QED
      BY <2>2, <2>3, <2>4, <2>5, <2>6, AdoptionQuiet
  <1>7. CASE HandlerEnds \/ ThenMethodEnds \/ ModuleEnds \/ SettleImport
    <2>1. UNCHANGED <<target, started, held>> /\ SameBodies
      BY <1>7 DEF HandlerEnds, ThenMethodEnds, ModuleEnds, SettleImport, objects, async, SameBodies
    <2>2. /\ running.kind \in {"handler", "then", "module"} => InUse(running.of)
          /\ InUse(importing)
      BY DEF InUse, Handed
    <2>3. \A l \in Pair : Handed(l)' => InUse(l)
      <3>1. running'.kind \in {"handler", "then", "module"} => running' = running
        BY <1>7 DEF HandlerEnds, ThenMethodEnds, ModuleEnds, SettleImport, NoCode, Code
      <3>2. importing' \in {importing, NoPair} \/ (ModuleEnds /\ importing' = running.of)
        BY <1>7 DEF HandlerEnds, ThenMethodEnds, ModuleEnds, SettleImport, drain
      <3>3. NoPair \notin Pair
        BY PromiseAssumption
      <3>4. ModuleEnds => running.kind = "module"
        BY DEF ModuleEnds
      <3> QED
        BY <2>1, <2>2, <3>1, <3>2, <3>3, <3>4 DEF Handed, InUse
    <2>4. CASE \E k : Settling(k) /\ InUse(k)
      BY <2>1, <2>3, <2>4, AdoptionSettling
    <2>5. CASE UNCHANGED <<slots, resolved, adopts>> /\ \E gone : Moved(gone, {})
      <3>1. PICK gone : Moved(gone, {})
        BY <2>5
      <3>2. (Kept' => Kept /\ gone = {}) /\ NoThenable({})
        BY <2>1, <3>1, NoneLeaves DEF NoThenable
      <3>3. \A l : Steady(l, gone)
        BY <2>5, <3>1, QuietSource DEF slots
      <3>4. NoMention(NoPair) /\ AllBoth'
        BY <2>5, <3>1, QuietMentions, ListsUnchanged, FewerBoth DEF slots, AdoptInv
      <3>5. UNCHANGED <<state, result, adopts, target, resolved>>
        BY <2>1, <2>5 DEF slots
      <3> QED
        BY <2>1, <2>3, <3>1, <3>2, <3>3, <3>4, <3>5, AdoptionQuiet
    <2>6. CASE HandlerEnds
      <3>1. running.kind = "handler"
        BY <2>6 DEF HandlerEnds
      <3> QED
        BY <2>2, <2>4, <2>5, <2>6, <3>1, HandlerEndsMoves
    <2>7. CASE ThenMethodEnds
      <3>1. running.kind = "then"
        BY <2>7 DEF ThenMethodEnds
      <3> QED
        BY <2>2, <2>4, <2>7, <3>1, ThenMethodEndsMoves
    <2>8. CASE ModuleEnds
      <3>1. running.kind = "module"
        BY <2>8 DEF ModuleEnds
      <3> QED
        BY <2>2, <2>4, <2>5, <2>8, <3>1, ModuleEndsMoves
    <2>9. CASE SettleImport
      BY <2>2, <2>4, <2>9, SettleImportMoves DEF Settling
    <2> QED
      BY <1>7, <2>6, <2>7, <2>8, <2>9
  <1>8. CASE ScriptEnds \/ TakeBatch \/ EndNestedDrain \/ DrainEnds \/ run_jobs
    <2>1. /\ UNCHANGED <<slots, state, result, reactions, adopts, target, resolved, started>>
          /\ SameBodies /\ Moved({}, {}) /\ NoThenable({})
      BY <1>8, TakeBatchMoves, OtherMoves
         DEF ScriptEnds, TakeBatch, EndNestedDrain, DrainEnds, run_jobs, slots, objects, async,
             SameBodies, NoThenable
    <2>2. held' = held /\ importing' = importing /\ (running' = running \/ running'.kind = "none")
      BY <1>8 DEF ScriptEnds, TakeBatch, EndNestedDrain, DrainEnds, run_jobs, objects, drain,
                  NoCode, Code
    <2>3. (Kept' => Kept) /\ (\A l : Handed(l)' => InUse(l)) /\ \A l : Steady(l, {})
      BY <2>1, <2>2, NoneLeaves, HandedKept, QuietSource
    <2>4. NoMention(NoPair) /\ AllBoth'
      BY <2>1, QuietMentions, ListsUnchanged, FewerBoth DEF AdoptInv
    <2> QED
      BY <2>1, <2>3, <2>4, AdoptionQuiet
  <1>9. CASE BodyEnds
    BY <1>9, AdoptionBodyEnds
  <1>10. CASE RunReaction
    <2>1. UNCHANGED <<target, held, importing, promise_of>>
      BY <1>10 DEF RunReaction, objects
    <2> QED
      BY <1>10, <2>1, ReactionMoves, AdoptionReaction
  <1>11. CASE RunThenable
    <2>1. PICK h : h = Head(Rest)
      OBVIOUS
    <2>2. PICK k, new : ThenableStep(h, k, new)
      BY <1>11, <2>1, ThenableMoves
    <2>3. /\ UNCHANGED <<state, result, resolved, adopts, importing>>
          /\ started' = started \cup {h.seq} /\ SameBodies /\ Idle
      BY <1>11, <2>1, ThenableMoves DEF RunThenable, async, SameBodies
    <2> QED
      BY <2>2, <2>3, AdoptionThenable
  <1>12. CASE RunImport
    <2>1. target' = target /\ held' = held /\ SameBodies
      BY <1>12 DEF RunImport, objects, async, SameBodies
    <2>2. PICK h \in Jobs :
              /\ h.job \in ImportJobs /\ h.job.cap \in DOMAIN target
              /\ started' = started \cup {h.seq}
              /\ \/ /\ \E new : Calls(h.job.cap, "reject", Failure, new) /\ Moved({h}, new)
                    /\ UNCHANGED <<running, importing>>
                 \/ /\ running' = Code("module", h.job.cap) /\ Moved({h}, {})
                    /\ UNCHANGED <<slots, resolved, adopts, importing>>
                 \/ /\ importing' = h.job.cap /\ Moved({h}, {})
                    /\ UNCHANGED <<slots, resolved, adopts, running>>
      BY <1>12, RunImportMoves
    <2>3. (\A l : ~SettleDue(l, h)) /\ NoThenable({}) /\ InUse(h.job.cap)
      BY <2>2 DEF ImportJobs, NoThenable, SettleDue, InUse, Mentioned
    <2>4. \A l : Handed(l)' => InUse(l)
      BY <2>1, <2>2, <2>3 DEF Handed, InUse, Code
    <2>5. \A new : Moved({h}, new) => (Kept' => Kept)
      BY <2>2, OneLeaves
    <2>6. CASE UNCHANGED <<slots, resolved, adopts>> /\ Moved({h}, {})
      <3>1. (\A l : Steady(l, {h})) /\ NoMention(NoPair) /\ AllBoth'
        BY <2>6, QuietSource, QuietMentions, ListsUnchanged, FewerBoth DEF slots, AdoptInv
      <3>2. UNCHANGED <<state, result, adopts, target, resolved>>
        BY <2>1, <2>6 DEF slots
      <3> QED
        BY <2>1, <2>3, <2>4, <2>5, <2>6, <3>1, <3>2, AdoptionQuiet
    <2>7. CASE \E new : Calls(h.job.cap, "reject", Failure, new) /\ Moved({h}, new)
      BY <2>1, <2>2, <2>3, <2>4, <2>5, <2>7, AdoptionCalls
    <2> QED
      BY <2>2, <2>6, <2>7
  <1> QED
    BY <1>1, <1>2, <1>3, <1>5, <1>6, <1>7, <1>8, <1>9, <1>10, <1>11, <1>12
       DEF Next, UserCall, Complete, Engine

\* A promise resolved with another has that one's outcome, once no job is left.
THEOREM AdoptsOutcome == Spec => []AdoptedOutcome
  <1>1. AInv /\ WaysInv /\ AdoptInv => AdoptedOutcome
    <2>1. SUFFICES ASSUME AInv, WaysInv, AdoptInv, host = "idle", jobs = <<>>, NoJobLost,
                          NEW p \in Promise, adopts[p] # Nobody
                   PROVE  state[p] = state[adopts[p]] /\ result[p] = result[adopts[p]]
      BY DEF AdoptedOutcome
    <2>2. Kept
      BY <2>1, LostNone DEF AInv
    <2>3. batch = <<>> /\ inner = <<>>
      BY <2>1 DEF AInv, TypeInv, PhaseTypes
    <2>4. Jobs = {}
      BY <2>1, <2>3, RngEmpty DEF Jobs
    <2>5. PICK q \in Promise : q = adopts[p]
      BY <2>1 DEF AInv, TypeInv, SlotTypes
    <2>6. CASE state[p] = "pending"
      <3>1. PICK k : PairWay(k, p)
        BY <2>1, <2>2, <2>4, <2>6 DEF WaysInv, Ways, SomeWay, JobWay, AdoptInv, Adoption
      <3>2. Source(k, q)
        BY <2>1, <2>2, <2>5, <3>1 DEF AdoptInv, Adoption
      <3>3. \E i \in Nat, r \in Registrations : Listed(q, i, r)
        BY <2>4, <3>2 DEF Source, SettleDue, SettleAt
      <3>4. state[q] = "pending"
        BY <2>1, <3>3 DEF AInv, Matches
      <3> QED
        BY <2>1, <2>5, <2>6, <3>4 DEF AInv, Matches
    <2>7. CASE state[p] # "pending"
      <3>1. state[p] \in {"unborn", "pending", "fulfilled", "rejected"}
        BY <2>1 DEF AInv, TypeInv, SlotTypes
      <3> QED
        BY <2>1, <2>7, <3>1 DEF AdoptInv, Adoption
    <2> QED
      BY <2>6, <2>7
  <1>2. Init => AdoptInv
    <2>1. SUFFICES ASSUME Init PROVE AdoptInv
      OBVIOUS
    <2>2. /\ \A p \in Promise, i \in Nat, r \in Registrations : ~Listed(p, i, r)
          /\ \A k, p : ~PairWay(k, p)
          /\ \A x, p : ~JobWay(x, p)
      BY <2>1, RngEmpty DEF Init, Listed, PairWay, JobWay, Jobs
    <2>3. \A p \in Promise : adopts[p] = Nobody /\ state[p] = "unborn"
      BY <2>1 DEF Init
    <2> QED
      BY <2>2, <2>3 DEF AdoptInv, AllBoth, Adoption
  <1>3. AInv /\ WaysInv /\ AdoptInv /\ [Next]_vars => AdoptInv'
    <2>1. ASSUME AInv, AdoptInv, UNCHANGED vars PROVE AdoptInv'
      <3>1. UNCHANGED <<reactions, result, adopts, resolved, started, batch, inner, jobs,
                        held, importing, running, state, target, body, promise_of, enqueued>>
        BY <2>1 DEF vars, slots, objects, drain, async
      <3>2. Jobs' = Jobs
        BY <3>1 DEF Jobs, Rng
      <3>3. Moved({}, {})
        BY <2>1, <3>1, <3>2 DEF Moved, Fresh, AInv, TypeInv, QueueTypes
      <3>4. /\ NoMention(NoPair) /\ AllBoth' /\ NoThenable({}) /\ SameBodies
            /\ \A l : Steady(l, {})
        BY <2>1, <3>1, <3>3, QuietMentions, ListsUnchanged, FewerBoth, QuietSource
           DEF AdoptInv, NoThenable, SameBodies
      <3>5. (Kept' => Kept) /\ \A l : Handed(l)' => InUse(l)
        BY <2>1, <3>1, <3>3, NoneLeaves, HandedKept
      <3> QED
        BY <2>1, <3>1, <3>3, <3>4, <3>5, AdoptionQuiet
    <2> QED
      BY <2>1, AdoptionNext
  <1> QED
    BY <1>1, <1>2, <1>3, Types, WaysAlways, PTL DEF Spec
-----------------------------------------------------------------------------
(* The order of the jobs.                                                  *)

NoImport(S) == \A x \in S : x.job.type # "import"

\* Without import() no drain is nested in another, so that nothing is handed
\* back, and what has been started was enqueued before all that waits.
FlatInv ==
  /\ nested = "none" /\ running.kind # "module"
  /\ NoImport(Jobs)
  /\ \A n \in started, x \in Jobs : n < x.seq

\* The head of the batch is before all the other jobs.
LEMMA HeadFirst ==
  ASSUME AInv, nested = "none", Rest # <<>>
  PROVE  \A x \in Jobs \ {Head(Rest)} : Head(Rest).seq < x.seq
  <1>1. Rest = batch /\ batch \in Seq(Queued) /\ inner = <<>> /\ InOrder(batch)
        /\ Before(Rng(batch), Rng(jobs))
    BY DEF Rest, AInv, TypeInv, PhaseTypes, QueueTypes, QueueInv
  <1>2. Rng(Tail(batch)) = Rng(batch) \ {Head(batch)} /\ Rng(inner) = {}
        /\ \A x \in Rng(Tail(batch)) : Head(batch).seq < x.seq
    BY <1>1, InOrderTail, RngEmpty
  <1>3. Head(batch) \in Rng(batch)
    BY <1>1, RngTail
  <1> QED
    BY <1>1, <1>2, <1>3 DEF Jobs, Before

\* FlatInv is kept by a step that starts no job ...
LEMMA FlatKept ==
  ASSUME AInv, FlatInv, NEW gone, NEW new, Moved(gone, new), NoImport(new),
         started' = started, nested' = nested, running'.kind # "module"
  PROVE  FlatInv'
  <1>1. \A n \in started : n \in Int /\ n <= enqueued
    BY DEF AInv, TypeInv, QueueTypes
  <1>2. \A x \in new : x.seq \in Int /\ x.seq > enqueued
    BY DEF Moved, Fresh, AInv, TypeInv, QueueTypes
  <1>3. enqueued \in Int
    BY DEF AInv, TypeInv, QueueTypes
  <1>4. \A n \in started, x \in new : n < x.seq
    BY <1>1, <1>2, <1>3
  <1>5. Jobs' = (Jobs \ gone) \cup new
    BY DEF Moved
  <1> QED
    BY <1>4, <1>5 DEF FlatInv, NoImport

\* ... and by one that starts the head of the batch.
LEMMA FlatStarts ==
  ASSUME AInv, FlatInv, NEW gone, NEW new, Moved(gone, new), NoImport(new),
         Rest # <<>>, Head(Rest) \in gone, started' = started \cup {Head(Rest).seq},
         nested' = nested, running'.kind # "module"
  PROVE  FlatInv'
  <1>1. PICK h : h = Head(Rest)
    OBVIOUS
  <1>2. \A x \in Jobs \ {h} : h.seq < x.seq
    BY <1>1, HeadFirst DEF FlatInv
  <1>3. h \in Jobs /\ h \in gone /\ started' = started \cup {h.seq}
        /\ Jobs' = (Jobs \ gone) \cup new
    BY <1>1 DEF Moved
  <1>4. \A n \in started \cup {h.seq} : n \in Int /\ n <= enqueued
    BY <1>3 DEF AInv, TypeInv, QueueTypes, QueueInv
  <1>5. \A x \in new : x.seq \in Int /\ x.seq > enqueued
    BY DEF Moved, Fresh, AInv, TypeInv, QueueTypes
  <1>6. enqueued \in Int
    BY DEF AInv, TypeInv, QueueTypes
  <1>7. \A n \in started \cup {h.seq}, x \in new : n < x.seq
    BY <1>4, <1>5, <1>6
  <1>8. \A n \in started \cup {h.seq}, x \in Jobs \ gone : n < x.seq
    BY <1>2, <1>3 DEF FlatInv
  <1>9. NoImport(Jobs')
    BY <1>3 DEF FlatInv, NoImport
  <1> QED
    BY <1>3, <1>7, <1>8, <1>9 DEF FlatInv

\* No operation of promise.rs enqueues an import job.
LEMMA CallsNoImport ==
  ASSUME NEW k, NEW how, NEW v, NEW new, Calls(k, how, v, new)
  PROVE  NoImport(new)
  <1>1. \A p, outcome, w : NoImport(SettleJobs(p, outcome, w))
    BY DEF SettleJobs, NoImport, ReactionJob
  <1>2. \A p, outcome, w : Settles(p, outcome, w, new) => NoImport(new)
    BY <1>1 DEF Settles, NoImport
  <1>3. \A p, w : Resolves(p, w, new) => NoImport(new)
    BY <1>2 DEF Resolves, NoImport, ThenableJob
  <1> QED
    BY <1>2, <1>3 DEF Calls, NoImport

\* ... nor does a body that ends ...
LEMMA BodyEndsNoImport ==
  ASSUME NEW p, NEW v, NEW new, Resolves(p, v, new) \/ Settles(p, "rejected", v, new)
  PROVE  NoImport(new)
  <1>1. \A q, outcome, w : NoImport(SettleJobs(q, outcome, w))
    BY DEF SettleJobs, NoImport, ReactionJob
  <1>2. \A q, outcome, w : Settles(q, outcome, w, new) => NoImport(new)
    BY <1>1 DEF Settles, NoImport
  <1> QED
    BY <1>2 DEF Resolves, NoImport, ThenableJob

\* ... nor does a registration ...
LEMMA RegistersNoImport ==
  ASSUME NEW p, NEW h, NEW g, NEW k, NEW new, Registers(p, h, g, k, new)
  PROVE  NoImport(new)
  BY DEF Registers, NoImport, ReactionJob

\* ... nor does an await.
LEMMA AwaitsNoImport ==
  ASSUME NEW f, NEW v, NEW new, Awaits(f, v, new)
  PROVE  NoImport(new)
  <1>1. \A h : Registers(v, h, h, NoPair, new) => NoImport(new)
    BY RegistersNoImport
  <1>2. AwaitJob(f, v).type = "reaction"
    BY DEF AwaitJob, ReactionJob
  <1> QED
    BY <1>1, <1>2 DEF Awaits, NoImport

\* The end of user code that settles a capability keeps FlatInv ...
LEMMA FlatSettling ==
  ASSUME AInv, FlatInv, NEW k, Settling(k), started' = started, nested' = nested,
         running'.kind # "module"
  PROVE  FlatInv'
  <1>1. CASE Moved({}, {})
    BY <1>1, FlatKept DEF NoImport
  <1>2. CASE Calling(k)
    <2>1. PICK how, v, new : Calls(k, how, v, new) /\ Moved({}, new)
      BY <1>2 DEF Calling
    <2> QED
      BY <2>1, CallsNoImport, FlatKept
  <1> QED
    BY <1>1, <1>2 DEF Settling

\* ... so does a reaction job, which is the head of the batch ...
LEMMA FlatReaction ==
  ASSUME AInv, FlatInv, RunReaction
  PROVE  FlatInv' /\ started' = started \cup {Head(Rest).seq} /\ Head(Rest) \in Jobs
  <1>1. PICK h : h = Head(Rest)
    OBVIOUS
  <1>2. ReactionStep(h) /\ Idle /\ Rest # <<>>
    BY <1>1, ReactionMoves, StartFacts DEF RunReaction
  <1>3. h \in Jobs /\ started' = started \cup {h.seq} /\ running.kind = "none"
    BY <1>2 DEF ReactionStep, Idle, NoCode, Code
  <1>4. CASE Fails(h)
    <2>1. Moved(Rng(Rest), {}) /\ h \in Rng(Rest) /\ running' = running /\ nested' = nested
      BY <1>4 DEF Fails, FailDrain, FlatInv
    <2> QED
      BY <1>1, <1>2, <1>3, <2>1, FlatStarts DEF NoImport
  <1>5. CASE Begins(h)
    <2>1. Moved({h}, {}) /\ nested' = nested /\ running'.kind # "module"
      BY <1>3, <1>5 DEF Begins, Code
    <2> QED
      BY <1>1, <1>2, <1>3, <2>1, FlatStarts DEF NoImport
  <1>6. ASSUME NEW k, NEW new, Answers(h, k, new) PROVE FlatInv'
    <2>1. Moved({h}, new) /\ nested' = nested /\ running' = running
          /\ \E how : Calls(k, how, h.job.arg, new)
      BY <1>6 DEF Answers
    <2> QED
      BY <1>1, <1>2, <1>3, <2>1, CallsNoImport, FlatStarts
  <1> QED
    BY <1>1, <1>2, <1>3, <1>4, <1>5, <1>6 DEF ReactionStep

\* ... so does a thenable job ...
LEMMA FlatThenable ==
  ASSUME AInv, FlatInv, RunThenable
  PROVE  FlatInv' /\ started' = started \cup {Head(Rest).seq} /\ Head(Rest) \in Jobs
  <1>1. PICK h : h = Head(Rest)
    OBVIOUS
  <1>2. PICK k, new : ThenableStep(h, k, new)
    BY <1>1, ThenableMoves
  <1>3. Rest # <<>> /\ h \in Jobs /\ Idle /\ started' = started \cup {h.seq} /\ nested' = nested
    BY <1>1, StartFacts DEF RunThenable
  <1>4. Moved({h}, new) /\ NoImport(new)
    BY <1>2, RegistersNoImport DEF ThenableStep, NoImport
  <1>5. running'.kind # "module"
    BY <1>2, <1>3 DEF ThenableStep, Idle, NoCode, Code
  <1> QED
    BY <1>1, <1>3, <1>4, <1>5, FlatStarts

\* ... and, without import(), so does every step, which starts at most one
\* job.
LEMMA FlatNext ==
  ASSUME "import" \notin Features, AInv, FlatInv, Next
  PROVE  /\ FlatInv'
         /\ \/ started' = started
            \/ \E h \in Jobs : started' = started \cup {h.seq}
  <1>1. NoImport({}) /\ NoCode.kind # "module"
    BY DEF NoImport, NoCode, Code
  <1>2. ~dynamic_import /\ ~ModuleEnds /\ ~SettleImport /\ ~EndNestedDrain
    BY DEF dynamic_import, ModuleEnds, SettleImport, EndNestedDrain, FlatInv
  <1>3. ~RunImport
    BY RunImportMoves DEF FlatInv, NoImport, ImportJobs
  <1>4. CASE New \/ ScriptEnds \/ TakeBatch \/ DrainEnds \/ run_jobs
    <2>1. /\ Moved({}, {}) /\ started' = started /\ nested' = nested
          /\ running' = running \/ running' = NoCode
      BY <1>4, NewMoves, TakeBatchMoves, OtherMoves
         DEF NewStep, New, ScriptEnds, TakeBatch, DrainEnds, run_jobs, drain
    <2> QED
      BY <1>1, <2>1, FlatKept DEF FlatInv
  <1>5. CASE CallResolving
    <2>1. started' = started /\ nested' = nested /\ running' = running
      BY <1>5 DEF CallResolving, drain
    <2> QED
      BY <1>5, <2>1, CallResolvingMoves, FlatSettling DEF Settling, FlatInv
  <1>6. CASE Then
    <2>1. PICK p, h, g, new :
             /\ Moved({}, new)
             /\ \E k : Registers(p, h, g, k, new)
      BY <1>6, ThenMoves DEF ThenNative, ThenSpecies
    <2>2. started' = started /\ nested' = nested /\ running' = running
      BY <1>6 DEF Then, drain
    <2> QED
      BY <2>1, <2>2, RegistersNoImport, FlatKept DEF FlatInv
  <1>7. CASE CallAsync \/ AwaitAgain
    <2>1. started' = started /\ nested' = nested /\ (running' = running \/ running' = NoCode)
      BY <1>7 DEF CallAsync, AwaitAgain, drain
    <2>2. PICK f, v, new : Awaits(f, v, new) /\ Moved({}, new)
      BY <1>7, CallAsyncMoves, AwaitAgainMoves DEF CallAsyncStep
    <2> QED
      BY <1>1, <2>1, <2>2, AwaitsNoImport, FlatKept DEF FlatInv
  <1>8. CASE HandlerEnds
    <2>1. started' = started /\ running' = NoCode
      BY <1>8 DEF HandlerEnds
    <2>2. CASE FailDrain /\ Moved(Rng(Rest), {})
      <3>1. nested' = nested
        BY <2>2 DEF FailDrain, FlatInv
      <3> QED
        BY <1>1, <2>1, <2>2, <3>1, FlatKept
    <2>3. CASE Settling(running.of) /\ nested' = nested
      BY <1>1, <2>1, <2>3, FlatSettling
    <2> QED
      BY <1>8, <2>1, <2>2, <2>3, HandlerEndsMoves
  <1>9. CASE ThenMethodEnds
    <2>1. started' = started /\ running' = NoCode /\ nested' = nested
      BY <1>9 DEF ThenMethodEnds, drain
    <2> QED
      BY <1>1, <1>9, <2>1, ThenMethodEndsMoves, FlatSettling
  <1>10. CASE BodyEnds
    <2>1. PICK p, v, new :
             Moved({}, new) /\ (Resolves(p, v, new) \/ Settles(p, "rejected", v, new))
      BY <1>10, BodyEndsMoves
    <2>2. started' = started /\ running' = NoCode /\ nested' = nested
      BY <1>10 DEF BodyEnds, drain
    <2> QED
      BY <1>1, <2>1, <2>2, BodyEndsNoImport, FlatKept
  <1>11. CASE RunReaction \/ RunThenable
    BY <1>11, FlatReaction, FlatThenable
  <1> QED
    BY <1>2, <1>3, <1>4, <1>5, <1>6, <1>7, <1>8, <1>9, <1>10, <1>11
       DEF Next, UserCall, Complete, Engine

\* Without import() the jobs start in the order in which they were enqueued.
THEOREM FirstInFirstOut == ASSUME "import" \notin Features PROVE Spec => JobsInOrder
  <1>1. Init => FlatInv
    <2>1. SUFFICES ASSUME Init PROVE FlatInv
      OBVIOUS
    <2>2. Jobs = {}
      BY <2>1, RngEmpty DEF Init, Jobs
    <2> QED
      BY <2>1, <2>2 DEF Init, FlatInv, NoImport, Code
  <1>2. AInv /\ FlatInv /\ [Next]_vars
          => /\ FlatInv'
             /\ [\A n \in started' \ started : \A m \in started : m < n]_started
    <2>1. ASSUME AInv, FlatInv, UNCHANGED vars PROVE FlatInv' /\ started' = started
      <3>1. Jobs' = Jobs /\ running' = running /\ started' = started /\ nested' = nested
        BY <2>1 DEF vars, drain, Jobs, Rng
      <3> QED
        BY <2>1, <3>1 DEF FlatInv, NoImport
    <2>2. ASSUME AInv, FlatInv, Next
          PROVE  \/ started' = started
                 \/ \A n \in started' \ started : \A m \in started : m < n
      <3>1. \/ started' = started
            \/ \E h \in Jobs : started' = started \cup {h.seq}
        BY <2>2, FlatNext
      <3> QED
        BY <2>2, <3>1 DEF FlatInv
    <2> QED
      BY <2>1, <2>2, FlatNext
  <1> QED
    BY <1>1, <1>2, Types, PTL DEF Spec, JobsInOrder
=============================================================================
