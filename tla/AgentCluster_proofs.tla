------------------------- MODULE AgentCluster_proofs -------------------------
(* What the channels of the agent cluster carry, for any number of workers. *)
EXTENDS AgentCluster, SequenceTheorems, TLAPS

Threads == {"unborn", "spawned", "running", "receiving", "callback", "ended"}

\* The broadcasts numbered first to last.
Window(first, last) == [k \in 1 .. last - first + 1 |-> first + k - 1]

next_due(w) == IF received[w] = None THEN joined[w] + 1 ELSE received[w] + 1

ClusterTypes ==
  /\ senders \subseteq Workers /\ receivers \subseteq senders
  /\ inbox \subseteq receivers
  /\ channel \in [Workers -> Seq(Nat)]
  /\ thread \in [Agents -> Threads] /\ starting \in [Agents -> Agents]
  /\ sent \in Nat /\ joined \in [Workers -> Nat] /\ received \in [Workers -> Nat]

\* The life of a receiver.  A worker inside somebody's start is registered and
\* unborn; until its callback runs it has received nothing.
Lives ==
  /\ \A a \in Agents : starting[a] # Nobody =>
        starting[a] \in receivers /\ thread[starting[a]] = "unborn"
  /\ \A a, b \in Agents : starting[a] = starting[b] /\ starting[a] # Nobody => a = b
  /\ \A w \in Workers :
        /\ thread[w] \in {"unborn", "spawned", "receiving"} \/ w \in inbox
             => received[w] = None
        /\ thread[w] \in {"spawned", "receiving"} => w \in receivers
        /\ thread[w] \in {"receiving", "callback"} => w \notin inbox
        /\ w \notin receivers => channel[w] = <<>>
        /\ joined[w] <= sent /\ received[w] <= sent

Carried == \A w \in receivers : channel[w] = Window(next_due(w), sent)

ClusterInv == ClusterTypes /\ Lives /\ Carried /\ FirstBroadcastReceived

-----------------------------------------------------------------------------
(* Windows of the broadcasts.                                              *)

LEMMA WindowSeq ==
  ASSUME NEW f \in Nat, NEW l \in Nat, f <= l + 1
  PROVE  Window(f, l) \in Seq(Nat) /\ Len(Window(f, l)) = l - f + 1
  <1>1. l - f + 1 \in Nat
    OBVIOUS
  <1>2. \A k \in 1 .. l - f + 1 : f + k - 1 \in Nat
    OBVIOUS
  <1> QED
    BY <1>1, <1>2 DEF Window

LEMMA WindowGrows ==
  ASSUME NEW f \in Nat, NEW l \in Nat, f <= l + 1
  PROVE  Append(Window(f, l), l + 1) = Window(f, l + 1)
  <1> DEFINE s == Append(Window(f, l), l + 1)
  <1>0. Window(f, l) \in Seq(Nat) /\ Len(Window(f, l)) = l - f + 1 /\ l + 1 \in Nat
    BY WindowSeq
  <1>1. s \in Seq(Nat) /\ Len(s) = l - f + 2
    BY <1>0, AppendProperties
  <1>2. Window(f, l + 1) \in Seq(Nat) /\ Len(Window(f, l + 1)) = l - f + 2
    BY WindowSeq
  <1>3. \A k \in 1 .. Len(s) : s[k] = Window(f, l + 1)[k]
    BY <1>0, <1>1, AppendProperties DEF Window
  <1> QED
    BY <1>1, <1>2, <1>3, SeqEqual

LEMMA WindowShrinks ==
  ASSUME NEW f \in Nat, NEW l \in Nat, f <= l
  PROVE  /\ Window(f, l) # <<>> /\ Head(Window(f, l)) = f
         /\ Tail(Window(f, l)) = Window(f + 1, l)
  <1> DEFINE s == Window(f, l)
  <1>1. s \in Seq(Nat) /\ Len(s) = l - f + 1 /\ s # <<>>
    BY WindowSeq
  <1>2. Head(s) = f
    BY <1>1 DEF Window
  <1>3. Window(f + 1, l) \in Seq(Nat) /\ Len(Window(f + 1, l)) = l - f
    <2>1. f + 1 \in Nat /\ f + 1 <= l + 1
      OBVIOUS
    <2>2. Window(f + 1, l) \in Seq(Nat) /\ Len(Window(f + 1, l)) = l - (f + 1) + 1
      BY <2>1, WindowSeq
    <2> QED
      BY <2>2
  <1>4. \A k \in 1 .. l - f : Tail(s)[k] = Window(f + 1, l)[k]
    BY <1>1, HeadTailProperties DEF Window
  <1>5. Tail(s) \in Seq(Nat) /\ Len(Tail(s)) = l - f
    BY <1>1, HeadTailProperties
  <1> QED
    BY <1>1, <1>2, <1>3, <1>4, <1>5, SeqEqual

LEMMA WindowEmpty == ASSUME NEW l \in Nat PROVE Window(l + 1, l) = <<>>
  BY WindowSeq, EmptySeq

-----------------------------------------------------------------------------
(* Every step keeps the invariant.                                         *)

LEMMA ClusterInitial == ClusterInit => ClusterInv
  BY ClusterAssumption DEF ClusterInit, ClusterInv, ClusterTypes, Threads, Lives, Carried,
     FirstBroadcastReceived, Agents, Nobody, None

\* Main is no worker, so an agent inside the start of a worker is not at Nobody.
LEMMA RegisterKeeps == ASSUME ClusterInv, NEW a \in Agents, Register(a) PROVE ClusterInv'
  <1> PICK w \in Workers :
        /\ thread[w] = "unborn" /\ w \notin senders
        /\ senders' = senders \cup {w} /\ receivers' = receivers \cup {w}
        /\ joined' = [joined EXCEPT ![w] = sent]
        /\ starting' = [starting EXCEPT ![a] = w]
    BY DEF Register
  <1> USE DEF ClusterInv
  <1>1. ClusterTypes'
    BY DEF Register, ClusterTypes, Agents
  <1>2. Lives'
    BY ClusterAssumption DEF Register, ClusterTypes, Lives, Agents, Active, Nobody
  <1>3. Carried'
    <2>1. received[w] = None /\ channel[w] = <<>> /\ Window(sent + 1, sent) = <<>>
      BY WindowEmpty DEF Lives, ClusterTypes
    <2> QED
      BY <2>1 DEF Register, Carried, next_due, ClusterTypes, Agents
  <1>4. FirstBroadcastReceived'
    BY DEF Register, FirstBroadcastReceived, Lives, ClusterTypes
  <1> QED
    BY <1>1, <1>2, <1>3, <1>4

LEMMA SpawnKeeps == ASSUME ClusterInv, NEW a \in Agents, Spawn(a) PROVE ClusterInv'
  <1> USE DEF ClusterInv, Spawn, links
  <1>1. ClusterTypes'
    BY DEF ClusterTypes, Threads, Agents, Nobody
  <1>2. Lives'
    BY ClusterAssumption DEF ClusterTypes, Lives, Agents, Nobody
  <1>3. Carried' /\ FirstBroadcastReceived'
    BY DEF Carried, next_due, FirstBroadcastReceived
  <1> QED
    BY <1>1, <1>2, <1>3

LEMMA BeginKeeps == ASSUME ClusterInv, NEW w \in Workers, Begin(w) PROVE ClusterInv'
  <1> USE DEF ClusterInv, Begin
  <1>1. ClusterTypes'
    BY DEF ClusterTypes, Threads, Agents, Lives
  <1>2. Lives'
    BY DEF ClusterTypes, Lives, Agents
  <1>3. Carried' /\ FirstBroadcastReceived'
    BY DEF Carried, next_due, FirstBroadcastReceived
  <1> QED
    BY <1>1, <1>2, <1>3

\* One broadcast lengthens the channel of every live receiver.
LEMMA BroadcastKeeps == ASSUME ClusterInv, NEW a \in Agents, Broadcast(a) PROVE ClusterInv'
  <1> USE DEF ClusterInv, Broadcast
  <1>1. ClusterTypes'
    BY AppendProperties DEF ClusterTypes
  <1>2. Lives'
    BY DEF ClusterTypes, Lives
  <1>3. ASSUME NEW w \in receivers PROVE channel'[w] = Window(next_due(w), sent)'
    <2>1. /\ next_due(w) \in Nat /\ sent \in Nat /\ next_due(w) <= sent + 1
          /\ w \in Workers /\ w \in senders
      BY <1>3 DEF ClusterTypes, Lives, next_due
    <2>2. channel'[w] = Append(Window(next_due(w), sent), sent + 1)
      BY <1>3, <2>1 DEF ClusterTypes, Carried
    <2>3. next_due(w)' = next_due(w)
      BY DEF next_due
    <2>4. Append(Window(next_due(w), sent), sent + 1) = Window(next_due(w), sent + 1)
      BY <2>1, WindowGrows
    <2>5. Window(next_due(w), sent)' = Window(next_due(w), sent + 1)
      BY <2>3 DEF Window
    <2> QED
      BY <2>2, <2>4, <2>5
  <1>4. FirstBroadcastReceived'
    BY DEF FirstBroadcastReceived
  <1> QED
    BY <1>1, <1>2, <1>3, <1>4 DEF Carried

\* recv takes the head of the channel, the first broadcast after the start.
LEMMA ReceivedKeeps == ASSUME ClusterInv, NEW w \in Workers, Received(w) PROVE ClusterInv'
  <1> USE DEF ClusterInv
  <1>0. /\ w \in receivers /\ received[w] = None /\ thread[w] = "receiving"
        /\ channel[w] = Window(joined[w] + 1, sent) /\ joined[w] \in Nat /\ sent \in Nat
        /\ joined[w] <= sent
    BY DEF Received, Lives, ClusterTypes, Carried, next_due
  <1>1. CASE channel[w] # <<>>
    <2>1. joined[w] + 1 <= sent
      BY <1>0, <1>1, WindowEmpty
    <2>2. joined[w] + 1 \in Nat
      BY <1>0
    <2>3. /\ Head(channel[w]) = joined[w] + 1
          /\ Tail(channel[w]) = Window(joined[w] + 2, sent)
      <3> DEFINE f == joined[w] + 1
      <3>1. Head(channel[w]) = f /\ Tail(channel[w]) = Window(f + 1, sent)
        BY <1>0, <2>1, <2>2, WindowShrinks
      <3>2. f + 1 = joined[w] + 2
        BY <1>0
      <3> QED
        BY <3>1, <3>2
    <2>4. /\ received' = [received EXCEPT ![w] = joined[w] + 1]
          /\ channel' = [channel EXCEPT ![w] = Window(joined[w] + 2, sent)]
          /\ thread' = [thread EXCEPT ![w] = "callback"]
          /\ UNCHANGED <<senders, receivers, inbox, starting, sent, joined>>
      BY <1>1, <2>3 DEF Received
    <2>5. w \notin inbox
      BY <1>0 DEF Lives
    <2>6. ClusterTypes'
      <3>1. joined[w] + 2 \in Nat /\ joined[w] + 2 <= sent + 1
        BY <1>0, <2>1
      <3>2. Window(joined[w] + 2, sent) \in Seq(Nat)
        BY <1>0, <3>1, WindowSeq
      <3> QED
        BY <1>0, <2>2, <2>4, <3>2 DEF ClusterTypes, Threads, Agents
    <2>7. Lives'
      BY <1>0, <2>1, <2>4, <2>5 DEF ClusterTypes, Lives, Agents
    <2>8. Carried'
      <3>1. \A v \in receivers : channel'[v] = IF v = w THEN Window(joined[w] + 2, sent)
                                                 ELSE channel[v]
        BY <2>4 DEF ClusterTypes
      <3>2. \A v \in receivers : next_due(v)' = IF v = w THEN joined[w] + 2 ELSE next_due(v)
        BY <1>0, <2>4 DEF ClusterTypes, next_due, None
      <3>3. \A v \in receivers : Window(next_due(v), sent)' = Window(next_due(v)', sent)
        BY <2>4 DEF Window
      <3> QED
        BY <2>4, <3>1, <3>2, <3>3 DEF Carried
    <2>9. FirstBroadcastReceived'
      BY <1>0, <2>4 DEF ClusterTypes, FirstBroadcastReceived
    <2> QED
      BY <2>6, <2>7, <2>8, <2>9
  <1>2. CASE channel[w] = <<>>
    BY <1>0, <1>2 DEF Received, SendersDropped, HoldsCluster, Agents
  <1> QED
    BY <1>1, <1>2

\* What is left changes no channel of a live receiver.
LEMMA OtherKeeps ==
  ASSUME ClusterInv, NEW a \in Agents,
         \/ Receive(a) \/ ReceiveRefused(a) \/ Report(a) \/ GetReport(a) \/ Finish(a)
         \/ a \in Workers /\ CallbackReturns(a)
         \/ UNCHANGED clusterVars
  PROVE  ClusterInv'
  <1> USE DEF ClusterInv
  <1>1. CASE Receive(a)
    <2>1. ClusterTypes' /\ Lives'
      BY <1>1 DEF Receive, Active, ClusterTypes, Threads, Lives, Agents
    <2> QED
      BY <1>1, <2>1 DEF Receive, Carried, next_due, FirstBroadcastReceived
  <1>2. CASE Finish(a)
    <2>1. ClusterTypes'
      BY <1>2 DEF Finish, ClusterTypes, Threads, Agents
    <2>2. Lives'
      BY <1>2 DEF Finish, Active, ClusterTypes, Lives, Agents
    <2> QED
      BY <1>2, <2>1, <2>2 DEF Finish, ClusterTypes, Carried, next_due, FirstBroadcastReceived
  <1>3. CASE a \in Workers /\ CallbackReturns(a)
    <2>1. a \notin inbox
      BY <1>3 DEF CallbackReturns, Lives
    <2>2. ClusterTypes'
      BY <1>3, <2>1 DEF CallbackReturns, ClusterTypes, Threads, Agents
    <2>3. Lives'
      BY <1>3 DEF CallbackReturns, Active, ClusterTypes, Lives, Agents
    <2> QED
      BY <1>3, <2>2, <2>3 DEF CallbackReturns, ClusterTypes, Carried, next_due,
         FirstBroadcastReceived
  <1>4. CASE ReceiveRefused(a) \/ Report(a) \/ GetReport(a) \/ UNCHANGED clusterVars
    <2>1. UNCHANGED <<links, thread, starting>>
      BY <1>4 DEF ReceiveRefused, Report, GetReport, clusterVars, links
    <2> QED
      BY <2>1 DEF links, ClusterTypes, Lives, Carried, next_due, FirstBroadcastReceived
  <1> QED
    BY <1>1, <1>2, <1>3, <1>4

LEMMA ClusterNextKeeps == ClusterInv /\ [ClusterNext]_clusterVars => ClusterInv'
  <1> SUFFICES ASSUME ClusterInv, [ClusterNext]_clusterVars PROVE ClusterInv'
    OBVIOUS
  <1>1. CASE UNCHANGED clusterVars
    BY <1>1, OtherKeeps DEF Agents
  <1>2. CASE ClusterNext
    BY <1>2, RegisterKeeps, SpawnKeeps, BeginKeeps, BroadcastKeeps, ReceivedKeeps, OtherKeeps
       DEF ClusterNext, Native, Agents
  <1> QED
    BY <1>1, <1>2

-----------------------------------------------------------------------------
LEMMA ClusterAlways == ClusterSpec => []ClusterInv
  BY ClusterInitial, ClusterNextKeeps, PTL DEF ClusterSpec

\* register_worker before thread::spawn: the callback of every worker gets the
\* first buffer broadcast after its start, for any number of agents.
THEOREM FirstBroadcastReaches == ClusterSpec => []FirstBroadcastReceived
  <1>1. ClusterInv => FirstBroadcastReceived
    BY DEF ClusterInv
  <1> QED
    BY <1>1, ClusterAlways, PTL

\* Broadcasts of different agents come to all workers in one order: each live
\* receiver's channel is a window of the one sequence of broadcasts.
THEOREM OneOrderOfBroadcasts == ClusterSpec => []ChannelsAgree
  <1>1. ClusterInv => ChannelsAgree
    BY DEF ClusterInv, Carried, ChannelsAgree, Window, next_due
  <1> QED
    BY <1>1, ClusterAlways, PTL

=============================================================================
