---------------------------- MODULE AgentCluster ----------------------------
(***************************************************************************)
(* The agent cluster of crates/qjs-runtime/src/agent.rs: the main agent    *)
(* and the workers it (or a worker) starts, each an engine on its own OS   *)
(* thread.  They share an Arc<AgentCluster>, which holds the queue of      *)
(* reports and one Sender per started worker.                              *)
(*                                                                         *)
(* What a script does is free: a running agent may call any native at any  *)
(* time, in any order, and may end.                                        *)
(***************************************************************************)
EXTENDS Integers, Sequences, FiniteSets

CONSTANTS
  Main,
  Workers,                  \* BOUND: the workers that can ever be started
  MaxBroadcasts,            \* BOUND on the broadcasts of a behaviour
  MaxReports                \* BOUND on the reports in the queue

Agents == Workers \cup {Main}

ASSUME ClusterAssumption ==
  /\ IsFiniteSet(Workers) /\ Main \notin Workers
  /\ MaxBroadcasts \in Nat /\ MaxReports \in Nat

VARIABLES
  senders,                  \* workers with a Sender in AgentCluster.senders
  channel,                  \* per worker, what was sent and not received
  receivers,                \* workers whose Receiver is not dropped
  inbox,                    \* agents whose AgentContext.inbox is Some
  reports,                  \* AgentCluster.reports
  thread,                   \* where each agent's thread is
  starting,                 \* the worker whose start an agent is inside of
  failed,                   \* agents whose receiveBroadcast threw
  sent,                     \* history: the buffers broadcast, numbered 1, 2 ...
  joined,                   \* history: broadcasts before each worker's start
  received                  \* history: the buffer each worker's callback got

clusterVars == <<senders, channel, receivers, inbox, reports, thread, starting, failed,
                 sent, joined, received>>

links == <<senders, channel, receivers, inbox, sent, joined, received>>

Nobody == Main              \* an agent is never inside the start of Main

None == 0                   \* no buffer has number 0

ClusterInit ==
  /\ senders = {} /\ channel = [w \in Workers |-> <<>>]
  /\ receivers = {} /\ inbox = {}
  /\ reports = <<>>
  /\ thread = [a \in Agents |-> IF a = Main THEN "running" ELSE "unborn"]
  /\ starting = [a \in Agents |-> Nobody]
  /\ failed = {}
  /\ sent = 0
  /\ joined = [w \in Workers |-> 0] /\ received = [w \in Workers |-> None]

\* An agent whose script can make a call: on its own or inside the callback
\* of receiveBroadcast, and not inside a native.
Active(a) == thread[a] \in {"running", "callback"} /\ starting[a] = Nobody

\* $262.agent.start, first half: register_worker pushes the Sender under the
\* lock of senders.
Register(a) ==
  /\ Active(a)
  /\ \E w \in Workers :
       /\ thread[w] = "unborn" /\ w \notin senders
       /\ senders' = senders \cup {w}
       /\ receivers' = receivers \cup {w}
       /\ joined' = [joined EXCEPT ![w] = sent]
       /\ starting' = [starting EXCEPT ![a] = w]
  /\ UNCHANGED <<channel, inbox, reports, thread, failed, sent, received>>

\* Second half: thread::spawn.  The new thread may run at any time.
Spawn(a) ==
  /\ starting[a] # Nobody
  /\ thread' = [thread EXCEPT ![starting[a]] = "spawned"]
  /\ starting' = [starting EXCEPT ![a] = Nobody]
  /\ UNCHANGED <<links, reports, failed>>

\* run_worker, on the new thread: the context owns the receiver.
Begin(w) ==
  /\ thread[w] = "spawned"
  /\ thread' = [thread EXCEPT ![w] = "running"]
  /\ inbox' = inbox \cup {w}
  /\ UNCHANGED <<senders, channel, receivers, reports, starting, failed, sent, joined, received>>

\* Variant of Broadcast: only to the workers whose thread has begun.
BroadcastToBegun(a) ==
  /\ Active(a) /\ sent < MaxBroadcasts
  /\ sent' = sent + 1
  /\ channel' = [w \in Workers |-> IF w \in receivers /\ thread[w] \notin {"unborn", "spawned"}
                                  THEN Append(channel[w], sent') ELSE channel[w]]
  /\ UNCHANGED <<senders, receivers, inbox, reports, thread, starting, failed, joined, received>>

\* $262.agent.broadcast: to every registered worker, in one section of the
\* lock of senders; a dropped receiver is skipped.
Broadcast(a) ==
  /\ Active(a) /\ sent < MaxBroadcasts
  /\ sent' = sent + 1
  /\ channel' = [w \in Workers |-> IF w \in senders /\ w \in receivers
                                  THEN Append(channel[w], sent') ELSE channel[w]]
  /\ UNCHANGED <<senders, receivers, inbox, reports, thread, starting, failed, joined, received>>

\* $262.agent.receiveBroadcast: take the receiver and block ...
Receive(a) ==
  /\ Active(a) /\ a \in inbox
  /\ inbox' = inbox \ {a}
  /\ thread' = [thread EXCEPT ![a] = "receiving"]
  /\ UNCHANGED <<senders, channel, receivers, reports, starting, failed, sent, joined, received>>

\* ... or throw, on the main agent and the second time.
ReceiveRefused(a) ==
  /\ Active(a) /\ a \notin inbox
  /\ failed' = failed \cup {a}
  /\ UNCHANGED <<links, reports, thread, starting>>

\* Who keeps the cluster, and so every Sender, alive: the context of each
\* agent, and the closure of a thread that has not begun.
HoldsCluster(a) == thread[a] \notin {"unborn", "ended"}

SendersDropped == \A a \in Agents : ~HoldsCluster(a)

\* Variant of Received: the buffer stays in the channel.
ReceivedPeeking(w) ==
  /\ thread[w] = "receiving" /\ channel[w] # <<>>
  /\ received' = [received EXCEPT ![w] = Head(channel[w])]
  /\ thread' = [thread EXCEPT ![w] = "callback"]
  /\ UNCHANGED <<senders, channel, receivers, inbox, reports, starting, failed, sent, joined>>

\* recv returns: with a buffer, and the callback runs; or because the senders
\* were dropped, and receiveBroadcast returns quietly.
Received(w) ==
  /\ thread[w] = "receiving"
  /\ channel[w] # <<>> \/ SendersDropped
  /\ IF channel[w] # <<>>
     THEN /\ received' = [received EXCEPT ![w] = Head(channel[w])]
          /\ channel' = [channel EXCEPT ![w] = Tail(@)]
          /\ thread' = [thread EXCEPT ![w] = "callback"]
     ELSE /\ thread' = [thread EXCEPT ![w] = "running"]
          /\ UNCHANGED <<received, channel>>
  /\ UNCHANGED <<senders, receivers, inbox, reports, starting, failed, sent, joined>>

\* The callback returns (or throws): the receiver goes out of scope.
CallbackReturns(w) ==
  /\ thread[w] = "callback" /\ Active(w)
  /\ thread' = [thread EXCEPT ![w] = "running"]
  /\ receivers' = receivers \ {w}
  /\ channel' = [channel EXCEPT ![w] = <<>>]
  /\ UNCHANGED <<senders, inbox, reports, starting, failed, sent, joined, received>>

\* The agent's source has run; its context, receiver included, is dropped.
Finish(a) ==
  /\ thread[a] = "running" /\ Active(a)
  /\ thread' = [thread EXCEPT ![a] = "ended"]
  /\ inbox' = inbox \ {a}
  /\ receivers' = receivers \ {a}
  /\ channel' = [w \in Workers |-> IF w = a THEN <<>> ELSE channel[w]]
  /\ UNCHANGED <<senders, reports, starting, failed, sent, joined, received>>

\* $262.agent.report
Report(a) ==
  /\ Active(a) /\ Len(reports) < MaxReports
  /\ reports' = Append(reports, a)
  /\ UNCHANGED <<links, thread, starting, failed>>

\* $262.agent.getReport; null, and no step, when there is none.
GetReport(a) ==
  /\ Active(a) /\ reports # <<>>
  /\ reports' = Tail(reports)
  /\ UNCHANGED <<links, thread, starting, failed>>

Native(a) ==
  \/ Register(a) \/ Broadcast(a) \/ Receive(a) \/ ReceiveRefused(a)
  \/ Report(a) \/ GetReport(a)

ClusterNext ==
  \/ \E a \in Agents : Native(a) \/ Spawn(a) \/ Finish(a)
  \/ \E w \in Workers : Begin(w) \/ Received(w) \/ CallbackReturns(w)

ClusterSpec == ClusterInit /\ [][ClusterNext]_clusterVars

\* The operating system runs every thread: a start completes, a thread begins,
\* recv returns when it can, and every script ends once it may.
ClusterFairness ==
  /\ \A a \in Agents : WF_clusterVars(Spawn(a)) /\ WF_clusterVars(Finish(a))
  /\ \A w \in Workers : WF_clusterVars(Begin(w)) /\ WF_clusterVars(Received(w))
                          /\ WF_clusterVars(CallbackReturns(w))

FairClusterSpec == ClusterSpec /\ ClusterFairness

-----------------------------------------------------------------------------
(* Properties.                                                             *)

\* register_worker runs before the thread is spawned, so that "a later broadcast
\* reaches this worker": its callback gets the first buffer broadcast after the
\* start, by whichever agent, however late the worker's thread comes up.
FirstBroadcastReceived ==
  \A w \in Workers : received[w] # None => received[w] = joined[w] + 1

\* Every worker sees one order of broadcasts: while its receiver lives, what is
\* in its channel is what was broadcast after its start and not received.
ChannelsAgree ==
  \A w \in receivers :
    LET first == IF received[w] = None THEN joined[w] + 1 ELSE received[w] + 1
    IN  channel[w] = [k \in 1 .. sent - first + 1 |-> first + k - 1]

\* A worker blocked in receiveBroadcast gets what was broadcast after its start.
BroadcastArrives ==
  \A w \in Workers :
    (thread[w] = "receiving" /\ sent > joined[w]) ~> thread[w] = "callback"

=============================================================================
