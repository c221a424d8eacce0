------------------------------ MODULE MCEngine ------------------------------
(***************************************************************************)
(* Seven parts of an engine that share no state, checked side by side: in   *)
(* each behaviour one of them acts and the others rest in an initial state. *)
(* Fairness is that of the async generator and of the agent cluster; what   *)
(* rests owes nothing.                                                      *)
(***************************************************************************)
EXTENDS PromiseCombinators, AsyncGenerator, LiveMap, Disposal, IteratorHelpers, AtomTable,
        AgentCluster

VARIABLE acting             \* the part that acts

Parts == {"combinator", "generator", "map", "disposal", "helper", "atoms", "cluster"}

\* The parts that have several initial states rest in one of them.
EngineInit ==
  /\ acting \in Parts
  /\ Init /\ GeneratorInit /\ MapInit /\ DisposalInit /\ HelperInit
  /\ AtomInit /\ ClusterInit
  /\ acting # "combinator" => kind = "race"
  /\ acting # "disposal" => ~ asynchronous
  /\ acting # "helper" => helper = "map"

CombinatorActs ==
  acting = "combinator" /\ Next
    /\ UNCHANGED <<acting, generatorVars, mapVars, disposalVars, helperVars, atomVars, clusterVars>>

GeneratorActs ==
  acting = "generator" /\ GeneratorNext
    /\ UNCHANGED <<acting, vars, mapVars, disposalVars, helperVars, atomVars, clusterVars>>

MapActs ==
  acting = "map" /\ MapNext
    /\ UNCHANGED <<acting, vars, generatorVars, disposalVars, helperVars, atomVars, clusterVars>>

DisposalActs ==
  acting = "disposal" /\ DisposalNext
    /\ UNCHANGED <<acting, vars, generatorVars, mapVars, helperVars, atomVars, clusterVars>>

HelperActs ==
  acting = "helper" /\ HelperNext
    /\ UNCHANGED <<acting, vars, generatorVars, mapVars, disposalVars, atomVars, clusterVars>>

AtomsAct ==
  acting = "atoms" /\ AtomNext
    /\ UNCHANGED <<acting, vars, generatorVars, mapVars, disposalVars, helperVars, clusterVars>>

ClusterActs ==
  acting = "cluster" /\ ClusterNext
    /\ UNCHANGED <<acting, vars, generatorVars, mapVars, disposalVars, helperVars, atomVars>>

EngineNext ==
  \/ CombinatorActs
  \/ GeneratorActs
  \/ MapActs
  \/ DisposalActs
  \/ HelperActs
  \/ AtomsAct
  \/ ClusterActs

engineVars == <<acting, vars, generatorVars, mapVars, disposalVars, helperVars, atomVars, clusterVars>>

\* ClusterFairness, while it is the cluster that acts.
ClusterActsFairly ==
  /\ \A a \in Agents : WF_clusterVars(acting = "cluster" /\ Spawn(a))
                         /\ WF_clusterVars(acting = "cluster" /\ Finish(a))
  /\ \A w \in Workers : WF_clusterVars(acting = "cluster" /\ Begin(w))
                          /\ WF_clusterVars(acting = "cluster" /\ Received(w))
                          /\ WF_clusterVars(acting = "cluster" /\ CallbackReturns(w))

EngineSpec ==
  EngineInit /\ [][EngineNext]_engineVars /\ GeneratorFairness /\ ClusterActsFairly

=============================================================================
