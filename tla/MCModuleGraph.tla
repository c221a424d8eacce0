---------------------------- MODULE MCModuleGraph ----------------------------
(***************************************************************************)
(* Graphs of sources for ModuleGraph.                                      *)
(***************************************************************************)
EXTENDS ModuleGraph, Functions, TLC

CONSTANTS MaxRequests,      \* BOUND on the requests of all the modules together
          MaxOdd            \* BOUND on the modules that do not simply complete

\* Lists of different modules.
Symmetry == Permutations(Modules)

RequestLists ==
  {<<>>} \cup {<<m>> : m \in Modules} \cup {r \in Modules \X Modules : r[1] # r[2]}

Simple == [loads |-> TRUE, resolves |-> TRUE, body |-> "completes", calls |-> NoModule]

Odd ==
  {[Simple EXCEPT !.loads = FALSE], [Simple EXCEPT !.resolves = FALSE]}
  \cup {[Simple EXCEPT !.body = b] : b \in {"throws", "awaits", "awaitsThenRejects"}}
  \cup {[Simple EXCEPT !.body = b, !.calls = m] :
           b \in {"completes", "throws", "awaitsImport"}, m \in Modules}

AllSources ==
  {[m \in Modules |->
      [requests |-> r[m], loads |-> t[m].loads, resolves |-> t[m].resolves,
       body |-> t[m].body, calls |-> t[m].calls]] :
     r \in {r \in [Modules -> RequestLists] :
              /\ \A m \in Modules : \A i \in DOMAIN r[m] : r[m][i] # m
              /\ SumFunction([m \in Modules |-> Len(r[m])]) <= MaxRequests},
     t \in UNION {{[m \in Modules |-> IF m \in S THEN f[m] ELSE Simple] : f \in [S -> Odd]} :
                    S \in {S \in SUBSET Modules : Cardinality(S) <= MaxOdd}}}

=============================================================================
