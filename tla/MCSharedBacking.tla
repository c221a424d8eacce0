-------------------------- MODULE MCSharedBacking --------------------------
(* Instances of SharedBacking for TLC: who calls what.                     *)
EXTENDS SharedBacking

CONSTANTS a1, a2, a3

\* Everything, the operations that put a copy back and a refused wait included.
MixedProgram ==
  [a \in Agents |-> IF a = a1 THEN {"store", "grow", "add", "notify", "wait"}
                    ELSE {"store", "grow", "write", "waitFor", "wait", "notify"}]

\* What keeps memory atomic, waits and notifies among it.
SharedProgram ==
  [a \in Agents |-> IF a = a1 THEN {"load", "write", "add", "notify"}
                    ELSE {"add", "compareExchange", "wait", "waitFor"}]

\* One agent stores to an element while the other adds.
StoreProgram == [a \in Agents |-> IF a = a1 THEN {"store"} ELSE {"add"}]

=============================================================================
