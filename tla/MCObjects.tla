----------------------------- MODULE MCObjects -----------------------------
(***************************************************************************)
(* Prototype caches and the storage of an array, which share no state: in  *)
(* each behaviour one of them acts and the other rests in an initial state. *)
(* Objects and values of the caches are interchangeable.                   *)
(***************************************************************************)
EXTENDS PrototypeCaches, ArrayStorage, TLC

VARIABLE storing            \* it is the array that acts

ObjectsInit ==
  /\ storing \in BOOLEAN
  /\ CacheInit /\ ArrayInit
  /\ IF storing THEN \A o \in Objects : proto[o] = NoObject /\ slots[o] = Absent
               ELSE array_length = 0

CachesAct == ~ storing /\ CacheNext /\ UNCHANGED <<storing, arrayVars>>

ArrayActs == storing /\ ArrayNext /\ UNCHANGED <<storing, cacheVars>>

ObjectsNext == CachesAct \/ ArrayActs

ObjectsSpec == ObjectsInit /\ [][ObjectsNext]_<<storing, cacheVars, arrayVars>>

symmetry == Permutations(Objects) \cup Permutations(Values)

=============================================================================
