------------------------------- MODULE LiveMap -------------------------------
(***************************************************************************)
(* A Map that is walked while it changes (crates/qjs-runtime/src/map.rs    *)
(* and value/map.rs; set.rs and value/set.rs are the same without values). *)
(* A walk is an iterator or a forEach: it remembers a storage position.    *)
(* Values are left out: no step looks at them.                             *)
(***************************************************************************)
EXTENDS Integers, Sequences, FiniteSets

CONSTANTS
  MapKeys, Hole,
  Walks,                    \* iterators and forEach calls
  MaxStorage                \* BOUND on the storage positions

ASSUME LiveMapAssumption == Hole \notin MapKeys /\ MaxStorage \in Nat

VARIABLES
  entries,                  \* the storage: keys, and holes
  index,                    \* position of each key
  live,                     \* the count of live entries
  walks                     \* of each walk: its state, next position, and debt

mapVars == <<entries, index, live, walks>>

(* owed: the keys that have been in the map since they were last added, and *)
(* that this walk has not come by since.  cut: the storage was emptied      *)
(* under it.  Neither is in the code.                                       *)
Walk == [state : {"new", "open", "done"}, next : 1 .. MaxStorage + 1,
         owed : SUBSET MapKeys, cut : BOOLEAN]

MapInit ==
  /\ entries = <<>> /\ index = <<>> /\ live = 0
  /\ walks = [w \in Walks |-> [state |-> "new", next |-> 1, owed |-> {}, cut |-> FALSE]]

has(k) == k \in DOMAIN index

Open(w) == walks[w].state = "open"

\* What the walks owe after k has been added, or has gone.
Owing(k) ==
  [w \in Walks |-> IF Open(w) THEN [walks[w] EXCEPT !.owed = @ \cup {k}] ELSE walks[w]]

Forgiven(ks) ==
  [w \in Walks |-> IF Open(w) THEN [walks[w] EXCEPT !.owed = @ \ ks] ELSE walks[w]]

\* The storage is emptied: a walk that is in the middle keeps its position.
Emptied(ws) ==
  [w \in Walks |-> IF ws[w].state = "open" /\ ws[w].next > 1
                   THEN [ws[w] EXCEPT !.cut = TRUE] ELSE ws[w]]

\* A new key goes to the end; set on an old one is in place.
map_set(k) ==
  /\ ~has(k) /\ Len(entries) < MaxStorage
  /\ entries' = Append(entries, k)
  /\ index' = [j \in DOMAIN index \cup {k} |-> IF j = k THEN Len(entries) + 1 ELSE index[j]]
  /\ live' = live + 1
  /\ walks' = Owing(k)

\* Variant of map_delete: the entries behind it move up.
map_delete_shifting(k) ==
  /\ has(k)
  /\ entries' = [i \in 1 .. Len(entries) - 1 |->
                   IF i < index[k] THEN entries[i] ELSE entries[i + 1]]
  /\ index' = [j \in DOMAIN index \ {k} |->
                 IF index[j] < index[k] THEN index[j] ELSE index[j] - 1]
  /\ live' = live - 1
  /\ walks' = IF live' = 0 THEN Emptied(Forgiven({k})) ELSE Forgiven({k})

\* A hole; but the last entry takes the storage with it (compact_if_sparse).
map_delete(k) ==
  /\ has(k)
  /\ entries' = IF live = 1 THEN <<>> ELSE [entries EXCEPT ![index[k]] = Hole]
  /\ index' = IF live = 1 THEN <<>> ELSE [j \in DOMAIN index \ {k} |-> index[j]]
  /\ live' = live - 1
  /\ walks' = IF live' = 0 THEN Emptied(Forgiven({k})) ELSE Forgiven({k})

map_clear ==
  /\ entries # <<>>
  /\ entries' = <<>> /\ index' = <<>> /\ live' = 0
  /\ walks' = Emptied(Forgiven(MapKeys))

\* getOrInsertComputed, after a callback that has set k itself: delete, then
\* set, so k moves to the end.
get_or_insert_computed(k) ==
  /\ has(k) /\ Len(entries) < MaxStorage
  /\ entries' = Append(IF live = 1 THEN <<>> ELSE [entries EXCEPT ![index[k]] = Hole], k)
  /\ index' = [index EXCEPT ![k] = Len(entries')]
  /\ walks' = IF live = 1 THEN Emptied(Owing(k)) ELSE Owing(k)
  /\ UNCHANGED live

begin_walk(w) ==
  /\ walks[w].state = "new"
  /\ walks' = [walks EXCEPT ![w].state = "open", ![w].owed = DOMAIN index]
  /\ UNCHANGED <<entries, index, live>>

\* The first live position from the walk's on.
Ahead(w) == {i \in walks[w].next .. Len(entries) : entries[i] # Hole}

\* next, or the next round of forEach: come by one entry, or be done for ever.
walk_next(w) ==
  /\ Open(w)
  /\ IF Ahead(w) = {}
     THEN walks' = [walks EXCEPT ![w].state = "done"]
     ELSE LET i == CHOOSE i \in Ahead(w) : \A j \in Ahead(w) : i <= j
          IN  walks' = [walks EXCEPT ![w].next = i + 1,
                                     ![w].owed = @ \ {entries[i]}]
  /\ UNCHANGED <<entries, index, live>>

MapNext ==
  \/ \E k \in MapKeys : map_set(k) \/ map_delete(k) \/ get_or_insert_computed(k)
  \/ map_clear
  \/ \E w \in Walks : begin_walk(w) \/ walk_next(w)

MapSpec == MapInit /\ [][MapNext]_mapVars

-----------------------------------------------------------------------------
(* Properties.                                                             *)

\* The keys that a walk still has before it.
Before(w) == {entries[i] : i \in Ahead(w)}

\* The index and the count are those of the storage, and a walk has before it
\* nothing but what it owes, so it never comes by an entry twice; and all it
\* owes, so it misses none, unless the storage was emptied while it was in the
\* middle (map.rs:334-337, value/map.rs:131-138).
WalksOweTheRest ==
  /\ \A k \in MapKeys, i \in DOMAIN entries :
       entries[i] = k <=> k \in DOMAIN index /\ index[k] = i
  /\ live = Cardinality(DOMAIN index)
  /\ \A w \in Walks :
       /\ Open(w) => Before(w) \subseteq walks[w].owed
       /\ walks[w].state # "new" /\ ~walks[w].cut =>
            walks[w].owed = IF Open(w) THEN Before(w) ELSE {}

=============================================================================
