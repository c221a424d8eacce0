-------------------------- MODULE Iteration_proofs --------------------------
(* Walks over a map that changes under them, for any number of keys, walks *)
(* and changes; and the release of what was opened: the iterators under a  *)
(* helper, and the resources of a block, for any number of either.         *)
EXTENDS LiveMap, IteratorHelpers, Disposal,
        SequenceTheorems, FiniteSetTheorems, WellFoundedInduction, TLAPS

\* The bound on the storage plays no part, so positions are numbers.
AnyWalk == [state : {"new", "open", "done"}, next : Nat \ {0},
            owed : SUBSET MapKeys, cut : BOOLEAN]

MapTypes ==
  /\ entries \in Seq(MapKeys \cup {Hole})
  /\ DOMAIN index \subseteq MapKeys /\ IsFiniteSet(DOMAIN index)
  /\ \A k \in DOMAIN index : index[k] \in 1 .. Len(entries)
  /\ live = Cardinality(DOMAIN index)
  /\ walks \in [Walks -> AnyWalk]

\* The index finds the keys of the storage.
Indexed ==
  \A k \in MapKeys, i \in DOMAIN entries :
    entries[i] = k <=> k \in DOMAIN index /\ index[k] = i

\* A walk that has not begun is at the first position, and one whose storage
\* was not emptied under it is not beyond the end.
Positions ==
  \A w \in Walks :
    /\ walks[w].state = "new" => walks[w].next = 1 /\ ~walks[w].cut
    /\ Open(w) /\ ~walks[w].cut => walks[w].next <= Len(entries) + 1

Debts ==
  \A w \in Walks :
    /\ Open(w) => Before(w) \subseteq walks[w].owed
    /\ Open(w) /\ ~walks[w].cut => walks[w].owed = Before(w)
    /\ walks[w].state = "done" /\ ~walks[w].cut => walks[w].owed = {}

MapInv == MapTypes /\ Indexed /\ Positions /\ Debts

-----------------------------------------------------------------------------
\* Every set of numbers that is not empty has a smallest.
LEMMA SmallestOf ==
  ASSUME NEW S \in SUBSET Nat, S # {}
  PROVE  \E m \in S : \A k \in S : m <= k
  <1> DEFINE R == {ss \in Nat \X Nat : ss[1] < ss[2]}
  <1>1. OpToRel(<, Nat) = R
    BY DEF OpToRel
  <1>2. IsWellFoundedOn(R, Nat)
    BY <1>1, NatLessThanWellFounded
  <1>3. \A x, y \in Nat : <<y, x>> \in R <=> y < x
    OBVIOUS
  <1> HIDE DEF R
  <1>4. \E x \in S : \A y \in S : ~ (<<y, x>> \in R)
    BY <1>2, WFMin
  <1>5. PICK x \in S : \A y \in S : ~ (<<y, x>> \in R)
    BY <1>4
  <1>6. \A y \in S : ~ (y < x)
    BY <1>3, <1>5
  <1>7. \A y \in S : x <= y
    BY <1>6
  <1> QED
    BY <1>7

\* What a walk has before it are keys of the map, each at its own position.
KeysBefore ==
  \A w \in Walks :
    /\ Before(w) = {k \in DOMAIN index : index[k] >= walks[w].next}
    /\ \A i \in Ahead(w) : entries[i] \in DOMAIN index /\ index[entries[i]] = i

LEMMA BeforeIs == MapTypes /\ Indexed => KeysBefore
  <1> SUFFICES ASSUME MapTypes, Indexed, NEW w \in Walks
               PROVE  /\ Before(w) = {k \in DOMAIN index : index[k] >= walks[w].next}
                      /\ \A i \in Ahead(w) : entries[i] \in DOMAIN index /\ index[entries[i]] = i
    BY DEF KeysBefore
  <1>1. /\ Len(entries) \in Nat /\ DOMAIN entries = 1 .. Len(entries)
        /\ walks[w].next \in Nat \ {0}
        /\ \A i \in DOMAIN entries : entries[i] \in MapKeys \cup {Hole}
    BY DEF MapTypes, AnyWalk
  <1>2. \A i \in Ahead(w) : i \in DOMAIN entries /\ i >= walks[w].next /\ entries[i] \in MapKeys
    BY <1>1 DEF Ahead
  <1>3. \A i \in Ahead(w) : entries[i] \in DOMAIN index /\ index[entries[i]] = i
    BY <1>2 DEF Indexed
  <1>4. \A k \in DOMAIN index : index[k] >= walks[w].next =>
          index[k] \in Ahead(w) /\ entries[index[k]] = k
    BY <1>1, LiveMapAssumption DEF MapTypes, Indexed, Ahead
  <1> QED
    BY <1>2, <1>3, <1>4 DEF Before

\* The same afterwards.
LEMMA BeforeIsNext == MapTypes' /\ Indexed' => KeysBefore'
  <1>1. (MapTypes /\ Indexed => KeysBefore)'
    BY BeforeIs, PTL
  <1> QED
    BY <1>1

LEMMA MapInitial == MapInit => MapInv
  BY FS_EmptySet DEF MapInit, MapInv, MapTypes, AnyWalk, Indexed, Positions, Debts, Open

\* A change of the map preserves the invariant if it keeps the storage and the
\* index together, and its walks owe what is before them afterwards.
LEMMA SetKeeps == ASSUME MapInv, NEW k \in MapKeys, map_set(k) PROVE MapInv'
  <1> USE DEF MapInv
  <1> DEFINE n == Len(entries) + 1
  <1>0. Len(entries) \in Nat /\ DOMAIN entries = 1 .. Len(entries)
    BY DEF MapTypes
  <1>1. /\ entries' \in Seq(MapKeys \cup {Hole}) /\ Len(entries') = n
        /\ DOMAIN entries' = 1 .. n /\ entries'[n] = k
        /\ \A i \in 1 .. Len(entries) : entries'[i] = entries[i]
    BY <1>0, AppendProperties DEF MapTypes, map_set
  <1>2. /\ DOMAIN index' = DOMAIN index \cup {k} /\ k \notin DOMAIN index /\ index'[k] = n
        /\ \A j \in DOMAIN index : index'[j] = index[j]
    BY DEF map_set, has
  <1>3. \A w \in Walks :
          walks'[w] = IF Open(w) THEN [walks[w] EXCEPT !.owed = @ \cup {k}] ELSE walks[w]
    BY DEF map_set, Owing
  <1>4. MapTypes'
    <2>1. IsFiniteSet(DOMAIN index') /\ Cardinality(DOMAIN index') = Cardinality(DOMAIN index) + 1
      BY <1>2, FS_AddElement DEF MapTypes
    <2>2. walks' \in [Walks -> AnyWalk]
      BY DEF MapTypes, AnyWalk, map_set, Owing
    <2>3. \A j \in DOMAIN index' : index'[j] \in 1 .. Len(entries')
      BY <1>0, <1>1, <1>2 DEF MapTypes
    <2> QED
      BY <1>1, <1>2, <2>1, <2>2, <2>3 DEF MapTypes, map_set
  <1>5. Indexed'
    <2> SUFFICES ASSUME NEW j \in MapKeys, NEW i \in 1 .. n
                 PROVE  entries'[i] = j <=> j \in DOMAIN index' /\ index'[j] = i
      BY <1>1 DEF Indexed
    <2>1. CASE i = n
      BY <1>0, <1>1, <1>2, <2>1 DEF MapTypes
    <2>2. CASE i # n
      <3>1. i \in 1 .. Len(entries) /\ entries'[i] = entries[i]
        BY <1>0, <1>1, <2>2
      <3> QED
        BY <1>0, <1>2, <2>2, <3>1 DEF Indexed
    <2> QED
      BY <2>1, <2>2
  <1>6. Positions'
    <2>1. \A w \in Walks : /\ walks'[w].next = walks[w].next /\ walks'[w].state = walks[w].state
                            /\ walks'[w].cut = walks[w].cut /\ walks[w].next \in Nat
      BY <1>3 DEF MapTypes, AnyWalk
    <2> QED
      BY <1>0, <1>1, <2>1 DEF Positions, Open
  <1>7. Debts'
    <2> SUFFICES ASSUME NEW w \in Walks PROVE
           /\ Open(w)' => Before(w)' \subseteq walks'[w].owed
           /\ Open(w)' /\ ~walks'[w].cut => walks'[w].owed = Before(w)'
           /\ walks'[w].state = "done" /\ ~walks'[w].cut => walks'[w].owed = {}
      BY DEF Debts
    <2>1. Before(w) = {j \in DOMAIN index : index[j] >= walks[w].next}
      BY BeforeIs DEF KeysBefore
    <2>2. Before(w)' = {j \in DOMAIN index' : index'[j] >= walks'[w].next}
      BY <1>4, <1>5, BeforeIsNext DEF KeysBefore
    <2>3. /\ walks'[w].next = walks[w].next /\ walks'[w].state = walks[w].state
          /\ walks'[w].cut = walks[w].cut
          /\ walks'[w].owed = IF Open(w) THEN walks[w].owed \cup {k} ELSE walks[w].owed
      BY <1>3 DEF MapTypes, AnyWalk
    <2> QED
      BY <1>0, <1>2, <2>1, <2>2, <2>3 DEF Debts, Positions, Open, MapTypes, AnyWalk
  <1> QED
    BY <1>4, <1>5, <1>6, <1>7

\* A map of one key has nothing else before any walk.
LEMMA OnlyKey ==
  ASSUME MapInv, live = 1, NEW k \in DOMAIN index
  PROVE  DOMAIN index = {k} /\ \A w \in Walks : Before(w) \subseteq {k}
  <1>1. \E x : DOMAIN index = {x}
    BY FS_Singleton DEF MapInv, MapTypes
  <1>2. DOMAIN index = {k}
    BY <1>1
  <1> QED
    BY <1>2, BeforeIs DEF MapInv, KeysBefore

\* The storage is emptied, and with it what any walk owes.
LEMMA EmptyKeeps ==
  ASSUME MapInv, entries' = <<>>, index' = <<>>, live' = 0,
         NEW K \in SUBSET MapKeys, DOMAIN index \subseteq K, walks' = Emptied(Forgiven(K))
  PROVE  MapInv'
  <1> USE DEF MapInv
  <1>1. \A w \in Walks :
          /\ walks'[w].state = walks[w].state /\ walks'[w].next = walks[w].next
          /\ walks'[w].owed = IF Open(w) THEN walks[w].owed \ K ELSE walks[w].owed
          /\ walks'[w].cut <=> walks[w].cut \/ (Open(w) /\ walks[w].next > 1)
    BY DEF MapTypes, AnyWalk, Emptied, Forgiven, Open
  <1>2. walks' \in [Walks -> AnyWalk]
    BY DEF MapTypes, AnyWalk, Emptied, Forgiven, Open
  <1>3. MapTypes' /\ Indexed'
    BY <1>2, FS_EmptySet DEF MapTypes, Indexed
  <1>4. Positions'
    <2>1. \A w \in Walks : walks[w].next \in Nat \ {0}
      BY DEF MapTypes, AnyWalk
    <2>2. Len(entries') = 0
      OBVIOUS
    <2>3. \A w \in Walks : walks[w].state = "new" => walks[w].next = 1 /\ ~walks[w].cut
      BY DEF Positions
    <2>4. \A w \in Walks : walks'[w].state = "new" => walks'[w].next = 1 /\ ~walks'[w].cut
      BY <1>1, <2>3 DEF Open
    <2>5. \A w \in Walks : Open(w)' /\ ~walks'[w].cut => walks'[w].next <= Len(entries') + 1
      <3>1. \A w \in Walks : Open(w)' /\ ~walks'[w].cut => ~(walks[w].next > 1)
        BY <1>1, Zenon DEF Open
      <3>2. \A w \in Walks : ~(walks[w].next > 1) => walks'[w].next <= Len(entries') + 1
        <4> TAKE w \in Walks
        <4>1. walks'[w].next = walks[w].next /\ walks[w].next \in Nat \ {0}
          BY <1>1, <2>1
        <4>2. Len(entries') + 1 = 1
          BY <2>2
        <4> QED
          BY <4>1, <4>2
      <3> QED
        BY <3>1, <3>2
    <2> QED
      BY <2>4, <2>5 DEF Positions
  <1>5. \A w \in Walks : Before(w)' = {}
    BY <1>3, BeforeIsNext DEF KeysBefore
  <1>6. \A w \in Walks : Open(w) /\ ~walks[w].cut => walks[w].owed \subseteq K
    BY BeforeIs DEF KeysBefore, Debts
  <1>7. Debts'
    BY <1>1, <1>5, <1>6 DEF Debts, Open
  <1> QED
    BY <1>3, <1>4, <1>7

LEMMA ClearKeeps == ASSUME MapInv, map_clear PROVE MapInv'
  BY EmptyKeeps DEF map_clear, MapInv, MapTypes

LEMMA DeleteKeeps == ASSUME MapInv, NEW k \in MapKeys, map_delete(k) PROVE MapInv'
  <1> USE DEF MapInv
  <1>0. /\ k \in DOMAIN index /\ Len(entries) \in Nat /\ DOMAIN entries = 1 .. Len(entries)
        /\ index[k] \in 1 .. Len(entries)
    BY DEF map_delete, has, MapTypes
  <1>1. CASE live = 1
    <2>1. entries' = <<>> /\ index' = <<>> /\ live' = 0 /\ walks' = Emptied(Forgiven({k}))
      BY <1>1 DEF map_delete
    <2>2. DOMAIN index = {k}
      BY <1>0, <1>1, OnlyKey
    <2>3. {k} \in SUBSET MapKeys /\ DOMAIN index \subseteq {k}
      BY <2>2
    <2> QED
      BY <2>1, <2>3, EmptyKeeps
  <1>2. CASE live # 1
    <2>1. /\ entries' \in Seq(MapKeys \cup {Hole}) /\ Len(entries') = Len(entries)
          /\ \A i \in 1 .. Len(entries) : entries'[i] = IF i = index[k] THEN Hole ELSE entries[i]
      <3>1. entries' = [entries EXCEPT ![index[k]] = Hole]
        BY <1>2 DEF map_delete
      <3> QED
        BY <1>0, <3>1, ExceptSeq DEF MapTypes
    <2>2. /\ DOMAIN index' = DOMAIN index \ {k}
          /\ \A j \in DOMAIN index \ {k} : index'[j] = index[j]
      BY <1>2 DEF map_delete
    <2>3. /\ IsFiniteSet(DOMAIN index') /\ Cardinality(DOMAIN index') = live - 1
          /\ live \in Nat /\ live # 0
      BY <1>0, <2>2, FS_RemoveElement, FS_CardinalityType, FS_EmptySet DEF MapTypes
    <2>4. live' = live - 1 /\ live' # 0 /\ walks' = Forgiven({k})
      BY <1>2, <2>3 DEF map_delete
    <2>5. \A w \in Walks :
            /\ walks'[w].state = walks[w].state /\ walks'[w].next = walks[w].next
            /\ walks'[w].owed = IF Open(w) THEN walks[w].owed \ {k} ELSE walks[w].owed
            /\ walks'[w].cut = walks[w].cut
      BY <2>4 DEF MapTypes, AnyWalk, Forgiven, Open
    <2>6. MapTypes'
      <3>1. walks' \in [Walks -> AnyWalk]
        BY <2>4 DEF MapTypes, AnyWalk, Forgiven, Open
      <3>2. \A j \in DOMAIN index' : index'[j] \in 1 .. Len(entries')
        BY <2>1, <2>2 DEF MapTypes
      <3> QED
        BY <2>1, <2>2, <2>3, <2>4, <3>1, <3>2 DEF MapTypes
    <2>7. Indexed'
      <3> SUFFICES ASSUME NEW j \in MapKeys, NEW i \in 1 .. Len(entries)
                   PROVE  entries'[i] = j <=> j \in DOMAIN index' /\ index'[j] = i
        BY <2>1 DEF Indexed
      <3>1. entries[i] = j <=> j \in DOMAIN index /\ index[j] = i
        BY <1>0 DEF Indexed
      <3>2. entries[index[k]] = k
        BY <1>0 DEF Indexed
      <3>3. CASE i = index[k]
        <4>1. entries'[i] = Hole /\ j # Hole /\ entries[i] = k
          BY <2>1, <3>2, <3>3, LiveMapAssumption
        <4> QED
          BY <2>2, <3>1, <4>1
      <3>4. CASE i # index[k]
        BY <2>1, <2>2, <3>1, <3>4
      <3> QED
        BY <3>3, <3>4
    <2>8. Positions'
      BY <2>1, <2>5 DEF Positions, Open
    <2>9. \A w \in Walks : Before(w)' = Before(w) \ {k}
      <3>1. KeysBefore /\ KeysBefore'
        BY <2>6, <2>7, BeforeIs, BeforeIsNext
      <3> TAKE w \in Walks
      <3>2. Before(w) = {j \in DOMAIN index : index[j] >= walks[w].next}
        BY <3>1 DEF KeysBefore
      <3>3. Before(w)' = {j \in DOMAIN index' : index'[j] >= walks'[w].next}
        BY <3>1 DEF KeysBefore
      <3>4. Before(w)' = {j \in DOMAIN index \ {k} : index[j] >= walks[w].next}
        BY <2>2, <2>5, <3>3
      <3> QED
        BY <3>2, <3>4
    <2>10. Debts'
      BY <2>5, <2>9 DEF Debts, Open
    <2> QED
      BY <2>6, <2>7, <2>8, <2>10
  <1> QED
    BY <1>1, <1>2

\* The callback had set the key itself: it goes, and comes back at the end.
LEMMA ComputedKeeps ==
  ASSUME MapInv, NEW k \in MapKeys, get_or_insert_computed(k) PROVE MapInv'
  <1> USE DEF MapInv
  <1>0. /\ k \in DOMAIN index /\ Len(entries) \in Nat /\ DOMAIN entries = 1 .. Len(entries)
        /\ index[k] \in 1 .. Len(entries) /\ entries[index[k]] = k
    BY DEF get_or_insert_computed, has, MapTypes, Indexed
  <1>1. /\ live' = live /\ DOMAIN index' = DOMAIN index /\ index'[k] = Len(entries')
        /\ \A j \in DOMAIN index \ {k} : index'[j] = index[j]
    BY <1>0 DEF get_or_insert_computed
  <1>2. /\ walks' \in [Walks -> AnyWalk]
        /\ \A w \in Walks :
            /\ walks'[w].state = walks[w].state /\ walks'[w].next = walks[w].next
            /\ walks'[w].owed = IF Open(w) THEN walks[w].owed \cup {k} ELSE walks[w].owed
            /\ walks'[w].cut <=> walks[w].cut \/ (live = 1 /\ Open(w) /\ walks[w].next > 1)
    BY DEF get_or_insert_computed, MapTypes, AnyWalk, Emptied, Owing, Open
  <1>3. \A w \in Walks : walks[w].next \in Nat \ {0}
    BY DEF MapTypes, AnyWalk
  <1>4. CASE live = 1
    <2>1. DOMAIN index = {k} /\ \A w \in Walks : Before(w) \subseteq {k}
      BY <1>0, <1>4, OnlyKey
    <2>2. entries' = <<k>> /\ Len(entries') = 1 /\ DOMAIN entries' = 1 .. 1 /\ entries'[1] = k
      BY <1>4 DEF get_or_insert_computed
    <2>3. MapTypes'
      BY <1>1, <1>2, <2>1, <2>2 DEF MapTypes
    <2>4. Indexed'
      BY <1>1, <2>1, <2>2 DEF Indexed
    <2>5. \A w \in Walks : Before(w)' = IF walks[w].next = 1 THEN {k} ELSE {}
      <3> TAKE w \in Walks
      <3>1. Before(w)' = {j \in DOMAIN index' : index'[j] >= walks'[w].next}
        BY <2>3, <2>4, BeforeIsNext DEF KeysBefore
      <3>2. Before(w)' = {j \in {k} : 1 >= walks[w].next}
        BY <1>1, <1>2, <2>1, <2>2, <3>1
      <3> QED
        BY <1>3, <3>2
    <2>50. \A w \in Walks : Open(w)' /\ ~walks'[w].cut => Open(w) /\ ~walks[w].cut /\ ~(walks[w].next > 1)
      BY <1>2, <1>4, Zenon DEF Open
    <2>51. \A w \in Walks : ~(walks[w].next > 1) => walks[w].next = 1
      BY <1>3
    <2>6. Positions'
      <3>1. \A w \in Walks : walks[w].next = 1 => walks'[w].next <= Len(entries') + 1
        <4>1. \A w \in Walks : walks'[w].next = walks[w].next
          BY <1>2
        <4>2. Len(entries') + 1 = 2 /\ 1 <= 2
          BY <2>2
        <4> QED
          BY <4>1, <4>2
      <3>2. \A w \in Walks : walks[w].state = "new" => walks[w].next = 1 /\ ~walks[w].cut
        BY DEF Positions
      <3>3. \A w \in Walks : walks'[w].state = "new" => walks'[w].next = 1 /\ ~walks'[w].cut
        BY <1>2, <3>2, Zenon DEF Open
      <3> QED
        BY <2>50, <2>51, <3>1, <3>3 DEF Positions
    <2>7. Debts'
      <3> SUFFICES ASSUME NEW w \in Walks PROVE
             /\ Open(w)' => Before(w)' \subseteq walks'[w].owed
             /\ Open(w)' /\ ~walks'[w].cut => walks'[w].owed = Before(w)'
             /\ walks'[w].state = "done" /\ ~walks'[w].cut => walks'[w].owed = {}
        BY DEF Debts
      <3>1. Open(w)' => Before(w)' \subseteq walks'[w].owed
        BY <1>2, <2>5 DEF Open
      <3>2. ASSUME Open(w)', ~walks'[w].cut PROVE walks'[w].owed = Before(w)'
        <4>1. Open(w) /\ ~walks[w].cut /\ walks[w].next = 1
          BY <2>50, <2>51, <3>2
        <4>2. walks[w].owed \subseteq {k}
          BY <2>1, <4>1 DEF Debts
        <4> QED
          BY <1>2, <2>5, <4>1, <4>2
      <3>3. walks'[w].state = "done" /\ ~walks'[w].cut => walks'[w].owed = {}
        BY <1>2, Zenon DEF Debts, Open
      <3> QED
        BY <3>1, <3>2, <3>3
    <2> QED
      BY <2>3, <2>4, <2>6, <2>7
  <1>5. CASE live # 1
    <2> DEFINE hole == [entries EXCEPT ![index[k]] = Hole]
    <2>0. /\ hole \in Seq(MapKeys \cup {Hole}) /\ Len(hole) = Len(entries)
          /\ \A i \in 1 .. Len(entries) : hole[i] = IF i = index[k] THEN Hole ELSE entries[i]
      BY <1>0, ExceptSeq DEF MapTypes
    <2>00. entries' = Append(hole, k)
      BY <1>5 DEF get_or_insert_computed
    <2> HIDE DEF hole
    <2>1. /\ entries' \in Seq(MapKeys \cup {Hole}) /\ Len(entries') = Len(entries) + 1
          /\ entries'[Len(entries) + 1] = k
          /\ \A i \in 1 .. Len(entries) : entries'[i] = IF i = index[k] THEN Hole ELSE entries[i]
      BY <2>0, <2>00, AppendProperties
    <2>2. MapTypes'
      BY <1>0, <1>1, <1>2, <2>1 DEF MapTypes
    <2>3. Indexed'
      <3> SUFFICES ASSUME NEW j \in MapKeys, NEW i \in 1 .. Len(entries) + 1
                   PROVE  entries'[i] = j <=> j \in DOMAIN index' /\ index'[j] = i
        BY <2>1 DEF Indexed
      <3>1. CASE i = Len(entries) + 1
        <4>1. \A l \in DOMAIN index \ {k} : index'[l] # i
          BY <1>0, <1>1, <3>1 DEF MapTypes
        <4> QED
          BY <1>0, <1>1, <2>1, <3>1, <4>1
      <3>2. CASE i \in 1 .. Len(entries) /\ i = index[k]
        <4>1. entries'[i] = Hole /\ j # Hole
          BY <2>1, <3>2, LiveMapAssumption
        <4>2. index'[k] # i
          BY <1>0, <1>1, <2>1, <3>2
        <4>3. j # k => ~(j \in DOMAIN index /\ index[j] = i)
          BY <1>0, <3>2 DEF Indexed
        <4> QED
          BY <1>1, <4>1, <4>2, <4>3
      <3>3. CASE i \in 1 .. Len(entries) /\ i # index[k]
        <4>1. entries'[i] = entries[i] /\ index'[k] # i
          BY <1>0, <1>1, <2>1, <3>3
        <4>2. entries[i] = j <=> j \in DOMAIN index /\ index[j] = i
          BY <1>0, <3>3 DEF Indexed
        <4> QED
          BY <1>1, <3>3, <4>1, <4>2
      <3> QED
        BY <1>0, <3>1, <3>2, <3>3
    <2>40. \A w \in Walks : ~walks'[w].cut => ~walks[w].cut
      BY <1>2, Zenon
    <2>41. \A w \in Walks : walks[w].state = "new" => ~walks'[w].cut
      BY <1>2, <1>5, Zenon DEF Positions
    <2>4. Positions'
      <3>1. \A w \in Walks : walks'[w].state = walks[w].state /\ walks'[w].next = walks[w].next
        BY <1>2
      <3>2. \A w \in Walks : walks[w].state = "new" => walks[w].next = 1
        BY DEF Positions
      <3>3. \A w \in Walks : Open(w) /\ ~walks'[w].cut => walks[w].next <= Len(entries) + 1
        BY <2>40 DEF Positions
      <3>4. \A w \in Walks : walks[w].next <= Len(entries) + 1 => walks[w].next <= Len(entries') + 1
        BY <1>0, <1>3, <2>1
      <3> QED
        BY <2>41, <3>1, <3>2, <3>3, <3>4 DEF Positions, Open
    <2>5. \A w \in Walks :
            Before(w)' = (Before(w) \ {k}) \cup (IF walks[w].next <= Len(entries) + 1 THEN {k} ELSE {})
      <3> TAKE w \in Walks
      <3>1. Before(w) = {j \in DOMAIN index : index[j] >= walks[w].next}
        BY BeforeIs DEF KeysBefore
      <3>2. Before(w)' = {j \in DOMAIN index' : index'[j] >= walks'[w].next}
        BY <2>2, <2>3, BeforeIsNext DEF KeysBefore
      <3>3. Before(w)' = {j \in DOMAIN index : index'[j] >= walks[w].next}
        BY <1>1, <1>2, <3>2
      <3> QED
        BY <1>0, <1>1, <1>3, <2>1, <3>1, <3>3
    <2>6. \A w \in Walks : Open(w) /\ ~walks[w].cut => walks[w].next <= Len(entries) + 1
      BY DEF Positions
    <2>7. Debts'
      <3> SUFFICES ASSUME NEW w \in Walks PROVE
             /\ Open(w)' => Before(w)' \subseteq walks'[w].owed
             /\ Open(w)' /\ ~walks'[w].cut => walks'[w].owed = Before(w)'
             /\ walks'[w].state = "done" /\ ~walks'[w].cut => walks'[w].owed = {}
        BY DEF Debts
      <3>1. Open(w)' => Before(w)' \subseteq walks'[w].owed
        BY <1>2, <2>5 DEF Debts, Open
      <3>2. ASSUME Open(w)', ~walks'[w].cut PROVE walks'[w].owed = Before(w)'
        <4>1. Open(w) /\ ~walks[w].cut /\ walks[w].next <= Len(entries) + 1
          BY <1>2, <2>40, <2>6, <3>2 DEF Open
        <4>2. walks[w].owed = Before(w)
          BY <4>1 DEF Debts
        <4>3. walks'[w].owed = walks[w].owed \cup {k}
          BY <1>2, <4>1
        <4>4. Before(w)' = (Before(w) \ {k}) \cup {k}
          BY <2>5, <4>1
        <4> QED
          BY <4>2, <4>3, <4>4
      <3>3. walks'[w].state = "done" /\ ~walks'[w].cut => walks'[w].owed = {}
        BY <1>2, <2>40, Zenon DEF Debts, Open
      <3> QED
        BY <3>1, <3>2, <3>3
    <2> QED
      BY <2>2, <2>3, <2>4, <2>7
  <1> QED
    BY <1>4, <1>5

-----------------------------------------------------------------------------
LEMMA BeginKeeps == ASSUME MapInv, NEW w \in Walks, begin_walk(w) PROVE MapInv'
  <1> USE DEF MapInv
  <1>0. /\ UNCHANGED <<entries, index, live>>
        /\ Len(entries) \in Nat /\ walks[w].next = 1 /\ ~walks[w].cut
    BY DEF begin_walk, MapTypes, Positions
  <1>1. /\ walks'[w].state = "open" /\ walks'[w].owed = DOMAIN index
        /\ walks'[w].next = 1 /\ ~walks'[w].cut
        /\ \A v \in Walks \ {w} : walks'[v] = walks[v]
    BY <1>0 DEF begin_walk, MapTypes, AnyWalk
  <1>2. MapTypes' /\ Indexed'
    <2>1. walks' \in [Walks -> AnyWalk]
      BY DEF begin_walk, MapTypes, AnyWalk
    <2> QED
      BY <1>0, <2>1 DEF MapTypes, Indexed
  <1>3. Positions'
    BY <1>0, <1>1 DEF Positions, Open
  <1>4. Before(w)' = DOMAIN index
    <2>1. Before(w)' = {j \in DOMAIN index' : index'[j] >= walks'[w].next}
      BY <1>2, BeforeIsNext DEF KeysBefore
    <2>2. \A j \in DOMAIN index : index[j] >= 1
      BY DEF MapTypes
    <2> QED
      BY <1>0, <1>1, <2>1, <2>2
  <1>5. \A v \in Walks \ {w} : Before(v)' = Before(v)
    BY <1>0, <1>1 DEF Before, Ahead
  <1>6. Debts'
    BY <1>1, <1>4, <1>5 DEF Debts, Open
  <1> QED
    BY <1>2, <1>3, <1>6

\* A walk comes by the first entry it has before it, or by none and is done.
LEMMA WalkKeeps == ASSUME MapInv, NEW w \in Walks, walk_next(w) PROVE MapInv'
  <1> USE DEF MapInv
  <1>0. /\ walks[w] \in AnyWalk /\ walks[w].next \in Nat \ {0} /\ Len(entries) \in Nat
        /\ walks[w].state = "open" /\ UNCHANGED <<entries, index, live>>
    BY DEF walk_next, MapTypes, AnyWalk, Open
  <1>1. CASE Ahead(w) = {}
    <2>1. /\ walks'[w].state = "done" /\ walks'[w].next = walks[w].next
          /\ walks'[w].owed = walks[w].owed /\ walks'[w].cut = walks[w].cut
          /\ \A v \in Walks \ {w} : walks'[v] = walks[v]
      BY <1>1 DEF walk_next, MapTypes, AnyWalk
    <2>2. MapTypes' /\ Indexed' /\ Positions'
      <3>1. walks' \in [Walks -> AnyWalk]
        <4>1. walks' = [walks EXCEPT ![w].state = "done"]
          BY <1>1 DEF walk_next
        <4> QED
          BY <4>1 DEF MapTypes, AnyWalk
      <3> QED
        BY <1>0, <2>1, <3>1 DEF MapTypes, Indexed, Positions, Open
    <2>3. Before(w) = {} /\ \A v \in Walks \ {w} : Before(v)' = Before(v)
      BY <1>0, <1>1, <2>1 DEF Before, Ahead
    <2>4. Debts'
      BY <1>0, <2>1, <2>3 DEF Debts, Open
    <2> QED
      BY <2>2, <2>4
  <1>2. CASE Ahead(w) # {}
    <2>1. Ahead(w) \in SUBSET Nat
      BY <1>0 DEF Ahead
    <2> PICK i \in Ahead(w) :
          /\ \A j \in Ahead(w) : i <= j
          /\ walks' = [walks EXCEPT ![w].next = i + 1, ![w].owed = @ \ {entries[i]}]
      BY <1>2, <2>1, SmallestOf DEF walk_next
    <2>2. i \in Nat /\ i >= walks[w].next /\ i <= Len(entries)
      BY <1>0 DEF Ahead
    <2>3. /\ walks'[w].next = i + 1 /\ walks'[w].owed = walks[w].owed \ {entries[i]}
          /\ walks'[w].state = "open" /\ walks'[w].cut = walks[w].cut
          /\ \A v \in Walks \ {w} : walks'[v] = walks[v]
      BY <1>0 DEF MapTypes, AnyWalk
    <2>4. MapTypes' /\ Indexed'
      <3>1. i + 1 \in Nat \ {0}
        BY <2>2
      <3>2. walks' \in [Walks -> AnyWalk]
        BY <3>1 DEF MapTypes, AnyWalk
      <3> QED
        BY <1>0, <3>2 DEF MapTypes, Indexed
    <2>5. Positions'
      <3>1. walks'[w].next <= Len(entries) + 1
        BY <1>0, <2>2, <2>3
      <3>2. \A v \in Walks \ {w} :
              /\ walks'[v].state = "new" => walks'[v].next = 1 /\ ~walks'[v].cut
              /\ Open(v)' /\ ~walks'[v].cut => walks'[v].next <= Len(entries) + 1
        BY <2>3 DEF Positions, Open
      <3> QED
        BY <1>0, <2>3, <3>1, <3>2 DEF Positions
    <2>6. Before(w)' = Before(w) \ {entries[i]}
      <3>1. Before(w) = {j \in DOMAIN index : index[j] >= walks[w].next}
        BY BeforeIs DEF KeysBefore
      <3>2. Before(w)' = {j \in DOMAIN index : index[j] >= i + 1}
        <4>1. Before(w)' = {j \in DOMAIN index' : index'[j] >= walks'[w].next}
          BY <2>4, BeforeIsNext DEF KeysBefore
        <4> QED
          BY <1>0, <2>3, <4>1
      <3>3. entries[i] \in DOMAIN index /\ index[entries[i]] = i
        BY BeforeIs DEF KeysBefore
      <3>4. \A j \in DOMAIN index : index[j] >= walks[w].next => index[j] \in Ahead(w)
        <4>1. \A j \in DOMAIN index : entries[index[j]] = j /\ index[j] \in 1 .. Len(entries) /\ j # Hole
          BY LiveMapAssumption DEF MapTypes, Indexed
        <4> QED
          BY <1>0, <4>1 DEF Ahead
      <3>5. \A j \in DOMAIN index : index[j] = i => j = entries[i]
        BY <1>0 DEF MapTypes, Indexed
      <3>6. \A j \in DOMAIN index : index[j] \in Nat
        BY DEF MapTypes
      <3> QED
        BY <1>0, <2>2, <3>1, <3>2, <3>3, <3>4, <3>5, <3>6
    <2>7. \A v \in Walks \ {w} : Before(v)' = Before(v)
      BY <1>0, <2>3 DEF Before, Ahead
    <2>8. Debts'
      BY <1>0, <2>3, <2>6, <2>7 DEF Debts, Open
    <2> QED
      BY <2>4, <2>5, <2>8
  <1> QED
    BY <1>1, <1>2

-----------------------------------------------------------------------------
LEMMA MapNextKeeps == MapInv /\ [MapNext]_mapVars => MapInv'
  <1>1. MapInv /\ UNCHANGED mapVars => MapInv'
    BY DEF mapVars, MapInv, MapTypes, Indexed, Positions, Debts, Open, Before, Ahead
  <1> QED
    BY <1>1, SetKeeps, ClearKeeps, DeleteKeeps, ComputedKeeps, BeginKeeps, WalkKeeps DEF MapNext

\* While a Map changes, each iterator and each forEach has before it exactly
\* the keys it has not come by since they were added - none twice, none missed -
\* unless the storage was emptied while it was in the middle: for any number of
\* keys, walks and changes, and any length of the storage.
THEOREM WalksAreExact == MapSpec => []WalksOweTheRest
  <1>1. MapInv => WalksOweTheRest
    BY DEF MapInv, MapTypes, Indexed, Debts, WalksOweTheRest, AnyWalk, Open
  <1> QED
    BY <1>1, MapInitial, MapNextKeeps, PTL DEF MapSpec


-----------------------------------------------------------------------------
(* Every iterator a helper opens is released, for any number of them,      *)
(* whatever fails on the way.                                              *)

\* The iterators that somebody still owes a next or a return.
Unreleased == opened \ (over \cup Range(closed))

\* What an idle helper, or one that takes a value, keeps open.
Held ==
  IF helper \in Zips THEN entry_open
  ELSE (IF active = NoItem THEN {} ELSE {active})
         \cup (IF helper = "concat" THEN {} ELSE {Source})

Ended == native = "failed" \/ (native = "none" /\ helper_done)

HelperTypes ==
  /\ helper \in HelperKinds /\ zip_mode \in ZipModes
  /\ items \in 0 .. MaxItems /\ active \in 0 .. items
  /\ helper \notin {"flatMap", "concat"} => active = NoItem
  /\ entry_open \subseteq 1 .. items /\ at \in Nat
  /\ helper_started \in BOOLEAN /\ helper_executing \in BOOLEAN /\ helper_done \in BOOLEAN
  /\ produced \in BOOLEAN /\ matching \in BOOLEAN /\ inner_failed \in BOOLEAN
  /\ native \in {"construct", "next", "return", "none", "failed"}
  /\ calling \in {"next", "callback", "padding", "return"}
  /\ to_close \in Seq(0 .. items) /\ closed \in Seq(opened \ over)
  /\ opened \subseteq {Source, Padding} \cup 1 .. items
  /\ over \subseteq opened

\* Who may be at what.
NativesAt ==
  /\ calling # "next" => native \in {"construct", "next", "return"}
  /\ native = "return" => calling = "return"
  /\ calling = "callback" => /\ native = "next" /\ helper \in {"map", "filter", "flatMap"}
                             /\ active = NoItem
  /\ calling = "padding" => native = "construct" /\ helper \in Zips /\ at <= items
  /\ native = "construct" => ~ helper_executing /\ ~ helper_done
  /\ native = "next" => helper_executing /\ ~ helper_done
  /\ native = "return" => helper_executing \/ helper_done
  /\ native = "none" => ~ helper_executing

\* What is open is what somebody is going to release.
OpenIsOwed ==
  /\ Ended => Unreleased \subseteq (IF inner_failed THEN {Source} ELSE {})
  /\ calling = "return" => to_close # <<>> /\ Unreleased = Range(to_close)
  /\ ~ Ended /\ calling # "return" /\ native # "construct" => Unreleased = Held
  /\ native = "construct" /\ calling = "next" => at = 0 /\ Padding \notin opened
  /\ native = "construct" /\ calling = "next" =>
       Unreleased = 1 .. items \cup (IF helper \in {"concat", "zipKeyed"} THEN {} ELSE {Source})
  /\ native = "construct" /\ helper \notin Zips => items = 0
  /\ native = "construct" /\ calling = "padding" =>
       Unreleased = 1 .. items \cup (IF helper = "zip" THEN {Padding} ELSE {})

\* Nothing waits twice to be closed, and only a flatMap closes two one of
\* which may leave the other open.
ClosedInOrder ==
  /\ IsInjective(closed)
  /\ calling = "return" => IsInjective(to_close)
  /\ calling = "return" /\ helper \notin Zips =>
       \/ Len(to_close) = 1
       \/ helper = "flatMap" /\ Len(to_close) = 2 /\ to_close[1] # Source /\ to_close[2] = Source
  /\ helper \in Zips =>
       /\ \A i, j \in DOMAIN closed : i < j /\ closed[i] # Padding => closed[i] > closed[j]
       /\ ~ Ended /\ calling # "return" => Range(closed) \subseteq {Padding}
       /\ calling = "return" =>
            /\ \A i, j \in DOMAIN to_close : i < j => to_close[i] > to_close[j]
            /\ \A i \in DOMAIN closed, j \in DOMAIN to_close :
                 closed[i] # Padding => closed[i] > to_close[j]

\* The records a round has passed have ended, unless one gave a value.
RoundEnded ==
  native = "next" /\ calling = "next" /\ helper \in Zips /\ (matching \/ ~ produced) =>
    \A k \in entry_open : k >= at

HelperInv == HelperTypes /\ NativesAt /\ OpenIsOwed /\ ClosedInOrder /\ RoundEnded

-----------------------------------------------------------------------------
(* The order in which zip closes                                           *)

\* The position of x in S, counted from its greatest element.
Rank(x, S) == Cardinality({y \in S : y >= x})

LEMMA RankFalls ==
  ASSUME NEW S \in SUBSET Nat, IsFiniteSet(S), NEW x \in S, NEW y \in S
  PROVE  /\ Rank(x, S) \in 1 .. Cardinality(S)
         /\ x > y <=> Rank(x, S) < Rank(y, S)
  <1>1. ASSUME NEW z \in S PROVE Rank(z, S) \in 1 .. Cardinality(S)
    <2>1. {u \in S : u >= z} \in SUBSET S /\ z \in {u \in S : u >= z}
      OBVIOUS
    <2>2. IsFiniteSet({u \in S : u >= z}) /\ Rank(z, S) <= Cardinality(S)
      BY <2>1, FS_Subset DEF Rank
    <2>3. Rank(z, S) \in Nat /\ Rank(z, S) # 0
      BY <2>1, <2>2, FS_CardinalityType, FS_EmptySet DEF Rank
    <2>4. Cardinality(S) \in Nat
      BY FS_CardinalityType
    <2> QED
      BY <2>2, <2>3, <2>4
  <1>2. ASSUME NEW z \in S, NEW w \in S, z > w PROVE Rank(z, S) < Rank(w, S)
    <2>1. PICK U : U = {u \in S : u >= w}
      OBVIOUS
    <2>2. PICK V : V = {u \in S : u >= z}
      OBVIOUS
    <2>3. z \in Nat /\ w \in Nat
      OBVIOUS
    <2>4. V \subseteq U
      <3>1. \A u \in S : u \in Nat /\ (u >= z => u >= w)
        BY <1>2, <2>3
      <3> QED
        BY <2>1, <2>2, <3>1
    <2>5. w \in U /\ w \notin V
      BY <1>2, <2>1, <2>2, <2>3
    <2>6. IsFiniteSet(U)
      BY <2>1, FS_Subset
    <2>7. Cardinality(V) <= Cardinality(U) /\ Cardinality(V) # Cardinality(U)
      BY <2>4, <2>5, <2>6, FS_Subset
    <2>8. Cardinality(V) = Rank(z, S) /\ Cardinality(U) = Rank(w, S)
      BY <2>1, <2>2 DEF Rank
    <2> QED
      BY <1>1, <2>7, <2>8
  <1>3. Cardinality(S) \in Nat
    BY FS_CardinalityType
  <1> QED
    BY <1>1, <1>2, <1>3

\* It is the decreasing enumeration of S.
LEMMA ZipOrderDecreases ==
  ASSUME NEW S \in SUBSET Nat, IsFiniteSet(S), NEW s, s = ZipOrder(S)
  PROVE  /\ s \in Seq(S) /\ Range(s) = S /\ IsInjective(s)
         /\ \A i, j \in DOMAIN s : i < j => s[i] > s[j]
  <1>1. PICK n \in Nat : n = Cardinality(S)
    BY FS_CardinalityType
  <1>2. PICK r : r = [x \in S |-> Rank(x, S)]
    OBVIOUS
  <1>3. r \in Injection(S, 1 .. n)
    <2>1. \A x \in S : r[x] \in 1 .. n
      BY <1>1, <1>2, RankFalls
    <2>2. \A x, y \in S : r[x] = r[y] => x = y
      <3>1. SUFFICES ASSUME NEW x \in S, NEW y \in S, r[x] = r[y] PROVE x = y
        OBVIOUS
      <3>2. ~ (x > y) /\ ~ (y > x)
        BY <1>1, <1>2, <2>1, <3>1, RankFalls
      <3> QED
        BY <3>2
    <2> QED
      BY <1>2, <2>1, <2>2 DEF Injection, IsInjective
  <1>4. IsFiniteSet(1 .. n) /\ Cardinality(1 .. n) = n
    BY FS_Interval
  <1>5. r \in Surjection(S, 1 .. n)
    BY <1>1, <1>3, <1>4, FS_Injection
  <1>6. \A i \in 1 .. n : \E x \in S : r[x] = i
    BY <1>5 DEF Surjection
  <1>7. PICK t : t = [i \in 1 .. n |-> CHOOSE x \in S : r[x] = i]
    OBVIOUS
  <1>8. t \in [1 .. n -> S] /\ \A i \in 1 .. n : r[t[i]] = i
    BY <1>6, <1>7
  <1>9. \A i, j \in DOMAIN t : i < j => t[i] > t[j]
    BY <1>1, <1>2, <1>8, RankFalls
  <1>10. s \in [1 .. n -> S] /\ \A i, j \in DOMAIN s : i < j => s[i] > s[j]
    BY <1>1, <1>8, <1>9 DEF ZipOrder
  <1>11. s \in Seq(S)
    BY <1>10
  <1>12. \A i, j \in 1 .. n : s[i] = s[j] => i = j
    <2>1. SUFFICES ASSUME NEW i \in 1 .. n, NEW j \in 1 .. n, s[i] = s[j], i # j PROVE FALSE
      OBVIOUS
    <2>2. s[i] \in Nat /\ DOMAIN s = 1 .. n
      BY <1>10
    <2>3. i < j \/ j < i
      BY <2>1
    <2> QED
      BY <1>10, <2>1, <2>2, <2>3
  <1>13. IsInjective(s)
    BY <1>10, <1>12 DEF IsInjective
  <1>14. Range(s) = S
    <2>1. s \in Injection(1 .. n, S)
      BY <1>10, <1>12 DEF Injection, IsInjective
    <2>2. s \in Surjection(1 .. n, S)
      BY <1>1, <1>4, <2>1, FS_Injection
    <2> QED
      BY <1>10, <2>2 DEF Surjection, Range
  <1> QED
    BY <1>10, <1>11, <1>13, <1>14

-----------------------------------------------------------------------------
(* How a native ends, closes or goes on                                    *)

LEMMA HelperInitInv == HelperInit => HelperInv
  <1> SUFFICES ASSUME HelperInit PROVE HelperInv
    OBVIOUS
  <1>1. HelperTypes
    <2> USE DEF HelperInit, Source, NoItem, Padding
    <2>1. /\ helper \in HelperKinds /\ zip_mode \in ZipModes
          /\ items = 0 /\ active = 0 /\ at = 0 /\ entry_open = {}
          /\ to_close = <<>> /\ closed = <<>> /\ over = {} /\ opened \subseteq {0}
      OBVIOUS
    <2>2. /\ helper_started \in BOOLEAN /\ helper_executing \in BOOLEAN /\ helper_done \in BOOLEAN
          /\ produced \in BOOLEAN /\ matching \in BOOLEAN /\ inner_failed \in BOOLEAN
          /\ native = "construct" /\ calling = "next"
      OBVIOUS
    <2> QED
      BY <2>1, <2>2, HelperAssumption DEF HelperTypes
  <1>2. NativesAt
    BY DEF HelperInit, NativesAt
  <1>3. Unreleased = IF helper \in {"concat", "zipKeyed"} THEN {} ELSE {Source}
    BY DEF HelperInit, Unreleased, Range
  <1>4. OpenIsOwed
    BY <1>3, HelperAssumption DEF HelperInit, OpenIsOwed, Ended, Source, Padding
  <1>5. ClosedInOrder /\ RoundEnded
    BY DEF HelperInit, ClosedInOrder, RoundEnded, IsInjective, Range
  <1> QED
    BY <1>1, <1>2, <1>4, <1>5 DEF HelperInv

\* What is said of the calls of return while none is under way.
ClosedBefore(c) == IsInjective(c) /\ (helper \in Zips => Range(c) \subseteq {Padding})

LEMMA ClosedBeforeHolds ==
  ASSUME HelperInv, ~ Ended, calling # "return"
  PROVE  ClosedBefore(closed)
  BY DEF HelperInv, ClosedInOrder, ClosedBefore

LEMMA ClosedBeforeOrder ==
  ASSUME NEW c, Range(c) \subseteq {Padding}
  PROVE  \A i, j \in DOMAIN c : i < j /\ c[i] # Padding => c[i] > c[j]
  BY DEF Range

\* Construction or next ends: made or with a value, what is held is open; done or
\* failed, nothing is.
LEMMA ReturnsKeeps ==
  ASSUME HelperInv, HelperTypes', NEW done \in BOOLEAN, Returns(done),
         native \in {"construct", "next"}, calling # "return",
         helper' = helper, ClosedBefore(closed'),
         done => Unreleased' \subseteq (IF inner_failed' THEN {Source} ELSE {}),
         ~ done => Unreleased' = Held'
  PROVE  HelperInv'
  <1>1. /\ native' = (IF native = "construct" /\ done THEN "failed" ELSE "none")
        /\ helper_executing' = FALSE /\ helper_done' = done /\ calling' = "next"
    BY DEF Returns, HelperInv, NativesAt, HelperTypes
  <1>2. NativesAt'
    BY <1>1 DEF NativesAt
  <1>3. Ended' <=> done
    BY <1>1 DEF Ended
  <1>4. OpenIsOwed'
    BY <1>1, <1>3 DEF OpenIsOwed
  <1>5. ClosedInOrder'
    BY <1>1, ClosedBeforeOrder DEF ClosedInOrder, ClosedBefore
  <1>6. RoundEnded'
    BY <1>1 DEF RoundEnded
  <1> QED
    BY <1>2, <1>4, <1>5, <1>6 DEF HelperInv

\* It closes what is open.
LEMMA ClosesKeeps ==
  ASSUME HelperInv, HelperTypes', NEW order, Closes(order),
         native \in {"construct", "next"}, calling # "return",
         helper' = helper, ClosedBefore(closed'),
         Unreleased' = Range(order), order \in Seq(0 .. items),
         helper \notin Zips => Len(order) = 1 /\ (native = "construct" => items' = 0),
         helper \in Zips => \A i, j \in DOMAIN order : i < j => order[i] > order[j]
  PROVE  HelperInv'
  <1>1. CASE order = <<>>
    <2>1. Unreleased' = {}
      BY <1>1 DEF Range
    <2>2. Returns(TRUE)
      BY <1>1 DEF Closes
    <2> QED
      BY <2>1, <2>2, ReturnsKeeps
  <1>2. CASE order # <<>>
    <2>1. /\ to_close' = order /\ calling' = "return" /\ native' = native
          /\ helper_started' = helper_started /\ helper_executing' = helper_executing
          /\ helper_done' = helper_done
      BY <1>2 DEF Closes, flagVars
    <2>2. NativesAt'
      BY <2>1 DEF HelperInv, NativesAt
    <2>3. OpenIsOwed'
      BY <1>2, <2>1 DEF OpenIsOwed, Ended
    <2>4. items \in Nat /\ MaxItems \in Nat /\ items <= MaxItems
      BY HelperAssumption DEF HelperInv, HelperTypes
    <2>5. \A i \in DOMAIN order : order[i] \in 0 .. items
      <3>1. DOMAIN order = 1 .. Len(order)
        OBVIOUS
      <3> QED
        BY <3>1, ElementOfSeq
    <2>6. IsInjective(order)
      <3>1. CASE helper \in Zips
        <4>1. SUFFICES ASSUME NEW i \in DOMAIN order, NEW j \in DOMAIN order,
                              order[i] = order[j], i # j
                       PROVE  FALSE
          BY DEF IsInjective
        <4>2. i \in Nat /\ j \in Nat
          OBVIOUS
        <4>3. i < j \/ j < i
          BY <4>1, <4>2
        <4> QED
          BY <2>4, <2>5, <3>1, <4>1, <4>3
      <3>2. CASE helper \notin Zips
        BY <3>2 DEF IsInjective
      <3> QED
        BY <3>1, <3>2
    <2>7. ClosedInOrder'
      <3>1. helper' \notin Zips => Len(to_close') = 1
        BY <2>1
      <3>2. helper' \in Zips =>
              /\ \A i, j \in DOMAIN closed' : i < j /\ closed'[i] # Padding => closed'[i] > closed'[j]
              /\ \A i \in DOMAIN closed' : closed'[i] = Padding
        BY ClosedBeforeOrder DEF ClosedBefore, Range
      <3> QED
        BY <2>1, <2>6, <3>1, <3>2 DEF ClosedInOrder, ClosedBefore
    <2>8. RoundEnded'
      BY <2>1 DEF RoundEnded
    <2> QED
      BY <2>2, <2>3, <2>7, <2>8 DEF HelperInv
  <1> QED
    BY <1>1, <1>2

\* The same with what zip closes.
LEMMA ClosesZips ==
  ASSUME HelperInv, HelperTypes', NEW S \in SUBSET (0 .. items), Closes(ZipOrder(S)),
         native \in {"construct", "next"}, calling # "return",
         helper \in Zips, helper' = helper, ClosedBefore(closed'), Unreleased' = S
  PROVE  HelperInv'
  <1>1. PICK s : s = ZipOrder(S)
    OBVIOUS
  <1>2. items \in Nat
    BY DEF HelperInv, HelperTypes
  <1>3. S \in SUBSET Nat /\ IsFiniteSet(S)
    <2>1. IsFiniteSet(0 .. items)
      BY <1>2, FS_Interval
    <2>2. 0 .. items \subseteq Nat
      BY <1>2
    <2> QED
      BY <2>1, <2>2, FS_Subset
  <1>4. s \in Seq(S) /\ Range(s) = S /\ \A i, j \in DOMAIN s : i < j => s[i] > s[j]
    BY <1>1, <1>3, ZipOrderDecreases
  <1>5. s \in Seq(0 .. items)
    <2>1. s \in [1 .. Len(s) -> S] /\ Len(s) \in Nat
      BY <1>4
    <2>2. s \in [1 .. Len(s) -> 0 .. items]
      BY <2>1
    <2> QED
      BY <2>1, <2>2, SeqDef
  <1> QED
    BY <1>1, <1>4, <1>5, ClosesKeeps

LEMMA ClosesSource ==
  ASSUME HelperInv, HelperTypes', Closes(<<Source>>),
         native \in {"construct", "next"}, calling # "return", native = "construct" => items' = 0,
         helper \notin Zips, helper' = helper, ClosedBefore(closed'), Unreleased' = {Source}
  PROVE  HelperInv'
  <1>1. PICK s : s = <<Source>>
    OBVIOUS
  <1>2. items \in Nat
    BY DEF HelperInv, HelperTypes
  <1>3. s \in Seq(0 .. items) /\ Range(s) = {Source} /\ Len(s) = 1
    BY <1>1, <1>2 DEF Source, Range
  <1> QED
    BY <1>1, <1>3, ClosesKeeps

\* Construction or next goes on without a change of the native or its flags.
LEMMA GoesOnKeeps ==
  ASSUME HelperInv, HelperTypes', NativesAt', ~ Ended, calling # "return", calling' # "return",
         helper' = helper, UNCHANGED <<native, to_close, flagVars>>,
         ClosedBefore(closed'), native # "construct" => Unreleased' = Held',
         native = "construct" /\ calling' = "next" => at' = 0 /\ Padding \notin opened',
         native = "construct" /\ calling' = "next" =>
           Unreleased' = 1 .. items' \cup (IF helper \in {"concat", "zipKeyed"} THEN {} ELSE {Source}),
         native = "construct" /\ helper \notin Zips => items' = 0,
         native = "construct" /\ calling' = "padding" =>
           Unreleased' = 1 .. items' \cup (IF helper = "zip" THEN {Padding} ELSE {}),
         RoundEnded'
  PROVE  HelperInv'
  <1>1. native' = native /\ helper_done' = helper_done /\ ~ Ended'
    BY DEF flagVars, Ended
  <1>2. OpenIsOwed'
    BY <1>1 DEF OpenIsOwed
  <1>3. ClosedInOrder'
    BY ClosedBeforeOrder DEF ClosedInOrder, ClosedBefore
  <1> QED
    BY <1>2, <1>3 DEF HelperInv

-----------------------------------------------------------------------------
(* Types, step by step                                                     *)

FlagTypes ==
  /\ helper_started \in BOOLEAN /\ helper_executing \in BOOLEAN /\ helper_done \in BOOLEAN
  /\ native \in {"construct", "next", "return", "none", "failed"}
  /\ calling \in {"next", "callback", "padding", "return"}

LEMMA TypesStay ==
  ASSUME HelperTypes, FlagTypes', to_close' \in Seq(0 .. items),
         closed' = closed, helper' = helper, zip_mode' = zip_mode,
         items' \in items .. MaxItems, active' \in 0 .. items',
         helper \notin {"flatMap", "concat"} => active' = NoItem,
         entry_open' \subseteq 1 .. items', at' \in Nat,
         produced' \in BOOLEAN, matching' \in BOOLEAN, inner_failed' \in BOOLEAN,
         opened \subseteq opened', opened' \subseteq opened \cup {Padding} \cup 1 .. items',
         over \subseteq over', over' \subseteq over \cup Unreleased
  PROVE  HelperTypes'
  <1>1. items \in Nat /\ items <= MaxItems /\ MaxItems \in Nat
    BY HelperAssumption DEF HelperTypes
  <1>2. items' \in 0 .. MaxItems
    BY <1>1
  <1>3. 0 .. items \subseteq 0 .. items' /\ 1 .. items \subseteq 1 .. items'
    BY <1>1
  <1>4. to_close' \in Seq(0 .. items')
    BY <1>3, SeqMonotonic
  <1>5. closed \in Seq(opened' \ over')
    <2>1. closed \in Seq(opened \ over)
      BY DEF HelperTypes
    <2>2. closed \in [1 .. Len(closed) -> opened \ over] /\ Len(closed) \in Nat
          /\ DOMAIN closed = 1 .. Len(closed)
      BY <2>1, LenProperties
    <2>3. \A i \in 1 .. Len(closed) : closed[i] \in opened' \ over'
      BY <2>2 DEF Unreleased, Range
    <2>4. closed \in [1 .. Len(closed) -> opened' \ over']
      BY <2>2, <2>3
    <2> QED
      BY <2>2, <2>4, SeqDef
  <1>6. opened' \subseteq {Source, Padding} \cup 1 .. items' /\ over' \subseteq opened'
    BY <1>3 DEF HelperTypes, Unreleased
  <1> QED
    BY <1>2, <1>4, <1>5, <1>6 DEF HelperTypes, FlagTypes

LEMMA ReturnsTypes ==
  ASSUME HelperTypes, NEW done \in BOOLEAN, Returns(done)
  PROVE  FlagTypes' /\ to_close' \in Seq(0 .. items)
  BY DEF HelperTypes, Returns, FlagTypes

LEMMA ClosesTypes ==
  ASSUME HelperTypes, NEW order, Closes(order), order \in Seq(0 .. items)
  PROVE  FlagTypes' /\ to_close' \in Seq(0 .. items)
  <1>1. CASE order = <<>>
    BY <1>1, ReturnsTypes DEF Closes
  <1>2. CASE order # <<>>
    BY <1>2 DEF HelperTypes, Closes, FlagTypes, flagVars
  <1> QED
    BY <1>1, <1>2

LEMMA ClosesZipTypes ==
  ASSUME HelperTypes, NEW S \in SUBSET (0 .. items), Closes(ZipOrder(S))
  PROVE  FlagTypes' /\ to_close' \in Seq(0 .. items)
  <1>1. PICK s : s = ZipOrder(S)
    OBVIOUS
  <1>2. items \in Nat
    BY DEF HelperTypes
  <1>3. 0 .. items \subseteq Nat /\ IsFiniteSet(0 .. items)
    BY <1>2, FS_Interval
  <1>4. S \in SUBSET Nat /\ IsFiniteSet(S)
    BY <1>3, FS_Subset
  <1>5. s \in Seq(0 .. items)
    BY <1>1, <1>4, ZipOrderDecreases, SeqMonotonic
  <1> QED
    BY <1>1, <1>5, ClosesTypes

LEMMA ClosesSourceTypes ==
  ASSUME HelperTypes, Closes(<<Source>>)
  PROVE  FlagTypes' /\ to_close' \in Seq(0 .. items)
  <1>1. PICK s : s = <<Source>>
    OBVIOUS
  <1>2. s \in Seq(0 .. items)
    BY <1>1 DEF HelperTypes, Source
  <1> QED
    BY <1>1, <1>2, ClosesTypes

LEMMA SameFlagTypes ==
  ASSUME HelperTypes, UNCHANGED <<native, to_close, flagVars>>,
         calling' \in {"next", "callback", "padding"}
  PROVE  FlagTypes' /\ to_close' \in Seq(0 .. items)
  BY DEF HelperTypes, FlagTypes, flagVars

-----------------------------------------------------------------------------
(* Construction                                                            *)

LEMMA native_lazy_helperKeeps ==
  ASSUME HelperInv, NEW outcome \in {"value", "end", "throw", "bad"}, native_lazy_helper(outcome)
  PROVE  HelperInv'
  <1>1. /\ HelperTypes /\ native = "construct" /\ calling = "next" /\ helper \notin Zips
        /\ UNCHANGED <<helper, zip_mode, active, items, entry_open, at, produced, matching>>
        /\ UNCHANGED <<opened, closed, inner_failed>>
    BY DEF HelperInv, native_lazy_helper, zipVars, historyVars, Over
  <1>2. ~ Ended /\ items = 0 /\ active = NoItem
    BY <1>1 DEF HelperInv, HelperTypes, OpenIsOwed, Ended, NoItem, Source
  <1>3. ClosedBefore(closed')
    BY <1>1, <1>2, ClosedBeforeHolds
  <1>4. Unreleased = IF helper = "concat" THEN {} ELSE {Source}
    BY <1>1, <1>2 DEF HelperInv, OpenIsOwed, Zips
  <1>5. over' = over => Unreleased' = Unreleased
    BY <1>1 DEF Unreleased
  <1>6. over' = over \cup {Source} => Unreleased' = Unreleased \ {Source}
    BY <1>1 DEF Unreleased
  <1>7. ASSUME FlagTypes', to_close' \in Seq(0 .. items), over \subseteq over',
               over' \subseteq over \cup Unreleased
        PROVE  HelperTypes'
    BY <1>1, <1>7, TypesStay DEF HelperTypes
  <1>8. CASE outcome = "value" /\ Returns(FALSE) /\ UNCHANGED historyVars
    <2>1. over' = over
      BY <1>8 DEF historyVars
    <2>2. HelperTypes'
      BY <1>1, <1>7, <1>8, <2>1, ReturnsTypes
    <2>3. Held' = Unreleased'
      BY <1>1, <1>2, <1>4, <1>5, <2>1 DEF Held
    <2> QED
      BY <1>1, <1>3, <1>8, <2>2, <2>3, ReturnsKeeps
  <1>9. CASE outcome = "throw" /\ helper # "concat" /\ Over(Source) /\ Returns(TRUE)
    <2>1. over' = over \cup {Source}
      BY <1>9 DEF Over
    <2>2. HelperTypes'
      BY <1>1, <1>4, <1>7, <1>9, <2>1, ReturnsTypes
    <2>3. Unreleased' = {}
      BY <1>4, <1>6, <2>1
    <2> QED
      BY <1>1, <1>3, <1>9, <2>2, <2>3, ReturnsKeeps
  <1>10. CASE outcome = "bad" /\ helper = "concat" /\ Returns(TRUE) /\ UNCHANGED historyVars
    <2>1. over' = over
      BY <1>10 DEF historyVars
    <2>2. HelperTypes'
      BY <1>1, <1>7, <1>10, <2>1, ReturnsTypes
    <2>3. Unreleased' = {}
      BY <1>4, <1>5, <1>10, <2>1
    <2> QED
      BY <1>1, <1>3, <1>10, <2>2, <2>3, ReturnsKeeps
  <1>11. CASE outcome = "bad" /\ helper # "concat" /\ Closes(<<Source>>) /\ UNCHANGED historyVars
    <2>1. over' = over
      BY <1>11 DEF historyVars
    <2>2. HelperTypes'
      BY <1>1, <1>7, <1>11, <2>1, ClosesSourceTypes
    <2>3. Unreleased' = {Source} /\ items' = 0
      BY <1>1, <1>2, <1>4, <1>5, <1>11, <2>1
    <2> QED
      BY <1>1, <1>3, <1>11, <2>2, <2>3, ClosesSource
  <1> QED
    BY <1>8, <1>9, <1>10, <1>11 DEF native_lazy_helper

LEMMA zip_inputKeeps ==
  ASSUME HelperInv, NEW outcome \in {"value", "end", "throw", "bad"}, zip_input(outcome)
  PROVE  HelperInv'
  <1>1. /\ HelperTypes /\ native = "construct" /\ calling = "next" /\ helper \in Zips
        /\ UNCHANGED <<helper, zip_mode, active, closed, inner_failed>>
    BY DEF HelperInv, zip_input, historyVars, Over
  <1>2. ~ Ended /\ active = NoItem
    BY <1>1 DEF HelperInv, HelperTypes, Ended, Zips
  <1>3. ClosedBefore(closed')
    BY <1>1, <1>2, ClosedBeforeHolds
  <1>4. Unreleased = 1 .. items \cup (IF helper = "zipKeyed" THEN {} ELSE {Source})
    BY <1>1 DEF HelperInv, OpenIsOwed, Zips
  <1>5. items \in Nat /\ items <= MaxItems /\ MaxItems \in Nat
    BY <1>1, HelperAssumption DEF HelperTypes
  <1>6. opened \subseteq {Source, Padding} \cup 1 .. items /\ over \subseteq opened
        /\ Range(closed) \subseteq opened
    <2>1. closed \in Seq(opened \ over)
      BY <1>1 DEF HelperTypes
    <2>2. Range(closed) \subseteq opened \ over
      BY <2>1 DEF Range
    <2> QED
      BY <1>1, <2>2 DEF HelperTypes
  <1>7. helper = "zip" => Source \in opened
    BY <1>4 DEF Unreleased
  <1>8. helper = "zipKeyed" => Source \notin Unreleased
    BY <1>4, <1>5 DEF Source
  <1>9. CASE /\ outcome = "value" /\ items < MaxItems
             /\ items' = items + 1 /\ opened' = opened \cup {items + 1}
             /\ UNCHANGED <<native, calling, to_close, flagVars, zipVars, over, closed, inner_failed>>
    <2>1. items' = items + 1 /\ items' \in items .. MaxItems /\ 1 .. items' = 1 .. items \cup {items + 1}
          /\ entry_open' = entry_open /\ at' = at /\ produced' = produced /\ matching' = matching
      BY <1>5, <1>9 DEF zipVars
    <2>2. HelperTypes'
      <3>1. FlagTypes' /\ to_close' \in Seq(0 .. items)
        BY <1>1, <1>9, SameFlagTypes
      <3>2. active' \in 0 .. items' /\ entry_open' \subseteq 1 .. items'
        BY <1>1, <1>2, <1>5, <2>1 DEF HelperTypes, NoItem, Source
      <3> QED
        BY <1>1, <1>2, <1>9, <2>1, <3>1, <3>2, TypesStay DEF HelperTypes
    <2>3. Unreleased' = Unreleased \cup {items + 1}
      <3>1. items + 1 \notin opened
        BY <1>5, <1>6, <1>9 DEF Source, Padding
      <3> QED
        BY <1>6, <1>9, <3>1 DEF Unreleased
    <2>4. NativesAt' /\ RoundEnded'
      BY <1>1, <1>9 DEF HelperInv, NativesAt, RoundEnded, flagVars
    <2>5. at' = 0 /\ Padding \notin opened'
      <3>1. at = 0 /\ Padding \notin opened
        BY <1>1 DEF HelperInv, OpenIsOwed
      <3> QED
        BY <1>5, <1>9, <2>1, <3>1 DEF Padding
    <2> QED
      BY <1>1, <1>2, <1>3, <1>4, <1>9, <2>1, <2>2, <2>3, <2>4, <2>5, GoesOnKeeps DEF Zips
  <1>10. CASE /\ outcome = "bad" /\ helper = "zip"
              /\ ClosesRecords({Source})
              /\ UNCHANGED <<items, zipVars, historyVars>>
    <2>1. PICK S : S = 1 .. items \cup {Source}
      OBVIOUS
    <2>2. S \in SUBSET (0 .. items) /\ Closes(ZipOrder(S))
      BY <1>5, <1>10, <2>1 DEF ClosesRecords, Source
    <2>3. UNCHANGED <<items, entry_open, at, produced, matching, opened, over>>
      BY <1>10 DEF zipVars, historyVars
    <2>4. HelperTypes'
      BY <1>1, <1>5, <2>2, <2>3, ClosesZipTypes, TypesStay DEF HelperTypes
    <2>5. Unreleased' = S
      BY <1>1, <1>4, <1>10, <2>1, <2>3 DEF Unreleased
    <2> QED
      BY <1>1, <1>3, <2>2, <2>4, <2>5, ClosesZips
  <1>11. CASE /\ outcome = "throw" /\ ClosesRecords({})
              /\ IF helper = "zip" THEN Over(Source) ELSE UNCHANGED historyVars
              /\ UNCHANGED <<items, zipVars>>
    <2>1. PICK S : S = 1 .. items
      OBVIOUS
    <2>2. S \in SUBSET (0 .. items) /\ Closes(ZipOrder(S))
      <3>1. 1 .. items \cup {} = S
        BY <2>1
      <3> QED
        BY <1>5, <1>11, <2>1, <3>1 DEF ClosesRecords
    <2>3. /\ UNCHANGED <<items, entry_open, at, produced, matching, opened>>
          /\ over' = over \cup (IF helper = "zip" THEN {Source} ELSE {})
      BY <1>11 DEF zipVars, historyVars, Over
    <2>4. HelperTypes'
      <3>1. over \subseteq over' /\ over' \subseteq over \cup Unreleased
        BY <1>1, <1>4, <2>3 DEF Zips
      <3> QED
        BY <1>1, <1>5, <2>2, <2>3, <3>1, ClosesZipTypes, TypesStay DEF HelperTypes
    <2>5. Unreleased' = S
      <3>1. Unreleased' = Unreleased \ (IF helper = "zip" THEN {Source} ELSE {})
        BY <1>1, <2>3 DEF Unreleased
      <3>2. Source \notin 1 .. items
        BY <1>5 DEF Source
      <3> QED
        BY <1>1, <1>4, <2>1, <3>1, <3>2 DEF Zips
    <2> QED
      BY <1>1, <1>3, <2>2, <2>4, <2>5, ClosesZips
  <1>12. CASE /\ outcome = "end"
              /\ zip_ready /\ over' = over \cup (opened \cap {Source}) /\ UNCHANGED opened
              /\ UNCHANGED <<items, closed, inner_failed>>
    <2>1. /\ Returns(FALSE) /\ entry_open' = 1 .. items /\ at' = 1
          /\ UNCHANGED <<items, produced, matching, opened, closed, inner_failed>>
      BY <1>12 DEF zip_ready
    <2>2. Source \in opened => Source \in Unreleased \cup over
      <3>1. Range(closed) \subseteq {Padding}
        BY <1>1, <1>3 DEF ClosedBefore
      <3> QED
        BY <1>5, <3>1 DEF Unreleased, Source, Padding
    <2>3. HelperTypes'
      <3>1. over \subseteq over' /\ over' \subseteq over \cup Unreleased
        BY <1>12, <2>2
      <3>2. FlagTypes' /\ to_close' \in Seq(0 .. items)
        BY <1>1, <2>1, ReturnsTypes
      <3> QED
        BY <1>1, <1>2, <1>5, <2>1, <3>1, <3>2, TypesStay DEF HelperTypes
    <2>4. Unreleased' = 1 .. items
      <3>1. Unreleased' = Unreleased \ {Source}
        BY <1>1, <1>12, <2>1 DEF Unreleased
      <3>2. Source \notin 1 .. items
        BY <1>5 DEF Source
      <3> QED
        BY <1>4, <3>1, <3>2
    <2>5. Unreleased' = Held'
      BY <1>1, <2>1, <2>4 DEF Held
    <2> QED
      BY <1>1, <1>3, <2>1, <2>3, <2>5, ReturnsKeeps
  <1>13. CASE /\ outcome = "end" /\ zip_mode = "longest" /\ calling' = "padding"
              /\ over' = over \cup (opened \cap {Source})
              /\ opened' = opened \cup (IF helper = "zip" THEN {Padding} ELSE {})
              /\ UNCHANGED <<native, to_close, flagVars, zipVars>>
              /\ UNCHANGED <<items, closed, inner_failed>>
    <2>1. UNCHANGED <<items, entry_open, at, produced, matching>>
      BY <1>13 DEF zipVars
    <2>2. at = 0 /\ Padding \notin opened
      BY <1>1 DEF HelperInv, OpenIsOwed
    <2>3. Source \in opened => Source \in Unreleased \cup over
      <3>1. Range(closed) \subseteq {Padding}
        BY <1>1, <1>3 DEF ClosedBefore
      <3> QED
        BY <1>5, <3>1 DEF Unreleased, Source, Padding
    <2>4. HelperTypes'
      <3>1. over \subseteq over' /\ over' \subseteq over \cup Unreleased
        BY <1>13, <2>3
      <3>2. FlagTypes' /\ to_close' \in Seq(0 .. items)
        BY <1>1, <1>13, SameFlagTypes
      <3> QED
        BY <1>1, <1>2, <1>5, <1>13, <2>1, <3>1, <3>2, TypesStay DEF HelperTypes
    <2>5. Unreleased' = 1 .. items \cup (IF helper = "zip" THEN {Padding} ELSE {})
      <3>1. Source \notin 1 .. items /\ Source # Padding
        BY <1>5 DEF Source, Padding
      <3>2. Unreleased' = (Unreleased \ {Source}) \cup (IF helper = "zip" THEN {Padding} ELSE {})
        BY <1>1, <1>6, <1>13, <2>2, <3>1 DEF Unreleased
      <3> QED
        BY <1>4, <3>1, <3>2
    <2>6. NativesAt'
      BY <1>1, <1>5, <1>13, <2>1, <2>2 DEF HelperInv, NativesAt, flagVars
    <2>7. RoundEnded'
      BY <1>13 DEF RoundEnded
    <2> QED
      BY <1>1, <1>2, <1>3, <1>13, <2>1, <2>4, <2>5, <2>6, <2>7, GoesOnKeeps
  <1> QED
    BY <1>9, <1>10, <1>11, <1>12, <1>13 DEF zip_input

LEMMA zip_paddingKeeps ==
  ASSUME HelperInv, NEW outcome \in {"value", "end", "throw", "bad"}, zip_padding(outcome)
  PROVE  HelperInv'
  <1>1. /\ HelperTypes /\ native = "construct" /\ calling = "padding"
        /\ UNCHANGED <<helper, zip_mode, active, items>>
    BY DEF HelperInv, zip_padding
  <1>2. ~ Ended /\ helper \in Zips /\ at <= items /\ active = NoItem
    BY <1>1 DEF HelperInv, HelperTypes, NativesAt, Ended, Zips
  <1>3. ClosedBefore(closed)
    BY <1>1, <1>2, ClosedBeforeHolds
  <1>4. Unreleased = 1 .. items \cup (IF helper = "zip" THEN {Padding} ELSE {})
    BY <1>1 DEF HelperInv, OpenIsOwed
  <1>5. items \in Nat /\ items <= MaxItems /\ MaxItems \in Nat /\ items' \in items .. MaxItems
        /\ Padding \notin 1 .. items
    BY <1>1, HelperAssumption DEF HelperTypes, Padding
  <1>6. active' \in 0 .. items' /\ active' = NoItem
    BY <1>1, <1>2, <1>5 DEF NoItem, Source
  <1>7. CASE /\ outcome = "value" /\ at < items /\ at' = at + 1
             /\ UNCHANGED <<native, calling, to_close, flagVars, entry_open, produced, matching, historyVars>>
    <2>1. UNCHANGED <<opened, over, closed, inner_failed>> /\ at' \in Nat /\ at' <= items
      BY <1>1, <1>5, <1>7 DEF historyVars, HelperTypes
    <2>2. HelperTypes'
      <3>1. FlagTypes' /\ to_close' \in Seq(0 .. items)
        BY <1>1, <1>7, SameFlagTypes
      <3> QED
        BY <1>1, <1>5, <1>6, <1>7, <2>1, <3>1, TypesStay DEF HelperTypes
    <2>3. Unreleased' = Unreleased
      BY <2>1 DEF Unreleased
    <2>4. NativesAt' /\ RoundEnded'
      BY <1>1, <1>7, <2>1 DEF HelperInv, NativesAt, RoundEnded, flagVars
    <2> QED
      BY <1>1, <1>2, <1>3, <1>4, <1>7, <2>1, <2>2, <2>3, <2>4, GoesOnKeeps
  <1>8. CASE outcome = "end" /\ at < items /\ helper = "zip" /\ zip_ready /\ Over(Padding)
    <2>1. /\ Returns(FALSE) /\ entry_open' = 1 .. items /\ at' = 1
          /\ UNCHANGED <<produced, matching, opened, closed, inner_failed>>
          /\ over' = over \cup {Padding}
      BY <1>8 DEF zip_ready, Over
    <2>2. HelperTypes'
      <3>1. over \subseteq over' /\ over' \subseteq over \cup Unreleased
        BY <1>4, <1>8, <2>1
      <3>2. FlagTypes' /\ to_close' \in Seq(0 .. items)
        BY <1>1, <2>1, ReturnsTypes
      <3> QED
        BY <1>1, <1>5, <1>6, <2>1, <3>1, <3>2, TypesStay DEF HelperTypes
    <2>3. Unreleased' = Unreleased \ {Padding}
      BY <2>1 DEF Unreleased
    <2>4. Unreleased' = Held'
      BY <1>1, <1>2, <1>4, <1>5, <2>1, <2>3 DEF Held
    <2> QED
      BY <1>1, <1>3, <2>1, <2>2, <2>4, ReturnsKeeps
  <1>9. CASE /\ outcome = "throw" /\ at < items /\ ClosesRecords({})
             /\ IF helper = "zip" THEN Over(Padding) ELSE UNCHANGED historyVars
             /\ UNCHANGED zipVars
    <2>1. PICK S : S = 1 .. items
      OBVIOUS
    <2>2. S \in SUBSET (0 .. items) /\ Closes(ZipOrder(S))
      <3>1. 1 .. items \cup {} = S
        BY <2>1
      <3> QED
        BY <1>5, <1>9, <2>1, <3>1 DEF ClosesRecords
    <2>3. /\ UNCHANGED <<entry_open, at, produced, matching, opened, closed, inner_failed>>
          /\ over' = over \cup (IF helper = "zip" THEN {Padding} ELSE {})
      BY <1>9 DEF zipVars, historyVars, Over
    <2>4. HelperTypes'
      <3>1. over \subseteq over' /\ over' \subseteq over \cup Unreleased
        BY <1>4, <2>3
      <3> QED
        BY <1>1, <1>5, <1>6, <2>2, <2>3, <3>1, ClosesZipTypes, TypesStay DEF HelperTypes
    <2>5. Unreleased' = S
      <3>1. Unreleased' = Unreleased \ (IF helper = "zip" THEN {Padding} ELSE {})
        BY <2>3 DEF Unreleased
      <3> QED
        BY <1>4, <1>5, <2>1, <3>1
    <2> QED
      BY <1>1, <1>2, <1>3, <2>2, <2>3, <2>4, <2>5, ClosesZips
  <1>10. CASE /\ at = items
              /\ IF helper = "zip" THEN closed' = Append(closed, Padding) ELSE UNCHANGED closed
              /\ \/ outcome = "value" /\ zip_ready
                 \/ outcome = "throw" /\ helper = "zip" /\ ClosesRecords({}) /\ UNCHANGED zipVars
              /\ UNCHANGED <<opened, over, inner_failed>>
    <2>1. closed \in Seq(opened \ over)
      BY <1>1 DEF HelperTypes
    <2>2. /\ ClosedBefore(closed') /\ closed' \in Seq(opened \ over)
          /\ Range(closed') = Range(closed) \cup (IF helper = "zip" THEN {Padding} ELSE {})
      <3>1. CASE helper = "zip"
        <4>1. Padding \in opened \ over /\ Padding \notin Range(closed)
          BY <1>4, <3>1 DEF Unreleased
        <4>2. closed' = Append(closed, Padding)
          BY <1>10, <3>1
        <4>3. /\ closed' \in Seq(opened \ over) /\ Len(closed') = Len(closed) + 1
              /\ \A i \in 1 .. Len(closed) : closed'[i] = closed[i]
              /\ closed'[Len(closed) + 1] = Padding
              /\ Len(closed) \in Nat /\ DOMAIN closed = 1 .. Len(closed)
              /\ DOMAIN closed' = 1 .. Len(closed')
          BY <2>1, <4>1, <4>2
        <4>4. Range(closed') = Range(closed) \cup {Padding}
          BY <4>3 DEF Range
        <4>5. IsInjective(closed')
          BY <1>3, <4>1, <4>3 DEF ClosedBefore, IsInjective, Range
        <4> QED
          BY <1>1, <1>3, <3>1, <4>3, <4>4, <4>5 DEF ClosedBefore
      <3>2. CASE helper # "zip"
        BY <1>1, <1>3, <1>10, <2>1, <3>2 DEF ClosedBefore
      <3> QED
        BY <3>1, <3>2
    <2>3. Unreleased' = 1 .. items
      <3>1. Unreleased' = Unreleased \ (IF helper = "zip" THEN {Padding} ELSE {})
        BY <1>10, <2>2 DEF Unreleased
      <3> QED
        BY <1>4, <1>5, <3>1
    <2>4. ASSUME FlagTypes', to_close' \in Seq(0 .. items), entry_open' \subseteq 1 .. items, at' \in Nat,
                 UNCHANGED <<produced, matching>>
          PROVE  HelperTypes'
      BY <1>1, <1>6, <1>10, <2>2, <2>4 DEF HelperTypes, FlagTypes
    <2>5. CASE outcome = "value" /\ zip_ready
      <3>1. /\ Returns(FALSE) /\ entry_open' = 1 .. items /\ at' = 1
            /\ UNCHANGED <<produced, matching>>
        BY <2>5 DEF zip_ready
      <3>2. HelperTypes'
        BY <1>1, <2>4, <3>1, ReturnsTypes
      <3>3. Unreleased' = Held'
        BY <1>1, <1>2, <2>3, <3>1 DEF Held
      <3> QED
        BY <1>1, <2>2, <3>1, <3>2, <3>3, ReturnsKeeps
    <2>6. CASE outcome = "throw" /\ helper = "zip" /\ ClosesRecords({}) /\ UNCHANGED zipVars
      <3>1. PICK S : S = 1 .. items
        OBVIOUS
      <3>2. S \in SUBSET (0 .. items) /\ Closes(ZipOrder(S))
        <4>1. 1 .. items \cup {} = S
          BY <3>1
        <4> QED
          BY <1>5, <2>6, <3>1, <4>1 DEF ClosesRecords
      <3>3. HelperTypes'
        BY <1>1, <2>4, <2>6, <3>2, ClosesZipTypes DEF zipVars, HelperTypes
      <3> QED
        BY <1>1, <1>2, <2>2, <2>3, <3>1, <3>2, <3>3, ClosesZips
    <2> QED
      BY <1>10, <2>5, <2>6
  <1> QED
    BY <1>7, <1>8, <1>9, <1>10 DEF zip_padding

-----------------------------------------------------------------------------
(* next                                                                    *)

LEMMA native_helper_nextKeeps ==
  ASSUME HelperInv, native_helper_next
  PROVE  HelperInv'
  <1>1. /\ HelperTypes /\ native = "none" /\ ~ helper_done /\ calling = "next"
        /\ native' = "next" /\ helper_executing' = TRUE /\ helper_started' = TRUE
        /\ at' = 1 /\ produced' = FALSE /\ matching' = FALSE
        /\ UNCHANGED <<helper, zip_mode, active, items, helper_done, calling, to_close, entry_open>>
        /\ UNCHANGED <<opened, over, closed, inner_failed>>
    BY DEF HelperInv, NativesAt, HelperTypes, native_helper_next, historyVars
  <1>2. HelperTypes'
    BY <1>1 DEF HelperTypes
  <1>3. NativesAt'
    BY <1>1 DEF HelperInv, NativesAt
  <1>4. OpenIsOwed'
    BY <1>1 DEF HelperInv, OpenIsOwed, Unreleased, Held, Ended
  <1>5. ClosedInOrder'
    BY <1>1 DEF HelperInv, ClosedInOrder, Ended
  <1>6. RoundEnded'
    BY <1>1 DEF RoundEnded, HelperTypes
  <1> QED
    BY <1>2, <1>3, <1>4, <1>5, <1>6 DEF HelperInv

\* What holds while next takes a value.
LEMMA NextFacts ==
  ASSUME HelperInv, native = "next", calling # "return"
  PROVE  /\ HelperTypes /\ ~ Ended /\ ClosedBefore(closed) /\ Unreleased = Held
         /\ helper_executing /\ ~ helper_done
         /\ items \in Nat /\ items <= MaxItems /\ MaxItems \in Nat
         /\ active # Source => active \in 1 .. items
         /\ Range(closed) \subseteq opened \ over
  <1>1. HelperTypes /\ ~ Ended /\ helper_executing /\ ~ helper_done
    BY DEF HelperInv, NativesAt, Ended
  <1>2. ClosedBefore(closed) /\ Unreleased = Held
    BY <1>1, ClosedBeforeHolds DEF HelperInv, OpenIsOwed
  <1>3. items \in Nat /\ items <= MaxItems /\ MaxItems \in Nat
    BY <1>1, HelperAssumption DEF HelperTypes
  <1>4. active # Source => active \in 1 .. items
    BY <1>1, <1>3 DEF HelperTypes, Source
  <1>5. Range(closed) \subseteq opened \ over
    <2>1. closed \in Seq(opened \ over)
      BY <1>1 DEF HelperTypes
    <2> QED
      BY <2>1 DEF Range
  <1> QED
    BY <1>1, <1>2, <1>3, <1>4, <1>5

\* A next that leaves the records of zip alone keeps the types.
LEMMA NextTypes ==
  ASSUME HelperInv, native = "next", calling # "return",
         FlagTypes', to_close' \in Seq(0 .. items),
         UNCHANGED <<helper, zip_mode, closed, entry_open, at, produced, matching>>,
         items' \in items .. MaxItems, active' \in {NoItem, active, items'},
         helper \notin {"flatMap", "concat"} => active' = NoItem, inner_failed' \in BOOLEAN,
         opened \subseteq opened', opened' \subseteq opened \cup 1 .. items',
         over \subseteq over', over' \subseteq over \cup Unreleased
  PROVE  HelperTypes'
  <1>1. HelperTypes /\ items \in Nat /\ MaxItems \in Nat
    BY NextFacts
  <1>2. active' \in 0 .. items' /\ entry_open' \subseteq 1 .. items'
    BY <1>1 DEF HelperTypes, NoItem, Source
  <1> QED
    BY <1>1, <1>2, TypesStay DEF HelperTypes

LEMMA advance_sourceKeeps ==
  ASSUME HelperInv, NEW outcome \in {"value", "end", "throw", "bad"}, advance_source(outcome)
  PROVE  HelperInv'
  <1>1. /\ native = "next" /\ calling = "next" /\ helper \in {"map", "filter", "flatMap"}
        /\ active = NoItem
        /\ UNCHANGED <<helper, zip_mode, active, items, entry_open, at, produced, matching>>
    BY DEF advance_source, Steps, zipVars
  <1>2. /\ HelperTypes /\ ~ Ended /\ ClosedBefore(closed) /\ Unreleased = Held
        /\ items \in Nat /\ items <= MaxItems
    BY <1>1, NextFacts
  <1>3. items' \in items .. MaxItems
    BY <1>1, <1>2 DEF HelperTypes
  <1>4. Unreleased = {Source}
    BY <1>1, <1>2 DEF Held, Zips
  <1>5. CASE outcome = "value"
    <2>1. calling' = "callback" /\ UNCHANGED <<native, to_close, flagVars>>
          /\ UNCHANGED <<opened, over, closed, inner_failed>>
      BY <1>5 DEF advance_source, historyVars
    <2>2. HelperTypes'
      BY <1>1, <1>2, <1>3, <2>1, SameFlagTypes, NextTypes DEF HelperTypes
    <2>3. Unreleased' = Held'
      BY <1>1, <1>2, <2>1 DEF Unreleased, Held
    <2>4. NativesAt' /\ RoundEnded'
      BY <1>1, <2>1 DEF HelperInv, NativesAt, RoundEnded, flagVars
    <2> QED
      BY <1>1, <1>2, <2>1, <2>2, <2>3, <2>4, GoesOnKeeps
  <1>6. CASE outcome # "value"
    <2>1. /\ Returns(TRUE) /\ over' = over \cup {Source}
          /\ UNCHANGED <<opened, closed, inner_failed>>
      BY <1>6 DEF advance_source, Over
    <2>2. HelperTypes'
      BY <1>1, <1>2, <1>3, <1>4, <2>1, ReturnsTypes, NextTypes DEF HelperTypes
    <2>3. Unreleased' = {}
      BY <1>4, <2>1 DEF Unreleased
    <2> QED
      BY <1>1, <1>2, <2>1, <2>2, <2>3, ReturnsKeeps
  <1> QED
    BY <1>5, <1>6

\* Another inner iterator is open.
LEMMA OneMoreOpen ==
  ASSUME HelperInv, native = "next", calling # "return",
         items < MaxItems, opened' = opened \cup {items + 1}, over' = over, closed' = closed
  PROVE  Unreleased' = Unreleased \cup {items + 1}
  <1>1. HelperTypes /\ items \in Nat /\ items <= MaxItems /\ MaxItems \in Nat
        /\ Range(closed) \subseteq opened \ over
    BY NextFacts
  <1>2. items + 1 \notin opened /\ over \subseteq opened
    BY <1>1 DEF HelperTypes, Source, Padding
  <1> QED
    BY <1>1, <1>2 DEF Unreleased

LEMMA helper_callbackKeeps ==
  ASSUME HelperInv, NEW outcome \in {"value", "end", "throw", "bad"}, helper_callback(outcome)
  PROVE  HelperInv'
  <1>1. /\ native = "next" /\ calling = "callback" /\ helper \in {"map", "filter", "flatMap"}
        /\ active = NoItem
        /\ UNCHANGED <<helper, zip_mode, entry_open, at, produced, matching>>
    BY DEF HelperInv, NativesAt, helper_callback, zipVars
  <1>2. /\ HelperTypes /\ ~ Ended /\ ClosedBefore(closed) /\ Unreleased = Held
        /\ items \in Nat /\ items <= MaxItems /\ MaxItems \in Nat
        /\ Range(closed) \subseteq opened \ over
    BY <1>1, NextFacts
  <1>3. Unreleased = {Source} /\ items \in items .. MaxItems /\ helper \notin Zips
    BY <1>1, <1>2 DEF Held, Zips, HelperTypes
  <1>4. CASE outcome = "throw" /\ Closes(<<Source>>) /\ UNCHANGED <<active, items, historyVars>>
    <2>1. UNCHANGED <<active, items, opened, over, closed, inner_failed>>
      BY <1>4 DEF historyVars
    <2>2. HelperTypes'
      BY <1>1, <1>2, <1>3, <1>4, <2>1, ClosesSourceTypes, NextTypes DEF HelperTypes
    <2>3. Unreleased' = {Source}
      BY <1>3, <2>1 DEF Unreleased
    <2> QED
      BY <1>1, <1>2, <1>3, <1>4, <2>1, <2>2, <2>3, ClosesSource
  <1>5. CASE /\ outcome = "value" /\ helper # "flatMap"
             /\ Returns(FALSE) /\ UNCHANGED <<active, items, historyVars>>
    <2>1. UNCHANGED <<active, items, opened, over, closed, inner_failed>>
      BY <1>5 DEF historyVars
    <2>2. HelperTypes'
      BY <1>1, <1>2, <1>3, <1>5, <2>1, ReturnsTypes, NextTypes DEF HelperTypes
    <2>3. Unreleased' = Held'
      BY <1>1, <1>2, <2>1 DEF Unreleased, Held
    <2> QED
      BY <1>1, <1>2, <1>5, <2>1, <2>2, <2>3, ReturnsKeeps
  <1>6. CASE /\ outcome = "value" /\ helper = "flatMap" /\ items < MaxItems
             /\ items' = items + 1 /\ active' = items + 1 /\ opened' = opened \cup {items + 1}
             /\ calling' = "next"
             /\ UNCHANGED <<native, to_close, flagVars, over, closed, inner_failed>>
    <2>1. items' \in items .. MaxItems /\ items + 1 \in 1 .. items' /\ items + 1 # NoItem
      BY <1>2, <1>6 DEF NoItem, Source
    <2>2. HelperTypes'
      <3>1. FlagTypes' /\ to_close' \in Seq(0 .. items)
        BY <1>2, <1>6, SameFlagTypes
      <3> QED
        BY <1>1, <1>2, <1>6, <2>1, <3>1, NextTypes DEF HelperTypes
    <2>3. Unreleased' = Held'
      <3>1. Unreleased' = {Source, items + 1}
        BY <1>1, <1>3, <1>6, OneMoreOpen
      <3> QED
        BY <1>1, <1>3, <1>6, <2>1, <3>1 DEF Held
    <2>4. NativesAt' /\ RoundEnded'
      BY <1>1, <1>3, <1>6 DEF HelperInv, NativesAt, RoundEnded, flagVars
    <2> QED
      BY <1>1, <1>2, <1>6, <2>2, <2>3, <2>4, GoesOnKeeps
  <1>7. CASE /\ outcome = "end" /\ helper = "filter" /\ calling' = "next"
             /\ UNCHANGED <<native, to_close, flagVars, active, items, historyVars>>
    <2>1. UNCHANGED <<active, items, opened, over, closed, inner_failed>>
      BY <1>7 DEF historyVars
    <2>2. HelperTypes'
      <3>1. FlagTypes' /\ to_close' \in Seq(0 .. items)
        BY <1>2, <1>7, SameFlagTypes
      <3> QED
        BY <1>1, <1>2, <1>3, <2>1, <3>1, NextTypes DEF HelperTypes
    <2>3. Unreleased' = Held'
      BY <1>1, <1>2, <2>1 DEF Unreleased, Held
    <2>4. NativesAt' /\ RoundEnded'
      BY <1>1, <1>3, <1>7 DEF HelperInv, NativesAt, RoundEnded, flagVars
    <2> QED
      BY <1>1, <1>2, <1>7, <2>1, <2>2, <2>3, <2>4, GoesOnKeeps
  <1> QED
    BY <1>4, <1>5, <1>6, <1>7 DEF helper_callback

LEMMA advance_innerKeeps ==
  ASSUME HelperInv, NEW outcome \in {"value", "end", "throw", "bad"}, advance_inner(outcome)
  PROVE  HelperInv'
  <1>1. /\ native = "next" /\ calling = "next" /\ helper = "flatMap" /\ active # NoItem
        /\ UNCHANGED <<helper, zip_mode, items, entry_open, at, produced, matching>>
    BY DEF advance_inner, Steps, zipVars
  <1>2. /\ HelperTypes /\ ~ Ended /\ ClosedBefore(closed) /\ Unreleased = Held
        /\ items \in Nat /\ items <= MaxItems
    BY <1>1, NextFacts
  <1>3. Unreleased = {Source, active} /\ items' \in items .. MaxItems /\ helper \notin Zips
    BY <1>1, <1>2 DEF Held, Zips, HelperTypes
  <1>4. over' = over \cup {active} /\ opened' = opened /\ closed' = closed => Unreleased' = {Source}
    BY <1>1, <1>3 DEF Unreleased, NoItem
  <1>5. CASE outcome = "value" /\ Returns(FALSE) /\ UNCHANGED <<active, historyVars>>
    <2>1. UNCHANGED <<active, opened, over, closed, inner_failed>>
      BY <1>5 DEF historyVars
    <2>2. HelperTypes'
      BY <1>1, <1>2, <1>3, <1>5, <2>1, ReturnsTypes, NextTypes DEF HelperTypes
    <2>3. Unreleased' = Held'
      BY <1>1, <1>2, <2>1 DEF Unreleased, Held
    <2> QED
      BY <1>1, <1>2, <1>5, <2>1, <2>2, <2>3, ReturnsKeeps
  <1>6. CASE /\ outcome = "end" /\ Over(active) /\ active' = NoItem
             /\ UNCHANGED <<native, calling, to_close, flagVars>>
    <2>1. over' = over \cup {active} /\ UNCHANGED <<opened, closed, inner_failed>>
      BY <1>6 DEF Over
    <2>2. HelperTypes'
      <3>1. FlagTypes' /\ to_close' \in Seq(0 .. items)
        BY <1>1, <1>2, <1>6, SameFlagTypes
      <3> QED
        BY <1>1, <1>2, <1>3, <1>6, <2>1, <3>1, NextTypes DEF HelperTypes
    <2>3. Unreleased' = Held'
      BY <1>1, <1>3, <1>4, <1>6, <2>1 DEF Held
    <2>4. NativesAt' /\ RoundEnded'
      BY <1>1, <1>3, <1>6 DEF HelperInv, NativesAt, RoundEnded, flagVars
    <2> QED
      BY <1>1, <1>2, <1>6, <2>1, <2>2, <2>3, <2>4, GoesOnKeeps
  <1>7. CASE outcome = "throw" /\ Over(active) /\ Closes(<<Source>>) /\ UNCHANGED active
    <2>1. over' = over \cup {active} /\ UNCHANGED <<opened, closed, inner_failed>>
      BY <1>7 DEF Over
    <2>2. HelperTypes'
      BY <1>1, <1>2, <1>3, <1>7, <2>1, ClosesSourceTypes, NextTypes DEF HelperTypes
    <2> QED
      BY <1>1, <1>2, <1>3, <1>4, <1>7, <2>1, <2>2, ClosesSource
  <1>8. CASE /\ outcome = "bad" /\ Returns(TRUE)
             /\ over' = over \cup {active} /\ inner_failed' = TRUE
             /\ UNCHANGED <<active, opened, closed>>
    <2>1. HelperTypes'
      BY <1>1, <1>2, <1>3, <1>8, ReturnsTypes, NextTypes DEF HelperTypes
    <2> QED
      BY <1>1, <1>2, <1>4, <1>8, <2>1, ReturnsKeeps
  <1> QED
    BY <1>5, <1>6, <1>7, <1>8 DEF advance_inner

LEMMA advance_takeKeeps ==
  ASSUME HelperInv, NEW outcome \in {"value", "end", "throw", "bad"}, advance_take(outcome)
  PROVE  HelperInv'
  <1>1. /\ native = "next" /\ calling = "next" /\ helper = "take"
        /\ UNCHANGED <<helper, zip_mode, active, items, entry_open, at, produced, matching>>
    BY DEF advance_take, Steps, zipVars
  <1>2. /\ HelperTypes /\ ~ Ended /\ ClosedBefore(closed) /\ Unreleased = Held
        /\ items \in Nat /\ items <= MaxItems
    BY <1>1, NextFacts
  <1>3. /\ active = NoItem /\ Unreleased = {Source} /\ items' \in items .. MaxItems
        /\ helper \notin Zips
    BY <1>1, <1>2 DEF Held, Zips, HelperTypes
  <1>4. CASE outcome = "value" /\ budget = 0 /\ Closes(<<Source>>) /\ UNCHANGED <<budget, historyVars>>
    <2>1. UNCHANGED <<opened, over, closed, inner_failed>>
      BY <1>4 DEF historyVars
    <2>2. HelperTypes'
      BY <1>1, <1>2, <1>3, <1>4, <2>1, ClosesSourceTypes, NextTypes DEF HelperTypes
    <2>3. Unreleased' = {Source}
      BY <1>3, <2>1 DEF Unreleased
    <2> QED
      BY <1>1, <1>2, <1>3, <1>4, <2>1, <2>2, <2>3, ClosesSource
  <1>5. CASE Returns(FALSE) /\ UNCHANGED historyVars
    <2>1. UNCHANGED <<opened, over, closed, inner_failed>>
      BY <1>5 DEF historyVars
    <2>2. HelperTypes'
      BY <1>1, <1>2, <1>3, <1>5, <2>1, ReturnsTypes, NextTypes DEF HelperTypes
    <2>3. Unreleased' = Held'
      BY <1>1, <1>2, <2>1 DEF Unreleased, Held
    <2> QED
      BY <1>1, <1>2, <1>5, <2>1, <2>2, <2>3, ReturnsKeeps
  <1>6. CASE Over(Source) /\ Returns(TRUE)
    <2>1. over' = over \cup {Source} /\ UNCHANGED <<opened, closed, inner_failed>>
      BY <1>6 DEF Over
    <2>2. HelperTypes'
      BY <1>1, <1>2, <1>3, <1>6, <2>1, ReturnsTypes, NextTypes DEF HelperTypes
    <2>3. Unreleased' = {}
      BY <1>3, <2>1 DEF Unreleased
    <2> QED
      BY <1>1, <1>2, <1>6, <2>1, <2>2, <2>3, ReturnsKeeps
  <1> QED
    BY <1>4, <1>5, <1>6 DEF advance_take

LEMMA advance_concatKeeps ==
  ASSUME HelperInv, NEW outcome \in {"value", "end", "throw", "bad"}, advance_concat(outcome)
  PROVE  HelperInv'
  <1>1. /\ native = "next" /\ calling = "next" /\ helper = "concat" /\ helper \notin Zips
        /\ UNCHANGED <<helper, zip_mode, entry_open, at, produced, matching>>
    BY DEF advance_concat, Steps, zipVars, Zips
  <1>2. /\ HelperTypes /\ ~ Ended /\ ClosedBefore(closed) /\ Unreleased = Held
        /\ items \in Nat /\ items <= MaxItems /\ MaxItems \in Nat
        /\ active # Source => active \in 1 .. items
    BY <1>1, NextFacts
  <1>3. items \in items .. MaxItems
    BY <1>2
  <1>4. Unreleased = IF active = NoItem THEN {} ELSE {active}
    BY <1>1, <1>2 DEF Held
  <1>5. CASE active # NoItem /\ outcome = "value" /\ Returns(FALSE) /\ UNCHANGED <<active, items, historyVars>>
    <2>1. UNCHANGED <<active, items, opened, over, closed, inner_failed>>
      BY <1>5 DEF historyVars
    <2>2. HelperTypes'
      BY <1>1, <1>2, <1>3, <1>5, <2>1, ReturnsTypes, NextTypes DEF HelperTypes
    <2>3. Unreleased' = Held'
      BY <1>1, <1>2, <2>1 DEF Unreleased, Held
    <2> QED
      BY <1>1, <1>2, <1>5, <2>1, <2>2, <2>3, ReturnsKeeps
  <1>6. CASE /\ active # NoItem /\ outcome = "end" /\ Over(active) /\ active' = NoItem
             /\ UNCHANGED <<items, native, calling, to_close, flagVars>>
    <2>1. over' = over \cup {active} /\ UNCHANGED <<opened, closed, inner_failed>>
      BY <1>6 DEF Over
    <2>2. HelperTypes'
      <3>1. FlagTypes' /\ to_close' \in Seq(0 .. items)
        BY <1>1, <1>2, <1>6, SameFlagTypes
      <3> QED
        BY <1>1, <1>2, <1>3, <1>4, <1>6, <2>1, <3>1, NextTypes DEF HelperTypes
    <2>3. Unreleased' = Held'
      BY <1>1, <1>4, <1>6, <2>1 DEF Unreleased, Held
    <2>4. NativesAt' /\ RoundEnded'
      BY <1>1, <1>3, <1>6 DEF HelperInv, NativesAt, RoundEnded, flagVars
    <2> QED
      BY <1>1, <1>2, <1>6, <2>1, <2>2, <2>3, <2>4, GoesOnKeeps
  <1>7. CASE /\ active # NoItem /\ outcome = "throw" /\ Over(active) /\ Returns(TRUE)
             /\ UNCHANGED <<active, items>>
    <2>1. over' = over \cup {active} /\ UNCHANGED <<opened, closed, inner_failed>>
      BY <1>7 DEF Over
    <2>2. HelperTypes'
      BY <1>1, <1>2, <1>3, <1>4, <1>7, <2>1, ReturnsTypes, NextTypes DEF HelperTypes
    <2>3. Unreleased' = {}
      BY <1>4, <1>7, <2>1 DEF Unreleased
    <2> QED
      BY <1>1, <1>2, <1>7, <2>1, <2>2, <2>3, ReturnsKeeps
  <1>8. CASE /\ active = NoItem /\ outcome = "value" /\ items < MaxItems
             /\ items' = items + 1 /\ active' = items + 1 /\ opened' = opened \cup {items + 1}
             /\ UNCHANGED <<native, calling, to_close, flagVars, over, closed, inner_failed>>
    <2>1. items' \in items .. MaxItems /\ items + 1 \in 1 .. items' /\ items + 1 # NoItem
      BY <1>2, <1>8 DEF NoItem, Source
    <2>2. HelperTypes'
      <3>1. FlagTypes' /\ to_close' \in Seq(0 .. items)
        BY <1>1, <1>2, <1>8, SameFlagTypes
      <3> QED
        BY <1>1, <1>2, <1>8, <2>1, <3>1, NextTypes DEF HelperTypes
    <2>3. Unreleased' = Held'
      <3>1. Unreleased' = {items + 1}
        BY <1>1, <1>4, <1>8, OneMoreOpen
      <3> QED
        BY <1>1, <1>8, <2>1, <3>1 DEF Held
    <2>4. NativesAt' /\ RoundEnded'
      BY <1>1, <1>3, <1>8 DEF HelperInv, NativesAt, RoundEnded, flagVars
    <2> QED
      BY <1>1, <1>2, <1>8, <2>2, <2>3, <2>4, GoesOnKeeps
  <1>9. CASE active = NoItem /\ Returns(TRUE) /\ UNCHANGED <<items, active, historyVars>>
    <2>1. UNCHANGED <<active, items, opened, over, closed, inner_failed>>
      BY <1>9 DEF historyVars
    <2>2. HelperTypes'
      BY <1>1, <1>2, <1>3, <1>9, <2>1, ReturnsTypes, NextTypes DEF HelperTypes
    <2>3. Unreleased' = {}
      BY <1>4, <1>9, <2>1 DEF Unreleased
    <2> QED
      BY <1>1, <1>2, <1>9, <2>1, <2>2, <2>3, ReturnsKeeps
  <1> QED
    BY <1>5, <1>6, <1>7, <1>8, <1>9 DEF advance_concat

LEMMA advance_zipKeeps ==
  ASSUME HelperInv, NEW outcome \in {"value", "end", "throw", "bad"}, advance_zip(outcome)
  PROVE  HelperInv'
  <1>1. /\ native = "next" /\ calling = "next" /\ helper \in Zips /\ at \in entry_open
        /\ UNCHANGED <<helper, zip_mode, active, items>>
    BY DEF advance_zip, Steps
  <1>2. /\ HelperTypes /\ ~ Ended /\ ClosedBefore(closed) /\ Unreleased = Held
        /\ items \in Nat /\ items <= MaxItems /\ MaxItems \in Nat
    BY <1>1, NextFacts
  <1>3. Unreleased = entry_open
    BY <1>1, <1>2 DEF Held
  <1>4. /\ at \in 1 .. items /\ at \in Nat /\ at + 1 \in Nat
        /\ entry_open \in SUBSET (0 .. items) /\ entry_open \ {at} \in SUBSET (0 .. items)
        /\ items' \in items .. MaxItems /\ active' \in 0 .. items' /\ active' = NoItem
        /\ entry_open \subseteq 1 .. items' /\ entry_open \ {at} \subseteq 1 .. items'
    BY <1>1, <1>2 DEF HelperTypes, Zips, NoItem, Source
  <1>5. RoundEnded
    BY DEF HelperInv
  <1>6. Failed(at) = entry_open \ {at}
    BY DEF Failed
  <1>7. over' = over \cup {at} /\ opened' = opened /\ closed' = closed => Unreleased' = entry_open \ {at}
    BY <1>3 DEF Unreleased
  <1>8. ASSUME FlagTypes', to_close' \in Seq(0 .. items), entry_open' \subseteq 1 .. items', at' \in Nat,
               produced' \in BOOLEAN, matching' \in BOOLEAN,
               UNCHANGED <<closed, opened, inner_failed>>, over \subseteq over', over' \subseteq over \cup Unreleased
        PROVE  HelperTypes'
    BY <1>1, <1>2, <1>4, <1>8, TypesStay DEF HelperTypes
  <1>9. CASE /\ outcome = "value" /\ ~ matching
             /\ at' = at + 1 /\ produced' = TRUE
             /\ UNCHANGED <<native, calling, to_close, flagVars, entry_open, matching, historyVars>>
    <2>1. UNCHANGED <<opened, over, closed, inner_failed>>
      BY <1>9 DEF historyVars
    <2>2. HelperTypes'
      <3>1. FlagTypes' /\ to_close' \in Seq(0 .. items)
        BY <1>1, <1>2, <1>9, SameFlagTypes
      <3> QED
        BY <1>1, <1>2, <1>4, <1>8, <1>9, <2>1, <3>1 DEF HelperTypes
    <2>3. Unreleased' = Held'
      BY <1>1, <1>2, <1>9, <2>1 DEF Unreleased, Held
    <2>4. NativesAt' /\ RoundEnded'
      BY <1>1, <1>9 DEF HelperInv, NativesAt, RoundEnded, flagVars
    <2> QED
      BY <1>1, <1>2, <1>9, <2>1, <2>2, <2>3, <2>4, GoesOnKeeps
  <1>10. CASE /\ outcome = "value" /\ matching
              /\ Closes(ZipOrder(entry_open)) /\ entry_open' = {}
              /\ UNCHANGED <<at, produced, matching, historyVars>>
    <2>1. UNCHANGED <<opened, over, closed, inner_failed>>
      BY <1>10 DEF historyVars
    <2>2. HelperTypes'
      BY <1>2, <1>4, <1>8, <1>10, <2>1, ClosesZipTypes DEF HelperTypes
    <2>3. Unreleased' = entry_open
      BY <1>3, <2>1 DEF Unreleased
    <2> QED
      BY <1>1, <1>2, <1>4, <1>10, <2>1, <2>2, <2>3, ClosesZips
  <1>11. CASE /\ outcome = "end" /\ Over(at)
              /\ zip_mode = "longest" \/ (zip_mode = "strict" /\ (matching \/ at = 1))
              /\ entry_open' = Failed(at) /\ at' = at + 1
              /\ matching' = (zip_mode = "strict")
              /\ UNCHANGED <<native, calling, to_close, flagVars, produced>>
    <2>1. over' = over \cup {at} /\ UNCHANGED <<opened, closed, inner_failed>>
      BY <1>11 DEF Over
    <2>2. HelperTypes'
      <3>1. FlagTypes' /\ to_close' \in Seq(0 .. items)
        BY <1>1, <1>2, <1>11, SameFlagTypes
      <3>2. entry_open' \subseteq 1 .. items' /\ at' \in Nat /\ produced' \in BOOLEAN /\ matching' \in BOOLEAN
        BY <1>2, <1>4, <1>6, <1>11 DEF HelperTypes
      <3> QED
        BY <1>1, <1>3, <1>8, <2>1, <3>1, <3>2
    <2>3. Unreleased' = Held'
      BY <1>1, <1>6, <1>7, <1>11, <2>1 DEF Held
    <2>4. NativesAt'
      BY <1>1, <1>11 DEF HelperInv, NativesAt, flagVars
    <2>5. RoundEnded'
      <3>1. SUFFICES ASSUME matching' \/ ~ produced', NEW k \in entry_open \ {at} PROVE k >= at + 1
        BY <1>6, <1>11 DEF RoundEnded
      <3>2. k \in 1 .. items /\ k # at
        BY <1>2, <3>1 DEF HelperTypes
      <3>3. k >= at
        <4>1. CASE at = 1
          BY <3>2, <4>1
        <4>2. CASE at # 1
          <5>1. matching \/ ~ produced
            BY <1>11, <3>1, <4>2
          <5> QED
            BY <1>1, <1>5, <3>1, <5>1 DEF RoundEnded
        <4> QED
          BY <4>1, <4>2
      <3> QED
        BY <1>4, <3>2, <3>3
    <2> QED
      BY <1>1, <1>2, <1>11, <2>1, <2>2, <2>3, <2>4, <2>5, GoesOnKeeps
  <1>12. CASE /\ Over(at)
              /\ Closes(ZipOrder(Failed(at))) /\ entry_open' = {}
              /\ UNCHANGED <<at, produced, matching>>
    <2>1. over' = over \cup {at} /\ UNCHANGED <<opened, closed, inner_failed>>
      BY <1>12 DEF Over
    <2>2. Closes(ZipOrder(entry_open \ {at}))
      BY <1>6, <1>12
    <2>3. HelperTypes'
      BY <1>1, <1>2, <1>3, <1>4, <1>8, <1>12, <2>1, <2>2, ClosesZipTypes DEF HelperTypes
    <2> QED
      BY <1>1, <1>2, <1>4, <1>7, <2>1, <2>2, <2>3, ClosesZips
  <1> QED
    BY <1>9, <1>10, <1>11, <1>12 DEF advance_zip

LEMMA zip_passesKeeps ==
  ASSUME HelperInv, zip_passes
  PROVE  HelperInv'
  <1>1. /\ native = "next" /\ calling = "next" /\ helper \in Zips /\ at \notin entry_open
        /\ UNCHANGED <<helper, zip_mode, active, items, entry_open, produced, matching>>
        /\ UNCHANGED <<opened, over, closed, inner_failed>>
    BY DEF zip_passes, Steps, historyVars
  <1>2. /\ HelperTypes /\ ~ Ended /\ ClosedBefore(closed) /\ Unreleased = Held
        /\ items \in Nat /\ items <= MaxItems /\ MaxItems \in Nat
    BY <1>1, NextFacts
  <1>3. /\ Unreleased = entry_open /\ Unreleased' = Unreleased /\ Held' = Held /\ at \in Nat
        /\ entry_open \subseteq 1 .. items
    BY <1>1, <1>2 DEF Held, Unreleased, HelperTypes
  <1>4. RoundEnded
    BY DEF HelperInv
  <1>5. ASSUME FlagTypes', to_close' \in Seq(0 .. items), at' \in Nat PROVE HelperTypes'
    <2>1. items' \in items .. MaxItems /\ active' \in 0 .. items' /\ active' = NoItem
      BY <1>1, <1>2 DEF HelperTypes, Zips
    <2> QED
      BY <1>1, <1>2, <1>5, <2>1, TypesStay DEF HelperTypes
  <1>6. CASE at <= items /\ at' = at + 1 /\ UNCHANGED <<native, calling, to_close, flagVars>>
    <2>1. HelperTypes'
      BY <1>1, <1>2, <1>3, <1>5, <1>6, SameFlagTypes
    <2>2. NativesAt'
      BY <1>1, <1>6 DEF HelperInv, NativesAt, flagVars
    <2>3. RoundEnded'
      <3>1. SUFFICES ASSUME matching \/ ~ produced, NEW k \in entry_open PROVE k >= at + 1
        BY <1>1, <1>6 DEF RoundEnded
      <3>2. k >= at /\ k # at /\ k \in Nat
        BY <1>1, <1>3, <1>4, <3>1 DEF RoundEnded
      <3> QED
        BY <1>3, <3>2
    <2> QED
      BY <1>1, <1>2, <1>3, <1>6, <2>1, <2>2, <2>3, GoesOnKeeps
  <1>7. CASE /\ ~ (at <= items)
             /\ Returns(items = 0 \/ matching \/ ~ produced) /\ UNCHANGED at
    <2>1. PICK done \in BOOLEAN : done <=> items = 0 \/ matching \/ ~ produced
      OBVIOUS
    <2>2. Returns(done)
      <3>1. done = (items = 0 \/ matching \/ ~ produced)
        BY <2>1
      <3> QED
        BY <1>7, <3>1
    <2>3. HelperTypes'
      BY <1>2, <1>3, <1>5, <1>7, <2>2, ReturnsTypes
    <2>4. done => Unreleased' = {}
      <3>1. SUFFICES ASSUME done, NEW k \in entry_open PROVE FALSE
        BY <1>3
      <3>2. k \in 1 .. items /\ items # 0
        BY <1>2, <1>3, <3>1
      <3>3. k >= at
        BY <1>1, <1>4, <2>1, <3>1, <3>2 DEF RoundEnded
      <3> QED
        BY <1>2, <1>3, <1>7, <3>2, <3>3
    <2> QED
      BY <1>1, <1>2, <1>3, <2>2, <2>3, <2>4, ReturnsKeeps
  <1> QED
    BY <1>6, <1>7 DEF zip_passes

-----------------------------------------------------------------------------
(* return                                                                  *)

LEMMA native_helper_returnKeeps ==
  ASSUME HelperInv, native_helper_return
  PROVE  HelperInv'
  <1>1. /\ HelperTypes /\ native = "none" /\ ~ helper_done /\ ~ helper_executing
        /\ calling = "next" /\ ~ Ended /\ entry_open' = {}
        /\ UNCHANGED <<helper, zip_mode, active, items, helper_started, at, produced, matching>>
        /\ UNCHANGED <<opened, over, closed, inner_failed>>
    BY DEF HelperInv, NativesAt, HelperTypes, native_helper_return, historyVars, Ended
  <1>2. ClosedBefore(closed) /\ Unreleased = Held /\ Unreleased' = Unreleased
    BY <1>1, ClosedBeforeHolds DEF HelperInv, OpenIsOwed, Unreleased
  <1>3. items \in Nat /\ items <= MaxItems /\ MaxItems \in Nat
    BY <1>1, HelperAssumption DEF HelperTypes
  <1>4. PICK order : order = HeldOpen
    OBVIOUS
  <1>5. /\ order \in Seq(0 .. items) /\ Range(order) = Held /\ IsInjective(order)
        /\ helper \notin Zips /\ order # <<>> =>
             \/ Len(order) = 1
             \/ helper = "flatMap" /\ Len(order) = 2 /\ order[1] # Source /\ order[2] = Source
        /\ helper \in Zips => \A i, j \in DOMAIN order : i < j => order[i] > order[j]
    <2>1. CASE helper \in Zips
      <3>1. order = ZipOrder(entry_open) /\ Held = entry_open
        BY <1>4, <2>1 DEF HeldOpen, Held
      <3>2. entry_open \subseteq 0 .. items /\ 0 .. items \subseteq Nat /\ IsFiniteSet(0 .. items)
        BY <1>1, <1>3, FS_Interval DEF HelperTypes
      <3>3. entry_open \in SUBSET Nat /\ IsFiniteSet(entry_open)
        BY <3>2, FS_Subset
      <3>4. /\ order \in Seq(entry_open) /\ Range(order) = entry_open /\ IsInjective(order)
            /\ \A i, j \in DOMAIN order : i < j => order[i] > order[j]
        BY <3>1, <3>3, ZipOrderDecreases
      <3>5. order \in Seq(0 .. items)
        BY <3>2, <3>4, SeqMonotonic
      <3> QED
        BY <2>1, <3>1, <3>4, <3>5
    <2>2. CASE helper \notin Zips /\ active = NoItem /\ helper = "concat"
      <3>1. order = <<>> /\ Held = {}
        BY <1>4, <2>2 DEF HeldOpen, Held
      <3> QED
        BY <2>2, <3>1 DEF Range, IsInjective
    <2>3. CASE helper \notin Zips /\ active # NoItem /\ helper = "concat"
      <3>1. order = <<active>> /\ Held = {active} /\ active \in 0 .. items
        BY <1>1, <1>4, <2>3 DEF HeldOpen, Held, HelperTypes
      <3> QED
        BY <2>3, <3>1 DEF Range, IsInjective
    <2>4. CASE helper \notin Zips /\ active = NoItem /\ helper # "concat"
      <3>1. order = <<Source>> /\ Held = {Source} /\ Source \in 0 .. items
        BY <1>3, <1>4, <2>4 DEF HeldOpen, Held, Source
      <3> QED
        BY <2>4, <3>1 DEF Range, IsInjective
    <2>5. CASE helper \notin Zips /\ active # NoItem /\ helper # "concat"
      <3>1. /\ Held = {active, Source} /\ helper = "flatMap"
            /\ Source \in 0 .. items /\ active \in 0 .. items /\ active # Source
        <4>1. helper = "flatMap" /\ active \in 0 .. items /\ active # Source /\ Source \in 0 .. items
          BY <1>1, <1>3, <2>5 DEF HelperTypes, Source, NoItem
        <4>2. Held = {active, Source}
          BY <2>5 DEF Held
        <4> QED
          BY <4>1, <4>2
      <3>2. order \in Seq(0 .. items) /\ Len(order) = 2 /\ order[1] = active /\ order[2] = Source
        <4>1. order = <<active>> \o <<Source>>
          BY <1>4, <2>5 DEF HeldOpen
        <4>2. PICK a, b : a = <<active>> /\ b = <<Source>>
          OBVIOUS
        <4>3. /\ a \in Seq(0 .. items) /\ b \in Seq(0 .. items)
              /\ Len(a) = 1 /\ Len(b) = 1 /\ a[1] = active /\ b[1] = Source
          BY <3>1, <4>2
        <4>4. order = a \o b
          BY <4>1, <4>2
        <4>5. /\ order \in Seq(0 .. items) /\ Len(order) = 2
              /\ \A i \in 1 .. 2 : order[i] = IF i <= 1 THEN a[i] ELSE b[i - 1]
          BY <4>3, <4>4, ConcatProperties
        <4> QED
          BY <4>3, <4>5
      <3>3. DOMAIN order = {1, 2}
        BY <3>2
      <3> QED
        BY <2>5, <3>1, <3>2, <3>3 DEF Range, IsInjective
    <2> QED
      BY <2>1, <2>2, <2>3, <2>4, <2>5
  <1>6. to_close' = order
    BY <1>4 DEF native_helper_return
  <1>7. ASSUME helper_executing' \in BOOLEAN, helper_done' \in BOOLEAN,
               native' \in {"none", "return"}, calling' \in {"next", "return"}
        PROVE  HelperTypes'
    BY <1>1, <1>5, <1>6, <1>7 DEF HelperTypes
  <1>8. CASE order = <<>>
    <2>1. /\ helper_done' = TRUE /\ native' = "none" /\ calling' = "next"
          /\ helper_executing' = FALSE
      BY <1>1, <1>4, <1>8 DEF native_helper_return
    <2>2. Unreleased' = {}
      BY <1>2, <1>5, <1>8 DEF Range
    <2>3. NativesAt' /\ RoundEnded'
      BY <2>1 DEF NativesAt, RoundEnded
    <2>4. OpenIsOwed'
      BY <2>1, <2>2 DEF OpenIsOwed, Ended
    <2>5. ClosedInOrder'
      BY <1>1, <1>2, <2>1, ClosedBeforeOrder DEF ClosedInOrder, ClosedBefore
    <2> QED
      BY <1>7, <2>1, <2>3, <2>4, <2>5 DEF HelperInv
  <1>9. CASE order # <<>>
    <2>1. /\ native' = "return" /\ calling' = "return"
          /\ helper_executing' = helper_started
          /\ helper_done' = (helper_done \/ ~ helper_started)
      BY <1>4, <1>9 DEF native_helper_return, Guarded
    <2>2. HelperTypes'
      BY <1>1, <1>7, <2>1 DEF HelperTypes
    <2>3. NativesAt'
      BY <1>1, <2>1 DEF NativesAt, HelperTypes
    <2>4. RoundEnded'
      BY <2>1 DEF RoundEnded
    <2>5. OpenIsOwed'
      BY <1>2, <1>5, <1>6, <1>9, <2>1 DEF OpenIsOwed, Ended
    <2>6. ClosedInOrder'
      <3>1. helper \in Zips =>
              /\ \A i, j \in DOMAIN closed : i < j /\ closed[i] # Padding => closed[i] > closed[j]
              /\ \A i \in DOMAIN closed : closed[i] = Padding
        BY <1>2, ClosedBeforeOrder DEF ClosedBefore, Range
      <3> QED
        BY <1>1, <1>2, <1>5, <1>6, <1>9, <2>1, <3>1 DEF ClosedInOrder, ClosedBefore
    <2> QED
      BY <2>2, <2>3, <2>4, <2>5, <2>6 DEF HelperInv
  <1> QED
    BY <1>8, <1>9

LEMMA close_oneKeeps ==
  ASSUME HelperInv, NEW throws \in BOOLEAN, close_one(throws)
  PROVE  HelperInv'
  <1>1. /\ HelperTypes /\ NativesAt /\ OpenIsOwed /\ ClosedInOrder /\ calling = "return"
        /\ UNCHANGED <<helper, zip_mode, active, items, helper_started, entry_open, at, produced,
                       matching, opened, over>>
        /\ closed' = Append(closed, Head(to_close))
    BY DEF HelperInv, close_one, zipVars
  <1>2. /\ to_close # <<>> /\ Unreleased = Range(to_close) /\ IsInjective(to_close)
        /\ IsInjective(closed) /\ native \in {"construct", "next", "return"}
    BY <1>1 DEF OpenIsOwed, ClosedInOrder, NativesAt
  <1>3. PICK h : h = Head(to_close)
    OBVIOUS
  <1>4. PICK t : t = Tail(to_close)
    OBVIOUS
  <1>5. /\ to_close \in Seq(0 .. items) /\ Len(to_close) \in Nat \ {0} /\ h = to_close[1]
        /\ DOMAIN to_close = 1 .. Len(to_close)
        /\ t \in Seq(0 .. items) /\ Len(t) = Len(to_close) - 1 /\ DOMAIN t = 1 .. Len(t)
        /\ \A i \in 1 .. Len(t) : t[i] = to_close[i + 1]
    <2>1. to_close \in Seq(0 .. items) /\ to_close # <<>>
      BY <1>1, <1>2 DEF HelperTypes
    <2> QED
      BY <1>3, <1>4, <2>1
  <1>6. h \in Unreleased /\ h \in opened \ over /\ h \notin Range(closed)
    <2>1. h \in Range(to_close)
      BY <1>5 DEF Range
    <2> QED
      BY <1>2, <2>1 DEF Unreleased
  <1>7. Range(t) = Range(to_close) \ {h}
    <2>1. \A i \in DOMAIN t : t[i] \in Range(to_close) /\ t[i] # h
      <3>1. SUFFICES ASSUME NEW i \in DOMAIN t PROVE to_close[i + 1] \in Range(to_close) /\ to_close[i + 1] # h
        BY <1>5
      <3>2. i + 1 \in DOMAIN to_close /\ 1 \in DOMAIN to_close /\ i + 1 # 1
        BY <1>5, <3>1
      <3>3. to_close[i + 1] # to_close[1]
        BY <1>2, <3>2 DEF IsInjective
      <3> QED
        BY <1>5, <3>2, <3>3 DEF Range
    <2>2. \A i \in DOMAIN to_close : i # 1 => i - 1 \in DOMAIN t /\ t[i - 1] = to_close[i]
      BY <1>5
    <2>3. \A i \in DOMAIN to_close : to_close[i] # h => to_close[i] \in Range(t)
      BY <1>5, <2>2 DEF Range
    <2> QED
      BY <2>1, <2>3 DEF Range
  <1>8. PICK c : c = Append(closed, h)
    OBVIOUS
  <1>9. /\ closed \in Seq(opened \ over) /\ c \in Seq(opened \ over)
        /\ Len(closed) \in Nat /\ Len(c) = Len(closed) + 1
        /\ DOMAIN closed = 1 .. Len(closed) /\ DOMAIN c = 1 .. Len(closed) + 1
        /\ \A i \in 1 .. Len(closed) : c[i] = closed[i]
        /\ c[Len(closed) + 1] = h
    <2>1. closed \in Seq(opened \ over)
      BY <1>1 DEF HelperTypes
    <2> QED
      BY <1>6, <1>8, <2>1
  <1>10. closed' = c /\ Range(c) = Range(closed) \cup {h}
    <2>1. Range(c) = Range(closed) \cup {h}
      BY <1>9 DEF Range
    <2> QED
      BY <1>1, <1>3, <1>8, <2>1
  <1>11. Unreleased' = Range(t)
    <2>1. Unreleased' = Unreleased \ {h}
      BY <1>1, <1>10 DEF Unreleased
    <2> QED
      BY <1>2, <1>7, <2>1
  <1>12. IsInjective(c)
    <2>1. \A i \in DOMAIN closed : closed[i] # h
      BY <1>6 DEF Range
    <2> QED
      BY <1>2, <1>9, <2>1 DEF IsInjective
  <1>13. helper \in Zips => \A i, j \in DOMAIN c : i < j /\ c[i] # Padding => c[i] > c[j]
    <2>1. SUFFICES ASSUME helper \in Zips, NEW i \in DOMAIN c, NEW j \in DOMAIN c, i < j, c[i] # Padding
                   PROVE  c[i] > c[j]
      OBVIOUS
    <2>2. i \in DOMAIN closed /\ c[i] = closed[i]
      BY <1>9, <2>1
    <2>3. CASE j \in DOMAIN closed
      BY <1>1, <1>9, <2>1, <2>2, <2>3 DEF ClosedInOrder
    <2>4. CASE j = Len(closed) + 1
      <3>1. 1 \in DOMAIN to_close
        BY <1>5
      <3>2. closed[i] > to_close[1]
        BY <1>1, <2>1, <2>2, <3>1 DEF ClosedInOrder
      <3> QED
        BY <1>5, <1>9, <2>2, <2>4, <3>2
    <2> QED
      BY <1>9, <2>3, <2>4
  <1>14. inner_failed' = (inner_failed \/ (throws /\ helper = "flatMap" /\ h # Source))
    BY <1>3 DEF close_one
  <1>15. CASE t = <<>> \/ (throws /\ Propagates)
    <2>1. /\ native' = (IF native = "construct" THEN "failed" ELSE "none")
          /\ helper_executing' = FALSE /\ helper_done' = TRUE
          /\ calling' = "next" /\ to_close' = <<>>
      BY <1>4, <1>15 DEF close_one
    <2>2. HelperTypes'
      <3>1. closed' \in Seq(opened \ over) /\ to_close' \in Seq(0 .. items)
        BY <1>9, <1>10, <2>1
      <3>2. inner_failed' \in BOOLEAN /\ native' \in {"construct", "next", "return", "none", "failed"}
        BY <1>1, <1>14, <2>1 DEF HelperTypes
      <3> QED
        BY <1>1, <2>1, <3>1, <3>2 DEF HelperTypes
    <2>3. NativesAt' /\ RoundEnded'
      BY <2>1 DEF NativesAt, RoundEnded
    <2>4. Unreleased' \subseteq (IF inner_failed' THEN {Source} ELSE {})
      <3>1. CASE t = <<>>
        BY <1>11, <3>1 DEF Range
      <3>2. CASE t # <<>>
        <4>1. throws /\ helper \notin Zips /\ Len(to_close) # 1
          BY <1>5, <1>15, <3>2 DEF Propagates
        <4>2. helper = "flatMap" /\ Len(to_close) = 2 /\ to_close[1] # Source /\ to_close[2] = Source
          BY <1>1, <4>1 DEF ClosedInOrder
        <4>3. inner_failed'
          BY <1>5, <1>14, <4>1, <4>2
        <4>4. Range(t) = {Source}
          BY <1>5, <4>2 DEF Range
        <4> QED
          BY <1>11, <4>3, <4>4
      <3> QED
        BY <3>1, <3>2
    <2>5. OpenIsOwed'
      BY <2>1, <2>4 DEF OpenIsOwed, Ended
    <2>6. ClosedInOrder'
      BY <1>1, <1>10, <1>12, <1>13, <2>1 DEF ClosedInOrder, Ended
    <2> QED
      BY <2>2, <2>3, <2>5, <2>6 DEF HelperInv
  <1>16. CASE t # <<>> /\ ~ (throws /\ Propagates)
    <2>1. to_close' = t /\ UNCHANGED <<native, calling, helper_executing, helper_done>>
      BY <1>4, <1>16 DEF close_one
    <2>2. HelperTypes'
      BY <1>1, <1>5, <1>9, <1>10, <1>14, <2>1 DEF HelperTypes
    <2>3. NativesAt' /\ RoundEnded'
      BY <1>1, <2>1 DEF NativesAt, RoundEnded
    <2>4. OpenIsOwed'
      BY <1>1, <1>2, <1>11, <1>16, <2>1 DEF OpenIsOwed, Ended
    <2>5. IsInjective(t)
      <3>1. SUFFICES ASSUME NEW i \in DOMAIN t, NEW j \in DOMAIN t, t[i] = t[j] PROVE i = j
        BY DEF IsInjective
      <3>2. i + 1 \in DOMAIN to_close /\ j + 1 \in DOMAIN to_close /\ to_close[i + 1] = to_close[j + 1]
        BY <1>5, <3>1
      <3>3. i + 1 = j + 1
        BY <1>2, <3>2 DEF IsInjective
      <3> QED
        BY <1>5, <3>3
    <2>6. helper \notin Zips => Len(t) = 1
      BY <1>1, <1>5, <1>16 DEF ClosedInOrder
    <2>7. helper \in Zips =>
            /\ \A i, j \in DOMAIN t : i < j => t[i] > t[j]
            /\ \A i \in DOMAIN c, j \in DOMAIN t : c[i] # Padding => c[i] > t[j]
      <3>1. SUFFICES ASSUME helper \in Zips
                     PROVE  /\ \A i, j \in DOMAIN t : i < j => t[i] > t[j]
                            /\ \A i \in DOMAIN c, j \in DOMAIN t : c[i] # Padding => c[i] > t[j]
        OBVIOUS
      <3>2. \A j \in DOMAIN t : j \in Nat /\ j + 1 \in DOMAIN to_close /\ 1 \in DOMAIN to_close
                                /\ 1 < j + 1 /\ t[j] = to_close[j + 1]
        BY <1>5
      <3>3. \A i, j \in DOMAIN t : i < j => t[i] > t[j]
        <4>1. \A i, j \in DOMAIN t : i < j => i + 1 < j + 1
          BY <3>2
        <4> QED
          BY <1>1, <3>1, <3>2, <4>1 DEF ClosedInOrder
      <3>4. \A j \in DOMAIN t : h > t[j]
        BY <1>1, <1>5, <3>1, <3>2 DEF ClosedInOrder
      <3>5. \A i \in DOMAIN closed, j \in DOMAIN t : closed[i] # Padding => closed[i] > t[j]
        BY <1>1, <3>1, <3>2 DEF ClosedInOrder
      <3>6. \A i \in DOMAIN c : (i \in DOMAIN closed /\ c[i] = closed[i]) \/ c[i] = h
        BY <1>9
      <3> QED
        BY <3>3, <3>4, <3>5, <3>6
    <2>8. ClosedInOrder'
      BY <1>1, <1>10, <1>12, <1>13, <2>1, <2>5, <2>6, <2>7 DEF ClosedInOrder
    <2> QED
      BY <2>2, <2>3, <2>4, <2>8 DEF HelperInv
  <1> QED
    BY <1>15, <1>16

-----------------------------------------------------------------------------
(* The theorem                                                             *)

LEMMA HelperNextKeeps == HelperInv /\ [HelperNext]_helperVars => HelperInv'
  <1> SUFFICES ASSUME HelperInv, [HelperNext]_helperVars PROVE HelperInv'
    OBVIOUS
  <1>1. ASSUME NEW o \in Outcomes,
               \/ native_lazy_helper(o) \/ zip_input(o) \/ zip_padding(o)
               \/ advance_source(o) \/ helper_callback(o) \/ advance_inner(o)
               \/ advance_take(o) \/ advance_concat(o) \/ advance_zip(o)
        PROVE  HelperInv'
    <2>1. o \in {"value", "end", "throw", "bad"}
      BY DEF Outcomes
    <2> QED
      BY <1>1, <2>1, native_lazy_helperKeeps, zip_inputKeeps, zip_paddingKeeps, advance_sourceKeeps,
         helper_callbackKeeps, advance_innerKeeps, advance_takeKeeps, advance_concatKeeps,
         advance_zipKeeps
  <1>2. ASSUME NEW throws \in BOOLEAN, close_one(throws) PROVE HelperInv'
    BY <1>2, close_oneKeeps
  <1>3. CASE native_helper_next \/ zip_passes \/ native_helper_return
    BY <1>3, native_helper_nextKeeps, zip_passesKeeps, native_helper_returnKeeps
  <1>4. CASE UNCHANGED helperVars
    <2>1. UNCHANGED <<helper, zip_mode, active, items, helper_started, helper_executing, helper_done,
                      native, calling, to_close, entry_open, at, produced, matching,
                      opened, over, closed, inner_failed>>
      BY <1>4 DEF helperVars, flagVars, zipVars, historyVars
    <2>2. HelperTypes' /\ NativesAt' /\ RoundEnded'
      BY <2>1 DEF HelperInv, HelperTypes, NativesAt, RoundEnded
    <2>3. OpenIsOwed' /\ ClosedInOrder'
      BY <2>1 DEF HelperInv, OpenIsOwed, ClosedInOrder, Unreleased, Held, Ended
    <2> QED
      BY <2>2, <2>3 DEF HelperInv
  <1> QED
    BY <1>1, <1>2, <1>3, <1>4 DEF HelperNext

\* Whatever throws, ends or is called again in the middle, no iterator of a
\* helper is closed twice or once it is over, those of zip are closed last to
\* first, and none is left open when the helper has ended, but for the one
\* under a flatMap whose inner one failed (close_helper_iterators, zip.rs).
THEOREM IteratorsReleased == HelperSpec => []EveryIteratorReleased
  <1>1. HelperInv => EveryIteratorReleased
    <2>1. SUFFICES ASSUME HelperInv PROVE EveryIteratorReleased
      OBVIOUS
    <2>2. HelperTypes /\ NativesAt /\ OpenIsOwed /\ ClosedInOrder
      BY <2>1 DEF HelperInv
    <2>3. closed \in Seq(opened \ over)
      BY <2>2 DEF HelperTypes
    <2>4. \A i \in DOMAIN closed : closed[i] \in opened \ over
      BY <2>3
    <2>5. IsInjective(closed) /\ (helper \in Zips =>
            \A i, j \in DOMAIN closed : i < j /\ closed[i] # Padding => closed[i] > closed[j])
      BY <2>2 DEF ClosedInOrder
    <2>6. native = "failed" \/ (native = "none" /\ helper_done) =>
            opened \ (over \cup Range(closed)) \subseteq (IF inner_failed THEN {Source} ELSE {})
      BY <2>2 DEF OpenIsOwed, Ended, Unreleased
    <2>7. native \in {"next", "return"} => helper_executing \/ helper_done
      BY <2>2 DEF NativesAt
    <2> QED
      BY <2>4, <2>5, <2>6, <2>7 DEF EveryIteratorReleased
  <1> QED
    BY <1>1, HelperInitInv, HelperNextKeeps, PTL DEF HelperSpec

-----------------------------------------------------------------------------
(* The resources of a block are disposed, for any number of them and       *)
(* whatever fails.                                                         *)

Resource == [kind : ResourceKinds, id : Nat]

IsSkipped(reg, n) == reg[n].kind = "skipped"

SkippedAfter(reg, m) == \E n \in DOMAIN reg : n > m /\ IsSkipped(reg, n)

HasAwait(d) == \E i \in DOMAIN d : d[i] = Await

\* Of the resources reg, those beyond the m-th were disposed in the history d.
CallsDone(d, m, reg) ==
  /\ d \in Seq([call : Nat, fails : BOOLEAN])
  /\ \A i \in DOMAIN d : d[i] # Await =>
       d[i].call \in (m + 1) .. Len(reg) /\ ~ IsSkipped(reg, d[i].call)
  /\ \A n \in (m + 1) .. Len(reg) : ~ IsSkipped(reg, n) =>
       \E i \in DOMAIN d : d[i] # Await /\ d[i].call = n
  /\ \A i, j \in DOMAIN d :
       i < j /\ d[i] # Await /\ d[j] # Await => d[i].call > d[j].call

MustAwait(kind, fails) == kind = "fallback" \/ (kind = "async" /\ ~ fails)

\* A call that must be followed by an await is, and a sync one comes after an
\* await if a skipped resource was passed before it.
AwaitsDone(d, reg) ==
  /\ \A i \in DOMAIN d : d[i] # Await /\ MustAwait(reg[d[i].call].kind, d[i].fails) =>
       i + 1 \in DOMAIN d /\ d[i + 1] = Await
  /\ \A i \in DOMAIN d : d[i] # Await /\ reg[d[i].call].kind = "sync" /\ SkippedAfter(reg, d[i].call) =>
         \E j \in 1 .. (i - 1) : d[j] = Await

\* What a skipped resource beyond the m-th is owed.
AwaitsOwed(d, m, reg, needed, awaited) ==
  /\ SkippedAfter(reg, m) => needed \/ HasAwait(d)
  /\ awaited => HasAwait(d)

FailedIn(d) == {d[i].call : i \in {j \in DOMAIN d : d[j] # Await /\ d[j].fails}}

\* The errors e are those of base and, on top, those of the calls in failed.
OnTop(e, base, failed) ==
  /\ e \in Seq(Nat) /\ base \in Seq(Nat) /\ Len(base) <= Len(e)
  /\ \A i \in 1 .. Len(base) : e[i] = base[i]
  /\ {e[i] : i \in (Len(base) + 1) .. Len(e)} = failed
  /\ \A i, j \in (Len(base) + 1) .. Len(e) : i < j => e[i] > e[j]

Carries(c, base, failed) ==
  /\ c \in [abrupt : {"none", "return", "throw"}, errors : Seq(Nat)]
  /\ failed = {} => c = base
  /\ failed # {} => c.abrupt = "throw"
  /\ OnTop(c.errors, base.errors, failed)

DisposalTypes ==
  /\ asynchronous \in BOOLEAN /\ stage \in {"body", "disposing", "awaiting", "closed"}
  /\ needs_await \in BOOLEAN /\ has_awaited \in BOOLEAN
  /\ deferred_error \in 1 .. NoError
  /\ registered \in Seq(Resource) /\ Len(registered) <= MaxResources
  /\ \A n \in DOMAIN registered :
       registered[n].id = n /\ (asynchronous \/ registered[n].kind = "sync")
  /\ resources \in Seq(Resource) /\ Len(resources) <= Len(registered)
  /\ \A n \in 1 .. Len(resources) : resources[n] = registered[n]
  /\ left \in {Normal, Return, Throw(<<Block>>)}

InBody ==
  stage = "body" =>
    /\ Len(resources) = Len(registered) /\ disposal = <<>>
    /\ ~ needs_await /\ ~ has_awaited /\ deferred_error = NoError
    /\ completion = Normal /\ left = Normal

\* The error of a fallback waits for the await that follows its call.
DeferredIsLast ==
  deferred_error # NoError =>
    /\ asynchronous /\ deferred_error = Len(resources) + 1
    /\ Len(disposal) >= 2 /\ disposal[Len(disposal)] = Await
    /\ disposal[Len(disposal) - 1] = [call |-> deferred_error, fails |-> TRUE]

AwaitIsLast ==
  stage = "awaiting" => Len(disposal) >= 1 /\ disposal[Len(disposal)] = Await

NothingOwed ==
  stage = "closed" =>
    /\ resources = <<>> /\ deferred_error = NoError
    /\ asynchronous => ~ needs_await \/ has_awaited

Chained == FailedIn(disposal) \ {deferred_error}

DisposalInv ==
  /\ DisposalTypes /\ InBody /\ DeferredIsLast /\ AwaitIsLast /\ NothingOwed
  /\ CallsDone(disposal, Len(resources), registered)
  /\ AwaitsDone(disposal, registered)
  /\ AwaitsOwed(disposal, Len(resources), registered, needs_await, has_awaited)
  /\ Carries(completion, left, Chained)

Call == [call : Nat, fails : BOOLEAN]

LEMMA OneMore ==
  ASSUME NEW S, NEW s \in Seq(S), NEW x \in S, NEW t, t = Append(s, x)
  PROVE  /\ t \in Seq(S) /\ Len(s) \in Nat /\ Len(t) = Len(s) + 1
         /\ DOMAIN s = 1 .. Len(s) /\ DOMAIN t = 1 .. (Len(s) + 1)
         /\ \A i \in 1 .. Len(s) : t[i] = s[i]
         /\ t[Len(s) + 1] = x
  OBVIOUS

LEMMA TwoMore ==
  ASSUME NEW S, NEW s \in Seq(S), NEW x \in S, NEW y \in S, NEW t, t = s \o <<x, y>>
  PROVE  /\ t = Append(Append(s, x), y)
         /\ t \in Seq(S) /\ Len(s) \in Nat /\ Len(t) = Len(s) + 2
         /\ DOMAIN s = 1 .. Len(s) /\ DOMAIN t = 1 .. (Len(s) + 2)
         /\ \A i \in 1 .. Len(s) : t[i] = s[i]
         /\ t[Len(s) + 1] = x /\ t[Len(s) + 2] = y
  <1>1. PICK p : p = <<x, y>>
    OBVIOUS
  <1>2. p \in Seq(S) /\ Len(p) = 2 /\ p[1] = x /\ p[2] = y
    BY <1>1
  <1>3. Len(s) \in Nat /\ DOMAIN s = 1 .. Len(s)
    OBVIOUS
  <1>4. /\ t \in Seq(S) /\ Len(t) = Len(s) + 2
        /\ \A i \in 1 .. (Len(s) + 2) : t[i] = IF i <= Len(s) THEN s[i] ELSE p[i - Len(s)]
    BY <1>1, <1>2, ConcatProperties
  <1>5. /\ DOMAIN t = 1 .. (Len(s) + 2)
        /\ \A i \in 1 .. Len(s) : t[i] = s[i]
        /\ t[Len(s) + 1] = x /\ t[Len(s) + 2] = y
    BY <1>2, <1>3, <1>4
  <1>6. PICK a : a = Append(s, x)
    OBVIOUS
  <1>7. PICK b : b = Append(a, y)
    OBVIOUS
  <1>8. /\ a \in Seq(S) /\ Len(a) = Len(s) + 1
        /\ \A i \in 1 .. Len(s) : a[i] = s[i]
        /\ a[Len(s) + 1] = x
    BY <1>6, OneMore
  <1>9. /\ b \in Seq(S) /\ Len(b) = Len(s) + 2
        /\ \A i \in 1 .. (Len(s) + 1) : b[i] = a[i]
        /\ b[Len(s) + 2] = y
    BY <1>3, <1>7, <1>8, OneMore
  <1>10. \A i \in 1 .. Len(t) : t[i] = b[i]
    BY <1>3, <1>4, <1>5, <1>8, <1>9
  <1>11. t = b
    BY <1>4, <1>9, <1>10, SeqEqual
  <1> QED
    BY <1>3, <1>4, <1>5, <1>6, <1>7, <1>11

\* The failures of e are those of d and, if it fails, that of c.
FailsToo(e, d, c) ==
  /\ c.fails => FailedIn(e) = FailedIn(d) \cup {c.call}
  /\ ~ c.fails => FailedIn(e) = FailedIn(d)

LEMMA CallKeeps ==
  ASSUME NEW d, NEW reg \in Seq(Resource), NEW m \in 1 .. Len(reg), NEW c \in Call, NEW e, NEW p, p = m - 1,
         CallsDone(d, m, reg), ~ IsSkipped(reg, m), c.call = m, e = Append(d, c)
  PROVE  CallsDone(e, p, reg) /\ FailsToo(e, d, c)
  <1>2. c # Await /\ m # 0 /\ m \in Nat /\ Len(reg) \in Nat
    BY DEF Await, Block
  <1>3. d \in Seq(Call)
    BY DEF CallsDone, Call
  <1>4. /\ e \in Seq(Call) /\ Len(d) \in Nat
        /\ DOMAIN d = 1 .. Len(d) /\ DOMAIN e = 1 .. (Len(d) + 1)
        /\ \A i \in 1 .. Len(d) : e[i] = d[i]
        /\ e[Len(d) + 1] = c
    BY <1>3, OneMore
  <1>5. \A i \in DOMAIN d : d[i] # Await =>
          d[i].call \in (m + 1) .. Len(reg) /\ ~ IsSkipped(reg, d[i].call)
    BY DEF CallsDone
  <1>6. \A i \in DOMAIN e : e[i] # Await =>
          e[i].call \in (p + 1) .. Len(reg) /\ ~ IsSkipped(reg, e[i].call)
    BY <1>2, <1>4, <1>5
  <1>7. \A n \in (p + 1) .. Len(reg) : ~ IsSkipped(reg, n) =>
          \E i \in DOMAIN e : e[i] # Await /\ e[i].call = n
    <2>1. SUFFICES ASSUME NEW n \in (p + 1) .. Len(reg), ~ IsSkipped(reg, n)
                   PROVE  \E i \in DOMAIN e : e[i] # Await /\ e[i].call = n
      OBVIOUS
    <2>2. CASE n = m
      BY <1>2, <1>4, <2>2
    <2>3. CASE n # m
      <3>1. n \in (m + 1) .. Len(reg)
        BY <1>2, <2>1, <2>3
      <3>2. PICK i \in DOMAIN d : d[i] # Await /\ d[i].call = n
        BY <2>1, <3>1 DEF CallsDone
      <3>3. i \in DOMAIN e /\ e[i] = d[i]
        BY <1>4, <3>2
      <3> QED
        BY <3>2, <3>3
    <2> QED
      BY <2>2, <2>3
  <1>8. \A i, j \in DOMAIN e :
          i < j /\ e[i] # Await /\ e[j] # Await => e[i].call > e[j].call
    <2>1. SUFFICES ASSUME NEW i \in DOMAIN e, NEW j \in DOMAIN e, i < j, e[i] # Await, e[j] # Await
                   PROVE  e[i].call > e[j].call
      OBVIOUS
    <2>2. i \in DOMAIN d /\ e[i] = d[i]
      BY <1>4, <2>1
    <2>3. CASE j \in DOMAIN d
      BY <1>4, <2>1, <2>2, <2>3 DEF CallsDone
    <2>4. CASE j = Len(d) + 1
      <3>1. d[i].call \in (m + 1) .. Len(reg) /\ e[j].call = m
        BY <1>2, <1>4, <1>5, <2>1, <2>2, <2>4
      <3> QED
        BY <1>2, <2>2, <3>1
    <2> QED
      BY <1>4, <2>3, <2>4
  <1>9. /\ c.fails = TRUE => FailedIn(e) = FailedIn(d) \cup {m}
        /\ c.fails = FALSE => FailedIn(e) = FailedIn(d)
    <2>1. ASSUME NEW n \in FailedIn(e) PROVE n \in FailedIn(d) \/ (c.fails /\ n = m)
      <3>1. PICK i \in DOMAIN e : e[i] # Await /\ e[i].fails /\ n = e[i].call
        BY <2>1 DEF FailedIn
      <3>2. CASE i \in DOMAIN d
        BY <1>4, <3>1, <3>2 DEF FailedIn
      <3>3. CASE i = Len(d) + 1
        BY <1>2, <1>4, <3>1, <3>3
      <3> QED
        BY <1>4, <3>2, <3>3
    <2>2. ASSUME NEW n \in FailedIn(d) PROVE n \in FailedIn(e)
      <3>1. PICK i \in DOMAIN d : d[i] # Await /\ d[i].fails /\ n = d[i].call
        BY <2>2 DEF FailedIn
      <3>2. i \in DOMAIN e /\ e[i] = d[i]
        BY <1>4
      <3> QED
        BY <3>1, <3>2 DEF FailedIn
    <2>3. c.fails => m \in FailedIn(e)
      <3>1. Len(d) + 1 \in DOMAIN e
        BY <1>4
      <3> QED
        BY <1>2, <1>4, <3>1 DEF FailedIn
    <2> QED
      BY <2>1, <2>2, <2>3
  <1>10. FailsToo(e, d, c)
    BY <1>2, <1>9 DEF FailsToo
  <1> QED
    BY <1>4, <1>6, <1>7, <1>8, <1>10 DEF CallsDone, Call

LEMMA AwaitKeeps ==
  ASSUME NEW d, NEW reg \in Seq(Resource), NEW m \in 0 .. Len(reg), NEW e,
         CallsDone(d, m, reg), e = Append(d, Await)
  PROVE  CallsDone(e, m, reg) /\ FailedIn(e) = FailedIn(d)
  <1>1. d \in Seq(Call) /\ Await \in Call
    BY DEF CallsDone, Call, Await, Block
  <1>2. /\ e \in Seq(Call) /\ Len(d) \in Nat
        /\ DOMAIN d = 1 .. Len(d) /\ DOMAIN e = 1 .. (Len(d) + 1)
        /\ \A i \in 1 .. Len(d) : e[i] = d[i]
        /\ e[Len(d) + 1] = Await
    BY <1>1, OneMore
  <1>3. /\ \A i \in DOMAIN e : e[i] # Await => i \in DOMAIN d /\ e[i] = d[i]
        /\ \A i \in DOMAIN d : i \in DOMAIN e /\ e[i] = d[i]
    BY <1>2
  <1>4. FailedIn(e) = FailedIn(d)
    <2>1. \A n \in FailedIn(e) : n \in FailedIn(d)
      BY <1>3 DEF FailedIn
    <2>2. \A n \in FailedIn(d) : n \in FailedIn(e)
      BY <1>3 DEF FailedIn
    <2> QED
      BY <2>1, <2>2
  <1>5. \A i \in DOMAIN e : e[i] # Await =>
          e[i].call \in (m + 1) .. Len(reg) /\ ~ IsSkipped(reg, e[i].call)
    BY <1>3 DEF CallsDone
  <1>6. \A n \in (m + 1) .. Len(reg) : ~ IsSkipped(reg, n) =>
          \E i \in DOMAIN e : e[i] # Await /\ e[i].call = n
    BY <1>3 DEF CallsDone
  <1>7. \A i, j \in DOMAIN e :
          i < j /\ e[i] # Await /\ e[j] # Await => e[i].call > e[j].call
    BY <1>3 DEF CallsDone
  <1> QED
    BY <1>2, <1>4, <1>5, <1>6, <1>7 DEF CallsDone, Call

LEMMA SkipKeeps ==
  ASSUME NEW d, NEW reg \in Seq(Resource), NEW m \in 1 .. Len(reg),
         CallsDone(d, m, reg), IsSkipped(reg, m)
  PROVE  CallsDone(d, m - 1, reg)
  <1>1. m \in Nat /\ Len(reg) \in Nat
    OBVIOUS
  <1>2. \A i \in DOMAIN d : d[i] # Await => d[i].call \in (m - 1 + 1) .. Len(reg)
    BY <1>1 DEF CallsDone
  <1>3. \A n \in (m - 1 + 1) .. Len(reg) : ~ IsSkipped(reg, n) => n \in (m + 1) .. Len(reg)
    BY <1>1
  <1> QED
    BY <1>2, <1>3 DEF CallsDone

LEMMA CallAwaited ==
  ASSUME NEW d \in Seq(Call), NEW reg, NEW m \in Nat \ {0}, NEW c \in Call, NEW e,
         AwaitsDone(d, reg), ~ MustAwait(reg[m].kind, c.fails),
         reg[m].kind = "sync" /\ SkippedAfter(reg, m) => HasAwait(d),
         c.call = m, e = Append(d, c)
  PROVE  AwaitsDone(e, reg) /\ (HasAwait(d) => HasAwait(e))
  <1>2. c # Await
    BY DEF Await, Block
  <1>3. /\ e \in Seq(Call) /\ Len(d) \in Nat
        /\ DOMAIN d = 1 .. Len(d) /\ DOMAIN e = 1 .. (Len(d) + 1)
        /\ \A i \in 1 .. Len(d) : e[i] = d[i]
        /\ e[Len(d) + 1] = c
    BY OneMore
  <1>4. \A i \in DOMAIN e : e[i] # Await /\ MustAwait(reg[e[i].call].kind, e[i].fails) =>
          i + 1 \in DOMAIN e /\ e[i + 1] = Await
    <2>1. SUFFICES ASSUME NEW i \in DOMAIN e, e[i] # Await, MustAwait(reg[e[i].call].kind, e[i].fails)
                   PROVE  i + 1 \in DOMAIN e /\ e[i + 1] = Await
      OBVIOUS
    <2>2. i \in DOMAIN d /\ e[i] = d[i]
      BY <1>2, <1>3, <2>1
    <2>3. i + 1 \in DOMAIN d /\ d[i + 1] = Await
      BY <2>1, <2>2 DEF AwaitsDone
    <2> QED
      BY <1>3, <2>3
  <1>5. \A i \in DOMAIN e : e[i] # Await /\ reg[e[i].call].kind = "sync" /\ SkippedAfter(reg, e[i].call) =>
          \E j \in 1 .. (i - 1) : e[j] = Await
    <2>1. SUFFICES ASSUME NEW i \in DOMAIN e, e[i] # Await, reg[e[i].call].kind = "sync",
                          SkippedAfter(reg, e[i].call)
                   PROVE  \E j \in 1 .. (i - 1) : e[j] = Await
      OBVIOUS
    <2>2. CASE i \in DOMAIN d
      <3>1. e[i] = d[i]
        BY <1>3, <2>2
      <3>2. PICK j \in 1 .. (i - 1) : d[j] = Await
        BY <2>1, <2>2, <3>1 DEF AwaitsDone
      <3>3. j \in 1 .. Len(d)
        BY <1>3, <2>2
      <3> QED
        BY <1>3, <3>2, <3>3
    <2>3. CASE i = Len(d) + 1
      <3>1. HasAwait(d)
        BY <1>2, <1>3, <2>1, <2>3
      <3>2. PICK j \in DOMAIN d : d[j] = Await
        BY <3>1 DEF HasAwait
      <3> QED
        BY <1>3, <2>3, <3>2
    <2> QED
      BY <1>3, <2>2, <2>3
  <1>6. HasAwait(d) => HasAwait(e)
    BY <1>3 DEF HasAwait
  <1> QED
    BY <1>4, <1>5, <1>6 DEF AwaitsDone

LEMMA AwaitAwaited ==
  ASSUME NEW d \in Seq(Call), NEW reg, NEW e, AwaitsDone(d, reg), e = Append(d, Await)
  PROVE  AwaitsDone(e, reg) /\ HasAwait(e)
  <1>1. Await \in Call
    BY DEF Call, Await, Block
  <1>2. /\ e \in Seq(Call) /\ Len(d) \in Nat
        /\ DOMAIN d = 1 .. Len(d) /\ DOMAIN e = 1 .. (Len(d) + 1)
        /\ \A i \in 1 .. Len(d) : e[i] = d[i]
        /\ e[Len(d) + 1] = Await
    BY <1>1, OneMore
  <1>3. \A i \in DOMAIN e : e[i] # Await => i \in DOMAIN d /\ e[i] = d[i]
    BY <1>2
  <1>4. \A i \in DOMAIN e : e[i] # Await /\ MustAwait(reg[e[i].call].kind, e[i].fails) =>
          i + 1 \in DOMAIN e /\ e[i + 1] = Await
    <2>1. SUFFICES ASSUME NEW i \in DOMAIN e, e[i] # Await, MustAwait(reg[e[i].call].kind, e[i].fails)
                   PROVE  i + 1 \in DOMAIN e /\ e[i + 1] = Await
      OBVIOUS
    <2>2. i + 1 \in DOMAIN d /\ d[i + 1] = Await
      BY <1>3, <2>1 DEF AwaitsDone
    <2> QED
      BY <1>2, <2>2
  <1>5. \A i \in DOMAIN e : e[i] # Await /\ reg[e[i].call].kind = "sync" /\ SkippedAfter(reg, e[i].call) =>
          \E j \in 1 .. (i - 1) : e[j] = Await
    <2>1. SUFFICES ASSUME NEW i \in DOMAIN e, e[i] # Await, reg[e[i].call].kind = "sync",
                          SkippedAfter(reg, e[i].call)
                   PROVE  \E j \in 1 .. (i - 1) : e[j] = Await
      OBVIOUS
    <2>2. PICK j \in 1 .. (i - 1) : d[j] = Await
      BY <1>3, <2>1 DEF AwaitsDone
    <2>3. j \in 1 .. Len(d)
      BY <1>2, <1>3, <2>1
    <2> QED
      BY <1>2, <2>2, <2>3
  <1>6. HasAwait(e)
    BY <1>2 DEF HasAwait
  <1> QED
    BY <1>4, <1>5, <1>6 DEF AwaitsDone

\* A call of a disposer that is awaited.
LEMMA CallAndAwait ==
  ASSUME NEW d \in Seq(Call), NEW reg, NEW m \in Nat \ {0}, NEW c \in Call, NEW e,
         AwaitsDone(d, reg), reg[m].kind # "sync",
         c.call = m, e = d \o <<c, Await>>
  PROVE  AwaitsDone(e, reg) /\ HasAwait(e)
  <1>2. c # Await /\ Await \in Call
    BY DEF Await, Block, Call
  <1>3. /\ e \in Seq(Call) /\ Len(d) \in Nat
        /\ DOMAIN d = 1 .. Len(d) /\ DOMAIN e = 1 .. (Len(d) + 2)
        /\ \A i \in 1 .. Len(d) : e[i] = d[i]
        /\ e[Len(d) + 1] = c /\ e[Len(d) + 2] = Await
    BY <1>2, TwoMore
  <1>4. \A i \in DOMAIN e : e[i] # Await => i = Len(d) + 1 \/ (i \in DOMAIN d /\ e[i] = d[i])
    BY <1>3
  <1>5. \A i \in DOMAIN e : e[i] # Await /\ MustAwait(reg[e[i].call].kind, e[i].fails) =>
          i + 1 \in DOMAIN e /\ e[i + 1] = Await
    <2>1. SUFFICES ASSUME NEW i \in DOMAIN e, e[i] # Await, MustAwait(reg[e[i].call].kind, e[i].fails)
                   PROVE  i + 1 \in DOMAIN e /\ e[i + 1] = Await
      OBVIOUS
    <2>2. CASE i = Len(d) + 1
      BY <1>3, <2>2
    <2>3. CASE i \in DOMAIN d /\ e[i] = d[i]
      <3>1. i + 1 \in DOMAIN d /\ d[i + 1] = Await
        BY <2>1, <2>3 DEF AwaitsDone
      <3> QED
        BY <1>3, <3>1
    <2> QED
      BY <1>4, <2>1, <2>2, <2>3
  <1>6. \A i \in DOMAIN e : e[i] # Await /\ reg[e[i].call].kind = "sync" /\ SkippedAfter(reg, e[i].call) =>
          \E j \in 1 .. (i - 1) : e[j] = Await
    <2>1. SUFFICES ASSUME NEW i \in DOMAIN e, e[i] # Await, reg[e[i].call].kind = "sync",
                          SkippedAfter(reg, e[i].call)
                   PROVE  \E j \in 1 .. (i - 1) : e[j] = Await
      OBVIOUS
    <2>2. i \in DOMAIN d /\ e[i] = d[i]
      BY <1>2, <1>3, <1>4, <2>1
    <2>3. PICK j \in 1 .. (i - 1) : d[j] = Await
      BY <2>1, <2>2 DEF AwaitsDone
    <2>4. j \in 1 .. Len(d)
      BY <1>3, <2>2
    <2> QED
      BY <1>3, <2>3, <2>4
  <1>7. HasAwait(e)
    <2>1. Len(d) + 2 \in DOMAIN e
      BY <1>3
    <2> QED
      BY <1>3, <2>1 DEF HasAwait
  <1> QED
    BY <1>5, <1>6, <1>7 DEF AwaitsDone

\* Another error on top.
LEMMA ChainKeeps ==
  ASSUME NEW c, NEW base, NEW failed, NEW x \in Nat, NEW e,
         Carries(c, base, failed), \A y \in failed : y > x,
         e = Throw(Append(c.errors, x))
  PROVE  Carries(e, base, failed \cup {x})
  <1>1. PICK s : s = c.errors
    OBVIOUS
  <1>2. PICK b : b = base.errors
    OBVIOUS
  <1>3. PICK t : t = Append(s, x)
    OBVIOUS
  <1>4. OnTop(s, b, failed) /\ e.errors = t /\ e.abrupt = "throw"
    BY <1>1, <1>2, <1>3 DEF Carries, Throw
  <1>5. s \in Seq(Nat) /\ b \in Seq(Nat) /\ Len(b) <= Len(s) /\ Len(b) \in Nat
    BY <1>4 DEF OnTop
  <1>6. /\ t \in Seq(Nat) /\ Len(s) \in Nat /\ Len(t) = Len(s) + 1
        /\ \A i \in 1 .. Len(s) : t[i] = s[i]
        /\ t[Len(s) + 1] = x
    BY <1>3, <1>5, OneMore
  <1>7. \A i \in 1 .. Len(b) : t[i] = b[i]
    BY <1>4, <1>5, <1>6 DEF OnTop
  <1>8. {t[i] : i \in (Len(b) + 1) .. Len(t)} = failed \cup {x}
    <2>1. {s[i] : i \in (Len(b) + 1) .. Len(s)} = failed
      BY <1>4 DEF OnTop
    <2>2. \A i \in (Len(b) + 1) .. Len(t) : t[i] \in failed \cup {x}
      <3>1. SUFFICES ASSUME NEW i \in (Len(b) + 1) .. Len(t) PROVE t[i] \in failed \cup {x}
        OBVIOUS
      <3>2. i = Len(s) + 1 \/ (i \in (Len(b) + 1) .. Len(s) /\ i \in 1 .. Len(s))
        BY <1>5, <1>6, <3>1
      <3> QED
        BY <1>6, <2>1, <3>2
    <2>3. \A i \in (Len(b) + 1) .. Len(s) : i \in (Len(b) + 1) .. Len(t) /\ t[i] = s[i]
      BY <1>5, <1>6
    <2>4. Len(s) + 1 \in (Len(b) + 1) .. Len(t)
      BY <1>5, <1>6
    <2> QED
      BY <1>6, <2>1, <2>2, <2>3, <2>4
  <1>9. \A i, j \in (Len(b) + 1) .. Len(t) : i < j => t[i] > t[j]
    <2>1. SUFFICES ASSUME NEW i \in (Len(b) + 1) .. Len(t), NEW j \in (Len(b) + 1) .. Len(t), i < j
                   PROVE  t[i] > t[j]
      OBVIOUS
    <2>2. i \in (Len(b) + 1) .. Len(s) /\ t[i] = s[i]
      BY <1>5, <1>6, <2>1
    <2>3. CASE j \in (Len(b) + 1) .. Len(s)
      <3>1. t[j] = s[j]
        BY <1>5, <1>6, <2>3
      <3> QED
        BY <1>4, <2>1, <2>2, <2>3, <3>1 DEF OnTop
    <2>4. CASE j = Len(s) + 1
      <3>1. s[i] \in failed
        BY <1>4, <2>2 DEF OnTop
      <3> QED
        BY <1>6, <2>2, <2>4, <3>1
    <2> QED
      BY <1>6, <2>1, <2>3, <2>4
  <1>10. OnTop(t, b, failed \cup {x})
    BY <1>5, <1>6, <1>7, <1>8, <1>9 DEF OnTop
  <1>11. e \in [abrupt : {"none", "return", "throw"}, errors : Seq(Nat)]
    BY <1>3, <1>1, <1>6 DEF Throw
  <1> QED
    BY <1>2, <1>4, <1>10, <1>11 DEF Carries

LEMMA NothingCalled ==
  ASSUME NEW reg \in Seq(Resource), NEW n \in BOOLEAN
  PROVE  /\ CallsDone(<<>>, Len(reg), reg) /\ AwaitsDone(<<>>, reg)
         /\ AwaitsOwed(<<>>, Len(reg), reg, n, FALSE) /\ FailedIn(<<>>) = {}
  <1>1. PICK d : d = <<>>
    OBVIOUS
  <1>2. d \in Seq([call : Nat, fails : BOOLEAN]) /\ DOMAIN d = {}
    BY <1>1
  <1>3. DOMAIN reg = 1 .. Len(reg) /\ Len(reg) \in Nat
    OBVIOUS
  <1>4. CallsDone(d, Len(reg), reg)
    BY <1>2, <1>3 DEF CallsDone
  <1>5. AwaitsDone(d, reg)
    BY <1>2 DEF AwaitsDone
  <1>6. AwaitsOwed(d, Len(reg), reg, n, FALSE)
    BY <1>3 DEF AwaitsOwed, SkippedAfter
  <1>7. FailedIn(d) = {}
    BY <1>2 DEF FailedIn
  <1> QED
    BY <1>1, <1>4, <1>5, <1>6, <1>7

LEMMA CarriesItself ==
  ASSUME NEW c \in {Normal, Return, Throw(<<Block>>)}
  PROVE  Carries(c, c, {})
  <1>1. PICK s : s = c.errors
    OBVIOUS
  <1>2. <<>> \in Seq(Nat) /\ <<Block>> \in Seq(Nat)
    BY DEF Block
  <1>3. s \in Seq(Nat) /\ c \in [abrupt : {"none", "return", "throw"}, errors : Seq(Nat)]
    <2>1. CASE c = Normal
      BY <1>1, <1>2, <2>1 DEF Normal
    <2>2. CASE c = Return
      BY <1>1, <1>2, <2>2 DEF Return
    <2>3. CASE c = Throw(<<Block>>)
      BY <1>1, <1>2, <2>3 DEF Throw
    <2> QED
      BY <2>1, <2>2, <2>3
  <1>4. Len(s) \in Nat
    BY <1>3
  <1>5. OnTop(s, s, {})
    BY <1>3, <1>4 DEF OnTop
  <1> QED
    BY <1>1, <1>3, <1>5 DEF Carries

LEMMA DisposalInitInv == DisposalInit => DisposalInv
  <1>1. SUFFICES ASSUME DisposalInit PROVE DisposalInv
    OBVIOUS
  <1>2. registered = <<>> /\ registered \in Seq(Resource) /\ Len(registered) = 0
    BY <1>1 DEF DisposalInit
  <1>3. DisposalTypes
    <2>1. deferred_error \in 1 .. NoError /\ Len(registered) <= MaxResources
      BY <1>1, <1>2, DisposalAssumption DEF DisposalInit, NoError
    <2>2. /\ \A n \in DOMAIN registered :
               registered[n].id = n /\ (asynchronous \/ registered[n].kind = "sync")
          /\ resources = registered
      BY <1>1, <1>2 DEF DisposalInit
    <2>3. /\ asynchronous \in BOOLEAN /\ stage = "body"
          /\ needs_await = FALSE /\ has_awaited = FALSE /\ left = Normal
      BY <1>1 DEF DisposalInit
    <2>4. /\ resources \in Seq(Resource) /\ Len(resources) <= Len(registered)
          /\ \A n \in 1 .. Len(resources) : resources[n] = registered[n]
      BY <1>2, <2>2
    <2>5. /\ stage \in {"body", "disposing", "awaiting", "closed"}
          /\ needs_await \in BOOLEAN /\ has_awaited \in BOOLEAN
          /\ left \in {Normal, Return, Throw(<<Block>>)}
      BY <2>3
    <2> QED
      BY <1>2, <2>1, <2>2, <2>3, <2>4, <2>5 DEF DisposalTypes
  <1>4. InBody /\ DeferredIsLast /\ AwaitIsLast /\ NothingOwed
    BY <1>1 DEF DisposalInit, InBody, DeferredIsLast, AwaitIsLast, NothingOwed
  <1>5. /\ CallsDone(<<>>, 0, registered) /\ AwaitsDone(<<>>, registered)
        /\ AwaitsOwed(<<>>, 0, registered, FALSE, FALSE) /\ FailedIn(<<>>) = {}
    BY <1>2, NothingCalled
  <1>6. Carries(Normal, Normal, {})
    BY CarriesItself
  <1>7. Chained = {}
    BY <1>1, <1>5 DEF DisposalInit, Chained
  <1> QED
    BY <1>1, <1>2, <1>3, <1>4, <1>5, <1>6, <1>7 DEF DisposalInit, DisposalInv

\* The last resource, and the list without it.
LEMMA Popped ==
  ASSUME DisposalInv, resources # <<>>, NEW m, m = Len(resources), NEW f, f = Front(resources)
  PROVE  /\ m \in 1 .. Len(registered) /\ m \in Nat /\ m - 1 \in Nat /\ Len(registered) \in Nat
         /\ top = registered[m] /\ top.id = m
         /\ f \in Seq(Resource) /\ Len(f) = m - 1
         /\ \A n \in 1 .. Len(f) : f[n] = registered[n]
  <1>1. /\ resources \in Seq(Resource) /\ registered \in Seq(Resource)
        /\ Len(resources) <= Len(registered)
        /\ \A n \in 1 .. Len(resources) : resources[n] = registered[n]
        /\ \A n \in DOMAIN registered : registered[n].id = n
    BY DEF DisposalInv, DisposalTypes
  <1>2. m \in 1 .. Len(registered) /\ m \in Nat /\ m - 1 \in Nat /\ Len(registered) \in Nat
    BY <1>1
  <1>3. top = registered[m] /\ top.id = m
    BY <1>1, <1>2 DEF top
  <1>4. /\ f \in Seq(Resource) /\ Len(f) = m - 1
        /\ \A n \in 1 .. Len(f) : f[n] = resources[n]
    BY <1>1, <1>2, SubSeqProperties DEF Front
  <1> QED
    BY <1>1, <1>2, <1>3, <1>4

\* Owing an await is not undone by further calls, nor by further owing.
LEMMA StillOwed ==
  ASSUME NEW d, NEW e, NEW m, NEW reg, NEW n \in BOOLEAN, NEW h \in BOOLEAN,
         AwaitsOwed(d, m, reg, n, h), HasAwait(d) => HasAwait(e)
  PROVE  AwaitsOwed(e, m, reg, n, h)
  BY DEF AwaitsOwed

LEMMA OneFewer ==
  ASSUME NEW d, NEW reg \in Seq(Resource), NEW m \in 1 .. Len(reg), NEW n \in BOOLEAN, NEW h \in BOOLEAN,
         AwaitsOwed(d, m, reg, n, h), ~ IsSkipped(reg, m)
  PROVE  AwaitsOwed(d, m - 1, reg, n, h)
  <1>1. SkippedAfter(reg, m - 1) => SkippedAfter(reg, m)
    BY DEF SkippedAfter
  <1> QED
    BY <1>1 DEF AwaitsOwed

LEMMA register_disposableKeeps ==
  ASSUME DisposalInv, NEW k \in ResourceKinds, register_disposable(k)
  PROVE  DisposalInv'
  <1>1. /\ stage = "body" /\ Len(registered) < MaxResources /\ (asynchronous \/ k = "sync")
        /\ UNCHANGED <<asynchronous, stage, needs_await, has_awaited, deferred_error,
                       completion, disposal, left>>
    BY DEF register_disposable, scopeVars
  <1>2. PICK r : r = [kind |-> k, id |-> Len(registered) + 1]
    OBVIOUS
  <1>3. resources' = Append(resources, r) /\ registered' = Append(registered, r)
    BY <1>2 DEF register_disposable
  <1>4. DisposalTypes /\ InBody
    BY DEF DisposalInv
  <1>5. /\ resources \in Seq(Resource) /\ registered \in Seq(Resource)
        /\ Len(resources) = Len(registered) /\ Len(registered) \in Nat
        /\ \A n \in 1 .. Len(resources) : resources[n] = registered[n]
        /\ \A n \in DOMAIN registered :
             registered[n].id = n /\ (asynchronous \/ registered[n].kind = "sync")
    BY <1>1, <1>4 DEF DisposalTypes, InBody
  <1>6. r \in Resource /\ r.id = Len(registered) + 1 /\ r.kind = k
    BY <1>2, <1>5 DEF Resource
  <1>7. PICK g : g = Append(registered, r)
    OBVIOUS
  <1>8. PICK q : q = Append(resources, r)
    OBVIOUS
  <1>9. /\ g \in Seq(Resource) /\ Len(g) = Len(registered) + 1
        /\ DOMAIN registered = 1 .. Len(registered) /\ DOMAIN g = 1 .. (Len(registered) + 1)
        /\ \A i \in 1 .. Len(registered) : g[i] = registered[i]
        /\ g[Len(registered) + 1] = r
    BY <1>5, <1>6, <1>7, OneMore
  <1>10. /\ q \in Seq(Resource) /\ Len(q) = Len(registered) + 1
         /\ \A i \in 1 .. Len(registered) : q[i] = resources[i]
         /\ q[Len(registered) + 1] = r
    BY <1>5, <1>6, <1>8, OneMore
  <1>11. registered' = g /\ resources' = q
    BY <1>3, <1>7, <1>8
  <1>12. \A n \in DOMAIN g : g[n].id = n /\ (asynchronous \/ g[n].kind = "sync")
    BY <1>1, <1>5, <1>6, <1>9
  <1>13. \A n \in 1 .. Len(q) : q[n] = g[n]
    BY <1>5, <1>9, <1>10
  <1>14. Len(g) <= MaxResources /\ Len(q) <= Len(g)
    BY <1>1, <1>5, <1>9, <1>10, DisposalAssumption
  <1>15. DisposalTypes'
    BY <1>1, <1>4, <1>9, <1>10, <1>11, <1>12, <1>13, <1>14 DEF DisposalTypes
  <1>16. /\ disposal = <<>> /\ ~ needs_await /\ ~ has_awaited /\ deferred_error = NoError
         /\ completion = Normal /\ left = Normal
    BY <1>1, <1>4 DEF InBody
  <1>17. InBody' /\ DeferredIsLast' /\ AwaitIsLast' /\ NothingOwed'
    BY <1>1, <1>9, <1>10, <1>11, <1>16 DEF InBody, DeferredIsLast, AwaitIsLast, NothingOwed
  <1>18. /\ CallsDone(<<>>, Len(g), g) /\ AwaitsDone(<<>>, g)
         /\ AwaitsOwed(<<>>, Len(g), g, FALSE, FALSE) /\ FailedIn(<<>>) = {}
    BY <1>9, NothingCalled
  <1>19. /\ CallsDone(disposal', Len(resources'), registered')
         /\ AwaitsDone(disposal', registered')
         /\ AwaitsOwed(disposal', Len(resources'), registered', needs_await', has_awaited')
    <2>1. Len(resources') = Len(g) /\ disposal' = <<>> /\ needs_await' = needs_await
      BY <1>1, <1>9, <1>10, <1>11, <1>16
    <2>2. needs_await = FALSE /\ has_awaited = FALSE
      BY <1>4, <1>16 DEF DisposalTypes
    <2> QED
      BY <1>1, <1>11, <1>18, <2>1, <2>2
  <1>20. Chained' = {} /\ Carries(completion', left', {})
    <2>1. Carries(Normal, Normal, {})
      BY CarriesItself
    <2> QED
      BY <1>1, <1>16, <1>18, <2>1 DEF Chained
  <1> QED
    BY <1>15, <1>17, <1>19, <1>20 DEF DisposalInv

LEMMA leave_blockKeeps ==
  ASSUME DisposalInv, NEW c \in {Normal, Return, Throw(<<Block>>)}, leave_block(c)
  PROVE  DisposalInv'
  <1>1. /\ stage = "body" /\ stage' = "disposing" /\ completion' = c /\ left' = c
        /\ UNCHANGED <<asynchronous, resources, needs_await, has_awaited, deferred_error,
                       registered, disposal>>
    BY DEF leave_block, scopeVars
  <1>2. DisposalTypes'
    BY <1>1 DEF DisposalInv, DisposalTypes
  <1>3. disposal = <<>> /\ deferred_error = NoError
    BY <1>1 DEF DisposalInv, InBody
  <1>4. InBody' /\ DeferredIsLast' /\ AwaitIsLast' /\ NothingOwed'
    BY <1>1, <1>3 DEF InBody, DeferredIsLast, AwaitIsLast, NothingOwed
  <1>5. /\ CallsDone(disposal', Len(resources'), registered')
        /\ AwaitsDone(disposal', registered')
        /\ AwaitsOwed(disposal', Len(resources'), registered', needs_await', has_awaited')
    BY <1>1 DEF DisposalInv
  <1>6. Chained' = {}
    <2>1. disposal' = <<>>
      BY <1>1, <1>3
    <2>2. FailedIn(<<>>) = {}
      BY NothingCalled DEF DisposalInv, DisposalTypes
    <2> QED
      BY <2>1, <2>2 DEF Chained
  <1>7. Carries(completion', left', Chained')
    BY <1>1, <1>6, CarriesItself
  <1> QED
    BY <1>2, <1>4, <1>5, <1>7 DEF DisposalInv

LEMMA Failures ==
  ASSUME DisposalInv
  PROVE  /\ \A y \in FailedIn(disposal) : y \in Nat /\ y > Len(resources) /\ y # NoError
         /\ deferred_error = NoError => Chained = FailedIn(disposal)
  <1>1. /\ CallsDone(disposal, Len(resources), registered)
        /\ Len(registered) <= MaxResources /\ Len(registered) \in Nat /\ Len(resources) \in Nat
    BY DEF DisposalInv, DisposalTypes
  <1>2. \A y \in FailedIn(disposal) : y \in (Len(resources) + 1) .. Len(registered)
    BY <1>1 DEF FailedIn, CallsDone
  <1>3. \A y \in FailedIn(disposal) : y \in Nat /\ y > Len(resources) /\ y # NoError
    BY <1>1, <1>2, DisposalAssumption DEF NoError
  <1> QED
    BY <1>3 DEF Chained

\* The list shrinks.
LEMMA PopsTyped ==
  ASSUME DisposalInv, resources # <<>>, resources' = Front(resources),
         UNCHANGED <<asynchronous, registered, left>>,
         stage' \in {"body", "disposing", "awaiting", "closed"}, needs_await' \in BOOLEAN,
         has_awaited' \in BOOLEAN, deferred_error' \in 1 .. NoError
  PROVE  DisposalTypes'
  <1>1. PICK m : m = Len(resources)
    OBVIOUS
  <1>2. PICK f : f = Front(resources)
    OBVIOUS
  <1>3. /\ f \in Seq(Resource) /\ Len(f) = m - 1 /\ m \in Nat
        /\ m \in 1 .. Len(registered) /\ Len(registered) \in Nat
        /\ \A n \in 1 .. Len(f) : f[n] = registered[n]
    BY <1>1, <1>2, Popped
  <1>4. resources' = f /\ Len(f) <= Len(registered)
    BY <1>2, <1>3
  <1> QED
    BY <1>3, <1>4 DEF DisposalInv, DisposalTypes

\* A disposer that is not awaited.
LEMMA CallKeepsInv ==
  ASSUME DisposalInv, NEW fails \in BOOLEAN,
         stage = "disposing", deferred_error = NoError, resources # <<>>,
         top.kind # "skipped", ~ MustAwait(top.kind, fails),
         top.kind = "sync" /\ SkippedAfter(registered, Len(resources)) => HasAwait(disposal),
         resources' = Front(resources),
         disposal' = Append(disposal, [call |-> top.id, fails |-> fails]),
         completion' = (IF fails THEN chained(top.id) ELSE completion),
         UNCHANGED <<asynchronous, stage, needs_await, has_awaited, deferred_error,
                     registered, left>>
  PROVE  DisposalInv'
  <1>1. PICK m : m = Len(resources)
    OBVIOUS
  <1>2. PICK f : f = Front(resources)
    OBVIOUS
  <1>3. /\ m \in 1 .. Len(registered) /\ m \in Nat /\ m - 1 \in Nat /\ top = registered[m]
        /\ top.id = m /\ Len(f) = m - 1
    BY <1>1, <1>2, Popped
  <1>4. PICK c \in Call : c = [call |-> m, fails |-> fails]
    BY <1>3 DEF Call
  <1>5. c.call = m /\ c.fails = fails
    BY <1>4
  <1>6. PICK e : e = Append(disposal, c)
    OBVIOUS
  <1>7. disposal' = e /\ resources' = f /\ Len(resources') = m - 1
    BY <1>2, <1>3, <1>6, <1>4
  <1>8. /\ DisposalTypes /\ CallsDone(disposal, m, registered) /\ AwaitsDone(disposal, registered)
        /\ AwaitsOwed(disposal, m, registered, needs_await, has_awaited)
        /\ Carries(completion, left, Chained)
    BY <1>1 DEF DisposalInv
  <1>9. registered \in Seq(Resource) /\ needs_await \in BOOLEAN /\ has_awaited \in BOOLEAN
    BY <1>8 DEF DisposalTypes
  <1>10. ~ IsSkipped(registered, m) /\ disposal \in Seq(Call)
    BY <1>3, <1>8 DEF IsSkipped, CallsDone, Call
  <1>11. /\ CallsDone(e, m - 1, registered)
         /\ FailedIn(e) = FailedIn(disposal) \cup (IF fails THEN {m} ELSE {})
    <2>1. /\ CallsDone(e, m - 1, registered)
          /\ FailsToo(e, disposal, c)
      <3>1. /\ registered \in Seq(Resource) /\ m \in 1 .. Len(registered) /\ c \in Call
            /\ CallsDone(disposal, m, registered) /\ ~ IsSkipped(registered, m)
        BY <1>3, <1>4, <1>8, <1>9, <1>10
      <3> QED
        BY <1>5, <1>6, <3>1, CallKeeps
    <2> QED
      BY <1>5, <2>1 DEF FailsToo
  <1>12. AwaitsDone(e, registered) /\ (HasAwait(disposal) => HasAwait(e))
    <2>1. ~ MustAwait(registered[m].kind, fails) /\ m \in Nat \ {0}
      BY <1>3
    <2>2. registered[m].kind = "sync" /\ SkippedAfter(registered, m) => HasAwait(disposal)
      BY <1>1, <1>3
    <2> QED
      BY <1>6, <1>8, <1>10, <1>5, <2>1, <2>2, CallAwaited
  <1>13. AwaitsOwed(e, m - 1, registered, needs_await, has_awaited)
    <2>1. AwaitsOwed(e, m, registered, needs_await, has_awaited)
      BY <1>8, <1>9, <1>12, StillOwed
    <2> QED
      BY <1>3, <1>9, <1>10, <2>1, OneFewer
  <1>14. Chained = FailedIn(disposal) /\ Chained' = FailedIn(e)
    <2>1. \A y \in FailedIn(disposal) : y # NoError
      BY Failures
    <2>2. m # NoError
      BY <1>3, <1>8, DisposalAssumption DEF DisposalTypes, NoError
    <2>3. NoError \notin FailedIn(e)
      BY <1>11, <2>1, <2>2
    <2>4. Chained = FailedIn(disposal)
      BY Failures
    <2> QED
      BY <1>7, <2>3, <2>4 DEF Chained
  <1>15. Carries(completion', left', Chained')
    <2>1. CASE fails
      <3>1. \A y \in FailedIn(disposal) : y > m
        BY <1>1, Failures
      <3>2. completion' = Throw(Append(completion.errors, m))
        BY <1>3, <2>1 DEF chained
      <3>3. Carries(completion', left, FailedIn(disposal) \cup {m})
        BY <1>3, <1>8, <1>14, <3>1, <3>2, ChainKeeps
      <3> QED
        BY <1>11, <1>14, <2>1, <3>3
    <2>2. CASE ~ fails
      BY <1>8, <1>11, <1>14, <2>2
    <2> QED
      BY <2>1, <2>2
  <1>16. DisposalTypes'
    <2>1. /\ stage' \in {"body", "disposing", "awaiting", "closed"}
          /\ deferred_error' \in 1 .. NoError
      BY <1>8 DEF DisposalTypes
    <2> QED
      BY <1>9, <2>1, PopsTyped
  <1>17. InBody' /\ DeferredIsLast' /\ AwaitIsLast' /\ NothingOwed'
    BY DEF InBody, DeferredIsLast, AwaitIsLast, NothingOwed
  <1> QED
    BY <1>7, <1>11, <1>12, <1>13, <1>15, <1>16, <1>17 DEF DisposalInv

LEMMA dispose_syncKeeps ==
  ASSUME DisposalInv, NEW fails \in BOOLEAN, dispose_sync(fails)
  PROVE  DisposalInv'
  <1>1. /\ stage = "disposing" /\ ~ asynchronous /\ resources # <<>>
        /\ resources' = Front(resources)
        /\ disposal' = Append(disposal, [call |-> top.id, fails |-> fails])
        /\ completion' = (IF fails THEN chained(top.id) ELSE completion)
        /\ UNCHANGED <<asynchronous, stage, needs_await, has_awaited, deferred_error,
                       registered, left>>
    BY DEF dispose_sync, scopeVars
  <1>2. deferred_error = NoError
    BY <1>1 DEF DisposalInv, DeferredIsLast
  <1>3. \A n \in DOMAIN registered : registered[n].kind = "sync"
    BY <1>1 DEF DisposalInv, DisposalTypes
  <1>4. top.kind = "sync" /\ ~ SkippedAfter(registered, Len(resources))
    <2>1. PICK m : m = Len(resources)
      OBVIOUS
    <2>2. m \in 1 .. Len(registered) /\ top = registered[m]
      BY <1>1, <2>1, Popped
    <2>3. DOMAIN registered = 1 .. Len(registered)
      BY DEF DisposalInv, DisposalTypes
    <2> QED
      BY <1>3, <2>2, <2>3 DEF SkippedAfter, IsSkipped
  <1>5. ~ MustAwait(top.kind, fails) /\ top.kind # "skipped"
    BY <1>4 DEF MustAwait
  <1> QED
    BY <1>1, <1>2, <1>4, <1>5, CallKeepsInv

LEMMA call_disposerKeeps ==
  ASSUME DisposalInv, NEW fails \in BOOLEAN, call_disposer(fails)
  PROVE  DisposalInv'
  <1>1. PICK awaits : awaits = (top.kind = "fallback" \/ (top.kind = "async" /\ ~ fails))
    OBVIOUS
  <1>2. PICK c : c = [call |-> top.id, fails |-> fails]
    OBVIOUS
  <1>3. /\ stage = "disposing" /\ asynchronous /\ deferred_error = NoError
        /\ resources # <<>> /\ top.kind # "skipped"
        /\ top.kind = "sync" => ~ owes_await
        /\ resources' = Front(resources)
        /\ stage' = (IF awaits THEN "awaiting" ELSE stage)
        /\ has_awaited' = (has_awaited \/ awaits)
        /\ disposal' = disposal \o (IF awaits THEN <<c, Await>> ELSE <<c>>)
        /\ deferred_error' = (IF fails /\ top.kind = "fallback" THEN top.id ELSE NoError)
        /\ completion' = (IF fails /\ top.kind # "fallback" THEN chained(top.id) ELSE completion)
        /\ UNCHANGED <<asynchronous, needs_await, registered, left>>
    BY <1>1, <1>2 DEF call_disposer
  <1>4. PICK m : m = Len(resources)
    OBVIOUS
  <1>5. PICK f : f = Front(resources)
    OBVIOUS
  <1>6. /\ m \in 1 .. Len(registered) /\ m \in Nat /\ m - 1 \in Nat /\ top = registered[m]
        /\ top.id = m /\ Len(f) = m - 1 /\ Len(registered) \in Nat
    BY <1>3, <1>4, <1>5, Popped
  <1>7. /\ DisposalTypes /\ CallsDone(disposal, m, registered) /\ AwaitsDone(disposal, registered)
        /\ AwaitsOwed(disposal, m, registered, needs_await, has_awaited)
        /\ Carries(completion, left, Chained)
    BY <1>4 DEF DisposalInv
  <1>8. /\ registered \in Seq(Resource) /\ needs_await \in BOOLEAN /\ has_awaited \in BOOLEAN
        /\ Len(registered) <= MaxResources
    BY <1>7 DEF DisposalTypes
  <1>9. ~ IsSkipped(registered, m) /\ disposal \in Seq(Call)
    BY <1>3, <1>6, <1>7 DEF IsSkipped, CallsDone, Call
  <1>10. c \in Call /\ Await \in Call
    BY <1>2, <1>6 DEF Call, Await, Block
  <1>11. CASE ~ awaits
    <2>1. disposal' = Append(disposal, c)
      <3>1. \A s \in Seq(Call) : s \o <<c>> = Append(s, c)
        BY <1>10
      <3> QED
        BY <1>3, <1>9, <1>11, <3>1
    <2>2. ~ MustAwait(top.kind, fails) /\ top.kind # "fallback"
      BY <1>1, <1>11 DEF MustAwait
    <2>3. top.kind = "sync" /\ SkippedAfter(registered, Len(resources)) => HasAwait(disposal)
      BY <1>3, <1>4, <1>7 DEF AwaitsOwed, owes_await
    <2>4. /\ UNCHANGED <<asynchronous, stage, needs_await, has_awaited, deferred_error, registered, left>>
          /\ completion' = (IF fails THEN chained(top.id) ELSE completion)
      BY <1>3, <1>8, <1>11, <2>2
    <2> QED
      BY <1>2, <1>3, <2>1, <2>2, <2>3, <2>4, CallKeepsInv
  <1>12. CASE awaits
    <2>1. PICK d : d = disposal
      OBVIOUS
    <2>2. PICK a : a = Append(d, c)
      OBVIOUS
    <2>3. PICK e : e = d \o <<c, Await>>
      OBVIOUS
    <2>4. d \in Seq(Call) /\ disposal' = e /\ resources' = f /\ Len(resources') = m - 1
      BY <1>3, <1>5, <1>6, <1>9, <1>12, <2>1, <2>3
    <2>5. /\ e = Append(a, Await) /\ Len(d) \in Nat /\ Len(e) = Len(d) + 2
          /\ e[Len(d) + 1] = c /\ e[Len(d) + 2] = Await
      BY <1>10, <2>2, <2>3, <2>4, TwoMore
    <2>6. /\ CallsDone(a, m - 1, registered)
          /\ FailedIn(a) = FailedIn(d) \cup (IF fails THEN {m} ELSE {})
      <3>1. c.call = m /\ c.fails = fails
        BY <1>2, <1>6
      <3>2. /\ CallsDone(a, m - 1, registered)
            /\ FailsToo(a, d, c)
        <4>1. /\ registered \in Seq(Resource) /\ m \in 1 .. Len(registered) /\ c \in Call
              /\ CallsDone(d, m, registered) /\ ~ IsSkipped(registered, m)
          BY <1>6, <1>7, <1>8, <1>9, <1>10, <2>1
        <4> QED
          BY <2>2, <3>1, <4>1, CallKeeps
      <3> QED
        BY <3>1, <3>2 DEF FailsToo
    <2>7. m - 1 \in 0 .. Len(registered)
      BY <1>6
    <2>8. CallsDone(e, m - 1, registered) /\ FailedIn(e) = FailedIn(a)
      BY <1>8, <2>5, <2>6, <2>7, AwaitKeeps
    <2>9. registered[m].kind # "sync" /\ m \in Nat \ {0}
      <3>1. top.kind # "sync"
        BY <1>1, <1>12
      <3> QED
        BY <1>6, <3>1
    <2>10. AwaitsDone(e, registered) /\ HasAwait(e)
      BY <1>2, <1>6, <1>7, <1>10, <2>1, <2>3, <2>4, <2>9, CallAndAwait
    <2>11. AwaitsOwed(e, m - 1, registered, needs_await', has_awaited')
      BY <2>10 DEF AwaitsOwed
    <2>12. m # NoError /\ m \in 1 .. NoError
      BY <1>6, <1>8, DisposalAssumption DEF NoError
    <2>13. Chained' = Chained
      <3>1. Chained = FailedIn(d) /\ (\A y \in FailedIn(d) : y > m /\ y # NoError)
        BY <1>3, <1>4, <2>1, Failures
      <3>2. Chained' = (FailedIn(d) \cup (IF fails THEN {m} ELSE {})) \ {deferred_error'}
        BY <2>4, <2>6, <2>8 DEF Chained
      <3>3. deferred_error' = (IF fails THEN m ELSE NoError)
        BY <1>1, <1>3, <1>6, <1>12
      <3>4. m \notin FailedIn(d) /\ NoError \notin FailedIn(d)
        BY <1>6, <3>1
      <3> QED
        BY <3>1, <3>2, <3>3, <3>4
    <2>14. completion' = completion
      BY <1>1, <1>3, <1>12
    <2>15. DisposalTypes'
      <3>1. /\ stage' \in {"body", "disposing", "awaiting", "closed"} /\ needs_await' \in BOOLEAN
            /\ has_awaited' \in BOOLEAN
        BY <1>3, <1>8, <1>12
      <3>2. deferred_error' \in 1 .. NoError
        BY <1>3, <1>6, <1>7, <2>12 DEF DisposalTypes
      <3> QED
        BY <1>3, <3>1, <3>2, PopsTyped
    <2>16. DeferredIsLast'
      <3>1. deferred_error' # NoError => deferred_error' = m /\ c = [call |-> m, fails |-> TRUE]
        BY <1>2, <1>3, <1>6
      <3>2. Len(e) - 1 = Len(d) + 1 /\ Len(e) >= 2 /\ m - 1 + 1 = m
        BY <1>6, <2>5
      <3> QED
        BY <1>3, <2>4, <2>5, <3>1, <3>2 DEF DeferredIsLast
    <2>17. InBody' /\ AwaitIsLast' /\ NothingOwed'
      <3>1. stage' = "awaiting" /\ Len(e) >= 1 /\ e[Len(e)] = Await
        BY <1>3, <1>12, <2>5
      <3> QED
        BY <2>4, <3>1 DEF InBody, AwaitIsLast, NothingOwed
    <2>18. Carries(completion', left', Chained')
      BY <1>3, <1>7, <2>13, <2>14
    <2> QED
      BY <1>3, <2>4, <2>8, <2>10, <2>11, <2>15, <2>16, <2>17, <2>18 DEF DisposalInv
  <1> QED
    BY <1>1, <1>11, <1>12

LEMMA chain_deferredKeeps ==
  ASSUME DisposalInv, chain_deferred
  PROVE  DisposalInv'
  <1>1. /\ stage = "disposing" /\ deferred_error # NoError
        /\ completion' = Throw(Append(completion.errors, deferred_error))
        /\ deferred_error' = NoError
        /\ UNCHANGED <<asynchronous, stage, resources, needs_await, has_awaited,
                       registered, disposal, left>>
    BY DEF chain_deferred, chained
  <1>2. PICK x : x = deferred_error
    OBVIOUS
  <1>3. PICK d : d = disposal
    OBVIOUS
  <1>4. /\ DisposalTypes /\ CallsDone(d, Len(resources), registered)
        /\ Carries(completion, left, Chained)
        /\ x = Len(resources) + 1 /\ Len(d) >= 2
        /\ d[Len(d) - 1] = [call |-> x, fails |-> TRUE]
    BY <1>1, <1>2, <1>3 DEF DisposalInv, DeferredIsLast
  <1>5. x \in Nat /\ x # 0 /\ d \in Seq(Call)
    BY <1>2, <1>4 DEF DisposalTypes, CallsDone, Call
  <1>6. \A y \in FailedIn(d) : y \in Nat /\ y > Len(resources) /\ y # NoError
    BY <1>3, Failures
  <1>7. x \in FailedIn(d)
    <2>1. Len(d) - 1 \in DOMAIN d
      BY <1>4, <1>5
    <2>2. d[Len(d) - 1] # Await /\ d[Len(d) - 1].fails /\ d[Len(d) - 1].call = x
      BY <1>4, <1>5 DEF Await, Block
    <2> QED
      BY <2>1, <2>2 DEF FailedIn
  <1>8. Chained = FailedIn(d) \ {x}
    BY <1>2, <1>3 DEF Chained
  <1>9. Chained' = FailedIn(d)
    <2>1. Chained' = FailedIn(d) \ {NoError}
      BY <1>1, <1>3 DEF Chained
    <2> QED
      BY <1>6, <2>1
  <1>10. \A y \in FailedIn(d) \ {x} : y > x
    BY <1>4, <1>5, <1>6 DEF DisposalTypes
  <1>11. Carries(completion, left, FailedIn(d) \ {x})
    BY <1>4, <1>8
  <1>12. completion' = Throw(Append(completion.errors, x))
    BY <1>1, <1>2
  <1>13. Carries(completion', left, (FailedIn(d) \ {x}) \cup {x})
    BY <1>5, <1>10, <1>11, <1>12, ChainKeeps
  <1>14. (FailedIn(d) \ {x}) \cup {x} = FailedIn(d)
    BY <1>7
  <1>15. Carries(completion', left', Chained')
    BY <1>1, <1>9, <1>13, <1>14
  <1>16. DisposalTypes'
    <2>1. NoError \in 1 .. NoError
      BY DisposalAssumption DEF NoError
    <2> QED
      BY <1>1, <1>4, <2>1 DEF DisposalTypes
  <1>17. InBody' /\ DeferredIsLast' /\ AwaitIsLast' /\ NothingOwed'
    BY <1>1 DEF InBody, DeferredIsLast, AwaitIsLast, NothingOwed
  <1>18. /\ CallsDone(disposal', Len(resources'), registered')
         /\ AwaitsDone(disposal', registered')
         /\ AwaitsOwed(disposal', Len(resources'), registered', needs_await', has_awaited')
    BY <1>1 DEF DisposalInv
  <1> QED
    BY <1>15, <1>16, <1>17, <1>18 DEF DisposalInv

LEMMA await_owedKeeps ==
  ASSUME DisposalInv, await_owed
  PROVE  DisposalInv'
  <1>1. /\ stage = "disposing" /\ deferred_error = NoError
        /\ needs_await' = FALSE /\ stage' = "awaiting"
        /\ disposal' = Append(disposal, Await)
        /\ UNCHANGED <<asynchronous, resources, has_awaited, deferred_error,
                       completion, registered, left>>
    BY DEF await_owed
  <1>2. PICK e : e = Append(disposal, Await)
    OBVIOUS
  <1>3. PICK m : m = Len(resources)
    OBVIOUS
  <1>4. /\ DisposalTypes /\ CallsDone(disposal, m, registered) /\ AwaitsDone(disposal, registered)
        /\ Carries(completion, left, Chained)
    BY <1>3 DEF DisposalInv
  <1>5. registered \in Seq(Resource) /\ m \in 0 .. Len(registered) /\ disposal \in Seq(Call)
    BY <1>3, <1>4 DEF DisposalTypes, CallsDone, Call
  <1>6. CallsDone(e, m, registered) /\ FailedIn(e) = FailedIn(disposal)
    BY <1>2, <1>4, <1>5, AwaitKeeps
  <1>7. AwaitsDone(e, registered) /\ HasAwait(e)
    BY <1>2, <1>4, <1>5, AwaitAwaited
  <1>8. AwaitsOwed(e, m, registered, FALSE, has_awaited)
    BY <1>7 DEF AwaitsOwed
  <1>9. Chained' = Chained
    BY <1>1, <1>2, <1>6 DEF Chained
  <1>10. DisposalTypes'
    BY <1>1, <1>4 DEF DisposalTypes
  <1>11. Len(e) >= 1 /\ e[Len(e)] = Await
    BY <1>2, <1>5, OneMore DEF Call, Await, Block
  <1>12. InBody' /\ DeferredIsLast' /\ AwaitIsLast' /\ NothingOwed'
    BY <1>1, <1>2, <1>11 DEF InBody, DeferredIsLast, AwaitIsLast, NothingOwed
  <1> QED
    BY <1>1, <1>2, <1>3, <1>4, <1>6, <1>7, <1>8, <1>9, <1>10, <1>12 DEF DisposalInv

LEMMA skipKeeps ==
  ASSUME DisposalInv, skip
  PROVE  DisposalInv'
  <1>1. /\ stage = "disposing" /\ deferred_error = NoError
        /\ resources # <<>> /\ top.kind = "skipped"
        /\ resources' = Front(resources) /\ needs_await' = TRUE
        /\ UNCHANGED <<asynchronous, stage, has_awaited, deferred_error,
                       completion, registered, disposal, left>>
    BY DEF skip
  <1>2. PICK m : m = Len(resources)
    OBVIOUS
  <1>3. PICK f : f = Front(resources)
    OBVIOUS
  <1>4. m \in 1 .. Len(registered) /\ top = registered[m] /\ Len(f) = m - 1 /\ resources' = f
    BY <1>1, <1>2, <1>3, Popped
  <1>5. /\ DisposalTypes /\ CallsDone(disposal, m, registered) /\ AwaitsDone(disposal, registered)
        /\ AwaitsOwed(disposal, m, registered, needs_await, has_awaited)
        /\ Carries(completion, left, Chained)
    BY <1>2 DEF DisposalInv
  <1>6. registered \in Seq(Resource) /\ IsSkipped(registered, m)
    BY <1>1, <1>4, <1>5 DEF DisposalTypes, IsSkipped
  <1>7. CallsDone(disposal, m - 1, registered)
    BY <1>4, <1>5, <1>6, SkipKeeps
  <1>8. AwaitsOwed(disposal, m - 1, registered, TRUE, has_awaited)
    BY <1>5 DEF AwaitsOwed
  <1>9. DisposalTypes'
    <2>1. /\ stage' \in {"body", "disposing", "awaiting", "closed"} /\ needs_await' \in BOOLEAN
          /\ has_awaited' \in BOOLEAN /\ deferred_error' \in 1 .. NoError
      BY <1>1, <1>5 DEF DisposalTypes
    <2> QED
      BY <1>1, <2>1, PopsTyped
  <1>10. InBody' /\ DeferredIsLast' /\ AwaitIsLast' /\ NothingOwed'
    BY <1>1 DEF InBody, DeferredIsLast, AwaitIsLast, NothingOwed
  <1>11. Chained' = Chained
    BY <1>1 DEF Chained
  <1> QED
    BY <1>1, <1>4, <1>5, <1>7, <1>8, <1>9, <1>10, <1>11 DEF DisposalInv

LEMMA await_fulfilledKeeps ==
  ASSUME DisposalInv, await_fulfilled
  PROVE  DisposalInv'
  <1>1. /\ stage' = "disposing"
        /\ UNCHANGED <<asynchronous, resources, needs_await, has_awaited, deferred_error,
                       completion, registered, left, disposal>>
    BY DEF await_fulfilled, scopeVars
  <1>2. DisposalTypes' /\ InBody' /\ DeferredIsLast' /\ AwaitIsLast' /\ NothingOwed'
    BY <1>1 DEF DisposalInv, DisposalTypes, InBody, DeferredIsLast, AwaitIsLast, NothingOwed
  <1>3. Chained' = Chained
    BY <1>1 DEF Chained
  <1> QED
    BY <1>1, <1>2, <1>3 DEF DisposalInv

LEMMA close_scopeKeeps ==
  ASSUME DisposalInv, close_scope
  PROVE  DisposalInv'
  <1>1. /\ stage' = "closed" /\ resources = <<>> /\ deferred_error = NoError
        /\ asynchronous => ~ owes_await
        /\ UNCHANGED <<asynchronous, resources, needs_await, has_awaited, deferred_error,
                       completion, registered, left, disposal>>
    BY DEF close_scope, scopeVars
  <1>2. DisposalTypes' /\ InBody' /\ DeferredIsLast' /\ AwaitIsLast'
    BY <1>1 DEF DisposalInv, DisposalTypes, InBody, DeferredIsLast, AwaitIsLast
  <1>3. NothingOwed'
    BY <1>1 DEF NothingOwed, owes_await
  <1>4. Chained' = Chained
    BY <1>1 DEF Chained
  <1> QED
    BY <1>1, <1>2, <1>3, <1>4 DEF DisposalInv

\* The k-th call fails late.
LEMMA RejectKeeps ==
  ASSUME NEW d, NEW reg, NEW m, NEW k \in DOMAIN d, NEW e,
         CallsDone(d, m, reg), AwaitsDone(d, reg), d[k] # Await, reg[d[k].call].kind = "async",
         m \in Nat, Len(reg) \in Nat,
         NEW c \in Call, c.call = d[k].call, c.fails, e = [d EXCEPT ![k] = c]
  PROVE  /\ CallsDone(e, m, reg) /\ AwaitsDone(e, reg) /\ (HasAwait(d) => HasAwait(e))
         /\ FailsToo(e, d, c)
         /\ d[k].call \in Nat /\ d[k].call > m
  <1>1. d \in Seq(Call) /\ d[k] \in Call /\ k \in 1 .. Len(d)
    <2>1. d \in Seq(Call)
      BY DEF CallsDone, Call
    <2> QED
      BY <2>1
  <1>3. c.call = d[k].call /\ c.fails = TRUE
    BY DEF Call
  <1>4. d[k].call \in (m + 1) .. Len(reg)
    BY DEF CallsDone
  <1>5. c # Await
    BY <1>3 DEF Await
  <1>7. e \in Seq(Call) /\ DOMAIN e = DOMAIN d /\ e[k] = c /\ \A i \in DOMAIN d : i # k => e[i] = d[i]
    <2>1. e \in Seq(Call)
      BY <1>1, ExceptSeq
    <2> QED
      BY <1>1, <2>1
  <1>8. \A i \in DOMAIN d : /\ e[i].call = d[i].call /\ (e[i] = Await <=> d[i] = Await)
                            /\ i # k => e[i].fails = d[i].fails
    BY <1>3, <1>5, <1>7
  <1>9. CallsDone(e, m, reg)
    <2>1. \A i \in DOMAIN e : e[i] # Await =>
            e[i].call \in (m + 1) .. Len(reg) /\ ~ IsSkipped(reg, e[i].call)
      BY <1>7, <1>8 DEF CallsDone
    <2>2. \A n \in (m + 1) .. Len(reg) : ~ IsSkipped(reg, n) =>
            \E i \in DOMAIN e : e[i] # Await /\ e[i].call = n
      BY <1>7, <1>8 DEF CallsDone
    <2>3. \A i, j \in DOMAIN e :
            i < j /\ e[i] # Await /\ e[j] # Await => e[i].call > e[j].call
      BY <1>7, <1>8 DEF CallsDone
    <2> QED
      BY <1>7, <2>1, <2>2, <2>3 DEF CallsDone, Call
  <1>10. AwaitsDone(e, reg)
    <2>1. \A i \in DOMAIN e : e[i] # Await /\ MustAwait(reg[e[i].call].kind, e[i].fails) =>
            i + 1 \in DOMAIN e /\ e[i + 1] = Await
      <3>1. SUFFICES ASSUME NEW i \in DOMAIN e, e[i] # Await, MustAwait(reg[e[i].call].kind, e[i].fails)
                     PROVE  i + 1 \in DOMAIN e /\ e[i + 1] = Await
        OBVIOUS
      <3>2. i # k
        BY <1>3, <1>7, <3>1 DEF MustAwait
      <3>3. i \in DOMAIN d /\ d[i] # Await /\ MustAwait(reg[d[i].call].kind, d[i].fails)
        BY <1>7, <3>1, <3>2
      <3>4. i + 1 \in DOMAIN d /\ d[i + 1] = Await
        BY <3>3 DEF AwaitsDone
      <3> QED
        BY <1>7, <1>8, <3>4
    <2>2. \A i \in DOMAIN e : e[i] # Await /\ reg[e[i].call].kind = "sync" /\ SkippedAfter(reg, e[i].call) =>
            \E j \in 1 .. (i - 1) : e[j] = Await
      <3>1. SUFFICES ASSUME NEW i \in DOMAIN e, e[i] # Await, reg[e[i].call].kind = "sync",
                            SkippedAfter(reg, e[i].call)
                     PROVE  \E j \in 1 .. (i - 1) : e[j] = Await
        OBVIOUS
      <3>2. /\ i \in DOMAIN d /\ d[i] # Await /\ reg[d[i].call].kind = "sync"
            /\ SkippedAfter(reg, d[i].call)
        BY <1>7, <1>8, <3>1
      <3>3. PICK j \in 1 .. (i - 1) : d[j] = Await
        BY <3>2 DEF AwaitsDone
      <3>4. j \in DOMAIN d
        BY <1>1, <3>2, <3>3
      <3> QED
        BY <1>8, <3>3, <3>4
    <2> QED
      BY <2>1, <2>2 DEF AwaitsDone
  <1>11. HasAwait(d) => HasAwait(e)
    BY <1>7, <1>8 DEF HasAwait
  <1>12. FailedIn(e) = FailedIn(d) \cup {d[k].call}
    <2>1. ASSUME NEW n \in FailedIn(e) PROVE n \in FailedIn(d) \/ n = d[k].call
      <3>1. PICK i \in DOMAIN e : e[i] # Await /\ e[i].fails /\ n = e[i].call
        BY <2>1 DEF FailedIn
      <3>2. CASE i = k
        BY <1>3, <1>7, <3>1, <3>2
      <3>3. CASE i # k
        <4>1. i \in DOMAIN d /\ e[i] = d[i]
          BY <1>7, <3>1, <3>3
        <4> QED
          BY <3>1, <4>1 DEF FailedIn
      <3> QED
        BY <3>2, <3>3
    <2>2. ASSUME NEW n \in FailedIn(d) PROVE n \in FailedIn(e)
      <3>1. PICK i \in DOMAIN d : d[i] # Await /\ d[i].fails /\ n = d[i].call
        BY <2>2 DEF FailedIn
      <3>2. i \in DOMAIN e /\ e[i] # Await /\ e[i].fails /\ n = e[i].call
        BY <1>3, <1>5, <1>7, <3>1
      <3> QED
        BY <3>2 DEF FailedIn
    <2>3. d[k].call \in FailedIn(e)
      BY <1>3, <1>5, <1>7 DEF FailedIn
    <2> QED
      BY <2>1, <2>2, <2>3
  <1>13. d[k].call \in Nat /\ d[k].call > m
    BY <1>4
  <1> QED
    BY <1>3, <1>9, <1>10, <1>11, <1>12, <1>13 DEF FailsToo

LEMMA dispose_async_rejectedKeeps ==
  ASSUME DisposalInv, dispose_async_rejected
  PROVE  DisposalInv'
  <1>1. PICK k : k = Len(disposal) - 1
    OBVIOUS
  <1>2. PICK x : x = disposal[k].call
    OBVIOUS
  <1>3. /\ stage = "awaiting" /\ Len(disposal) >= 2 /\ disposal[k] # Await
        /\ ~ disposal[k].fails /\ registered[x].kind = "async"
        /\ stage' = "disposing" /\ completion' = Throw(Append(completion.errors, x))
        /\ disposal' = [disposal EXCEPT ![k].fails = TRUE]
        /\ UNCHANGED <<asynchronous, resources, needs_await, has_awaited, deferred_error,
                       registered, left>>
    BY <1>1, <1>2 DEF dispose_async_rejected, last_call, chained, scopeVars
  <1>4. PICK m : m = Len(resources)
    OBVIOUS
  <1>5. PICK c : c = [disposal[k] EXCEPT !.fails = TRUE]
    OBVIOUS
  <1>6. PICK e : e = [disposal EXCEPT ![k] = c]
    OBVIOUS
  <1>7. /\ DisposalTypes /\ CallsDone(disposal, m, registered) /\ AwaitsDone(disposal, registered)
        /\ AwaitsOwed(disposal, m, registered, needs_await, has_awaited)
        /\ Carries(completion, left, Chained)
        /\ DeferredIsLast /\ AwaitIsLast
    BY <1>4 DEF DisposalInv
  <1>8. /\ m \in Nat /\ Len(registered) \in Nat /\ disposal \in Seq(Call)
        /\ needs_await \in BOOLEAN /\ has_awaited \in BOOLEAN
    BY <1>4, <1>7 DEF DisposalTypes, CallsDone, Call
  <1>9. k \in DOMAIN disposal /\ k + 1 = Len(disposal) /\ disposal[k + 1] = Await
    BY <1>1, <1>3, <1>7, <1>8 DEF AwaitIsLast
  <1>10. c \in Call /\ c.call = x /\ c.fails = TRUE /\ disposal' = e
    <2>1. disposal[k] \in Call
      BY <1>8, <1>9
    <2>2. c \in Call /\ c.call = disposal[k].call /\ c.fails = TRUE
      BY <1>5, <2>1 DEF Call
    <2> QED
      BY <1>2, <1>3, <1>5, <1>6, <2>2
  <1>11. /\ CallsDone(e, m, registered) /\ AwaitsDone(e, registered)
         /\ HasAwait(disposal) => HasAwait(e)
         /\ FailedIn(e) = FailedIn(disposal) \cup {x}
         /\ x \in Nat /\ x > m
    <2>1. /\ CallsDone(e, m, registered) /\ AwaitsDone(e, registered)
          /\ HasAwait(disposal) => HasAwait(e)
          /\ FailsToo(e, disposal, c)
          /\ disposal[k].call \in Nat /\ disposal[k].call > m
      BY <1>2, <1>3, <1>6, <1>7, <1>8, <1>9, <1>10, RejectKeeps
    <2> QED
      BY <1>2, <1>10, <2>1 DEF FailsToo
  <1>12. deferred_error = NoError
    BY <1>1, <1>3, <1>7 DEF DeferredIsLast
  <1>13. Chained = FailedIn(disposal)
    BY <1>12, Failures
  <1>14. \A y \in FailedIn(disposal) : y > x
    <2>1. SUFFICES ASSUME NEW y \in FailedIn(disposal) PROVE y > x
      OBVIOUS
    <2>2. PICK i \in DOMAIN disposal : disposal[i] # Await /\ disposal[i].fails /\ y = disposal[i].call
      BY <2>1 DEF FailedIn
    <2>3. i < k
      <3>1. i # k /\ i # k + 1
        BY <1>3, <1>9, <2>2
      <3> QED
        BY <1>8, <1>9, <3>1
    <2> QED
      BY <1>2, <1>3, <1>7, <1>9, <2>2, <2>3 DEF CallsDone
  <1>15. x # NoError
    <2>1. x \in FailedIn(e)
      BY <1>11
    <2>2. x \in (m + 1) .. Len(registered)
      BY <2>1, <1>11 DEF FailedIn, CallsDone
    <2> QED
      BY <1>7, <1>8, <2>2, DisposalAssumption DEF DisposalTypes, NoError
  <1>16. Chained' = FailedIn(disposal) \cup {x}
    <2>1. \A y \in FailedIn(disposal) : y # NoError
      BY Failures
    <2>2. Chained' = FailedIn(e) \ {NoError}
      BY <1>10, <1>3, <1>12 DEF Chained
    <2> QED
      BY <1>11, <1>15, <2>1, <2>2
  <1>17. Carries(completion', left', Chained')
    <2>1. Carries(completion', left, FailedIn(disposal) \cup {x})
      BY <1>3, <1>7, <1>11, <1>13, <1>14, ChainKeeps
    <2> QED
      BY <1>3, <1>16, <2>1
  <1>18. AwaitsOwed(e, m, registered, needs_await, has_awaited)
    BY <1>7, <1>8, <1>11, StillOwed
  <1>19. DisposalTypes'
    BY <1>3, <1>7 DEF DisposalTypes
  <1>20. InBody' /\ DeferredIsLast' /\ AwaitIsLast' /\ NothingOwed'
    BY <1>3, <1>12 DEF InBody, DeferredIsLast, AwaitIsLast, NothingOwed
  <1> QED
    BY <1>3, <1>4, <1>10, <1>11, <1>17, <1>18, <1>19, <1>20 DEF DisposalInv

LEMMA DisposalNextKeeps == DisposalInv /\ [DisposalNext]_disposalVars => DisposalInv'
  <1>1. SUFFICES ASSUME DisposalInv, [DisposalNext]_disposalVars PROVE DisposalInv'
    OBVIOUS
  <1>2. ASSUME NEW k \in ResourceKinds, register_disposable(k) PROVE DisposalInv'
    BY <1>1, <1>2, register_disposableKeeps
  <1>3. ASSUME NEW c \in {Normal, Return, Throw(<<Block>>)}, leave_block(c) PROVE DisposalInv'
    BY <1>1, <1>3, leave_blockKeeps
  <1>4. ASSUME NEW fails \in BOOLEAN, dispose_sync(fails) \/ call_disposer(fails) PROVE DisposalInv'
    BY <1>1, <1>4, dispose_syncKeeps, call_disposerKeeps
  <1>5. CASE chain_deferred \/ await_owed \/ skip
    BY <1>1, <1>5, chain_deferredKeeps, await_owedKeeps, skipKeeps
  <1>6. CASE await_fulfilled \/ dispose_async_rejected \/ close_scope
    BY <1>1, <1>6, await_fulfilledKeeps, dispose_async_rejectedKeeps, close_scopeKeeps
  <1>7. CASE UNCHANGED disposalVars
    <2>1. UNCHANGED <<asynchronous, stage, resources, needs_await, has_awaited, deferred_error,
                      completion, registered, left, disposal>>
      BY <1>7 DEF disposalVars, scopeVars
    <2> QED
      BY <1>1, <2>1 DEF DisposalInv, DisposalTypes, InBody, DeferredIsLast, AwaitIsLast,
                        NothingOwed, Chained
  <1> QED
    BY <1>1, <1>2, <1>3, <1>4, <1>5, <1>6, <1>7 DEF DisposalNext

\* However a block is left and whatever throws or rejects, when its scope is
\* closed every resource was disposed once, last to first, the completion
\* carries each failure in order on top of the block's own error, and what
\* must be awaited was awaited before the next disposer (dispose_scope,
\* dispose_async_step).
THEOREM ResourcesDisposed == DisposalSpec => []EveryResourceDisposed
  <1>1. DisposalInv => EveryResourceDisposed
    <2>1. SUFFICES ASSUME DisposalInv, stage = "closed"
                   PROVE  DisposedLastToFirst /\ FailuresOnTop /\ AwaitedInTurn
      BY DEF EveryResourceDisposed
    <2>2. PICK d : d = disposal
      OBVIOUS
    <2>3. /\ CallsDone(d, 0, registered) /\ AwaitsDone(d, registered)
          /\ AwaitsOwed(d, 0, registered, needs_await, has_awaited)
          /\ Carries(completion, left, Chained) /\ deferred_error = NoError
          /\ asynchronous => ~ needs_await \/ has_awaited
      BY <2>1, <2>2 DEF DisposalInv, NothingOwed
    <2>4. /\ registered \in Seq(Resource) /\ d \in Seq(Call)
          /\ DOMAIN registered = 1 .. Len(registered) /\ Len(registered) \in Nat
          /\ \A n \in DOMAIN registered : asynchronous \/ registered[n].kind = "sync"
          /\ DOMAIN d = 1 .. Len(d) /\ Len(d) \in Nat
      BY <2>1, <2>3 DEF DisposalInv, DisposalTypes, CallsDone, Call
    <2>5. calls = {i \in DOMAIN d : d[i] # Await}
      BY <2>2 DEF calls
    <2>6. \A n : IsSkipped(registered, n) <=> Skipped(n)
      BY DEF IsSkipped, Skipped
    <2>7. DisposedLastToFirst
      <3>1. ASSUME NEW i \in calls PROVE d[i].call \in DOMAIN registered /\ ~ Skipped(d[i].call)
        BY <2>3, <2>4, <2>5, <2>6, <3>1 DEF CallsDone
      <3>2. ASSUME NEW n \in DOMAIN registered, ~ Skipped(n) PROVE \E i \in calls : d[i].call = n
        <4>1. n \in (0 + 1) .. Len(registered) /\ ~ IsSkipped(registered, n)
          BY <2>4, <2>6, <3>2
        <4> QED
          BY <2>3, <2>5, <4>1 DEF CallsDone
      <3>3. {d[i].call : i \in calls} = {n \in DOMAIN registered : ~ Skipped(n)}
        BY <3>1, <3>2
      <3>4. \A i, j \in calls : i < j => d[i].call > d[j].call
        BY <2>3, <2>5 DEF CallsDone
      <3> QED
        BY <2>2, <3>3, <3>4 DEF DisposedLastToFirst
    <2>8. failures = FailedIn(d) /\ Chained = FailedIn(d)
      <3>1. {j \in calls : d[j].fails} = {j \in DOMAIN d : d[j] # Await /\ d[j].fails}
        BY <2>5
      <3>2. failures = FailedIn(d)
        BY <2>2, <3>1 DEF failures, FailedIn
      <3> QED
        BY <2>1, <2>2, <2>3, <3>2, Failures
    <2>9. FailuresOnTop
      <3>1. PICK s : s = left.errors
        OBVIOUS
      <3>2. PICK t : t = completion.errors
        OBVIOUS
      <3>3. OnTop(t, s, failures)
        BY <2>3, <2>8, <3>1, <3>2 DEF Carries
      <3>4. /\ failures = {} => completion = left
            /\ failures # {} => completion.abrupt = "throw"
        BY <2>3, <2>8 DEF Carries
      <3>5. IsPrefix(s, t)
        <4>1. /\ s \in Seq(Nat) /\ t \in Seq(Nat) /\ Len(s) <= Len(t)
              /\ \A i \in 1 .. Len(s) : t[i] = s[i]
          BY <3>3 DEF OnTop
        <4>2. PICK p : p = SubSeq(s, 1, Len(s))
          OBVIOUS
        <4>3. PICK q : q = SubSeq(t, 1, Len(s))
          OBVIOUS
        <4>4. p \in Seq(Nat) /\ Len(p) = Len(s) /\ \A i \in 1 .. Len(s) : p[i] = s[i]
          BY <4>1, <4>2
        <4>5. q \in Seq(Nat) /\ Len(q) = Len(s) /\ \A i \in 1 .. Len(s) : q[i] = t[i]
          BY <4>1, <4>3
        <4>6. p = q
          BY <4>1, <4>4, <4>5, SeqEqual
        <4> QED
          BY <4>1, <4>2, <4>3, <4>6 DEF IsPrefix
      <3>6. /\ {t[i] : i \in (Len(s) + 1) .. Len(t)} = failures
            /\ \A i, j \in (Len(s) + 1) .. Len(t) : i < j => t[i] > t[j]
        BY <3>3 DEF OnTop
      <3> QED
        BY <3>1, <3>2, <3>4, <3>5, <3>6 DEF FailuresOnTop
    <2>10. AwaitedInTurn
      <3>1. ASSUME NEW i \in calls
            PROVE  LET k == registered[d[i].call].kind IN
                   /\ k = "fallback" \/ (k = "async" /\ ~ d[i].fails) => d[i + 1] = Await
                   /\ k = "sync" /\ (\E n \in DOMAIN registered : Skipped(n) /\ n > d[i].call) =>
                        \E j \in 1 .. (i - 1) : d[j] = Await
        <4>1. i \in DOMAIN d /\ d[i] # Await
          BY <2>5, <3>1
        <4>2. ASSUME \E n \in DOMAIN registered : Skipped(n) /\ n > d[i].call
              PROVE  SkippedAfter(registered, d[i].call)
          BY <2>6, <4>2 DEF SkippedAfter
        <4> QED
          BY <2>3, <4>1, <4>2 DEF AwaitsDone, MustAwait
      <3>2. ASSUME NEW n \in DOMAIN registered, Skipped(n)
            PROVE  \E j \in 1 .. (Len(d) + 1 - 1) : d[j] = Await
        <4>1. SkippedAfter(registered, 0)
          BY <2>4, <2>6, <3>2 DEF SkippedAfter
        <4>2. asynchronous
          BY <2>4, <3>2 DEF Skipped
        <4>3. HasAwait(d)
          BY <2>3, <4>1, <4>2 DEF AwaitsOwed
        <4> QED
          BY <2>4, <4>3 DEF HasAwait
      <3> QED
        BY <2>2, <3>1, <3>2 DEF AwaitedInTurn, awaited_before
    <2> QED
      BY <2>7, <2>9, <2>10
  <1> QED
    BY <1>1, DisposalInitInv, DisposalNextKeeps, PTL DEF DisposalSpec
=============================================================================
