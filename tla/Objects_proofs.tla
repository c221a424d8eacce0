---------------------------- MODULE Objects_proofs ----------------------------
EXTENDS AtomTable, ArrayStorage, PrototypeCaches,
        SequenceTheorems, WellFoundedInduction, TLAPS

-----------------------------------------------------------------------------
(* Property keys stay apart, for any number of texts, symbols, records and *)
(* leases, whatever is swept and recycled in between.                      *)

\* Where a record is found: the text, or the address of the symbol.
place(r) == records[r].key[1]

AtomTypes ==
  /\ records \in Seq([key : (Texts \cup Addresses) \X Nat, id : Nat])
  /\ leases \in Seq(Nat) /\ Len(leases) = Len(records)
  /\ DOMAIN table \subseteq Texts \cup Addresses
  /\ \A w \in DOMAIN table : table[w] \in Record /\ place(table[w]) = w
  /\ next_id \in Nat /\ free_ids \in Seq(Nat)
  /\ object \in [Addresses -> Nat] /\ holds_symbol \in [Addresses -> BOOLEAN]

\* Ids that are handed out or free lie below next_id, and are in one place.
IdsApart ==
  /\ \A r \in Live : records[r].id < next_id /\ ~ Contains(free_ids, records[r].id)
  /\ \A r, s \in Live : r # s => records[r].id # records[s].id
  /\ \A i \in 1 .. Len(free_ids) : free_ids[i] < next_id
  /\ IsInjective(free_ids)

\* A live record is the one the table has at its place, under its present key.
LiveFound ==
  \A r \in Live :
    /\ place(r) \in DOMAIN table /\ table[place(r)] = r
    /\ records[r].key = IF place(r) \in Texts THEN text_key(place(r)) ELSE symbol_key(place(r))

AtomInv == AtomTypes /\ IdsApart /\ LiveFound

-----------------------------------------------------------------------------
LEMMA AtomInitial == AtomInit => AtomInv
  BY AtomAssumption DEF AtomInit, AtomInv, AtomTypes, IdsApart, LiveFound, Record, Live,
     IsInjective, Contains

LEMMA RecordFields ==
  ASSUME AtomTypes
  PROVE  /\ Len(records) \in Nat /\ Record = 1 .. Len(records)
         /\ \A r \in Record : records[r].id \in Nat /\ place(r) \in Texts \cup Addresses
  <1>1. Len(records) \in Nat /\ Record = 1 .. Len(records)
    BY DEF AtomTypes, Record
  <1>2. \A r \in Record : records[r] \in [key : (Texts \cup Addresses) \X Nat, id : Nat]
    BY <1>1, ElementOfSeq DEF AtomTypes
  <1> QED
    BY <1>1, <1>2 DEF place

LEMMA InvIdentifies == AtomInv => LeasesIdentifyKeys
  <1> SUFFICES ASSUME AtomInv PROVE LeasesIdentifyKeys
    OBVIOUS
  <1>1. \A r, s \in Live : r # s => /\ records[r].key # records[s].key
                                     /\ records[r].id # records[s].id
    BY DEF AtomInv, LiveFound, IdsApart, place
  <1>2. \A a \in Addresses, r \in Live : r \in upgrade(a) => records[r].key = symbol_key(a)
    BY AtomAssumption DEF AtomInv, AtomTypes, LiveFound, upgrade
  <1> QED
    BY <1>1, <1>2 DEF AtomInv, LiveFound, IdsApart, place, LeasesIdentifyKeys

-----------------------------------------------------------------------------
\* take_id hands out an id that no live record and no other free place has.
LEMMA TakeId ==
  ASSUME AtomInv, NEW id \in 1 .. IdLimit, take_id(id)
  PROVE  /\ next_id' \in Nat /\ free_ids' \in Seq(Nat) /\ next_id <= next_id'
         /\ id < next_id' /\ ~ Contains(free_ids', id)
         /\ \A r \in Live : records[r].id # id /\ ~ Contains(free_ids', records[r].id)
         /\ \A i \in 1 .. Len(free_ids') : free_ids'[i] < next_id'
         /\ IsInjective(free_ids')
  <1> USE DEF AtomInv, AtomTypes
  <1>1. CASE free_ids # <<>>
    <2>1. Len(free_ids) \in Nat \ {0}
      BY <1>1, EmptySeq
    <2>2. /\ free_ids' \in Seq(Nat) /\ Len(free_ids') = Len(free_ids) - 1
          /\ \A i \in 1 .. Len(free_ids) - 1 : free_ids'[i] = free_ids[i]
      <3>1. free_ids' = SubSeq(free_ids, 1, Len(free_ids) - 1)
        BY <1>1 DEF take_id, Front
      <3>2. \A i \in 1 .. Len(free_ids) - 1 : free_ids[i] \in Nat
        BY <2>1
      <3> DEFINE n == Len(free_ids) - 1
      <3>3. n \in Nat /\ n \in Int /\ 1 \in Int
        BY <2>1
      <3>4. \A i \in 1 .. n : free_ids[i] \in Nat
        BY <3>2
      <3> HIDE DEF n
      <3>5. /\ SubSeq(free_ids, 1, n) \in Seq(Nat)
            /\ Len(SubSeq(free_ids, 1, n)) = IF 1 <= n THEN n - 1 + 1 ELSE 0
            /\ \A i \in 1 .. n - 1 + 1 : SubSeq(free_ids, 1, n)[i] = free_ids[1 + i - 1]
        BY <3>3, <3>4, SubSeqProperties
      <3>6. /\ SubSeq(free_ids, 1, n) \in Seq(Nat)
            /\ Len(SubSeq(free_ids, 1, n)) = n
            /\ \A i \in 1 .. n : SubSeq(free_ids, 1, n)[i] = free_ids[i]
        BY <3>3, <3>5
      <3> QED
        BY <3>1, <3>6 DEF n
    <2>3. id = free_ids[Len(free_ids)] /\ next_id' = next_id
      BY <1>1 DEF take_id, Last
    <2>4. Contains(free_ids, id)
      BY <2>1, <2>3 DEF Contains
    <2>5. IsInjective(free_ids') /\ ~ Contains(free_ids', id)
      <3>1. \A i, j \in 1 .. Len(free_ids) : free_ids[i] = free_ids[j] => i = j
        <4>1. DOMAIN free_ids = 1 .. Len(free_ids)
          BY <2>1
        <4> QED
          BY <4>1 DEF IdsApart, IsInjective
      <3>2. \A i, j \in 1 .. Len(free_ids') : free_ids'[i] = free_ids'[j] => i = j
        <4>1. 1 .. Len(free_ids') \subseteq 1 .. Len(free_ids)
          BY <2>1, <2>2
        <4>2. \A i \in 1 .. Len(free_ids') : free_ids'[i] = free_ids[i]
          BY <2>2
        <4> QED
          BY <3>1, <4>1, <4>2
      <3>3. \A i \in 1 .. Len(free_ids') : free_ids'[i] # id
        <4>1. Len(free_ids) \in 1 .. Len(free_ids)
          BY <2>1
        <4>2. \A i \in 1 .. Len(free_ids') :
                i \in 1 .. Len(free_ids) /\ i # Len(free_ids) /\ free_ids'[i] = free_ids[i]
          <5>1. Len(free_ids') = Len(free_ids) - 1
            BY <2>2
          <5>2. 1 .. Len(free_ids') = 1 .. Len(free_ids) - 1
            BY <5>1
          <5>3. \A i \in 1 .. Len(free_ids) - 1 : i \in 1 .. Len(free_ids) /\ i # Len(free_ids)
            BY <2>1
          <5> QED
            BY <2>2, <5>2, <5>3
        <4> QED
          BY <2>3, <3>1, <4>1, <4>2
      <3>4. DOMAIN free_ids' = 1 .. Len(free_ids')
        BY <2>2
      <3> QED
        BY <3>2, <3>3, <3>4 DEF IsInjective, Contains
    <2>6. \A r \in Live : records[r].id # id /\ ~ Contains(free_ids', records[r].id)
      <3>1. \A x : Contains(free_ids', x) => Contains(free_ids, x)
        BY <2>1, <2>2 DEF Contains
      <3>2. \A r \in Live : ~ Contains(free_ids, records[r].id)
        BY DEF IdsApart
      <3> QED
        BY <2>4, <3>1, <3>2
    <2> QED
      BY <2>1, <2>2, <2>3, <2>5, <2>6 DEF IdsApart
  <1>2. CASE free_ids = <<>>
    <2>1. id = next_id /\ next_id' = next_id + 1 /\ free_ids' = free_ids
      BY <1>2 DEF take_id
    <2> QED
      BY <1>2, <2>1 DEF IdsApart, Contains, IsInjective, Live, Record
  <1> QED
    BY <1>1, <1>2

\* A new record, in the place of a dead one or of none.
LEMMA CreateKeeps ==
  ASSUME AtomInv, NEW where \in Texts \cup Addresses, NEW key,
         key = IF where \in Texts THEN text_key(where) ELSE symbol_key(where),
         NEW entries, entries \in {table, without(table, where)},
         create(where, key, entries)
  PROVE  AtomInv'
  <1> USE DEF AtomInv
  <1>0. Len(records) + 1 \in Nat
    BY DEF AtomTypes
  <1> PICK n \in Nat : n = Len(records) + 1
    BY <1>0
  <1> PICK id \in 1 .. IdLimit : take_id(id) /\ records' = Append(records, [key |-> key, id |-> id])
    BY DEF create
  <1>1. key \in (Texts \cup Addresses) \X Nat /\ key[1] = where
    BY AtomAssumption DEF AtomTypes, text_key, symbol_key
  <1>2. /\ records' \in Seq([key : (Texts \cup Addresses) \X Nat, id : Nat])
        /\ Len(records') = n /\ n \in Nat
        /\ records'[n] = [key |-> key, id |-> id]
        /\ \A r \in 1 .. Len(records) : records'[r] = records[r]
    BY <1>1, AtomAssumption, AppendProperties DEF AtomTypes
  <1>3. /\ leases' \in Seq(Nat) /\ Len(leases') = n /\ leases'[n] = 1
        /\ \A r \in 1 .. Len(records) : leases'[r] = leases[r]
    BY AppendProperties DEF AtomTypes, create
  <1>4. Record = 1 .. Len(records) /\ Record' = 1 .. n /\ Live' = Live \cup {n} /\ n \notin Live
    <2>1. Record = 1 .. Len(records) /\ Record' = 1 .. n
      BY <1>2 DEF AtomTypes, Record
    <2>2. 1 .. n = (1 .. Len(records)) \cup {n} /\ n \notin 1 .. Len(records)
      BY <1>2 DEF AtomTypes
    <2>3. \A r \in 1 .. Len(records) : leases'[r] = leases[r]
      BY <1>3
    <2> QED
      BY <1>3, <2>1, <2>2, <2>3 DEF Live
  <1>5. \A r \in Live : place(r) # where
    BY DEF create, upgrade, LiveFound
  <1>6. /\ DOMAIN table' \subseteq DOMAIN table \cup {where} /\ where \in DOMAIN table'
        /\ table'[where] = n
        /\ \A w \in DOMAIN table' \ {where} : table'[w] = table[w]
    BY DEF create, swept, without
  <1>7. \A r \in Live : place(r) \in DOMAIN table' /\ table'[place(r)] = r
    BY <1>5 DEF create, swept, without, LiveFound
  <1>8. AtomTypes'
    <2>1. \A w \in DOMAIN table' : table'[w] \in Record' /\ records'[table'[w]].key[1] = w
      <3>1. \A r \in Record : records'[r] = records[r]
        BY <1>2, <1>4
      <3>2. \A w \in DOMAIN table : table[w] \in Record /\ place(table[w]) = w
        BY DEF AtomTypes
      <3>3. n \in Record' /\ Record \subseteq Record' /\ records'[n].key[1] = where
        BY <1>0, <1>1, <1>2, <1>4
      <3> QED
        <4> TAKE w \in DOMAIN table'
        <4>1. CASE w = where
          BY <1>6, <3>3, <4>1
        <4>2. CASE w # where
          <5>1. w \in DOMAIN table /\ table'[w] = table[w]
            BY <1>6, <4>2
          <5>2. table[w] \in Record /\ records[table[w]].key[1] = w
            BY <3>2, <5>1 DEF place
          <5> QED
            BY <3>1, <3>3, <5>1, <5>2
        <4> QED
          BY <4>1, <4>2
    <2>2. next_id' \in Nat /\ free_ids' \in Seq(Nat)
      BY TakeId
    <2>3. DOMAIN table' \subseteq Texts \cup Addresses
      BY <1>6 DEF AtomTypes
    <2>4. object' \in [Addresses -> Nat] /\ holds_symbol' \in [Addresses -> BOOLEAN]
      BY DEF AtomTypes, create
    <2>5. Len(leases') = Len(records')
      BY <1>2, <1>3
    <2> QED
      BY <1>2, <1>3, <2>1, <2>2, <2>3, <2>4, <2>5 DEF AtomTypes, place
  <1>9. IdsApart'
    <2>1. \A r \in Live : records'[r] = records[r]
      BY <1>2, <1>4 DEF Live
    <2>2. records'[n].id = id
      BY <1>2
    <2>3. /\ next_id <= next_id' /\ next_id \in Nat /\ next_id' \in Nat /\ id < next_id'
          /\ ~ Contains(free_ids', id)
          /\ \A r \in Live : records[r].id # id /\ ~ Contains(free_ids', records[r].id)
          /\ \A i \in 1 .. Len(free_ids') : free_ids'[i] < next_id'
          /\ IsInjective(free_ids')
      BY TakeId DEF AtomTypes
    <2>4. \A r \in Live : records[r].id \in Nat /\ records[r].id < next_id'
      <3>1. \A r \in Live : records[r].id \in Nat /\ records[r].id < next_id
        BY RecordFields DEF IdsApart, Live
      <3> QED
        BY <2>3, <3>1
    <2>5. \A r \in Live' : records'[r].id < next_id' /\ ~ Contains(free_ids', records'[r].id)
      BY <1>4, <2>1, <2>2, <2>3, <2>4
    <2>6. \A r, s \in Live' : r # s => records'[r].id # records'[s].id
      <3>1. \A r, s \in Live : r # s => records[r].id # records[s].id
        BY DEF IdsApart
      <3> QED
        <4> TAKE r, s \in Live'
        <4> HAVE r # s
        <4>1. CASE r \in Live /\ s \in Live
          BY <2>1, <3>1, <4>1
        <4>2. CASE r \in Live /\ s = n
          BY <2>1, <2>2, <2>3, <4>2
        <4>3. CASE r = n /\ s \in Live
          BY <2>1, <2>2, <2>3, <4>3
        <4> QED
          BY <1>4, <4>1, <4>2, <4>3
    <2> QED
      BY <2>3, <2>5, <2>6 DEF IdsApart
  <1>10. LiveFound'
    <2>1. \A r \in Live : place(r)' = place(r) /\ records'[r].key = records[r].key
      BY <1>2, <1>4 DEF Live, place
    <2>2. place(n)' = where /\ records'[n].key = key
      BY <1>1, <1>2 DEF place
    <2>3. object' = object
      BY DEF create
    <2> QED
      <3>1. ASSUME NEW r \in Live
            PROVE  /\ place(r)' \in DOMAIN table' /\ table'[place(r)'] = r
                   /\ records'[r].key = IF place(r)' \in Texts THEN <<place(r)', 0>>
                                         ELSE <<place(r)', object'[place(r)']>>
        <4>1. records[r].key = IF place(r) \in Texts THEN <<place(r), 0>>
                               ELSE <<place(r), object[place(r)]>>
          BY DEF LiveFound, text_key, symbol_key
        <4> QED
          BY <1>7, <2>1, <2>3, <4>1
      <3>2. /\ place(n)' \in DOMAIN table' /\ table'[place(n)'] = n
            /\ records'[n].key = IF place(n)' \in Texts THEN <<place(n)', 0>>
                                  ELSE <<place(n)', object'[place(n)']>>
        BY <1>6, <2>2, <2>3 DEF text_key, symbol_key
      <3> QED
        BY <1>4, <3>1, <3>2 DEF LiveFound, text_key, symbol_key
  <1> QED
    BY <1>8, <1>9, <1>10

\* One more lease of a record changes nothing the invariant speaks of.
LEMMA LeaseKeeps ==
  ASSUME AtomInv, NEW r \in Live, another_lease(r),
         UNCHANGED <<records, table, next_id, free_ids, sweep_at, object, holds_symbol>>
  PROVE  AtomInv'
  <1> USE DEF AtomInv
  <1>1. r \in 1 .. Len(leases) /\ leases[r] + 1 \in Nat
    BY DEF Live, Record, AtomTypes
  <1>2. leases' \in Seq(Nat) /\ Len(leases') = Len(leases) /\ Live' = Live
    BY <1>1, ExceptSeq DEF another_lease, Live, Record, AtomTypes
  <1> QED
    BY <1>2 DEF AtomTypes, IdsApart, LiveFound, place, text_key, symbol_key, Record

\* A dropped lease: the last one gives the id back.
LEMMA DropKeeps == ASSUME AtomInv, NEW r \in Record, drop(r) PROVE AtomInv'
  <1> USE DEF AtomInv
  <1>0. r \in 1 .. Len(leases) /\ leases[r] \in Nat \ {0} /\ leases[r] - 1 \in Nat /\ r \in Live
    BY DEF drop, Record, Live, AtomTypes
  <1>1. /\ leases' \in Seq(Nat) /\ Len(leases') = Len(leases)
        /\ \A q \in Record : leases'[q] = IF q = r THEN leases[r] - 1 ELSE leases[q]
    BY <1>0, ExceptSeq DEF drop, Record, AtomTypes
  <1>2. Live' = IF leases[r] = 1 THEN Live \ {r} ELSE Live
    BY <1>0, <1>1 DEF drop, Live, Record, AtomTypes
  <1>3. records[r].id \in Nat
    BY RecordFields
  <1>4. free_ids' \in Seq(Nat)
    BY <1>3, AppendProperties DEF drop, AtomTypes
  <1>5. AtomTypes'
    BY <1>1, <1>4 DEF drop, AtomTypes, Record, place
  <1>6. IdsApart'
    <2>1. CASE leases[r] = 1
      <3>1. /\ Len(free_ids') = Len(free_ids) + 1
            /\ free_ids'[Len(free_ids) + 1] = records[r].id
            /\ \A i \in 1 .. Len(free_ids) : free_ids'[i] = free_ids[i]
        BY <1>3, <2>1, AppendProperties DEF drop, AtomTypes
      <3>2. Len(free_ids) \in Nat /\ DOMAIN free_ids = 1 .. Len(free_ids)
        BY DEF AtomTypes
      <3>3. \A i \in 1 .. Len(free_ids') : i \in 1 .. Len(free_ids) \/ i = Len(free_ids) + 1
        BY <3>1, <3>2
      <3>4. \A i \in 1 .. Len(free_ids) : free_ids[i] # records[r].id /\ free_ids[i] < next_id
        BY <1>0 DEF IdsApart, Contains
      <3>5. \A i, j \in 1 .. Len(free_ids) : free_ids[i] = free_ids[j] => i = j
        BY <3>2 DEF IdsApart, IsInjective
      <3>6. \A i, j \in 1 .. Len(free_ids') : free_ids'[i] = free_ids'[j] => i = j
        BY <3>1, <3>3, <3>4, <3>5
      <3>7. DOMAIN free_ids' = 1 .. Len(free_ids')
        BY <1>4
      <3>8. \A q \in Live \ {r} : ~ Contains(free_ids', records[q].id)
        <4>1. \A q \in Live \ {r} : records[q].id # records[r].id
          BY <1>0 DEF IdsApart
        <4>2. \A q \in Live : \A i \in 1 .. Len(free_ids) : free_ids[i] # records[q].id
          BY DEF IdsApart, Contains
        <4> QED
          BY <3>1, <3>3, <4>1, <4>2 DEF Contains
      <3>9. \A i \in 1 .. Len(free_ids') : free_ids'[i] < next_id'
        BY <1>0, <3>1, <3>3, <3>4 DEF IdsApart, drop
      <3> QED
        BY <1>2, <2>1, <3>6, <3>7, <3>8, <3>9 DEF IdsApart, IsInjective, drop
    <2>2. CASE leases[r] # 1
      BY <1>2, <2>2 DEF IdsApart, drop
    <2> QED
      BY <2>1, <2>2
  <1>7. LiveFound'
    BY <1>2 DEF LiveFound, drop, place, text_key, symbol_key
  <1> QED
    BY <1>5, <1>6, <1>7

\* Another object comes to lie at an address no live record holds.
LEMMA NewSymbolKeeps == ASSUME AtomInv, NEW a \in Addresses, new_symbol(a) PROVE AtomInv'
  <1> USE DEF AtomInv, new_symbol
  <1>1. \A r \in Live : place(r) # a
    BY AtomAssumption DEF pinned, LiveFound
  <1>2. AtomTypes'
    BY DEF AtomTypes, Record, place
  <1>3. IdsApart'
    BY DEF IdsApart, Live, Record
  <1>4. LiveFound'
    BY <1>1, AtomAssumption DEF AtomTypes, LiveFound, Live, Record, place, text_key, symbol_key
  <1> QED
    BY <1>2, <1>3, <1>4

LEMMA AtomNextKeeps == AtomInv /\ [AtomNext]_atomVars => AtomInv'
  <1> SUFFICES ASSUME AtomInv, [AtomNext]_atomVars PROVE AtomInv'
    OBVIOUS
  <1>1. ASSUME NEW t \in Texts, try_intern(t) PROVE AtomInv'
    <2>1. CASE find(t)
      BY <2>1, LeaseKeeps DEF find, upgrade
    <2>2. CASE create(t, text_key(t), without(table, t))
      BY <2>2, CreateKeeps
    <2> QED
      BY <1>1, <2>1, <2>2 DEF try_intern
  <1>2. ASSUME NEW a \in Addresses, try_intern_symbol(a) PROVE AtomInv'
    <2>1. CASE find(a)
      BY <2>1, LeaseKeeps DEF find, upgrade
    <2>2. CASE create(a, symbol_key(a), table)
      <3>1. a \notin Texts
        BY AtomAssumption
      <3> QED
        BY <2>2, <3>1, CreateKeeps
    <2> QED
      BY <1>2, <2>1, <2>2 DEF try_intern_symbol
  <1>3. ASSUME NEW a \in Addresses, release_symbol(a) PROVE AtomInv'
    BY <1>3 DEF release_symbol, AtomInv, AtomTypes, IdsApart, LiveFound, Live, Record, place,
       text_key, symbol_key
  <1>4. ASSUME NEW r \in Record, clone(r) PROVE AtomInv'
    BY <1>4, LeaseKeeps DEF clone, Live
  <1>5. CASE UNCHANGED atomVars
    BY <1>5 DEF atomVars, AtomInv, AtomTypes, IdsApart, LiveFound, Live, Record, place,
       text_key, symbol_key
  <1> QED
    BY <1>1, <1>2, <1>3, <1>4, <1>5, NewSymbolKeeps, DropKeeps DEF AtomNext

\* A key in use is one record, found by its text or its own symbol, with an id
\* of its own: comparing ids compares keys (KeyRecord's equality), for any
\* number of records, sweeps and recycled ids and addresses.
THEOREM KeysIdentified == AtomSpec => []LeasesIdentifyKeys
  BY AtomInitial, AtomNextKeeps, InvIdentifies, PTL DEF AtomSpec


-----------------------------------------------------------------------------
(***************************************************************************)
(* A frozen array never changes, for every bound, limit and set of values. *)
(***************************************************************************)

Recorded(p) ==
  p = [value |-> p.value, writable |-> p.writable, configurable |-> p.configurable]

Fixed(p) == p = [value |-> p.value, writable |-> FALSE, configurable |-> FALSE]

\* The table holds properties, and those of a frozen array are fixed; the flags of a
\* frozen array say that it is closed and sealed, and its length is not writable.
NamedOK ==
  /\ named = [i \in Positions |-> named[i]]
  /\ \A i \in Positions : named[i] = NoProperty \/ Recorded(named[i])

FrozenOK ==
  frozen => /\ ~ extensible /\ sealed /\ ~ length_writable
            /\ \A i \in Positions : named[i] = NoProperty \/ Fixed(named[i])

FrozenInv == NamedOK /\ FrozenOK

Unchanged ==
  /\ array_length' = array_length
  /\ \A i \in Positions :
       array_own_property_descriptor(i)' = array_own_property_descriptor(i)

-----------------------------------------------------------------------------
(* What definitions make of properties.                                    *)

\* A definition yields a property.
LEMMA DefinitionsRecorded ==
  ASSUME NEW p, NEW q \in Promised!Definitions(p)
  PROVE  Recorded(q)
<1>1. PICK d : q = Promised!Completed(p, d)
  BY DEF Promised!Definitions
<1>2. \E x, y, z : q = [value |-> x, writable |-> y, configurable |-> z]
  BY <1>1, Zenon DEF Promised!Completed
<1>3. PICK x, y, z : q = [value |-> x, writable |-> y, configurable |-> z]
  BY <1>2
<1> QED BY <1>3 DEF Recorded

LEMMA FixedForm == \A x : Fixed([value |-> x, writable |-> FALSE, configurable |-> FALSE])
BY DEF Fixed

LEMMA FixedFields ==
  ASSUME NEW p, Fixed(p)
  PROVE  p.writable = FALSE /\ p.configurable = FALSE
BY DEF Fixed

LEMMA PlainRecorded == \A v : Recorded(Promised!Plain(v))
BY DEF Promised!Plain, Recorded

\* No definition changes a fixed property.
LEMMA FixedStays ==
  ASSUME NEW p, p # NoProperty, Fixed(p), NEW q \in Promised!Definitions(p)
  PROVE  q = p
<1>1. PICK d \in Promised!Descriptors : Promised!Compatible(p, d) /\ q = Promised!Completed(p, d)
  BY DEF Promised!Definitions
<1>2. p.configurable = FALSE /\ p.writable = FALSE
  BY DEF Fixed
<1>3. d.configurable # TRUE /\ d.writable # TRUE /\ d.value \in {Missing, p.value}
  BY <1>1, <1>2 DEF Promised!Compatible
<1>4. d.configurable \in BOOLEAN \cup {Missing} /\ d.writable \in BOOLEAN \cup {Missing}
  BY DEF Promised!Descriptors
<1>5. Promised!Given(d.configurable, p.configurable) = FALSE
  BY <1>2, <1>3, <1>4, Zenon DEF Promised!Given
<1>6. Promised!Given(d.writable, p.writable) = FALSE
  BY <1>2, <1>3, <1>4, Zenon DEF Promised!Given
<1>7. Promised!Given(d.value, p.value) = p.value
  BY <1>3, Zenon DEF Promised!Given
<1>8. q = [value |-> Promised!Given(d.value, p.value),
           writable |-> Promised!Given(d.writable, p.writable),
           configurable |-> Promised!Given(d.configurable, p.configurable)]
  BY <1>1, Zenon DEF Promised!Completed
<1>9. q = [value |-> p.value, writable |-> FALSE, configurable |-> FALSE]
  BY <1>5, <1>6, <1>7, <1>8, Zenon
<1> QED BY <1>9, Zenon DEF Fixed

\* What an index of a frozen array has is fixed.
LEMMA FrozenIsFixed ==
  ASSUME FrozenOK, frozen, NEW i \in Positions,
         array_own_property_descriptor(i) # NoProperty
  PROVE  Fixed(array_own_property_descriptor(i))
<1>1. sealed /\ (named[i] = NoProperty \/ Fixed(named[i]))
  BY DEF FrozenOK
<1>2. CASE has_index(i)
  <2>1. array_own_property_descriptor(i)
          = [value |-> elements[i + 1], writable |-> ~ frozen, configurable |-> ~ sealed]
    BY <1>2 DEF array_own_property_descriptor
  <2>2. (~ frozen) = FALSE /\ (~ sealed) = FALSE
    BY <1>1
  <2>3. array_own_property_descriptor(i)
          = [value |-> elements[i + 1], writable |-> FALSE, configurable |-> FALSE]
    BY <2>1, <2>2, Zenon
  <2> QED BY <2>3, FixedForm, Zenon
<1>3. CASE ~ has_index(i)
  BY <1>1, <1>3 DEF array_own_property_descriptor
<1> QED BY <1>2, <1>3

-----------------------------------------------------------------------------
(* What an assignment or definition leaves.                                *)

LEMMA Replaced ==
  ASSUME NamedOK, NEW i \in Positions, NEW p, Recorded(p), named' = [named EXCEPT ![i] = p]
  PROVE  NamedOK'
BY DEF NamedOK, Recorded, Positions

\* An assignment to an array that is not frozen.
LEMMA SetKeeps ==
  ASSUME FrozenInv, ~ frozen, NEW i \in Positions, NEW v, set(i, v)
  PROVE  FrozenInv'
<1>1. ~ frozen'
  BY DEF set, arrayVars, flags
<1>2. named' = named \/ named' = [named EXCEPT ![i] = Promised!Plain(v)]
  BY DEF set, arrayVars
<1>3. NamedOK'
  BY <1>2, PlainRecorded, Replaced DEF FrozenInv, NamedOK, Positions, Recorded
<1> QED BY <1>1, <1>3 DEF FrozenInv, FrozenOK

\* A definition on an array that is not frozen.
LEMMA DefineKeeps ==
  ASSUME FrozenInv, ~ frozen, NEW i \in Positions, NEW p, Recorded(p), define_property(i, p)
  PROVE  FrozenInv'
<1>1. ~ frozen'
  BY DEF define_property, arrayVars, flags
<1>2. named' = named \/ named' = [named EXCEPT ![i] = p]
  BY DEF define_property, arrayVars
<1>3. NamedOK'
  BY <1>2, Replaced DEF FrozenInv, NamedOK, Positions, Recorded
<1> QED BY <1>1, <1>3 DEF FrozenInv, FrozenOK

\* A step that touches neither the table nor the flags.
LEMMA OpenSame ==
  ASSUME FrozenInv, UNCHANGED <<named, flags>>
  PROVE  FrozenInv'
BY DEF FrozenInv, NamedOK, FrozenOK, flags, Positions, Recorded, Fixed

\* Sealing keeps the table one of properties, and freezing fixes them.
LEMMA TransformedOK ==
  ASSUME NamedOK, NEW freezing \in BOOLEAN, named' = Transformed(freezing)
  PROVE  /\ NamedOK'
         /\ freezing => \A i \in Positions : named'[i] = NoProperty \/ Fixed(named'[i])
<1>1. ASSUME NEW i \in Positions
      PROVE  /\ named'[i] = NoProperty \/ Recorded(named'[i])
             /\ freezing => named'[i] = NoProperty \/ Fixed(named'[i])
  <2>1. CASE named[i] = NoProperty
    BY <2>1 DEF Transformed
  <2>2. CASE named[i] # NoProperty
    <3>3. named'[i] = [value |-> named[i].value, writable |-> (named[i].writable /\ ~ freezing),
                       configurable |-> FALSE]
      BY <2>2, Zenon DEF Transformed
    <3>4. Recorded(named'[i])
      BY <3>3 DEF Recorded
    <3>5. ASSUME freezing PROVE Fixed(named'[i])
      <4>1. (named[i].writable /\ ~ freezing) = FALSE
        BY <3>5
      <4> QED BY <3>3, <4>1, FixedForm, Zenon
    <3> QED BY <3>4, <3>5
  <2> QED BY <2>1, <2>2
<1>2. named' = [i \in Positions |-> named'[i]]
  BY DEF Transformed, Positions
<1> QED BY <1>1, <1>2 DEF NamedOK, Positions, Recorded

\* A step that leaves the storage alone.
LEMMA IdleKeeps ==
  ASSUME FrozenInv, UNCHANGED arrayVars
  PROVE  FrozenInv' /\ Unchanged
BY DEF FrozenInv, NamedOK, FrozenOK, Unchanged, arrayVars, Positions, Recorded, Fixed,
       array_own_property_descriptor, has_index

-----------------------------------------------------------------------------
(* A frozen array.                                                         *)

LEMMA FrozenRefusesStores ==
  ASSUME FrozenInv, frozen, NEW i \in Positions, NEW v
  PROVE  ~ Overwrite(i, v) /\ ~ StoreDense(i, v) /\ ~ StoreGeneric(i, v) /\ ~ CreateDataProperty(i, v)
<1> DEFINE p == array_own_property_descriptor(i)
<1>1. ~ Overwrite(i, v) /\ ~ StoreDense(i, v)
  BY DEF Overwrite, StoreDense, try_overwrite_dense_index, dense_index_store_eligible
<1>2. ~ extensible
  BY DEF FrozenInv, FrozenOK
<1>3. p # NoProperty => p.writable = FALSE /\ p.configurable = FALSE
  BY FrozenIsFixed, FixedFields, Zenon DEF FrozenInv
<1>4. ~ StoreGeneric(i, v)
  BY <1>2, <1>3, Zenon DEF StoreGeneric
<1>5. Promised!Plain(v).configurable = TRUE
  BY DEF Promised!Plain
<1>6. ~ CreateDataProperty(i, v)
  BY <1>2, <1>3, <1>5, Zenon DEF CreateDataProperty, Promised!Compatible
<1> QED BY <1>1, <1>4, <1>6

\* A definition that a frozen array does not refuse moves the property into the table.
LEMMA FrozenDefine ==
  ASSUME FrozenInv, frozen, NEW i \in Positions, DefineProperty(i)
  PROVE  FrozenInv' /\ Unchanged
<1> DEFINE p == array_own_property_descriptor(i)
<1>1. ~ extensible
  BY DEF FrozenInv, FrozenOK
<1>2. ~ length_writable
  BY DEF FrozenInv, FrozenOK
<1>3. p # NoProperty /\ i < array_length
  BY <1>1, <1>2, Zenon DEF DefineProperty
<1>4. Fixed(p)
  BY <1>3, FrozenIsFixed DEF FrozenInv
<1>5. PICK q \in Promised!Definitions(p) : define_property(i, q)
  BY Zenon DEF DefineProperty
<1>6. q = p
  BY <1>3, <1>4, <1>5, FixedStays, Zenon
<1>7. define_property(i, p)
  BY <1>5, <1>6, Zenon
<1>8. CASE i >= array_length /\ ~ length_writable
  <2>1. UNCHANGED arrayVars
    BY <1>7, <1>8, Zenon DEF define_property
  <2> QED BY <2>1, IdleKeeps
<1>9. CASE ~ (i >= array_length /\ ~ length_writable)
  <2>1. array_length' = array_length /\ UNCHANGED flags
    BY <1>3, <1>7, <1>9, Zenon DEF define_property
  <2>2. CASE i < Len(elements)
    <3>1. named' = [named EXCEPT ![i] = p] /\ holes' = holes \cup {i} /\ elements' = elements
      BY <1>7, <1>9, <2>2, Zenon DEF define_property
    <3>2. Recorded(p)
      BY <1>4 DEF Fixed, Recorded
    <3>3. NamedOK'
      BY <3>1, <3>2, Replaced, Zenon DEF FrozenInv
    <3>4. \A k \in Positions : named'[k] = IF k = i THEN p ELSE named[k]
      BY <3>1, Zenon DEF FrozenInv, NamedOK
    <3>5. FrozenOK'
      BY <1>4, <2>1, <3>4, Zenon DEF FrozenInv, FrozenOK, flags
    <3>6. ASSUME NEW k \in Positions
          PROVE  array_own_property_descriptor(k)' = array_own_property_descriptor(k)
      <4>1. k # i => (has_index(k)' <=> has_index(k))
        BY <3>1 DEF has_index
      <4>2. ~ has_index(i)'
        BY <3>1 DEF has_index
      <4>3. CASE k = i
        BY <3>4, <4>2, <4>3 DEF array_own_property_descriptor
      <4>4. CASE k # i
        BY <2>1, <3>1, <3>4, <4>1, <4>4, Zenon DEF array_own_property_descriptor, flags
      <4> QED BY <4>3, <4>4
    <3> QED BY <2>1, <3>3, <3>5, <3>6 DEF FrozenInv, Unchanged
  <2>3. CASE ~ (i < Len(elements))
    <3>1. UNCHANGED <<elements, holes, named>>
      BY <1>1, <1>7, <1>9, <2>3, Zenon DEF define_property
    <3>2. UNCHANGED arrayVars
      BY <2>1, <3>1 DEF arrayVars, flags
    <3> QED BY <3>2, IdleKeeps
  <2> QED BY <2>2, <2>3
<1> QED BY <1>8, <1>9

-----------------------------------------------------------------------------
(* Every step.                                                             *)

\* An array that is sealed but not frozen may still have its elements changed.
LEMMA OpenKeeps ==
  ASSUME FrozenInv, ~ frozen, ArrayNext
  PROVE  FrozenInv'
<1>1. ASSUME NEW i \in Positions, NEW v \in ArrayValues, Overwrite(i, v)
      PROVE  FrozenInv'
  <2>1. UNCHANGED <<named, flags>>
    BY <1>1 DEF Overwrite
  <2> QED BY <2>1, OpenSame
<1>2. ASSUME NEW i \in Positions, NEW v \in ArrayValues, StoreDense(i, v) \/ StoreGeneric(i, v)
      PROVE  FrozenInv'
  BY <1>2, SetKeeps DEF StoreDense, StoreGeneric
<1>3. ASSUME NEW i \in Positions, NEW v \in ArrayValues, CreateDataProperty(i, v)
      PROVE  FrozenInv'
  BY <1>3, SetKeeps, DefineKeeps, PlainRecorded DEF CreateDataProperty
<1>4. ASSUME NEW i \in Positions, DefineProperty(i)
      PROVE  FrozenInv'
  <2>1. PICK q \in Promised!Definitions(array_own_property_descriptor(i)) : define_property(i, q)
    BY <1>4, Zenon DEF DefineProperty
  <2> QED BY <2>1, DefinitionsRecorded, DefineKeeps
<1>5. ASSUME NEW i \in Positions, delete_index(i)
      PROVE  FrozenInv'
  <2>1. named' = [named EXCEPT ![i] = NoProperty] /\ ~ frozen'
    BY <1>5 DEF delete_index, flags
  <2>2. NamedOK'
    BY <2>1 DEF FrozenInv, NamedOK, Positions, Recorded
  <2> QED BY <2>1, <2>2 DEF FrozenInv, FrozenOK
<1>6. ASSUME NEW n \in 0 .. MaxLength, NEW lock \in BOOLEAN, define_array_length_property(n, lock)
      PROVE  FrozenInv'
  <2>1. \E h, m, k : /\ \A i \in Positions : m[i] = NoProperty \/ m[i] = named[i]
                    /\ set_len(k, h, m)
    <3>1. CASE n < array_length
      <4>1. \E gone, h, k : set_len(k, h, [i \in Positions |-> IF i \in gone THEN NoProperty ELSE named[i]])
        BY <1>6, <3>1, Zenon DEF define_array_length_property
      <4> QED BY <4>1
    <3>2. CASE ~ (n < array_length)
      <4>1. set_len(n, holes, named)
        BY <1>6, <3>2, Zenon DEF define_array_length_property
      <4> QED BY <4>1
    <3> QED BY <3>1, <3>2
  <2>2. PICK h, m, k : /\ \A i \in Positions : m[i] = NoProperty \/ m[i] = named[i]
                       /\ set_len(k, h, m)
    BY <2>1
  <2>3. \E last : named' = [i \in Positions |-> IF k < array_length /\ i >= last THEN NoProperty ELSE m[i]]
    BY <2>2, Zenon DEF set_len
  <2>4. NamedOK'
    BY <2>2, <2>3 DEF FrozenInv, NamedOK, Positions, Recorded
  <2>5. ~ frozen'
    BY <1>6 DEF define_array_length_property
  <2> QED BY <2>4, <2>5 DEF FrozenInv, FrozenOK
<1>7. CASE set_length_writable \/ prevent_extensions
  <2>1. named' = named /\ ~ frozen'
    BY <1>7 DEF set_length_writable, prevent_extensions
  <2>2. NamedOK'
    BY <2>1 DEF FrozenInv, NamedOK, Positions, Recorded
  <2> QED BY <2>1, <2>2 DEF FrozenInv, FrozenOK
<1>8. CASE seal
  <2>1. named' = Transformed(FALSE) /\ ~ frozen'
    BY <1>8 DEF seal
  <2>2. NamedOK'
    BY <2>1, TransformedOK DEF FrozenInv
  <2> QED BY <2>1, <2>2 DEF FrozenInv, FrozenOK
<1>9. CASE freeze
  <2>1. named' = Transformed(TRUE)
    BY <1>9 DEF freeze
  <2>2. NamedOK' /\ \A i \in Positions : named'[i] = NoProperty \/ Fixed(named'[i])
    BY <2>1, TransformedOK DEF FrozenInv
  <2> QED BY <1>9, <2>2 DEF freeze, FrozenInv, FrozenOK
<1>10. ASSUME NEW s \in Promised!Lists,
              \/ define_plain_elements(s) \/ replace_dense_elements(s)
              \/ \E start, count \in 0 .. array_length : with_plain_dense_mutation(start, count, s)
       PROVE  FrozenInv'
  <2>1. UNCHANGED <<named, flags>>
    BY <1>10, Zenon DEF define_plain_elements, replace_dense_elements, with_plain_dense_mutation
  <2> QED BY <2>1, OpenSame
<1>11. ASSUME NEW v \in ArrayValues, hole_tail_append(v)
       PROVE  FrozenInv'
  <2>1. UNCHANGED <<named, flags>>
    BY <1>11 DEF hole_tail_append
  <2> QED BY <2>1, OpenSame
<1> QED BY <1>1, <1>2, <1>3, <1>4, <1>5, <1>6, <1>7, <1>8, <1>9, <1>10, <1>11 DEF ArrayNext

\* Only definitions, and flags that are set already, leave a frozen array other than idle.
LEMMA FrozenKeeps ==
  ASSUME FrozenInv, frozen, ArrayNext
  PROVE  FrozenInv' /\ Unchanged
<1>1. ~ extensible /\ sealed /\ ~ length_writable
  BY DEF FrozenInv, FrozenOK
<1>2. ASSUME NEW i \in Positions, DefineProperty(i)
      PROVE  FrozenInv' /\ Unchanged
  BY <1>2, FrozenDefine
<1>3. ASSUME NEW i \in Positions, delete_index(i)
      PROVE  FrozenInv' /\ Unchanged
  <2>1. named[i] = NoProperty
    <3>1. named[i] = NoProperty \/ Fixed(named[i])
      BY DEF FrozenInv, FrozenOK
    <3>2. CASE Fixed(named[i])
      <4>1. named[i].configurable = FALSE
        BY <3>2, FixedFields
      <4> QED BY <1>3, <4>1, Zenon DEF delete_index
    <3> QED BY <3>1, <3>2
  <2>2. named' = named
    BY <1>3, <2>1 DEF delete_index, FrozenInv, NamedOK
  <2>3. UNCHANGED <<array_length, elements, flags>>
    BY <1>3 DEF delete_index
  <2>4. \A k : has_index(k)' <=> has_index(k)
    <3>1. CASE i < Len(elements) /\ ~ (sealed /\ has_index(i))
      <4>1. i \in holes
        BY <1>1, <3>1 DEF has_index
      <4>2. holes' = holes \cup {i}
        BY <1>3, <3>1, Zenon DEF delete_index
      <4> QED BY <2>3, <4>1, <4>2 DEF has_index
    <3>2. CASE ~ (i < Len(elements) /\ ~ (sealed /\ has_index(i)))
      <4>1. holes' = holes
        BY <1>3, <3>2, Zenon DEF delete_index
      <4> QED BY <2>3, <4>1 DEF has_index
    <3> QED BY <3>1, <3>2
  <2>5. \A k \in Positions : array_own_property_descriptor(k)' = array_own_property_descriptor(k)
    BY <2>2, <2>3, <2>4, Zenon DEF array_own_property_descriptor, flags
  <2> QED BY <2>2, <2>3, <2>5, OpenSame DEF Unchanged
<1>4. CASE seal \/ freeze
  <2>1. PICK freezing \in BOOLEAN : named' = Transformed(freezing)
    BY <1>4 DEF seal, freeze
  <2>2. UNCHANGED <<array_length, elements, holes>>
    BY <1>4 DEF seal, freeze
  <2>3. extensible' = FALSE /\ sealed' = TRUE /\ frozen' /\ ~ length_writable'
    <3>1. CASE seal
      <4>1. extensible' = FALSE /\ sealed' = TRUE /\ frozen' = frozen
              /\ length_writable' = length_writable
        BY <3>1 DEF seal
      <4> QED BY <1>1, <4>1, Zenon
    <3>2. CASE freeze
      <4>1. extensible' = FALSE /\ sealed' = TRUE /\ frozen' = TRUE /\ length_writable' = FALSE
        BY <3>2 DEF freeze
      <4> QED BY <4>1, Zenon
    <3> QED BY <1>4, <3>1, <3>2
  <2>4. ASSUME NEW i \in Positions
        PROVE  named'[i] = named[i]
    <3>1. CASE named[i] = NoProperty
      BY <2>1, <3>1, Zenon DEF Transformed
    <3>2. CASE named[i] # NoProperty
      <4>1. Fixed(named[i])
        BY <3>2 DEF FrozenInv, FrozenOK
      <4>2. named[i].writable = FALSE
        BY <4>1, FixedFields
      <4>3. (named[i].writable /\ ~ freezing) = FALSE
        BY <4>2
      <4>4. named'[i] = [value |-> named[i].value, writable |-> named[i].writable /\ ~ freezing,
                         configurable |-> FALSE]
        BY <2>1, <3>2, Zenon DEF Transformed
      <4> QED BY <4>1, <4>3, <4>4, Zenon DEF Fixed
    <3> QED BY <3>1, <3>2
  <2>5. NamedOK'
    BY <2>1, TransformedOK DEF FrozenInv
  <2>6. \A i \in Positions : named'[i] = NoProperty \/ Fixed(named'[i])
    BY <2>4 DEF FrozenInv, FrozenOK
  <2>7. FrozenOK'
    BY <2>3, <2>6, Zenon DEF FrozenOK
  <2>8. ASSUME NEW i \in Positions
        PROVE  array_own_property_descriptor(i)' = array_own_property_descriptor(i)
    <3>1. has_index(i)' <=> has_index(i)
      BY <2>2 DEF has_index
    <3>2. (~ frozen') = (~ frozen) /\ (~ sealed') = (~ sealed)
      BY <1>1, <2>3
    <3> QED BY <2>2, <2>4, <3>1, <3>2, Zenon DEF array_own_property_descriptor
  <2> QED BY <2>2, <2>5, <2>7, <2>8 DEF FrozenInv, Unchanged
<1>5. CASE set_length_writable \/ prevent_extensions
  <2>1. UNCHANGED <<array_length, elements, holes, named, sealed, frozen>>
    BY <1>5 DEF set_length_writable, prevent_extensions
  <2>2. ~ extensible' /\ ~ length_writable'
    <3>1. CASE set_length_writable
      <4>1. extensible' = extensible /\ length_writable' = FALSE
        BY <3>1 DEF set_length_writable
      <4> QED BY <1>1, <4>1, Zenon
    <3>2. CASE prevent_extensions
      <4>1. extensible' = FALSE /\ length_writable' = length_writable
        BY <3>2 DEF prevent_extensions
      <4> QED BY <1>1, <4>1, Zenon
    <3> QED BY <1>5, <3>1, <3>2
  <2>3. NamedOK'
    BY <2>1 DEF FrozenInv, NamedOK, Positions, Recorded
  <2>4. FrozenOK'
    BY <1>1, <2>1, <2>2 DEF FrozenInv, FrozenOK, Positions, Fixed
  <2>5. \A i \in Positions : array_own_property_descriptor(i)' = array_own_property_descriptor(i)
    BY <2>1, Zenon DEF array_own_property_descriptor, has_index
  <2> QED BY <2>1, <2>3, <2>4, <2>5 DEF FrozenInv, Unchanged
<1>6. \A n, lock : ~ define_array_length_property(n, lock)
  BY <1>1 DEF define_array_length_property
<1>7. \A s : ~ define_plain_elements(s) /\ ~ replace_dense_elements(s)
  BY DEF define_plain_elements, replace_dense_elements
<1>8. \A start, count, s : ~ with_plain_dense_mutation(start, count, s)
  BY DEF with_plain_dense_mutation
<1>9. \A v : ~ hole_tail_append(v)
  BY DEF hole_tail_append
<1> QED BY <1>2, <1>3, <1>4, <1>5, <1>6, <1>7, <1>8, <1>9, FrozenRefusesStores DEF ArrayNext

LEMMA FrozenInvInit == ArrayInit => FrozenInv
BY DEF ArrayInit, NoneNamed, FrozenInv, NamedOK, FrozenOK, Positions

LEMMA FrozenInvStep == FrozenInv /\ [ArrayNext]_arrayVars => FrozenInv' /\ (frozen => Unchanged)
<1> SUFFICES ASSUME FrozenInv, [ArrayNext]_arrayVars
             PROVE  FrozenInv' /\ (frozen => Unchanged)
  OBVIOUS
<1>1. CASE UNCHANGED arrayVars
  BY <1>1, IdleKeeps
<1>2. CASE ArrayNext /\ frozen
  BY <1>2, FrozenKeeps
<1>3. CASE ArrayNext /\ ~ frozen
  BY <1>3, OpenKeeps
<1> QED BY <1>1, <1>2, <1>3

\* For every limit and set of values: once an array is frozen, no way of storing,
\* defining, deleting, resizing or sorting in value/array.rs changes a property of it or
\* its length.
THEOREM FrozenStays == ArraySpec => FrozenForever
<1>1. FrozenInv /\ [ArrayNext]_arrayVars
        => [frozen => /\ array_length' = array_length
                      /\ \A i \in Positions :
                           array_own_property_descriptor(i)' = array_own_property_descriptor(i)]_arrayVars
  BY FrozenInvStep DEF Unchanged
<1> QED BY <1>1, FrozenInvInit, FrozenInvStep, PTL DEF ArraySpec, FrozenForever

-----------------------------------------------------------------------------
(***************************************************************************)
(* Arrays implement what scripts are promised of them, for every bound,    *)
(* limit and set of values.                                                *)
(***************************************************************************)

Contained == ArrayValues \cup {UndefinedValue}

IndexProperty == [value : Contained, writable : BOOLEAN, configurable : BOOLEAN]

StorageTypes ==
  /\ array_length \in 0 .. MaxLength
  /\ elements \in Seq(Contained) /\ Len(elements) <= array_length
  /\ holes \in SUBSET (0 .. Len(elements) - 1)
  /\ named \in [Positions -> {NoProperty} \cup IndexProperty]
  /\ extensible \in BOOLEAN /\ sealed \in BOOLEAN /\ frozen \in BOOLEAN
  /\ length_writable \in BOOLEAN

FlagsOK == (frozen => sealed /\ ~ length_writable) /\ (sealed => ~ extensible)

\* A property of the table lies below the length, and past the vector only where the
\* vector cannot reach; the flags hold for it too. A write may leave one behind an
\* element, which then has the attributes of the element.
EntryOK(i) ==
  /\ i < array_length
  /\ i < Len(elements) \/ i >= MaxDense
  /\ sealed => named[i].configurable = FALSE
  /\ frozen => named[i].writable = FALSE
  /\ has_index(i) => named[i].writable = (~ frozen) /\ named[i].configurable = (~ sealed)

TableOK == \A i \in Positions : named[i] # NoProperty => EntryOK(i)

StorageInv == StorageTypes /\ FlagsOK /\ TableOK

\* The properties before and after a step that changes at most the one at i.
Becomes(i, p) ==
  \A k \in Positions :
    array_own_property_descriptor(k)' = IF k = i THEN p ELSE array_own_property_descriptor(k)

SameProperties ==
  \A k \in Positions : array_own_property_descriptor(k)' = array_own_property_descriptor(k)

-----------------------------------------------------------------------------
(* Properties of indices.                                                  *)

LEMMA PropertyForm ==
  ASSUME NEW v \in Contained, NEW w \in BOOLEAN, NEW c \in BOOLEAN
  PROVE  LET p == [value |-> v, writable |-> w, configurable |-> c]
         IN p \in IndexProperty /\ p # NoProperty
BY SentinelsApart DEF IndexProperty, Contained

LEMMA PlainForm ==
  ASSUME NEW v \in Contained
  PROVE  Promised!Plain(v) \in IndexProperty /\ Promised!Plain(v) # NoProperty
BY PropertyForm DEF Promised!Plain

\* An element's property has the attributes that the flags say.
LEMMA ElementProperty ==
  ASSUME StorageInv, NEW i \in Positions, has_index(i)
  PROVE  /\ i < array_length
         /\ array_own_property_descriptor(i)
              = [value |-> elements[i + 1], writable |-> ~ frozen, configurable |-> ~ sealed]
         /\ array_own_property_descriptor(i) \in IndexProperty
         /\ array_own_property_descriptor(i) # NoProperty
<1>1. i < array_length /\ i + 1 \in 1 .. Len(elements)
  BY ArrayAssumption DEF StorageInv, StorageTypes, has_index, Positions
<1>2. elements[i + 1] \in Contained
  BY <1>1 DEF StorageInv, StorageTypes
<1>3. array_own_property_descriptor(i)
        = [value |-> elements[i + 1], writable |-> ~ frozen, configurable |-> ~ sealed]
  BY DEF array_own_property_descriptor
<1>4. (~ frozen) \in BOOLEAN /\ (~ sealed) \in BOOLEAN
  OBVIOUS
<1> QED BY <1>1, <1>2, <1>3, <1>4, PropertyForm

LEMMA TableProperty ==
  ASSUME StorageInv, NEW i \in Positions, ~ has_index(i)
  PROVE  /\ array_own_property_descriptor(i) = named[i]
         /\ named[i] # NoProperty => i < array_length /\ named[i] \in IndexProperty
BY DEF array_own_property_descriptor, StorageInv, StorageTypes, TableOK, EntryOK

LEMMA OwnProperty ==
  ASSUME StorageInv, NEW i \in Positions, array_own_property_descriptor(i) # NoProperty
  PROVE  i < array_length /\ array_own_property_descriptor(i) \in IndexProperty
BY ElementProperty, TableProperty

\* delete_index refuses exactly the properties that say so.
LEMMA KeptIs ==
  ASSUME StorageInv, NEW i \in Positions
  PROVE  Kept(i) <=> /\ array_own_property_descriptor(i) # NoProperty
                     /\ ~ array_own_property_descriptor(i).configurable
<1>1. CASE has_index(i)
  <2>1. array_own_property_descriptor(i).configurable = (~ sealed)
    BY <1>1, ElementProperty
  <2>2. named[i] # NoProperty => named[i].configurable = (~ sealed)
    BY <1>1 DEF StorageInv, TableOK, EntryOK
  <2> QED BY <1>1, <2>1, <2>2, ElementProperty DEF Kept, StorageInv, StorageTypes
<1>2. CASE ~ has_index(i)
  BY <1>2, TableProperty DEF Kept
<1> QED BY <1>1, <1>2

\* A definition yields a property, and takes no attribute back that was given up.
LEMMA DefinitionForm ==
  ASSUME NEW p \in {NoProperty} \cup IndexProperty, NEW q \in Promised!Definitions(p)
  PROVE  /\ q \in IndexProperty
         /\ p # NoProperty /\ p.configurable = FALSE
              => q.configurable = FALSE /\ (p.writable = FALSE => q.writable = FALSE)
<1>1. PICK d \in Promised!Descriptors : Promised!Compatible(p, d) /\ q = Promised!Completed(p, d)
  BY DEF Promised!Definitions
<1> DEFINE b == IF p = NoProperty
                  THEN [value |-> UndefinedValue, writable |-> FALSE, configurable |-> FALSE]
                  ELSE p
<1>2. b \in IndexProperty
  BY DEF IndexProperty, Contained
<1>3. q = [value |-> Promised!Given(d.value, b.value),
           writable |-> Promised!Given(d.writable, b.writable),
           configurable |-> Promised!Given(d.configurable, b.configurable)]
  BY <1>1, Zenon DEF Promised!Completed
<1>4. /\ d.configurable \in BOOLEAN \cup {Missing} /\ d.writable \in BOOLEAN \cup {Missing}
      /\ d.value \in ArrayValues \cup {Missing}
  BY DEF Promised!Descriptors
<1>5. b.value \in Contained /\ b.writable \in BOOLEAN /\ b.configurable \in BOOLEAN
  BY <1>2 DEF IndexProperty
<1>6. Promised!Given(d.value, b.value) \in Contained
  BY <1>4, <1>5 DEF Promised!Given, Contained
<1>7. Promised!Given(d.writable, b.writable) \in BOOLEAN
  BY <1>4, <1>5, Zenon DEF Promised!Given
<1>8. Promised!Given(d.configurable, b.configurable) \in BOOLEAN
  BY <1>4, <1>5, Zenon DEF Promised!Given
<1>9. q \in IndexProperty
  BY <1>3, <1>6, <1>7, <1>8 DEF IndexProperty
<1>10. ASSUME p # NoProperty, p.configurable = FALSE
       PROVE  q.configurable = FALSE /\ (p.writable = FALSE => q.writable = FALSE)
  <2>1. b = p
    BY <1>10
  <2>2. d.configurable # TRUE /\ (p.writable = FALSE => d.writable # TRUE)
    BY <1>1, <1>10, Zenon DEF Promised!Compatible
  <2>3. Promised!Given(d.configurable, p.configurable) = FALSE
    BY <1>4, <1>10, <2>2, Zenon DEF Promised!Given
  <2>4. p.writable = FALSE => Promised!Given(d.writable, p.writable) = FALSE
    BY <1>4, <2>2, Zenon DEF Promised!Given
  <2>5. /\ q.configurable = Promised!Given(d.configurable, p.configurable)
        /\ q.writable = Promised!Given(d.writable, p.writable)
    BY <1>3, <2>1
  <2> QED BY <2>3, <2>4, <2>5
<1> QED BY <1>9, <1>10

\* A plain property can be defined where there is none or one that is configurable.
LEMMA PlainDefinition ==
  ASSUME NEW p, NEW v \in ArrayValues, p # NoProperty => Promised!Compatible(p, Promised!Plain(v))
  PROVE  Promised!Plain(v) \in Promised!Definitions(p)
<1> DEFINE d == Promised!Plain(v)
<1>1. d \in Promised!Descriptors
  BY DEF Promised!Descriptors, Promised!Plain
<1>2. Promised!Compatible(p, d)
  BY Zenon DEF Promised!Compatible
<1>3. v # Missing /\ TRUE # Missing
  BY SentinelsApart
<1>4. d.value = v /\ d.writable = TRUE /\ d.configurable = TRUE
  BY DEF Promised!Plain
<1>5. \A x : /\ Promised!Given(d.value, x) = v /\ Promised!Given(d.writable, x) = TRUE
             /\ Promised!Given(d.configurable, x) = TRUE
  BY <1>3, <1>4, Zenon DEF Promised!Given
<1>6. Promised!Completed(p, d) = [value |-> v, writable |-> TRUE, configurable |-> TRUE]
  BY <1>5, Zenon DEF Promised!Completed
<1>7. Promised!Completed(p, d) = d
  BY <1>6 DEF Promised!Plain
<1> QED BY <1>1, <1>2, <1>7 DEF Promised!Definitions

-----------------------------------------------------------------------------
(* The largest of a set of numbers, and a vector made longer.              *)

LEMMA SmallestOf ==
  ASSUME NEW S \in SUBSET Nat, S # {}
  PROVE  \E m \in S : \A k \in S : m <= k
<1> DEFINE R == {ss \in Nat \X Nat : ss[1] < ss[2]}
<1>1. OpToRel(<, Nat) = R
  BY DEF OpToRel
<1>2. IsWellFoundedOn(R, Nat)
  BY <1>1, NatLessThanWellFounded
<1>3. \A x, y \in Nat : <<y, x>> \in R <=> y < x
  OBVIOUS
<1> HIDE DEF R
<1>4. \E x \in S : \A y \in S : ~ (<<y, x>> \in R)
  BY <1>2, WFMin
<1>5. PICK x \in S : \A y \in S : ~ (<<y, x>> \in R)
  BY <1>4
<1>6. \A y \in S : ~ (y < x)
  BY <1>3, <1>5
<1>7. \A y \in S : x <= y
  BY <1>6
<1> QED BY <1>7

LEMMA LargestOf ==
  ASSUME NEW b \in Nat, NEW S \in SUBSET (0 .. b), S # {}
  PROVE  Max(S) \in S /\ \A k \in S : k <= Max(S)
<1> DEFINE U == {n \in Nat : \A k \in S : k <= n}
<1>1. b \in U
  OBVIOUS
<1>2. PICK m \in U : \A n \in U : m <= n
  BY <1>1, SmallestOf
<1>3. m \in S
  <2> SUFFICES ASSUME m \notin S PROVE FALSE
    OBVIOUS
  <2>1. \A k \in S : k <= m /\ k # m /\ k \in Nat
    OBVIOUS
  <2>2. m # 0
    <3>1. PICK k : k \in S
      OBVIOUS
    <3> QED BY <2>1, <3>1
  <2>3. m - 1 \in U
    BY <2>1, <2>2
  <2> QED BY <1>2, <2>3
<1>4. \E x \in S : \A y \in S : x >= y
  BY <1>3
<1>5. Max(S) \in S /\ \A y \in S : Max(S) >= y
  BY <1>4, Zenon DEF Max
<1> QED BY <1>5

LEMMA LargestOfTwo ==
  ASSUME NEW m \in Nat, NEW n \in Nat
  PROVE  Max({m, n}) = IF m <= n THEN n ELSE m
<1>1. {m, n} \in SUBSET (0 .. m + n) /\ m + n \in Nat /\ {m, n} # {}
  OBVIOUS
<1>2. Max({m, n}) \in {m, n} /\ \A k \in {m, n} : k <= Max({m, n})
  BY <1>1, LargestOf
<1> HIDE DEF Max
<1> QED BY <1>2

LEMMA PaddedFacts ==
  ASSUME StorageTypes, NEW n \in Nat
  PROVE  /\ Padded(n) \in Seq(Contained)
         /\ Len(Padded(n)) = IF n <= Len(elements) THEN Len(elements) ELSE n
         /\ \A k \in 1 .. Len(elements) : Padded(n)[k] = elements[k]
         /\ n <= Len(elements) => Padded(n) = elements
<1> DEFINE m == IF n <= Len(elements) THEN Len(elements) ELSE n
<1>1. Len(elements) \in Nat /\ elements \in Seq(Contained) /\ UndefinedValue \in Contained
  BY DEF StorageTypes, Contained
<1>2. Max({n, Len(elements)}) = m
  BY <1>1, LargestOfTwo
<1>3. Padded(n) = [k \in 1 .. m |-> IF k <= Len(elements) THEN elements[k] ELSE UndefinedValue]
  BY <1>2, Zenon DEF Padded
<1>4. m \in Nat /\ Len(elements) <= m
  BY <1>1
<1>5. \A k \in 1 .. Len(elements) : elements[k] \in Contained
  BY <1>1
<1>6. Padded(n) \in [1 .. m -> Contained]
  BY <1>1, <1>3, <1>4, <1>5
<1>7. Padded(n) \in Seq(Contained) /\ Len(Padded(n)) = m
  BY <1>4, <1>6
<1>8. \A k \in 1 .. Len(elements) : Padded(n)[k] = elements[k]
  BY <1>1, <1>3, <1>4
<1>9. n <= Len(elements) => Padded(n) = elements
  BY <1>1, <1>7, <1>8
<1> QED BY <1>7, <1>8, <1>9

-----------------------------------------------------------------------------
(* A step that changes the property of one index.                          *)

LEMMA PutImplements ==
  ASSUME NEW i \in Positions, NEW p, Becomes(i, p),
         array_own_property_descriptor(i) # NoProperty
           \/ (extensible /\ (i < array_length \/ length_writable)),
         array_length' = IF i < array_length THEN array_length ELSE i + 1,
         UNCHANGED <<length_writable, extensible>>
  PROVE  Promised!Put(i, p)
BY DEF Promised!Put, Promised!ArrayIndices, Positions, Becomes

LEMMA Revalued ==
  ASSUME NEW r \in IndexProperty, NEW v
  PROVE  [r EXCEPT !.value = v]
           = [value |-> v, writable |-> r.writable, configurable |-> r.configurable]
BY DEF IndexProperty

LEMMA SetImplements ==
  ASSUME StorageInv, NEW i \in Positions, NEW v, NEW p, NEW r,
         r = array_own_property_descriptor(i), Promised!Put(i, p),
         IF r = NoProperty THEN p = Promised!Plain(v)
         ELSE /\ r.writable
              /\ p = [value |-> v, writable |-> r.writable, configurable |-> r.configurable]
  PROVE  Promised!Set(i, v)
<1>1. r # NoProperty => p = [r EXCEPT !.value = v]
  BY OwnProperty, Revalued
<1>2. [k \in Positions |-> array_own_property_descriptor(k)][i] = r
  BY Zenon
<1> QED BY <1>1, <1>2, Zenon DEF Promised!Set

\* Another entry of the table, or another element, changes nothing at an index.
LEMMA ElsewhereSame ==
  ASSUME NEW k, (has_index(k)' <=> has_index(k)),
         has_index(k) => elements'[k + 1] = elements[k + 1] /\ UNCHANGED <<frozen, sealed>>,
         ~ has_index(k) => named'[k] = named[k]
  PROVE  array_own_property_descriptor(k)' = array_own_property_descriptor(k)
<1>1. CASE has_index(k)
  <2>1. frozen' = frozen /\ sealed' = sealed /\ elements'[k + 1] = elements[k + 1]
    BY <1>1
  <2> QED BY <1>1, <2>1, Zenon DEF array_own_property_descriptor
<1>2. CASE ~ has_index(k)
  BY <1>2, Zenon DEF array_own_property_descriptor
<1> QED BY <1>1, <1>2

-----------------------------------------------------------------------------
(* Assignment.                                                             *)

\* What an assignment makes of a property.
Assigned(r, v) ==
  IF r = NoProperty THEN Promised!Plain(v)
  ELSE [value |-> v, writable |-> r.writable, configurable |-> r.configurable]

LEMMA OverwritableIs ==
  ASSUME StorageTypes, NEW i \in Positions, Overwritable(i), named[i] # NoProperty
  PROVE  /\ named[i].writable = TRUE
         /\ i < MaxDense \/ i < Len(elements) => named[i].configurable = (~ sealed)
         /\ ~ (i < MaxDense \/ i < Len(elements)) => named[i].configurable = TRUE
<1> DEFINE c == ~ sealed \/ i >= Max({MaxDense, Len(elements)})
<1>1. named[i].writable = TRUE /\ named[i].configurable = c
  BY DEF Overwritable
<1>2. MaxDense \in Nat /\ Len(elements) \in Nat /\ i \in Nat
  BY ArrayAssumption DEF StorageTypes, Positions
<1>3. Max({MaxDense, Len(elements)}) = IF MaxDense <= Len(elements) THEN Len(elements) ELSE MaxDense
  BY <1>2, LargestOfTwo
<1>4. (i >= Max({MaxDense, Len(elements)})) = (~ (i < MaxDense \/ i < Len(elements)))
  BY <1>2, <1>3
<1>5. c = (~ sealed \/ ~ (i < MaxDense \/ i < Len(elements)))
  BY <1>4
<1> QED BY <1>1, <1>5

\* A write that goes into the table, as no vector reaches so far.
LEMMA TableWrite ==
  ASSUME StorageInv, ~ frozen, NEW i \in Positions, NEW v \in ArrayValues, Overwritable(i),
         array_own_property_descriptor(i) = NoProperty => extensible,
         i >= Len(elements), i >= MaxDense,
         named' = [named EXCEPT ![i] = Promised!Plain(v)],
         UNCHANGED <<elements, holes, flags>>,
         array_length' = IF i < array_length THEN array_length ELSE i + 1
  PROVE  StorageInv' /\ Becomes(i, Assigned(array_own_property_descriptor(i), v))
<1> DEFINE r == array_own_property_descriptor(i)
<1>1. i \in Nat /\ Len(elements) \in Nat /\ MaxDense \in Nat /\ MaxLength \in Nat /\ i < MaxLength
      /\ array_length \in 0 .. MaxLength
  BY ArrayAssumption DEF StorageInv, StorageTypes, Positions
<1>2. ~ has_index(i) /\ ~ has_index(i)'
  BY <1>1 DEF has_index
<1>3. r = named[i]
  BY <1>2, TableProperty
<1>4. extensible' = extensible /\ sealed' = sealed /\ frozen' = frozen
      /\ length_writable' = length_writable
  BY DEF flags
<1>5. named \in [Positions -> {NoProperty} \cup IndexProperty]
  BY DEF StorageInv, StorageTypes
<1>6. Promised!Plain(v) \in IndexProperty
  BY PlainForm DEF Contained
<1>7. /\ named' \in [Positions -> {NoProperty} \cup IndexProperty]
      /\ named'[i] = Promised!Plain(v)
      /\ \A k \in Positions : k # i => named'[k] = named[k]
  BY <1>5, <1>6
<1>8. \A k : has_index(k)' <=> has_index(k)
  BY DEF has_index
<1>9. named[i] # NoProperty => named[i].writable = TRUE /\ named[i].configurable = TRUE
  <2>1. StorageTypes /\ ~ (i < MaxDense \/ i < Len(elements))
    BY <1>1 DEF StorageInv
  <2> QED BY <2>1, OverwritableIs
<1>10. ~ sealed
  <2>1. CASE r = NoProperty
    BY <2>1 DEF StorageInv, FlagsOK
  <2>2. CASE r # NoProperty
    BY <1>3, <1>9, <2>2 DEF StorageInv, TableOK, EntryOK
  <2> QED BY <2>1, <2>2
<1>11. StorageTypes'
  BY <1>1, <1>4, <1>7 DEF StorageInv, StorageTypes
<1>12. FlagsOK'
  BY <1>4 DEF StorageInv, FlagsOK
<1>13. ASSUME NEW k \in Positions, named'[k] # NoProperty
       PROVE  EntryOK(k)'
  <2>1. CASE k = i
    BY <1>1, <1>2, <1>4, <1>10, <2>1 DEF EntryOK
  <2>2. CASE k # i
    <3>1. named'[k] = named[k] /\ EntryOK(k)
      BY <1>7, <1>13, <2>2 DEF StorageInv, TableOK
    <3>2. k < array_length' /\ (k < Len(elements)' \/ k >= MaxDense)
      BY <1>1, <3>1 DEF EntryOK, Positions
    <3> QED BY <1>4, <1>8, <3>1, <3>2 DEF EntryOK
  <2> QED BY <2>1, <2>2
<1>14. Becomes(i, Assigned(r, v))
  <2>1. Assigned(r, v) = Promised!Plain(v)
    BY <1>3, <1>9 DEF Assigned, Promised!Plain
  <2>2. array_own_property_descriptor(i)' = Promised!Plain(v)
    BY <1>2, <1>7 DEF array_own_property_descriptor
  <2>3. ASSUME NEW k \in Positions, k # i
        PROVE  array_own_property_descriptor(k)' = array_own_property_descriptor(k)
    BY <1>4, <1>7, <1>8, <2>3, ElsewhereSame
  <2> QED BY <2>1, <2>2, <2>3 DEF Becomes
<1> QED BY <1>11, <1>12, <1>13, <1>14 DEF StorageInv, TableOK

\* A write that goes into the vector, which grows as far as it must.
LEMMA ElementWrite ==
  ASSUME StorageInv, ~ frozen, NEW i \in Positions, NEW v \in ArrayValues, Overwritable(i),
         array_own_property_descriptor(i) = NoProperty => extensible,
         i < Len(elements) \/ i < MaxDense,
         elements' = [Padded(i + 1) EXCEPT ![i + 1] = v],
         holes' = (holes \cup Len(elements) .. i - 1) \ {i},
         UNCHANGED <<named, flags>>,
         array_length' = IF i < array_length THEN array_length ELSE i + 1
  PROVE  StorageInv' /\ Becomes(i, Assigned(array_own_property_descriptor(i), v))
<1> DEFINE r == array_own_property_descriptor(i)
           n == IF i < Len(elements) THEN Len(elements) ELSE i + 1
<1>1. i \in Nat /\ Len(elements) \in Nat /\ MaxDense \in Nat /\ MaxLength \in Nat /\ i < MaxLength
      /\ array_length \in 0 .. MaxLength /\ Len(elements) <= array_length
      /\ holes \in SUBSET (0 .. Len(elements) - 1)
  BY ArrayAssumption DEF StorageInv, StorageTypes, Positions
<1>2. /\ Padded(i + 1) \in Seq(Contained) /\ Len(Padded(i + 1)) = n
      /\ \A k \in 1 .. Len(elements) : Padded(i + 1)[k] = elements[k]
  <2>1. StorageTypes /\ i + 1 \in Nat /\ (i + 1 <= Len(elements) <=> i < Len(elements))
    BY <1>1 DEF StorageInv
  <2>2. Len(Padded(i + 1)) = IF i + 1 <= Len(elements) THEN Len(elements) ELSE i + 1
    BY <2>1, PaddedFacts
  <2>3. Len(Padded(i + 1)) = n
    BY <2>1, <2>2
  <2> QED BY <2>1, <2>3, PaddedFacts
<1>3. v \in Contained /\ i + 1 \in 1 .. n /\ n \in Nat
  BY <1>1 DEF Contained
<1>4. /\ elements' \in Seq(Contained) /\ Len(elements') = n /\ elements'[i + 1] = v
      /\ \A k \in 1 .. Len(elements) : k # i + 1 => elements'[k] = elements[k]
  BY <1>1, <1>2, <1>3
<1>5. extensible' = extensible /\ sealed' = sealed /\ frozen' = frozen
      /\ length_writable' = length_writable /\ named' = named
  BY DEF flags
<1>6. has_index(i)'
  BY <1>1, <1>4 DEF has_index
<1>7. ASSUME NEW k \in Positions, k # i
      PROVE  (has_index(k)' <=> has_index(k))
             /\ (has_index(k) => elements'[k + 1] = elements[k + 1])
  BY <1>1, <1>4, <1>7 DEF has_index, Positions
<1>8. StorageTypes'
  <2>1. array_length' \in 0 .. MaxLength /\ Len(elements') <= array_length'
    BY <1>1, <1>4
  <2>2. holes' \in SUBSET (0 .. Len(elements') - 1)
    <3> SUFFICES ASSUME NEW k \in holes' PROVE k \in 0 .. n - 1
      BY <1>4
    <3>1. CASE k \in holes
      <4>1. k \in 0 .. Len(elements) - 1
        BY <1>1, <3>1
      <4> QED BY <1>1, <4>1
    <3>2. CASE k \in Len(elements) .. i - 1
      BY <1>1, <3>2
    <3> QED BY <3>1, <3>2
  <2> QED BY <1>4, <1>5, <2>1, <2>2 DEF StorageInv, StorageTypes
<1>9. FlagsOK'
  BY <1>5 DEF StorageInv, FlagsOK
<1>10. named[i] # NoProperty => named[i].writable = TRUE /\ named[i].configurable = (~ sealed)
  BY OverwritableIs DEF StorageInv
<1>11. ASSUME NEW k \in Positions, named'[k] # NoProperty
       PROVE  EntryOK(k)'
  <2>1. EntryOK(k)
    BY <1>5, <1>11 DEF StorageInv, TableOK
  <2>2. k < array_length' /\ (k < Len(elements') \/ k >= MaxDense)
    BY <1>1, <1>4, <2>1 DEF EntryOK, Positions
  <2>3. has_index(k)' => named'[k].writable = (~ frozen') /\ named'[k].configurable = (~ sealed')
    <3>1. CASE k = i
      BY <1>5, <1>10, <1>11, <3>1
    <3>2. CASE k # i
      BY <1>5, <1>7, <2>1, <3>2 DEF EntryOK
    <3> QED BY <3>1, <3>2
  <2> QED BY <1>5, <2>1, <2>2, <2>3 DEF EntryOK
<1>12. Becomes(i, Assigned(r, v))
  <2>1. r = NoProperty => ~ sealed
    BY DEF StorageInv, FlagsOK
  <2>2. r # NoProperty => r.writable = TRUE /\ r.configurable = (~ sealed)
    <3>1. CASE has_index(i)
      <4>1. r.writable = (~ frozen) /\ r.configurable = (~ sealed)
        BY <3>1, ElementProperty
      <4> QED BY <4>1
    <3>2. CASE ~ has_index(i)
      BY <1>10, <3>2, TableProperty
    <3> QED BY <3>1, <3>2
  <2>3. Assigned(r, v) = [value |-> v, writable |-> TRUE, configurable |-> ~ sealed]
    <3>1. CASE r = NoProperty
      <4>1. (~ sealed) = TRUE
        BY <2>1, <3>1
      <4> QED BY <3>1, <4>1 DEF Assigned, Promised!Plain
    <3>2. CASE r # NoProperty
      BY <2>2, <3>2, Zenon DEF Assigned
    <3> QED BY <3>1, <3>2
  <2>4. (~ frozen') = TRUE /\ (~ sealed') = (~ sealed)
    BY <1>5
  <2>5. array_own_property_descriptor(i)' = [value |-> v, writable |-> TRUE, configurable |-> ~ sealed]
    BY <1>4, <1>6, <2>4, Zenon DEF array_own_property_descriptor
  <2>6. ASSUME NEW k \in Positions, k # i
        PROVE  array_own_property_descriptor(k)' = array_own_property_descriptor(k)
    BY <1>5, <1>7, <2>6, ElsewhereSame
  <2> QED BY <2>3, <2>5, <2>6 DEF Becomes
<1> QED BY <1>8, <1>9, <1>11, <1>12 DEF StorageInv, TableOK

\* ArrayRef::set where an assignment is allowed.
LEMMA SetWrites ==
  ASSUME StorageInv, ~ frozen, NEW i \in Positions, NEW v \in ArrayValues, Overwritable(i),
         array_own_property_descriptor(i) = NoProperty => extensible,
         i < array_length \/ (extensible /\ length_writable), set(i, v)
  PROVE  /\ StorageInv' /\ Becomes(i, Assigned(array_own_property_descriptor(i), v))
         /\ Promised!Put(i, Assigned(array_own_property_descriptor(i), v))
<1>1. i \in Nat /\ Len(elements) \in Nat /\ MaxDense \in Nat /\ array_length \in Nat
  BY ArrayAssumption DEF StorageInv, StorageTypes, Positions
<1>2. /\ array_length' = IF i < array_length THEN array_length ELSE i + 1
      /\ UNCHANGED flags
      /\ IF i >= Len(elements) /\ i >= MaxDense
           THEN named' = [named EXCEPT ![i] = Promised!Plain(v)] /\ UNCHANGED <<elements, holes>>
           ELSE /\ elements' = [Padded(i + 1) EXCEPT ![i + 1] = IF frozen THEN @ ELSE v]
                /\ holes' = (holes \cup Len(elements) .. i - 1) \ (IF frozen THEN {} ELSE {i})
                /\ UNCHANGED named
  <2>1. ~ (i >= array_length /\ (frozen \/ ~ extensible \/ ~ length_writable))
    BY <1>1
  <2> QED BY <2>1, Zenon DEF set
<1>3. StorageInv' /\ Becomes(i, Assigned(array_own_property_descriptor(i), v))
  <2>1. CASE i >= Len(elements) /\ i >= MaxDense
    BY <1>2, <2>1, TableWrite
  <2>2. CASE ~ (i >= Len(elements) /\ i >= MaxDense)
    <3>1. elements' = [Padded(i + 1) EXCEPT ![i + 1] = v]
      BY <1>2, <2>2
    <3>2. holes' = (holes \cup Len(elements) .. i - 1) \ {i} /\ UNCHANGED <<named, flags>>
      BY <1>2, <2>2
    <3> QED BY <1>1, <1>2, <2>2, <3>1, <3>2, ElementWrite
  <2> QED BY <2>1, <2>2
<1>4. Promised!Put(i, Assigned(array_own_property_descriptor(i), v))
  BY <1>1, <1>2, <1>3, PutImplements, OwnProperty DEF flags
<1> QED BY <1>3, <1>4

-----------------------------------------------------------------------------
(* Definition and deletion.                                                *)

LEMMA StorageIdle ==
  ASSUME StorageInv, UNCHANGED arrayVars
  PROVE  StorageInv' /\ UNCHANGED Promised!promisedVars
BY DEF StorageInv, StorageTypes, FlagsOK, TableOK, EntryOK, arrayVars, has_index,
       Promised!promisedVars, array_own_property_descriptor

LEMMA ClosedAttributes ==
  ASSUME StorageInv, NEW i \in Positions, array_own_property_descriptor(i) # NoProperty
  PROVE  /\ sealed => array_own_property_descriptor(i).configurable = FALSE
         /\ frozen => array_own_property_descriptor(i).writable = FALSE
<1>1. CASE has_index(i)
  <2>1. /\ array_own_property_descriptor(i).configurable = (~ sealed)
        /\ array_own_property_descriptor(i).writable = (~ frozen)
    BY <1>1, ElementProperty
  <2> QED BY <2>1
<1>2. CASE ~ has_index(i)
  BY <1>2, TableProperty DEF StorageInv, TableOK, EntryOK
<1> QED BY <1>1, <1>2

\* ArrayRef::define_property where the definition is allowed and not dropped: the
\* property moves into the table.
LEMMA DefineWrites ==
  ASSUME StorageInv, NEW i \in Positions,
         NEW p \in Promised!Definitions(array_own_property_descriptor(i)),
         array_own_property_descriptor(i) = NoProperty => extensible,
         i < array_length \/ length_writable, Definable(i), define_property(i, p)
  PROVE  StorageInv' /\ Promised!Put(i, p)
<1> DEFINE r == array_own_property_descriptor(i)
<1>1. i \in Nat /\ Len(elements) \in Nat /\ MaxDense \in Nat /\ MaxLength \in Nat /\ i < MaxLength
      /\ array_length \in 0 .. MaxLength /\ Len(elements) <= array_length
      /\ holes \in SUBSET (0 .. Len(elements) - 1)
      /\ elements \in Seq(Contained)
  BY ArrayAssumption DEF StorageInv, StorageTypes, Positions
<1>2. r \in {NoProperty} \cup IndexProperty
  BY OwnProperty
<1>3. p \in IndexProperty
  BY <1>2, DefinitionForm
<1>4. (sealed => p.configurable = FALSE) /\ (frozen => p.writable = FALSE)
  <2>1. CASE r = NoProperty
    BY <2>1 DEF StorageInv, FlagsOK
  <2>2. CASE r # NoProperty
    <3>1. (sealed => r.configurable = FALSE) /\ (frozen => r.writable = FALSE)
      BY <2>2, ClosedAttributes
    <3>2. r.configurable = FALSE => p.configurable = FALSE /\ (r.writable = FALSE => p.writable = FALSE)
      BY <1>2, <2>2, DefinitionForm
    <3> QED BY <3>1, <3>2 DEF StorageInv, FlagsOK
  <2> QED BY <2>1, <2>2
<1>5. /\ array_length' = IF i < array_length THEN array_length ELSE i + 1
      /\ UNCHANGED flags
      /\ IF i < Len(elements)
           THEN named' = [named EXCEPT ![i] = p] /\ holes' = holes \cup {i} /\ UNCHANGED elements
         ELSE IF ~ extensible THEN UNCHANGED <<elements, holes, named>>
         ELSE /\ named' = [named EXCEPT ![i] = p]
              /\ IF i >= MaxDense THEN UNCHANGED <<elements, holes>>
                 ELSE elements' = Padded(i + 1) /\ holes' = holes \cup Len(elements) .. i
  <2>1. ~ (i >= array_length /\ ~ length_writable)
    BY <1>1
  <2> QED BY <2>1, Zenon DEF define_property
<1>6. ~ (i < Len(elements)) => extensible
  <2> SUFFICES ASSUME ~ (i < Len(elements)), named[i] = NoProperty PROVE extensible
    BY DEF Definable
  <2>1. ~ has_index(i)
    BY DEF has_index
  <2> QED BY <2>1, TableProperty
<1>7. named' = [named EXCEPT ![i] = p]
  BY <1>5, <1>6
<1>8. /\ named' \in [Positions -> {NoProperty} \cup IndexProperty] /\ named'[i] = p
      /\ \A k \in Positions : k # i => named'[k] = named[k]
  BY <1>3, <1>7 DEF StorageInv, StorageTypes
<1>9. /\ elements' \in Seq(Contained)
      /\ Len(elements') = IF i < Len(elements) \/ i >= MaxDense THEN Len(elements) ELSE i + 1
      /\ \A k \in 1 .. Len(elements) : elements'[k] = elements[k]
      /\ holes' \in SUBSET (0 .. Len(elements') - 1)
      /\ i < Len(elements') => i \in holes'
      /\ \A k \in Positions : k # i => (k < Len(elements') /\ k \notin holes' <=> has_index(k))
  <2>1. CASE i < Len(elements)
    <3>1. elements' = elements /\ holes' = holes \cup {i}
      BY <1>5, <2>1
    <3> QED BY <1>1, <2>1, <3>1 DEF has_index
  <2>2. CASE ~ (i < Len(elements)) /\ i >= MaxDense
    <3>1. elements' = elements /\ holes' = holes
      BY <1>5, <1>6, <2>2
    <3> QED BY <1>1, <2>2, <3>1 DEF has_index
  <2>3. CASE ~ (i < Len(elements)) /\ ~ (i >= MaxDense)
    <3>1. elements' = Padded(i + 1) /\ holes' = holes \cup Len(elements) .. i
      BY <1>5, <1>6, <2>3
    <3>2. StorageTypes /\ i + 1 \in Nat /\ ~ (i + 1 <= Len(elements))
      BY <1>1, <2>3 DEF StorageInv
    <3>3. /\ elements' \in Seq(Contained) /\ Len(elements') = i + 1
          /\ \A k \in 1 .. Len(elements) : elements'[k] = elements[k]
      BY <3>1, <3>2, PaddedFacts
    <3>4. holes' \in SUBSET (0 .. Len(elements') - 1) /\ i \in holes'
      <4>1. ASSUME NEW k \in holes'
            PROVE  k \in 0 .. i
        <5>1. k \in holes \/ k \in Len(elements) .. i
          BY <3>1
        <5>2. CASE k \in holes
          <6>1. k \in 0 .. Len(elements) - 1
            BY <1>1, <5>2
          <6> QED BY <1>1, <2>3, <6>1
        <5>3. CASE k \in Len(elements) .. i
          BY <1>1, <5>3
        <5> QED BY <5>1, <5>2, <5>3
      <4>2. i \in Len(elements) .. i
        BY <1>1, <2>3
      <4>3. Len(elements') - 1 = i
        BY <1>1, <3>3
      <4> QED BY <3>1, <4>1, <4>2, <4>3
    <3>5. ASSUME NEW k \in Positions, k # i
          PROVE  k < Len(elements') /\ k \notin holes' <=> has_index(k)
      BY <1>1, <2>3, <3>1, <3>3, <3>5 DEF has_index, Positions
    <3> QED BY <1>1, <2>3, <3>3, <3>4, <3>5
  <2> QED BY <2>1, <2>2, <2>3
<1>10. extensible' = extensible /\ sealed' = sealed /\ frozen' = frozen
       /\ length_writable' = length_writable
  BY <1>5 DEF flags
<1>11. ~ has_index(i)' /\ \A k \in Positions : k # i => (has_index(k)' <=> has_index(k))
  BY <1>9 DEF has_index
<1>12. StorageTypes'
  <2>1. array_length' \in 0 .. MaxLength /\ Len(elements') <= array_length'
    BY <1>1, <1>5, <1>9
  <2> QED BY <1>8, <1>9, <1>10, <2>1 DEF StorageInv, StorageTypes
<1>13. FlagsOK'
  BY <1>10 DEF StorageInv, FlagsOK
<1>14. ASSUME NEW k \in Positions, named'[k] # NoProperty
       PROVE  EntryOK(k)'
  <2>1. CASE k = i
    <3>1. i < array_length' /\ (i < Len(elements') \/ i >= MaxDense)
      BY <1>1, <1>5, <1>9
    <3> QED BY <1>4, <1>8, <1>10, <1>11, <2>1, <3>1 DEF EntryOK
  <2>2. CASE k # i
    <3>1. named'[k] = named[k] /\ EntryOK(k)
      BY <1>8, <1>14, <2>2 DEF StorageInv, TableOK
    <3>2. k < array_length' /\ (k < Len(elements') \/ k >= MaxDense)
      BY <1>1, <1>5, <1>9, <3>1 DEF EntryOK, Positions
    <3> QED BY <1>10, <1>11, <2>2, <3>1, <3>2 DEF EntryOK
  <2> QED BY <2>1, <2>2
<1>15. Becomes(i, p)
  <2>1. array_own_property_descriptor(i)' = p
    BY <1>8, <1>11 DEF array_own_property_descriptor
  <2>2. ASSUME NEW k \in Positions, k # i
        PROVE  array_own_property_descriptor(k)' = array_own_property_descriptor(k)
    <3>1. has_index(k)' <=> has_index(k)
      BY <1>11, <2>2
    <3>2. has_index(k) => elements'[k + 1] = elements[k + 1]
      BY <1>1, <1>9 DEF has_index, Positions
    <3> QED BY <1>8, <1>10, <2>2, <3>1, <3>2, ElsewhereSame
  <2> QED BY <2>1, <2>2 DEF Becomes
<1>16. Promised!Put(i, p)
  BY <1>1, <1>5, <1>10, <1>15, PutImplements, OwnProperty
<1> QED BY <1>12, <1>13, <1>14, <1>16 DEF StorageInv, TableOK

LEMMA DeleteRemoves ==
  ASSUME StorageInv, NEW i \in Positions, delete_index(i)
  PROVE  StorageInv' /\ (Promised!Delete(i) \/ UNCHANGED Promised!promisedVars)
<1> DEFINE r == array_own_property_descriptor(i)
<1>1. i \in Nat /\ Len(elements) \in Nat /\ holes \in SUBSET (0 .. Len(elements) - 1)
  BY DEF StorageInv, StorageTypes, Positions
<1>2. /\ ~ (named[i] # NoProperty /\ ~ named[i].configurable)
      /\ named' = [named EXCEPT ![i] = NoProperty]
      /\ holes' = IF i < Len(elements) /\ ~ (sealed /\ has_index(i)) THEN holes \cup {i} ELSE holes
      /\ UNCHANGED <<array_length, elements, flags>>
  BY DEF delete_index
<1>3. /\ extensible' = extensible /\ sealed' = sealed /\ frozen' = frozen
      /\ length_writable' = length_writable /\ array_length' = array_length /\ elements' = elements
  BY <1>2 DEF flags
<1>4. /\ named' \in [Positions -> {NoProperty} \cup IndexProperty] /\ named'[i] = NoProperty
      /\ \A k \in Positions : k # i => named'[k] = named[k]
  BY <1>2 DEF StorageInv, StorageTypes
<1>5. holes' \in SUBSET (0 .. Len(elements) - 1)
  BY <1>1, <1>2
<1>6. \A k \in Positions : k # i => (has_index(k)' <=> has_index(k))
  BY <1>2, <1>3 DEF has_index
<1>7. StorageTypes'
  BY <1>3, <1>4, <1>5 DEF StorageInv, StorageTypes
<1>8. FlagsOK'
  BY <1>3 DEF StorageInv, FlagsOK
<1>9. TableOK'
  <2> SUFFICES ASSUME NEW k \in Positions, named'[k] # NoProperty PROVE EntryOK(k)'
    BY DEF TableOK
  <2>1. k # i /\ named'[k] = named[k]
    BY <1>4
  <2>2. EntryOK(k)
    BY <2>1 DEF StorageInv, TableOK
  <2> QED BY <1>3, <1>6, <2>1, <2>2 DEF EntryOK
<1>10. \A k \in Positions :
         k # i => array_own_property_descriptor(k)' = array_own_property_descriptor(k)
  BY <1>3, <1>4, <1>6, ElsewhereSame
<1>11. CASE sealed /\ has_index(i)
  <2>1. named[i] = NoProperty
    BY <1>2, <1>11 DEF StorageInv, TableOK, EntryOK
  <2>2. holes' = holes /\ named' = named
    BY <1>2, <1>11, <2>1 DEF StorageInv, StorageTypes
  <2>3. UNCHANGED Promised!promisedVars
    BY <1>3, <2>2 DEF Promised!promisedVars, array_own_property_descriptor, has_index
  <2> QED BY <1>7, <1>8, <1>9, <2>3 DEF StorageInv
<1>12. CASE ~ (sealed /\ has_index(i))
  <2>1. ~ has_index(i)'
    BY <1>2, <1>3, <1>12 DEF has_index
  <2>2. array_own_property_descriptor(i)' = NoProperty
    BY <1>4, <2>1 DEF array_own_property_descriptor
  <2>3. CASE r = NoProperty
    <3>1. \A k \in Positions :
            array_own_property_descriptor(k)' = array_own_property_descriptor(k)
      BY <1>10, <2>2, <2>3
    <3>2. UNCHANGED Promised!promisedVars
      BY <1>3, <3>1 DEF Promised!promisedVars
    <3> QED BY <1>7, <1>8, <1>9, <3>2 DEF StorageInv
  <2>4. CASE r # NoProperty
    <3>1. ~ Kept(i)
      BY <1>2, <1>12 DEF Kept
    <3>2. r.configurable
      BY <2>4, <3>1, KeptIs
    <3>3. Promised!Delete(i)
      BY <1>3, <1>10, <2>2, <2>4, <3>2 DEF Promised!Delete, Positions
    <3> QED BY <1>7, <1>8, <1>9, <3>3 DEF StorageInv
  <2> QED BY <2>3, <2>4
<1> QED BY <1>11, <1>12

-----------------------------------------------------------------------------
(* Integrity and the flag of the length.                                   *)

LEMMA Rewritten ==
  ASSUME NEW r \in IndexProperty, NEW w, NEW c
  PROVE  [r EXCEPT !.configurable = c, !.writable = w]
           = [value |-> r.value, writable |-> w, configurable |-> c]
<1>1. [r EXCEPT !.configurable = c, !.writable = w]
        = [[r EXCEPT !.configurable = c] EXCEPT !.writable = w]
  OBVIOUS
<1>2. [r EXCEPT !.configurable = c]
        = [value |-> r.value, writable |-> r.writable, configurable |-> c]
  BY DEF IndexProperty
<1>3. [[value |-> r.value, writable |-> r.writable, configurable |-> c] EXCEPT !.writable = w]
        = [value |-> r.value, writable |-> w, configurable |-> c]
  OBVIOUS
<1> QED BY <1>1, <1>2, <1>3, Zenon

LEMMA Hardened ==
  ASSUME NEW r \in IndexProperty, NEW freezing \in BOOLEAN
  PROVE  [r EXCEPT !.configurable = FALSE, !.writable = @ /\ ~ freezing]
           = [value |-> r.value, writable |-> (r.writable /\ ~ freezing), configurable |-> FALSE]
BY Rewritten, Zenon

LEMMA HardenSeals ==
  ASSUME StorageInv, NEW freezing \in BOOLEAN,
         extensible' = FALSE, sealed' = TRUE, frozen' = (frozen \/ freezing),
         length_writable' = (length_writable /\ ~ freezing), named' = Transformed(freezing),
         UNCHANGED <<array_length, elements, holes>>
  PROVE  StorageInv' /\ Promised!Harden(freezing)
<1>1. named \in [Positions -> {NoProperty} \cup IndexProperty]
  BY DEF StorageInv, StorageTypes
<1>2. ASSUME NEW k \in Positions
      PROVE  /\ named[k] = NoProperty => named'[k] = NoProperty
             /\ named[k] # NoProperty =>
                  /\ named'[k] = [value |-> named[k].value, writable |-> (named[k].writable /\ ~ freezing),
                                  configurable |-> FALSE]
                  /\ named'[k] \in IndexProperty
                  /\ named'[k].writable = (named[k].writable /\ ~ freezing)
                  /\ named'[k].configurable = FALSE
  <2>1. CASE named[k] = NoProperty
    BY <2>1 DEF Transformed
  <2>2. CASE named[k] # NoProperty
    <3>1. named'[k] = [value |-> named[k].value, writable |-> (named[k].writable /\ ~ freezing),
                       configurable |-> FALSE]
      BY <2>2, Zenon DEF Transformed
    <3>2. named[k].value \in Contained /\ named[k].writable \in BOOLEAN
      BY <1>1, <2>2 DEF IndexProperty
    <3>3. (named[k].writable /\ ~ freezing) \in BOOLEAN
      OBVIOUS
    <3>4. PICK b \in BOOLEAN : b = (named[k].writable /\ ~ freezing)
      BY <3>3
    <3>5. named'[k] = [value |-> named[k].value, writable |-> b, configurable |-> FALSE]
      BY <3>1, <3>4, Zenon
    <3>6. named'[k] \in IndexProperty
      BY <3>2, <3>5 DEF IndexProperty
    <3>7. named'[k].writable = b /\ named'[k].configurable = FALSE
      BY <3>5
    <3> QED BY <2>2, <3>1, <3>4, <3>6, <3>7, Zenon
  <2> QED BY <2>1, <2>2
<1>3. named' \in [Positions -> {NoProperty} \cup IndexProperty]
  <2>1. named' = [k \in Positions |-> named'[k]]
    BY DEF Transformed
  <2> QED BY <1>2, <2>1
<1>4. StorageTypes'
  BY <1>3 DEF StorageInv, StorageTypes
<1>5. FlagsOK'
  BY DEF StorageInv, FlagsOK, StorageTypes
<1>6. \A k : has_index(k)' <=> has_index(k)
  BY DEF has_index
<1>7. TableOK'
  <2> SUFFICES ASSUME NEW k \in Positions, named'[k] # NoProperty PROVE EntryOK(k)'
    BY DEF TableOK
  <2>1. named[k] # NoProperty /\ EntryOK(k)
    BY <1>2 DEF StorageInv, TableOK
  <2>2. named'[k].writable = (named[k].writable /\ ~ freezing) /\ named'[k].configurable = FALSE
    BY <1>2, <2>1
  <2>3. frozen' => named'[k].writable = FALSE
    BY <2>1, <2>2 DEF EntryOK
  <2>4. has_index(k)' => named'[k].writable = (~ frozen') /\ named'[k].configurable = (~ sealed')
    BY <1>6, <2>1, <2>2 DEF EntryOK
  <2>5. k < array_length' /\ (k < Len(elements') \/ k >= MaxDense)
    BY <2>1 DEF EntryOK
  <2> QED BY <2>2, <2>3, <2>4, <2>5 DEF EntryOK
<1>8. ASSUME NEW k \in Positions
      PROVE  array_own_property_descriptor(k)'
               = IF array_own_property_descriptor(k) = NoProperty THEN NoProperty
                 ELSE [array_own_property_descriptor(k)
                         EXCEPT !.configurable = FALSE, !.writable = @ /\ ~ freezing]
  <2>1. PICK r : r = array_own_property_descriptor(k)
    OBVIOUS
  <2>2. r # NoProperty => r \in IndexProperty
    BY <2>1, OwnProperty
  <2>3. CASE has_index(k)
    <3>1. /\ r = [value |-> elements[k + 1], writable |-> ~ frozen, configurable |-> ~ sealed]
          /\ r # NoProperty
      BY <2>1, <2>3, ElementProperty
    <3>2. (~ frozen') = (~ frozen /\ ~ freezing) /\ (~ sealed') = FALSE
      OBVIOUS
    <3>3. array_own_property_descriptor(k)'
            = [value |-> elements[k + 1], writable |-> (~ frozen /\ ~ freezing), configurable |-> FALSE]
      BY <1>6, <2>3, <3>2, Zenon DEF array_own_property_descriptor
    <3>4. r.value = elements[k + 1] /\ r.writable = (~ frozen)
      BY <3>1
    <3>5. array_own_property_descriptor(k)'
            = [value |-> r.value, writable |-> (r.writable /\ ~ freezing), configurable |-> FALSE]
      BY <3>3, <3>4, Zenon
    <3>6. array_own_property_descriptor(k)'
            = [r EXCEPT !.configurable = FALSE, !.writable = @ /\ ~ freezing]
      BY <2>2, <3>1, <3>5, Hardened
    <3> QED BY <2>1, <3>1, <3>6, Zenon
  <2>4. CASE ~ has_index(k)
    <3>1. r = named[k] /\ array_own_property_descriptor(k)' = named'[k]
      BY <1>6, <2>1, <2>4 DEF array_own_property_descriptor
    <3>2. CASE r = NoProperty
      BY <1>2, <2>1, <3>1, <3>2, Zenon
    <3>3. CASE r # NoProperty
      <4>1. named'[k] = [value |-> r.value, writable |-> (r.writable /\ ~ freezing), configurable |-> FALSE]
        BY <1>2, <3>1, <3>3, Zenon
      <4>2. named'[k] = [r EXCEPT !.configurable = FALSE, !.writable = @ /\ ~ freezing]
        BY <2>2, <3>3, <4>1, Hardened
      <4> QED BY <2>1, <3>1, <3>3, <4>2, Zenon
    <3> QED BY <3>2, <3>3
  <2> QED BY <2>3, <2>4
<1>9. Promised!Harden(freezing)
  <2>1. [k \in Positions |-> array_own_property_descriptor(k)]'
          = [k \in Positions |-> array_own_property_descriptor(k)']
    OBVIOUS
  <2>2. ASSUME NEW k \in Positions
        PROVE  array_own_property_descriptor(k)'
                 = LET own == [j \in Positions |-> array_own_property_descriptor(j)]
                   IN IF own[k] = NoProperty THEN NoProperty
                      ELSE [own[k] EXCEPT !.configurable = FALSE, !.writable = @ /\ ~ freezing]
    BY <1>8, Zenon
  <2> QED BY <2>2, Zenon DEF Promised!Harden, Promised!ArrayIndices, Positions
<1> QED BY <1>4, <1>5, <1>7, <1>9 DEF StorageInv

\* A step that leaves elements, holes and table alone, and only closes the array or
\* fixes its length.
LEMMA FlagStep ==
  ASSUME StorageInv, UNCHANGED <<array_length, elements, holes, named, sealed, frozen>>,
         extensible' \in BOOLEAN, extensible' => extensible,
         length_writable' \in BOOLEAN, length_writable' => length_writable
  PROVE  /\ StorageInv'
         /\ [k \in Positions |-> array_own_property_descriptor(k)]'
              = [k \in Positions |-> array_own_property_descriptor(k)]
<1>1. \A k : has_index(k)' <=> has_index(k)
  BY DEF has_index
<1>2. SameProperties
  BY <1>1 DEF SameProperties, array_own_property_descriptor
<1>3. StorageTypes' /\ FlagsOK'
  BY DEF StorageInv, StorageTypes, FlagsOK
<1>4. TableOK'
  BY <1>1 DEF StorageInv, TableOK, EntryOK
<1> QED BY <1>2, <1>3, <1>4 DEF StorageInv, SameProperties

-----------------------------------------------------------------------------
(* The length.                                                             *)

KeptFrom(n) == {i \in Positions : i >= n /\ Kept(i)}

LEMMA ElementOrLimit ==
  ASSUME StorageTypes, NEW n \in Nat, Materialised(n), n > Len(elements), n <= MaxDense
  PROVE  Len(elements) = array_length
<1> DEFINE S == {n, array_length, MaxDense}
<1>1. S \in SUBSET Nat /\ Len(elements) \in Nat /\ array_length \in Nat /\ MaxDense \in Nat
      /\ Len(elements) <= array_length
  BY ArrayAssumption DEF StorageTypes
<1>2. \E x \in S : \A y \in S : x <= y
  BY <1>1, SmallestOf, Zenon
<1>3. Min(S) \in S /\ \A y \in S : Min(S) <= y
  BY <1>2, Zenon DEF Min
<1>4. Len(elements) >= Min(S)
  BY DEF Materialised
<1>5. PICK x : x = Min(S)
  OBVIOUS
<1>6. x \in S /\ x <= n /\ x <= MaxDense /\ Len(elements) >= x
  BY <1>3, <1>4, <1>5, Zenon
<1> QED BY <1>1, <1>6

\* ArrayRef::set_len, when delete_indices_from has left nothing at or past the length
\* that must stay.
LEMMA LengthSet ==
  ASSUME StorageInv, ~ frozen, NEW m \in 0 .. MaxLength, NEW h \in SUBSET (0 .. Len(elements) - 1),
         NEW t \in [Positions -> {NoProperty} \cup IndexProperty],
         set_len(m, h, t), UNCHANGED <<extensible, sealed, frozen>>, length_writable' \in BOOLEAN,
         \A k \in Positions : k < m => t[k] = named[k] /\ (k \in h <=> k \in holes),
         \A k \in Positions : k >= m => t[k] = NoProperty \/ t[k].configurable,
         m >= array_length => \A k \in Positions : k >= m => t[k] = NoProperty,
         m <= Len(elements) \/ m > MaxDense \/ Len(elements) = array_length
  PROVE  /\ StorageInv' /\ array_length' = m
         /\ \A k \in Positions :
              array_own_property_descriptor(k)'
                = IF k < m THEN array_own_property_descriptor(k) ELSE NoProperty
<1> DEFINE stuck == {i \in Positions : m < array_length /\ i >= m
                                         /\ t[i] # NoProperty /\ ~ t[i].configurable}
<1>1. /\ Len(elements) \in Nat /\ MaxDense \in Nat /\ MaxLength \in Nat /\ m \in Nat
      /\ array_length \in 0 .. MaxLength /\ Len(elements) <= array_length
      /\ holes \in SUBSET (0 .. Len(elements) - 1)
      /\ elements \in Seq(Contained)
  BY ArrayAssumption DEF StorageInv, StorageTypes
<1>2. Max({m} \cup {i + 1 : i \in stuck}) = m
  <2>1. stuck = {}
    OBVIOUS
  <2>2. {m} \cup {i + 1 : i \in stuck} = {m, m}
    BY <2>1
  <2>3. Max({m, m}) = m
    BY <1>1, LargestOfTwo
  <2> QED BY <2>2, <2>3, Zenon
<1>3. /\ array_length' = m
      /\ elements' = IF m <= Len(elements) THEN SubSeq(elements, 1, m)
                     ELSE IF m <= MaxDense THEN Padded(m) ELSE elements
      /\ holes' = {i \in h : i < m} \cup (IF m <= MaxDense THEN array_length .. m - 1 ELSE {})
      /\ named' = [i \in Positions |-> IF m < array_length /\ i >= m THEN NoProperty ELSE t[i]]
  BY <1>2, Zenon DEF set_len
<1>4. /\ elements' \in Seq(Contained)
      /\ Len(elements') = IF m <= Len(elements) \/ m <= MaxDense THEN m ELSE Len(elements)
      /\ \A k \in Positions : k < Len(elements) /\ k < m => elements'[k + 1] = elements[k + 1]
  <2>1. CASE m <= Len(elements)
    <3>1. elements' = SubSeq(elements, 1, m)
      BY <1>3, <2>1
    <3>2. elements' \in Seq(Contained) /\ Len(elements') = m
          /\ \A k \in 1 .. m : elements'[k] = elements[k]
      BY <1>1, <2>1, <3>1
    <3> QED BY <1>1, <2>1, <3>2 DEF Positions
  <2>2. CASE ~ (m <= Len(elements)) /\ m <= MaxDense
    <3>1. elements' = Padded(m) /\ StorageTypes
      BY <1>3, <2>2 DEF StorageInv
    <3>2. elements' \in Seq(Contained) /\ Len(elements') = m
          /\ \A k \in 1 .. Len(elements) : elements'[k] = elements[k]
      BY <1>1, <2>2, <3>1, PaddedFacts
    <3> QED BY <1>1, <2>2, <3>2 DEF Positions
  <2>3. CASE ~ (m <= Len(elements)) /\ ~ (m <= MaxDense)
    <3>1. elements' = elements
      BY <1>3, <2>3
    <3> QED BY <1>1, <2>3, <3>1
  <2> QED BY <2>1, <2>2, <2>3
<1>5. \A k \in holes' : k \in 0 .. m - 1 /\ (k \in h \/ (m <= MaxDense /\ k \in array_length .. m - 1))
  BY <1>1, <1>3
<1>6. holes' \in SUBSET (0 .. Len(elements') - 1)
  <2> SUFFICES ASSUME NEW k \in holes' PROVE k \in 0 .. Len(elements') - 1
    OBVIOUS
  <2>1. CASE m <= Len(elements) \/ m <= MaxDense
    BY <1>4, <1>5, <2>1
  <2>2. CASE ~ (m <= Len(elements) \/ m <= MaxDense)
    <3>1. k \in h /\ Len(elements') = Len(elements)
      BY <1>4, <1>5, <2>2
    <3> QED BY <3>1
  <2> QED BY <2>1, <2>2
<1>7. ASSUME NEW k \in Positions, k < m
      PROVE  has_index(k)' <=> has_index(k)
  <2>1. k \in Nat /\ k \in 0 .. m - 1 /\ (k \in h <=> k \in holes)
    BY <1>1, <1>7 DEF Positions
  <2>2. k < Len(elements) => k < Len(elements')
    BY <1>1, <1>4, <1>7
  <2>3. k < Len(elements) => (k \in holes' <=> k \in h)
    BY <1>1, <1>3, <2>1
  <2>4. k >= Len(elements) => ~ has_index(k)'
    <3> SUFFICES ASSUME k >= Len(elements), k < Len(elements') PROVE k \in holes'
      BY DEF has_index
    <3>1. ~ (m <= Len(elements)) /\ m <= MaxDense
      BY <1>1, <1>4, <1>7, <2>1
    <3>2. Len(elements) = array_length
      BY <1>1, <3>1
    <3>3. k \in array_length .. m - 1
      BY <1>1, <2>1, <3>2
    <3> QED BY <1>3, <3>1, <3>3
  <2> QED BY <1>1, <2>1, <2>2, <2>3, <2>4 DEF has_index
<1>8. \A k \in Positions : k >= m => ~ has_index(k)'
  <2>1. Len(elements') <= m
    BY <1>1, <1>4
  <2> QED BY <1>1, <1>4, <2>1 DEF has_index, Positions
<1>9. /\ named' \in [Positions -> {NoProperty} \cup IndexProperty]
      /\ \A k \in Positions : named'[k] = IF k < m THEN named[k] ELSE NoProperty
  BY <1>1, <1>3 DEF Positions
<1>10. StorageTypes'
  <2>1. array_length' \in 0 .. MaxLength /\ Len(elements') <= array_length'
    BY <1>1, <1>3, <1>4
  <2> QED BY <1>4, <1>6, <1>9, <2>1 DEF StorageInv, StorageTypes
<1>11. FlagsOK'
  BY DEF StorageInv, FlagsOK
<1>12. TableOK'
  <2> SUFFICES ASSUME NEW k \in Positions, named'[k] # NoProperty PROVE EntryOK(k)'
    BY DEF TableOK
  <2>1. k < m /\ named'[k] = named[k] /\ EntryOK(k)
    BY <1>9 DEF StorageInv, TableOK
  <2>2. k < array_length' /\ (k < Len(elements') \/ k >= MaxDense)
    BY <1>1, <1>3, <1>4, <2>1 DEF EntryOK, Positions
  <2> QED BY <1>7, <2>1, <2>2 DEF EntryOK
<1>13. ASSUME NEW k \in Positions
       PROVE  array_own_property_descriptor(k)'
                = IF k < m THEN array_own_property_descriptor(k) ELSE NoProperty
  <2>1. CASE k < m
    <3>1. has_index(k) => elements'[k + 1] = elements[k + 1]
      BY <1>4, <2>1 DEF has_index
    <3>2. array_own_property_descriptor(k)' = array_own_property_descriptor(k)
      BY <1>7, <1>9, <2>1, <3>1, ElsewhereSame
    <3> QED BY <2>1, <3>2
  <2>2. CASE ~ (k < m)
    <3>1. ~ has_index(k)' /\ named'[k] = NoProperty
      BY <1>1, <1>8, <1>9, <2>2 DEF Positions
    <3> QED BY <2>2, <3>1 DEF array_own_property_descriptor
  <2> QED BY <2>1, <2>2
<1> QED BY <1>3, <1>10, <1>11, <1>12, <1>13 DEF StorageInv

LEMMA SameLargest == \A S : Promised!Max(S) = Max(S)
BY Zenon DEF Promised!Max, Max

LEMMA SizeImplements ==
  ASSUME StorageInv, NEW n \in 0 .. MaxLength, NEW lock \in BOOLEAN, NEW m,
         m = Max({n} \cup {k + 1 : k \in KeptFrom(n)}), length_writable, array_length' = m,
         length_writable' = (~ lock), extensible' = extensible,
         \A k \in Positions :
           array_own_property_descriptor(k)'
             = IF k < m THEN array_own_property_descriptor(k) ELSE NoProperty
  PROVE  Promised!SetSize(n, lock)
<1> DEFINE own == [k \in Positions |-> array_own_property_descriptor(k)]
           stays == {k \in Positions : k >= n /\ own[k] # NoProperty /\ ~ own[k].configurable}
<1>1. \A k \in Positions : own[k] = array_own_property_descriptor(k)
  OBVIOUS
<1>2. stays = KeptFrom(n)
  BY KeptIs DEF KeptFrom
<1>3. m = Promised!Max({n} \cup {k + 1 : k \in stays})
  BY <1>2, SameLargest, Zenon
<1>4. own' = [k \in Positions |-> IF k < m THEN own[k] ELSE NoProperty]
  BY <1>1
<1> QED BY <1>3, <1>4, Zenon DEF Promised!SetSize, Promised!ArrayIndices, Positions

\* define_array_length_property: what it may not delete stays, and decides the length.
LEMMA LengthImplements ==
  ASSUME StorageInv, Careful, NEW n \in 0 .. MaxLength, NEW lock \in BOOLEAN,
         define_array_length_property(n, lock)
  PROVE  StorageInv' /\ Promised!SetSize(n, lock)
<1> DEFINE dense == {i \in Positions : n <= i /\ i < Len(elements)}
           sparse == {i \in Positions : n <= i /\ i >= Len(elements) /\ named[i] # NoProperty}
           after(s) == {i \in s : \A k \in s : Kept(k) => k < i}
           blocked(s) == {i + 1 : i \in {k \in s : Kept(k)}}
           gone == IF blocked(dense) = {} THEN dense \cup after(sparse) ELSE after(dense)
           stop == IF blocked(dense) = {} THEN blocked(sparse) ELSE blocked(dense)
           left == [i \in Positions |-> IF i \in gone THEN NoProperty ELSE named[i]]
           kept == {n} \cup {k + 1 : k \in KeptFrom(n)}
<1>1. /\ Len(elements) \in Nat /\ MaxDense \in Nat /\ MaxLength \in Nat /\ n \in Nat
      /\ array_length \in 0 .. MaxLength /\ Len(elements) <= array_length
      /\ holes \in SUBSET (0 .. Len(elements) - 1)
      /\ named \in [Positions -> {NoProperty} \cup IndexProperty]
  BY ArrayAssumption DEF StorageInv, StorageTypes
<1>2. /\ length_writable /\ Materialised(n) /\ (KeptPast(n) => n >= Len(elements))
      /\ length_writable' = (~ lock) /\ UNCHANGED <<extensible, sealed, frozen>>
  BY Zenon DEF define_array_length_property
<1>3. ~ frozen
  BY <1>2 DEF StorageInv, FlagsOK
<1>4. \A k \in KeptFrom(n) : /\ k \in Positions /\ n <= k /\ Kept(k) /\ k < array_length
                             /\ k < Len(elements) \/ (named[k] # NoProperty /\ k >= MaxDense)
  <2> SUFFICES ASSUME NEW k \in KeptFrom(n)
               PROVE  k < array_length /\ (k < Len(elements) \/ (named[k] # NoProperty /\ k >= MaxDense))
    BY DEF KeptFrom, Positions
  <2>1. k \in Positions /\ Kept(k)
    BY DEF KeptFrom
  <2>2. k < array_length
    BY <2>1, KeptIs, OwnProperty
  <2>3. k >= Len(elements) => named[k] # NoProperty /\ k >= MaxDense
    <3> SUFFICES ASSUME k >= Len(elements) PROVE named[k] # NoProperty /\ k >= MaxDense
      OBVIOUS
    <3>1. ~ has_index(k)
      BY <1>1, <2>1 DEF has_index, Positions
    <3>2. named[k] # NoProperty
      BY <2>1, <3>1 DEF Kept
    <3>3. EntryOK(k)
      BY <2>1, <3>2 DEF StorageInv, TableOK
    <3> QED BY <1>1, <2>1, <3>2, <3>3 DEF EntryOK, Positions
  <2> QED BY <1>1, <2>1, <2>2, <2>3 DEF Positions
<1>5. PICK m : m = Max(kept)
  OBVIOUS
<1>6. m \in 0 .. MaxLength /\ m >= n /\ m \in kept /\ \A k \in KeptFrom(n) : k < m
  <2>1. kept \in SUBSET (0 .. MaxLength) /\ kept # {}
    BY <1>1, <1>4 DEF Positions
  <2>2. m \in kept /\ \A k \in kept : k <= m
    BY <1>1, <1>5, <2>1, LargestOf
  <2>3. \A k \in KeptFrom(n) : k + 1 <= m /\ k \in Nat
    BY <1>4, <2>2 DEF Positions
  <2> QED BY <1>1, <2>1, <2>2, <2>3
<1>7. CASE n < array_length
  <2>1. set_len(Max({n} \cup stop), holes \cup (gone \cap dense), left)
    BY <1>7, Zenon DEF define_array_length_property
  <2>2. kept = {n} \cup stop /\ \A i \in gone : i \in Positions /\ i >= m
    <3>1. CASE blocked(dense) = {}
      <4>1. \A k \in KeptFrom(n) : k \notin dense
        BY <1>4, <3>1
      <4>2. KeptFrom(n) = {k \in sparse : Kept(k)}
        BY <1>1, <1>4, <4>1 DEF KeptFrom, Positions
      <4>3. kept = {n} \cup stop
        BY <3>1, <4>2
      <4>4. ASSUME NEW i \in dense
            PROVE  i >= m
        <5>1. \A k : k \notin KeptFrom(n)
          <6> SUFFICES ASSUME NEW k \in KeptFrom(n) PROVE FALSE
            OBVIOUS
          <6>1. k \in Positions /\ n <= k /\ k >= Len(elements) /\ Kept(k)
            BY <1>1, <1>4, <4>1 DEF Positions
          <6>2. KeptPast(n)
            BY <1>1, <6>1 DEF KeptPast, Positions
          <6> QED BY <1>1, <1>2, <6>2 DEF Positions
        <5>2. m = n
          BY <1>6, <5>1
        <5> QED BY <1>1, <5>2 DEF Positions
      <4>5. ASSUME NEW i \in after(sparse)
            PROVE  i >= m
        <5>1. i \in Positions /\ n <= i /\ \A k \in KeptFrom(n) : k < i
          BY <4>2
        <5> QED BY <1>1, <1>4, <1>6, <5>1 DEF Positions
      <4> QED BY <3>1, <4>3, <4>4, <4>5
    <3>2. CASE blocked(dense) # {}
      <4>1. \A k \in KeptFrom(n) : k \in dense
        <5> SUFFICES ASSUME NEW k \in KeptFrom(n), k \notin dense PROVE FALSE
          OBVIOUS
        <5>1. k \in Positions /\ n <= k /\ k >= Len(elements) /\ Kept(k)
          BY <1>1, <1>4 DEF Positions
        <5>2. KeptPast(n)
          BY <1>1, <5>1 DEF KeptPast, Positions
        <5>3. dense = {}
          BY <1>1, <1>2, <5>2 DEF Positions
        <5> QED BY <3>2, <5>3
      <4>2. KeptFrom(n) = {k \in dense : Kept(k)}
        BY <1>1, <1>4, <4>1 DEF KeptFrom, Positions
      <4>3. kept = {n} \cup stop
        BY <3>2, <4>2
      <4>4. ASSUME NEW i \in after(dense)
            PROVE  i >= m
        <5>1. i \in Positions /\ n <= i /\ \A k \in KeptFrom(n) : k < i
          BY <4>2
        <5> QED BY <1>1, <1>4, <1>6, <5>1 DEF Positions
      <4> QED BY <3>2, <4>3, <4>4
    <3> QED BY <3>1, <3>2
  <2>3. PICK h, t : h = holes \cup (gone \cap dense) /\ t = left
    OBVIOUS
  <2>4. set_len(m, h, t)
    BY <1>5, <2>1, <2>2, <2>3, Zenon
  <2>5. h \in SUBSET (0 .. Len(elements) - 1)
    <3>1. \A k \in dense : k \in 0 .. Len(elements) - 1
      BY <1>1 DEF Positions
    <3> QED BY <1>1, <2>3, <3>1
  <2>6. /\ t \in [Positions -> {NoProperty} \cup IndexProperty]
        /\ \A k \in Positions : t[k] = IF k \in gone THEN NoProperty ELSE named[k]
    <3> HIDE DEF gone
    <3> QED BY <1>1, <2>3
  <2>7. \A k \in Positions : k < m => t[k] = named[k] /\ (k \in h <=> k \in holes)
    <3>1. \A k \in Positions : k < m => k \notin gone
      BY <1>1, <1>6, <2>2 DEF Positions
    <3> HIDE DEF gone
    <3> QED BY <2>3, <2>6, <3>1
  <2>8. ASSUME NEW k \in Positions, k >= m
        PROVE  /\ t[k] = NoProperty \/ t[k].configurable
               /\ m >= array_length => t[k] = NoProperty
    <3>1. k >= n /\ k \notin KeptFrom(n)
      BY <1>1, <1>6, <2>8 DEF Positions
    <3>2. named[k] = NoProperty \/ named[k].configurable
      BY <2>8, <3>1 DEF KeptFrom, Kept
    <3>3. named[k] # NoProperty => k < array_length
      BY DEF StorageInv, TableOK, EntryOK
    <3>4. m >= array_length => named[k] = NoProperty
      BY <1>1, <1>6, <2>8, <3>3 DEF Positions
    <3> HIDE DEF gone
    <3> QED BY <2>6, <3>2, <3>4
  <2>9. m <= Len(elements) \/ m > MaxDense \/ Len(elements) = array_length
    <3>1. CASE m = n
      <4>1. StorageTypes
        BY DEF StorageInv
      <4> QED BY <1>1, <1>2, <3>1, <4>1, ElementOrLimit
    <3>2. CASE m # n
      <4>1. PICK k \in KeptFrom(n) : m = k + 1
        BY <1>6, <3>2
      <4> QED BY <1>1, <1>4, <4>1 DEF Positions
    <3> QED BY <3>1, <3>2
  <2>10. length_writable' \in BOOLEAN
    BY <1>2
  <2>11. /\ StorageInv' /\ array_length' = m
         /\ \A k \in Positions :
              array_own_property_descriptor(k)'
                = IF k < m THEN array_own_property_descriptor(k) ELSE NoProperty
    <3>1. \A k \in Positions : k >= m => t[k] = NoProperty \/ t[k].configurable
      BY <2>8
    <3>2. m >= array_length => \A k \in Positions : k >= m => t[k] = NoProperty
      BY <2>8
    <3>3. t \in [Positions -> {NoProperty} \cup IndexProperty] /\ m \in 0 .. MaxLength
      BY <1>6, <2>6
    <3> HIDE DEF dense, sparse, gone, stop, left, kept
    <3> QED BY <1>2, <1>3, <2>4, <2>5, <2>7, <2>9, <2>10, <3>1, <3>2, <3>3, LengthSet
  <2> QED BY <1>2, <1>5, <2>11, SizeImplements
<1>8. CASE ~ (n < array_length)
  <2>1. set_len(n, holes, named)
    BY <1>8, Zenon DEF define_array_length_property
  <2>2. m = n
    <3>1. \A k : k \notin KeptFrom(n)
      BY <1>1, <1>4, <1>8 DEF Positions
    <3> QED BY <1>6, <3>1
  <2>3. \A k \in Positions : k >= n => named[k] = NoProperty
    BY <1>1, <1>8 DEF StorageInv, TableOK, EntryOK, Positions
  <2>4. n <= Len(elements) \/ n > MaxDense \/ Len(elements) = array_length
    <3>1. StorageTypes
      BY DEF StorageInv
    <3> QED BY <1>1, <1>2, <3>1, ElementOrLimit
  <2>5. length_writable' \in BOOLEAN
    BY <1>2
  <2>6. /\ StorageInv' /\ array_length' = n
        /\ \A k \in Positions :
             array_own_property_descriptor(k)'
               = IF k < n THEN array_own_property_descriptor(k) ELSE NoProperty
    BY <1>1, <1>2, <1>3, <2>1, <2>3, <2>4, <2>5, LengthSet
  <2> QED BY <1>2, <1>5, <2>2, <2>6, SizeImplements
<1> QED BY <1>7, <1>8

-----------------------------------------------------------------------------
(* Natives and loops that work on the vector.                              *)

LEMMA ListForm ==
  ASSUME NEW s \in Promised!Lists
  PROVE  s \in Seq(ArrayValues) /\ s \in Seq(Contained) /\ Len(s) \in 0 .. MaxLength
<1>1. PICK n \in 0 .. MaxLength : s \in [1 .. n -> ArrayValues]
  BY DEF Promised!Lists
<1>2. n \in Nat
  BY <1>1, ArrayAssumption
<1>3. s \in Seq(ArrayValues) /\ Len(s) = n
  BY <1>1, <1>2
<1>4. s \in Seq(Contained)
  BY <1>3 DEF Contained
<1> QED BY <1>1, <1>3, <1>4

\* Without holes and entries of the table the vector has every property.
LEMMA PlainColdOwn ==
  ASSUME StorageInv, plain_cold, NEW k \in Positions
  PROVE  /\ has_index(k) <=> k < Len(elements)
         /\ array_own_property_descriptor(k)
              = IF k < Len(elements)
                  THEN [value |-> elements[k + 1], writable |-> ~ frozen, configurable |-> ~ sealed]
                  ELSE NoProperty
<1>1. holes = {} /\ named[k] = NoProperty
  BY DEF plain_cold, properties_are_empty, NoneNamed
<1>2. has_index(k) <=> k < Len(elements)
  BY <1>1 DEF has_index
<1> QED BY <1>1, <1>2, Zenon DEF array_own_property_descriptor

\* Another vector in its place leaves it so.
LEMMA PlainColdStep ==
  ASSUME StorageInv, plain_cold, UNCHANGED <<holes, named, flags>>,
         elements' \in Seq(Contained), array_length' \in 0 .. MaxLength,
         Len(elements') <= array_length'
  PROVE  StorageInv' /\ plain_cold'
<1>1. /\ extensible' = extensible /\ sealed' = sealed /\ frozen' = frozen
      /\ length_writable' = length_writable /\ named' = named /\ holes' = holes
  BY DEF flags
<1>2. holes' = {} /\ \A k \in Positions : named'[k] = NoProperty
  BY <1>1 DEF plain_cold, properties_are_empty, NoneNamed
<1>3. StorageTypes'
  BY <1>1, <1>2 DEF StorageInv, StorageTypes
<1>4. FlagsOK'
  BY <1>1 DEF StorageInv, FlagsOK
<1>5. TableOK'
  BY <1>2 DEF TableOK
<1>6. plain_cold'
  BY <1>1 DEF plain_cold, properties_are_empty, NoneNamed
<1> QED BY <1>3, <1>4, <1>5, <1>6 DEF StorageInv

LEMMA PlainElement ==
  ASSUME StorageInv, plain_cold, ~ sealed, ~ frozen, NEW k \in Positions
  PROVE  array_own_property_descriptor(k)
           = IF k < Len(elements) THEN Promised!Plain(elements[k + 1]) ELSE NoProperty
<1>1. (~ frozen) = TRUE /\ (~ sealed) = TRUE
  OBVIOUS
<1>2. [value |-> elements[k + 1], writable |-> ~ frozen, configurable |-> ~ sealed]
        = Promised!Plain(elements[k + 1])
  BY <1>1, Zenon DEF Promised!Plain
<1> QED BY <1>2, PlainColdOwn, Zenon

LEMMA SplicedLength ==
  ASSUME NEW start \in Nat, NEW count \in Nat, NEW m \in Nat, NEW n \in Nat, NEW b \in Nat,
         start + count <= n, n + (IF m <= count THEN 0 ELSE m - count) <= b
  PROVE  start + m + (n - (start + count)) \in 0 .. b
OBVIOUS

\* push, pop, shift, unshift and splice.
LEMMA SpliceImplements ==
  ASSUME StorageInv, NEW s \in Promised!Lists, NEW start \in 0 .. array_length,
         NEW count \in 0 .. array_length, with_plain_dense_mutation(start, count, s)
  PROVE  /\ StorageInv'
         /\ \E c \in 0 .. array_length - start : Promised!Splice(start, c, s)
<1> DEFINE own == [k \in Positions |-> array_own_property_descriptor(k)]
<1>1. /\ plain_cold /\ Len(elements) = array_length
      /\ extensible /\ length_writable /\ ~ sealed /\ ~ frozen
      /\ start + count <= array_length
      /\ Len(elements) + Max({0, Len(s) - count}) <= MaxDense
      /\ elements' = SubSeq(elements, 1, start) \o s
                       \o SubSeq(elements, start + count + 1, Len(elements))
      /\ array_length' = Len(elements')
      /\ UNCHANGED <<holes, named, flags>>
  BY Zenon DEF with_plain_dense_mutation, PlainDense
<1>2. /\ MaxDense \in 0 .. MaxLength /\ MaxLength \in Nat /\ array_length \in 0 .. MaxLength
      /\ elements \in Seq(Contained)
  BY ArrayAssumption DEF StorageInv, StorageTypes
<1>3. s \in Seq(Contained) /\ Len(s) \in Nat
  BY ListForm
<1>4. PICK a \in Seq(Contained) : a = SubSeq(elements, 1, start) /\ Len(a) = start
  <2>1. SubSeq(elements, 1, start) \in Seq(Contained) /\ Len(SubSeq(elements, 1, start)) = start
    BY <1>1, <1>2
  <2> QED BY <2>1, Zenon
<1>5. PICK b \in Seq(Contained) : /\ b = SubSeq(elements, start + count + 1, Len(elements))
                                  /\ Len(b) = array_length - (start + count)
  <2>1. /\ SubSeq(elements, start + count + 1, Len(elements)) \in Seq(Contained)
        /\ Len(SubSeq(elements, start + count + 1, Len(elements))) = array_length - (start + count)
    BY <1>1, <1>2
  <2> QED BY <2>1, Zenon
<1>6. elements' \in Seq(Contained) /\ Len(elements') = start + Len(s) + (array_length - (start + count))
  <2>1. elements' = (a \o s) \o b
    BY <1>1, <1>4, <1>5, Zenon
  <2>2. a \o s \in Seq(Contained) /\ Len(a \o s) = Len(a) + Len(s)
    BY <1>3
  <2>3. (a \o s) \o b \in Seq(Contained) /\ Len((a \o s) \o b) = Len(a \o s) + Len(b)
    BY <2>2
  <2> QED BY <1>4, <1>5, <2>1, <2>2, <2>3
<1>7. Len(elements') \in 0 .. MaxLength
  <2>1. /\ start \in Nat /\ count \in Nat /\ array_length \in Nat /\ MaxDense \in Nat
        /\ Len(elements) = array_length
    BY <1>1, <1>2
  <2>2. array_length + (IF Len(s) <= count THEN 0 ELSE Len(s) - count) <= MaxLength
    <3>1. CASE Len(s) <= count
      BY <1>2, <3>1
    <3>2. CASE ~ (Len(s) <= count)
      <4>1. Len(s) - count \in Nat /\ 0 <= Len(s) - count
        BY <1>3, <2>1, <3>2
      <4>2. Max({0, Len(s) - count}) = Len(s) - count
        BY <4>1, LargestOfTwo
      <4>3. Len(elements) + (Len(s) - count) <= MaxDense
        BY <1>1, <4>2, Zenon
      <4> QED BY <1>2, <1>3, <2>1, <3>2, <4>3
    <3> QED BY <3>1, <3>2
  <2>3. start + Len(s) + (array_length - (start + count)) \in 0 .. MaxLength
    BY <1>1, <1>2, <1>3, <2>1, <2>2, SplicedLength
  <2> QED BY <1>6, <2>3
<1>8. StorageInv' /\ plain_cold' /\ extensible' = extensible /\ length_writable' = length_writable
      /\ ~ sealed' /\ ~ frozen'
  <2>1. array_length' \in 0 .. MaxLength /\ Len(elements') <= array_length'
    BY <1>1, <1>7
  <2>2. StorageInv' /\ plain_cold'
    BY <1>1, <1>6, <2>1, PlainColdStep
  <2> QED BY <1>1, <2>2 DEF flags
<1>9. \A k \in Positions : k < array_length => own[k] = Promised!Plain(elements[k + 1])
  BY <1>1, PlainElement
<1>10. \A x : Promised!Plain(x).value = x
  BY DEF Promised!Plain
<1>11. Promised!Packed
  <2> SUFFICES ASSUME NEW k \in 0 .. array_length - 1
               PROVE  own[k] # NoProperty /\ own[k] = Promised!Plain(own[k].value)
    BY Zenon DEF Promised!Packed
  <2>1. k \in Positions /\ k < array_length /\ elements[k + 1] \in Contained
    BY <1>1, <1>2 DEF Positions
  <2>2. PICK x \in Contained : x = elements[k + 1]
    BY <2>1
  <2>3. own[k] = Promised!Plain(x)
    BY <1>9, <2>1, <2>2
  <2>4. Promised!Plain(x) # NoProperty
    BY PlainForm
  <2> QED BY <1>10, <2>3, <2>4, Zenon
<1>12. Promised!Contents = elements
  <2>1. \A k \in 1 .. array_length : k - 1 \in Positions /\ k - 1 < array_length /\ (k - 1) + 1 = k
    BY <1>2 DEF Positions
  <2>2. \A k \in 1 .. array_length : own[k - 1].value = elements[k]
    BY <1>9, <1>10, <2>1, Zenon
  <2>3. Promised!Contents = [k \in 1 .. array_length |-> own[k - 1].value]
    BY Zenon DEF Promised!Contents
  <2>4. Promised!Contents = [k \in 1 .. array_length |-> elements[k]]
    BY <2>2, <2>3, Zenon
  <2> QED BY <1>1, <1>2, <2>4
<1>13. PICK t : t = elements'
  OBVIOUS
<1>14. \A k \in Positions :
         array_own_property_descriptor(k)' = IF k < Len(t) THEN Promised!Plain(t[k + 1]) ELSE NoProperty
  <2> SUFFICES ASSUME NEW k \in Positions
               PROVE  array_own_property_descriptor(k)'
                        = IF k < Len(elements') THEN Promised!Plain(elements'[k + 1]) ELSE NoProperty
    BY <1>13, Zenon
  <2>1. (~ frozen') = TRUE /\ (~ sealed') = TRUE
    BY <1>8
  <2>2. has_index(k)' <=> k < Len(elements')
    BY <1>8 DEF has_index, plain_cold
  <2>3. named'[k] = NoProperty
    BY <1>8 DEF plain_cold, properties_are_empty, NoneNamed
  <2> QED BY <2>1, <2>2, <2>3, Zenon DEF array_own_property_descriptor, Promised!Plain
<1>15. count \in 0 .. array_length - start
  BY <1>1, <1>2
<1>16. Promised!Splice(start, count, s)
  <2>1. t = SubSeq(Promised!Contents, 1, start) \o s
              \o SubSeq(Promised!Contents, start + count + 1, array_length)
    BY <1>1, <1>12, <1>13, Zenon
  <2>2. own' = [k \in Positions |-> IF k < Len(t) THEN Promised!Plain(t[k + 1]) ELSE NoProperty]
    BY <1>14
  <2>3. Len(t) <= MaxLength /\ array_length' = Len(t)
    <3>1. PICK n \in 0 .. MaxLength : n = Len(elements')
      BY <1>7
    <3>2. Len(t) = n /\ array_length' = n
      BY <1>1, <1>13, <3>1, Zenon
    <3> QED BY <1>2, <3>1, <3>2
  <2> QED BY <1>1, <1>8, <1>11, <2>1, <2>2, <2>3, Zenon
          DEF Promised!Splice, Promised!ArrayIndices, Positions
<1> QED BY <1>8, <1>15, <1>16

\* concat and its like.
LEMMA DefineAllImplements ==
  ASSUME StorageInv, NEW s \in Promised!Lists, define_plain_elements(s)
  PROVE  StorageInv' /\ \E start \in 0 .. array_length : Promised!DefineAll(start, s)
<1> DEFINE own == [k \in Positions |-> array_own_property_descriptor(k)]
<1>1. /\ plain_cold /\ extensible /\ length_writable /\ ~ sealed /\ ~ frozen
      /\ Len(elements) = array_length \/ (elements = <<>> /\ array_length = Len(s))
      /\ Len(elements) + Len(s) <= MaxLength
      /\ elements' = elements \o s /\ array_length' = Len(elements')
      /\ UNCHANGED <<holes, named, flags>>
  BY Zenon DEF define_plain_elements
<1>2. /\ MaxLength \in Nat /\ array_length \in 0 .. MaxLength /\ Len(elements) <= array_length
      /\ elements \in Seq(Contained) /\ Len(elements) \in Nat
  BY ArrayAssumption DEF StorageInv, StorageTypes
<1>3. s \in Seq(Contained) /\ Len(s) \in Nat
  BY ListForm
<1>4. /\ elements' \in Seq(Contained) /\ Len(elements') = Len(elements) + Len(s)
      /\ \A k \in 1 .. Len(elements) : elements'[k] = elements[k]
      /\ \A k \in Len(elements) + 1 .. Len(elements) + Len(s) : elements'[k] = s[k - Len(elements)]
  BY <1>1, <1>2, <1>3
<1>5. array_length' \in 0 .. MaxLength /\ Len(elements') <= array_length'
  BY <1>1, <1>2, <1>3, <1>4
<1>6. StorageInv' /\ plain_cold' /\ extensible' = extensible /\ length_writable' = length_writable
      /\ ~ sealed' /\ ~ frozen'
  <2>1. StorageInv' /\ plain_cold'
    BY <1>1, <1>4, <1>5, PlainColdStep
  <2> QED BY <1>1, <2>1 DEF flags
<1>7. PICK start \in 0 .. array_length : start = Len(elements)
  BY <1>2
<1>8. \A k \in Positions :
        /\ own[k] = IF k < start THEN Promised!Plain(elements[k + 1]) ELSE NoProperty
        /\ array_own_property_descriptor(k)'
             = IF k < start + Len(s) THEN Promised!Plain(elements'[k + 1]) ELSE NoProperty
  <2> SUFFICES ASSUME NEW k \in Positions
               PROVE  /\ own[k] = IF k < start THEN Promised!Plain(elements[k + 1]) ELSE NoProperty
                      /\ array_own_property_descriptor(k)'
                           = IF k < Len(elements') THEN Promised!Plain(elements'[k + 1]) ELSE NoProperty
    BY <1>4, <1>7
  <2>1. (~ frozen') = TRUE /\ (~ sealed') = TRUE
    BY <1>6
  <2>2. has_index(k)' <=> k < Len(elements')
    BY <1>6 DEF has_index, plain_cold
  <2>3. named'[k] = NoProperty
    BY <1>6 DEF plain_cold, properties_are_empty, NoneNamed
  <2>4. array_own_property_descriptor(k)'
          = IF k < Len(elements') THEN Promised!Plain(elements'[k + 1]) ELSE NoProperty
    BY <2>1, <2>2, <2>3, Zenon DEF array_own_property_descriptor, Promised!Plain
  <2> QED BY <1>1, <1>7, <2>4, PlainElement
<1>9. own' = [k \in Positions |->
                IF k \in start .. start + Len(s) - 1 THEN Promised!Plain(s[k - start + 1]) ELSE own[k]]
  <2>1. ASSUME NEW k \in Positions
        PROVE  array_own_property_descriptor(k)'
                 = IF k \in start .. start + Len(s) - 1 THEN Promised!Plain(s[k - start + 1]) ELSE own[k]
    <3>1. k \in Nat /\ start \in Nat
      BY <1>2, <1>7 DEF Positions
    <3>2. CASE k < start
      <4>1. elements'[k + 1] = elements[k + 1]
        BY <1>4, <1>7, <3>1, <3>2
      <4> QED BY <1>3, <1>8, <3>1, <3>2, <4>1
    <3>3. CASE k \in start .. start + Len(s) - 1
      <4>1. elements'[k + 1] = s[k - start + 1]
        <5>1. k + 1 \in Len(elements) + 1 .. Len(elements) + Len(s)
          BY <1>2, <1>3, <1>7, <3>1, <3>3
        <5>2. (k + 1) - Len(elements) = k - start + 1
          BY <1>2, <1>7, <3>1
        <5> QED BY <1>4, <5>1, <5>2
      <4> QED BY <1>3, <1>8, <3>1, <3>3, <4>1
    <3>4. CASE ~ (k < start) /\ k \notin start .. start + Len(s) - 1
      BY <1>3, <1>8, <3>1, <3>4
    <3> QED BY <3>2, <3>3, <3>4
  <2> QED BY <2>1
<1>10. array_length' = Promised!Max({array_length, start + Len(s)})
  <2>1. array_length \in Nat /\ start + Len(s) \in Nat
    BY <1>2, <1>3, <1>7
  <2>2. Max({array_length, start + Len(s)})
          = IF array_length <= start + Len(s) THEN start + Len(s) ELSE array_length
    BY <2>1, LargestOfTwo
  <2>3. array_length <= start + Len(s)
    <3>1. CASE Len(elements) = array_length
      BY <1>2, <1>3, <1>7, <3>1
    <3>2. CASE elements = <<>> /\ array_length = Len(s)
      BY <1>2, <1>3, <1>7, <3>2
    <3> QED BY <1>1, <3>1, <3>2
  <2>4. array_length' = start + Len(s)
    BY <1>1, <1>4, <1>7
  <2> QED BY <2>2, <2>3, <2>4, SameLargest, Zenon
<1>11. \A k \in start .. start + Len(s) - 1 : k \in Positions /\ own[k] = NoProperty
  <2> SUFFICES ASSUME NEW k \in start .. start + Len(s) - 1
               PROVE  k \in Positions /\ own[k] = NoProperty
    OBVIOUS
  <2>1. k \in Positions /\ ~ (k < start)
    BY <1>1, <1>2, <1>3, <1>7 DEF Positions
  <2> QED BY <1>8, <2>1
<1>12. start + Len(s) <= MaxLength
  BY <1>1, <1>7
<1>13. Promised!DefineAll(start, s)
  BY <1>1, <1>6, <1>9, <1>10, <1>11, <1>12, Zenon
     DEF Promised!DefineAll, Promised!ArrayIndices, Positions
<1> QED BY <1>6, <1>13

\* sort.
LEMMA SetEachImplements ==
  ASSUME StorageInv, NEW s \in Promised!Lists, replace_dense_elements(s)
  PROVE  StorageInv' /\ Promised!SetEach(s)
<1> DEFINE own == [k \in Positions |-> array_own_property_descriptor(k)]
<1>1. /\ plain_cold /\ Len(elements) = array_length /\ ~ frozen /\ Len(s) = Len(elements)
      /\ elements' = s /\ array_length' = array_length /\ UNCHANGED <<holes, named, flags>>
  BY Zenon DEF replace_dense_elements, PlainDense
<1>2. array_length \in 0 .. MaxLength /\ MaxLength \in Nat
  BY ArrayAssumption DEF StorageInv, StorageTypes
<1>3. s \in Seq(Contained)
  BY ListForm
<1>4. StorageInv' /\ plain_cold' /\ extensible' = extensible /\ length_writable' = length_writable
      /\ sealed' = sealed /\ frozen' = frozen
  <2>1. array_length' \in 0 .. MaxLength /\ Len(elements') <= array_length'
    BY <1>1, <1>2
  <2>2. StorageInv' /\ plain_cold'
    BY <1>1, <1>3, <2>1, PlainColdStep
  <2> QED BY <1>1, <2>2 DEF flags
<1>5. ASSUME NEW k \in Positions
      PROVE  /\ k < array_length => own[k] # NoProperty /\ own[k].writable
             /\ array_own_property_descriptor(k)'
                  = IF k < array_length THEN [own[k] EXCEPT !.value = s[k + 1]] ELSE own[k]
  <2>1. has_index(k) <=> k < array_length
    BY <1>1, PlainColdOwn
  <2>2. has_index(k)' <=> k < array_length
    BY <1>1, <1>4 DEF has_index, plain_cold
  <2>3. CASE k < array_length
    <3>1. PICK r \in IndexProperty :
            /\ r = own[k] /\ r # NoProperty
            /\ r = [value |-> elements[k + 1], writable |-> ~ frozen, configurable |-> ~ sealed]
      BY <2>1, <2>3, ElementProperty
    <3>2. r.writable = (~ frozen) /\ r.configurable = (~ sealed)
      BY <3>1
    <3>3. [r EXCEPT !.value = s[k + 1]]
            = [value |-> s[k + 1], writable |-> r.writable, configurable |-> r.configurable]
      BY Revalued
    <3>4. array_own_property_descriptor(k)'
            = [value |-> elements'[k + 1], writable |-> ~ frozen', configurable |-> ~ sealed']
      BY <2>2, <2>3, Zenon DEF array_own_property_descriptor
    <3>5. array_own_property_descriptor(k)' = [r EXCEPT !.value = s[k + 1]]
      BY <1>1, <1>4, <3>2, <3>3, <3>4, Zenon
    <3> QED BY <1>1, <2>3, <3>1, <3>2, <3>5, Zenon
  <2>4. CASE ~ (k < array_length)
    <3>1. named' = named
      BY <1>1
    <3> QED BY <2>1, <2>2, <2>4, <3>1 DEF array_own_property_descriptor
  <2> QED BY <2>3, <2>4
<1>6. own' = [k \in Positions |->
                IF k < array_length THEN [own[k] EXCEPT !.value = s[k + 1]] ELSE own[k]]
  BY <1>5
<1>7. \A k \in 0 .. array_length - 1 : own[k] # NoProperty /\ own[k].writable
  <2>1. \A k \in 0 .. array_length - 1 : k \in Positions /\ k < array_length
    BY <1>2 DEF Positions
  <2> QED BY <1>5, <2>1
<1>8. Promised!SetEach(s)
  BY <1>1, <1>4, <1>6, <1>7, Zenon DEF Promised!SetEach, Promised!ArrayIndices, Positions
<1> QED BY <1>4, <1>8

\* One iteration of a loop that fills new Array(n).
LEMMA AppendImplements ==
  ASSUME StorageInv, NEW v \in ArrayValues, hole_tail_append(v)
  PROVE  StorageInv' /\ \E i \in Positions : Promised!Set(i, v)
<1> DEFINE own == [k \in Positions |-> array_own_property_descriptor(k)]
<1>1. /\ plain_cold /\ extensible /\ ~ frozen /\ Len(elements) < array_length
      /\ elements' = Append(elements, v) /\ array_length' = array_length
      /\ UNCHANGED <<holes, named, flags>>
  BY DEF hole_tail_append
<1>2. /\ MaxLength \in Nat /\ array_length \in 0 .. MaxLength
      /\ elements \in Seq(Contained) /\ Len(elements) \in Nat /\ v \in Contained
  BY ArrayAssumption DEF StorageInv, StorageTypes, Contained
<1>3. ~ sealed
  BY <1>1 DEF StorageInv, FlagsOK
<1>4. /\ elements' \in Seq(Contained) /\ Len(elements') = Len(elements) + 1
      /\ elements'[Len(elements) + 1] = v
      /\ \A k \in 1 .. Len(elements) : elements'[k] = elements[k]
  BY <1>1, <1>2
<1>5. StorageInv' /\ plain_cold' /\ extensible' = extensible /\ length_writable' = length_writable
      /\ sealed' = sealed /\ frozen' = frozen /\ named' = named
  <2>1. array_length' \in 0 .. MaxLength /\ Len(elements') <= array_length'
    BY <1>1, <1>2, <1>4
  <2>2. StorageInv' /\ plain_cold'
    BY <1>1, <1>4, <2>1, PlainColdStep
  <2> QED BY <1>1, <2>2 DEF flags
<1>6. PICK i \in Positions : i = Len(elements)
  BY <1>1, <1>2 DEF Positions
<1>7. Becomes(i, Promised!Plain(v))
  <2>1. ASSUME NEW k \in Positions
        PROVE  array_own_property_descriptor(k)'
                 = IF k = i THEN Promised!Plain(v) ELSE array_own_property_descriptor(k)
    <3>1. (has_index(k) <=> k < i) /\ (has_index(k)' <=> k < i + 1)
      BY <1>1, <1>4, <1>5, <1>6, PlainColdOwn DEF has_index, plain_cold
    <3>2. CASE k = i
      <4>1. has_index(k)' /\ elements'[k + 1] = v
        BY <1>2, <1>4, <1>6, <3>1, <3>2
      <4>2. (~ frozen') = TRUE /\ (~ sealed') = TRUE
        BY <1>1, <1>3, <1>5
      <4> QED BY <3>2, <4>1, <4>2, Zenon DEF array_own_property_descriptor, Promised!Plain
    <3>3. CASE k # i
      <4>1. has_index(k)' <=> has_index(k)
        BY <1>2, <1>6, <3>1, <3>3 DEF Positions
      <4>2. has_index(k) => elements'[k + 1] = elements[k + 1]
        BY <1>2, <1>4, <1>6, <3>1 DEF Positions
      <4>3. array_own_property_descriptor(k)' = array_own_property_descriptor(k)
        BY <1>5, <4>1, <4>2, ElsewhereSame
      <4> QED BY <3>3, <4>3
    <3> QED BY <3>2, <3>3
  <2> QED BY <2>1 DEF Becomes
<1>8. array_own_property_descriptor(i) = NoProperty
  BY <1>1, <1>2, <1>6, PlainColdOwn
<1>9. i < array_length
  BY <1>1, <1>6
<1>10. Promised!Put(i, Promised!Plain(v))
  BY <1>1, <1>5, <1>7, <1>9, PutImplements
<1>11. Promised!Set(i, v)
  BY <1>8, <1>10, SetImplements
<1> QED BY <1>5, <1>11

-----------------------------------------------------------------------------
(* Every array, and every step.                                            *)

LEMMA StoreImplements ==
  ASSUME StorageInv, Careful, NEW i \in Positions, NEW v \in ArrayValues,
         Overwrite(i, v) \/ StoreDense(i, v) \/ StoreGeneric(i, v)
  PROVE  StorageInv' /\ (Promised!Set(i, v) \/ UNCHANGED arrayVars)
<1>1. PICK r : r = array_own_property_descriptor(i)
  OBVIOUS
<1>2. i \in Nat /\ array_length \in Nat /\ Len(elements) \in Nat /\ Len(elements) <= array_length
  BY DEF StorageInv, StorageTypes, Positions
<1>3. ASSUME ~ frozen, Overwritable(i), r = NoProperty => extensible, r # NoProperty => r.writable,
             i < array_length \/ (extensible /\ length_writable), set(i, v)
      PROVE  StorageInv' /\ Promised!Set(i, v)
  <2>1. StorageInv' /\ Promised!Put(i, Assigned(r, v))
    BY <1>1, <1>3, SetWrites
  <2>2. PICK p : p = Assigned(r, v)
    OBVIOUS
  <2>3. IF r = NoProperty THEN p = Promised!Plain(v)
        ELSE /\ r.writable
             /\ p = [value |-> v, writable |-> r.writable, configurable |-> r.configurable]
    BY <1>3, <2>2, Zenon DEF Assigned
  <2>4. Promised!Put(i, p)
    BY <2>1, <2>2, Zenon
  <2> QED BY <1>1, <2>1, <2>3, <2>4, SetImplements
<1>4. CASE Overwrite(i, v)
  <2>1. /\ ~ frozen /\ i < array_length /\ has_index(i) /\ named[i] = NoProperty
        /\ elements' = [elements EXCEPT ![i + 1] = v]
        /\ UNCHANGED <<array_length, holes, named, flags>>
    BY <1>4 DEF Overwrite, try_overwrite_dense_index
  <2>2. Overwritable(i)
    BY <2>1 DEF Overwritable
  <2>3. i < Len(elements) /\ i \notin holes /\ holes \in SUBSET (0 .. Len(elements) - 1)
    BY <2>1 DEF has_index, StorageInv, StorageTypes
  <2>4. Padded(i + 1) = elements
    <3>1. StorageTypes /\ i + 1 \in Nat /\ i + 1 <= Len(elements)
      BY <1>2, <2>3 DEF StorageInv
    <3> QED BY <3>1, PaddedFacts
  <2>5. elements' = [Padded(i + 1) EXCEPT ![i + 1] = v]
    BY <2>1, <2>4, Zenon
  <2>6. holes' = (holes \cup Len(elements) .. i - 1) \ {i}
    <3>1. Len(elements) .. i - 1 = {}
      BY <1>2, <2>3
    <3> QED BY <2>1, <2>3, <3>1
  <2>7. r # NoProperty /\ r.writable = (~ frozen)
    BY <1>1, <2>1, ElementProperty
  <2>8. array_length' = (IF i < array_length THEN array_length ELSE i + 1) /\ UNCHANGED <<named, flags>>
    BY <2>1
  <2>9. StorageInv' /\ Becomes(i, Assigned(r, v))
    BY <1>1, <2>1, <2>2, <2>3, <2>5, <2>6, <2>7, <2>8, ElementWrite
  <2>10. Promised!Put(i, Assigned(r, v))
    BY <1>1, <2>7, <2>8, <2>9, PutImplements DEF flags
  <2>11. PICK p : p = Assigned(r, v)
    OBVIOUS
  <2>12. r.writable /\ p = [value |-> v, writable |-> r.writable, configurable |-> r.configurable]
    BY <2>1, <2>7, <2>11, Zenon DEF Assigned
  <2>13. Promised!Put(i, p)
    BY <2>10, <2>11, Zenon
  <2> QED BY <1>1, <2>7, <2>9, <2>12, <2>13, SetImplements
<1>5. CASE StoreDense(i, v)
  <2>1. /\ ~ frozen /\ (i < array_length \/ length_writable) /\ (extensible \/ has_index(i))
        /\ named[i] = NoProperty /\ set(i, v)
    BY <1>5 DEF StoreDense, dense_index_store_eligible
  <2>2. Overwritable(i)
    BY <2>1 DEF Overwritable
  <2>3. CASE has_index(i)
    <3>1. r # NoProperty /\ r.writable = (~ frozen) /\ i < array_length
      BY <1>1, <2>3, ElementProperty
    <3> QED BY <1>3, <2>1, <2>2, <3>1
  <2>4. CASE ~ has_index(i)
    <3>1. r = NoProperty /\ extensible
      BY <1>1, <2>1, <2>4, TableProperty
    <3> QED BY <1>3, <2>1, <2>2, <3>1
  <2> QED BY <2>3, <2>4
<1>6. CASE StoreGeneric(i, v)
  <2>1. /\ IF r = NoProperty THEN extensible ELSE r.writable
        /\ Overwritable(i) /\ set(i, v)
    BY <1>1, <1>6, Zenon DEF StoreGeneric
  <2>2. ~ frozen
    <3>1. CASE r = NoProperty
      BY <2>1, <3>1 DEF StorageInv, FlagsOK
    <3>2. CASE r # NoProperty
      BY <1>1, <2>1, <3>2, ClosedAttributes
    <3> QED BY <3>1, <3>2
  <2>3. CASE i < array_length \/ (extensible /\ length_writable)
    BY <1>3, <2>1, <2>2, <2>3
  <2>4. CASE ~ (i < array_length \/ (extensible /\ length_writable))
    <3>1. i >= array_length /\ (frozen \/ ~ extensible \/ ~ length_writable)
      BY <1>2, <2>4
    <3>2. UNCHANGED arrayVars
      BY <2>1, <3>1, Zenon DEF set
    <3> QED BY <3>2, StorageIdle
  <2> QED BY <2>3, <2>4
<1> QED BY <1>4, <1>5, <1>6

LEMMA DefinitionImplements ==
  ASSUME StorageInv, Careful, NEW i \in Positions, DefineProperty(i)
  PROVE  StorageInv' /\ Promised!Define(i)
<1>1. PICK p \in Promised!Definitions(array_own_property_descriptor(i)) : define_property(i, p)
  BY Zenon DEF DefineProperty
<1>2. /\ array_own_property_descriptor(i) = NoProperty => extensible
      /\ i < array_length \/ length_writable
      /\ Definable(i)
  BY Zenon DEF DefineProperty
<1>3. StorageInv' /\ Promised!Put(i, p)
  BY <1>1, <1>2, DefineWrites
<1>4. [k \in Positions |-> array_own_property_descriptor(k)][i] = array_own_property_descriptor(i)
  BY Zenon
<1> QED BY <1>1, <1>3, <1>4, Zenon DEF Promised!Define

LEMMA CreateImplements ==
  ASSUME StorageInv, Careful, NEW i \in Positions, NEW v \in ArrayValues, CreateDataProperty(i, v)
  PROVE  StorageInv' /\ (Promised!Define(i) \/ UNCHANGED arrayVars)
<1>1. PICK r : r = array_own_property_descriptor(i)
  OBVIOUS
<1>2. /\ IF r = NoProperty THEN extensible ELSE Promised!Compatible(r, Promised!Plain(v))
      /\ Definable(i)
      /\ IF dense_data_property_eligible(i) THEN set(i, v)
         ELSE define_property(i, Promised!Plain(v))
  BY <1>1, Zenon DEF CreateDataProperty
<1>3. r # NoProperty => Promised!Compatible(r, Promised!Plain(v))
  BY <1>2
<1>4. Promised!Plain(v) \in Promised!Definitions(r)
  BY <1>3, PlainDefinition
<1>5. i \in Nat /\ array_length \in Nat
  BY DEF StorageInv, StorageTypes, Positions
<1>6. ASSUME StorageInv', Promised!Put(i, Promised!Plain(v))
      PROVE  StorageInv' /\ Promised!Define(i)
  <2>1. [k \in Positions |-> array_own_property_descriptor(k)][i] = r
    BY <1>1, Zenon
  <2> QED BY <1>4, <1>6, <2>1, Zenon DEF Promised!Define
<1>7. CASE dense_data_property_eligible(i)
  <2>1. ~ frozen /\ ~ sealed /\ extensible /\ length_writable /\ named[i] = NoProperty
    BY <1>7 DEF dense_data_property_eligible
  <2>2. Overwritable(i)
    BY <2>1 DEF Overwritable
  <2>3. StorageInv' /\ Promised!Put(i, Assigned(r, v))
    BY <1>1, <1>2, <1>7, <2>1, <2>2, SetWrites
  <2>4. Assigned(r, v) = Promised!Plain(v)
    <3>1. CASE has_index(i)
      <4>1. r.writable = (~ frozen) /\ r.configurable = (~ sealed)
        BY <1>1, <3>1, ElementProperty
      <4>2. r.writable = TRUE /\ r.configurable = TRUE
        BY <2>1, <4>1
      <4> QED BY <4>2, Zenon DEF Assigned, Promised!Plain
    <3>2. CASE ~ has_index(i)
      BY <1>1, <2>1, <3>2, TableProperty DEF Assigned
    <3> QED BY <3>1, <3>2
  <2>5. Promised!Put(i, Promised!Plain(v))
    BY <2>3, <2>4, Zenon
  <2> QED BY <1>6, <2>3, <2>5
<1>8. CASE ~ dense_data_property_eligible(i)
  <2>1. define_property(i, Promised!Plain(v))
    BY <1>2, <1>8
  <2>2. CASE i < array_length \/ length_writable
    <3>1. r = NoProperty => extensible
      BY <1>2
    <3>2. PICK p : p = Promised!Plain(v)
      OBVIOUS
    <3>3. p \in Promised!Definitions(array_own_property_descriptor(i)) /\ define_property(i, p)
      BY <1>1, <1>4, <2>1, <3>2, Zenon
    <3>4. StorageInv' /\ Promised!Put(i, p)
      BY <1>1, <1>2, <2>2, <3>1, <3>3, DefineWrites
    <3>5. Promised!Put(i, Promised!Plain(v))
      BY <3>2, <3>4, Zenon
    <3> QED BY <1>6, <3>4, <3>5
  <2>3. CASE ~ (i < array_length \/ length_writable)
    <3>1. i >= array_length /\ ~ length_writable
      BY <1>5, <2>3
    <3>2. UNCHANGED arrayVars
      BY <2>1, <3>1, Zenon DEF define_property
    <3> QED BY <3>2, StorageIdle
  <2> QED BY <2>2, <2>3
<1> QED BY <1>7, <1>8

LEMMA ArrayInitImplements == ArrayInit => StorageInv /\ Promised!PromisedInit
<1> SUFFICES ASSUME ArrayInit PROVE StorageInv /\ Promised!PromisedInit
  OBVIOUS
<1> DEFINE own == [k \in Positions |-> array_own_property_descriptor(k)]
<1>1. /\ MaxLength \in Nat /\ MaxDense \in 0 .. MaxLength
      /\ named = NoneNamed /\ extensible = TRUE /\ sealed = FALSE /\ frozen = FALSE
      /\ length_writable = TRUE
  BY ArrayAssumption DEF ArrayInit
<1>2. /\ array_length \in 0 .. MaxLength /\ elements \in Seq(Contained)
      /\ Len(elements) <= array_length /\ holes \in SUBSET (0 .. Len(elements) - 1)
  <2>1. CASE \E n \in 0 .. MaxDense :
               /\ array_length = n /\ elements \in [1 .. n -> Contained]
               /\ holes \in SUBSET (0 .. n - 1)
    <3>1. PICK n \in 0 .. MaxDense :
            /\ array_length = n /\ elements \in [1 .. n -> Contained]
            /\ holes \in SUBSET (0 .. n - 1)
      BY <2>1
    <3>2. n \in Nat /\ n <= MaxLength
      BY <1>1
    <3>3. elements \in Seq(Contained) /\ Len(elements) = n
      BY <3>1, <3>2
    <3> QED BY <1>1, <3>1, <3>2, <3>3
  <2>2. CASE array_length \in 1 .. MaxLength /\ elements = <<>> /\ holes = {}
    BY <1>1, <2>2
  <2> QED BY <2>1, <2>2 DEF ArrayInit, Contained
<1>3. \A k \in Positions : named[k] = NoProperty
  BY <1>1 DEF NoneNamed
<1>4. StorageTypes
  <2>1. named \in [Positions -> {NoProperty} \cup IndexProperty]
    BY <1>1 DEF NoneNamed
  <2> QED BY <1>1, <1>2, <2>1 DEF StorageTypes
<1>5. StorageInv
  BY <1>1, <1>3, <1>4 DEF StorageInv, FlagsOK, TableOK
<1>6. ASSUME NEW k \in Positions, own[k] # NoProperty
      PROVE  k < array_length /\ \E v \in Contained : own[k] = Promised!Plain(v)
  <2>1. has_index(k)
    BY <1>3, <1>6 DEF array_own_property_descriptor
  <2>2. k < array_length /\ elements[k + 1] \in Contained
    <3>1. k \in Nat /\ k < Len(elements) /\ Len(elements) \in Nat /\ array_length \in Nat
      BY <1>1, <1>2, <2>1 DEF has_index, Positions
    <3>2. k + 1 \in 1 .. Len(elements)
      BY <3>1
    <3> QED BY <1>2, <3>1, <3>2
  <2>3. (~ frozen) = TRUE /\ (~ sealed) = TRUE
    BY <1>1
  <2>4. own[k] = Promised!Plain(elements[k + 1])
    BY <2>1, <2>3, Zenon DEF array_own_property_descriptor, Promised!Plain
  <2> QED BY <2>2, <2>4
<1>7. own \in [Positions -> {NoProperty} \cup {Promised!Plain(v) : v \in Contained}]
  <2>1. \A k \in Positions : own[k] \in {NoProperty} \cup {Promised!Plain(v) : v \in Contained}
    BY <1>6
  <2> QED BY <2>1
<1>8. Promised!PromisedInit
  BY <1>1, <1>2, <1>6, <1>7, Zenon DEF Promised!PromisedInit, Promised!ArrayIndices, Positions, Contained
<1> QED BY <1>5, <1>8

LEMMA ArrayStepImplements ==
  StorageInv /\ Careful /\ [ArrayNext]_arrayVars
    => StorageInv' /\ [Promised!PromisedNext]_(Promised!promisedVars)
<1> SUFFICES ASSUME StorageInv, Careful, [ArrayNext]_arrayVars
             PROVE  StorageInv' /\ [Promised!PromisedNext]_(Promised!promisedVars)
  OBVIOUS
<1>1. ASSUME UNCHANGED arrayVars
      PROVE  StorageInv' /\ UNCHANGED Promised!promisedVars
  BY <1>1, StorageIdle
<1>2. Positions = Promised!ArrayIndices
  BY DEF Positions, Promised!ArrayIndices
<1>3. ASSUME NEW i \in Positions, NEW v \in ArrayValues,
             Overwrite(i, v) \/ StoreDense(i, v) \/ StoreGeneric(i, v)
      PROVE  StorageInv' /\ [Promised!PromisedNext]_(Promised!promisedVars)
  <2>1. StorageInv' /\ (Promised!Set(i, v) \/ UNCHANGED arrayVars)
    BY <1>3, StoreImplements
  <2> QED BY <1>1, <1>2, <2>1, Zenon DEF Promised!PromisedNext
<1>4. ASSUME NEW i \in Positions, NEW v \in ArrayValues, CreateDataProperty(i, v)
      PROVE  StorageInv' /\ [Promised!PromisedNext]_(Promised!promisedVars)
  <2>1. StorageInv' /\ (Promised!Define(i) \/ UNCHANGED arrayVars)
    BY <1>4, CreateImplements
  <2> QED BY <1>1, <1>2, <2>1, Zenon DEF Promised!PromisedNext
<1>5. ASSUME NEW i \in Positions, DefineProperty(i)
      PROVE  StorageInv' /\ [Promised!PromisedNext]_(Promised!promisedVars)
  <2>1. StorageInv' /\ Promised!Define(i)
    BY <1>5, DefinitionImplements
  <2> QED BY <1>2, <2>1, Zenon DEF Promised!PromisedNext
<1>6. ASSUME NEW i \in Positions, delete_index(i)
      PROVE  StorageInv' /\ [Promised!PromisedNext]_(Promised!promisedVars)
  <2>1. StorageInv' /\ (Promised!Delete(i) \/ UNCHANGED Promised!promisedVars)
    BY <1>6, DeleteRemoves
  <2> QED BY <1>2, <2>1, Zenon DEF Promised!PromisedNext
<1>7. ASSUME NEW n \in 0 .. MaxLength, NEW lock \in BOOLEAN, define_array_length_property(n, lock)
      PROVE  StorageInv' /\ [Promised!PromisedNext]_(Promised!promisedVars)
  <2>1. StorageInv' /\ Promised!SetSize(n, lock)
    BY <1>7, LengthImplements
  <2> QED BY <2>1, Zenon DEF Promised!PromisedNext
<1>8. CASE set_length_writable
  <2>1. /\ UNCHANGED <<array_length, elements, holes, named, sealed, frozen>>
        /\ extensible' = extensible /\ length_writable' = FALSE
    BY <1>8 DEF set_length_writable
  <2>2. extensible' \in BOOLEAN
    BY <2>1 DEF StorageInv, StorageTypes
  <2>3. StorageInv' /\ [k \in Positions |-> array_own_property_descriptor(k)]'
                         = [k \in Positions |-> array_own_property_descriptor(k)]
    BY <2>1, <2>2, FlagStep
  <2>4. Promised!LockSize
    BY <2>1, <2>3, Zenon DEF Promised!LockSize
  <2> QED BY <2>3, <2>4, Zenon DEF Promised!PromisedNext
<1>9. CASE prevent_extensions
  <2>1. /\ UNCHANGED <<array_length, elements, holes, named, sealed, frozen>>
        /\ extensible' = FALSE /\ length_writable' = length_writable
    BY <1>9 DEF prevent_extensions
  <2>2. length_writable' \in BOOLEAN
    BY <2>1 DEF StorageInv, StorageTypes
  <2>3. StorageInv' /\ [k \in Positions |-> array_own_property_descriptor(k)]'
                         = [k \in Positions |-> array_own_property_descriptor(k)]
    BY <2>1, <2>2, FlagStep
  <2>4. Promised!Close
    BY <2>1, <2>3, Zenon DEF Promised!Close
  <2> QED BY <2>3, <2>4, Zenon DEF Promised!PromisedNext
<1>10. CASE seal
  <2>1. StorageInv' /\ Promised!Harden(FALSE)
    BY <1>10, HardenSeals DEF seal, StorageInv, StorageTypes
  <2> QED BY <2>1, Zenon DEF Promised!PromisedNext
<1>11. CASE freeze
  <2>1. StorageInv' /\ Promised!Harden(TRUE)
    BY <1>11, HardenSeals DEF freeze, StorageInv, StorageTypes
  <2> QED BY <2>1, Zenon DEF Promised!PromisedNext
<1>12. ASSUME NEW s \in Promised!Lists, define_plain_elements(s)
       PROVE  StorageInv' /\ [Promised!PromisedNext]_(Promised!promisedVars)
  <2>1. StorageInv' /\ \E start \in 0 .. array_length : Promised!DefineAll(start, s)
    BY <1>12, DefineAllImplements
  <2> QED BY <2>1, Zenon DEF Promised!PromisedNext
<1>13. ASSUME NEW s \in Promised!Lists, replace_dense_elements(s)
       PROVE  StorageInv' /\ [Promised!PromisedNext]_(Promised!promisedVars)
  <2>1. StorageInv' /\ Promised!SetEach(s)
    BY <1>13, SetEachImplements
  <2> QED BY <2>1, Zenon DEF Promised!PromisedNext
<1>14. ASSUME NEW s \in Promised!Lists, NEW start \in 0 .. array_length,
              NEW count \in 0 .. array_length, with_plain_dense_mutation(start, count, s)
       PROVE  StorageInv' /\ [Promised!PromisedNext]_(Promised!promisedVars)
  <2>1. StorageInv' /\ \E c \in 0 .. array_length - start : Promised!Splice(start, c, s)
    BY <1>14, SpliceImplements
  <2> QED BY <2>1, Zenon DEF Promised!PromisedNext
<1>15. ASSUME NEW v \in ArrayValues, hole_tail_append(v)
       PROVE  StorageInv' /\ [Promised!PromisedNext]_(Promised!promisedVars)
  <2>1. StorageInv' /\ \E i \in Positions : Promised!Set(i, v)
    BY <1>15, AppendImplements
  <2> QED BY <1>2, <2>1, Zenon DEF Promised!PromisedNext
<1> QED BY <1>1, <1>3, <1>4, <1>5, <1>6, <1>7, <1>8, <1>9, <1>10, <1>11, <1>12, <1>13, <1>14, <1>15,
           Zenon DEF ArrayNext

\* For every bound, limit and set of values, and as long as scripts keep clear of the
\* divergences that Careful names: whatever short cut a store, definition, deletion,
\* change of the length or native of value/array.rs takes, an array behaves as one
\* property for each index and a length do.
THEOREM ArraysImplement == Careful => (ArraySpec => ImplementsArray)
<1> SUFFICES ASSUME Careful
             PROVE  ArraySpec => ImplementsArray
  OBVIOUS
<1>1. StorageInv /\ [ArrayNext]_arrayVars
        => StorageInv' /\ [Promised!PromisedNext]_(Promised!promisedVars)
  BY ArrayStepImplements
<1>2. ArrayInit => StorageInv /\ Promised!PromisedInit
  BY ArrayInitImplements
<1> QED BY <1>1, <1>2, PTL DEF ArraySpec, ImplementsArray, Promised!PromisedSpec

-----------------------------------------------------------------------------
(* Prototype chains, as the least sets closed by a step up.                *)

\* A chain holds its start, what is above its members, and their chains.
LEMMA AboveFacts ==
  ASSUME NEW up, NEW a
  PROVE  /\ Above(a, up) \subseteq Objects
         /\ a \in Objects => a \in Above(a, up)
         /\ \A x \in Above(a, up) : up[x] \in Objects => up[x] \in Above(a, up)
         /\ \A x \in Above(a, up) : Above(x, up) \subseteq Above(a, up)
  <1>1. Above(a, up) \subseteq Objects /\ (a \in Objects => a \in Above(a, up))
    BY DEF Above
  <1>2. \A x \in Above(a, up) : up[x] \in Objects => up[x] \in Above(a, up)
    BY DEF Above
  <1>3. ASSUME NEW x \in Above(a, up), NEW y \in Above(x, up) PROVE y \in Above(a, up)
    BY DEF Above
  <1> QED
    BY <1>1, <1>2, <1>3

\* It is the least such set.
LEMMA AboveLeast ==
  ASSUME NEW up, NEW a, NEW S \in SUBSET Objects, a \in Objects => a \in S,
         \A y \in S : up[y] \in Objects => up[y] \in S
  PROVE  Above(a, up) \subseteq S
  BY DEF Above

\* Its members are its start and what is above that.
LEMMA AboveStep ==
  ASSUME NEW up, NEW a \in Objects, NEW x \in Above(a, up), x # a
  PROVE  up[a] \in Objects /\ x \in Above(up[a], up)
  <1>1. PICK S : S = {a} \cup (IF up[a] \in Objects THEN Above(up[a], up) ELSE {})
    OBVIOUS
  <1>2. S \in SUBSET Objects
    BY <1>1, AboveFacts
  <1>3. ASSUME NEW y \in S, up[y] \in Objects PROVE up[y] \in S
    <2>1. CASE y = a
      BY <1>1, <1>3, <2>1, AboveFacts
    <2>2. CASE y # a
      BY <1>1, <1>3, <2>2, AboveFacts
    <2> QED
      BY <2>1, <2>2
  <1>4. Above(a, up) \subseteq S
    BY <1>1, <1>2, <1>3, AboveLeast
  <1> QED
    BY <1>1, <1>4

\* Each member but the start is above another member.
LEMMA AboveChild ==
  ASSUME NEW up, NEW a \in Objects, NEW x \in Above(a, up), x # a
  PROVE  \E c \in Above(a, up) : up[c] = x
  <1>1. SUFFICES ASSUME \A c \in Above(a, up) : up[c] # x PROVE FALSE
    OBVIOUS
  <1>2. PICK S : S = Above(a, up) \ {x}
    OBVIOUS
  <1>3. S \in SUBSET Objects /\ a \in S
    BY <1>2, AboveFacts
  <1>4. \A y \in S : up[y] \in Objects => up[y] \in S
    BY <1>1, <1>2, AboveFacts
  <1>5. Above(a, up) \subseteq S
    BY <1>3, <1>4, AboveLeast
  <1> QED
    BY <1>2, <1>5

\* Nothing is above nothing, nor above a last object.
LEMMA AboveEnds ==
  ASSUME NEW up, NEW a
  PROVE  /\ a \notin Objects => Above(a, up) = {}
         /\ a \in Objects /\ up[a] \notin Objects => Above(a, up) = {a}
  <1>1. ASSUME a \notin Objects PROVE Above(a, up) = {}
    <2>1. PICK S : S = {y \in Objects : FALSE}
      OBVIOUS
    <2>2. S \in SUBSET Objects /\ (\A y \in S : up[y] \in Objects => up[y] \in S)
      BY <2>1
    <2>3. Above(a, up) \subseteq S
      BY <1>1, <2>2, AboveLeast
    <2> QED
      BY <2>1, <2>3
  <1>2. ASSUME a \in Objects, up[a] \notin Objects PROVE Above(a, up) \subseteq {a}
    <2>1. {a} \in SUBSET Objects /\ \A y \in {a} : up[y] \in Objects => up[y] \in {a}
      BY <1>2
    <2> QED
      BY <2>1, AboveLeast
  <1> QED
    BY <1>1, <1>2, AboveFacts

\* A chain is linear: of two members one is above the other.
LEMMA AboveLinear ==
  ASSUME NEW up, NEW a \in Objects, NEW x \in Above(a, up), NEW y \in Above(a, up)
  PROVE  y \in Above(x, up) \/ x \in Above(y, up)
  <1>1. PICK S : S = {z \in Objects : z \in Above(x, up) \/ x \in Above(z, up)}
    OBVIOUS
  <1>2. S \in SUBSET Objects /\ a \in S
    BY <1>1
  <1>3. ASSUME NEW z \in S, up[z] \in Objects PROVE up[z] \in S
    <2>1. x \in Objects
      BY AboveFacts
    <2>2. CASE z \in Above(x, up)
      BY <1>1, <1>3, <2>2, AboveFacts
    <2>3. CASE x \in Above(z, up) /\ x # z
      <3>1. z \in Objects
        BY <1>1
      <3>2. x \in Above(up[z], up)
        BY <2>3, <3>1, AboveStep
      <3> QED
        BY <1>1, <1>3, <3>2
    <2>4. CASE x = z
      <3>1. z \in Above(x, up)
        BY <2>1, <2>4, AboveFacts
      <3> QED
        BY <2>2, <3>1
    <2> QED
      BY <1>1, <2>2, <2>3, <2>4
  <1>4. Above(a, up) \subseteq S
    BY <1>2, <1>3, AboveLeast
  <1> QED
    BY <1>1, <1>4

\* Two chains agree if the steps up do on one of them.
LEMMA AboveSame ==
  ASSUME NEW up, NEW new, NEW a, \A x \in Above(a, up) : new[x] = up[x]
  PROVE  Above(a, new) = Above(a, up)
  <1>1. Above(a, new) \subseteq Above(a, up)
    <2>1. \A y \in Above(a, up) : new[y] \in Objects => new[y] \in Above(a, up)
      BY AboveFacts
    <2>2. Above(a, up) \in SUBSET Objects /\ (a \in Objects => a \in Above(a, up))
      BY AboveFacts
    <2> QED
      BY <2>1, <2>2, AboveLeast
  <1>2. Above(a, up) \subseteq Above(a, new)
    <2>1. \A y \in Above(a, new) : up[y] \in Objects => up[y] \in Above(a, new)
      BY <1>1, AboveFacts
    <2>2. Above(a, new) \in SUBSET Objects /\ (a \in Objects => a \in Above(a, new))
      BY AboveFacts
    <2> QED
      BY <2>1, <2>2, AboveLeast
  <1> QED
    BY <1>1, <1>2

\* If they differ at one object only, both or neither reach it.
LEMMA AboveReach ==
  ASSUME NEW up, NEW new, NEW o \in Objects, \A x \in Objects : x # o => new[x] = up[x],
         NEW a, o \in Above(a, up)
  PROVE  o \in Above(a, new)
  <1>1. SUFFICES ASSUME o \notin Above(a, new) PROVE FALSE
    OBVIOUS
  <1>2. \A x \in Above(a, new) : up[x] = new[x]
    BY <1>1, AboveFacts
  <1>3. Above(a, up) = Above(a, new)
    BY <1>2, AboveSame
  <1> QED
    BY <1>1, <1>3

\* No cycle comes from a new prototype whose chain does not hold the object.
LEMMA StaysAcyclic ==
  ASSUME NEW up, Acyclic(up), NEW new, NEW o \in Objects, NEW p, new[o] = p,
         \A x \in Objects : x # o => new[x] = up[x], o \notin Above(p, up)
  PROVE  Acyclic(new)
  <1>1. SUFFICES ASSUME NEW x \in Objects, new[x] \in Objects, x \in Above(new[x], new) PROVE FALSE
    BY DEF Acyclic
  <1>2. Above(p, new) = Above(p, up)
    <2>1. \A y \in Above(p, up) : new[y] = up[y]
      BY AboveFacts
    <2> QED
      BY <2>1, AboveSame
  <1>3. x # o
    BY <1>1, <1>2
  <1>4. new[x] = up[x] /\ x \notin Above(up[x], up)
    BY <1>1, <1>3 DEF Acyclic
  <1>5. PICK S : S = Above(up[x], up) \cup Above(p, up)
    OBVIOUS
  <1>6. x \notin Above(p, up) \/ o \notin Above(up[x], up)
    <2>1. SUFFICES ASSUME x \in Above(p, up) PROVE o \notin Above(up[x], up)
      OBVIOUS
    <2>2. up[x] \in Above(p, up)
      BY <1>1, <1>4, <2>1, AboveFacts
    <2>3. Above(up[x], up) \subseteq Above(p, up)
      BY <2>2, AboveFacts
    <2> QED
      BY <2>3
  <1>7. CASE o \notin Above(up[x], up)
    <2>1. \A y \in Above(up[x], up) : new[y] = up[y]
      BY <1>7, AboveFacts
    <2>2. Above(up[x], new) = Above(up[x], up)
      BY <2>1, AboveSame
    <2> QED
      BY <1>1, <1>4, <2>2
  <1>8. CASE x \notin Above(p, up)
    <2>1. S \in SUBSET Objects /\ up[x] \in S /\ x \notin S
      BY <1>1, <1>4, <1>5, <1>8, AboveFacts
    <2>2. ASSUME NEW y \in S, new[y] \in Objects PROVE new[y] \in S
      <3>1. CASE y = o
        BY <1>5, <2>2, <3>1, AboveFacts
      <3>2. CASE y # o
        <4>1. new[y] = up[y] /\ up[y] \in Objects
          BY <2>1, <2>2, <3>2
        <4> QED
          BY <1>5, <4>1, AboveFacts
      <3> QED
        BY <3>1, <3>2
    <2>3. Above(up[x], new) \subseteq S
      BY <2>1, <2>2, AboveLeast
    <2> QED
      BY <1>1, <1>4, <2>1, <2>3
  <1> QED
    BY <1>6, <1>7, <1>8

-----------------------------------------------------------------------------
(* The inductive invariant                                                 *)

CacheTypes ==
  /\ proto \in [Objects -> Objects \cup Tops]
  /\ slots \in [Objects -> Slots]
  /\ mode \in SUBSET Objects
  /\ parent \in [Objects -> Objects \cup {NoObject}]
  /\ users \in [Objects -> SUBSET mode]
  /\ direct_trackable \in SUBSET mode
  /\ trackable \in SUBSET mode
  /\ valid \in SUBSET mode
  /\ value_writes \in [Objects -> Nat]
  /\ pending \in SUBSET mode
  /\ site \in SUBSET Entries
  /\ mega \in BOOLEAN

\* A state knows its parent, and its parent knows it.
StatesLinked ==
  \A x \in mode :
    /\ parent[x] = IF proto[x] \in Objects THEN proto[x] ELSE NoObject
    /\ proto[x] \in Objects => proto[x] \in mode /\ x \in users[proto[x]]
    /\ x \in direct_trackable <=> proto[x] # ProxyTop

\* What a rebase waits to install does not close a cycle.
RebaseIsSound ==
  becoming # NotRebasing =>
    \E o \in mode, p \in Objects \cup Tops :
      becoming = <<o, p>> /\ o \notin Chain(p)

\* Trackability is right wherever the work list is done.
TrackableIsKnown == \A x \in mode \ pending : x \in trackable <=> tracked(x)

\* An entry's outcome is still that of its chain.
Fresh(e) ==
  IF e.kind = "missing" THEN Holders(e.token) = {}
  ELSE /\ e.holder \in Holders(e.token)
       /\ e.kind = slots[e.holder].kind
       /\ e.constant # Absent => /\ e.constant = slots[e.holder].value
                                 /\ value_writes[e.holder] < ValueWriteLimit

\* An entry is of its object alone, or of a valid chain on which the work
\* list is not done or nothing has changed.
EntryGuarded(e) ==
  \/ /\ e.token = NoObject
     /\ e.layout[2] # "missing" \/ e.layout[1] = NoObject
  \/ /\ e.token \in valid
     /\ e.layout = <<e.token, "missing">>
     /\ Fresh(e) \/ Chain(e.token) \cap pending # {}

EntriesGuarded == \A e \in site : EntryGuarded(e)

CacheInv == /\ CacheTypes /\ Acyclic(proto) /\ StatesLinked /\ RebaseIsSound
            /\ TrackableIsKnown /\ ValidUpwards /\ EntriesGuarded

-----------------------------------------------------------------------------
(* Chains of states, and what keeps an entry guarded                       *)

\* What is above a state is a state.
LEMMA ChainInModes ==
  ASSUME CacheTypes, StatesLinked, NEW p \in mode
  PROVE  Chain(p) \subseteq mode
  <1>1. \A y \in mode : proto[y] \in Objects => proto[y] \in mode
    BY DEF StatesLinked
  <1>2. mode \in SUBSET Objects
    BY DEF CacheTypes
  <1> QED
    BY <1>1, <1>2, AboveLeast DEF Chain

\* There is one holder at most.
LEMMA OneHolder ==
  ASSUME Acyclic(proto), NEW p, NEW h \in Holders(p), NEW g \in Holders(p)
  PROVE  h = g
  <1>1. h \in Chain(p) /\ g \in Chain(p) /\ g \in Chain(h) /\ h \in Chain(g)
    BY DEF Holders
  <1>2. h \in Objects
    BY <1>1, AboveFacts DEF Chain
  <1>3. SUFFICES ASSUME h # g PROVE FALSE
    OBVIOUS
  <1>4. proto[h] \in Objects /\ g \in Above(proto[h], proto)
    BY <1>1, <1>2, <1>3, AboveStep DEF Chain
  <1>5. h \in Above(proto[h], proto)
    BY <1>1, <1>4, AboveFacts DEF Chain
  <1> QED
    BY <1>2, <1>4, <1>5 DEF Acyclic

\* The chain goes on from x as before, and what an entry could say of x
\* still holds.
Unmoved(x) ==
  /\ proto'[x] = proto[x]
  /\ slots'[x] = Absent <=> slots[x] = Absent
  /\ slots'[x].kind = slots[x].kind
  /\ value_writes'[x] = value_writes[x]
  /\ value_writes[x] < ValueWriteLimit => slots'[x] = slots[x]

LEMMA FreshStays ==
  ASSUME NEW e, Fresh(e), \A x \in Chain(e.token) : Unmoved(x)
  PROVE  Fresh(e)'
  <1>1. Above(e.token, proto') = Above(e.token, proto)
    BY AboveSame DEF Unmoved, Chain
  <1>2. \A h \in Chain(e.token) : Above(h, proto') = Above(h, proto)
    <2>1. TAKE h \in Chain(e.token)
    <2>2. \A x \in Above(h, proto) : proto'[x] = proto[x]
      BY AboveFacts DEF Unmoved, Chain
    <2> QED
      BY <2>2, AboveSame
  <1>3. Holders(e.token)' = Holders(e.token)
    BY <1>1, <1>2 DEF Holders, Chain, Unmoved
  <1>4. Holders(e.token) \subseteq Chain(e.token)
    BY DEF Holders
  <1>5. CASE e.kind = "missing"
    BY <1>3, <1>5 DEF Fresh
  <1>6. CASE e.kind # "missing"
    BY <1>3, <1>4, <1>6 DEF Fresh, Unmoved
  <1> QED
    BY <1>5, <1>6

\* An entry stays guarded when all that moved is on the work list.
LEMMA EntryStays ==
  ASSUME NEW e, EntryGuarded(e), pending = {}, valid \subseteq valid',
         CacheTypes', StatesLinked', \A x \in mode' : x \in pending' \/ Unmoved(x)
  PROVE  EntryGuarded(e)'
  <1>1. CASE e.token = NoObject /\ (e.layout[2] # "missing" \/ e.layout[1] = NoObject)
    BY <1>1 DEF EntryGuarded
  <1>2. CASE e.token \in valid /\ e.layout = <<e.token, "missing">> /\ Fresh(e)
    <2>1. e.token \in mode'
      BY <1>2 DEF CacheTypes
    <2>2. Chain(e.token)' \subseteq mode'
      <3>1. \A y \in mode' : proto'[y] \in Objects => proto'[y] \in mode'
        BY DEF StatesLinked
      <3>2. mode' \in SUBSET Objects
        BY DEF CacheTypes
      <3> QED
        BY <2>1, <3>1, <3>2, AboveLeast DEF Chain
    <2>3. SUFFICES ASSUME Chain(e.token)' \cap pending' = {} PROVE Fresh(e)'
      BY <1>2 DEF EntryGuarded
    <2>4. \A x \in Above(e.token, proto') : Unmoved(x)
      BY <2>2, <2>3 DEF Chain
    <2>5. Above(e.token, proto) = Above(e.token, proto')
      BY <2>4, AboveSame DEF Unmoved
    <2> QED
      BY <1>2, <2>4, <2>5, FreshStays DEF Chain
  <1> QED
    BY <1>1, <1>2 DEF EntryGuarded

-----------------------------------------------------------------------------
(* Edits of slots and prototypes                                           *)

LEMMA CacheInitInv == CacheInit => CacheInv
  <1> SUFFICES ASSUME CacheInit PROVE CacheInv
    OBVIOUS
  <1>1. CacheTypes
    BY DEF CacheInit, CacheTypes
  <1>2. Acyclic(proto)
    BY DEF CacheInit
  <1>3. StatesLinked /\ TrackableIsKnown
    BY DEF CacheInit, StatesLinked, TrackableIsKnown
  <1>4. RebaseIsSound
    BY DEF CacheInit, RebaseIsSound
  <1>5. ValidUpwards
    BY DEF CacheInit, ValidUpwards
  <1>6. EntriesGuarded
    BY DEF CacheInit, EntriesGuarded
  <1> QED
    BY <1>1, <1>2, <1>3, <1>4, <1>5, <1>6 DEF CacheInv

\* An edit of slots keeps the invariant if it puts on the work list the
\* states an entry might depend on.
LEMMA SlotEdit ==
  ASSUME CacheInv, pending = {},
         UNCHANGED <<proto, modeVars, trackable, valid, becoming, siteVars>>,
         slots' \in [Objects -> Slots], value_writes' \in [Objects -> Nat],
         pending' \in SUBSET mode, \A x \in mode : x \in pending' \/ Unmoved(x)
  PROVE  CacheInv'
  <1> USE DEF modeVars, siteVars
  <1>1. CacheTypes'
    BY DEF CacheInv, CacheTypes
  <1>2. Acyclic(proto)'
    BY DEF CacheInv, Acyclic
  <1>3. StatesLinked'
    BY DEF CacheInv, StatesLinked
  <1>4. RebaseIsSound'
    BY DEF CacheInv, RebaseIsSound, Chain
  <1>5. TrackableIsKnown'
    BY DEF CacheInv, TrackableIsKnown, tracked
  <1>6. ValidUpwards'
    BY DEF CacheInv, ValidUpwards
  <1>7. EntriesGuarded'
    <2>1. SUFFICES ASSUME NEW e \in site PROVE EntryGuarded(e)'
      BY DEF EntriesGuarded
    <2>2. EntryGuarded(e)
      BY <2>1 DEF CacheInv, EntriesGuarded
    <2> QED
      BY <1>1, <1>3, <2>2, EntryStays
  <1> QED
    BY <1>1, <1>2, <1>3, <1>4, <1>5, <1>6, <1>7 DEF CacheInv

LEMMA overwriteKeeps ==
  ASSUME CacheInv, NEW o \in Objects, NEW v \in Values, overwrite(o, v)
  PROVE  CacheInv'
  <1>1. CacheTypes /\ pending = {} /\ slots[o] # Absent
    BY DEF CacheInv, overwrite, Idle
  <1>2. PICK s : s = slots[o]
    OBVIOUS
  <1>3. s \in [kind : {"data", "accessor"}, value : Values]
    BY <1>1, <1>2 DEF CacheTypes, Slots
  <1>4. PICK t : t = [s EXCEPT !.value = v]
    OBVIOUS
  <1>5. t \in [kind : {"data", "accessor"}, value : Values] /\ t.kind = s.kind
    BY <1>3, <1>4
  <1>6. slots' = [slots EXCEPT ![o] = t]
    BY <1>2, <1>4 DEF overwrite
  <1>7. t \in Slots /\ t # Absent
    BY <1>5, CacheAssumption DEF Slots
  <1>8. slots' \in [Objects -> Slots]
    BY <1>1, <1>6, <1>7 DEF CacheTypes
  <1>9. value_writes' \in [Objects -> Nat] /\ pending' \in SUBSET mode
    BY <1>1 DEF overwrite, value_write, CacheTypes
  <1>10. ASSUME NEW x \in mode PROVE x \in pending' \/ Unmoved(x)
    <2>1. CASE x # o
      <3>1. slots'[x] = slots[x] /\ value_writes'[x] = value_writes[x] /\ proto' = proto
        BY <1>1, <1>6, <1>10, <2>1 DEF CacheTypes, overwrite, value_write
      <3> QED
        BY <3>1 DEF Unmoved
    <2>2. CASE x = o /\ value_writes[o] < ValueWriteLimit
      BY <1>10, <2>2 DEF overwrite, value_write
    <2>3. CASE x = o /\ ~ (value_writes[o] < ValueWriteLimit)
      <3>1. slots'[x] = t /\ value_writes' = value_writes /\ proto' = proto
        BY <1>1, <1>6, <2>3 DEF CacheTypes, overwrite, value_write
      <3> QED
        BY <1>1, <1>2, <1>5, <1>7, <2>3, <3>1 DEF Unmoved
    <2> QED
      BY <2>1, <2>2, <2>3
  <1> QED
    BY <1>1, <1>8, <1>9, <1>10, SlotEdit DEF overwrite

\* The other edits of an object's slot put it on the work list.
LEMMA RedefineKeeps ==
  ASSUME CacheInv, Idle, NEW o \in Objects, NEW s \in Slots,
         slots' = [slots EXCEPT ![o] = s], invalidate_dependencies(o),
         value_writes' \in [Objects -> Nat],
         \A x \in Objects : x # o => value_writes'[x] = value_writes[x],
         UNCHANGED <<proto, modeVars, trackable, valid, becoming, siteVars>>
  PROVE  CacheInv'
  <1>1. CacheTypes /\ pending = {}
    BY DEF CacheInv, Idle
  <1>2. slots' \in [Objects -> Slots] /\ pending' \in SUBSET mode
    BY <1>1 DEF CacheTypes, invalidate_dependencies
  <1>3. ASSUME NEW x \in mode PROVE x \in pending' \/ Unmoved(x)
    <2>1. CASE x # o
      <3>1. slots'[x] = slots[x] /\ value_writes'[x] = value_writes[x] /\ proto' = proto
        BY <1>1, <1>3, <2>1 DEF CacheTypes
      <3> QED
        BY <3>1 DEF Unmoved
    <2>2. CASE x = o
      BY <1>3, <2>2 DEF invalidate_dependencies
    <2> QED
      BY <2>1, <2>2
  <1> QED
    BY <1>1, <1>2, <1>3, SlotEdit

LEMMA appendKeeps ==
  ASSUME CacheInv, NEW o \in Objects, NEW s \in Slots \ {Absent}, append(o, s)
  PROVE  CacheInv'
  <1>1. value_writes' = value_writes /\ value_writes \in [Objects -> Nat]
    BY DEF append, CacheInv, CacheTypes
  <1> QED
    BY <1>1, RedefineKeeps DEF append

LEMMA reconfigureKeeps ==
  ASSUME CacheInv, NEW o \in Objects, NEW s \in Slots \ {Absent}, reconfigure(o, s)
  PROVE  CacheInv'
  <1>1. value_writes \in [Objects -> Nat]
    BY DEF CacheInv, CacheTypes
  <1>2. /\ value_writes' \in [Objects -> Nat]
        /\ \A x \in Objects : x # o => value_writes'[x] = value_writes[x]
    BY <1>1 DEF reconfigure
  <1> QED
    BY <1>2, RedefineKeeps DEF reconfigure

LEMMA removeKeeps ==
  ASSUME CacheInv, NEW o \in Objects, remove(o)
  PROVE  CacheInv'
  <1>1. value_writes' = value_writes /\ value_writes \in [Objects -> Nat]
    BY DEF remove, CacheInv, CacheTypes
  <1>2. Absent \in Slots
    BY DEF Slots
  <1> QED
    BY <1>1, <1>2, RedefineKeeps DEF remove

LEMMA set_prototypeKeeps ==
  ASSUME CacheInv, NEW o \in Objects, NEW p \in Objects \cup Tops, set_prototype(o, p)
  PROVE  CacheInv'
  <1> USE DEF modeVars, siteVars
  <1>1. /\ CacheTypes /\ pending = {} /\ becoming = NotRebasing /\ o \notin Chain(p)
        /\ UNCHANGED <<slots, modeVars, trackable, valid, value_writes, siteVars>>
        /\ pending' = {o} \cap mode
    BY DEF CacheInv, set_prototype, Idle, invalidate_dependencies
  <1>2. CASE o \in mode
    <2>1. proto' = proto /\ becoming' = <<o, p>> /\ pending' = {o}
      BY <1>1, <1>2 DEF set_prototype
    <2>2. CacheTypes'
      BY <1>1, <1>2, <2>1 DEF CacheTypes
    <2>3. Acyclic(proto)' /\ StatesLinked'
      BY <1>1, <2>1 DEF CacheInv, Acyclic, StatesLinked
    <2>4. RebaseIsSound'
      <3>1. Chain(p)' = Chain(p)
        BY <2>1 DEF Chain
      <3> QED
        BY <1>1, <1>2, <2>1, <3>1 DEF RebaseIsSound
    <2>5. TrackableIsKnown'
      BY <1>1 DEF CacheInv, TrackableIsKnown, tracked
    <2>6. ValidUpwards'
      BY <1>1 DEF CacheInv, ValidUpwards
    <2>7. EntriesGuarded'
      <3>1. SUFFICES ASSUME NEW e \in site PROVE EntryGuarded(e)'
        BY <1>1 DEF EntriesGuarded
      <3>2. EntryGuarded(e)
        BY <3>1 DEF CacheInv, EntriesGuarded
      <3>3. \A x \in mode' : Unmoved(x)
        BY <1>1, <2>1 DEF Unmoved
      <3> QED
        BY <1>1, <2>2, <2>3, <3>2, <3>3, EntryStays
    <2> QED
      BY <2>2, <2>3, <2>4, <2>5, <2>6, <2>7 DEF CacheInv
  <1>3. CASE o \notin mode
    <2>1. proto' = [proto EXCEPT ![o] = p] /\ becoming' = becoming /\ pending' = {}
      BY <1>1, <1>3 DEF set_prototype
    <2>2. proto'[o] = p /\ (\A x \in Objects : x # o => proto'[x] = proto[x])
      BY <1>1, <2>1 DEF CacheTypes
    <2>3. CacheTypes'
      BY <1>1, <2>1 DEF CacheTypes
    <2>4. Acyclic(proto)'
      <3>1. Acyclic(proto) /\ o \notin Above(p, proto)
        BY <1>1 DEF CacheInv, Chain
      <3>2. Acyclic(proto')
        BY <2>2, <3>1, StaysAcyclic
      <3> QED
        BY <3>2 DEF Acyclic
    <2>5. \A x \in mode : proto'[x] = proto[x]
      BY <1>1, <1>3, <2>2 DEF CacheTypes
    <2>6. StatesLinked'
      BY <1>1, <2>5 DEF CacheInv, StatesLinked
    <2>7. RebaseIsSound'
      BY <1>1, <2>1 DEF RebaseIsSound, NotRebasing
    <2>8. TrackableIsKnown'
      BY <1>1, <2>1 DEF CacheInv, TrackableIsKnown, tracked
    <2>9. ValidUpwards'
      BY <1>1, <2>1 DEF CacheInv, ValidUpwards
    <2>10. EntriesGuarded'
      <3>1. SUFFICES ASSUME NEW e \in site PROVE EntryGuarded(e)'
        BY <1>1 DEF EntriesGuarded
      <3>2. EntryGuarded(e)
        BY <3>1 DEF CacheInv, EntriesGuarded
      <3>3. \A x \in mode' : Unmoved(x)
        BY <1>1, <2>5 DEF Unmoved
      <3> QED
        BY <1>1, <2>3, <2>6, <3>2, <3>3, EntryStays
    <2> QED
      BY <2>3, <2>4, <2>6, <2>7, <2>8, <2>9, <2>10 DEF CacheInv
  <1> QED
    BY <1>2, <1>3

-----------------------------------------------------------------------------
(* The work list of an invalidation                                        *)

\* The cells of the chain of a valid one are valid, or something on it is
\* on the work list beside g.
LEMMA ValidChain ==
  ASSUME CacheTypes, StatesLinked, ValidUpwards, NEW p \in valid, NEW g,
         Chain(p) \cap pending \subseteq {g}, g \notin valid
  PROVE  Chain(p) \subseteq valid
  <1>1. valid \in SUBSET Objects /\ valid \subseteq mode
    BY DEF CacheTypes
  <1>2. PICK S : S = Chain(p) \cap valid
    OBVIOUS
  <1>3. S \in SUBSET Objects /\ p \in S
    BY <1>1, <1>2, AboveFacts DEF Chain
  <1>4. ASSUME NEW y \in S, proto[y] \in Objects PROVE proto[y] \in S
    <2>1. y \in valid \ pending /\ y \in mode
      BY <1>1, <1>2
    <2>2. parent[y] = proto[y] /\ proto[y] # NoObject
      BY <1>4, <2>1, CacheAssumption DEF StatesLinked
    <2>3. proto[y] \in valid
      BY <2>1, <2>2 DEF ValidUpwards
    <2>4. proto[y] \in Chain(p)
      BY <1>2, <1>4, AboveFacts DEF Chain
    <2> QED
      BY <1>2, <2>3, <2>4
  <1>5. Chain(p) \subseteq S
    BY <1>3, <1>4, AboveLeast DEF Chain
  <1> QED
    BY <1>2, <1>5

\* A step of the work list leaves every remaining entry fresh, or with a
\* state of its chain still on the list.
LEMMA InvalidateEntry ==
  ASSUME CacheInv, NEW o \in Objects, invalidate(o), NEW e \in site'
  PROVE  EntryGuarded(e)'
  <1>1. /\ CacheTypes /\ StatesLinked /\ ValidUpwards
        /\ o \in pending /\ e \in site /\ UNCHANGED <<proto, slots, mode, value_writes>>
    BY DEF CacheInv, invalidate, chainVars, modeVars
  <1>2. EntryGuarded(e)
    BY <1>1 DEF CacheInv, EntriesGuarded
  <1>3. CASE e.token = NoObject /\ (e.layout[2] # "missing" \/ e.layout[1] = NoObject)
    BY <1>3 DEF EntryGuarded
  <1>4. CASE e.token \in valid /\ e.layout = <<e.token, "missing">>
    <2>1. e.token \in valid' /\ Chain(e.token)' = Chain(e.token)
      BY <1>1, <1>4 DEF invalidate, Chain
    <2>2. CASE Fresh(e)
      <3>1. Fresh(e)'
        <4>1. \A x \in Chain(e.token) : Unmoved(x)
          BY <1>1 DEF Unmoved
        <4> QED
          BY <2>2, <4>1, FreshStays
      <3> QED
        BY <1>4, <2>1, <3>1 DEF EntryGuarded
    <2>3. ASSUME NEW c \in Chain(e.token) \cap pending, c # o PROVE EntryGuarded(e)'
      <3>1. c \in pending'
        BY <2>3 DEF invalidate
      <3> QED
        BY <1>4, <2>1, <2>3, <3>1 DEF EntryGuarded
    <2>4. CASE Chain(e.token) \cap pending = {o}
      <3>1. o \in valid
        BY <1>1, <1>4, <2>4, ValidChain
      <3>2. e.token # o /\ pending' = (pending \ {o}) \cup users[o]
        BY <3>1 DEF invalidate, skips
      <3>3. o \in Above(e.token, proto) /\ e.token \in Objects
        BY <1>1, <1>4, <2>4 DEF Chain, CacheTypes
      <3>4. PICK c \in Above(e.token, proto) : proto[c] = o
        BY <3>2, <3>3, AboveChild
      <3>5. c \in mode
        BY <1>1, <1>4, <3>4, ChainInModes DEF Chain, CacheTypes
      <3>6. c \in users[o]
        BY <1>1, <3>4, <3>5 DEF StatesLinked
      <3>7. c \in Chain(e.token)' \cap pending'
        BY <2>1, <3>2, <3>4, <3>6 DEF Chain
      <3> QED
        BY <1>4, <2>1, <3>7 DEF EntryGuarded
    <2> QED
      BY <1>2, <1>4, <2>2, <2>3, <2>4, CacheAssumption DEF EntryGuarded
  <1> QED
    BY <1>2, <1>3, <1>4 DEF EntryGuarded

LEMMA invalidateKeeps ==
  ASSUME CacheInv, NEW o \in Objects, invalidate(o)
  PROVE  CacheInv'
  <1>1. /\ CacheTypes /\ Acyclic(proto) /\ StatesLinked /\ RebaseIsSound
        /\ TrackableIsKnown /\ ValidUpwards
        /\ o \in pending /\ o \in mode
        /\ UNCHANGED <<proto, slots, mode, parent, users, direct_trackable, value_writes,
                       becoming, mega>>
    BY DEF CacheInv, CacheTypes, invalidate, chainVars, modeVars
  <1>2. CacheTypes'
    BY <1>1 DEF CacheTypes, invalidate
  <1>3. Acyclic(proto)' /\ StatesLinked'
    BY <1>1 DEF Acyclic, StatesLinked
  <1>4. RebaseIsSound'
    BY <1>1 DEF RebaseIsSound, Chain
  <1>5. \A x \in mode : parent[x] = o => x \in users[o]
    BY <1>1, CacheAssumption DEF StatesLinked, CacheTypes
  <1>6. parent[o] # o
    <2>1. SUFFICES ASSUME parent[o] = o PROVE FALSE
      OBVIOUS
    <2>2. proto[o] = o
      BY <1>1, <2>1, CacheAssumption DEF StatesLinked
    <2> QED
      BY <1>1, <2>2, AboveFacts DEF Acyclic
  <1>7. TrackableIsKnown'
    <2>1. CASE skips(o)
      BY <1>1, <2>1 DEF invalidate, skips, TrackableIsKnown, tracked
    <2>2. CASE ~ skips(o)
      <3>1. /\ trackable' = IF tracked(o) THEN trackable \cup {o} ELSE trackable \ {o}
            /\ pending' = (pending \ {o}) \cup users[o]
        BY <2>2 DEF invalidate
      <3>2. SUFFICES ASSUME NEW x \in mode, x \notin pending'
                     PROVE  x \in trackable' <=> tracked(x)'
        BY <1>1 DEF TrackableIsKnown
      <3>3. parent[x] # o
        BY <1>5, <3>1, <3>2
      <3>4. tracked(x)' = tracked(x)
        BY <1>1, <3>1, <3>3 DEF tracked
      <3>5. CASE x = o
        BY <3>1, <3>4, <3>5
      <3>6. CASE x # o
        BY <1>1, <3>1, <3>2, <3>4, <3>6 DEF TrackableIsKnown
      <3> QED
        BY <3>5, <3>6
    <2> QED
      BY <2>1, <2>2
  <1>8. ValidUpwards'
    <2>1. CASE skips(o)
      BY <1>1, <2>1 DEF invalidate, skips, ValidUpwards
    <2>2. CASE ~ skips(o)
      BY <1>1, <1>5, <2>2 DEF invalidate, ValidUpwards
    <2> QED
      BY <2>1, <2>2
  <1>9. EntriesGuarded'
    BY InvalidateEntry DEF EntriesGuarded
  <1> QED
    BY <1>2, <1>3, <1>4, <1>7, <1>8, <1>9 DEF CacheInv

-----------------------------------------------------------------------------
(* Entering prototype mode                                                 *)

\* The states entered join those there are, and lie one above the other.
LEMMA PathFacts ==
  ASSUME CacheTypes, StatesLinked, NEW p \in Objects \cup Tops, NEW path, path = entered(p)
  PROVE  /\ path \subseteq Objects /\ path \cap mode = {} /\ path \subseteq Chain(p)
         /\ p \in Objects => p \in mode \cup path
         /\ \A x \in path : proto[x] \in Objects => proto[x] \in mode \cup path
         /\ \A x, y \in path : proto[x] \notin path /\ proto[y] \notin path => x = y
  <1>1. CASE p \in mode
    BY <1>1 DEF entered
  <1>2. CASE p \notin mode
    <2>1. PICK up : up = [y \in Objects |-> IF proto[y] \in mode THEN NoObject ELSE proto[y]]
      OBVIOUS
    <2>2. path = Above(p, up)
      BY <1>2, <2>1 DEF entered
    <2>3. \A y \in Objects : up[y] \in Objects => up[y] \notin mode /\ up[y] = proto[y]
      BY <2>1, CacheAssumption
    <2>4. path \subseteq Objects
      BY <2>2, AboveFacts
    <2>5. path \cap mode = {}
      <3>1. PICK S : S = Objects \ mode
        OBVIOUS
      <3>2. /\ S \in SUBSET Objects
            /\ p \in Objects => p \in S
            /\ \A y \in S : up[y] \in Objects => up[y] \in S
        BY <1>2, <2>3, <3>1
      <3>3. Above(p, up) \subseteq S
        BY <3>2, AboveLeast
      <3> QED
        BY <2>2, <3>1, <3>3
    <2>6. path \subseteq Chain(p)
      <3>1. /\ Chain(p) \in SUBSET Objects
            /\ p \in Objects => p \in Chain(p)
            /\ \A y \in Chain(p) : up[y] \in Objects => up[y] \in Chain(p)
        BY <2>3, AboveFacts DEF Chain
      <3> QED
        BY <2>2, <3>1, AboveLeast
    <2>7. p \in Objects => p \in path
      BY <2>2, AboveFacts
    <2>8. ASSUME NEW x \in path, proto[x] \in Objects PROVE proto[x] \in mode \cup path
      <3>1. CASE proto[x] \in mode
        BY <3>1
      <3>2. CASE proto[x] \notin mode
        <4>1. up[x] = proto[x]
          BY <2>1, <2>4, <3>2
        <4> QED
          BY <2>2, <2>8, <4>1, AboveFacts
      <3> QED
        BY <3>1, <3>2
    <2>9. ASSUME NEW x \in path, NEW y \in path, proto[x] \notin path, proto[y] \notin path
          PROVE  x = y
      <3>1. up[x] \notin Objects /\ up[y] \notin Objects
        <4>1. \A z \in path : up[z] \in Objects => up[z] \in path /\ up[z] = proto[z]
          BY <2>2, <2>3, <2>4, AboveFacts
        <4> QED
          BY <2>9, <4>1
      <3>2. x \in Objects /\ y \in Objects
        BY <2>4
      <3>3. Above(x, up) = {x} /\ Above(y, up) = {y}
        BY <3>1, <3>2, AboveEnds
      <3>4. p \in Objects
        BY <2>2, <2>9, AboveEnds
      <3>5. y \in Above(x, up) \/ x \in Above(y, up)
        BY <2>2, <3>4, AboveLinear
      <3> QED
        BY <3>3, <3>5
    <2> QED
      BY <2>4, <2>5, <2>6, <2>7, <2>8, <2>9
  <1> QED
    BY <1>1, <1>2

\* All of the path is trackable or none of it, as each of its states says.
LEMMA PathTrackable ==
  ASSUME CacheTypes, StatesLinked, NEW p \in Objects \cup Tops, NEW path, path = entered(p),
         NEW x \in path
  PROVE  entered_trackable(path) <=>
           /\ proto[x] # ProxyTop
           /\ proto[x] \in mode => proto[x] \in trackable
           /\ proto[x] \in path => entered_trackable(path)
  <1>1. /\ path \subseteq Objects /\ path \cap mode = {}
        /\ \A y, z \in path : proto[y] \notin path /\ proto[z] \notin path => y = z
    BY PathFacts
  <1>2. CASE proto[x] \in path
    <2>1. proto[x] # ProxyTop /\ proto[x] \notin mode
      BY <1>1, <1>2, CacheAssumption
    <2> QED
      BY <1>2, <2>1
  <1>3. CASE proto[x] \notin path
    <2>1. \A y \in path : y # x => proto[y] \in path
      BY <1>1, <1>3
    <2>2. \A y \in path : y # x => proto[y] # ProxyTop /\ proto[y] \notin mode
      BY <1>1, <2>1, CacheAssumption
    <2> QED
      BY <1>3, <2>2 DEF entered_trackable
  <1> QED
    BY <1>2, <1>3

\* Trackability is known where the work list is done: of old states because
\* they and their parents are as before, of new ones along the path.
LEMMA EnterTracks ==
  ASSUME CacheTypes, StatesLinked, TrackableIsKnown, pending = {},
         NEW p \in Objects \cup Tops, NEW path, path = entered(p),
         mode' = mode \cup path,
         trackable' = trackable \cup (IF entered_trackable(path) THEN path ELSE {}),
         \A x \in mode \ pending' :
            parent'[x] = parent[x] /\ (x \in direct_trackable' <=> x \in direct_trackable),
         \A x \in path :
            /\ parent'[x] = IF proto[x] \in Objects THEN proto[x] ELSE NoObject
            /\ x \in direct_trackable' <=> proto[x] # ProxyTop
  PROVE  TrackableIsKnown'
  <1>1. /\ path \subseteq Objects /\ path \cap mode = {}
        /\ \A x \in path : proto[x] \in Objects => proto[x] \in mode \cup path
        /\ trackable \subseteq mode /\ mode \subseteq Objects
    BY PathFacts DEF CacheTypes
  <1>2. SUFFICES ASSUME NEW x \in mode', x \notin pending'
                 PROVE  x \in trackable' <=> tracked(x)'
    BY DEF TrackableIsKnown
  <1>3. CASE x \in mode
    <2>1. x \in trackable' <=> x \in trackable
      BY <1>1, <1>3
    <2>2. parent[x] # NoObject => parent[x] \in mode
      BY <1>1, <1>3 DEF StatesLinked
    <2>3. parent[x] # NoObject => (parent[x] \in trackable' <=> parent[x] \in trackable)
      BY <1>1, <2>2
    <2>4. tracked(x)' <=> tracked(x)
      BY <1>2, <1>3, <2>3 DEF tracked
    <2>5. x \in trackable <=> tracked(x)
      BY <1>3 DEF TrackableIsKnown
    <2> QED
      BY <2>1, <2>4, <2>5
  <1>4. CASE x \in path
    <2>1. x \in trackable' <=> entered_trackable(path)
      BY <1>1, <1>4
    <2>2. proto[x] \in mode => (proto[x] \in trackable' <=> proto[x] \in trackable)
      BY <1>1
    <2>3. proto[x] \in path => (proto[x] \in trackable' <=> entered_trackable(path))
      BY <1>1
    <2>4. tracked(x)' <=> /\ proto[x] # ProxyTop
                          /\ proto[x] \in Objects => proto[x] \in trackable'
      BY <1>1, <1>4, CacheAssumption DEF tracked
    <2>5. tracked(x)' <=> /\ proto[x] # ProxyTop
                          /\ proto[x] \in mode => proto[x] \in trackable
                          /\ proto[x] \in path => entered_trackable(path)
      BY <1>1, <1>4, <2>2, <2>3, <2>4
    <2> QED
      BY <1>4, <2>1, <2>5, PathTrackable
  <1> QED
    BY <1>2, <1>3, <1>4

\* The states of the prototype of a reader, and perhaps their cells.
LEMMA EnterKeeps ==
  ASSUME CacheInv, Idle, NEW p \in Objects, enter_prototype_mode(entered(p)),
         UNCHANGED <<chainVars, value_writes, pending, becoming>>,
         \/ valid' = valid
         \/ p \in trackable' /\ valid' = valid \cup armed(p, parent'),
         site' \in SUBSET Entries, mega' \in BOOLEAN
  PROVE  /\ CacheTypes' /\ Acyclic(proto)' /\ StatesLinked' /\ RebaseIsSound'
         /\ TrackableIsKnown' /\ ValidUpwards' /\ valid \subseteq valid'
         /\ \A e \in site : EntryGuarded(e)'
  <1>1. PICK path : path = entered(p)
    OBVIOUS
  <1>2. /\ CacheTypes /\ StatesLinked /\ TrackableIsKnown /\ ValidUpwards /\ Acyclic(proto)
        /\ pending = {} /\ pending' = {} /\ becoming = NotRebasing /\ becoming' = NotRebasing
        /\ proto' = proto /\ slots' = slots /\ value_writes' = value_writes
    BY DEF CacheInv, Idle, chainVars
  <1>3. /\ path \subseteq Objects /\ path \cap mode = {} /\ p \in mode \cup path
        /\ \A x \in path : proto[x] \in Objects => proto[x] \in mode \cup path
    BY <1>1, <1>2, PathFacts
  <1>4. /\ mode' = mode \cup path
        /\ parent' = [x \in Objects |->
                        IF x \notin path THEN parent[x]
                        ELSE IF proto[x] \in Objects THEN proto[x] ELSE NoObject]
        /\ users' = [x \in Objects |-> users[x] \cup {u \in path : proto[u] = x}]
        /\ direct_trackable' = direct_trackable \cup {x \in path : proto[x] # ProxyTop}
        /\ trackable' = trackable \cup (IF entered_trackable(path) THEN path ELSE {})
    BY <1>1 DEF enter_prototype_mode
  <1>5. \A x \in mode : parent'[x] = parent[x] /\ (x \in direct_trackable' <=> x \in direct_trackable)
    BY <1>2, <1>3, <1>4 DEF CacheTypes
  <1>6. \A x \in path : /\ parent'[x] = IF proto[x] \in Objects THEN proto[x] ELSE NoObject
                        /\ x \in direct_trackable' <=> proto[x] # ProxyTop
    BY <1>2, <1>3, <1>4 DEF CacheTypes
  <1>7. TrackableIsKnown'
    BY <1>1, <1>2, <1>4, <1>5, <1>6, EnterTracks
  <1>8. StatesLinked'
    <2>1. SUFFICES ASSUME NEW x \in mode'
                   PROVE  /\ parent'[x] = IF proto[x] \in Objects THEN proto[x] ELSE NoObject
                          /\ proto[x] \in Objects => proto[x] \in mode' /\ x \in users'[proto[x]]
                          /\ x \in direct_trackable' <=> proto[x] # ProxyTop
      BY <1>2 DEF StatesLinked
    <2>2. CASE x \in mode
      BY <1>2, <1>4, <1>5, <2>2 DEF StatesLinked
    <2>3. CASE x \in path
      BY <1>3, <1>4, <1>6, <2>3
    <2> QED
      BY <1>4, <2>1, <2>2, <2>3
  <1>9. \A x \in mode' \cap trackable' :
          parent'[x] # NoObject => parent'[x] \in mode' \cap trackable'
    BY <1>2, <1>7, <1>8 DEF TrackableIsKnown, tracked, StatesLinked
  <1>10. valid \subseteq valid' /\ valid' \subseteq mode' /\ ValidUpwards'
    <2>1. \A x \in valid : /\ x \in mode' /\ x \in trackable'
                           /\ parent'[x] # NoObject => parent'[x] \in valid
      BY <1>2, <1>4, <1>5 DEF ValidUpwards, CacheTypes
    <2>2. CASE valid' = valid
      BY <1>2, <2>1, <2>2 DEF ValidUpwards
    <2>3. CASE p \in trackable' /\ valid' = valid \cup armed(p, parent')
      <3>1. PICK up : up = [y \in Objects |-> IF parent'[y] \in valid THEN NoObject ELSE parent'[y]]
        OBVIOUS
      <3>2. valid' = valid \cup Above(p, up)
        BY <2>3, <3>1 DEF armed
      <3>3. mode' \cap trackable' \in SUBSET Objects
        BY <1>2, <1>3, <1>4 DEF CacheTypes
      <3>4. \A x \in mode' \cap trackable' : up[x] \in Objects => up[x] \in mode' \cap trackable'
        BY <1>9, <3>1, <3>3, CacheAssumption
      <3>5. p \in mode' \cap trackable'
        BY <1>3, <1>4, <2>3
      <3>6. Above(p, up) \subseteq mode' \cap trackable'
        BY <3>3, <3>4, <3>5, AboveLeast
      <3>7. ASSUME NEW x \in Above(p, up), parent'[x] # NoObject PROVE parent'[x] \in valid'
        <4>1. x \in mode' /\ x \in Objects
          BY <3>3, <3>6
        <4>2. parent'[x] \in Objects
          BY <1>8, <3>7, <4>1 DEF StatesLinked
        <4>3. CASE parent'[x] \in valid
          BY <3>2, <4>3
        <4>4. CASE parent'[x] \notin valid
          <5>1. up[x] = parent'[x]
            BY <3>1, <4>1, <4>4
          <5> QED
            BY <3>2, <3>7, <4>2, <5>1, AboveFacts
        <4> QED
          BY <4>3, <4>4
      <3>8. ValidUpwards'
        BY <2>1, <3>2, <3>6, <3>7 DEF ValidUpwards
      <3> QED
        BY <2>1, <3>2, <3>6, <3>8
    <2> QED
      BY <2>2, <2>3
  <1>11. CacheTypes'
    <2>1. parent' \in [Objects -> Objects \cup {NoObject}]
      BY <1>2, <1>4 DEF CacheTypes
    <2>2. users' \in [Objects -> SUBSET mode']
      BY <1>2, <1>4 DEF CacheTypes
    <2>3. mode' \in SUBSET Objects /\ direct_trackable' \in SUBSET mode' /\ trackable' \in SUBSET mode'
      BY <1>2, <1>3, <1>4 DEF CacheTypes
    <2> QED
      BY <1>2, <1>10, <2>1, <2>2, <2>3 DEF CacheTypes
  <1>12. Acyclic(proto)'
    BY <1>2 DEF Acyclic
  <1>13. RebaseIsSound'
    BY <1>2 DEF RebaseIsSound
  <1>14. \A e \in site : EntryGuarded(e)'
    <2>1. TAKE e \in site
    <2>2. EntryGuarded(e)
      BY <2>1 DEF CacheInv, EntriesGuarded
    <2>3. \A x \in mode' : Unmoved(x)
      BY <1>2 DEF Unmoved
    <2> QED
      BY <1>2, <1>8, <1>10, <1>11, <2>2, <2>3, EntryStays
  <1> QED
    BY <1>7, <1>8, <1>10, <1>11, <1>12, <1>13, <1>14

-----------------------------------------------------------------------------
(* Reads                                                                   *)

LEMMA enumerate_keysKeeps ==
  ASSUME CacheInv, NEW r \in Objects, enumerate_keys(r)
  PROVE  CacheInv'
  <1>1. PICK p : p = proto[r]
    OBVIOUS
  <1>2. /\ Idle /\ p \in Objects /\ enter_prototype_mode(entered(p))
        /\ UNCHANGED <<chainVars, value_writes, pending, becoming, siteVars>>
        /\ \/ valid' = valid
           \/ p \in trackable' /\ valid' = valid \cup armed(p, parent')
    BY <1>1 DEF enumerate_keys
  <1>3. site' = site /\ site' \in SUBSET Entries /\ mega' \in BOOLEAN
    BY <1>2 DEF siteVars, CacheInv, CacheTypes
  <1>4. /\ CacheTypes' /\ Acyclic(proto)' /\ StatesLinked' /\ RebaseIsSound'
        /\ TrackableIsKnown' /\ ValidUpwards' /\ \A e \in site : EntryGuarded(e)'
    BY <1>2, <1>3, EnterKeeps
  <1>5. EntriesGuarded'
    BY <1>3, <1>4 DEF EntriesGuarded
  <1> QED
    BY <1>4, <1>5 DEF CacheInv

LEMMA KindsOfSlots ==
  ASSUME NEW s \in Slots
  PROVE  /\ kind_of(s) \in {"missing", "data", "accessor"}
         /\ kind_of(s) = "missing" <=> s = Absent
         /\ s # Absent => /\ s \in [kind : {"data", "accessor"}, value : Values]
                          /\ kind_of(s) = s.kind
  BY DEF Slots, kind_of

LEMMA read_plainKeeps ==
  ASSUME CacheInv, NEW r \in Objects, read_plain(r)
  PROVE  CacheInv'
  <1>1. /\ CacheTypes /\ pending = {}
        /\ UNCHANGED <<proto, slots, modeVars, trackable, valid, value_writes, pending, becoming>>
    BY DEF CacheInv, read_plain, misses, Idle, chainVars
  <1>2. PICK e : e = plain_entry(r)
    OBVIOUS
  <1>3. e = [layout |-> <<proto[r], kind_of(slots[r])>>, token |-> NoObject,
             kind |-> kind_of(slots[r]), holder |-> NoObject, constant |-> Absent]
    BY <1>2 DEF plain_entry, layout
  <1>4. slots[r] \in Slots /\ proto[r] \in Objects \cup Tops
    BY <1>1 DEF CacheTypes
  <1>5. e \in Entries
    BY <1>3, <1>4, KindsOfSlots DEF Entries
  <1>6. site' \subseteq site \cup {e} /\ mega' \in BOOLEAN
    BY <1>1, <1>2 DEF read_plain, record, CacheTypes
  <1>7. CacheTypes'
    BY <1>1, <1>5, <1>6 DEF CacheTypes, modeVars
  <1>8. Acyclic(proto)' /\ StatesLinked'
    BY <1>1 DEF CacheInv, Acyclic, StatesLinked, modeVars
  <1>9. RebaseIsSound'
    BY <1>1 DEF CacheInv, RebaseIsSound, Chain, modeVars
  <1>10. TrackableIsKnown' /\ ValidUpwards'
    BY <1>1 DEF CacheInv, TrackableIsKnown, tracked, ValidUpwards, modeVars
  <1>11. EntriesGuarded'
    <2>1. SUFFICES ASSUME NEW d \in site \cup {e} PROVE EntryGuarded(d)'
      BY <1>6 DEF EntriesGuarded
    <2>2. CASE d = e
      <3>1. slots[r] # Absent \/ proto[r] = NoObject
        BY DEF read_plain
      <3>2. d.token = NoObject /\ (d.layout[2] # "missing" \/ d.layout[1] = NoObject)
        BY <1>3, <1>4, <2>2, <3>1, KindsOfSlots
      <3> QED
        BY <3>2 DEF EntryGuarded
    <2>3. CASE d \in site
      <3>1. EntryGuarded(d)
        BY <2>3 DEF CacheInv, EntriesGuarded
      <3>2. \A x \in mode' : Unmoved(x)
        BY <1>1 DEF Unmoved
      <3> QED
        BY <1>1, <1>7, <1>8, <3>1, <3>2, EntryStays
    <2> QED
      BY <2>1, <2>2, <2>3
  <1> QED
    BY <1>7, <1>8, <1>9, <1>10, <1>11 DEF CacheInv

\* A new entry of a chain says what the chain gives.
LEMMA ChainEntryFresh ==
  ASSUME CacheTypes, NEW r \in Objects, slots[r] = Absent, NEW p \in Objects, p = proto[r],
         NEW e, e = chain_entry(r, p)
  PROVE  /\ e \in Entries /\ e.token = p /\ e.layout = <<p, "missing">>
         /\ Fresh(e)
  <1>1. PICK h : h = holder_of(p)
    OBVIOUS
  <1>2. PICK i : i = inherited(p)
    OBVIOUS
  <1>3. PICK c : c = IF h # NoObject /\ value_writes[h] < ValueWriteLimit
                     THEN slots[h].value ELSE Absent
    OBVIOUS
  <1>4. e = [layout |-> <<p, "missing">>, token |-> p, kind |-> kind_of(i),
             holder |-> h, constant |-> c]
    BY <1>1, <1>2, <1>3 DEF chain_entry, layout, kind_of
  <1>5. CASE Holders(p) = {}
    <2>1. h = NoObject /\ i = Absent /\ c = Absent
      BY <1>1, <1>2, <1>3, <1>5 DEF holder_of, inherited
    <2>2. kind_of(i) = "missing"
      BY <2>1 DEF kind_of
    <2>3. e \in Entries
      BY <1>4, <2>1, <2>2 DEF Entries
    <2>4. Fresh(e)
      BY <1>4, <1>5, <2>2 DEF Fresh
    <2> QED
      BY <1>4, <2>3, <2>4
  <1>6. CASE Holders(p) # {}
    <2>1. h \in Holders(p) /\ i = slots[h]
      BY <1>1, <1>2, <1>6 DEF holder_of, inherited
    <2>2. h \in Objects /\ slots[h] # Absent
      BY <2>1, AboveFacts DEF Holders, Chain
    <2>3. i \in [kind : {"data", "accessor"}, value : Values] /\ kind_of(i) = i.kind
      BY <2>1, <2>2, KindsOfSlots DEF CacheTypes
    <2>4. /\ c \in Values \cup {Absent}
          /\ c # Absent => c = slots[h].value /\ value_writes[h] < ValueWriteLimit
      BY <1>3, <2>1, <2>3
    <2>5. e \in Entries
      BY <1>4, <2>2, <2>3, <2>4 DEF Entries
    <2>6. Fresh(e)
      BY <1>4, <2>1, <2>3, <2>4 DEF Fresh
    <2> QED
      BY <1>4, <2>5, <2>6
  <1> QED
    BY <1>5, <1>6

LEMMA read_inheritedKeeps ==
  ASSUME CacheInv, NEW r \in Objects, read_inherited(r)
  PROVE  CacheInv'
  <1>1. PICK p : p = proto[r]
    OBVIOUS
  <1>2. PICK e : e = chain_entry(r, p)
    OBVIOUS
  <1>3. /\ Idle /\ p \in Objects /\ slots[r] = Absent /\ enter_prototype_mode(entered(p))
        /\ UNCHANGED <<chainVars, value_writes, pending, becoming>>
        /\ \/ valid' = valid /\ site' = site /\ mega' = mega
           \/ /\ p \in trackable' /\ valid' = valid \cup armed(p, parent')
              /\ record(e)
    BY <1>1, <1>2 DEF read_inherited, misses, siteVars
  <1>4. CacheTypes /\ pending = {} /\ pending' = {}
    BY <1>3 DEF CacheInv, Idle
  <1>5. e \in Entries /\ e.token = p /\ e.layout = <<p, "missing">> /\ Fresh(e)
    BY <1>1, <1>2, <1>3, <1>4, ChainEntryFresh
  <1>6. site' \in SUBSET Entries /\ mega' \in BOOLEAN /\ site' \subseteq site \cup {e}
    BY <1>3, <1>4, <1>5 DEF record, CacheTypes
  <1>7. /\ CacheTypes' /\ Acyclic(proto)' /\ StatesLinked' /\ RebaseIsSound'
        /\ TrackableIsKnown' /\ ValidUpwards' /\ \A d \in site : EntryGuarded(d)'
    BY <1>3, <1>6, EnterKeeps
  <1>8. EntriesGuarded'
    <2>1. CASE site' = site
      BY <1>7, <2>1 DEF EntriesGuarded
    <2>2. CASE valid' = valid \cup armed(p, parent')
      <3>1. p \in valid'
        BY <1>3, <2>2, AboveFacts DEF armed
      <3>2. Fresh(e)'
        <4>1. \A x \in Chain(e.token) : Unmoved(x)
          BY <1>3 DEF Unmoved, chainVars
        <4> QED
          BY <1>5, <4>1, FreshStays
      <3>3. EntryGuarded(e)'
        BY <1>5, <3>1, <3>2 DEF EntryGuarded
      <3> QED
        BY <1>6, <1>7, <3>3 DEF EntriesGuarded
    <2> QED
      BY <1>3, <2>1, <2>2
  <1> QED
    BY <1>7, <1>8 DEF CacheInv

-----------------------------------------------------------------------------
(* The second half of a rebase                                             *)

LEMMA reparentKeeps ==
  ASSUME CacheInv, reparent
  PROVE  CacheInv'
  <1>1. /\ CacheTypes /\ Acyclic(proto) /\ StatesLinked /\ RebaseIsSound
        /\ TrackableIsKnown /\ ValidUpwards
        /\ pending = {} /\ becoming # NotRebasing /\ becoming' = NotRebasing
        /\ UNCHANGED <<slots, valid, value_writes, site, mega>>
    BY DEF CacheInv, reparent, siteVars
  <1>2. PICK o \in mode, p \in Objects \cup Tops : becoming = <<o, p>> /\ o \notin Chain(p)
    BY <1>1 DEF RebaseIsSound
  <1>3. PICK path : path = entered(p)
    OBVIOUS
  <1>4. /\ path \subseteq Objects /\ path \cap mode = {}
        /\ p \in Objects => p \in mode \cup path
        /\ \A x \in path : proto[x] \in Objects => proto[x] \in mode \cup path
    BY <1>1, <1>3, PathFacts
  <1>5. o \in Objects /\ mode \subseteq Objects /\ o \notin path
    BY <1>1, <1>2, <1>4 DEF CacheTypes
  <1>6. /\ proto' = [proto EXCEPT ![o] = p]
        /\ mode' = mode \cup path
        /\ parent' = [x \in Objects |->
              IF x = o THEN IF p \in Objects THEN p ELSE NoObject
              ELSE IF x \notin path THEN parent[x]
              ELSE IF proto[x] \in Objects THEN proto[x] ELSE NoObject]
        /\ users' = [x \in Objects |->
              (users[x] \ {o}) \cup {u \in path : proto[u] = x}
                               \cup (IF x = p THEN {o} ELSE {})]
        /\ direct_trackable' =
              ((direct_trackable \cup {x \in path : proto[x] # ProxyTop}) \ {o})
                  \cup (IF p # ProxyTop THEN {o} ELSE {})
        /\ trackable' = trackable \cup (IF entered_trackable(path) THEN path ELSE {})
        /\ pending' = {o}
    BY <1>2, <1>3 DEF reparent
  <1>7. proto'[o] = p /\ (\A x \in Objects : x # o => proto'[x] = proto[x])
    BY <1>1, <1>5, <1>6 DEF CacheTypes
  <1>8. \A x \in mode : x # o => parent'[x] = parent[x] /\ (x \in direct_trackable' <=> x \in direct_trackable)
    BY <1>4, <1>5, <1>6
  <1>9. \A x \in path : /\ parent'[x] = IF proto[x] \in Objects THEN proto[x] ELSE NoObject
                        /\ x \in direct_trackable' <=> proto[x] # ProxyTop
    <2>1. direct_trackable \subseteq mode
      BY <1>1 DEF CacheTypes
    <2> QED
      BY <1>4, <1>5, <1>6, <2>1
  <1>10. parent'[o] = (IF p \in Objects THEN p ELSE NoObject) /\ (o \in direct_trackable' <=> p # ProxyTop)
    BY <1>5, <1>6
  <1>11. TrackableIsKnown'
    BY <1>1, <1>3, <1>6, <1>8, <1>9, EnterTracks
  <1>12. StatesLinked'
    <2>1. SUFFICES ASSUME NEW x \in mode'
                   PROVE  /\ parent'[x] = IF proto'[x] \in Objects THEN proto'[x] ELSE NoObject
                          /\ proto'[x] \in Objects => proto'[x] \in mode' /\ x \in users'[proto'[x]]
                          /\ x \in direct_trackable' <=> proto'[x] # ProxyTop
      BY DEF StatesLinked
    <2>2. CASE x = o
      <3>1. p \in Objects => o \in users'[p]
        BY <1>6
      <3> QED
        BY <1>4, <1>6, <1>7, <1>10, <2>2, <3>1
    <2>3. CASE x \in mode /\ x # o
      <3>1. proto'[x] = proto[x]
        BY <1>5, <1>7, <2>3
      <3>2. proto[x] \in Objects => proto[x] \in mode' /\ x \in users'[proto[x]]
        BY <1>1, <1>6, <2>3 DEF StatesLinked
      <3> QED
        BY <1>1, <1>8, <2>3, <3>1, <3>2 DEF StatesLinked
    <2>4. CASE x \in path
      <3>1. proto'[x] = proto[x]
        BY <1>4, <1>5, <1>7, <2>4
      <3>2. proto[x] \in Objects => proto[x] \in mode' /\ x \in users'[proto[x]]
        BY <1>4, <1>6, <2>4
      <3> QED
        BY <1>9, <2>4, <3>1, <3>2
    <2> QED
      BY <1>6, <2>1, <2>2, <2>3, <2>4
  <1>13. CacheTypes'
    <2>1. proto' \in [Objects -> Objects \cup Tops]
      BY <1>1, <1>2, <1>6 DEF CacheTypes
    <2>2. parent' \in [Objects -> Objects \cup {NoObject}]
      BY <1>1, <1>6 DEF CacheTypes
    <2>3. users' \in [Objects -> SUBSET mode']
      BY <1>1, <1>2, <1>6 DEF CacheTypes
    <2>4. /\ mode' \in SUBSET Objects /\ direct_trackable' \in SUBSET mode'
          /\ trackable' \in SUBSET mode' /\ valid' \in SUBSET mode' /\ pending' \in SUBSET mode'
      BY <1>1, <1>2, <1>4, <1>5, <1>6 DEF CacheTypes
    <2> QED
      BY <1>1, <2>1, <2>2, <2>3, <2>4 DEF CacheTypes
  <1>14. Acyclic(proto)'
    <2>1. o \notin Above(p, proto)
      BY <1>2 DEF Chain
    <2>2. Acyclic(proto')
      BY <1>1, <1>5, <1>7, <2>1, StaysAcyclic
    <2> QED
      BY <2>2 DEF Acyclic
  <1>15. RebaseIsSound'
    BY <1>1 DEF RebaseIsSound
  <1>16. ValidUpwards'
    <2>1. SUFFICES ASSUME NEW x \in valid, x # o
                   PROVE  /\ x \in mode' /\ x \in trackable'
                          /\ parent'[x] # NoObject => parent'[x] \in valid
      BY <1>1, <1>6 DEF ValidUpwards
    <2>2. x \in mode
      BY <1>1, <2>1 DEF CacheTypes
    <2> QED
      BY <1>1, <1>6, <1>8, <2>1, <2>2 DEF ValidUpwards
  <1>17. EntriesGuarded'
    <2>1. SUFFICES ASSUME NEW e \in site PROVE EntryGuarded(e)'
      BY <1>1 DEF EntriesGuarded
    <2>2. EntryGuarded(e)
      BY <2>1 DEF CacheInv, EntriesGuarded
    <2>3. \A x \in mode' : x \in pending' \/ Unmoved(x)
      BY <1>1, <1>4, <1>5, <1>6, <1>7 DEF Unmoved
    <2> QED
      BY <1>1, <1>12, <1>13, <2>2, <2>3, EntryStays
  <1> QED
    BY <1>11, <1>12, <1>13, <1>14, <1>15, <1>16, <1>17 DEF CacheInv

-----------------------------------------------------------------------------
(* The theorems                                                            *)

LEMMA CacheNextKeeps == CacheInv /\ [CacheNext]_cacheVars => CacheInv'
  <1> SUFFICES ASSUME CacheInv, [CacheNext]_cacheVars PROVE CacheInv'
    OBVIOUS
  <1>1. ASSUME NEW o \in Objects, NEW v \in Values, overwrite(o, v) PROVE CacheInv'
    BY <1>1, overwriteKeeps
  <1>2. ASSUME NEW o \in Objects, NEW s \in Slots \ {Absent}, append(o, s) PROVE CacheInv'
    BY <1>2, appendKeeps
  <1>3. ASSUME NEW o \in Objects, NEW s \in Slots \ {Absent}, reconfigure(o, s) PROVE CacheInv'
    BY <1>3, reconfigureKeeps
  <1>4. ASSUME NEW o \in Objects, remove(o) PROVE CacheInv'
    BY <1>4, removeKeeps
  <1>5. ASSUME NEW o \in Objects, NEW p \in Objects \cup Tops, set_prototype(o, p) PROVE CacheInv'
    BY <1>5, set_prototypeKeeps
  <1>6. CASE reparent
    BY <1>6, reparentKeeps
  <1>7. ASSUME NEW o \in Objects, invalidate(o) PROVE CacheInv'
    BY <1>7, invalidateKeeps
  <1>8. ASSUME NEW r \in Objects, read_plain(r) PROVE CacheInv'
    BY <1>8, read_plainKeeps
  <1>9. ASSUME NEW r \in Objects, read_inherited(r) PROVE CacheInv'
    BY <1>9, read_inheritedKeeps
  <1>10. ASSUME NEW r \in Objects, enumerate_keys(r) PROVE CacheInv'
    BY <1>10, enumerate_keysKeeps
  <1>11. CASE UNCHANGED cacheVars
    <2>1. UNCHANGED <<proto, slots, mode, parent, users, direct_trackable, trackable, valid,
                      value_writes, pending, becoming, site, mega>>
      BY <1>11 DEF cacheVars, chainVars, modeVars, siteVars
    <2>2. CacheTypes' /\ Acyclic(proto)' /\ StatesLinked'
      BY <2>1 DEF CacheInv, CacheTypes, Acyclic, StatesLinked
    <2>3. RebaseIsSound' /\ TrackableIsKnown' /\ ValidUpwards'
      BY <2>1 DEF CacheInv, RebaseIsSound, Chain, TrackableIsKnown, tracked, ValidUpwards
    <2>4. EntriesGuarded'
      BY <2>1 DEF CacheInv, EntriesGuarded, EntryGuarded, Fresh, Holders, Chain
    <2> QED
      BY <2>2, <2>3, <2>4 DEF CacheInv
  <1> QED
    BY <1>1, <1>2, <1>3, <1>4, <1>5, <1>6, <1>7, <1>8, <1>9, <1>10, <1>11 DEF CacheNext

LEMMA CacheAlways == CacheSpec => []CacheInv
  BY CacheInitInv, CacheNextKeeps, PTL DEF CacheSpec

\* What the walk of PrototypeState::invalidate relies on when it skips a
\* state: above a valid cell every cell is valid, unless it is on the list.
THEOREM CellsValidUpwards == CacheSpec => []ValidUpwards
  <1>1. CacheInv => ValidUpwards
    BY DEF CacheInv
  <1> QED
    BY <1>1, CacheAlways, PTL

\* A hit of the read site returns what the generic lookup would, whatever
\* was written, defined, removed or reparented since the entry was recorded.
THEOREM HitsAreGeneric == CacheSpec => []CacheIsFresh
  <1>1. CacheInv => CacheIsFresh
    <2>1. SUFFICES ASSUME CacheInv, Idle, NEW e \in site, NEW r \in Objects, matches(e, r)
                   PROVE  fetch(e, r) = generic(r)
      BY DEF CacheIsFresh
    <2>2. /\ CacheTypes /\ Acyclic(proto) /\ EntryGuarded(e) /\ pending = {}
          /\ e.layout = <<proto[r], kind_of(slots[r])>>
      BY <2>1 DEF CacheInv, EntriesGuarded, Idle, matches, layout
    <2>3. slots[r] \in Slots /\ proto[r] \in Objects \cup Tops
      BY <2>2 DEF CacheTypes
    <2>4. CASE e.token = NoObject /\ (e.layout[2] # "missing" \/ e.layout[1] = NoObject)
      <3>1. fetch(e, r) = slots[r]
        BY <2>4 DEF fetch
      <3>2. CASE slots[r] # Absent
        BY <3>1, <3>2 DEF generic
      <3>3. CASE slots[r] = Absent
        <4>1. proto[r] = NoObject
          BY <2>2, <2>3, <2>4, <3>3, KindsOfSlots
        <4>2. Chain(NoObject) = {}
          BY AboveEnds, CacheAssumption DEF Chain
        <4>3. inherited(NoObject) = Absent
          BY <4>2 DEF inherited, Holders
        <4> QED
          BY <3>1, <3>3, <4>1, <4>3 DEF generic
      <3> QED
        BY <3>2, <3>3
    <2>5. CASE e.token \in valid /\ e.layout = <<e.token, "missing">> /\ Fresh(e)
      <3>1. e.token = proto[r] /\ slots[r] = Absent /\ e.token # NoObject
        BY <2>2, <2>3, <2>5, KindsOfSlots, CacheAssumption DEF CacheTypes
      <3>2. generic(r) = inherited(e.token)
        BY <3>1 DEF generic
      <3>3. CASE e.kind = "missing"
        BY <2>5, <3>1, <3>2, <3>3 DEF Fresh, fetch, inherited
      <3>4. CASE e.kind # "missing"
        <4>1. e.holder \in Holders(e.token) /\ e.kind = slots[e.holder].kind
          BY <2>5, <3>4 DEF Fresh
        <4>2. holder_of(e.token) \in Holders(e.token)
          BY <4>1 DEF holder_of
        <4>3. holder_of(e.token) = e.holder
          BY <2>2, <4>1, <4>2, OneHolder
        <4>4. generic(r) = slots[e.holder]
          BY <3>2, <4>1, <4>3 DEF inherited
        <4>5. e.holder \in Objects /\ slots[e.holder] # Absent
          BY <4>1, AboveFacts DEF Holders, Chain
        <4>6. slots[e.holder] \in [kind : {"data", "accessor"}, value : Values]
          BY <2>2, <4>5, KindsOfSlots DEF CacheTypes
        <4>7. CASE e.constant = Absent
          BY <3>1, <3>4, <4>4, <4>7 DEF fetch
        <4>8. CASE e.constant # Absent
          <5>1. e.constant = slots[e.holder].value
            BY <2>5, <3>4, <4>8 DEF Fresh
          <5>2. fetch(e, r) = [kind |-> e.kind, value |-> e.constant]
            BY <3>1, <3>4, <4>8 DEF fetch
          <5> QED
            BY <4>1, <4>4, <4>6, <5>1, <5>2
        <4> QED
          BY <4>7, <4>8
      <3> QED
        BY <3>3, <3>4
    <2> QED
      BY <2>2, <2>4, <2>5 DEF EntryGuarded
  <1> QED
    BY <1>1, CacheAlways, PTL
===============================================================================
