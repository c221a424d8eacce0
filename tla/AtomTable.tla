----------------------------- MODULE AtomTable -----------------------------
(***************************************************************************)
(* Property keys (property/atom.rs). A key in use is one KeyRecord, shared *)
(* by its leases, and everything else compares records and their ids. The  *)
(* table that finds a record by text or by symbol address holds it weakly, *)
(* dead entries stay until a sweep, and the id of a record is handed out   *)
(* again once its last lease is gone.                                      *)
(*                                                                         *)
(* A symbol is an object at an address; `object` numbers the objects an    *)
(* address has held, and a program holds the current one or not.           *)
(***************************************************************************)
EXTENDS Naturals, Sequences, FiniteSets, SequencesExt

CONSTANTS Texts, Addresses,
          IdLimit,          \* AtomTable.limit
          MinSweep,         \* MIN_SWEEP_LEN
          MaxCreated,       \* BOUND on the records ever created
          MaxLeases,        \* BOUND on the leases of one record
          MaxObjects        \* BOUND on the objects of an address

ASSUME AtomAssumption ==
    /\ Texts \cap Addresses = {}
    /\ IdLimit \in Nat \ {0} /\ MinSweep \in Nat \ {0}
    /\ MaxCreated \in Nat /\ MaxLeases \in Nat /\ MaxObjects \in Nat

VARIABLES records,          \* every record created: its key and its id
          leases,           \* the leases of each
          table,            \* entries and symbols: the record each names
          next_id, free_ids, sweep_at,
          object, holds_symbol

atomVars == <<records, leases, table, next_id, free_ids, sweep_at, object,
              holds_symbol>>

-----------------------------------------------------------------------------
Record == DOMAIN records
Live == {r \in Record : leases[r] > 0}

(* Two keys are one key if they are the same text or the same object.      *)
text_key(t) == <<t, 0>>
symbol_key(a) == <<a, object[a]>>

upgrade(where) == {r \in Live : where \in DOMAIN table /\ table[where] = r}

without(f, where) == [w \in DOMAIN f \ {where} |-> f[w]]

(* AtomTable::sweep_if_due, of the table the new record is not in yet.     *)
due(entries) == Cardinality(DOMAIN entries) >= sweep_at

swept(entries) ==
    IF ~ due(entries) THEN entries
    ELSE [w \in {w \in DOMAIN entries : entries[w] \in Live} |-> entries[w]]

next_sweep(entries) ==
    LET twice == 2 * Cardinality(DOMAIN swept(entries)) IN
    IF ~ due(entries) THEN sweep_at
    ELSE IF twice > MinSweep THEN twice ELSE MinSweep

(* Variant: the record holds its symbol weakly. *)
pinned_weakly(a) == FALSE

(* A record holds its symbol, so nothing else can lie at its address.      *)
pinned(a) == \E r \in Live : records[r].key = symbol_key(a)

-----------------------------------------------------------------------------
AtomInit ==
    /\ records = <<>> /\ leases = <<>> /\ table = <<>>
    /\ next_id = 1 /\ free_ids = <<>> /\ sweep_at = MinSweep
    /\ object = [a \in Addresses |-> 1]
    /\ holds_symbol = [a \in Addresses |-> TRUE]

take_id(id) ==
    IF free_ids # <<>>
    THEN /\ id = Last(free_ids)
         /\ free_ids' = Front(free_ids)
         /\ UNCHANGED next_id
    ELSE /\ next_id <= IdLimit
         /\ id = next_id
         /\ next_id' = next_id + 1
         /\ UNCHANGED free_ids

another_lease(r) ==
    /\ leases[r] < MaxLeases
    /\ leases' = [leases EXCEPT ![r] = @ + 1]

(* try_intern and try_intern_symbol: the live record, or a new one in the  *)
(* place of a dead one. With no id left the process aborts. MaxCreated     *)
(* bounds the records.                                                     *)
find(where) ==
    /\ \E r \in upgrade(where) : another_lease(r)
    /\ UNCHANGED <<records, table, next_id, free_ids, sweep_at, object, holds_symbol>>

create(where, key, entries) ==
    /\ upgrade(where) = {}
    /\ Len(records) < MaxCreated
    /\ \E id \in 1..IdLimit :
          /\ take_id(id)
          /\ records' = Append(records, [key |-> key, id |-> id])
    /\ leases' = Append(leases, 1)
    /\ table' = [w \in DOMAIN swept(entries) \cup {where} |->
                    IF w = where THEN Len(records) + 1 ELSE swept(entries)[w]]
    /\ sweep_at' = next_sweep(entries)
    /\ UNCHANGED <<object, holds_symbol>>

try_intern(t) == find(t) \/ create(t, text_key(t), without(table, t))

try_intern_symbol(a) ==
    /\ holds_symbol[a]
    /\ find(a) \/ create(a, symbol_key(a), table)

(* A lease is cloned, or dropped: the last one drops the record, and       *)
(* KeyRecord::drop gives its id back.                                      *)
clone(r) ==
    /\ leases[r] > 0
    /\ another_lease(r)
    /\ UNCHANGED <<records, table, next_id, free_ids, sweep_at, object, holds_symbol>>

drop(r) ==
    /\ leases[r] > 0
    /\ leases' = [leases EXCEPT ![r] = @ - 1]
    /\ free_ids' = IF leases[r] = 1 THEN Append(free_ids, records[r].id) ELSE free_ids
    /\ UNCHANGED <<records, table, next_id, sweep_at, object, holds_symbol>>

(* A program lets go of a symbol; once no record holds it either, another  *)
(* object may come to lie at its address.                                  *)
release_symbol(a) ==
    /\ holds_symbol[a]
    /\ holds_symbol' = [holds_symbol EXCEPT ![a] = FALSE]
    /\ UNCHANGED <<records, leases, table, next_id, free_ids, sweep_at, object>>

new_symbol(a) ==
    /\ ~ holds_symbol[a] /\ ~ pinned(a)
    /\ object[a] < MaxObjects
    /\ object' = [object EXCEPT ![a] = @ + 1]
    /\ holds_symbol' = [holds_symbol EXCEPT ![a] = TRUE]
    /\ UNCHANGED <<records, leases, table, next_id, free_ids, sweep_at>>

AtomNext ==
    \/ \E t \in Texts : try_intern(t)
    \/ \E a \in Addresses : try_intern_symbol(a) \/ release_symbol(a) \/ new_symbol(a)
    \/ \E r \in Record : clone(r) \/ drop(r)

AtomSpec == AtomInit /\ [][AtomNext]_atomVars

-----------------------------------------------------------------------------
(* A key in use is one record: the table finds it, also after a sweep, and *)
(* at the address of its own symbol only; its id is no other record's and  *)
(* not free; and no id is free twice.                                      *)
LeasesIdentifyKeys ==
    /\ \A r, s \in Live : r # s => /\ records[r].key # records[s].key
                                   /\ records[r].id # records[s].id
    /\ \A r \in Live : /\ records[r].key[1] \in DOMAIN table
                       /\ table[records[r].key[1]] = r
                       /\ ~ Contains(free_ids, records[r].id)
    /\ \A a \in Addresses, r \in Live :
          r \in upgrade(a) => records[r].key = symbol_key(a)
    /\ IsInjective(free_ids)
=============================================================================
