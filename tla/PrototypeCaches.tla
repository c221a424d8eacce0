-------------------------- MODULE PrototypeCaches --------------------------
(***************************************************************************)
(* A property read site remembers where it found its property:            *)
(* bytecode/named_property_cache.rs keeps up to four entries, each guarded *)
(* by the layout of the receiver and, when the property was inherited, by  *)
(* one validity cell for the whole prototype chain                         *)
(* (value/layout/prototype.rs). No entry is told of a change: an edit of   *)
(* an object that has been a prototype invalidates its cell and, by a work *)
(* list over its registered users, the cells of every prototype below it.  *)
(* The walk skips a state whose cell is already invalid, which is sound    *)
(* only because arming a cell arms those above it.                         *)
(*                                                                         *)
(* One property is modelled, on any number of objects; Absent is an object *)
(* without it. ProxyTop is a Proxy used as a prototype, which cannot be    *)
(* tracked. The host runs one thing at a time, so nothing acts before the  *)
(* work list is empty.                                                     *)
(***************************************************************************)
EXTENDS Naturals, FiniteSets

CONSTANTS Objects,          \* ordinary objects, each perhaps a prototype
          Values,           \* what a data slot or an accessor pair holds
          NoObject, ProxyTop, Absent,
          ValueWriteLimit,  \* writes after which a holder is read live (4)
          CacheWays         \* entries of a site before it gives up (4)

ASSUME CacheAssumption ==
    /\ NoObject # ProxyTop
    /\ {NoObject, ProxyTop, Absent} \cap Objects = {}
    /\ Absent \notin Values
    /\ Absent \notin [kind : {"data", "accessor"}, value : Values]
    /\ ValueWriteLimit \in Nat
    /\ CacheWays \in Nat \ {0}

VARIABLES proto,            \* [[Prototype]] of each object
          slots,            \* its own property
          mode,             \* objects with a PrototypeState
          parent,           \* the state above, as that state knows it
          users,            \* the states below that each knows of
          direct_trackable, \* states whose own prototype is no Proxy
          trackable,        \* states with no Proxy anywhere above
          valid,            \* states whose current cell is valid
          value_writes,     \* writes of each holder that invalidated
          pending,          \* the work list of invalidate
          becoming,         \* the prototype a rebase has yet to install
          site,             \* entries of the read site
          mega              \* the site has given up caching

chainVars == <<proto, slots>>
modeVars == <<mode, parent, users, direct_trackable>>
siteVars == <<site, mega>>
cacheVars == <<chainVars, modeVars, trackable, valid, value_writes, pending,
               becoming, siteVars>>

-----------------------------------------------------------------------------
(* Chains and the generic lookup *)

Slots == {Absent} \cup [kind : {"data", "accessor"}, value : Values]
Tops == {NoObject, ProxyTop}
NotRebasing == <<NoObject, NoObject>>

kind_of(s) == IF s = Absent THEN "missing" ELSE s.kind

(* start and what one reaches from it by up: the least set closed by up. *)
Above(start, up) ==
    {x \in Objects : \A S \in SUBSET Objects :
        (/\ start \in Objects => start \in S
         /\ \A y \in S : up[y] \in Objects => up[y] \in S) => x \in S}

Chain(o) == Above(o, proto)

(* The objects of the chain with the property and with no other below.     *)
Holders(p) ==
    {h \in Chain(p) :
        /\ slots[h] # Absent
        /\ \A g \in Chain(p) : slots[g] # Absent => g \in Chain(h)}

holder_of(p) == IF Holders(p) = {} THEN NoObject ELSE CHOOSE h \in Holders(p) : TRUE

inherited(p) == IF Holders(p) = {} THEN Absent ELSE slots[holder_of(p)]

(* What a read with no cache finds. *)
generic(r) == IF slots[r] # Absent THEN slots[r] ELSE inherited(proto[r])

(* The walk of resolve ends: at a holder, or at the end of a chain that no *)
(* Proxy cuts short.                                                       *)
resolves(p) ==
    \/ Holders(p) # {}
    \/ /\ p # ProxyTop
       /\ \A x \in Chain(p) : proto[x] # ProxyTop

-----------------------------------------------------------------------------
(* The read site *)

layout(o) == <<proto[o], kind_of(slots[o])>>

(* constant is the value copied at the record, or Absent when the holder's *)
(* slot is to be read live. token is the state whose cell guards the entry, *)
(* NoObject if none does. An entry whose cell is invalidated never matches *)
(* again (arming makes a new cell) and is the first to be replaced, so it  *)
(* is dropped at once.                                                     *)
Entries ==
    [layout : (Objects \cup Tops) \X {"missing", "data", "accessor"},
     token : Objects \cup {NoObject},
     kind : {"missing", "data", "accessor"},
     holder : Objects \cup {NoObject}, constant : Values \cup {Absent}]

matches(e, r) == e.layout = layout(r)

fetch(e, r) ==
    CASE e.token = NoObject -> slots[r]
      [] e.token # NoObject /\ e.kind = "missing" -> Absent
      [] e.token # NoObject /\ e.kind # "missing" ->
            IF e.constant # Absent
            THEN [kind |-> e.kind, value |-> e.constant]
            ELSE slots[e.holder]

(* A full site of live entries turns megamorphic and forgets them all.     *)
record(e) ==
    IF Cardinality(site) < CacheWays
    THEN site' = site \cup {e} /\ UNCHANGED mega
    ELSE site' = {} /\ mega' = TRUE

-----------------------------------------------------------------------------
(* Prototype states *)

(* The states enter_prototype_mode creates, from start up to the first     *)
(* that exists.                                                            *)
entered(start) ==
    IF start \in mode THEN {}
    ELSE Above(start, [y \in Objects |->
                          IF proto[y] \in mode THEN NoObject ELSE proto[y]])

entered_trackable(path) ==
    \A x \in path : /\ proto[x] # ProxyTop
                    /\ proto[x] \in mode => proto[x] \in trackable

enter_prototype_mode(path) ==
    /\ mode' = mode \cup path
    /\ parent' = [x \in Objects |->
                    IF x \notin path THEN parent[x]
                    ELSE IF proto[x] \in Objects THEN proto[x] ELSE NoObject]
    /\ users' = [x \in Objects |->
                    users[x] \cup {u \in path : proto[u] = x}]
    /\ direct_trackable' =
          direct_trackable \cup {x \in path : proto[x] # ProxyTop}
    /\ trackable' =
          trackable \cup (IF entered_trackable(path) THEN path ELSE {})

(* Variant: the cell asked for is armed and none above it. *)
armed_alone(p, up) == {p}

(* token arms the cell of p and the invalid ones above, up to a valid one. *)
armed(p, up) ==
    Above(p, [y \in Objects |-> IF up[y] \in valid THEN NoObject ELSE up[y]])

(* Invalidation starts at o if o has a state. *)
invalidate_dependencies(o) == pending' = {o} \cap mode

(* Variant: the last write that should invalidate does not. *)
value_write_short(o) ==
    IF o \in mode /\ value_writes[o] + 1 < ValueWriteLimit
    THEN /\ value_writes' = [value_writes EXCEPT ![o] = @ + 1]
         /\ pending' = {o}
    ELSE UNCHANGED <<value_writes, pending>>

value_write(o) ==
    IF o \in mode /\ value_writes[o] < ValueWriteLimit
    THEN /\ value_writes' = [value_writes EXCEPT ![o] = @ + 1]
         /\ pending' = {o}
    ELSE UNCHANGED <<value_writes, pending>>

-----------------------------------------------------------------------------
Acyclic(up) == \A o \in Objects : up[o] \in Objects => o \notin Above(up[o], up)

CacheInit ==
    /\ proto \in {f \in [Objects -> Objects \cup Tops] : Acyclic(f)}
    /\ slots \in [Objects -> Slots]
    /\ mode = {} /\ direct_trackable = {} /\ trackable = {} /\ valid = {}
    /\ parent = [o \in Objects |-> NoObject]
    /\ users = [o \in Objects |-> {}]
    /\ value_writes = [o \in Objects |-> 0]
    /\ pending = {} /\ becoming = NotRebasing
    /\ site = {} /\ mega = FALSE

Idle == pending = {} /\ becoming = NotRebasing

(* NamedStore::overwrite_guarded_data, install of an existing property.    *)
overwrite(o, v) ==
    /\ Idle
    /\ slots[o] # Absent
    /\ value_write(o)
    /\ slots' = [slots EXCEPT ![o].value = v]
    /\ UNCHANGED <<proto, modeVars, trackable, valid, becoming, siteVars>>

(* Lookup::define of a missing property: append a slot.                    *)
append(o, s) ==
    /\ Idle
    /\ slots[o] = Absent
    /\ slots' = [slots EXCEPT ![o] = s]
    /\ invalidate_dependencies(o)
    /\ UNCHANGED <<proto, modeVars, trackable, valid, value_writes, becoming,
                   siteVars>>

(* Lookup::define with other attributes: data becomes accessor or back. It *)
(* invalidates and then writes the slot, which counts as a value write.    *)
reconfigure(o, s) ==
    /\ Idle
    /\ slots[o] # Absent
    /\ s.kind # slots[o].kind
    /\ slots' = [slots EXCEPT ![o] = s]
    /\ invalidate_dependencies(o)
    /\ value_writes' =
          IF o \in mode /\ value_writes[o] < ValueWriteLimit
          THEN [value_writes EXCEPT ![o] = @ + 1] ELSE value_writes
    /\ UNCHANGED <<proto, modeVars, trackable, valid, becoming, siteVars>>

remove(o) ==
    /\ Idle
    /\ slots[o] # Absent
    /\ slots' = [slots EXCEPT ![o] = Absent]
    /\ invalidate_dependencies(o)
    /\ UNCHANGED <<proto, modeVars, trackable, valid, value_writes, becoming,
                   siteVars>>

(* ObjectRef::set_prototype_slot and the first half of NamedStore::rebase: *)
(* a cycle is refused, the dependants of the old chain are invalidated.    *)
set_prototype(o, p) ==
    /\ Idle
    /\ p # proto[o]
    /\ o \notin Chain(p)
    /\ invalidate_dependencies(o)
    /\ IF o \in mode
       THEN becoming' = <<o, p>> /\ UNCHANGED proto
       ELSE proto' = [proto EXCEPT ![o] = p] /\ UNCHANGED becoming
    /\ UNCHANGED <<slots, modeVars, trackable, valid, value_writes, siteVars>>

(* The second half, when the first invalidation is over: the new chain gets *)
(* its states, this state its new parent, and its dependants are invalidated *)
(* again, their trackability with them. The registration left with the old *)
(* parent counts for nothing (invalidate drops it) and is dropped here.    *)
reparent ==
    /\ pending = {} /\ becoming # NotRebasing
    /\ LET o == becoming[1]
           p == becoming[2]
           path == entered(p)
       IN /\ proto' = [proto EXCEPT ![o] = p]
          /\ mode' = mode \cup path
          /\ parent' = [x \in Objects |->
                IF x = o THEN IF p \in Objects THEN p ELSE NoObject
                ELSE IF x \notin path THEN parent[x]
                ELSE IF proto[x] \in Objects THEN proto[x] ELSE NoObject]
          /\ users' = [x \in Objects |->
                (users[x] \ {o}) \cup {u \in path : proto[u] = x}
                                 \cup (IF x = p THEN {o} ELSE {})]
          /\ direct_trackable' =
                ((direct_trackable \cup {x \in path : proto[x] # ProxyTop}) \ {o})
                    \cup (IF p # ProxyTop THEN {o} ELSE {})
          /\ trackable' =
                trackable \cup (IF entered_trackable(path) THEN path ELSE {})
          /\ pending' = {o}
    /\ becoming' = NotRebasing
    /\ UNCHANGED <<slots, valid, value_writes, siteVars>>

(* One step of PrototypeState::invalidate. *)
tracked(o) ==
    o \in direct_trackable /\ (parent[o] # NoObject => parent[o] \in trackable)

skips(o) == o \notin valid /\ (tracked(o) <=> o \in trackable)

invalidate(o) ==
    /\ o \in pending
    /\ IF skips(o)
       THEN /\ pending' = pending \ {o}
            /\ UNCHANGED <<trackable, valid, site>>
       ELSE /\ valid' = valid \ {o}
            /\ site' = {e \in site : e.token # o}
            /\ trackable' = IF tracked(o) THEN trackable \cup {o}
                                          ELSE trackable \ {o}
            /\ pending' = (pending \ {o}) \cup users[o]
    /\ UNCHANGED <<chainVars, modeVars, value_writes, becoming, mega>>

(* A read that misses: CacheData::read_target, record_resolution. An own   *)
(* property or a property missing from an object with no prototype needs   *)
(* no token; an inherited outcome is recorded only if the chain gives one. *)
plain_entry(r) ==
    [layout |-> layout(r), token |-> NoObject,
     kind |-> kind_of(slots[r]), holder |-> NoObject, constant |-> Absent]

chain_entry(r, p) ==
    LET h == holder_of(p) IN
    [layout |-> layout(r), token |-> p,
     kind |-> kind_of(inherited(p)), holder |-> h,
     constant |-> IF h # NoObject /\ value_writes[h] < ValueWriteLimit
                  THEN slots[h].value ELSE Absent]

misses(r) == Idle /\ ~ mega /\ \A e \in site : ~ matches(e, r)

read_plain(r) ==
    /\ misses(r)
    /\ slots[r] # Absent \/ proto[r] = NoObject
    /\ record(plain_entry(r))
    /\ UNCHANGED <<chainVars, modeVars, trackable, valid, value_writes,
                   pending, becoming>>

read_inherited(r) ==
    LET p == proto[r] IN
    /\ misses(r)
    /\ slots[r] = Absent /\ p \in Objects
    /\ resolves(p)
    /\ enter_prototype_mode(entered(p))
    /\ IF p \in trackable'
       THEN /\ valid' = valid \cup armed(p, parent')
            /\ record(chain_entry(r, p))
       ELSE UNCHANGED <<valid, siteVars>>
    /\ UNCHANGED <<chainVars, value_writes, pending, becoming>>

(* Other sites and the for-in key caches take tokens of the same chains.   *)
enumerate_keys(r) ==
    LET p == proto[r] IN
    /\ Idle
    /\ p \in Objects
    /\ enter_prototype_mode(entered(p))
    /\ valid' = IF p \in trackable' THEN valid \cup armed(p, parent') ELSE valid
    /\ UNCHANGED <<chainVars, value_writes, pending, becoming, siteVars>>

CacheNext ==
    \/ \E o \in Objects, v \in Values : overwrite(o, v)
    \/ \E o \in Objects, s \in Slots \ {Absent} : append(o, s) \/ reconfigure(o, s)
    \/ \E o \in Objects : remove(o)
    \/ \E o \in Objects, p \in Objects \cup Tops : set_prototype(o, p)
    \/ reparent
    \/ \E o \in Objects : invalidate(o)
    \/ \E r \in Objects : read_plain(r) \/ read_inherited(r) \/ enumerate_keys(r)

CacheSpec == CacheInit /\ [][CacheNext]_cacheVars

-----------------------------------------------------------------------------
(* Whatever was written, defined, removed or reparented since an entry was *)
(* recorded, a hit returns what the generic lookup would (the verify mode  *)
(* of named_property_cache.rs asserts the same of one hit).                *)
CacheIsFresh ==
    Idle => \A e \in site, r \in Objects :
                matches(e, r) => fetch(e, r) = generic(r)

(* The states above a valid cell are valid, or about to be invalidated     *)
(* themselves: what lets invalidate skip a state whose cell is invalid.    *)
ValidUpwards ==
    \A o \in valid \ pending :
        /\ o \in mode
        /\ o \in trackable
        /\ parent[o] # NoObject => parent[o] \in valid
=============================================================================
