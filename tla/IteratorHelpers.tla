--------------------------- MODULE IteratorHelpers ---------------------------
(***************************************************************************)
(* One iterator helper (crates/qjs-runtime/src/iterator/helpers.rs,        *)
(* zip.rs, protocol.rs) and the iterators it has opened. Each call of an   *)
(* iterator's next or return, and of a callback, is user code that may     *)
(* throw, and may call the helper's own next and return.                   *)
(*                                                                         *)
(* The underlying iterator, or the one zip takes its iterables from, is    *)
(* Source; the inner ones of flatMap and those of concat and zip are       *)
(* numbered as they are opened. Left out: the values; drop, which is a     *)
(* filter without a callback; and the arrays that zip reads without an     *)
(* iterator, which are never closed.                                       *)
(***************************************************************************)
EXTENDS Integers, Sequences, FiniteSets, SequencesExt

CONSTANT MaxItems           \* BOUND on the iterators opened besides Source

ASSUME HelperAssumption == MaxItems \in Nat

Source == 0
Padding == MaxItems + 1
Items == 1 .. MaxItems
NoItem == Source            \* as an item

HelperKinds == {"map", "filter", "take", "flatMap", "concat", "zip", "zipKeyed"}
Zips == {"zip", "zipKeyed"}
ZipModes == {"shortest", "longest", "strict"}

VARIABLES
  helper,                   \* HELPER_KIND
  zip_mode,
  budget,                   \* HELPER_REMAINING, of take
  active,                   \* HELPER_INNER, or CONCAT_ACTIVE
  items,                    \* the iterators opened so far
  entry_open,               \* the records of zip that are open
  helper_started, helper_executing, helper_done,
  native,                   \* the native on the stack, or "none" or "failed"
  calling,                  \* what it calls: "next", "callback" or "return"
  to_close,                 \* the iterators it closes, in order
  at, produced, matching,   \* locals of advance_zip_state
  opened, over,             \* history: opened; exhausted or failed
  closed,                   \* history: the calls of return
  inner_failed              \* history: a value or a return of an inner one threw

flagVars == <<helper_started, helper_executing, helper_done>>
zipVars == <<entry_open, at, produced, matching>>
historyVars == <<opened, over, closed, inner_failed>>
helperVars == <<helper, zip_mode, budget, active, items, flagVars, native, calling,
                to_close, zipVars, historyVars>>

HelperInit ==
  /\ helper \in HelperKinds /\ zip_mode \in ZipModes /\ budget \in 0 .. 1
  /\ helper \notin Zips => zip_mode = "shortest"
  /\ helper # "take" => budget = 0
  /\ active = NoItem /\ items = 0 /\ entry_open = {}
  /\ helper_started = FALSE /\ helper_executing = FALSE /\ helper_done = FALSE
  /\ native = "construct" /\ calling = "next" /\ to_close = <<>>
  /\ at = 0 /\ produced = FALSE /\ matching = FALSE
  /\ opened = IF helper \in {"concat", "zipKeyed"} THEN {} ELSE {Source}
  /\ over = {} /\ closed = <<>> /\ inner_failed = FALSE

-----------------------------------------------------------------------------
(* Steps that several natives take.                                        *)

\* The native is done with the helper: next returns a value, or it ends.
Returns(done) ==
  /\ native' = IF native = "construct" /\ done THEN "failed" ELSE "none"
  /\ helper_executing' = FALSE
  /\ helper_done' = (helper_done \/ done)
  /\ calling' = "next"
  /\ UNCHANGED <<helper_started, to_close>>

\* Calls return of the iterators, one after another, and then it ends.
Closes(order) ==
  IF order = <<>> THEN Returns(TRUE)
  ELSE to_close' = order /\ calling' = "return" /\ UNCHANGED <<native, flagVars>>

\* Variant of ZipOrder: the first comes first.
ZipOrderForward(S) ==
  CHOOSE s \in [1 .. Cardinality(S) -> S] : \A i, j \in DOMAIN s : i < j => s[i] < s[j]

\* The last comes first.
ZipOrder(S) ==
  CHOOSE s \in [1 .. Cardinality(S) -> S] : \A i, j \in DOMAIN s : i < j => s[i] > s[j]

\* A call of next, or of the getters of its result, ends the iterator.
Over(i) == over' = over \cup {i} /\ UNCHANGED <<opened, closed, inner_failed>>

\* Variant of Propagates: what zip's iterators throw is propagated at once.
PropagatesAlways == native = "return"

\* close_helper_iterators leaves with the first error, but for zip's iterators.
Propagates == native = "return" /\ helper \notin Zips

close_one(throws) ==
  /\ calling = "return"
  /\ closed' = Append(closed, Head(to_close))
  /\ inner_failed' = (inner_failed \/ (throws /\ helper = "flatMap" /\ Head(to_close) # Source))
  /\ LET rest == IF throws /\ Propagates THEN <<>> ELSE Tail(to_close)
     IN IF rest = <<>>
          THEN /\ native' = IF native = "construct" THEN "failed" ELSE "none"
               /\ helper_executing' = FALSE /\ helper_done' = TRUE
               /\ calling' = "next" /\ to_close' = <<>>
          ELSE to_close' = rest /\ UNCHANGED <<native, calling, helper_executing, helper_done>>
  /\ UNCHANGED <<helper, zip_mode, budget, active, items, helper_started, zipVars, opened, over>>

-----------------------------------------------------------------------------
(* Construction.                                                           *)

\* map, filter, take, flatMap and concat: a bad argument closes the underlying
\* iterator; one whose next cannot be read is left alone.
native_lazy_helper(outcome) ==
  /\ native = "construct" /\ calling = "next" /\ helper \notin Zips
  /\ \/ outcome = "value" /\ Returns(FALSE) /\ UNCHANGED historyVars
     \/ outcome = "throw" /\ helper # "concat" /\ Over(Source) /\ Returns(TRUE)
     \/ outcome = "bad" /\ helper = "concat" /\ Returns(TRUE) /\ UNCHANGED historyVars
     \/ outcome = "bad" /\ helper # "concat" /\ Closes(<<Source>>) /\ UNCHANGED historyVars
  /\ UNCHANGED <<helper, zip_mode, budget, active, items, zipVars>>

\* The records so far, and the iterator of the iterables if S has it.
ClosesRecords(S) == Closes(ZipOrder(1 .. items \cup S))

zip_ready ==
  /\ Returns(FALSE)
  /\ entry_open' = 1 .. items /\ at' = 1
  /\ UNCHANGED <<produced, matching>>

\* zip takes an iterable and opens it; zipKeyed reads a property.
zip_input(outcome) ==
  /\ native = "construct" /\ calling = "next" /\ helper \in Zips
  /\ \/ /\ outcome = "value" /\ items < MaxItems
        /\ items' = items + 1 /\ opened' = opened \cup {items + 1}
        /\ UNCHANGED <<native, calling, to_close, flagVars, zipVars, over, closed, inner_failed>>
     \/ /\ outcome = "bad" /\ helper = "zip"
        /\ ClosesRecords({Source})
        /\ UNCHANGED <<items, zipVars, historyVars>>
     \/ /\ outcome = "throw" /\ ClosesRecords({})
        /\ IF helper = "zip" THEN Over(Source) ELSE UNCHANGED historyVars
        /\ UNCHANGED <<items, zipVars>>
     \/ /\ outcome = "end"
        /\ \/ zip_ready /\ over' = over \cup (opened \cap {Source}) /\ UNCHANGED opened
           \/ /\ zip_mode = "longest" /\ calling' = "padding"
              /\ over' = over \cup (opened \cap {Source})
              /\ opened' = opened \cup (IF helper = "zip" THEN {Padding} ELSE {})
              /\ UNCHANGED <<native, to_close, flagVars, zipVars>>
        /\ UNCHANGED <<items, closed, inner_failed>>
  /\ UNCHANGED <<helper, zip_mode, budget, active>>

\* The values of the padding, one for each record, from an iterator that is closed
\* when it has more, or from properties.
zip_padding(outcome) ==
  /\ native = "construct" /\ calling = "padding"
  /\ \/ outcome = "value" /\ at < items /\ at' = at + 1
        /\ UNCHANGED <<native, calling, to_close, flagVars, entry_open, produced, matching, historyVars>>
     \/ outcome = "end" /\ at < items /\ helper = "zip" /\ zip_ready /\ Over(Padding)
     \/ /\ outcome = "throw" /\ at < items /\ ClosesRecords({})
        /\ IF helper = "zip" THEN Over(Padding) ELSE UNCHANGED historyVars
        /\ UNCHANGED zipVars
     \/ /\ at = items
        /\ IF helper = "zip" THEN closed' = Append(closed, Padding) ELSE UNCHANGED closed
        /\ \/ outcome = "value" /\ zip_ready
           \/ outcome = "throw" /\ helper = "zip" /\ ClosesRecords({}) /\ UNCHANGED zipVars
        /\ UNCHANGED <<opened, over, inner_failed>>
  /\ UNCHANGED <<helper, zip_mode, budget, active, items>>

-----------------------------------------------------------------------------
(* next.                                                                   *)

\* A helper that is done or executing answers at once.
native_helper_next ==
  /\ native = "none" /\ ~ helper_done /\ ~ helper_executing
  /\ native' = "next" /\ helper_executing' = TRUE /\ helper_started' = TRUE
  /\ at' = 1 /\ produced' = FALSE /\ matching' = FALSE
  /\ UNCHANGED <<helper, zip_mode, budget, active, items, helper_done, calling, to_close,
                 entry_open, historyVars>>

Steps(kinds) == native = "next" /\ calling = "next" /\ helper \in kinds

\* map and filter step the underlying iterator, and flatMap when it has no inner one.
advance_source(outcome) ==
  /\ Steps({"map", "filter", "flatMap"}) /\ active = NoItem
  /\ IF outcome = "value"
       THEN calling' = "callback" /\ UNCHANGED <<native, to_close, flagVars, historyVars>>
       ELSE Over(Source) /\ Returns(TRUE)
  /\ UNCHANGED <<helper, zip_mode, budget, active, items, zipVars>>

\* The callback: an error closes the underlying iterator, and so does, for flatMap, a
\* value that is no iterable. A filter may go on.
helper_callback(outcome) ==
  /\ native = "next" /\ calling = "callback"
  /\ \/ outcome = "throw" /\ Closes(<<Source>>) /\ UNCHANGED <<active, items, historyVars>>
     \/ /\ outcome = "value" /\ helper # "flatMap"
        /\ Returns(FALSE) /\ UNCHANGED <<active, items, historyVars>>
     \/ /\ outcome = "value" /\ helper = "flatMap" /\ items < MaxItems
        /\ items' = items + 1 /\ active' = items + 1 /\ opened' = opened \cup {items + 1}
        /\ calling' = "next"
        /\ UNCHANGED <<native, to_close, flagVars, over, closed, inner_failed>>
     \/ /\ outcome = "end" /\ helper = "filter" /\ calling' = "next"
        /\ UNCHANGED <<native, to_close, flagVars, active, items, historyVars>>
  /\ UNCHANGED <<helper, zip_mode, budget, zipVars>>

\* flatMap steps its inner iterator, whose failing next closes the underlying one. A
\* result whose value cannot be read ("bad") does not.
advance_inner(outcome) ==
  /\ Steps({"flatMap"}) /\ active # NoItem
  /\ \/ outcome = "value" /\ Returns(FALSE) /\ UNCHANGED <<active, historyVars>>
     \/ /\ outcome = "end" /\ Over(active) /\ active' = NoItem
        /\ UNCHANGED <<native, calling, to_close, flagVars>>
     \/ outcome = "throw" /\ Over(active) /\ Closes(<<Source>>) /\ UNCHANGED active
     \/ /\ outcome = "bad" /\ Returns(TRUE)
        /\ over' = over \cup {active} /\ inner_failed' = TRUE
        /\ UNCHANGED <<active, opened, closed>>
  /\ UNCHANGED <<helper, zip_mode, budget, items, zipVars>>

\* take closes the underlying iterator when it is asked for more than its limit.
advance_take(outcome) ==
  /\ Steps({"take"})
  /\ \/ outcome = "value" /\ budget = 0 /\ Closes(<<Source>>) /\ UNCHANGED <<budget, historyVars>>
     \/ /\ budget > 0 /\ budget' = budget - 1
        /\ IF outcome = "value" THEN Returns(FALSE) /\ UNCHANGED historyVars
           ELSE Over(Source) /\ Returns(TRUE)
  /\ UNCHANGED <<helper, zip_mode, active, items, zipVars>>

\* concat steps its active iterator, or opens the next one, or has no more.
advance_concat(outcome) ==
  /\ Steps({"concat"})
  /\ \/ /\ active # NoItem
        /\ \/ outcome = "value" /\ Returns(FALSE) /\ UNCHANGED <<active, historyVars>>
           \/ /\ outcome = "end" /\ Over(active) /\ active' = NoItem
              /\ UNCHANGED <<native, calling, to_close, flagVars>>
           \/ outcome = "throw" /\ Over(active) /\ Returns(TRUE) /\ UNCHANGED active
        /\ UNCHANGED items
     \/ /\ active = NoItem
        /\ \/ /\ outcome = "value" /\ items < MaxItems
              /\ items' = items + 1 /\ active' = items + 1 /\ opened' = opened \cup {items + 1}
              /\ UNCHANGED <<native, calling, to_close, flagVars, over, closed, inner_failed>>
           \/ outcome \in {"end", "throw"} /\ Returns(TRUE) /\ UNCHANGED <<items, active, historyVars>>
  /\ UNCHANGED <<helper, zip_mode, budget, zipVars>>

\* Variant of Failed: the record that failed is still open.
FailedStillOpen(i) == entry_open

\* The records that stay open when one has failed or ended.
Failed(i) == entry_open \ {i}

\* zip takes a value from each record. Shortest closes the others when one ends, strict
\* looks whether all of them end with the first, and every failure closes the others.
advance_zip(outcome) ==
  /\ Steps(Zips) /\ at \in entry_open
  /\ \/ /\ outcome = "value" /\ ~ matching
        /\ at' = at + 1 /\ produced' = TRUE
        /\ UNCHANGED <<native, calling, to_close, flagVars, entry_open, matching, historyVars>>
     \/ /\ outcome = "value" /\ matching
        /\ Closes(ZipOrder(entry_open)) /\ entry_open' = {}
        /\ UNCHANGED <<at, produced, matching, historyVars>>
     \/ /\ outcome = "end" /\ Over(at)
        /\ IF zip_mode = "longest" \/ (zip_mode = "strict" /\ (matching \/ at = 1))
             THEN /\ entry_open' = Failed(at) /\ at' = at + 1
                  /\ matching' = (zip_mode = "strict")
                  /\ UNCHANGED <<native, calling, to_close, flagVars, produced>>
             ELSE /\ Closes(ZipOrder(Failed(at))) /\ entry_open' = {}
                  /\ UNCHANGED <<at, produced, matching>>
     \/ /\ outcome = "throw" /\ Over(at)
        /\ Closes(ZipOrder(Failed(at))) /\ entry_open' = {}
        /\ UNCHANGED <<at, produced, matching>>
  /\ UNCHANGED <<helper, zip_mode, budget, active, items>>

\* A record that has ended is padded; after the last one there is a result, or none.
zip_passes ==
  /\ Steps(Zips) /\ at \notin entry_open
  /\ IF at <= items
       THEN at' = at + 1 /\ UNCHANGED <<native, calling, to_close, flagVars>>
       ELSE Returns(items = 0 \/ matching \/ ~ produced) /\ UNCHANGED at
  /\ UNCHANGED <<helper, zip_mode, budget, active, items, entry_open, produced, matching, historyVars>>

-----------------------------------------------------------------------------
(* return.                                                                 *)

\* Variant of Guarded: a helper that has not started is not marked before it closes.
GuardedLate ==
  helper_executing' = helper_started /\ UNCHANGED helper_done

\* What keeps user code from entering the helper while it closes.
Guarded ==
  /\ helper_executing' = helper_started
  /\ helper_done' = (helper_done \/ ~ helper_started)

\* What close_helper_iterators closes.
HeldOpen ==
  IF helper \in Zips THEN ZipOrder(entry_open)
  ELSE (IF active = NoItem THEN <<>> ELSE <<active>>)
         \o (IF helper = "concat" THEN <<>> ELSE <<Source>>)

native_helper_return ==
  /\ native = "none" /\ ~ helper_done /\ ~ helper_executing
  /\ entry_open' = {}
  /\ to_close' = HeldOpen
  /\ IF HeldOpen = <<>>
       THEN helper_done' = TRUE /\ UNCHANGED <<native, calling, helper_executing>>
       ELSE native' = "return" /\ calling' = "return" /\ Guarded
  /\ UNCHANGED <<helper, zip_mode, budget, active, items, helper_started, at, produced, matching,
                 historyVars>>

Outcomes == {"value", "end", "throw", "bad"}

HelperNext ==
  \/ \E o \in Outcomes :
       \/ native_lazy_helper(o) \/ zip_input(o) \/ zip_padding(o)
       \/ advance_source(o) \/ helper_callback(o) \/ advance_inner(o)
       \/ advance_take(o) \/ advance_concat(o) \/ advance_zip(o)
  \/ \E throws \in BOOLEAN : close_one(throws)
  \/ native_helper_next \/ zip_passes \/ native_helper_return

HelperSpec == HelperInit /\ [][HelperNext]_helperVars

-----------------------------------------------------------------------------
(* Properties.                                                             *)

\* Whatever throws, ends or is called again in the middle, no iterator is closed twice
\* or once it is over, those of zip are closed last to first, and when the helper has
\* ended, or was not made, none of them is left open, except the underlying one of a
\* flatMap whose inner one failed in its return or in the value of a result. And while
\* it works nobody enters it, since it is executing or done (helpers.rs:734-741).
EveryIteratorReleased ==
  /\ IsInjective(closed)
  /\ \A i \in DOMAIN closed : closed[i] \in opened \ over
  /\ helper \in Zips =>
       \A i, j \in DOMAIN closed : i < j /\ closed[i] # Padding => closed[i] > closed[j]
  /\ native = "failed" \/ (native = "none" /\ helper_done) =>
       opened \ (over \cup Range(closed)) \subseteq (IF inner_failed THEN {Source} ELSE {})
  /\ native \in {"next", "return"} => helper_executing \/ helper_done

=============================================================================
