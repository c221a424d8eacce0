-------------------------- MODULE PromiseCombinators --------------------------
(***************************************************************************)
(* Promise.all, allSettled, any and race (crates/qjs-runtime/src/promise:  *)
(* perform.rs, all.rs, all_settled.rs, any.rs, race.rs).  One call iterates *)
(* an iterable and hands two functions to the then method of each element. *)
(* Elements are objects of the script's: their then methods, and the code  *)
(* of the iterator, may call any of the functions they have been handed,   *)
(* at once or later, both of them, and more than once.                     *)
(***************************************************************************)
EXTENDS Integers, Sequences, FiniteSets

CONSTANTS
  MaxElements,              \* BOUND on the elements of the iterable
  Answers,                  \* values and reasons of the elements
  Errors,                   \* what iterating may throw
  Undefined, Unanswered, Unsettled

Kinds == {"all", "allSettled", "any", "race"}

Ways == {"resolve", "reject"}

Array == "array"            \* the array of the values, by reference

Answered == [how : Ways, with : Answers]

ASSUME CombinatorAssumption ==
  /\ MaxElements \in Nat
  /\ Undefined # Unanswered /\ Unanswered \notin Answered
  /\ Array \notin Answers \cup Errors
  /\ Unsettled \notin [how : Ways,
                        with : Answers \cup Errors \cup {Array} \cup Seq(Answered)]

VARIABLES
  kind,                     \* which combinator was called
  phase,                    \* of its loop over the iterable
  values,                   \* the array (the errors of Promise.any)
  remaining,                \* the shared count
  called,                   \* elements whose alreadyCalled cell is set
  settled                   \* the first call of the capability's functions

vars == <<kind, phase, values, remaining, called, settled>>

\* The functions handed to an element that are element functions; the others
\* are the resolve and the reject of the capability.
element_function(how) ==
  \/ kind = "allSettled"
  \/ kind = "all" /\ how = "resolve"
  \/ kind = "any" /\ how = "reject"

Init ==
  /\ kind \in Kinds /\ phase = "iterating"
  /\ values = <<>> /\ remaining = 1 /\ called = {}
  /\ settled = Unsettled

\* The capability's pair has an alreadyResolved cell.
capability(how, with) ==
  settled' = IF settled = Unsettled THEN [how |-> how, with |-> with] ELSE settled

\* Promise.any rejects, with an AggregateError of the array.
AggregateWay == IF kind = "any" THEN "reject" ELSE "resolve"

\* Decrement (never below 0), and settle with the array when that gives 0.
decrement_remaining ==
  /\ remaining' = IF remaining > 0 THEN remaining - 1 ELSE 0
  /\ IF remaining' = 0 THEN capability(AggregateWay, Array) ELSE UNCHANGED settled

\* Promise.race keeps no count.
Counts == kind # "race"

already_called(i) == i \in called

\* Variant of on_element: the element is not counted.
on_element_uncounted ==
  /\ phase = "iterating" /\ Len(values) < MaxElements
  /\ values' = Append(values, Undefined)
  /\ UNCHANGED <<kind, phase, remaining, called, settled>>

\* process_element: reserve the slot, count the element, call its then.
on_element ==
  /\ phase = "iterating" /\ Len(values) < MaxElements
  /\ values' = Append(values, Undefined)
  /\ remaining' = IF Counts THEN remaining + 1 ELSE remaining
  /\ UNCHANGED <<kind, phase, called, settled>>

\* Variant of on_complete: the loop keeps its count.
on_complete_counted ==
  /\ phase = "iterating" /\ phase' = "complete"
  /\ UNCHANGED <<kind, values, remaining, called, settled>>

\* The iterator is done; race has nothing left to do.
on_complete ==
  /\ phase = "iterating" /\ phase' = "complete"
  /\ IF Counts THEN decrement_remaining ELSE UNCHANGED <<remaining, settled>>
  /\ UNCHANGED <<kind, values, called>>

\* The iterator, C.resolve or a then method throws: the loop is left, and the
\* error rejects the capability.
abort ==
  /\ phase = "iterating" /\ phase' = "aborted"
  /\ \E e \in Errors : capability("reject", e)
  /\ UNCHANGED <<kind, values, remaining, called>>

\* Variant of settle_element: no alreadyCalled cell.
settle_element_again(i, how, v) ==
  /\ IF ~element_function(how)
     THEN capability(how, v) /\ UNCHANGED <<values, remaining, called>>
     ELSE /\ called' = called \cup {i}
          /\ values' = [values EXCEPT ![i] = [how |-> how, with |-> v]]
          /\ decrement_remaining
  /\ UNCHANGED <<kind, phase>>

\* Variant of settle_element: the cell of the next element is set.
settle_element_next(i, how, v) ==
  /\ IF ~element_function(how)
     THEN capability(how, v) /\ UNCHANGED <<values, remaining, called>>
     ELSE /\ i + 1 \notin called
          /\ called' = called \cup {i + 1}
          /\ values' = [values EXCEPT ![i] = [how |-> how, with |-> v]]
          /\ decrement_remaining
  /\ UNCHANGED <<kind, phase>>

\* Somebody calls a function of element i.
settle_element(i, how, v) ==
  /\ IF ~element_function(how)
     THEN capability(how, v) /\ UNCHANGED <<values, remaining, called>>
     ELSE /\ ~already_called(i)
          /\ called' = called \cup {i}
          /\ values' = [values EXCEPT ![i] = [how |-> how, with |-> v]]
          /\ decrement_remaining
  /\ UNCHANGED <<kind, phase>>

Next ==
  \/ on_element \/ on_complete \/ abort
  \/ \E i \in DOMAIN values, how \in Ways, v \in Answers : settle_element(i, how, v)

Spec == Init /\ [][Next]_vars

-----------------------------------------------------------------------------
(* Properties.                                                             *)

\* The shape of the shared record and of the array.
TypeOK ==
  /\ kind \in Kinds /\ phase \in {"iterating", "complete", "aborted"}
  /\ values \in Seq(Answered \cup {Undefined}) /\ Len(values) <= MaxElements
  /\ remaining \in Nat
  /\ called \subseteq DOMAIN values
  /\ settled \in [how : Ways, with : Answers \cup Errors \cup {Array}] \cup {Unsettled}

open == {i \in DOMAIN values : i \notin called}

\* The count is one for each element that has not answered and one for the
\* loop, so it reaches 0 with the last answer and never before the loop's end.
RemainingExact ==
  kind # "race" =>
    remaining = Cardinality(open) + (IF phase = "complete" THEN 0 ELSE 1)

\* The script gets the array itself, not a copy of it: once it has, nobody
\* writes to it, whatever functions are still called.
ArrayIsFinal ==
  [][settled # Unsettled /\ settled.with = Array => values' = values]_vars

\* The combinator settles as its kind promises: see CombinatorOutcome.
Outcome == INSTANCE CombinatorOutcome WITH
  got <- [i \in DOMAIN values |-> IF i \in called THEN values[i] ELSE Unanswered],
  settled <- IF settled # Unsettled /\ settled.with = Array
             THEN [settled EXCEPT !.with = values] ELSE settled

ImplementsOutcome == Outcome!Spec

=============================================================================
