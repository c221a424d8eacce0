-------------------------- MODULE CombinatorOutcome --------------------------
(***************************************************************************)
(* What Promise.all, allSettled, any and race promise about the one        *)
(* promise they return: which answers of the elements they wait for, and   *)
(* when and with what they settle.  No counter, no array, no guard:        *)
(* PromiseCombinators is the code.                                         *)
(***************************************************************************)
EXTENDS Integers, Sequences

CONSTANTS
  MaxElements,              \* BOUND on the elements of the iterable
  Answers,                  \* values and reasons of the elements
  Errors,                   \* what iterating may throw
  Unanswered, Unsettled

Kinds == {"all", "allSettled", "any", "race"}

Ways == {"resolve", "reject"}

VARIABLES
  kind,                     \* which combinator was called
  got,                      \* per element, the answer it is waited for
  phase,                    \* "iterating", "complete" or "aborted"
  settled                   \* how the returned promise was settled

vars == <<kind, got, phase, settled>>

\* The answers a combinator waits for; any other settles it directly.
WaitsFor(how) ==
  \/ kind = "allSettled"
  \/ kind = "all" /\ how = "resolve"
  \/ kind = "any" /\ how = "reject"

Init ==
  /\ kind \in Kinds /\ got = <<>>
  /\ phase = "iterating" /\ settled = Unsettled

First(s) == IF settled = Unsettled THEN s ELSE settled

AllAnswered(answers) == \A i \in DOMAIN answers : answers[i] # Unanswered

\* A complete set of answers: an aggregate of them all.
Aggregate(answers) == [how |-> IF kind = "any" THEN "reject" ELSE "resolve", with |-> answers]

Element ==
  /\ phase = "iterating" /\ Len(got) < MaxElements
  /\ got' = Append(got, Unanswered)
  /\ UNCHANGED <<kind, phase, settled>>

Complete ==
  /\ phase = "iterating" /\ phase' = "complete"
  /\ settled' = IF kind # "race" /\ AllAnswered(got) THEN First(Aggregate(got)) ELSE settled
  /\ UNCHANGED <<kind, got>>

Abort ==
  /\ phase = "iterating" /\ phase' = "aborted"
  /\ \E e \in Errors : settled' = First([how |-> "reject", with |-> e])
  /\ UNCHANGED <<kind, got>>

\* Element i answers; only its first answer that is waited for counts.
Answer(i, how, v) ==
  /\ IF ~WaitsFor(how)
     THEN settled' = First([how |-> how, with |-> v]) /\ UNCHANGED got
     ELSE /\ got[i] = Unanswered
          /\ got' = [got EXCEPT ![i] = [how |-> how, with |-> v]]
          /\ settled' = IF phase = "complete" /\ AllAnswered(got')
                        THEN First(Aggregate(got')) ELSE settled
  /\ UNCHANGED <<kind, phase>>

Next ==
  \/ Element \/ Complete \/ Abort
  \/ \E i \in DOMAIN got, how \in Ways, v \in Answers : Answer(i, how, v)

Spec == Init /\ [][Next]_vars

=============================================================================
