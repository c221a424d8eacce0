---------------------- MODULE PromiseCombinators_proofs ----------------------
(***************************************************************************)
(* Proofs about PromiseCombinators, for any number of elements and any     *)
(* answers: the shared count is exact, the array is never written to once  *)
(* the script has it, and the counter with its alreadyCalled cells         *)
(* implements what the combinators promise.                                *)
(***************************************************************************)
EXTENDS PromiseCombinators, FiniteSetTheorems, TLAPS

\* Append, as a function.
LEMMA AppendIs ==
  ASSUME NEW S, NEW s \in Seq(S), NEW x \in S
  PROVE  Append(s, x) = [i \in 1 .. Len(s) + 1 |-> IF i <= Len(s) THEN s[i] ELSE x]
  <1> DEFINE longer == Append(s, x)
  <1>1. /\ longer \in Seq(S) /\ Len(longer) = Len(s) + 1 /\ Len(s) \in Nat
        /\ \A i \in 1 .. Len(s) + 1 : longer[i] = IF i <= Len(s) THEN s[i] ELSE x
    OBVIOUS
  <1> HIDE DEF longer
  <1>2. longer = [i \in 1 .. Len(longer) |-> longer[i]]
    BY <1>1
  <1>3. longer = [i \in 1 .. Len(s) + 1 |-> IF i <= Len(s) THEN s[i] ELSE x]
    BY <1>1, <1>2
  <1> QED BY <1>3 DEF longer

\* The array has been handed to the script.
Delivered == settled # Unsettled /\ settled.with = Array

\* What the count makes true: the array is handed over after the loop, with
\* every element answered; and a called element has its answer in the array.
CountInv ==
  /\ TypeOK
  /\ RemainingExact
  /\ Delivered => kind # "race" /\ phase = "complete" /\ open = {}
  /\ \A i \in called : values[i] \in Answered

\* The open elements are finitely many.
LEMMA OpenFinite ==
  ASSUME TypeOK
  PROVE  IsFiniteSet(open) /\ Cardinality(open) \in Nat
                           /\ (Cardinality(open) = 0 <=> open = {})
  <1>1. DOMAIN values = 1 .. Len(values) /\ Len(values) \in Nat
    BY DEF TypeOK
  <1>2. IsFiniteSet(DOMAIN values)
    BY <1>1, FS_Interval
  <1>3. open \subseteq DOMAIN values
    BY DEF open
  <1>4. IsFiniteSet(open)
    BY <1>2, <1>3, FS_Subset
  <1> QED BY <1>4, FS_CardinalityType, FS_EmptySet

\* One call of the capability keeps the type of settled.
LEMMA CapabilityType ==
  ASSUME TypeOK, NEW how \in Ways, NEW with \in Answers \cup Errors \cup {Array},
         capability(how, with)
  PROVE  settled' \in [how : Ways, with : Answers \cup Errors \cup {Array}] \cup {Unsettled}
  BY DEF capability, TypeOK

\* An answer of element i: its slot is filled, and it is no longer open.
LEMMA AnswerKeeps ==
  ASSUME CountInv, NEW i \in DOMAIN values, NEW how \in Ways, NEW v \in Answers,
         i \notin called, element_function(how),
         called' = called \cup {i},
         values' = [values EXCEPT ![i] = [how |-> how, with |-> v]],
         decrement_remaining, UNCHANGED <<kind, phase>>
  PROVE  CountInv' /\ open' = open \ {i} /\ DOMAIN values' = DOMAIN values
         /\ (remaining' = 0 <=> phase = "complete" /\ open' = {})
         /\ ~Delivered
  <1>1. DOMAIN values' = DOMAIN values /\ Len(values') = Len(values)
        /\ values' \in Seq(Answered \cup {Undefined})
    BY DEF CountInv, TypeOK, Answered
  <1>2. open' = open \ {i} /\ i \in open
    BY <1>1 DEF open
  <1>3. Cardinality(open') = Cardinality(open) - 1 /\ Cardinality(open) \in Nat
        /\ Cardinality(open') \in Nat /\ (Cardinality(open') = 0 <=> open' = {})
    <2>1. IsFiniteSet(open)
      BY OpenFinite DEF CountInv
    <2>2. Cardinality(open') = Cardinality(open) - 1 /\ IsFiniteSet(open')
      BY <1>2, <2>1, FS_RemoveElement
    <2> QED BY <2>1, <2>2, FS_CardinalityType, FS_EmptySet
  <1>4. kind # "race"
    BY DEF element_function
  <1>5. remaining = Cardinality(open) + (IF phase = "complete" THEN 0 ELSE 1)
    BY <1>4 DEF CountInv, RemainingExact
  <1>6. remaining' = remaining - 1 /\ remaining' \in Nat
    BY <1>3, <1>5 DEF decrement_remaining, AggregateWay
  <1>7. RemainingExact' /\ (remaining' = 0 <=> phase = "complete" /\ open' = {})
    BY <1>3, <1>5, <1>6 DEF RemainingExact
  <1>8. settled' \in [how : Ways, with : Answers \cup Errors \cup {Array}] \cup {Unsettled}
    BY CapabilityType DEF decrement_remaining, CountInv, TypeOK, Ways, AggregateWay
  <1>9. TypeOK'
    BY <1>1, <1>6, <1>8 DEF CountInv, TypeOK
  <1>10. ~Delivered
    BY <1>2 DEF CountInv
  <1>11. Delivered' => phase' = "complete" /\ open' = {}
    BY <1>7, <1>10 DEF decrement_remaining, Delivered, AggregateWay
  <1>12. \A k \in called' : values'[k] \in Answered
    BY DEF CountInv, TypeOK, Answered
  <1> QED BY <1>1, <1>2, <1>4, <1>7, <1>9, <1>10, <1>11, <1>12 DEF CountInv

\* A new element is open, and counted.
LEMMA ElementKeeps ==
  ASSUME CountInv, on_element
  PROVE  CountInv' /\ ~Delivered
         /\ DOMAIN values' = 1 .. Len(values) + 1 /\ Len(values) + 1 \notin called
  <1>1. DOMAIN values' = 1 .. Len(values) + 1 /\ Len(values') = Len(values) + 1
        /\ values' \in Seq(Answered \cup {Undefined})
        /\ \A i \in DOMAIN values : values'[i] = values[i]
    BY DEF CountInv, TypeOK, on_element, Counts
  <1>2. Len(values) + 1 \notin called /\ DOMAIN values = 1 .. Len(values)
    BY DEF CountInv, TypeOK
  <1>3. open' = open \cup {Len(values) + 1} /\ Len(values) + 1 \notin open
    BY <1>1, <1>2 DEF open, on_element, Counts
  <1>4. Cardinality(open') = Cardinality(open) + 1 /\ Cardinality(open) \in Nat
    BY <1>3, OpenFinite, FS_AddElement DEF CountInv
  <1>5. RemainingExact'
    BY <1>4 DEF CountInv, RemainingExact, on_element, Counts
  <1>6. ~Delivered /\ ~Delivered'
    BY DEF CountInv, on_element, Delivered, Counts
  <1>7. TypeOK'
    BY <1>1, CombinatorAssumption DEF CountInv, TypeOK, on_element, Counts
  <1>8. \A i \in called' : values'[i] \in Answered
    BY <1>1 DEF CountInv, TypeOK, on_element, Counts
  <1> QED BY <1>1, <1>2, <1>5, <1>6, <1>7, <1>8 DEF CountInv

\* The end of the loop gives back the loop's count.
LEMMA CompleteKeeps ==
  ASSUME CountInv, on_complete
  PROVE  CountInv' /\ open' = open /\ ~Delivered
         /\ (kind # "race" => (remaining' = 0 <=> open = {}))
  <1>1. open' = open
    BY DEF open, on_complete, Counts
  <1>2. Cardinality(open) \in Nat /\ (Cardinality(open) = 0 <=> open = {})
    BY OpenFinite DEF CountInv
  <1>3. ~Delivered
    BY DEF CountInv, on_complete, Counts
  <1>4. CASE kind = "race"
    BY <1>1, <1>3, <1>4 DEF CountInv, TypeOK, RemainingExact, on_complete, Delivered, Counts
  <1>5. CASE kind # "race"
    <2>1. decrement_remaining
      BY <1>5 DEF on_complete, Counts
    <2>2. remaining = Cardinality(open) + 1
      BY <1>5 DEF CountInv, RemainingExact, on_complete, Counts
    <2>3. remaining' = Cardinality(open)
      BY <1>2, <2>1, <2>2 DEF decrement_remaining, AggregateWay
    <2>4. settled' \in [how : Ways, with : Answers \cup Errors \cup {Array}] \cup {Unsettled}
      BY <2>1, CapabilityType DEF decrement_remaining, CountInv, TypeOK, Ways, AggregateWay
    <2>5. TypeOK'
      BY <1>2, <2>3, <2>4 DEF CountInv, TypeOK, on_complete, Counts
    <2>6. Delivered' => open = {}
      BY <1>2, <1>3, <2>1, <2>3 DEF decrement_remaining, Delivered, AggregateWay
    <2> QED BY <1>1, <1>2, <1>3, <1>5, <2>3, <2>5, <2>6
            DEF CountInv, RemainingExact, on_complete, Counts
  <1> QED BY <1>4, <1>5

\* A call of the capability with something else than the array.
LEMMA DirectKeeps ==
  ASSUME CountInv, NEW how \in Ways, NEW with \in Answers \cup Errors,
         capability(how, with), UNCHANGED <<kind, values, remaining, called>>,
         phase' \in {phase, "aborted"},
         phase' = phase \/ phase = "iterating"
  PROVE  CountInv' /\ Delivered' = Delivered
  <1>1. open' = open
    BY DEF open
  <1>2. TypeOK'
    BY CapabilityType DEF CountInv, TypeOK
  <1>3. Delivered' = Delivered
    BY CombinatorAssumption DEF capability, Delivered
  <1> QED BY <1>1, <1>2, <1>3 DEF CountInv, RemainingExact

\* Every step keeps the invariant.
LEMMA CountInductive == CountInv /\ [Next]_vars => CountInv'
  <1> SUFFICES ASSUME CountInv, [Next]_vars PROVE CountInv'
    OBVIOUS
  <1>1. CASE on_element
    BY <1>1, ElementKeeps
  <1>2. CASE on_complete
    BY <1>2, CompleteKeeps
  <1>3. CASE abort
    <2>1. PICK e \in Errors : capability("reject", e)
      BY <1>3 DEF abort
    <2> QED BY <1>3, <2>1, DirectKeeps DEF abort, Ways
  <1>4. ASSUME NEW i \in DOMAIN values, NEW how \in Ways, NEW v \in Answers,
               settle_element(i, how, v)
        PROVE  CountInv'
    BY <1>4, AnswerKeeps, DirectKeeps DEF settle_element, already_called
  <1>5. CASE UNCHANGED vars
    BY <1>5 DEF vars, CountInv, TypeOK, RemainingExact, Delivered, open
  <1> QED BY <1>1, <1>2, <1>3, <1>4, <1>5 DEF Next

\* It holds when the combinator is called.
LEMMA CountInitial == Init => CountInv
  <1> SUFFICES ASSUME Init PROVE CountInv
    OBVIOUS
  <1>1. values = <<>> /\ DOMAIN values = {} /\ Len(values) = 0
    BY DEF Init
  <1>2. open = {}
    BY <1>1 DEF open
  <1>3. TypeOK
    BY <1>1, CombinatorAssumption DEF Init, TypeOK
  <1> QED BY <1>2, <1>3, FS_EmptySet DEF Init, CountInv, RemainingExact, Delivered

\* It holds always.
LEMMA CountAlways == Spec => []CountInv
  BY CountInitial, CountInductive, PTL DEF Spec

\* remaining is the number of unanswered elements, plus one for the loop: the
\* shared cell that the element functions and the loop decrement, whatever the
\* order in which elements answer, answer twice, or the iterator throws.
THEOREM RemainingIsExact == Spec => []RemainingExact
  <1>1. CountInv => RemainingExact
    BY DEF CountInv
  <1> QED BY <1>1, CountAlways, PTL

\* Once the returned promise is settled with the array, no element function
\* writes to it.
THEOREM ArrayNeverWritten == Spec => ArrayIsFinal
  <1>1. CountInv /\ [Next]_vars =>
          [settled # Unsettled /\ settled.with = Array => values' = values]_vars
    <2> SUFFICES ASSUME CountInv, Next, Delivered PROVE values' = values
      BY DEF vars, Delivered
    <2>1. ~on_element /\ ~abort
      BY DEF CountInv, on_element, abort, Counts
    <2>2. CASE on_complete
      BY <2>2 DEF on_complete, Counts
    <2>3. ASSUME NEW i \in DOMAIN values, NEW how \in Ways, NEW v \in Answers,
                 settle_element(i, how, v)
          PROVE  values' = values
      BY <2>3 DEF CountInv, settle_element, open, already_called
    <2> QED BY <2>1, <2>2, <2>3 DEF Next
  <1> QED BY <1>1, CountAlways, PTL DEF Spec, ArrayIsFinal

-----------------------------------------------------------------------------
(* The refinement.                                                         *)

\* The answers the combinator waits for, as Outcome sees them.
answers == [i \in DOMAIN values |-> IF i \in called THEN values[i] ELSE Unanswered]

seen == IF Delivered THEN [settled EXCEPT !.with = values] ELSE settled

\* What Outcome calls an answered element is one whose cell is set.
LEMMA AnswersAre ==
  ASSUME CountInv
  PROVE  /\ DOMAIN answers = DOMAIN values /\ Len(answers) = Len(values)
         /\ answers \in Seq(Answered \cup {Unanswered})
         /\ \A i \in DOMAIN values : answers[i] # Unanswered <=> i \in called
         /\ Outcome!AllAnswered(answers) <=> open = {}
         /\ open = {} => answers = values
         /\ seen = Unsettled <=> settled = Unsettled
  <1>1. values \in Seq(Answered \cup {Undefined}) /\ DOMAIN values = 1 .. Len(values)
        /\ Len(values) \in Nat
    BY DEF CountInv, TypeOK
  <1>2. DOMAIN answers = DOMAIN values
    BY DEF answers
  <1>3. \A i \in DOMAIN values : answers[i] \in Answered \cup {Unanswered}
    BY DEF answers, CountInv
  <1>4. answers \in Seq(Answered \cup {Unanswered}) /\ Len(answers) = Len(values)
    <2>1. answers = [i \in 1 .. Len(values) |-> answers[i]]
      BY <1>1, <1>2 DEF answers
    <2> QED BY <1>1, <1>2, <1>3, <2>1
  <1>5. \A i \in DOMAIN values : answers[i] # Unanswered <=> i \in called
    BY CombinatorAssumption DEF answers, CountInv
  <1>6. Outcome!AllAnswered(answers) <=> open = {}
    BY <1>2, <1>5 DEF Outcome!AllAnswered, open
  <1>7. open = {} => answers = values
    <2>1. ASSUME open = {} PROVE answers = [i \in DOMAIN values |-> values[i]]
      BY <2>1 DEF answers, open
    <2> QED BY <1>1, <2>1
  <1>8. seen = Unsettled <=> settled = Unsettled
    <2>1. CASE ~Delivered
      BY <2>1 DEF seen
    <2>2. CASE Delivered
      <3>1. kind # "race" /\ open = {} /\ settled # Unsettled
        BY <2>2 DEF CountInv, Delivered
      <3>2. settled \in [how : Ways, with : Answers \cup Errors \cup {Array}]
        BY <3>1 DEF CountInv, TypeOK
      <3>3. seen = [how |-> settled.how, with |-> values]
        BY <2>2, <3>2 DEF seen
      <3>4. values \in Seq(Answered)
        <4>1. \A i \in DOMAIN values : values[i] \in Answered
          BY <3>1 DEF open, CountInv
        <4>2. values = [i \in 1 .. Len(values) |-> values[i]]
          BY <1>1
        <4> QED BY <1>1, <4>1, <4>2
      <3> QED BY <3>1, <3>2, <3>3, <3>4, CombinatorAssumption
    <2> QED BY <2>1, <2>2
  <1> QED BY <1>2, <1>4, <1>5, <1>6, <1>7, <1>8

\* A call of the capability with something else than the array is seen as it is.
LEMMA DirectSeen ==
  ASSUME CountInv, NEW how \in Ways, NEW with \in Answers \cup Errors,
         capability(how, with), UNCHANGED values
  PROVE  seen' = IF seen = Unsettled THEN [how |-> how, with |-> with] ELSE seen
  <1>1. seen = Unsettled <=> settled = Unsettled
    BY AnswersAre
  <1>2. CASE settled = Unsettled
    BY <1>1, <1>2, CombinatorAssumption DEF capability, seen, Delivered
  <1>3. CASE settled # Unsettled
    BY <1>1, <1>3 DEF capability, seen, Delivered
  <1> QED BY <1>2, <1>3

\* The decrement is seen as the aggregate of the answers, when it is the last.
LEMMA DecrementSeen ==
  ASSUME CountInv, CountInv', ~Delivered, decrement_remaining,
         remaining' = 0 <=> open' = {} /\ phase' = "complete", UNCHANGED kind
  PROVE  seen' = IF open' = {} /\ phase' = "complete" /\ seen = Unsettled
                 THEN [how |-> IF kind = "any" THEN "reject" ELSE "resolve",
                       with |-> answers'] ELSE seen
  <1>1. seen = Unsettled <=> settled = Unsettled
    BY AnswersAre
  <1>2. CASE remaining' = 0 /\ settled = Unsettled
    <2>1. settled' = [how |-> IF kind = "any" THEN "reject" ELSE "resolve", with |-> Array]
      BY <1>2 DEF decrement_remaining, capability, AggregateWay
    <2>2. Delivered'
      <3>1. settled' # Unsettled
        BY <2>1, CombinatorAssumption DEF Ways
      <3> QED BY <2>1, <3>1 DEF Delivered
    <2>3. seen' = [how |-> IF kind = "any" THEN "reject" ELSE "resolve", with |-> values']
      BY <2>1, <2>2 DEF seen
    <2>4. values' = answers'
      <3>1. values' \in Seq(Answered \cup {Undefined})
        BY DEF CountInv, TypeOK
      <3>2. values' = [i \in DOMAIN values' |-> values'[i]]
        BY <3>1
      <3>3. \A i \in DOMAIN values' : i \in called'
        BY <1>2 DEF open
      <3> QED BY <3>2, <3>3 DEF answers
    <2> QED BY <1>1, <1>2, <2>3, <2>4
  <1>3. CASE ~(remaining' = 0 /\ settled = Unsettled)
    <2>1. settled' = settled
      BY <1>3 DEF decrement_remaining, capability, AggregateWay
    <2>2. ~Delivered'
      BY <2>1 DEF Delivered
    <2> QED BY <1>1, <1>3, <2>1, <2>2 DEF seen
  <1> QED BY <1>2, <1>3

\* AnswersAre, after a step.
LEMMA AllAnsweredNext ==
  ASSUME CountInv'
  PROVE  Outcome!AllAnswered(answers') <=> open' = {}
  <1>1. \A i \in DOMAIN values' : answers'[i] # Unanswered <=> i \in called'
    BY CombinatorAssumption DEF answers, CountInv
  <1>2. DOMAIN answers' = DOMAIN values'
    BY DEF answers
  <1> QED BY <1>1, <1>2 DEF Outcome!AllAnswered, open

\* Every step of the code is a step, or a stutter, of what is promised.
LEMMA StepMaps ==
  ASSUME CountInv, CountInv', [Next]_vars
  PROVE  [Outcome!Next]_<<kind, answers, phase, seen>>
  <1>a. Outcome!Kinds = Kinds /\ Outcome!Ways = Ways
    BY DEF Outcome!Kinds, Kinds, Outcome!Ways, Ways
  <1>b. \A how : Outcome!WaitsFor(how) <=> element_function(how)
    BY DEF Outcome!WaitsFor, element_function
  <1>1. CASE on_element
    <2>1. ~Delivered /\ DOMAIN values' = 1 .. Len(values) + 1
          /\ Len(values) + 1 \notin called
      BY <1>1, ElementKeeps
    <2>2. seen' = seen
      BY <1>1, <2>1 DEF on_element, seen, Delivered, Counts
    <2>3. DOMAIN values = 1 .. Len(values) /\ Len(values) \in Nat
          /\ \A i \in DOMAIN values : values'[i] = values[i]
      BY <1>1 DEF CountInv, TypeOK, on_element, Counts
    <2>4. answers' = Append(answers, Unanswered)
      <3>1. answers \in Seq(Answered \cup {Unanswered}) /\ Len(answers) = Len(values)
            /\ DOMAIN answers = DOMAIN values
        BY AnswersAre
      <3>2. answers' = [i \in 1 .. Len(values) + 1 |->
                          IF i <= Len(values) THEN answers[i] ELSE Unanswered]
        BY <1>1, <2>1, <2>3 DEF answers, on_element, Counts
      <3>3. Append(answers, Unanswered) =
              [i \in 1 .. Len(values) + 1 |->
                 IF i <= Len(values) THEN answers[i] ELSE Unanswered]
        BY <2>3, <3>1, AppendIs
      <3> QED BY <3>2, <3>3
    <2>5. Len(answers) < MaxElements
      BY <1>1, AnswersAre DEF on_element, Counts
    <2>6. Outcome!Element
      BY <1>1, <2>2, <2>4, <2>5 DEF Outcome!Element, on_element, answers, seen, Delivered, Counts
    <2> QED BY <2>6 DEF Outcome!Next
  <1>2. CASE on_complete
    <2>1. ~Delivered /\ open' = open /\ (kind # "race" => (remaining' = 0 <=> open = {}))
      BY <1>2, CompleteKeeps
    <2>2. answers' = answers
      BY <1>2 DEF on_complete, answers, Counts
    <2>3. Outcome!AllAnswered(answers) <=> open = {}
      BY AnswersAre
    <2>4. CASE kind = "race"
      BY <1>2, <2>1, <2>2, <2>4
         DEF on_complete, Outcome!Next, Outcome!Complete, seen, Delivered, answers, Counts
    <2>5. CASE kind # "race"
      <3>1. seen' = IF open' = {} /\ phase' = "complete" /\ seen = Unsettled
                    THEN [how |-> IF kind = "any" THEN "reject" ELSE "resolve",
                          with |-> answers'] ELSE seen
        BY <1>2, <2>1, <2>5, DecrementSeen DEF on_complete, Counts
      <3>2. seen' = IF kind # "race" /\ Outcome!AllAnswered(answers)
                    THEN Outcome!First(Outcome!Aggregate(answers)) ELSE seen
        BY <1>2, <2>1, <2>2, <2>3, <2>5, <3>1
           DEF on_complete, Outcome!First, Outcome!Aggregate, seen, Delivered, Counts
      <3> QED BY <1>2, <2>2, <3>2
              DEF on_complete, Outcome!Next, Outcome!Complete, seen, Delivered, answers, Counts
    <2> QED BY <2>4, <2>5
  <1>3. CASE abort
    <2>1. PICK e \in Errors : capability("reject", e)
      BY <1>3 DEF abort
    <2>2. seen' = IF seen = Unsettled THEN [how |-> "reject", with |-> e] ELSE seen
      BY <1>3, <2>1, DirectSeen DEF abort, Ways
    <2>3. seen' = Outcome!First([how |-> "reject", with |-> e])
      BY <2>2 DEF Outcome!First, seen, Delivered
    <2>4. answers' = answers
      BY <1>3 DEF abort, answers
    <2> QED BY <1>3, <2>1, <2>3, <2>4
            DEF abort, Outcome!Next, Outcome!Abort, seen, Delivered, answers
  <1>4. ASSUME NEW i \in DOMAIN values, NEW how \in Ways, NEW v \in Answers,
               settle_element(i, how, v)
        PROVE  Outcome!Answer(i, how, v) /\ i \in DOMAIN answers
    <2>0. i \in DOMAIN answers
      BY DEF answers
    <2>1. CASE ~element_function(how)
      <3>1. seen' = IF seen = Unsettled THEN [how |-> how, with |-> v] ELSE seen
        BY <1>4, <2>1, DirectSeen DEF settle_element, already_called
      <3>2. seen' = Outcome!First([how |-> how, with |-> v])
        BY <3>1 DEF Outcome!First, seen, Delivered
      <3>3. answers' = answers
        BY <1>4, <2>1 DEF settle_element, answers, already_called
      <3> QED BY <1>4, <1>b, <2>0, <2>1, <3>2, <3>3
              DEF settle_element, Outcome!Answer, seen, Delivered, answers, already_called
    <2>2. CASE element_function(how)
      <3>1. /\ i \notin called /\ called' = called \cup {i}
            /\ values' = [values EXCEPT ![i] = [how |-> how, with |-> v]]
            /\ decrement_remaining /\ UNCHANGED <<kind, phase>>
        BY <1>4, <2>2 DEF settle_element, already_called
      <3>2. DOMAIN values' = DOMAIN values /\ ~Delivered
            /\ (remaining' = 0 <=> phase = "complete" /\ open' = {})
        BY <2>2, <3>1, AnswerKeeps
      <3>3. answers[i] = Unanswered
        BY <3>1 DEF answers
      <3>4. answers' = [answers EXCEPT ![i] = [how |-> how, with |-> v]]
        BY <3>1, <3>2 DEF answers
      <3>5. seen' = IF open' = {} /\ phase' = "complete" /\ seen = Unsettled
                    THEN [how |-> IF kind = "any" THEN "reject" ELSE "resolve",
                          with |-> answers'] ELSE seen
        BY <3>1, <3>2, DecrementSeen
      <3>6. seen' = IF phase = "complete" /\ Outcome!AllAnswered(answers')
                    THEN Outcome!First(Outcome!Aggregate(answers')) ELSE seen
        BY <3>1, <3>5, AllAnsweredNext
           DEF Outcome!First, Outcome!Aggregate, seen, Delivered
      <3> QED BY <1>b, <2>0, <2>2, <3>1, <3>3, <3>4, <3>6
              DEF Outcome!Answer, seen, Delivered, answers
    <2> QED BY <2>0, <2>1, <2>2
  <1>5. CASE UNCHANGED vars
    BY <1>5 DEF vars, answers, seen, Delivered
  <1> QED BY <1>1, <1>2, <1>3, <1>4, <1>5, <1>a DEF Next, Outcome!Next, answers

\* The code of perform.rs, all.rs, all_settled.rs, any.rs and race.rs settles
\* the returned promise as, when and with what the four combinators promise.
THEOREM CombinatorsImplement == Spec => ImplementsOutcome
  <1>1. Init => Outcome!Init
    BY DEF Init, Outcome!Init, Outcome!Kinds, Kinds
  <1>2. CountInv /\ CountInv' /\ [Next]_vars => [Outcome!Next]_(Outcome!vars)
    BY StepMaps DEF Outcome!vars, answers, seen, Delivered
  <1> QED BY <1>1, <1>2, CountAlways, PTL DEF Spec, Outcome!Spec, ImplementsOutcome

=============================================================================
