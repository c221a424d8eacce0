---------------------------- MODULE ArrayObject ----------------------------
(***************************************************************************)
(* What a script is promised of an array: each index has a property or     *)
(* none, and the operations read and change these properties and the       *)
(* length one at a time, however the array stores them.                    *)
(***************************************************************************)
EXTENDS Integers, Sequences, FiniteSets, FiniteSetsExt

CONSTANTS
  MaxLength,              \* bound on the length
  ArrayValues,            \* what scripts store
  UndefinedValue,
  Missing,                 \* a field a descriptor does not have
  NoProperty              \* what an index without a property has

VARIABLES
  size,                   \* the length
  sizeWritable,
  own,                    \* the property of every index
  open                    \* whether properties can be added

promisedVars == <<size, sizeWritable, own, open>>

ArrayIndices == 0 .. MaxLength - 1

\* Short lists of values, and data descriptors, any field of which may be missing.
Lists == UNION {[1 .. n -> ArrayValues] : n \in 0 .. MaxLength}

Descriptors == [value : ArrayValues \cup {Missing}, writable : BOOLEAN \cup {Missing},
                configurable : BOOLEAN \cup {Missing}]

Plain(v) == [value |-> v, writable |-> TRUE, configurable |-> TRUE]

Given(field, default) == IF field = Missing THEN default ELSE field

\* IsCompatiblePropertyDescriptor, and what the definition makes of the property.
Compatible(p, d) ==
  p # NoProperty /\ ~ p.configurable =>
    /\ d.configurable # TRUE
    /\ ~ p.writable => d.writable # TRUE /\ d.value \in {Missing, p.value}

Completed(p, d) ==
  LET base == IF p = NoProperty
                THEN [value |-> UndefinedValue, writable |-> FALSE, configurable |-> FALSE]
                ELSE p
  IN [value |-> Given(d.value, base.value), writable |-> Given(d.writable, base.writable),
      configurable |-> Given(d.configurable, base.configurable)]

\* What a property may become by a definition.
Definitions(p) == {Completed(p, d) : d \in {c \in Descriptors : Compatible(p, c)}}

Put(i, p) ==
  /\ own[i] # NoProperty \/ (open /\ (i < size \/ sizeWritable))
  /\ own' = [own EXCEPT ![i] = p]
  /\ size' = IF i < size THEN size ELSE i + 1
  /\ UNCHANGED <<sizeWritable, open>>

Set(i, v) ==
  \/ own[i] = NoProperty /\ Put(i, Plain(v))
  \/ own[i] # NoProperty /\ own[i].writable /\ Put(i, [own[i] EXCEPT !.value = v])

Define(i) == \E p \in Definitions(own[i]) : Put(i, p)

Delete(i) ==
  /\ own[i] # NoProperty /\ own[i].configurable
  /\ own' = [own EXCEPT ![i] = NoProperty]
  /\ UNCHANGED <<size, sizeWritable, open>>

\* A shorter length removes properties from the end, and stops at one that stays.
SetSize(n, lock) ==
  /\ sizeWritable
  /\ LET stays == {i \in ArrayIndices : i >= n /\ own[i] # NoProperty /\ ~ own[i].configurable}
         m == Max({n} \cup {i + 1 : i \in stays})
     IN /\ size' = m
        /\ own' = [i \in ArrayIndices |-> IF i < m THEN own[i] ELSE NoProperty]
  /\ sizeWritable' = ~ lock
  /\ UNCHANGED open

LockSize ==
  /\ sizeWritable' = FALSE
  /\ UNCHANGED <<size, own, open>>

Close == open' = FALSE /\ UNCHANGED <<size, sizeWritable, own>>

Harden(frozen) ==
  /\ open' = FALSE
  /\ own' = [i \in ArrayIndices |->
               IF own[i] = NoProperty THEN NoProperty
               ELSE [own[i] EXCEPT !.configurable = FALSE, !.writable = @ /\ ~ frozen]]
  /\ sizeWritable' = (sizeWritable /\ ~ frozen)
  /\ UNCHANGED size

\* The contents as a list, when every index below the length has a plain property.
Packed == \A i \in 0 .. size - 1 : own[i] # NoProperty /\ own[i] = Plain(own[i].value)

Contents == [k \in 1 .. size |-> own[k - 1].value]

\* push, pop, shift, unshift and splice on such an array.
Splice(start, count, items) ==
  /\ open /\ sizeWritable /\ Packed
  /\ LET s == SubSeq(Contents, 1, start) \o items \o SubSeq(Contents, start + count + 1, size)
     IN /\ Len(s) <= MaxLength
        /\ size' = Len(s)
        /\ own' = [i \in ArrayIndices |-> IF i < Len(s) THEN Plain(s[i + 1]) ELSE NoProperty]
  /\ UNCHANGED <<sizeWritable, open>>

\* A property for each of a run of indices that have none.
DefineAll(start, s) ==
  /\ open /\ sizeWritable
  /\ start + Len(s) <= MaxLength
  /\ \A i \in start .. start + Len(s) - 1 : own[i] = NoProperty
  /\ own' = [i \in ArrayIndices |->
               IF i \in start .. start + Len(s) - 1 THEN Plain(s[i - start + 1]) ELSE own[i]]
  /\ size' = Max({size, start + Len(s)})
  /\ UNCHANGED <<sizeWritable, open>>

SetEach(s) ==
  /\ Len(s) = size
  /\ \A i \in 0 .. size - 1 : own[i] # NoProperty /\ own[i].writable
  /\ own' = [i \in ArrayIndices |->
               IF i < size THEN [own[i] EXCEPT !.value = s[i + 1]] ELSE own[i]]
  /\ UNCHANGED <<size, sizeWritable, open>>

\* An operation that is refused changes nothing.
Refuse == UNCHANGED promisedVars

PromisedNext ==
  \/ Refuse
  \/ \E i \in ArrayIndices :
       Delete(i) \/ Define(i) \/ (\E v \in ArrayValues : Set(i, v))
  \/ \E n \in 0 .. MaxLength, lock \in BOOLEAN : SetSize(n, lock)
  \/ LockSize \/ Close \/ Harden(FALSE) \/ Harden(TRUE)
  \/ \E s \in Lists :
       \/ SetEach(s)
       \/ \E start \in 0 .. size :
            \/ DefineAll(start, s)
            \/ \E count \in 0 .. size - start : Splice(start, count, s)

PromisedInit ==
  /\ size \in 0 .. MaxLength
  /\ own \in [ArrayIndices -> {NoProperty} \cup {Plain(v) : v \in ArrayValues \cup {UndefinedValue}}]
  /\ \A i \in ArrayIndices : own[i] # NoProperty => i < size
  /\ sizeWritable = TRUE /\ open = TRUE

PromisedSpec == PromisedInit /\ [][PromisedNext]_promisedVars

=============================================================================
