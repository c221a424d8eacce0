---------------------------- MODULE ArrayStorage ----------------------------
(***************************************************************************)
(* An array (value/array.rs): a vector of elements that may be shorter     *)
(* than the length, the indices in it that are holes, and a table of       *)
(* properties for indices with attributes of their own and for those past  *)
(* the vector's limit. Natives and the machine use whichever short cut     *)
(* their checks allow.                                                     *)
(***************************************************************************)
EXTENDS Integers, Sequences, FiniteSets, FiniteSetsExt

CONSTANTS
  MaxLength,              \* bound on lengths
  MaxDense,               \* MAX_DENSE_STORAGE_LENGTH
  ArrayValues,
  UndefinedValue,
  Missing,
  NoProperty,
  Careful                 \* scripts keep clear of the divergences named below

ASSUME ArrayAssumption == MaxLength \in Nat /\ MaxDense \in 0 .. MaxLength /\ Careful \in BOOLEAN

\* What is missing is neither a value nor an attribute, and no property is no property.
ASSUME SentinelsApart ==
  /\ Missing \notin BOOLEAN \cup ArrayValues
  /\ NoProperty \notin [value : ArrayValues \cup {UndefinedValue},
                        writable : BOOLEAN, configurable : BOOLEAN]

VARIABLES
  array_length,
  elements,
  holes,
  named,                  \* the table, of indices only
  extensible, sealed, frozen, length_writable     \* the flags of PackedState

arrayVars == <<array_length, elements, holes, named, extensible, sealed, frozen, length_writable>>
flags == <<extensible, sealed, frozen, length_writable>>

Positions == 0 .. MaxLength - 1

NoneNamed == [i \in Positions |-> NoProperty]

\* A literal, one with holes, Array(v, ...) or new Array(n).
ArrayInit ==
  /\ \/ \E n \in 0 .. MaxDense :
          /\ array_length = n
          /\ elements \in [1 .. n -> ArrayValues \cup {UndefinedValue}]
          /\ holes \in SUBSET (0 .. n - 1)
          /\ holes # 0 .. n - 1 \/ n = 0
          /\ \A i \in holes : elements[i + 1] = UndefinedValue
     \/ array_length \in 1 .. MaxLength /\ elements = <<>> /\ holes = {}
  /\ named = NoneNamed
  /\ extensible = TRUE /\ sealed = FALSE /\ frozen = FALSE /\ length_writable = TRUE

(***************************************************************************)
(* What a read of the array finds.                                         *)
(***************************************************************************)
has_index(i) == i < Len(elements) /\ i \notin holes

array_own_property_descriptor(i) ==
  IF has_index(i)
    THEN [value |-> elements[i + 1], writable |-> ~ frozen, configurable |-> ~ sealed]
    ELSE named[i]

properties_are_empty == named = NoneNamed

Promised == INSTANCE ArrayObject WITH
  size <- array_length, sizeWritable <- length_writable, open <- extensible,
  own <- [i \in Positions |-> array_own_property_descriptor(i)]

(***************************************************************************)
(* The primitives of ArrayRef.                                             *)
(***************************************************************************)
Padded(n) == [k \in 1 .. Max({n, Len(elements)}) |->
                IF k <= Len(elements) THEN elements[k] ELSE UndefinedValue]

set(i, v) ==
  IF i >= array_length /\ (frozen \/ ~ extensible \/ ~ length_writable)
    THEN UNCHANGED arrayVars
    ELSE /\ array_length' = IF i < array_length THEN array_length ELSE i + 1
         /\ IF i >= Len(elements) /\ i >= MaxDense
              THEN named' = [named EXCEPT ![i] = Promised!Plain(v)] /\ UNCHANGED <<elements, holes>>
              ELSE /\ elements' = [Padded(i + 1) EXCEPT ![i + 1] = IF frozen THEN @ ELSE v]
                   /\ holes' = (holes \cup Len(elements) .. i - 1) \ (IF frozen THEN {} ELSE {i})
                   /\ UNCHANGED named
         /\ UNCHANGED flags

define_property(i, p) ==
  IF i >= array_length /\ ~ length_writable
    THEN UNCHANGED arrayVars
    ELSE /\ array_length' = IF i < array_length THEN array_length ELSE i + 1
         /\ IF i < Len(elements)
              THEN named' = [named EXCEPT ![i] = p] /\ holes' = holes \cup {i} /\ UNCHANGED elements
            ELSE IF ~ extensible THEN UNCHANGED <<elements, holes, named>>
            ELSE /\ named' = [named EXCEPT ![i] = p]
                 /\ IF i >= MaxDense THEN UNCHANGED <<elements, holes>>
                    ELSE elements' = Padded(i + 1) /\ holes' = holes \cup Len(elements) .. i
         /\ UNCHANGED flags

\* Removes the first of the table's entries at or past m, from the end, that may be
\* removed; holes_ and named_ are what delete_indices_from has left.
set_len(m, holes_, named_) ==
  LET stuck == {i \in Positions : m < array_length /\ i >= m
                                    /\ named_[i] # NoProperty /\ ~ named_[i].configurable}
      last == Max({m} \cup {i + 1 : i \in stuck})
  IN /\ array_length' = last
     /\ elements' = IF m <= Len(elements) THEN SubSeq(elements, 1, m)
                    ELSE IF m <= MaxDense THEN Padded(m) ELSE elements
     /\ holes' = {i \in holes_ : i < m}
                   \cup (IF m <= MaxDense THEN array_length .. m - 1 ELSE {})
     /\ named' = [i \in Positions |->
                    IF m < array_length /\ i >= last THEN NoProperty ELSE named_[i]]

\* delete_index refuses.
Kept(i) ==
  \/ named[i] # NoProperty /\ ~ named[i].configurable
  \/ sealed /\ has_index(i)

(***************************************************************************)
(* Assignment, definition, deletion.                                       *)
(***************************************************************************)

\* A write loses the attributes of a property in the table, unless they are those
\* that it gives an element.
Overwritable(i) ==
  named[i] \in {NoProperty} \cup
    [value : ArrayValues \cup {UndefinedValue}, writable : {TRUE},
     configurable : {~ sealed \/ i >= Max({MaxDense, Len(elements)})}]

\* Variant of try_overwrite_dense_index: the attributes that freezing gives are not checked.
try_overwrite_dense_index_frozen(i) == i < array_length /\ has_index(i) /\ named[i] = NoProperty

try_overwrite_dense_index(i) ==
  ~ frozen /\ i < array_length /\ has_index(i) /\ named[i] = NoProperty

\* Variant of dense_index_store_eligible: a placeholder counts as an element.
dense_index_store_eligible_hole(i) ==
  /\ i < MaxDense /\ ~ frozen
  /\ i < array_length \/ length_writable
  /\ extensible \/ i < Len(elements)
  /\ named[i] = NoProperty

dense_index_store_eligible(i) ==
  /\ i < MaxDense /\ ~ frozen
  /\ i < array_length \/ length_writable
  /\ extensible \/ has_index(i)
  /\ named[i] = NoProperty

Overwrite(i, v) ==
  /\ try_overwrite_dense_index(i)
  /\ elements' = [elements EXCEPT ![i + 1] = v]
  /\ UNCHANGED <<array_length, holes, named, flags>>

StoreDense(i, v) ==
  ~ try_overwrite_dense_index(i) /\ dense_index_store_eligible(i) /\ set(i, v)

StoreGeneric(i, v) ==
  /\ ~ try_overwrite_dense_index(i) /\ ~ dense_index_store_eligible(i)
  /\ LET p == array_own_property_descriptor(i)
     IN IF p = NoProperty THEN extensible ELSE p.writable
  /\ Careful => Overwritable(i)
  /\ set(i, v)

\* A definition the code drops: of an index past the vector, on an array that is closed.
Definable(i) == extensible \/ i < Len(elements) \/ named[i] = NoProperty

DefineProperty(i) ==
  LET existing == array_own_property_descriptor(i)
  IN /\ existing = NoProperty => extensible
     /\ i < array_length \/ length_writable
     /\ Careful => Definable(i)
     /\ \E p \in Promised!Definitions(existing) : define_property(i, p)

dense_data_property_eligible(i) ==
  i < MaxDense /\ ~ frozen /\ ~ sealed /\ extensible /\ length_writable /\ named[i] = NoProperty

CreateDataProperty(i, v) ==
  LET existing == array_own_property_descriptor(i)
  IN /\ IF existing = NoProperty THEN extensible
        ELSE Promised!Compatible(existing, Promised!Plain(v))
     /\ Careful => Definable(i)
     /\ IF dense_data_property_eligible(i) THEN set(i, v)
        ELSE define_property(i, Promised!Plain(v))

delete_index(i) ==
  /\ ~ (named[i] # NoProperty /\ ~ named[i].configurable)
  /\ named' = [named EXCEPT ![i] = NoProperty]
  /\ holes' = IF i < Len(elements) /\ ~ (sealed /\ has_index(i)) THEN holes \cup {i} ELSE holes
  /\ UNCHANGED <<array_length, elements, flags>>

(***************************************************************************)
(* The length.                                                             *)
(***************************************************************************)

\* set_len takes what new Array(n) left out for elements.
Materialised(n) == Len(elements) >= Min({n, array_length, MaxDense})

\* delete_indices_from is done with the vector when it meets an entry it must keep.
KeptPast(n) == \E i \in Positions : i >= n /\ i >= Len(elements) /\ Kept(i)

define_array_length_property(n, lock) ==
  /\ length_writable
  /\ Careful => Materialised(n) /\ (KeptPast(n) => n >= Len(elements))
  /\ LET dense == {i \in Positions : n <= i /\ i < Len(elements)}
         sparse == {i \in Positions : n <= i /\ i >= Len(elements) /\ named[i] # NoProperty}
         after(s) == {i \in s : \A k \in s : Kept(k) => k < i}
         blocked(s) == {i + 1 : i \in {k \in s : Kept(k)}}
         gone == IF blocked(dense) = {} THEN dense \cup after(sparse) ELSE after(dense)
         stop == IF blocked(dense) = {} THEN blocked(sparse) ELSE blocked(dense)
     IN IF n < array_length
          THEN set_len(Max({n} \cup stop), holes \cup (gone \cap dense),
                       [i \in Positions |-> IF i \in gone THEN NoProperty ELSE named[i]])
          ELSE set_len(n, holes, named)
  /\ length_writable' = ~ lock
  /\ UNCHANGED <<extensible, sealed, frozen>>

set_length_writable ==
  /\ length_writable' = FALSE
  /\ UNCHANGED <<array_length, elements, holes, named, extensible, sealed, frozen>>

(***************************************************************************)
(* Integrity.                                                              *)
(***************************************************************************)
prevent_extensions ==
  /\ extensible' = FALSE
  /\ UNCHANGED <<array_length, elements, holes, named, sealed, frozen, length_writable>>

\* transform_descriptors of the table, and the flags that stand for the elements.
Transformed(freezing) ==
  [i \in Positions |->
     IF named[i] = NoProperty THEN NoProperty
     ELSE [value |-> named[i].value, writable |-> named[i].writable /\ ~ freezing,
           configurable |-> FALSE]]

seal ==
  /\ extensible' = FALSE /\ sealed' = TRUE
  /\ named' = Transformed(FALSE)
  /\ UNCHANGED <<array_length, elements, holes, frozen, length_writable>>

freeze ==
  /\ extensible' = FALSE /\ sealed' = TRUE /\ frozen' = TRUE /\ length_writable' = FALSE
  /\ named' = Transformed(TRUE)
  /\ UNCHANGED <<array_length, elements, holes>>

(***************************************************************************)
(* Natives and loops that work on the vector.                              *)
(***************************************************************************)
plain_cold == holes = {} /\ properties_are_empty

PlainDense == plain_cold /\ Len(elements) = array_length

\* push, pop, shift, unshift and splice.
with_plain_dense_mutation(start, count, items) ==
  /\ PlainDense /\ extensible /\ length_writable /\ ~ sealed /\ ~ frozen
  /\ start + count <= array_length
  /\ Len(elements) + Max({0, Len(items) - count}) <= MaxDense
  /\ elements' = SubSeq(elements, 1, start) \o items
                   \o SubSeq(elements, start + count + 1, Len(elements))
  /\ array_length' = Len(elements')
  /\ UNCHANGED <<holes, named, flags>>

\* concat and its like, at the end or into an array of holes only.
define_plain_elements(s) ==
  /\ plain_cold /\ extensible /\ length_writable /\ ~ sealed /\ ~ frozen
  /\ \/ Len(elements) = array_length
     \/ elements = <<>> /\ array_length = Len(s)
  /\ Len(elements) + Len(s) <= MaxLength
  /\ elements' = elements \o s
  /\ array_length' = Len(elements')
  /\ UNCHANGED <<holes, named, flags>>

\* sort.
replace_dense_elements(s) ==
  /\ PlainDense /\ ~ frozen /\ Len(s) = Len(elements)
  /\ elements' = s
  /\ UNCHANGED <<array_length, holes, named, flags>>

\* One iteration of a loop that fills the tail of new Array(n).
hole_tail_append(v) ==
  /\ plain_cold /\ extensible /\ ~ frozen
  /\ Len(elements) < array_length /\ Len(elements) < MaxDense
  /\ elements' = Append(elements, v)
  /\ UNCHANGED <<array_length, holes, named, flags>>

ArrayNext ==
  \/ \E i \in Positions, v \in ArrayValues :
       Overwrite(i, v) \/ StoreDense(i, v) \/ StoreGeneric(i, v) \/ CreateDataProperty(i, v)
  \/ \E i \in Positions : DefineProperty(i) \/ delete_index(i)
  \/ \E n \in 0 .. MaxLength, lock \in BOOLEAN : define_array_length_property(n, lock)
  \/ set_length_writable \/ prevent_extensions \/ seal \/ freeze
  \/ \E s \in Promised!Lists :
       \/ define_plain_elements(s) \/ replace_dense_elements(s)
       \/ \E start, count \in 0 .. array_length : with_plain_dense_mutation(start, count, s)
  \/ \E v \in ArrayValues : hole_tail_append(v)

ArraySpec == ArrayInit /\ [][ArrayNext]_arrayVars

(***************************************************************************)
(* Properties.                                                             *)
(***************************************************************************)

\* Whichever way an operation takes, and however the array is stored, properties and
\* length change as ECMAScript says they do: the vector with its holes, the table and
\* the flags never disagree about a property.
ImplementsArray == Promised!PromisedSpec

\* Once an array is frozen no short cut and no generic path changes a property of it or
\* its length, although elements do not carry the attributes that say so.
FrozenForever ==
  [][frozen => /\ array_length' = array_length
               /\ \A i \in Positions :
                    array_own_property_descriptor(i)' = array_own_property_descriptor(i)]_arrayVars

\* A larger length gives a closed array holes and no properties; value/array.rs:1025-1027
\* says that growing "creates holes, not indexed properties".
GrowthCreatesHoles ==
  [][~ extensible /\ array_length' > array_length =>
       \A i \in Positions : array_own_property_descriptor(i)' # NoProperty
                             => array_own_property_descriptor(i) # NoProperty]_arrayVars

=============================================================================
