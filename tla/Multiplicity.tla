---------------------------- MODULE Multiplicity ----------------------------
(***************************************************************************)
(* How many clones a branch node with a multiplicity makes of an event: the *)
(* expected number, capped or refused, is rounded down or up by a hash of  *)
(* the fingerprint of the event.                                           *)
(*                                                                         *)
(* Expected numbers count in parts of One, so that doubles are exact.  Both *)
(* libraries multiply the fraction by UINT64_MAX as a double, which is 2^64.*)
(***************************************************************************)
EXTENDS Integers

CONSTANTS
  One,            \* the parts of an expected number of 1
  Seeds,          \* 2^64: there are as many seeds of events
  NotSet          \* a field of a message or of an event that is not set

ASSUME MultiplicityAssumption == One \in Nat \ {0} /\ Seeds \in Nat \ {0}

IntegerTypes == {"int32", "int64", "uint32", "uint64"}
NumericTypes == IntegerTypes \cup {"float", "double"}

RefusedMultiplicity == [ref |-> NotSet]

\* MultiplicityImpl::Build: a multiplicity_ref, by value or by a field with a
\* number, a field of integers for the person index, and all other fields.
BuildMultiplicity(c) ==
  IF /\ \/ c.ref = "expected_multiplicity"
        \/ /\ c.ref = "expected_multiplicity_field"
           /\ c.field_type \in NumericTypes
     /\ c.person_index_type \in IntegerTypes
     /\ c.max_value # NotSet /\ c.cap_at_max # NotSet /\ c.random_seed # NotSet
  THEN [ref |-> c.ref, expected |-> c.expected, max_value |-> c.max_value,
        cap_at_max |-> c.cap_at_max, random_seed |-> c.random_seed]
  ELSE RefusedMultiplicity

\* ComputeBimodalInteger.
Threshold(expectation) == ((expectation % One) * Seeds) \div One
ComputeBimodalInteger(expectation, seed) ==
  IF seed < Threshold(expectation) THEN (expectation \div One) + 1
  ELSE expectation \div One

\* An error in place of a number of clones.
NoCount == -1

\* The expected number, from the message or from the field of the event.
ExpectedMultiplicity(m, value) ==
  IF m.ref = "expected_multiplicity" THEN m.expected ELSE value

Capped(m, expected) ==
  IF expected > m.max_value THEN m.max_value ELSE expected

\* The value of the field, and Fingerprint64 of the random seed and the
\* fingerprint of the event.
ComputeEventMultiplicity(m, value, seed) ==
  LET expected == ExpectedMultiplicity(m, value)
  IN  IF \/ expected = NotSet
         \/ expected > m.max_value /\ ~ m.cap_at_max
         \/ Capped(m, expected) < 0
      THEN NoCount
      ELSE ComputeBimodalInteger(Capped(m, expected), seed)
=============================================================================
