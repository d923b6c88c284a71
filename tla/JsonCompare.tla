------------------------------ MODULE JsonCompare ------------------------------
(* The comparison of nested JSON values, which the contracts are given as     *)
(* Compare.  It is apart from them since it is recursive.                     *)
EXTENDS Sequences

\* _compare: objects by the expected keys, lists item by item, the rest by
\* equality.
RECURSIVE CompareJson(_, _, _)
CompareJson(expected, actual, allowExtra) ==
    CASE expected.kind = "object" ->
            /\ actual.kind = "object"
            /\ DOMAIN expected.fields \subseteq DOMAIN actual.fields
            /\ \A key \in DOMAIN expected.fields :
                   CompareJson(expected.fields[key], actual.fields[key], allowExtra)
            /\ allowExtra \/ DOMAIN actual.fields = DOMAIN expected.fields
      [] expected.kind = "list" ->
            /\ actual.kind = "list"
            /\ Len(actual.items) = Len(expected.items)
            /\ \A i \in DOMAIN expected.items :
                   CompareJson(expected.items[i], actual.items[i], allowExtra)
      [] OTHER -> expected = actual
================================================================================
