------------------------------- MODULE Contracts -------------------------------
(* The deterministic assertions: what a tool call or a response is compared   *)
(* with, and the results the comparison yields.  Pure operators.              *)
(*                                                                            *)
(* A JSON value is an object, a list, a text (the set of the phrases that     *)
(* occur in it: containment is all the checks ask of a text) or a plain value *)
(* (a number, a boolean, null).  A JSON schema is the set of the values it    *)
(* accepts.  An optional part of a record is a sequence of length at most     *)
(* one.  A result keeps its type, the position of the tool call or of the     *)
(* state expectation it is about, the expected text or name, and its verdict: *)
(* messages and the copies of expected and actual values are left out.        *)
EXTENDS Optional, Integers, FiniteSets, SequencesExt

CONSTANT Compare(_, _, _)   \* _compare: expected, actual, whether extra keys are allowed

JsonObject(fields) == [kind |-> "object", fields |-> fields]
JsonList(items)    == [kind |-> "list", items |-> items]
JsonText(phrases)  == [kind |-> "text", phrases |-> phrases]
JsonValue(value)   == [kind |-> "value", value |-> value]

Missing == [kind |-> "missing"]

\* AssertionResult
Result(type, position, about, passed) ==
    [type |-> type, position |-> position, about |-> about, passed |-> passed]

AllPassed(list) == \A i \in DOMAIN list : list[i].passed

\* assert_tool_* and assert_business_state raise where a result has not passed.
RaisesAssertionError(list) == ~AllPassed(list)

------------------------------------------------------------------------------
(* Tool calls.                                                                *)

\* validate_tool_contract: a call of another name is not looked at further, and
\* the result has a shape only where the call succeeded.
ToolContractResults(call, name, argumentsSchema, resultSchema, position) ==
    IF call.name # name
    THEN <<Result("tool_name", position, name, FALSE)>>
    ELSE <<Result("tool_name", position, name, TRUE),
           Result("tool_arguments_schema", position, "",
                  ~Declared(argumentsSchema) \/ call.arguments \in Content(argumentsSchema))>>
         \o (IF Declared(resultSchema) /\ call.status = "succeeded"
             THEN <<Result("tool_result_schema", position, "",
                           call.result \in Content(resultSchema))>>
             ELSE <<>>)

ToolArgumentsResult(call, expected, position) ==
    Result("tool_arguments", position, "", Compare(expected, call.arguments, TRUE))

\* The non-strict order: each expected name is looked for behind the one found
\* before; a cursor past the end stands for a name that was not found.
NextOccurrence(names, cursor, name) ==
    LET found == {i \in DOMAIN names : i > cursor /\ names[i] = name}
    IN  IF found = {} THEN Len(names) + 1
        ELSE CHOOSE i \in found : \A j \in found : i <= j

FoundInOrder(names, expected) ==
    FoldLeft(LAMBDA cursor, name : NextOccurrence(names, cursor, name), 0, expected)
        <= Len(names)

ToolOrderResult(calls, expected, strict) ==
    LET names == [i \in DOMAIN calls |-> calls[i].name]
    IN  Result("tool_order", 0, "",
               IF strict THEN names = expected ELSE FoundInOrder(names, expected))

ToolStatusResult(call, expected, position) ==
    Result("tool_status", position, expected, call.status = expected)

------------------------------------------------------------------------------
(* Business state.                                                            *)

\* One segment of a path: a name reads an object, an index reads a list.
Member(value, segment) ==
    CASE segment.kind = "index" /\ value.kind = "list"
         /\ segment.index \in DOMAIN value.items -> value.items[segment.index]
      [] segment.kind = "name" /\ value.kind = "object"
         /\ segment.name \in DOMAIN value.fields -> value.fields[segment.name]
      [] OTHER -> Missing

Lookup(source, path) == FoldLeft(Member, source, path)

\* `expected in actual`: a phrase of a text, an item of a list, a key of an
\* object; what Python cannot search is no match.
Includes(actual, expected) ==
    CASE actual.kind = "text"   -> expected.kind = "text" /\ expected.phrases \subseteq actual.phrases
      [] actual.kind = "list"   -> \E i \in DOMAIN actual.items : actual.items[i] = expected
      [] actual.kind = "object" -> \E key \in DOMAIN actual.fields : expected = JsonText({key})
      [] OTHER -> FALSE

\* A missing value satisfies no operator, "not_equals" included.
StateHolds(operator, actual, expected) ==
    /\ actual # Missing
    /\ CASE operator = "exists"     -> TRUE
         [] operator = "equals"     -> actual = expected
         [] operator = "not_equals" -> actual # expected
         [] operator = "contains"   -> Includes(actual, expected)

BusinessStateResult(source, entry, position) ==
    Result("business_state", position, "",
           StateHolds(entry.operator, Lookup(source, entry.path), entry.value))
==============================================================================
