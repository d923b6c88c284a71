---------------------------- MODULE BudgetLedger ----------------------------
(* The reservation ledger of the judge calibration, scripts/calibration_budget.py:  *)
(* requests, tokens and money are reserved before a call crosses the transport,    *)
(* and what the call did not use is given back after it.                          *)
(*                                                                            *)
(* The lock is held across the transport but may be taken again by its holder: a   *)
(* transport that calls send itself opens a second call inside the first.  calls   *)
(* is the stack of the open calls.  Money is in units of the price; the refusals    *)
(* of malformed arguments change nothing and are one action.                      *)
EXTENDS Integers, Sequences

CONSTANTS MaxRequests, MaxTokens, MaxCost,   \* the caps
          InputPrice, OutputPrice,           \* PriceQuote
          Bounds,                            \* token counts a caller may state or a provider report
          MaxDepth                           \* bound on calls inside calls

ASSUME LedgerAssumption ==
    /\ {MaxRequests, MaxTokens, MaxCost, InputPrice, OutputPrice} \subseteq Nat
    /\ Bounds \subseteq Nat

VARIABLES
    ledger,   \* requests, tokens and cost as charged, and strict_cap_valid
    calls,    \* the calls under way, the innermost last
    consumed  \* history: what the provider really used for the calls that ended

ledgerVars == <<ledger, calls, consumed>>

Amount == [tokens : Nat, cost : Nat]

\* PriceQuote.cost.
Price(inputs, outputs) == InputPrice * inputs + OutputPrice * outputs

\* A call under way: its bounds, and what was reserved by the calls around it.
Call == [inputs : Nat, outputs : Nat, around : Amount]

Reserved(call) == [tokens |-> call.inputs + call.outputs, cost |-> Price(call.inputs, call.outputs)]

\* All that the calls under way have reserved.
Open == IF calls = <<>> THEN [tokens |-> 0, cost |-> 0]
        ELSE LET call == calls[Len(calls)] IN
             [tokens |-> call.around.tokens + Reserved(call).tokens,
              cost   |-> call.around.cost + Reserved(call).cost]

LedgerInit ==
    /\ ledger = [requests |-> 0, tokens |-> 0, cost |-> 0, valid |-> TRUE]
    /\ calls = <<>>
    /\ consumed = [tokens |-> 0, cost |-> 0]

\* Mutant: the cap is compared before the new reservation is added.
FitsBefore(inputs, outputs) ==
    /\ ledger.requests + 1 <= MaxRequests
    /\ ledger.tokens <= MaxTokens
    /\ ledger.cost <= MaxCost

\* What send demands before it reserves anything.
Fits(inputs, outputs) ==
    /\ ledger.requests + 1 <= MaxRequests
    /\ ledger.tokens + inputs + outputs <= MaxTokens
    /\ ledger.cost + Price(inputs, outputs) <= MaxCost

\* The ledger charged with so many requests, tokens and money more.
Charge(requests, tokens, cost, valid) ==
    ledger' = [requests |-> ledger.requests + requests, tokens |-> ledger.tokens + tokens,
               cost |-> ledger.cost + cost, valid |-> valid]

\* send up to the transport.
Dispatch(inputs, outputs) ==
    /\ ledger.valid
    /\ Fits(inputs, outputs)
    /\ Len(calls) < MaxDepth
    /\ Charge(1, inputs + outputs, Price(inputs, outputs), TRUE)
    /\ calls' = Append(calls, [inputs |-> inputs, outputs |-> outputs, around |-> Open])
    /\ UNCHANGED consumed

\* send raises before the transport: invalid bound, unreliable tokenizer, hidden
\* retries, exhausted budget, broken guarantee.
Refuse(inputs, outputs) ==
    /\ ~ledger.valid \/ ~Fits(inputs, outputs)
    /\ UNCHANGED ledgerVars

Current == calls[Len(calls)]

CallEnds(inputs, outputs) ==
    /\ calls' = SubSeq(calls, 1, Len(calls) - 1)
    /\ consumed' = [tokens |-> consumed.tokens + inputs + outputs,
                    cost   |-> consumed.cost + Price(inputs, outputs)]

Within(inputs, outputs) == inputs <= Current.inputs /\ outputs <= Current.outputs

\* The transport raises, or its usage is missing or malformed: whatever it used,
\* the reservation stays.
Unaccounted(inputs, outputs) ==
    /\ calls # <<>>
    /\ Within(inputs, outputs)
    /\ CallEnds(inputs, outputs)
    /\ UNCHANGED ledger

\* A usage within the bounds: what was not used is given back.
Account(inputs, outputs) ==
    /\ calls # <<>>
    /\ Within(inputs, outputs)
    /\ CallEnds(inputs, outputs)
    /\ Charge(0, (inputs + outputs) - Reserved(Current).tokens,
                 Price(inputs, outputs) - Reserved(Current).cost, ledger.valid)

AtLeastZero(n) == IF n > 0 THEN n ELSE 0

\* A usage beyond one of the bounds: the excess is charged and the guarantee is over.
Breach(inputs, outputs) ==
    /\ calls # <<>>
    /\ ~Within(inputs, outputs)
    /\ CallEnds(inputs, outputs)
    /\ Charge(0, AtLeastZero(inputs + outputs - Reserved(Current).tokens),
                 AtLeastZero(Price(inputs, outputs) - Reserved(Current).cost), FALSE)

LedgerNext ==
    \E inputs, outputs \in Bounds :
        \/ Dispatch(inputs, outputs) \/ Refuse(inputs, outputs)
        \/ Unaccounted(inputs, outputs) \/ Account(inputs, outputs) \/ Breach(inputs, outputs)

LedgerSpec == LedgerInit /\ [][LedgerNext]_ledgerVars

------------------------------------------------------------------------------

LedgerTypeOK ==
    /\ ledger \in [requests : Nat, tokens : Int, cost : Int, valid : BOOLEAN]
    /\ calls \in Seq(Call)
    /\ consumed \in Amount

\* The ledger is a cap: as long as every provider kept the bound that was stated for
\* it, no more is charged than allowed, and in any case no less is charged than was
\* used by the calls that ended and is reserved by those under way, in whatever
\* order nested calls fail, return or break their bounds.  A usage that was not
\* reported is taken to be within its bound, which is what the caller vouches for
\* when it calls its tokenizer reliable.
BudgetHolds ==
    /\ ledger.requests <= MaxRequests
    /\ ledger.valid => ledger.tokens <= MaxTokens /\ ledger.cost <= MaxCost
    /\ consumed.tokens + Open.tokens <= ledger.tokens
    /\ consumed.cost + Open.cost <= ledger.cost
==============================================================================
