-------------------------- MODULE OperationsProofs --------------------------
(* What is proved of the parts that MCOperations instantiates: the ledger of  *)
(* a calibration, the exchanges of an adapter, backups and restores, and load *)
(* tests and the gate suite that judges them.                                 *)
EXTENDS MCOperations, SequenceTheorems, FiniteSetTheorems, WellFoundedInduction, TLAPS

------------------------------------------------------------------------------
(* The ledger is a cap whatever the caps, the prices and the depth of nesting.     *)
(*                                                                            *)
(* A return takes the innermost call off the stack: that what is open falls by     *)
(* exactly its reservation needs Stacked, that each call remembers what the calls  *)
(* around it have reserved.                                                      *)

Plus(a, b) == [tokens |-> a.tokens + b.tokens, cost |-> a.cost + b.cost]
Zero == [tokens |-> 0, cost |-> 0]

Stacked ==
  \A i \in 1..Len(calls) :
     calls[i].around = IF i = 1 THEN Zero
                       ELSE Plus(calls[i - 1].around, Reserved(calls[i - 1]))

LedgerInv == LedgerTypeOK /\ Stacked /\ BudgetHolds

\* What stays within both bounds costs no more than what was reserved.
LEMMA PriceMonotone ==
  ASSUME NEW i \in Nat, NEW o \in Nat, NEW i2 \in Nat, NEW o2 \in Nat, i <= i2, o <= o2
  PROVE  Price(i, o) \in Nat /\ Price(i2, o2) \in Nat /\ Price(i, o) <= Price(i2, o2)
<1>1. ASSUME NEW p \in Nat, NEW a \in Nat, NEW b \in Nat, a <= b
      PROVE  p * a \in Nat /\ p * b \in Nat /\ p * a <= p * b
  <2>1. p * (b - a) >= 0
    BY <1>1
  <2>. QED
    BY <1>1, <2>1
<1>2. InputPrice \in Nat /\ OutputPrice \in Nat
  BY LedgerAssumption
<1>3. /\ InputPrice * i \in Nat /\ InputPrice * i2 \in Nat /\ InputPrice * i <= InputPrice * i2
  BY <1>1, <1>2
<1>4. /\ OutputPrice * o \in Nat /\ OutputPrice * o2 \in Nat /\ OutputPrice * o <= OutputPrice * o2
  BY <1>1, <1>2
<1>. QED
  BY <1>3, <1>4 DEF Price

LEMMA PriceType ==
  ASSUME NEW i \in Nat, NEW o \in Nat
  PROVE  Price(i, o) \in Nat
BY PriceMonotone

\* A reservation is an amount.
LEMMA ReservedType ==
  ASSUME NEW call \in Call
  PROVE  /\ Reserved(call) \in Amount
         /\ Reserved(call).tokens = call.inputs + call.outputs
         /\ Reserved(call).cost = Price(call.inputs, call.outputs)
         /\ Reserved(call).tokens \in Nat /\ Reserved(call).cost \in Nat
<1>1. call.inputs \in Nat /\ call.outputs \in Nat
  BY DEF Call
<1>2. Price(call.inputs, call.outputs) \in Nat
  BY <1>1, PriceType
<1>. QED
  BY <1>1, <1>2 DEF Reserved, Amount

\* What is open is an amount.
LEMMA OpenType ==
  ASSUME LedgerTypeOK
  PROVE  Open \in Amount
<1>1. CASE calls = <<>>
  BY <1>1 DEF Open, Amount
<1>2. CASE calls # <<>>
  <2>1. calls[Len(calls)] \in Call
    <3>1. calls \in Seq(Call) /\ Len(calls) \in Nat
      BY DEF LedgerTypeOK
    <3>2. Len(calls) \in 1..Len(calls)
      BY <1>2, <3>1
    <3>. QED
      BY <3>1, <3>2
  <2>2. calls[Len(calls)].around \in Amount /\ Reserved(calls[Len(calls)]) \in Amount
    BY <2>1, ReservedType DEF Call
  <2>. QED
    BY <1>2, <2>2 DEF Open, Amount
<1>. QED
  BY <1>1, <1>2

\* A call that ends leaves open what was open around it.
LEMMA Popped ==
  ASSUME LedgerInv, calls # <<>>, NEW i, NEW o, CallEnds(i, o)
  PROVE  /\ Current \in Call
         /\ Open = Plus(Current.around, Reserved(Current))
         /\ Open' = Current.around
         /\ calls' \in Seq(Call)
         /\ Stacked'
<1>. DEFINE n == Len(calls)
<1>1. n \in Nat \ {0} /\ calls \in Seq(Call)
  BY DEF LedgerInv, LedgerTypeOK
<1>2. /\ calls' \in Seq(Call) /\ Len(calls') = n - 1
      /\ \A k \in 1..(n - 1) : calls'[k] = calls[k]
  <2>1. \A k \in 1..(n - 1) : calls[k] \in Call
    BY <1>1
  <2>2. calls' = SubSeq(calls, 1, n - 1)
    BY DEF CallEnds
  <2>. QED
    <3>1. n - 1 \in Int /\ (n - 1) - 1 + 1 = n - 1 /\ \A k \in 1..(n - 1) : 1 + k - 1 = k
      BY <1>1
    <3>2. /\ SubSeq(calls, 1, n - 1) \in Seq(Call)
          /\ Len(SubSeq(calls, 1, n - 1)) = IF 1 <= n - 1 THEN (n - 1) - 1 + 1 ELSE 0
          /\ \A k \in 1..((n - 1) - 1 + 1) : SubSeq(calls, 1, n - 1)[k] = calls[1 + k - 1]
      <4>. HIDE DEF n
      <4>. QED
        BY <2>1, <3>1, SubSeqProperties
    <3>. QED
      BY <1>1, <2>2, <3>1, <3>2
<1>3. Current \in Call
  BY <1>1 DEF Current
<1>4. Open = Plus(Current.around, Reserved(Current))
  BY <1>1 DEF Open, Plus, Current
<1>5. Stacked'
  <2>. SUFFICES ASSUME NEW k \in 1..(n - 1)
                PROVE  calls'[k].around = IF k = 1 THEN Zero
                           ELSE Plus(calls'[k - 1].around, Reserved(calls'[k - 1]))
    BY <1>2 DEF Stacked, Plus, Reserved, Price, Zero
  <2>1. k \in 1..n
    BY <1>1
  <2>2. calls[k].around = IF k = 1 THEN Zero
                          ELSE Plus(calls[k - 1].around, Reserved(calls[k - 1]))
    BY <2>1 DEF LedgerInv, Stacked
  <2>3. calls'[k] = calls[k] /\ (k # 1 => calls'[k - 1] = calls[k - 1])
    BY <1>1, <1>2
  <2>. QED
    BY <2>2, <2>3
<1>6. Open' = Current.around
  <2>1. CASE n = 1
    <3>1. calls' = <<>> /\ Current.around = Zero
      BY <1>1, <1>2, <2>1 DEF LedgerInv, Stacked, Current
    <3>. QED
      BY <3>1 DEF Open, Zero
  <2>2. CASE n > 1
    <3>1. Current.around = Plus(calls[n - 1].around, Reserved(calls[n - 1]))
      BY <1>1, <2>2 DEF LedgerInv, Stacked, Current
    <3>2. calls' # <<>> /\ calls'[Len(calls')] = calls[n - 1]
      <4>1. n - 1 \in 1..(n - 1) /\ Len(calls') = n - 1 /\ n - 1 # 0
        BY <1>1, <1>2, <2>2
      <4>. QED
        BY <1>2, <4>1
    <3>. QED
      BY <3>1, <3>2 DEF Open, Plus, Reserved, Price
  <2>3. n = 1 \/ n > 1
    BY <1>1
  <2>. QED
    BY <2>1, <2>2, <2>3
<1>. QED
  BY <1>2, <1>3, <1>4, <1>5, <1>6

LEMMA InvInit ==
  LedgerInit => LedgerInv
BY LedgerAssumption DEF LedgerInit, LedgerInv, LedgerTypeOK, Stacked, BudgetHolds, Open, Amount

\* The ledger's fields as numbers.
LEMMA LedgerFields ==
  ASSUME LedgerInv
  PROVE  /\ ledger \in [requests : Nat, tokens : Int, cost : Int, valid : BOOLEAN]
         /\ ledger.requests \in Nat /\ ledger.tokens \in Int /\ ledger.cost \in Int
         /\ ledger.valid \in BOOLEAN
         /\ consumed.tokens \in Nat /\ consumed.cost \in Nat
         /\ {MaxRequests, MaxTokens, MaxCost} \subseteq Nat
         /\ BudgetHolds
BY LedgerAssumption DEF LedgerInv, LedgerTypeOK, Amount

\* What a charge makes of the ledger.
LEMMA Charged ==
  ASSUME LedgerInv, NEW n \in Nat, NEW t \in Int, NEW c \in Int, NEW v \in BOOLEAN,
         Charge(n, t, c, v)
  PROVE  /\ ledger' \in [requests : Nat, tokens : Int, cost : Int, valid : BOOLEAN]
         /\ ledger'.requests = ledger.requests + n /\ ledger'.valid = v
         /\ ledger'.tokens = ledger.tokens + t /\ ledger'.cost = ledger.cost + c
<1>1. ledger' = [requests |-> ledger.requests + n, tokens |-> ledger.tokens + t,
                 cost |-> ledger.cost + c, valid |-> v]
  BY DEF Charge
<1>2. ledger.requests + n \in Nat /\ ledger.tokens + t \in Int /\ ledger.cost + c \in Int
  BY LedgerFields
<1>. QED
  BY <1>1, <1>2

\* What the charge of a reservation, or of an excess, makes of the ledger.
LEMMA ChargedMore ==
  ASSUME LedgerInv, NEW n \in {0, 1}, NEW t \in Nat, NEW c \in Nat, NEW v \in {TRUE, FALSE},
         Charge(n, t, c, v)
  PROVE  /\ ledger' \in [requests : Nat, tokens : Int, cost : Int, valid : BOOLEAN]
         /\ ledger'.requests = ledger.requests + n /\ ledger'.valid = v
         /\ ledger'.tokens = ledger.tokens + t /\ ledger'.cost = ledger.cost + c
<1>1. n \in Nat
  OBVIOUS
<1>2. t \in Int /\ c \in Int
  OBVIOUS
<1>3. v \in BOOLEAN
  OBVIOUS
<1>. QED
  BY <1>1, <1>2, <1>3, Charged

LEMMA DispatchKeeps ==
  ASSUME LedgerInv, NEW i \in Bounds, NEW o \in Bounds, Dispatch(i, o)
  PROVE  LedgerInv'
<1>. DEFINE call == [inputs |-> i, outputs |-> o, around |-> Open]
            n == Len(calls)
<1>1. i \in Nat /\ o \in Nat
  BY LedgerAssumption
<1>2. call \in Call
  BY <1>1, OpenType DEF LedgerInv, Call
<1>3. Reserved(call) = [tokens |-> i + o, cost |-> Price(i, o)] /\ Reserved(call) \in Amount
  BY <1>2, ReservedType DEF Reserved
<1>4. /\ calls' = Append(calls, call) /\ calls' \in Seq(Call)
      /\ Len(calls') = n + 1 /\ n \in Nat /\ calls' # <<>>
      /\ calls'[n + 1] = call /\ \A k \in 1..n : calls'[k] = calls[k]
  BY <1>2 DEF LedgerInv, LedgerTypeOK, Dispatch
<1>10. /\ ledger' \in [requests : Nat, tokens : Int, cost : Int, valid : BOOLEAN]
       /\ ledger'.requests = ledger.requests + 1 /\ ledger'.valid = TRUE
       /\ ledger'.tokens = ledger.tokens + (i + o) /\ ledger'.cost = ledger.cost + Price(i, o)
  <2>. DEFINE t == i + o
              c == Price(i, o)
  <2>1. t \in Nat /\ c \in Nat
    BY <1>1, PriceType
  <2>2. Charge(1, t, c, TRUE)
    BY DEF Dispatch
  <2>. HIDE DEF t, c
  <2>3. /\ ledger' \in [requests : Nat, tokens : Int, cost : Int, valid : BOOLEAN]
        /\ ledger'.requests = ledger.requests + 1 /\ ledger'.valid = TRUE
        /\ ledger'.tokens = ledger.tokens + t /\ ledger'.cost = ledger.cost + c
    BY <2>1, <2>2, ChargedMore
  <2>. QED
    BY <2>3 DEF t, c
<1>5. LedgerTypeOK'
  BY <1>4, <1>10 DEF LedgerInv, LedgerTypeOK, Dispatch
<1>6. Open' = Plus(Open, Reserved(call))
  BY <1>4 DEF Open, Plus, Reserved, Price
<1>7. Stacked'
  <2>. SUFFICES ASSUME NEW k \in 1..(n + 1)
                PROVE  calls'[k].around = IF k = 1 THEN Zero
                           ELSE Plus(calls'[k - 1].around, Reserved(calls'[k - 1]))
    BY <1>4 DEF Stacked, Plus, Reserved, Price, Zero
  <2>1. CASE k <= n
    BY <1>4, <2>1 DEF LedgerInv, Stacked
  <2>2. CASE k = n + 1 /\ n = 0
    <3>1. calls = <<>>
      BY <2>2 DEF LedgerInv, LedgerTypeOK
    <3>. QED
      BY <1>4, <2>2, <3>1 DEF Open, Zero
  <2>3. CASE k = n + 1 /\ n > 0
    <3>1. calls # <<>>
      BY <2>3 DEF LedgerInv, LedgerTypeOK
    <3>. QED
      BY <1>4, <2>3, <3>1 DEF Open, Plus
  <2>. QED
    BY <1>4, <2>1, <2>2, <2>3
<1>8. BudgetHolds'
  <2>1. /\ Open'.tokens = Open.tokens + (i + o) /\ Open'.cost = Open.cost + Price(i, o)
        /\ Open.tokens \in Nat /\ Open.cost \in Nat /\ Price(i, o) \in Nat
    <3>1. Price(i, o) \in Nat
      BY <1>1, PriceType
    <3>2. Open \in Amount
      BY OpenType DEF LedgerInv
    <3>. QED
      BY <1>3, <1>6, <3>1, <3>2 DEF Plus, Amount
  <2>3. consumed' = consumed /\ Fits(i, o) /\ ledger.valid
    BY DEF Dispatch
  <2>. QED
    BY <1>1, <1>10, <2>1, <2>3, LedgerFields DEF BudgetHolds, Fits
<1>. QED
  BY <1>5, <1>7, <1>8 DEF LedgerInv

\* The facts about amounts that every return uses.
LEMMA Returned ==
  ASSUME LedgerInv, calls # <<>>, NEW i \in Bounds, NEW o \in Bounds, CallEnds(i, o)
  PROVE  LET r == Reserved(Current) IN
         /\ i \in Nat /\ o \in Nat /\ Price(i, o) \in Nat /\ r.tokens \in Nat /\ r.cost \in Nat
         /\ Open.tokens = Open'.tokens + r.tokens /\ Open.cost = Open'.cost + r.cost
         /\ Open'.tokens \in Nat /\ Open'.cost \in Nat
         /\ Within(i, o) => i + o <= r.tokens /\ Price(i, o) <= r.cost
         /\ consumed'.tokens = consumed.tokens + (i + o)
         /\ consumed'.cost = consumed.cost + Price(i, o)
         /\ consumed' \in Amount /\ calls' \in Seq(Call) /\ Stacked'
<1>1. i \in Nat /\ o \in Nat
  BY LedgerAssumption
<1>2. Price(i, o) \in Nat
  BY <1>1, PriceType
<1>3. /\ Current \in Call /\ Open = Plus(Current.around, Reserved(Current))
      /\ Open' = Current.around /\ calls' \in Seq(Call) /\ Stacked'
  BY Popped
<1>4. /\ Reserved(Current).tokens = Current.inputs + Current.outputs
      /\ Reserved(Current).cost = Price(Current.inputs, Current.outputs)
      /\ Reserved(Current).tokens \in Nat /\ Reserved(Current).cost \in Nat
  BY <1>3, ReservedType
<1>5. /\ Current.inputs \in Nat /\ Current.outputs \in Nat
      /\ Current.around.tokens \in Nat /\ Current.around.cost \in Nat
  BY <1>3 DEF Call, Amount
<1>6. ASSUME Within(i, o)
      PROVE  i + o <= Reserved(Current).tokens /\ Price(i, o) <= Reserved(Current).cost
  <2>1. i <= Current.inputs /\ o <= Current.outputs
    BY <1>6 DEF Within
  <2>2. Price(i, o) <= Price(Current.inputs, Current.outputs)
    BY <1>1, <1>5, <2>1, PriceMonotone
  <2>. QED
    BY <1>1, <1>4, <1>5, <2>1, <2>2
<1>7. /\ consumed' = [tokens |-> consumed.tokens + i + o, cost |-> consumed.cost + Price(i, o)]
      /\ consumed.tokens \in Nat /\ consumed.cost \in Nat
  BY DEF CallEnds, LedgerInv, LedgerTypeOK, Amount
<1>8. /\ consumed'.tokens = consumed.tokens + (i + o) /\ consumed'.cost = consumed.cost + Price(i, o)
      /\ consumed' \in Amount
  BY <1>1, <1>2, <1>7 DEF Amount
<1>9. Open.tokens = Open'.tokens + Reserved(Current).tokens /\ Open.cost = Open'.cost + Reserved(Current).cost
  BY <1>3 DEF Plus
<1>. QED
  BY <1>1, <1>2, <1>3, <1>4, <1>5, <1>6, <1>8, <1>9

LEMMA UnaccountedKeeps ==
  ASSUME LedgerInv, NEW i \in Bounds, NEW o \in Bounds, Unaccounted(i, o)
  PROVE  LedgerInv'
<1>. DEFINE r == Reserved(Current)
<1>1. calls # <<>> /\ CallEnds(i, o) /\ Within(i, o) /\ ledger' = ledger
  BY DEF Unaccounted
<1>2. LedgerTypeOK' /\ Stacked'
  BY <1>1, Returned DEF LedgerInv, LedgerTypeOK
<1>3. /\ Open.tokens = Open'.tokens + r.tokens /\ Open.cost = Open'.cost + r.cost
      /\ Open'.tokens \in Nat /\ Open'.cost \in Nat
      /\ r.tokens \in Nat /\ r.cost \in Nat /\ i \in Nat /\ o \in Nat /\ Price(i, o) \in Nat
      /\ i + o <= r.tokens /\ Price(i, o) <= r.cost
      /\ consumed'.tokens = consumed.tokens + (i + o)
      /\ consumed'.cost = consumed.cost + Price(i, o)
  BY <1>1, Returned
<1>. HIDE DEF r
<1>4. BudgetHolds'
  <2>1. /\ ledger'.requests = ledger.requests /\ ledger'.valid = ledger.valid
        /\ ledger'.tokens = ledger.tokens /\ ledger'.cost = ledger.cost
    BY <1>1
  <2>. QED
    BY <1>3, <2>1, LedgerFields DEF BudgetHolds
<1>. QED
  BY <1>2, <1>4 DEF LedgerInv

LEMMA AccountKeeps ==
  ASSUME LedgerInv, NEW i \in Bounds, NEW o \in Bounds, Account(i, o)
  PROVE  LedgerInv'
<1>. DEFINE r == Reserved(Current)
            t == (i + o) - r.tokens
            c == Price(i, o) - r.cost
<1>1. calls # <<>> /\ CallEnds(i, o) /\ Within(i, o) /\ Charge(0, t, c, ledger.valid)
  BY DEF Account
<1>2. /\ Open.tokens = Open'.tokens + r.tokens /\ Open.cost = Open'.cost + r.cost
      /\ Open'.tokens \in Nat /\ Open'.cost \in Nat
      /\ r.tokens \in Nat /\ r.cost \in Nat /\ i \in Nat /\ o \in Nat /\ Price(i, o) \in Nat
      /\ i + o <= r.tokens /\ Price(i, o) <= r.cost
      /\ consumed'.tokens = consumed.tokens + (i + o)
      /\ consumed'.cost = consumed.cost + Price(i, o)
  BY <1>1, Returned
<1>3. t \in Int /\ c \in Int /\ t <= 0 /\ c <= 0
  BY <1>2
<1>4. /\ ledger' \in [requests : Nat, tokens : Int, cost : Int, valid : BOOLEAN]
      /\ ledger'.requests = ledger.requests + 0 /\ ledger'.valid = ledger.valid
      /\ ledger'.tokens = ledger.tokens + t /\ ledger'.cost = ledger.cost + c
  <2>. HIDE DEF t, c
  <2>. QED
    BY <1>1, <1>3, Charged, LedgerFields
<1>5. LedgerTypeOK' /\ Stacked'
  BY <1>1, <1>4, Returned DEF LedgerTypeOK
<1>6. BudgetHolds'
  <2>. HIDE DEF r
  <2>. QED
    BY <1>2, <1>3, <1>4, LedgerFields DEF BudgetHolds
<1>. QED
  BY <1>5, <1>6 DEF LedgerInv

LEMMA BreachKeeps ==
  ASSUME LedgerInv, NEW i \in Bounds, NEW o \in Bounds, Breach(i, o)
  PROVE  LedgerInv'
<1>. DEFINE r == Reserved(Current)
            t == AtLeastZero(i + o - r.tokens)
            c == AtLeastZero(Price(i, o) - r.cost)
<1>1. calls # <<>> /\ CallEnds(i, o) /\ Charge(0, t, c, FALSE)
  BY DEF Breach
<1>2. /\ Open.tokens = Open'.tokens + r.tokens /\ Open.cost = Open'.cost + r.cost
      /\ Open'.tokens \in Nat /\ Open'.cost \in Nat
      /\ r.tokens \in Nat /\ r.cost \in Nat /\ i \in Nat /\ o \in Nat /\ Price(i, o) \in Nat
      /\ consumed'.tokens = consumed.tokens + (i + o)
      /\ consumed'.cost = consumed.cost + Price(i, o)
  BY <1>1, Returned
<1>3. /\ t \in Nat /\ t >= i + o - r.tokens /\ c \in Nat /\ c >= Price(i, o) - r.cost
  BY <1>2 DEF AtLeastZero
<1>. HIDE DEF r, t, c
<1>4. /\ ledger' \in [requests : Nat, tokens : Int, cost : Int, valid : BOOLEAN]
      /\ ledger'.requests = ledger.requests + 0 /\ ledger'.valid = FALSE
      /\ ledger'.tokens = ledger.tokens + t /\ ledger'.cost = ledger.cost + c
  BY <1>1, <1>3, ChargedMore
<1>5. LedgerTypeOK' /\ Stacked'
  BY <1>1, <1>4, Returned DEF LedgerTypeOK
<1>6. BudgetHolds'
  BY <1>2, <1>3, <1>4, LedgerFields DEF BudgetHolds
<1>. QED
  BY <1>5, <1>6 DEF LedgerInv

LEMMA InvNext ==
  LedgerInv /\ [LedgerNext]_ledgerVars => LedgerInv'
<1>. SUFFICES ASSUME LedgerInv, [LedgerNext]_ledgerVars
              PROVE  LedgerInv'
  OBVIOUS
<1>1. CASE UNCHANGED ledgerVars
  BY <1>1 DEF LedgerInv, LedgerTypeOK, Stacked, BudgetHolds, Open, ledgerVars
<1>2. CASE LedgerNext
  <2>1. PICK i \in Bounds, o \in Bounds :
            \/ Dispatch(i, o) \/ Refuse(i, o)
            \/ Unaccounted(i, o) \/ Account(i, o) \/ Breach(i, o)
    BY <1>2 DEF LedgerNext
  <2>2. CASE Refuse(i, o)
    BY <2>2 DEF Refuse, LedgerInv, LedgerTypeOK, Stacked, BudgetHolds, Open, ledgerVars
  <2>. QED
    BY <2>1, <2>2, DispatchKeeps, UnaccountedKeeps, AccountKeeps, BreachKeeps
<1>. QED
  BY <1>1, <1>2

\* The ledger's cap holds for any caps, prices, bounds and depth of nested calls.
THEOREM BudgetIsHeld == LedgerSpec => []BudgetHolds
<1>1. LedgerInv => BudgetHolds
  BY DEF LedgerInv
<1>. QED
  BY <1>1, InvInit, InvNext, PTL DEF LedgerSpec

------------------------------------------------------------------------------
(* A message is posted with what is known of its user and session.  That this *)
(* is theirs is kept by the answers, which name what the server opened or     *)
(* continued for the message; that it is known in time, by the lock of the    *)
(* native client, or by messages under way together being told apart.         *)

\* A message that has not been posted names no conversation and is nowhere; a
\* refused one can no longer arrive; an answered one was taken.
RequestsPlaced ==
  \A x \in Exchanges :
    /\ exchange[x] \in {"new", "queued"} => request[x] = "none" /\ names[x] = NoConversation
    /\ exchange[x] = "refused" => request[x] = "none"
    /\ exchange[x] = "answered" => request[x] = "taken"

\* What the adapter knows, and what a message names, is a conversation that the
\* same user and session opened.
NamesSound ==
  /\ \A k \in Keys : known[k] # NoConversation => Opened(known[k]) /\ KeyOf[known[k]] = k
  /\ \A x \in Exchanges : names[x] # NoConversation =>
       Opened(names[x]) /\ KeyOf[names[x]] = KeyOf[x]

\* Once a message was answered, its user and session have a conversation.
AnswersKnown ==
  adapter \in Dify =>
    \A x \in Exchanges : exchange[x] = "answered" => known[KeyOf[x]] # NoConversation

\* The native client has one message of a user and session under way, and what
\* it names is what is known.
OneAtATime ==
  adapter = "asyncDify" =>
    /\ \A x, y \in Exchanges :
         exchange[x] = "posting" /\ exchange[y] = "posting" /\ KeyOf[x] = KeyOf[y] => x = y
    /\ \A x \in Exchanges :
         exchange[x] = "posting" /\ names[x] = NoConversation => known[KeyOf[x]] = NoConversation

\* Messages that are under way together are known to have been; so is one that
\* was answered beside another that was sent before a conversation was known.
BesideKnown ==
  \A x, y \in Exchanges :
    x # y =>
      /\ x \in Under /\ y \in Under => <<x, y>> \in beside
      /\ /\ adapter \in Dify /\ KeyOf[x] = KeyOf[y]
         /\ exchange[x] = "answered" /\ exchange[y] = "posting" /\ names[y] = NoConversation
         => <<x, y>> \in beside /\ <<y, x>> \in beside

AdaptersInv ==
  /\ AdaptersTypeOK /\ RequestsPlaced /\ NamesSound /\ AnswersKnown /\ OneAtATime /\ BesideKnown
  /\ ConversationKept

LEMMA AdaptersInitInv == AdaptersInit => AdaptersInv
<1> SUFFICES ASSUME AdaptersInit PROVE AdaptersInv
  OBVIOUS
<1>1. AdaptersTypeOK
  BY DEF AdaptersInit, AdaptersTypeOK
<1>2. RequestsPlaced /\ NamesSound /\ AnswersKnown /\ OneAtATime
  BY DEF AdaptersInit, RequestsPlaced, NamesSound, AnswersKnown, OneAtATime, Keys
<1>3. BesideKnown /\ ConversationKept
  BY DEF AdaptersInit, BesideKnown, Under, ConversationKept, Opened
<1>4. QED
  BY <1>1, <1>2, <1>3 DEF AdaptersInv

LEMMA KeyIn == \A x \in Exchanges : KeyOf[x] \in Keys
BY DEF Keys

\* What posting a message does, for the blocking clients and the native ones.
LEMMA PostKeeps ==
  ASSUME AdaptersInv, NEW x \in Exchanges, exchange[x] \in {"new", "queued"}, Post(x),
         UNCHANGED <<adapter, known>>,
         adapter = "asyncDify" => ~Locked(KeyOf[x]),
         \/ exchange[x] = "new" /\ beside' = beside \cup ({x} \X Under) \cup (Under \X {x})
         \/ exchange[x] = "queued" /\ beside' = beside
  PROVE  AdaptersInv'
<1> USE AdaptersAssumption
<1> DEFINE OpenedNext(y) == request'[y] = "taken" /\ names'[y] = NoConversation
<1>0. /\ AdaptersTypeOK /\ RequestsPlaced /\ NamesSound /\ AnswersKnown /\ OneAtATime
      /\ BesideKnown /\ ConversationKept
  BY DEF AdaptersInv
<1>1. /\ exchange' = [exchange EXCEPT ![x] = "posting"]
      /\ request' = [request EXCEPT ![x] = "sent"]
      /\ request[x] = "none" /\ names[x] = NoConversation /\ ~Opened(x)
      /\ \E named \in {NoConversation, known[KeyOf[x]]} : names' = [names EXCEPT ![x] = named]
      /\ adapter \in Dify => names' = [names EXCEPT ![x] = known[KeyOf[x]]]
  BY <1>0 DEF Post, ConversationOf, RequestsPlaced, Opened
<1>2. KeyOf[x] \in Keys /\ known[KeyOf[x]] \in Exchanges \cup {NoConversation}
  BY <1>0, KeyIn DEF AdaptersTypeOK
<1>3. AdaptersTypeOK'
  <2>1. Under \subseteq Exchanges
    BY DEF Under
  <2>2. beside' \subseteq Exchanges \X Exchanges
    BY <1>0, <2>1 DEF AdaptersTypeOK
  <2>3. names' \in [Exchanges -> Exchanges \cup {NoConversation}]
    BY <1>0, <1>1, <1>2 DEF AdaptersTypeOK
  <2>4. QED
    BY <1>0, <1>1, <2>2, <2>3 DEF AdaptersTypeOK
<1>4. /\ \A y \in Exchanges \ {x} :
           exchange'[y] = exchange[y] /\ request'[y] = request[y] /\ names'[y] = names[y]
      /\ exchange'[x] = "posting" /\ request'[x] = "sent"
      /\ names'[x] \in {NoConversation, known[KeyOf[x]]}
      /\ adapter \in Dify => names'[x] = known[KeyOf[x]]
  BY <1>0, <1>1 DEF AdaptersTypeOK
<1>5. \A y \in Exchanges : Opened(y) <=> OpenedNext(y)
  BY <1>1, <1>4 DEF Opened
<1>6. RequestsPlaced'
  BY <1>0, <1>4 DEF RequestsPlaced
<1>7. NamesSound'
  <2>1. \A k \in Keys : known[k] # NoConversation => known[k] \in Exchanges
    BY <1>0 DEF AdaptersTypeOK
  <2>2. \A k \in Keys : known'[k] # NoConversation =>
          OpenedNext(known'[k]) /\ KeyOf[known'[k]] = k
    BY <1>0, <1>5, <2>1 DEF NamesSound
  <2>3. ASSUME NEW y \in Exchanges \ {x}, names[y] # NoConversation
        PROVE  OpenedNext(names[y]) /\ KeyOf[names[y]] = KeyOf[y]
    BY <1>0, <1>5, <2>3 DEF NamesSound, AdaptersTypeOK
  <2>4. ASSUME names'[x] # NoConversation
        PROVE  OpenedNext(names'[x]) /\ KeyOf[names'[x]] = KeyOf[x]
    BY <1>0, <1>2, <1>4, <1>5, <2>1, <2>4 DEF NamesSound
  <2>5. ASSUME NEW y \in Exchanges, names'[y] # NoConversation
        PROVE  OpenedNext(names'[y]) /\ KeyOf[names'[y]] = KeyOf[y]
    BY <1>4, <2>3, <2>4, <2>5
  <2>6. QED
    BY <2>2, <2>5 DEF NamesSound, Opened
<1>8. AnswersKnown'
  BY <1>0, <1>4 DEF AnswersKnown
<1>9. OneAtATime'
  <2> SUFFICES ASSUME adapter = "asyncDify" PROVE OneAtATime'
    BY DEF OneAtATime
  <2>1. \A y \in Exchanges : KeyOf[y] = KeyOf[x] => exchange[y] # "posting"
    BY DEF Locked
  <2>2. adapter \in Dify
    BY DEF Dify
  <2>3. QED
    BY <1>0, <1>4, <2>1, <2>2 DEF OneAtATime
<1>10. BesideKnown'
  <2>1. ASSUME NEW y \in Exchanges \ {x}, y \in Under
        PROVE  <<x, y>> \in beside' /\ <<y, x>> \in beside'
    <3>1. CASE exchange[x] = "new"
      BY <2>1, <3>1
    <3>2. CASE exchange[x] = "queued"
      <4>1. x \in Under
        BY <3>2 DEF Under
      <4>2. QED
        BY <1>0, <2>1, <3>2, <4>1 DEF BesideKnown
    <3>3. QED
      BY <3>1, <3>2
  <2>2. beside \subseteq beside'
    OBVIOUS
  <2>3. \A y \in Exchanges \ {x} : y \in Under' <=> y \in Under
    BY <1>4 DEF Under
  <2>4. ASSUME NEW y \in Exchanges, NEW z \in Exchanges, y # z, y \in Under', z \in Under'
        PROVE  <<y, z>> \in beside'
    <3>1. CASE y = x \/ z = x
      BY <2>1, <2>3, <2>4, <3>1
    <3>2. CASE y # x /\ z # x
      BY <1>0, <2>2, <2>3, <2>4, <3>2 DEF BesideKnown
    <3>3. QED
      BY <3>1, <3>2
  <2>5. ASSUME NEW y \in Exchanges, NEW z \in Exchanges, y # z, adapter \in Dify,
               KeyOf[y] = KeyOf[z], exchange'[y] = "answered", exchange'[z] = "posting",
               names'[z] = NoConversation
        PROVE  <<y, z>> \in beside' /\ <<z, y>> \in beside'
    <3>1. y # x /\ exchange[y] = "answered"
      BY <1>4, <2>5
    <3>2. known[KeyOf[y]] # NoConversation
      BY <1>0, <2>5, <3>1 DEF AnswersKnown
    <3>3. z # x
      BY <1>4, <2>5, <3>2
    <3>4. QED
      BY <1>0, <1>4, <2>2, <2>5, <3>1, <3>3 DEF BesideKnown
  <2>6. QED
    BY <2>4, <2>5 DEF BesideKnown
<1>11. ConversationKept'
  <2>1. \A y \in Exchanges : request'[y] = "taken" => y # x /\ request[y] = "taken"
    BY <1>4
  <2>2. \A y \in Exchanges : exchange'[y] \in {"answered", "refused"} =>
          y # x /\ exchange[y] = exchange'[y]
    BY <1>4
  <2>3. beside \subseteq beside' /\ adapter' = adapter
    OBVIOUS
  <2>4. ASSUME NEW y \in Exchanges, request'[y] = "taken", names'[y] # NoConversation
        PROVE  OpenedNext(names'[y]) /\ KeyOf[names'[y]] = KeyOf[y]
    BY <1>7, <2>4 DEF NamesSound, Opened
  <2>5. ASSUME NEW y \in Exchanges, NEW z \in Exchanges, y # z, KeyOf[y] = KeyOf[z],
               adapter \in Dify, exchange'[y] = "answered", exchange'[z] = "answered",
               OpenedNext(y), OpenedNext(z)
        PROVE  adapter = "dify" /\ <<y, z>> \in beside'
    BY <1>0, <1>5, <2>2, <2>3, <2>5 DEF ConversationKept
  <2>6. \A y \in Exchanges : exchange'[y] = "refused" => request'[y] # "taken"
    BY <1>0, <2>1, <2>2 DEF ConversationKept
  <2>7. QED
    BY <2>3, <2>4, <2>5, <2>6 DEF ConversationKept, Opened
<1>12. QED
  BY <1>3, <1>6, <1>7, <1>8, <1>9, <1>10, <1>11 DEF AdaptersInv

\* The native Dify client asks for its lock.
LEMMA QueueKeeps ==
  ASSUME AdaptersInv, NEW x \in Exchanges, exchange[x] = "new", adapter = "asyncDify",
         exchange' = [exchange EXCEPT ![x] = "queued"],
         beside' = beside \cup ({x} \X Under) \cup (Under \X {x}),
         UNCHANGED <<adapter, known, names, request>>
  PROVE  AdaptersInv'
<1>0. /\ AdaptersTypeOK /\ RequestsPlaced /\ NamesSound /\ AnswersKnown /\ OneAtATime
      /\ BesideKnown /\ ConversationKept
  BY DEF AdaptersInv
<1>1. AdaptersTypeOK'
  <2>1. Under \subseteq Exchanges
    BY DEF Under
  <2>2. beside' \subseteq Exchanges \X Exchanges
    BY <1>0, <2>1 DEF AdaptersTypeOK
  <2>3. QED
    BY <1>0, <2>2 DEF AdaptersTypeOK
<1>2. /\ \A y \in Exchanges \ {x} : exchange'[y] = exchange[y]
      /\ exchange'[x] = "queued"
      /\ beside \subseteq beside'
  BY <1>0 DEF AdaptersTypeOK
<1>3. RequestsPlaced'
  BY <1>0, <1>2 DEF RequestsPlaced
<1>4. NamesSound' /\ AnswersKnown' /\ OneAtATime'
  BY <1>0, <1>2 DEF NamesSound, AnswersKnown, OneAtATime, Opened
<1>5. BesideKnown'
  <2>1. ASSUME NEW y \in Exchanges, NEW z \in Exchanges, y # z, y \in Under', z \in Under'
        PROVE  <<y, z>> \in beside'
    <3>1. \A w \in Exchanges \ {x} : w \in Under' <=> w \in Under
      BY <1>2 DEF Under
    <3>2. CASE y = x \/ z = x
      BY <2>1, <3>1, <3>2
    <3>3. CASE y # x /\ z # x
      BY <1>0, <1>2, <2>1, <3>1, <3>3 DEF BesideKnown
    <3>4. QED
      BY <3>2, <3>3
  <2>2. ASSUME NEW y \in Exchanges, NEW z \in Exchanges, y # z, adapter \in Dify,
               KeyOf[y] = KeyOf[z], exchange'[y] = "answered", exchange'[z] = "posting",
               names[z] = NoConversation
        PROVE  <<y, z>> \in beside' /\ <<z, y>> \in beside'
    BY <1>0, <1>2, <2>2 DEF BesideKnown
  <2>3. QED
    BY <2>1, <2>2 DEF BesideKnown
<1>6. ConversationKept'
  BY <1>0, <1>2 DEF ConversationKept, Opened
<1>7. QED
  BY <1>1, <1>3, <1>4, <1>5, <1>6 DEF AdaptersInv

\* The server takes a message that names no conversation: one that is neither
\* refused nor answered, so no conversation is known for it yet.
LEMMA TakeKeeps ==
  ASSUME AdaptersInv, NEW x \in Exchanges, Take(x)
  PROVE  AdaptersInv'
<1> DEFINE OpenedNext(y) == request'[y] = "taken" /\ names[y] = NoConversation
<1>0. /\ AdaptersTypeOK /\ RequestsPlaced /\ NamesSound /\ AnswersKnown /\ OneAtATime
      /\ BesideKnown /\ ConversationKept
  BY DEF AdaptersInv
<1>1. /\ UNCHANGED <<adapter, known, exchange, names, beside>>
      /\ request[x] = "sent" /\ request' = [request EXCEPT ![x] = "taken"]
      /\ exchange[x] \notin {"new", "queued", "refused", "answered"}
  BY <1>0 DEF Take, RequestsPlaced
<1>2. /\ \A y \in Exchanges \ {x} : request'[y] = request[y]
      /\ request'[x] = "taken"
  BY <1>0, <1>1 DEF AdaptersTypeOK
<1>3. AdaptersTypeOK'
  BY <1>0, <1>1 DEF AdaptersTypeOK
<1>4. RequestsPlaced'
  BY <1>0, <1>1, <1>2 DEF RequestsPlaced
<1>5. \A y \in Exchanges : Opened(y) => OpenedNext(y)
  BY <1>2 DEF Opened
<1>6. NamesSound'
  <2>1. \A k \in Keys : known[k] # NoConversation =>
          OpenedNext(known[k]) /\ KeyOf[known[k]] = k
    BY <1>0, <1>5 DEF NamesSound, AdaptersTypeOK
  <2>2. \A y \in Exchanges : names[y] # NoConversation =>
          OpenedNext(names[y]) /\ KeyOf[names[y]] = KeyOf[y]
    BY <1>0, <1>5 DEF NamesSound, AdaptersTypeOK
  <2>3. QED
    BY <1>1, <2>1, <2>2 DEF NamesSound, Opened
<1>7. AnswersKnown' /\ OneAtATime' /\ BesideKnown'
  BY <1>0, <1>1 DEF AnswersKnown, OneAtATime, BesideKnown, Under
<1>8. ConversationKept'
  <2>1. \A y \in Exchanges : exchange[y] = "answered" => (OpenedNext(y) <=> Opened(y))
    BY <1>1, <1>2 DEF Opened
  <2>2. \A y \in Exchanges : exchange[y] = "refused" => request'[y] # "taken"
    BY <1>0, <1>1, <1>2 DEF ConversationKept
  <2>3. \A y, z \in Exchanges :
          y # z /\ KeyOf[y] = KeyOf[z] /\ adapter \in Dify
          /\ exchange[y] = "answered" /\ exchange[z] = "answered"
          /\ OpenedNext(y) /\ OpenedNext(z) => adapter = "dify" /\ <<y, z>> \in beside
    BY <1>0, <2>1 DEF ConversationKept
  <2>4. QED
    BY <1>1, <1>6, <2>2, <2>3 DEF ConversationKept, NamesSound, Opened
<1>9. QED
  BY <1>3, <1>4, <1>6, <1>7, <1>8 DEF AdaptersInv

\* However an exchange ends: only an answer changes what is known, and only a
\* message that has not been taken is lost.
LEMMA EndKeeps ==
  ASSUME AdaptersInv, NEW x \in Exchanges, exchange[x] \in {"queued", "posting"},
         NEW how \in {"answered", "failed", "unknown", "refused", "cancelled"},
         NEW left \in {"none", "sent", "taken"}, End(x, how),
         request' = [request EXCEPT ![x] = left],
         left = request[x] \/ (request[x] = "sent" /\ left = "none"),
         how = "refused" => left = "none",
         how # "answered" => known' = known,
         how = "answered" =>
           /\ exchange[x] = "posting" /\ request[x] = "taken"
           /\ known' = IF adapter \in Dify
                       THEN [known EXCEPT ![KeyOf[x]] = Conversation(x)] ELSE known
  PROVE  AdaptersInv'
<1> USE AdaptersAssumption
<1> DEFINE OpenedNext(y) == request'[y] = "taken" /\ names[y] = NoConversation
<1>0. /\ AdaptersTypeOK /\ RequestsPlaced /\ NamesSound /\ AnswersKnown /\ OneAtATime
      /\ BesideKnown /\ ConversationKept
  BY DEF AdaptersInv
<1>1. /\ UNCHANGED <<adapter, names, beside>>
      /\ exchange' = [exchange EXCEPT ![x] = how]
  BY DEF End
<1>2. /\ \A y \in Exchanges \ {x} : request'[y] = request[y] /\ exchange'[y] = exchange[y]
      /\ request'[x] = left /\ exchange'[x] = how
  BY <1>0, <1>1 DEF AdaptersTypeOK
<1>3. /\ KeyOf[x] \in Keys /\ Conversation(x) \in Exchanges
  BY <1>0, KeyIn DEF Conversation, AdaptersTypeOK
<1>4. /\ \A k \in Keys \ {KeyOf[x]} : known'[k] = known[k]
      /\ how = "answered" /\ adapter \in Dify => known'[KeyOf[x]] = Conversation(x)
      /\ ~(how = "answered" /\ adapter \in Dify) => known' = known
      /\ known' \in [Keys -> Exchanges \cup {NoConversation}]
  BY <1>0, <1>3 DEF AdaptersTypeOK
<1>5. AdaptersTypeOK'
  BY <1>0, <1>1, <1>4 DEF AdaptersTypeOK
<1>6. RequestsPlaced'
  BY <1>0, <1>1, <1>2 DEF RequestsPlaced
<1>7. \A y \in Exchanges : Opened(y) <=> OpenedNext(y)
  BY <1>2 DEF Opened
<1>8. how = "answered" => Opened(Conversation(x)) /\ KeyOf[Conversation(x)] = KeyOf[x]
  BY <1>0 DEF Conversation, NamesSound, Opened
<1>9. NamesSound'
  <2>1. ASSUME NEW k \in Keys, known'[k] # NoConversation
        PROVE  OpenedNext(known'[k]) /\ KeyOf[known'[k]] = k
    <3>1. CASE k = KeyOf[x] /\ how = "answered" /\ adapter \in Dify
      BY <1>3, <1>4, <1>7, <1>8, <3>1
    <3>2. CASE known'[k] = known[k]
      BY <1>0, <1>7, <2>1, <3>2 DEF NamesSound, AdaptersTypeOK
    <3>3. QED
      BY <1>4, <3>1, <3>2
  <2>2. \A y \in Exchanges : names[y] # NoConversation =>
          OpenedNext(names[y]) /\ KeyOf[names[y]] = KeyOf[y]
    BY <1>0, <1>7 DEF NamesSound, AdaptersTypeOK
  <2>3. QED
    BY <1>1, <2>1, <2>2 DEF NamesSound, Opened
<1>10. AnswersKnown'
  <2>1. ASSUME adapter \in Dify, NEW y \in Exchanges, exchange'[y] = "answered"
        PROVE  known'[KeyOf[y]] # NoConversation
    <3>1. CASE how = "answered" /\ KeyOf[y] = KeyOf[x]
      BY <1>3, <1>4, <2>1, <3>1
    <3>2. CASE how = "answered" /\ KeyOf[y] # KeyOf[x]
      BY <1>0, <1>2, <1>4, <2>1, <3>2, KeyIn DEF AnswersKnown
    <3>3. CASE how # "answered"
      BY <1>0, <1>2, <1>4, <2>1, <3>3 DEF AnswersKnown
    <3>4. QED
      BY <3>1, <3>2, <3>3
  <2>2. QED
    BY <1>1, <2>1 DEF AnswersKnown
<1>11. OneAtATime'
  <2> SUFFICES ASSUME adapter = "asyncDify" PROVE OneAtATime'
    BY <1>1 DEF OneAtATime
  <2>1. \A y, z \in Exchanges :
          exchange'[y] = "posting" /\ exchange'[z] = "posting" /\ KeyOf[y] = KeyOf[z] => y = z
    BY <1>0, <1>2 DEF OneAtATime
  <2>2. ASSUME NEW y \in Exchanges, exchange'[y] = "posting", names[y] = NoConversation
        PROVE  known'[KeyOf[y]] = NoConversation
    <3>1. y # x /\ exchange[y] = "posting"
      BY <1>2, <2>2
    <3>2. known[KeyOf[y]] = NoConversation
      BY <1>0, <2>2, <3>1 DEF OneAtATime
    <3>3. how = "answered" => KeyOf[y] # KeyOf[x]
      BY <1>0, <3>1 DEF OneAtATime
    <3>4. QED
      BY <1>4, <3>2, <3>3, KeyIn
  <2>3. QED
    BY <1>1, <2>1, <2>2 DEF OneAtATime
<1>12. BesideKnown'
  <2>1. \A y \in Exchanges : y \in Under' => y \in Under /\ y # x
    BY <1>2 DEF Under
  <2>2. \A y, z \in Exchanges : y # z /\ y \in Under' /\ z \in Under' => <<y, z>> \in beside
    BY <1>0, <2>1 DEF BesideKnown
  <2>3. ASSUME NEW y \in Exchanges, NEW z \in Exchanges, y # z, adapter \in Dify,
               KeyOf[y] = KeyOf[z], exchange'[y] = "answered", exchange'[z] = "posting",
               names[z] = NoConversation
        PROVE  <<y, z>> \in beside /\ <<z, y>> \in beside
    <3>1. z # x /\ exchange[z] = "posting"
      BY <1>2, <2>3
    <3>2. CASE y = x
      <4>1. x \in Under /\ z \in Under
        BY <3>1 DEF Under
      <4>2. QED
        BY <1>0, <3>1, <3>2, <4>1 DEF BesideKnown
    <3>3. CASE y # x
      BY <1>0, <1>2, <2>3, <3>1, <3>3 DEF BesideKnown
    <3>4. QED
      BY <3>2, <3>3
  <2>4. QED
    BY <1>1, <2>2, <2>3 DEF BesideKnown
<1>13. ConversationKept'
  <2>1. ASSUME NEW y \in Exchanges, NEW z \in Exchanges, y # z, KeyOf[y] = KeyOf[z],
               adapter \in Dify, exchange'[y] = "answered", exchange'[z] = "answered",
               OpenedNext(y), OpenedNext(z)
        PROVE  adapter = "dify" /\ <<y, z>> \in beside
    <3>1. names[y] = NoConversation /\ names[z] = NoConversation /\ Opened(y) /\ Opened(z)
      BY <1>7, <2>1
    <3>2. ASSUME NEW w \in {y, z} \ {x}, x \in {y, z}
          PROVE  adapter = "dify" /\ <<w, x>> \in beside /\ <<x, w>> \in beside
      <4>1. /\ exchange[w] = "answered" /\ how = "answered" /\ exchange[x] = "posting"
            /\ KeyOf[w] = KeyOf[x] /\ names[x] = NoConversation
        BY <1>2, <2>1, <3>1, <3>2
      <4>2. known[KeyOf[x]] # NoConversation
        BY <1>0, <2>1, <4>1 DEF AnswersKnown
      <4>3. adapter # "asyncDify"
        BY <1>0, <4>1, <4>2 DEF OneAtATime
      <4>4. QED
        BY <1>0, <2>1, <3>2, <4>1, <4>3 DEF BesideKnown, Dify
    <3>3. CASE y = x
      <4>1. z \in {y, z} \ {x} /\ x \in {y, z}
        BY <2>1, <3>3
      <4>2. adapter = "dify" /\ <<x, z>> \in beside
        BY <3>2, <4>1
      <4>3. QED
        BY <3>3, <4>2
    <3>4. CASE z = x
      <4>1. y \in {y, z} \ {x} /\ x \in {y, z}
        BY <2>1, <3>4
      <4>2. adapter = "dify" /\ <<y, x>> \in beside
        BY <3>2, <4>1
      <4>3. QED
        BY <3>4, <4>2
    <3>5. CASE y # x /\ z # x
      BY <1>0, <1>2, <2>1, <3>1, <3>5 DEF ConversationKept
    <3>6. QED
      BY <3>3, <3>4, <3>5
  <2>2. \A y \in Exchanges : exchange'[y] = "refused" => request'[y] # "taken"
    BY <1>0, <1>2 DEF ConversationKept
  <2>3. QED
    BY <1>1, <1>9, <2>1, <2>2 DEF ConversationKept, NamesSound, Opened
<1>14. QED
  BY <1>5, <1>6, <1>9, <1>10, <1>11, <1>12, <1>13 DEF AdaptersInv

LEMMA AdaptersNextInv == AdaptersInv /\ [AdaptersNext]_adapterVars => AdaptersInv'
<1> SUFFICES ASSUME AdaptersInv, [AdaptersNext]_adapterVars PROVE AdaptersInv'
  OBVIOUS
<1>0. AdaptersTypeOK /\ RequestsPlaced
  BY DEF AdaptersInv
<1>1. ASSUME NEW x \in Exchanges, Send(x) PROVE AdaptersInv'
  <2>1. CASE adapter = "asyncDify"
    BY <1>1, <2>1, QueueKeeps DEF Send
  <2>2. CASE adapter # "asyncDify"
    BY <1>1, <2>2, PostKeeps DEF Send
  <2>3. QED
    BY <2>1, <2>2
<1>2. ASSUME NEW x \in Exchanges, Acquire(x) PROVE AdaptersInv'
  BY <1>2, PostKeeps DEF Acquire
<1>3. ASSUME NEW x \in Exchanges, ConnectFails(x) PROVE AdaptersInv'
  <2>1. /\ exchange[x] = "posting" /\ request[x] = "sent" /\ End(x, Failure(FALSE))
        /\ request' = [request EXCEPT ![x] = "none"] /\ known' = known
    BY <1>3 DEF ConnectFails
  <2>2. Failure(FALSE) \in {"failed", "refused"}
    BY DEF Failure
  <2>3. QED
    BY <2>1, <2>2, EndKeeps
<1>4. ASSUME NEW x \in Exchanges, NEW how \in {"failed", "unknown", "cancelled"},
             exchange[x] \in {"queued", "posting"}, End(x, how), UNCHANGED <<known, request>>
      PROVE  AdaptersInv'
  <2>1. request[x] \in {"none", "sent", "taken"} /\ request' = [request EXCEPT ![x] = request[x]]
    BY <1>0, <1>4 DEF AdaptersTypeOK
  <2>2. QED
    BY <1>4, <2>1, EndKeeps
<1>5. Failure(TRUE) \in {"failed", "unknown"}
  BY DEF Failure
<1>6. ASSUME NEW x \in Exchanges, AnswerLost(x) PROVE AdaptersInv'
  BY <1>4, <1>5, <1>6 DEF AnswerLost
<1>7. ASSUME NEW x \in Exchanges, NEW reply \in Responses, RespondsWithout(x, reply)
      PROVE  AdaptersInv'
  <2>1. exchange[x] = "posting" /\ End(x, Failure(TRUE)) /\ UNCHANGED <<known, request>>
    BY <1>7 DEF RespondsWithout
  <2>2. QED
    BY <1>4, <1>5, <2>1
<1>8. ASSUME NEW x \in Exchanges, Cancel(x) PROVE AdaptersInv'
  BY <1>4, <1>8 DEF Cancel
<1>9. ASSUME NEW x \in Exchanges, NEW reply \in Responses, RespondsWithError(x, reply)
      PROVE  AdaptersInv'
  <2> DEFINE left == IF request[x] = "taken" THEN "taken" ELSE "none"
             how  == Failure(EffectUnknown(reply.status))
  <2>1. /\ exchange[x] = "posting" /\ End(x, how) /\ known' = known
        /\ request' = [request EXCEPT ![x] = left]
        /\ reply.status = 429 => request[x] = "sent"
    BY <1>9 DEF RespondsWithError
  <2>2. how \in {"failed", "unknown", "refused"} /\ (how = "refused" => reply.status = 429)
    BY DEF Failure, EffectUnknown
  <2>3. left \in {"none", "sent", "taken"} /\ request[x] \in {"none", "sent", "taken"}
    BY <1>0 DEF AdaptersTypeOK
  <2>4. how = "refused" => left = "none"
    BY <2>1, <2>2
  <2>5. left = request[x] \/ (request[x] = "sent" /\ left = "none")
    BY <2>3
  <2>6. how \in {"answered", "failed", "unknown", "refused", "cancelled"} /\ how # "answered"
    BY <2>2
  <2>7. PICK end \in {"answered", "failed", "unknown", "refused", "cancelled"} : end = how
    BY <2>6
  <2>8. PICK kept \in {"none", "sent", "taken"} : kept = left
    BY <2>3
  <2>9. /\ exchange[x] = "posting" /\ End(x, end) /\ known' = known /\ end # "answered"
        /\ request' = [request EXCEPT ![x] = kept] /\ (end = "refused" => kept = "none")
        /\ kept = request[x] \/ (request[x] = "sent" /\ kept = "none")
    BY <2>1, <2>4, <2>5, <2>6, <2>7, <2>8
  <2> HIDE DEF how, left
  <2>10. QED
    BY <2>9, EndKeeps
<1>10. ASSUME NEW x \in Exchanges, NEW reply \in Responses, Responds(x, reply)
       PROVE  AdaptersInv'
  <2>1. request[x] \in {"none", "sent", "taken"} /\ request' = [request EXCEPT ![x] = request[x]]
    BY <1>0, <1>10 DEF AdaptersTypeOK, Responds
  <2>2. /\ exchange[x] = "posting" /\ request[x] = "taken" /\ End(x, "answered")
        /\ known' = IF adapter \in Dify
                    THEN [known EXCEPT ![KeyOf[x]] = Conversation(x)] ELSE known
    BY <1>10 DEF Responds
  <2>3. QED
    BY <2>1, <2>2, EndKeeps
<1>11. CASE UNCHANGED adapterVars
  BY <1>11 DEF adapterVars, AdaptersInv, AdaptersTypeOK, RequestsPlaced, NamesSound,
               AnswersKnown, OneAtATime, BesideKnown, ConversationKept, Under, Opened
<1>12. QED
  BY <1>1, <1>2, <1>3, <1>6, <1>7, <1>8, <1>9, <1>10, <1>11, TakeKeeps DEF AdaptersNext

LEMMA AdaptersInvariant == AdaptersSpec => []AdaptersInv
<1>1. QED
  BY AdaptersInitInv, AdaptersNextInv, PTL DEF AdaptersSpec

\* Exchanges, requests and known conversations keep their types, for any number
\* of messages, users and sessions.
THEOREM AdaptersTypeCorrect == AdaptersSpec => []AdaptersTypeOK
<1>1. AdaptersInv => AdaptersTypeOK
  BY DEF AdaptersInv
<1>2. QED
  BY <1>1, AdaptersInvariant, PTL

\* A message only ever continues a conversation of its own user and session
\* (dify.py:57), a second one is opened only after a lost answer or beside
\* another thread, and no message reported as refused was or will be taken.
THEOREM ConversationAlwaysKept == AdaptersSpec => []ConversationKept
<1>1. AdaptersInv => ConversationKept
  BY DEF AdaptersInv
<1>2. QED
  BY <1>1, AdaptersInvariant, PTL

------------------------------------------------------------------------------
(* What a restore installs is sound, for any number of calls at once; and when  *)
(* calls take turns the published files are those of the last backup that       *)
(* returned.  The second rests on what each place of the one call under way      *)
(* says of the files, of what it keeps, and of the marker.                      *)

USE FilesAssumption, SchemaAssumption

\* What a restore's checks have established by the time it has passed them.
Checked(r) ==
  restore[r] # Nothing =>
    /\ restore[r].at \in {"checksum", "schema", "integrity"} => restore[r].claimed \in Snapshots
    /\ restore[r].at \in {"stage", "check", "replace"} => restore[r].version \in 1..CodeVersion
    /\ restore[r].at = "replace" =>
         restore[r].staging \in Snapshots /\ restore[r].version = SchemaVersion[restore[r].staging]

\* A backup has its snapshot once it has copied the database.
Copied(b) == backup[b] # Nothing /\ backup[b].at # "copy" => backup[b].new \in Snapshots

CallInv ==
  /\ \A r \in Restores : Checked(r)
  /\ \A b \in Backups : Copied(b)

\* At most one call is under way.
Single ==
  /\ \A b, c \in Backups : backup[b] # Nothing /\ backup[c] # Nothing => b = c
  /\ \A q, r \in Restores : restore[q] # Nothing /\ restore[r] # Nothing => q = r
  /\ \A b \in Backups, r \in Restores : backup[b] = Nothing \/ restore[r] = Nothing

\* Database d belongs to snapshot s, or has been damaged since.
Holds(d, s) == s # Nothing => d \in {s, Damaged}

\* What the backup under way knows of the files at each of its places.
BackupInv(b) ==
  /\ backup[b].at \in {"copy", "look", "keepDatabase", "keepManifest", "mark"} <=> ~pending
  /\ backup[b].at \in {"copy", "look"} => backup[b].oldDatabase = Nothing
  /\ backup[b].at = "keepDatabase" => last # Nothing
  /\ backup[b].at = "keepManifest" =>
       Holds(backup[b].oldDatabase, last) /\ last # Nothing /\ backup[b].oldDatabase # Nothing
  /\ backup[b].at \in {"mark", "database", "manifest", "recoverDatabase", "recoverManifest"} =>
       IF Kept(b) THEN backup[b].oldManifest = last /\ Holds(backup[b].oldDatabase, last)
                  ELSE last = Nothing
  /\ backup[b].at = "manifest" => Holds(target, backup[b].new)
  /\ backup[b].at = "published" => manifest = backup[b].new /\ Holds(target, backup[b].new)
  /\ backup[b].at = "recoverManifest" => Holds(target, last)
  /\ backup[b].at = "recovered" => manifest = last /\ Holds(target, last)

\* What the restore under way knows of them.
RestoreInv(r) ==
  /\ restore[r].at # "pending" => ~pending
  /\ restore[r].at \notin {"pending", "manifest"} => last # Nothing
  /\ restore[r].at \in {"check", "replace"} => Holds(restore[r].staging, last)

AloneInv ==
  alone =>
    /\ Single
    /\ ~pending => manifest = last /\ Holds(target, last)
    /\ \A b \in Backups : backup[b] # Nothing => BackupInv(b)
    /\ \A r \in Restores : restore[r] # Nothing => RestoreInv(r)

IInv == TypeOK /\ CallInv /\ AloneInv

-----------------------------------------------------------------------------
LEMMA InitIInv == Init => IInv
<1> SUFFICES ASSUME Init PROVE IInv
    OBVIOUS
<1>1. TypeOK
    BY DEF Init, TypeOK, File, Manifest
<1>2. CallInv
    BY DEF Init, CallInv, Checked, Copied
<1>3. AloneInv
    BY DEF Init, AloneInv, Single, Holds, Manifest
<1> QED BY <1>1, <1>2, <1>3 DEF IInv

\* The types of the files and of the calls, and what each call knows by itself,
\* after a step of a backup.
LEMMA BackupKeepsTypes ==
  ASSUME TypeOK, CallInv, NEW b \in Backups, BackupStep(b)
  PROVE  TypeOK' /\ CallInv'
<1> USE DEF TypeOK, CallInv, Checked, Copied, BackupCall, BackupPlaces, File, Manifest,
            BackupAt, BackupTo, BackupEnds, OthersRest, published
<1>1. CASE StartBackup(b)
    BY <1>1 DEF StartBackup
<1>2. CASE CopyDatabase(b)
    BY <1>2 DEF CopyDatabase
<1>3. CASE LookForPrevious(b)
    BY <1>3 DEF LookForPrevious
<1>4. CASE KeepDatabase(b)
    BY <1>4 DEF KeepDatabase
<1>5. CASE KeepManifest(b)
    BY <1>5 DEF KeepManifest
<1>6. CASE FailEarly(b)
    BY <1>6 DEF FailEarly
<1>7. CASE Mark(b)
    BY <1>7 DEF Mark
<1>8. CASE ReplaceDatabase(b)
    BY <1>8 DEF ReplaceDatabase
<1>9. CASE ReplaceManifest(b)
    BY <1>9 DEF ReplaceManifest
<1>10. CASE PublicationFails(b)
    BY <1>10 DEF PublicationFails
<1>11. CASE RecoverDatabase(b)
    BY <1>11 DEF RecoverDatabase
<1>12. CASE RecoverManifest(b)
    BY <1>12 DEF RecoverManifest
<1>13. CASE Unmark(b)
    BY <1>13 DEF Unmark
<1>14. CASE Abandon(b)
    BY <1>14 DEF Abandon
<1> QED BY <1>1, <1>2, <1>3, <1>4, <1>5, <1>6, <1>7, <1>8, <1>9, <1>10, <1>11, <1>12, <1>13, <1>14 DEF BackupStep

\* The same after a step of a restore.
LEMMA RestoreKeepsTypes ==
  ASSUME TypeOK, CallInv, NEW r \in Restores, RestoreStep(r)
  PROVE  TypeOK' /\ CallInv'
<1> USE DEF TypeOK, CallInv, Checked, Copied, RestoreCall, RestorePlaces, File, Manifest,
            RestoreAt, RestoreTo, RestoreEnds, OnlyReads, published, ShownVersions
<1>1. CASE StartRestore(r)
    BY <1>1 DEF StartRestore
<1>2. CASE ReadPending(r)
    BY <1>2 DEF ReadPending
<1>3. CASE ReadManifest(r)
    BY <1>3 DEF ReadManifest
<1>4. CASE CompareChecksum(r)
    BY <1>4 DEF CompareChecksum
<1>5. CASE ReadSchema(r)
    BY <1>5 DEF ReadSchema
<1>6. CASE CheckIntegrity(r)
    BY <1>6 DEF CheckIntegrity
<1>7. CASE Stage(r)
    BY <1>7 DEF Stage
<1>8. CASE CheckStaging(r)
    BY <1>8 DEF CheckStaging
<1>9. CASE Replace(r)
    BY <1>9 DEF Replace
<1>10. CASE RestoreFails(r)
    BY <1>10 DEF RestoreFails
<1> QED BY <1>1, <1>2, <1>3, <1>4, <1>5, <1>6, <1>7, <1>8, <1>9, <1>10 DEF RestoreStep

-----------------------------------------------------------------------------
(* Calls that take turns.                                                     *)

Files == ~pending => manifest = last /\ Holds(target, last)

\* A step of a backup is the only call's, and keeps what that call knows.
LEMMA BackupKeepsAlone ==
  ASSUME TypeOK, CallInv, AloneInv, alone, NEW b \in Backups, BackupStep(b)
  PROVE  AloneInv'
<1>1. /\ \A c \in Backups : c # b => backup[c] = Nothing
      /\ \A r \in Restores : restore[r] = Nothing
  <2>1. CASE backup[b] # Nothing
    BY <2>1 DEF AloneInv, Single
  <2>2. CASE MayStart
    BY <2>2 DEF MayStart
  <2> QED BY <2>1, <2>2 DEF BackupStep, BackupAt, StartBackup, CopyDatabase, LookForPrevious,
        KeepDatabase, KeepManifest, FailEarly, Mark, ReplaceDatabase, ReplaceManifest,
        PublicationFails, RecoverDatabase, RecoverManifest, Unmark, Abandon
<1>2. /\ \A c \in Backups : c # b => backup'[c] = Nothing
      /\ \A r \in Restores : restore'[r] = Nothing
      /\ alone'
  BY <1>1 DEF BackupStep, BackupTo, BackupEnds, OthersRest, TypeOK, StartBackup, CopyDatabase,
        LookForPrevious, KeepDatabase, KeepManifest, FailEarly, Mark, ReplaceDatabase,
        ReplaceManifest, PublicationFails, RecoverDatabase, RecoverManifest, Unmark, Abandon
<1>3. Files /\ (backup[b] # Nothing => BackupInv(b))
  BY DEF AloneInv, Files
<1>4. Files' /\ (backup'[b] # Nothing => BackupInv(b)')
  <2> USE <1>3 DEF Files, BackupInv, Kept, Holds, TypeOK, CallInv, Copied, BackupCall, File, Manifest,
                   BackupAt, BackupTo, BackupEnds, OthersRest, published
  <2>1. CASE StartBackup(b)
    BY <2>1 DEF StartBackup
  <2>2. CASE CopyDatabase(b)
    BY <2>2 DEF CopyDatabase
  <2>3. CASE LookForPrevious(b)
    BY <2>3 DEF LookForPrevious
  <2>4. CASE KeepDatabase(b)
    BY <2>4 DEF KeepDatabase
  <2>5. CASE KeepManifest(b)
    BY <2>5 DEF KeepManifest
  <2>6. CASE FailEarly(b)
    BY <2>6 DEF FailEarly
  <2>7. CASE Mark(b)
    BY <2>7 DEF Mark
  <2>8. CASE ReplaceDatabase(b)
    BY <2>8 DEF ReplaceDatabase
  <2>9. CASE ReplaceManifest(b)
    BY <2>9 DEF ReplaceManifest
  <2>10. CASE PublicationFails(b)
    BY <2>10 DEF PublicationFails
  <2>11. CASE RecoverDatabase(b)
    BY <2>11 DEF RecoverDatabase
  <2>12. CASE RecoverManifest(b)
    BY <2>12 DEF RecoverManifest
  <2>13. CASE Unmark(b)
    BY <2>13 DEF Unmark
  <2>14. CASE Abandon(b)
    BY <2>14 DEF Abandon
  <2> QED BY <2>1, <2>2, <2>3, <2>4, <2>5, <2>6, <2>7, <2>8, <2>9, <2>10, <2>11, <2>12, <2>13, <2>14 DEF BackupStep
<1> QED BY <1>2, <1>4 DEF AloneInv, Single, Files

\* And so is a step of a restore, which changes no published file.
LEMMA RestoreKeepsAlone ==
  ASSUME TypeOK, CallInv, AloneInv, alone, NEW r \in Restores, RestoreStep(r)
  PROVE  AloneInv'
<1>1. /\ \A q \in Restores : q # r => restore[q] = Nothing
      /\ \A b \in Backups : backup[b] = Nothing
  <2>1. CASE restore[r] # Nothing
    BY <2>1 DEF AloneInv, Single
  <2>2. CASE MayStart
    BY <2>2 DEF MayStart
  <2> QED BY <2>1, <2>2 DEF RestoreStep, RestoreAt, StartRestore, ReadPending, ReadManifest,
        CompareChecksum, ReadSchema, CheckIntegrity, Stage, CheckStaging, Replace, RestoreFails
<1>2. /\ \A q \in Restores : q # r => restore'[q] = Nothing
      /\ \A b \in Backups : backup'[b] = Nothing
      /\ alone' /\ UNCHANGED <<published, last>>
  BY <1>1 DEF RestoreStep, RestoreTo, RestoreEnds, OnlyReads, TypeOK, StartRestore, ReadPending,
        ReadManifest, CompareChecksum, ReadSchema, CheckIntegrity, Stage, CheckStaging, Replace,
        RestoreFails
<1>3. Files /\ (restore[r] # Nothing => RestoreInv(r))
  BY DEF AloneInv, Files
<1>4. restore'[r] # Nothing => RestoreInv(r)'
  <2> USE <1>2, <1>3 DEF Files, RestoreInv, Holds, TypeOK, RestoreCall, File, Manifest,
                   RestoreAt, RestoreTo, RestoreEnds, OnlyReads, published
  <2>1. CASE StartRestore(r)
    BY <2>1 DEF StartRestore
  <2>2. CASE ReadPending(r)
    BY <2>2 DEF ReadPending
  <2>3. CASE ReadManifest(r)
    BY <2>3 DEF ReadManifest
  <2>4. CASE CompareChecksum(r)
    BY <2>4 DEF CompareChecksum
  <2>5. CASE ReadSchema(r)
    BY <2>5 DEF ReadSchema
  <2>6. CASE CheckIntegrity(r)
    BY <2>6 DEF CheckIntegrity
  <2>7. CASE Stage(r)
    BY <2>7 DEF Stage
  <2>8. CASE CheckStaging(r)
    BY <2>8 DEF CheckStaging
  <2>9. CASE Replace(r)
    BY <2>9 DEF Replace
  <2>10. CASE RestoreFails(r)
    BY <2>10 DEF RestoreFails
  <2> QED BY <2>1, <2>2, <2>3, <2>4, <2>5, <2>6, <2>7, <2>8, <2>9, <2>10 DEF RestoreStep
<1>5. Files'
  BY <1>2, <1>3 DEF Files, Holds, published
<1> QED BY <1>2, <1>4, <1>5 DEF AloneInv, Single, Files

LEMMA NextIInv == IInv /\ [Next]_vars => IInv'
<1> SUFFICES ASSUME IInv, [Next]_vars PROVE IInv'
    OBVIOUS
<1> USE DEF IInv
<1>1. CASE \E b \in Backups : BackupStep(b)
  <2> PICK b \in Backups : BackupStep(b)
      BY <1>1
  <2>1. TypeOK' /\ CallInv'
      BY BackupKeepsTypes
  <2>2. alone' = alone
      BY DEF BackupStep, OthersRest, StartBackup, CopyDatabase, LookForPrevious, KeepDatabase,
        KeepManifest, FailEarly, Mark, ReplaceDatabase, ReplaceManifest, PublicationFails,
        RecoverDatabase, RecoverManifest, Unmark, Abandon
  <2>3. AloneInv'
    <3>1. CASE alone
      BY <3>1, BackupKeepsAlone
    <3>2. CASE ~alone
      BY <3>2, <2>2 DEF AloneInv
    <3> QED BY <3>1, <3>2
  <2> QED BY <2>1, <2>3
<1>2. CASE \E r \in Restores : RestoreStep(r)
  <2> PICK r \in Restores : RestoreStep(r)
      BY <1>2
  <2>1. TypeOK' /\ CallInv'
      BY RestoreKeepsTypes
  <2>2. alone' = alone
      BY DEF RestoreStep, OnlyReads, StartRestore, ReadPending, ReadManifest, CompareChecksum,
        ReadSchema, CheckIntegrity, Stage, CheckStaging, Replace, RestoreFails
  <2>3. AloneInv'
    <3>1. CASE alone
      BY <3>1, RestoreKeepsAlone
    <3>2. CASE ~alone
      BY <3>2, <2>2 DEF AloneInv
    <3> QED BY <3>1, <3>2
  <2> QED BY <2>1, <2>3
<1>3. CASE Write \/ Damage \/ UNCHANGED vars
  <2>1. TypeOK' /\ CallInv'
      BY <1>3 DEF Write, Damage, vars, published, TypeOK, CallInv, Checked, Copied, File
  <2>2. /\ UNCHANGED <<manifest, pending, backup, restore, last, alone>>
        /\ target' \in {target, Damaged}
      BY <1>3 DEF Write, Damage, vars, published
  <2>3. ASSUME alone PROVE AloneInv'
    <3>1. Single' /\ (~pending' => manifest' = last' /\ Holds(target', last'))
      BY <2>2, <2>3 DEF AloneInv, Single, Holds
    <3>2. ASSUME NEW b \in Backups, backup'[b] # Nothing PROVE BackupInv(b)'
      <4>1. BackupInv(b)
        BY <2>2, <2>3, <3>2 DEF AloneInv
      <4> QED BY <2>2, <4>1 DEF BackupInv, Kept, Holds
    <3>3. ASSUME NEW r \in Restores, restore'[r] # Nothing PROVE RestoreInv(r)'
      <4>1. RestoreInv(r)
        BY <2>2, <2>3, <3>3 DEF AloneInv
      <4> QED BY <2>2, <4>1 DEF RestoreInv, Holds
    <3> QED BY <3>1, <3>2, <3>3 DEF AloneInv
  <2>4. AloneInv'
      BY <2>2, <2>3 DEF AloneInv
  <2> QED BY <2>1, <2>4
<1> QED BY <1>1, <1>2, <1>3 DEF Next

LEMMA Inductive == Spec => []IInv
<1> QED BY InitIInv, NextIInv, PTL DEF Spec

-----------------------------------------------------------------------------
\* The files and the calls keep their types, for any number of calls at once.
THEOREM TypeCorrect == Spec => []TypeOK
<1>1. IInv => TypeOK
    BY DEF IInv
<1> QED BY Inductive, <1>1, PTL

\* Calls that take turns never leave half a backup unmarked, whichever of them
\* fails, fails to recover or is killed, and wherever.
THEOREM PublishedWhole == Spec => []AlonePublished
<1>1. IInv => AlonePublished
    BY DEF IInv, AloneInv, AlonePublished, Holds
<1> QED BY Inductive, <1>1, PTL

\* A restore installs a sound snapshot of a known schema, and when calls take
\* turns the one the last backup that returned was of.
THEOREM RestoresSound == Spec => []RestoreSound
<1>1. ASSUME IInv, NEW r \in Restores, RestoreAt(r, "replace")
      PROVE  /\ restore[r].staging \in Snapshots
             /\ Compatible(restore[r].staging)
             /\ alone => restore[r].staging = last
  <2> USE <1>1 DEF RestoreAt, IInv
  <2>1. restore[r].staging \in Snapshots /\ Compatible(restore[r].staging)
      BY DEF CallInv, Checked, Compatible, VersionOf
  <2>2. ASSUME alone PROVE restore[r].staging = last
      BY <2>1, <2>2 DEF AloneInv, RestoreInv, Holds
  <2> QED BY <2>1, <2>2
<1>2. IInv => RestoreSound
    BY <1>1 DEF RestoreSound
<1> QED BY Inductive, <1>2, PTL

------------------------------------------------------------------------------
(* The load tests and the gate suite.                                         *)
(*                                                                            *)
(* What the samples cost is a sum over a finite set, defined by recursion on  *)
(* the set.  The set of its units, each tagged with its sample, satisfies the *)
(* same equation; a smallest subset on which the two differ shows that the    *)
(* sum is the number of units, and so that it grows by what is added.         *)

LEMMA SmallestSubset ==
  ASSUME NEW whole, IsFiniteSet(whole), NEW family, family \subseteq SUBSET whole, family # {}
  PROVE  \E x \in family : \A y \in family : ~(y \subseteq x /\ y # x)
<1>1. IsWellFoundedOn(StrictSubsetOrdering(whole), FiniteSubsetsOf(whole))
  BY FS_StrictSubsetOrderingWellFounded
<1>2. family \subseteq FiniteSubsetsOf(whole)
  BY FS_Subset DEF FiniteSubsetsOf
<1>3. PICK x \in family : \A y \in family : ~(<<y, x>> \in StrictSubsetOrdering(whole))
  BY <1>1, <1>2, WFMin
<1>4. QED
  BY <1>3 DEF StrictSubsetOrdering

CostOf(chosen) == MapThenSumSet(LAMBDA s : The(s.cost), chosen)

Priced(chosen) == IsFiniteSet(chosen) /\ \A x \in chosen : The(x.cost) \in Nat

\* The units of the costs, each with the sample it belongs to.
Units(chosen) == UNION {{x} \X (1..The(x.cost)) : x \in chosen}

LEMMA UnitsFinite ==
  ASSUME NEW chosen, Priced(chosen)
  PROVE  IsFiniteSet(Units(chosen)) /\ Cardinality(Units(chosen)) \in Nat
<1> DEFINE Op(x) == {x} \X (1..The(x.cost))
<1>1. IsFiniteSet({Op(x) : x \in chosen})
  <2>1. [x \in chosen |-> Op(x)] \in Surjection(chosen, {Op(x) : x \in chosen})
    BY DEF Surjection
  <2> HIDE DEF Op
  <2> QED BY <2>1, FS_Surjection DEF Priced
<1>2. \A x \in chosen : IsFiniteSet(Op(x))
  <2> TAKE x \in chosen
  <2>1. IsFiniteSet({x}) /\ IsFiniteSet(1..The(x.cost))
    <3>1. The(x.cost) \in Int
      BY DEF Priced
    <3>2. IsFiniteSet({x})
      BY FS_Singleton
    <3>3. \A n \in Int : IsFiniteSet(1..n)
      BY FS_Interval
    <3> QED BY <3>1, <3>2, <3>3
  <2> QED BY <2>1, FS_Product
<1>3. IsFiniteSet(UNION {Op(x) : x \in chosen})
  <2> HIDE DEF Op
  <2> QED BY <1>1, <1>2, FS_UNION
<1> QED BY <1>3, FS_CardinalityType DEF Units

LEMMA UnitsAdd ==
  ASSUME NEW chosen, Priced(chosen), NEW x \in chosen
  PROVE  Cardinality(Units(chosen)) = The(x.cost) + Cardinality(Units(chosen \ {x}))
<1> DEFINE own == {x} \X (1..The(x.cost))  others == Units(chosen \ {x})
<1>1. Units(chosen) = own \cup others
  BY DEF Units
<1>2. own \cap others = {}
  BY DEF Units
<1>3. Priced(chosen \ {x})
  BY FS_Difference DEF Priced
<1>4. IsFiniteSet(others) /\ Cardinality(others) \in Nat
  BY <1>3, UnitsFinite
<1>5. The(x.cost) \in Nat
  BY DEF Priced
<1>6. IsFiniteSet(own) /\ Cardinality(own) = The(x.cost)
  <2>1. IsFiniteSet({x}) /\ Cardinality({x}) = 1
    BY FS_Singleton
  <2>2. IsFiniteSet(1..The(x.cost)) /\ Cardinality(1..The(x.cost)) = The(x.cost)
    BY <1>5, FS_Interval
  <2>3. QED
    BY <1>5, <2>1, <2>2, FS_Product
<1> HIDE DEF own, others
<1>7. Cardinality(own \cup others) = Cardinality(own) + Cardinality(others) - Cardinality({})
  BY <1>2, <1>4, <1>6, FS_Union
<1>8. QED
  BY <1>1, <1>4, <1>5, <1>6, <1>7, FS_EmptySet DEF others

LEMMA CostIsUnits ==
  ASSUME NEW chosen, Priced(chosen)
  PROVE  CostOf(chosen) = Cardinality(Units(chosen))
<1> DEFINE first(s) == CHOOSE x \in s : TRUE
           Sums(f) == f = [s \in SUBSET chosen |-> IF s = {} THEN 0
                                           ELSE The(first(s).cost) + f[s \ {first(s)}]]
           sum == CHOOSE f : Sums(f)
           units == [s \in SUBSET chosen |-> Cardinality(Units(s))]
<1>1. CostOf(chosen) = sum[chosen]
  BY DEF CostOf, MapThenSumSet, MapThenFoldSet
<1>2. \A s \in SUBSET chosen : Priced(s)
  BY FS_Subset DEF Priced
<1>3. \A s \in SUBSET chosen : s # {} => first(s) \in s
  OBVIOUS
<1>4. ASSUME NEW s \in SUBSET chosen, s # {}
      PROVE  units[s] = The(first(s).cost) + units[s \ {first(s)}]
  <2> HIDE DEF first
  <2>1. Cardinality(Units(s)) = The(first(s).cost) + Cardinality(Units(s \ {first(s)}))
    BY <1>2, <1>3, <1>4, UnitsAdd
  <2> QED BY <2>1
<1>5. units[{}] = 0
  <2>1. Units({}) = {}
    BY DEF Units
  <2> QED BY <2>1, FS_EmptySet
<1>6. Sums(units)
  <2> HIDE DEF first
  <2> QED BY <1>4, <1>5
<1>7. Sums(sum)
  <2> HIDE DEF Sums, units
  <2> QED BY <1>6
<1>8. sum[chosen] = units[chosen]
  <2> DEFINE bad == {s \in SUBSET chosen : sum[s] # units[s]}
  <2> HIDE DEF sum, first
  <2> SUFFICES ASSUME bad # {} PROVE FALSE
    OBVIOUS
  <2>1. PICK s \in bad : \A t \in bad : ~(t \subseteq s /\ t # s)
    <3>1. bad \subseteq SUBSET chosen /\ IsFiniteSet(chosen)
      BY DEF Priced
    <3> HIDE DEF bad
    <3> QED BY <3>1, SmallestSubset
  <2>2. s \in SUBSET chosen /\ s # {}
    BY <1>5, <1>7
  <2>3. s \ {first(s)} \in SUBSET chosen /\ s \ {first(s)} \notin bad
    BY <1>3, <2>1, <2>2
  <2>4. sum[s \ {first(s)}] = units[s \ {first(s)}]
    BY <2>3
  <2>5. sum[s] = The(first(s).cost) + sum[s \ {first(s)}]
    BY <1>7, <2>2
  <2> QED BY <1>4, <2>1, <2>2, <2>4, <2>5
<1> HIDE DEF sum
<1> QED BY <1>1, <1>8

LEMMA CostAdds ==
  ASSUME NEW chosen, Priced(chosen), NEW x, x \notin chosen, The(x.cost) \in Nat
  PROVE  CostOf(chosen \cup {x}) = CostOf(chosen) + The(x.cost)
<1>1. Priced(chosen \cup {x})
  BY FS_AddElement DEF Priced
<1>2. (chosen \cup {x}) \ {x} = chosen
  OBVIOUS
<1>3. Cardinality(Units(chosen)) \in Nat
  BY UnitsFinite
<1>4. Cardinality(Units(chosen \cup {x})) = The(x.cost) + Cardinality(Units(chosen))
  BY <1>1, <1>2, UnitsAdd
<1>5. QED
  BY <1>1, <1>3, <1>4, CostIsUnits

LEMMA CostNone == CostOf({}) = 0
<1>1. Priced({}) /\ Units({}) = {}
  BY FS_EmptySet DEF Priced, Units
<1>2. QED
  BY <1>1, CostIsUnits, FS_EmptySet

LEMMA LeastOf ==
  ASSUME NEW values \in SUBSET Nat, values # {}
  PROVE  Min(values) \in values /\ \A y \in values : Min(values) <= y
<1>1. PICK x \in values : \A y \in values : ~(<<y, x>> \in OpToRel(<, Nat))
  BY NatLessThanWellFounded, WFMin
<1>2. \A y \in values : x <= y
  <2> TAKE y \in values
  <2>1. ~(<<y, x>> \in {ss \in Nat \X Nat : ss[1] < ss[2]})
    BY <1>1, Zenon DEF OpToRel
  <2>2. <<y, x>> \in Nat \X Nat
    OBVIOUS
  <2>3. ~(y < x)
    BY <2>1, <2>2
  <2> QED
    BY <2>3
<1>3. QED
  BY <1>2 DEF Min

\* What is read of a stream is a beginning of it, and has a stopping event if the
\* stream has one.
LEMMA ReadBegins ==
  ASSUME NEW events \in Seq(Event)
  PROVE  /\ \A kinds : HasEvent(EventsRead(events), kinds) => HasEvent(events, kinds)
         /\ (\E i \in DOMAIN events : Stops(events[i])) =>
               HasEvent(EventsRead(events), {"badChunk", "malformed", "complete", "badComplete"})
<1> DEFINE stops == {i \in DOMAIN events : Stops(events[i])}
           cut == Min(stops)
<1>1. CASE stops = {}
  BY <1>1 DEF EventsRead
<1>2. CASE stops # {}
  <2>1. stops \in SUBSET Nat
    OBVIOUS
  <2>2. cut \in DOMAIN events /\ Stops(events[cut])
    <3> cut \in stops
      <4> HIDE DEF stops
      <4> QED BY <1>2, <2>1, LeastOf
    <3> QED OBVIOUS
  <2>3. EventsRead(events) = SubSeq(events, 1, cut)
    BY <1>2 DEF EventsRead
  <2> HIDE DEF cut, stops
  <2>4. /\ DOMAIN SubSeq(events, 1, cut) = 1..cut
        /\ \A i \in 1..cut : SubSeq(events, 1, cut)[i] = events[i]
        /\ 1..cut \subseteq DOMAIN events /\ cut \in 1..cut
    BY <2>2
  <2>5. QED
    BY <2>2, <2>3, <2>4 DEF HasEvent, Stops
<1>3. QED
  BY <1>1, <1>2

\* A request is a success only if the target answered it in full, and only what it
\* then says of cost and currency is believed.
LEMMA SampleFaithful ==
  ASSUME NEW config, ValidLoad(config), NEW session, NEW reply \in LoadReplies,
         ~EscapesSample(config, reply)
  PROVE  /\ Sample(config, session, reply).session = session
         /\ Sample(config, session, reply).success => Complete(reply)
         /\ Sample(config, session, reply).cost \subseteq Nat
         /\ Sample(config, session, reply).cost # {} =>
               /\ Sample(config, session, reply).cost = reply.cost
               /\ Sample(config, session, reply).currency = reply.currency
<1>1. /\ reply \in Reply /\ reply.events \in Seq(Event) /\ reply.end \in Endings
      /\ reply.cost \subseteq Nat
      /\ reply.status = 0 => reply.end # "eof"
  BY GateConstants DEF Reply
<1>2. CASE config.protocol = "sse"
  <2>1. StreamError(reply) = "" => Complete(reply)
    <3> SUFFICES ASSUME StreamError(reply) = "" PROVE Complete(reply)
      OBVIOUS
    <3>1. reply.status # 0
      BY <1>1, <1>2 DEF StreamError, ErrorOfEnd, EscapesSample, Endings
    <3>2. Ok(reply.status) /\ reply.stream
      BY <3>1 DEF StreamError
    <3>3. HasEvent(EventsRead(reply.events), {"complete"})
      <4> SUFFICES ASSUME ~HasEvent(EventsRead(reply.events), {"complete"}) PROVE FALSE
        OBVIOUS
      <4>1. /\ ~HasEvent(EventsRead(reply.events), {"badChunk", "malformed", "badComplete"})
            /\ reply.end # "eof" /\ ErrorOfEnd(reply.end) = ""
        BY <3>1, <3>2 DEF StreamError
      <4>2. reply.end = "crash"
        BY <1>1, <4>1 DEF ErrorOfEnd, Endings
      <4>3. \E i \in DOMAIN reply.events : Stops(reply.events[i])
        BY <3>2, <4>2 DEF EscapesSample, Established
      <4>4. HasEvent(EventsRead(reply.events), {"badChunk", "malformed", "complete", "badComplete"})
        BY <1>1, <4>3, ReadBegins
      <4>5. QED
        BY <4>1, <4>4 DEF HasEvent
    <3>4. QED
      BY <1>1, <3>2, <3>3, ReadBegins DEF Complete
  <2>2. QED
    BY <1>1, <1>2, <2>1 DEF Sample
<1>3. CASE config.protocol = "http"
  <2>1. PlainError(reply) = "" => Complete(reply)
    BY <1>1, <1>3 DEF PlainError, Complete, ErrorOfEnd, EscapesSample, Endings
  <2>2. QED
    BY <1>1, <1>3, <2>1 DEF Sample
<1>4. QED
  BY <1>2, <1>3 DEF ValidLoad

------------------------------------------------------------------------------
(* The requests of a run are all accounted for.                               *)

LoadShaped ==
    load = [config |-> load.config, stage |-> load.stage, issued |-> load.issued,
            warm |-> load.warm, flying |-> load.flying, over |-> load.over,
            samples |-> load.samples]

\* Every measured request is under way or has a sample of its own; while all of
\* these are good the target has answered all, and while all of them have a price
\* they have that of the target.
Accounted ==
    /\ load.flying \subseteq (load.warm + 1)..load.issued
    /\ IsFiniteSet(load.samples)
    /\ \A s \in load.samples : /\ s.session \in ((load.warm + 1)..load.issued) \ load.flying
                               /\ s.cost \subseteq Nat
    /\ Cardinality(load.samples) = service.served
    /\ service.served + Cardinality(load.flying) = NextIndex
    /\ load.config.requests # {} => NextIndex <= The(load.config.requests)
    /\ (\A s \in load.samples : s.success) => service.answered = service.served
    /\ (\A s \in load.samples : s.cost # {}) =>
           /\ service.billed = CostOf(load.samples)
           /\ service.currencies = {s.currency : s \in load.samples}

WarmingUp ==
    /\ load.issued = load.warm /\ load.flying \subseteq {load.issued} /\ load.samples = {}
    /\ service.served = 0 /\ service.answered = 0 /\ service.billed = 0
    /\ service.currencies = {}

ServiceTypeOK ==
    /\ service \in [persisted : SUBSET Nat, served : Nat, answered : Nat, billed : Nat,
                    currencies : SUBSET STRING]
    /\ IsFiniteSet(service.persisted)

LoadInv ==
    /\ LoadShaped /\ ServiceTypeOK
    /\ load.stage \in {"idle", "warmup", "measure", "returned", "raised"}
    /\ load.issued \in Nat /\ load.warm \in Nat
    /\ load.stage # "idle" => ValidLoad(load.config)
    /\ ~Runs => load.flying = {}
    /\ load.stage = "warmup" => WarmingUp
    /\ load.stage \in {"measure", "returned"} => Accounted
    /\ load.stage = "measure" => Cardinality(load.flying) <= Workers
    /\ load.stage = "returned" /\ load.config.requests # {} =>
           service.served = The(load.config.requests)

LEMMA IdleInv ==
  ASSUME load' = Idle, service' = Untouched
  PROVE  LoadInv'
<1>1. LoadShaped'
  BY DEF LoadShaped, Idle
<1>2. service' \in [persisted : SUBSET Nat, served : Nat, answered : Nat, billed : Nat,
                    currencies : SUBSET STRING] /\ service'.persisted = {}
  BY DEF Untouched
<1>3. ServiceTypeOK'
  BY <1>2, FS_EmptySet DEF ServiceTypeOK
<1>4. load'.stage = "idle" /\ load'.issued = 0 /\ load'.warm = 0 /\ load'.flying = {}
  BY DEF Idle
<1>5. QED
  BY <1>1, <1>3, <1>4 DEF LoadInv

LEMMA BeginsInv ==
  ASSUME NEW config, ValidLoad(config), LoadBegins(config)
  PROVE  LoadInv' /\ load'.stage = "warmup" /\ load'.config = config
<1>1. load' = [config |-> config, stage |-> "warmup", issued |-> 0, warm |-> 0, flying |-> {},
               over |-> FALSE, samples |-> {}]
  BY DEF LoadBegins, Idle
<1>2. LoadShaped'
  BY <1>1 DEF LoadShaped
<1>3. service' = [persisted |-> {}, served |-> 0, answered |-> 0, billed |-> 0, currencies |-> {}]
  BY DEF LoadBegins, Untouched
<1>4. service' \in [persisted : SUBSET Nat, served : Nat, answered : Nat, billed : Nat,
                    currencies : SUBSET STRING] /\ service'.persisted = {}
  BY <1>3
<1>5. ServiceTypeOK'
  BY <1>4, FS_EmptySet DEF ServiceTypeOK
<1>6. /\ load'.stage = "warmup" /\ load'.config = config /\ load'.issued = 0 /\ load'.warm = 0
      /\ load'.flying = {} /\ load'.samples = {}
  BY <1>1
<1>7. WarmingUp'
  BY <1>3, <1>6 DEF WarmingUp
<1>8. QED
  BY <1>2, <1>5, <1>6, <1>7 DEF LoadInv, Runs

\* What a valid configuration says of its numbers.
LEMMA LoadNumbers ==
  ASSUME NEW config, ValidLoad(config)
  PROVE  /\ config.concurrency \in Nat \ {0} /\ config.warmup \in Nat
         /\ config.requests # {} => config.requests = {The(config.requests)}
                                    /\ The(config.requests) \in Nat \ {0}
<1>1. /\ config.concurrency \in Nat \ {0} /\ config.warmup \in Nat
  BY DEF ValidLoad
<1>2. ASSUME config.requests # {}
      PROVE  config.requests = {The(config.requests)} /\ The(config.requests) \in Nat \ {0}
  <2>1. config.duration = {}
    BY <1>2 DEF ValidLoad
  <2>2. PICK n \in Nat \ {0} : config.requests = {n}
    BY <2>1 DEF ValidLoad
  <2>3. The(config.requests) = n
    BY <2>2 DEF The
  <2>4. QED
    BY <2>2, <2>3
<1> QED
  BY <1>1, <1>2

LEMMA WorkersNumber ==
  ASSUME ValidLoad(load.config)
  PROVE  Workers \in Nat \ {0}
<1>1. CASE load.config.requests = {}
  BY <1>1, LoadNumbers DEF Workers
<1>2. CASE load.config.requests # {}
  <2> DEFINE both == {load.config.concurrency, The(load.config.requests)}
  <2>1. both \in SUBSET Nat /\ both # {} /\ \A n \in both : n # 0
    BY <1>2, LoadNumbers
  <2>2. Workers = Min(both)
    BY <1>2 DEF Workers
  <2> HIDE DEF both
  <2>3. QED
    BY <2>1, <2>2, LeastOf
<1>3. QED
  BY <1>1, <1>2

LEMMA IssueKeeps ==
  ASSUME LoadInv, IssueRequest
  PROVE  LoadInv' /\ load'.config = load.config /\ load'.stage = load.stage
<1>1. PICK c, st, n, w, f, o, ss :
        load = [config |-> c, stage |-> st, issued |-> n, warm |-> w, flying |-> f, over |-> o,
                samples |-> ss]
  BY DEF LoadInv, LoadShaped
<1>2. n \in Nat /\ w \in Nat /\ service' = service /\ ServiceTypeOK
  BY <1>1 DEF LoadInv, IssueRequest
<1>3. ServiceTypeOK'
  BY <1>2 DEF ServiceTypeOK
<1>4. CASE load.stage = "warmup"
  <2>1. f = {} /\ load' = [config |-> c, stage |-> st, issued |-> n + 1, warm |-> w + 1,
                           flying |-> {n + 1}, over |-> o, samples |-> ss]
    BY <1>1, <1>4 DEF IssueRequest
  <2>2. LoadShaped'
    BY <2>1 DEF LoadShaped
  <2>3. n = w /\ ss = {} /\ ValidLoad(c)
    BY <1>1, <1>4 DEF LoadInv, WarmingUp
  <2>4. WarmingUp'
    BY <1>1, <1>2, <1>4, <2>1, <2>3 DEF LoadInv, WarmingUp
  <2>5. QED
    BY <1>1, <1>2, <1>3, <1>4, <2>1, <2>2, <2>3, <2>4 DEF LoadInv, Runs
<1>5. CASE load.stage = "measure"
  <2>1. /\ load' = [config |-> c, stage |-> st, issued |-> n + 1, warm |-> w,
                    flying |-> f \cup {n + 1}, over |-> o, samples |-> ss]
        /\ MoreToDo /\ Cardinality(f) < Workers
    BY <1>1, <1>5 DEF IssueRequest
  <2>2. LoadShaped'
    BY <2>1 DEF LoadShaped
  <2>3. ValidLoad(c) /\ Accounted
    BY <1>1, <1>5 DEF LoadInv
  <2>4. f \subseteq (w + 1)..n /\ IsFiniteSet(f) /\ n + 1 \notin f
    <3>1. f \subseteq (w + 1)..n
      BY <1>1, <2>3 DEF Accounted
    <3>2. IsFiniteSet((w + 1)..n)
      BY <1>2, FS_Interval
    <3>3. IsFiniteSet(f)
      BY <3>1, <3>2, FS_Subset
    <3> QED
      BY <1>2, <3>1, <3>3
  <2>5. /\ Cardinality(f) \in Nat /\ Cardinality(f \cup {n + 1}) = Cardinality(f) + 1
    BY <2>4, FS_CardinalityType, FS_AddElement
  <2>6. Workers \in Nat /\ Workers' = Workers
    BY <1>1, <2>1, <2>3, WorkersNumber DEF Workers
  <2>7. n - w \in Nat
    <3>1. service.served \in Nat /\ service.served + Cardinality(f) = n - w
      BY <1>1, <1>2, <2>3 DEF Accounted, NextIndex, ServiceTypeOK
    <3> QED
      BY <1>2, <2>5, <3>1
  <2>8. Accounted'
    <3>1. load'.flying \subseteq (w + 1)..(n + 1)
      BY <1>2, <2>1, <2>4, <2>7
    <3>2. \A s \in ss : s.session \in ((w + 1)..(n + 1)) \ (f \cup {n + 1}) /\ s.cost \subseteq Nat
      BY <1>1, <1>2, <2>3 DEF Accounted
    <3>3. IsFiniteSet(ss) /\ Cardinality(ss) = service.served
      BY <1>1, <2>3 DEF Accounted
    <3>4. service.served \in Nat /\ service.served + Cardinality(f \cup {n + 1}) = (n + 1) - w
      BY <1>1, <1>2, <2>3, <2>5 DEF Accounted, NextIndex, ServiceTypeOK
    <3>5. c.requests # {} => (n + 1) - w <= The(c.requests)
      BY <1>1, <1>2, <2>1, <2>3, <2>7, LoadNumbers DEF MoreToDo, NextIndex
    <3>6. /\ (\A s \in ss : s.success) => service.answered = service.served
          /\ (\A s \in ss : s.cost # {}) => /\ service.billed = CostOf(ss)
                                            /\ service.currencies = {s.currency : s \in ss}
      BY <1>1, <2>3 DEF Accounted
    <3>7. /\ load'.config = c /\ load'.issued = n + 1 /\ load'.warm = w /\ load'.samples = ss
          /\ load'.flying = f \cup {n + 1}
      BY <2>1
    <3>8. QED
      BY <1>2, <3>1, <3>2, <3>3, <3>4, <3>5, <3>6, <3>7 DEF Accounted, NextIndex
  <2>9. Cardinality(load'.flying) <= Workers'
    BY <2>1, <2>5, <2>6
  <2>10. QED
    BY <1>1, <1>2, <1>3, <1>5, <2>1, <2>2, <2>3, <2>8, <2>9 DEF LoadInv, Runs
<1>6. QED
  BY <1>4, <1>5 DEF IssueRequest

LEMMA WarmedUpKeeps ==
  ASSUME LoadInv, WarmedUp
  PROVE  LoadInv' /\ load'.config = load.config /\ load'.stage # "idle"
<1>1. PICK c, st, n, w, f, o, ss :
        load = [config |-> c, stage |-> st, issued |-> n, warm |-> w, flying |-> f, over |-> o,
                samples |-> ss]
  BY DEF LoadInv, LoadShaped
<1>2. /\ n \in Nat /\ w \in Nat /\ service' = service /\ ServiceTypeOK /\ f = {} /\ st = "warmup"
      /\ load' = [config |-> c, stage |-> "measure", issued |-> n, warm |-> w, flying |-> f,
                  over |-> o, samples |-> ss]
  BY <1>1 DEF LoadInv, WarmedUp
<1>3. ServiceTypeOK'
  BY <1>2 DEF ServiceTypeOK
<1>4. LoadShaped'
  BY <1>2 DEF LoadShaped
<1>5. /\ n = w /\ ss = {} /\ ValidLoad(c) /\ service.served = 0 /\ service.answered = 0
      /\ service.billed = 0 /\ service.currencies = {}
  BY <1>1, <1>2 DEF LoadInv, WarmingUp
<1>6. load'.config = c /\ load'.issued = n /\ load'.warm = n /\ load'.samples = {}
      /\ load'.flying = {} /\ load'.stage = "measure"
  BY <1>2, <1>5
<1>7. Workers' \in Nat
  <2>1. Workers' = Workers
    BY <1>1, <1>6 DEF Workers
  <2> QED
    BY <1>1, <1>5, <2>1, WorkersNumber
<1>8. Accounted'
  BY <1>2, <1>5, <1>6, CostNone, FS_EmptySet, LoadNumbers DEF Accounted, NextIndex
<1>9. QED
  BY <1>1, <1>2, <1>3, <1>4, <1>5, <1>6, <1>7, <1>8, FS_EmptySet DEF LoadInv, Runs

LEMMA DeadlineKeeps ==
  ASSUME LoadInv, DeadlinePasses
  PROVE  LoadInv' /\ load'.config = load.config /\ load'.stage # "idle"
<1>1. PICK c, st, n, w, f, o, ss :
        load = [config |-> c, stage |-> st, issued |-> n, warm |-> w, flying |-> f, over |-> o,
                samples |-> ss]
  BY DEF LoadInv, LoadShaped
<1>2. /\ service' = service /\ ServiceTypeOK /\ st = "measure"
      /\ load' = [config |-> c, stage |-> st, issued |-> n, warm |-> w, flying |-> f,
                  over |-> TRUE, samples |-> ss]
  BY <1>1 DEF LoadInv, DeadlinePasses
<1>3. ServiceTypeOK'
  BY <1>2 DEF ServiceTypeOK
<1>4. LoadShaped'
  BY <1>2 DEF LoadShaped
<1>5. /\ load'.config = load.config /\ load'.issued = load.issued /\ load'.warm = load.warm
      /\ load'.samples = load.samples /\ load'.flying = load.flying /\ load'.stage = "measure"
      /\ load.stage = "measure"
  BY <1>1, <1>2
<1>6. Accounted /\ Cardinality(load.flying) <= Workers
  BY <1>5 DEF LoadInv
<1>7. Accounted'
  BY <1>2, <1>5, <1>6 DEF Accounted, NextIndex
<1>8. Workers' = Workers
  BY <1>5 DEF Workers
<1>9. QED
  BY <1>3, <1>4, <1>5, <1>6, <1>7, <1>8 DEF LoadInv, Runs

LEMMA ReturnsKeeps ==
  ASSUME LoadInv, LoadReturns
  PROVE  LoadInv' /\ load'.config = load.config /\ load'.stage # "idle"
<1>1. PICK c, st, n, w, f, o, ss :
        load = [config |-> c, stage |-> st, issued |-> n, warm |-> w, flying |-> f, over |-> o,
                samples |-> ss]
  BY DEF LoadInv, LoadShaped
<1>2. /\ n \in Nat /\ w \in Nat /\ service' = service /\ ServiceTypeOK /\ st = "measure"
      /\ f = {} /\ ~MoreToDo
      /\ load' = [config |-> c, stage |-> "returned", issued |-> n, warm |-> w, flying |-> f,
                  over |-> o, samples |-> ss]
  BY <1>1 DEF LoadInv, LoadReturns, Drained
<1>3. ServiceTypeOK'
  BY <1>2 DEF ServiceTypeOK
<1>4. LoadShaped'
  BY <1>2 DEF LoadShaped
<1>5. /\ load'.config = load.config /\ load'.issued = load.issued /\ load'.warm = load.warm
      /\ load'.samples = load.samples /\ load'.flying = load.flying /\ load'.stage = "returned"
      /\ load.flying = {} /\ load.stage = "measure"
  BY <1>1, <1>2
<1>6. Accounted /\ ValidLoad(load.config)
  BY <1>5 DEF LoadInv
<1>7. Accounted'
  BY <1>2, <1>5, <1>6 DEF Accounted, NextIndex
<1>8. ASSUME load.config.requests # {}
      PROVE  service.served = The(load.config.requests)
  <2>1. NextIndex \in Int /\ ~(NextIndex < The(load.config.requests))
    BY <1>1, <1>2, <1>8 DEF MoreToDo, NextIndex
  <2>2. NextIndex <= The(load.config.requests) /\ The(load.config.requests) \in Nat
    BY <1>6, <1>8, LoadNumbers DEF Accounted
  <2>3. service.served \in Nat /\ service.served = NextIndex
    BY <1>2, <1>5, <1>6, FS_EmptySet DEF Accounted, ServiceTypeOK
  <2>4. QED
    BY <2>1, <2>2, <2>3
<1>9. QED
  BY <1>2, <1>3, <1>4, <1>5, <1>6, <1>7, <1>8 DEF LoadInv, Runs

\* One more request has ended.
LEMMA CountedOnce ==
  ASSUME NEW f, NEW x \in f, IsFiniteSet(f)
  PROVE  /\ IsFiniteSet(f \ {x}) /\ Cardinality(f \ {x}) \in Nat
         /\ Cardinality(f) \in Nat /\ Cardinality(f \ {x}) = Cardinality(f) - 1
<1>1. IsFiniteSet(f \ {x}) /\ Cardinality(f \ {x}) = Cardinality(f) - 1
  BY FS_RemoveElement
<1>2. QED
  BY <1>1, FS_CardinalityType

\* The sum and the currencies of samples of which all have a price.
LEMMA PriceMore ==
  ASSUME NEW ss, IsFiniteSet(ss), \A s \in ss : s.cost \subseteq Nat /\ s.cost # {},
         NEW x, x \notin ss, x.cost \subseteq Nat, x.cost # {}
  PROVE  CostOf(ss \cup {x}) = CostOf(ss) + The(x.cost)
<1>1. \A s \in ss : The(s.cost) \in Nat
  BY DEF The
<1>2. The(x.cost) \in Nat
  BY DEF The
<1>3. QED
  BY <1>1, <1>2, CostAdds DEF Priced

LEMMA EndKeepsLoad ==
  ASSUME LoadInv, NEW session \in load.flying, NEW reply \in LoadReplies, NEW persists \in BOOLEAN,
         RequestEnds(session, reply, persists)
  PROVE  LoadInv' /\ load'.config = load.config /\ load'.stage # "idle"
<1>1. PICK c, st, n, w, f, o, ss :
        load = [config |-> c, stage |-> st, issued |-> n, warm |-> w, flying |-> f, over |-> o,
                samples |-> ss]
  BY DEF LoadInv, LoadShaped
<1>2. /\ n \in Nat /\ w \in Nat /\ ServiceTypeOK /\ st \in {"warmup", "measure"}
      /\ ValidLoad(c) /\ session \in f
  BY <1>1 DEF LoadInv, RequestEnds, Runs
<1>3. f \subseteq Nat /\ IsFiniteSet(f)
  <2>1. CASE st = "warmup"
    <3>1. f \subseteq {n}
      BY <1>1, <2>1 DEF LoadInv, WarmingUp
    <3>2. IsFiniteSet(f)
      BY <3>1, FS_Singleton, FS_Subset
    <3>3. QED
      BY <1>2, <3>1, <3>2
  <2>2. CASE st = "measure"
    <3>1. f \subseteq (w + 1)..n
      BY <1>1, <2>2 DEF LoadInv, Accounted
    <3>2. IsFiniteSet((w + 1)..n)
      <4>1. w + 1 \in Int /\ n \in Int
        BY <1>2
      <4>2. QED
        BY <4>1, FS_Interval, Zenon
    <3>3. IsFiniteSet(f)
      BY <3>1, <3>2, FS_Subset
    <3>4. QED
      BY <1>2, <3>1, <3>3
  <2>3. QED
    BY <1>2, <2>1, <2>2
<1>4. PICK persisted \in SUBSET Nat, served \in Nat, answered \in Nat, billed \in Nat,
           currencies \in SUBSET STRING :
        /\ service = [persisted |-> persisted, served |-> served, answered |-> answered,
                      billed |-> billed, currencies |-> currencies]
        /\ IsFiniteSet(persisted)
  <2>1. /\ service.persisted \in SUBSET Nat /\ service.served \in Nat /\ service.answered \in Nat
        /\ service.billed \in Nat /\ service.currencies \in SUBSET STRING
        /\ IsFiniteSet(service.persisted)
        /\ service = [persisted |-> service.persisted, served |-> service.served,
                      answered |-> service.answered, billed |-> service.billed,
                      currencies |-> service.currencies]
    BY <1>2 DEF ServiceTypeOK
  <2>2. QED
    BY <2>1
<1> DEFINE measured == IF st = "warmup" THEN 0 ELSE 1
           price == IF reply.cost = {} THEN 0 ELSE The(reply.cost)
<1>5. measured \in {0, 1} /\ reply.cost \subseteq Nat /\ reply.currency \in STRING /\ price \in Nat
  BY GateConstants DEF Reply, The
<1>6. /\ service'.persisted = IF persists THEN persisted \cup {session} ELSE persisted
      /\ service'.served = served + measured
      /\ service'.answered = answered + (IF Complete(reply) THEN measured ELSE 0)
      /\ service'.billed = billed + measured * price
      /\ service'.currencies = IF measured = 0 \/ reply.cost = {} THEN currencies
                               ELSE currencies \cup {reply.currency}
      /\ service' = [persisted |-> service'.persisted, served |-> service'.served,
                     answered |-> service'.answered, billed |-> service'.billed,
                     currencies |-> service'.currencies]
  BY <1>1, <1>2, <1>4, <1>5 DEF RequestEnds
<1>7. ServiceTypeOK'
  <2>1. service'.persisted \in SUBSET Nat /\ IsFiniteSet(service'.persisted)
    <3>1. session \in Nat /\ IsFiniteSet(persisted \cup {session})
      BY <1>2, <1>3, <1>4, FS_AddElement
    <3>2. service'.persisted \in {persisted, persisted \cup {session}}
      BY <1>6
    <3>3. QED
      BY <1>4, <3>1, <3>2
  <2>2. service'.served \in Nat /\ service'.answered \in Nat
    BY <1>4, <1>5, <1>6
  <2>3. service'.billed \in Nat
    BY <1>4, <1>5, <1>6
  <2>4. service'.currencies \in SUBSET STRING
    BY <1>4, <1>5, <1>6
  <2> HIDE DEF measured, price
  <2>5. QED
    BY <1>6, <2>1, <2>2, <2>3, <2>4 DEF ServiceTypeOK
<1>8. CASE EscapesSample(c, reply)
  <2>1. load' = [config |-> c, stage |-> "raised", issued |-> n, warm |-> w, flying |-> {},
                 over |-> o, samples |-> ss]
    BY <1>1, <1>8 DEF RequestEnds
  <2>2. LoadShaped'
    BY <2>1 DEF LoadShaped
  <2>3. /\ load'.config = c /\ load'.stage = "raised" /\ load'.issued = n /\ load'.warm = w
        /\ load'.flying = {}
    BY <2>1
  <2>4. QED
    BY <1>1, <1>2, <1>7, <2>2, <2>3 DEF LoadInv, Runs
<1>9. CASE ~EscapesSample(c, reply) /\ st = "warmup"
  <2>1. load' = [config |-> c, stage |-> st, issued |-> n, warm |-> w, flying |-> f \ {session},
                 over |-> o, samples |-> ss]
    BY <1>1, <1>9 DEF RequestEnds
  <2>2. LoadShaped'
    BY <2>1 DEF LoadShaped
  <2>3. /\ load'.config = c /\ load'.stage = "warmup" /\ load'.issued = n /\ load'.warm = w
        /\ load'.flying = f \ {session} /\ load'.samples = ss
    BY <1>9, <2>1
  <2>4. /\ n = w /\ f \subseteq {n} /\ ss = {} /\ served = 0 /\ answered = 0 /\ billed = 0
        /\ currencies = {}
    BY <1>1, <1>4, <1>9 DEF LoadInv, WarmingUp
  <2>5. measured = 0
    BY <1>9
  <2>6. /\ service'.served = 0 /\ service'.answered = 0 /\ service'.billed = 0
        /\ service'.currencies = {}
    BY <1>5, <1>6, <2>4, <2>5
  <2>7. WarmingUp'
    BY <2>3, <2>4, <2>6 DEF WarmingUp
  <2> HIDE DEF measured, price
  <2>8. QED
    BY <1>1, <1>2, <1>7, <2>2, <2>3, <2>7 DEF LoadInv, Runs
<1>10. CASE ~EscapesSample(c, reply) /\ st = "measure"
  <2> DEFINE x == Sample(c, session, reply)
  <2>1. load' = [config |-> c, stage |-> st, issued |-> n, warm |-> w, flying |-> f \ {session},
                 over |-> o, samples |-> ss \cup {x}]
    BY <1>1, <1>10 DEF RequestEnds
  <2>2. /\ x.session = session /\ x.cost \subseteq Nat
        /\ x.success => Complete(reply)
        /\ x.cost # {} => x.cost = reply.cost /\ x.currency = reply.currency
    BY <1>2, <1>10, SampleFaithful
  <2> HIDE DEF x
  <2>3. LoadShaped'
    BY <2>1 DEF LoadShaped
  <2>4. /\ load'.config = c /\ load'.stage = "measure" /\ load'.issued = n /\ load'.warm = w
        /\ load'.flying = f \ {session} /\ load'.samples = ss \cup {x}
    BY <1>10, <2>1
  <2>5. /\ f \subseteq (w + 1)..n /\ IsFiniteSet(ss)
        /\ \A s \in ss : s.session \in ((w + 1)..n) \ f /\ s.cost \subseteq Nat
        /\ Cardinality(ss) = served /\ served + Cardinality(f) = n - w
        /\ c.requests # {} => n - w <= The(c.requests)
        /\ (\A s \in ss : s.success) => answered = served
        /\ (\A s \in ss : s.cost # {}) => billed = CostOf(ss)
        /\ (\A s \in ss : s.cost # {}) => currencies = {s.currency : s \in ss}
        /\ Cardinality(f) <= Workers
    BY <1>1, <1>4, <1>10 DEF LoadInv, Accounted, NextIndex
  <2>6. /\ service'.served = served + 1
        /\ service'.answered = answered + (IF Complete(reply) THEN 1 ELSE 0)
        /\ service'.billed = billed + price
        /\ service'.currencies = IF reply.cost = {} THEN currencies
                                 ELSE currencies \cup {reply.currency}
    BY <1>5, <1>6, <1>10
  <2>7. x \notin ss
    BY <1>2, <2>2, <2>5
  <2>8. /\ Cardinality(f \ {session}) \in Nat /\ Cardinality(f) \in Nat
        /\ Cardinality(f \ {session}) = Cardinality(f) - 1
    BY <1>2, <1>3, CountedOnce
  <2>9. Accounted'
    <3>1. f \ {session} \subseteq (w + 1)..n
      BY <2>5
    <3>2. IsFiniteSet(ss \cup {x}) /\ Cardinality(ss \cup {x}) = served + 1
      BY <2>5, <2>7, FS_AddElement
    <3>3. \A s \in ss \cup {x} : /\ s.session \in ((w + 1)..n) \ (f \ {session})
                                 /\ s.cost \subseteq Nat
      BY <1>2, <2>2, <2>5
    <3>4. service'.served + Cardinality(f \ {session}) = n - w
      BY <1>2, <1>4, <2>5, <2>6, <2>8
    <3>5. (\A s \in ss \cup {x} : s.success) => service'.answered = service'.served
      BY <1>4, <2>2, <2>5, <2>6
    <3>6. ASSUME \A s \in ss \cup {x} : s.cost # {}
          PROVE  /\ service'.billed = CostOf(ss \cup {x})
                 /\ service'.currencies = {s.currency : s \in ss \cup {x}}
      <4>1. x.cost = reply.cost /\ x.currency = reply.currency /\ x.cost # {}
        BY <2>2, <3>6
      <4>2. CostOf(ss \cup {x}) = CostOf(ss) + The(x.cost)
        BY <2>2, <2>5, <2>7, <3>6, PriceMore
      <4>3. billed = CostOf(ss) /\ currencies = {s.currency : s \in ss}
        BY <2>5, <3>6
      <4>4. QED
        BY <2>6, <4>1, <4>2, <4>3
    <3>7. QED
      BY <2>4, <2>5, <2>6, <3>1, <3>2, <3>3, <3>4, <3>5, <3>6 DEF Accounted, NextIndex
  <2>10. Workers' = Workers /\ Workers \in Nat
    BY <1>1, <1>2, <2>4, WorkersNumber DEF Workers
  <2>11. Cardinality(load'.flying) <= Workers'
    BY <2>4, <2>5, <2>8, <2>10
  <2> HIDE DEF measured, price
  <2>12. QED
    BY <1>1, <1>2, <1>7, <2>3, <2>4, <2>9, <2>11 DEF LoadInv, Runs
<1>11. QED
  BY <1>2, <1>8, <1>9, <1>10

LEMMA LoadStepKeeps ==
  ASSUME LoadInv, Runs, NEW replies \in SUBSET LoadReplies, NEW persistence \in SUBSET BOOLEAN,
         LoadStep(replies, persistence)
  PROVE  LoadInv' /\ load'.config = load.config /\ load'.stage # "idle"
<1>1. CASE IssueRequest
  BY <1>1, IssueKeeps DEF Runs
<1>2. CASE WarmedUp \/ DeadlinePasses \/ LoadReturns
  BY <1>2, WarmedUpKeeps, DeadlineKeeps, ReturnsKeeps
<1>3. CASE \E session \in load.flying, reply \in replies, persists \in persistence :
              RequestEnds(session, reply, persists)
  <2>1. PICK session \in load.flying, reply \in replies, persists \in persistence :
               RequestEnds(session, reply, persists)
    BY <1>3
  <2>2. reply \in LoadReplies /\ persists \in BOOLEAN
    OBVIOUS
  <2>3. QED
    BY <2>1, <2>2, EndKeepsLoad
<1>4. QED
  BY <1>1, <1>2, <1>3 DEF LoadStep

------------------------------------------------------------------------------
(* What the checks of a recovery establish.                                   *)

\* A fault that is resolved is the one that was configured.
LEMMA FaultArrives ==
  ASSUME NEW token,
         NEW f \in [type : STRING, target : STRING, status_code : SUBSET Nat, delay_seconds : Nat],
         ValidFault(f)
  PROVE  Resolve(token, FaultHeader(WithStatus(f))) \subseteq {WithStatus(f)}
<1> DEFINE g == WithStatus(f)  h == FaultHeader(g)
<1>1. /\ g = [type |-> g.type, target |-> g.target, status_code |-> g.status_code,
              delay_seconds |-> g.delay_seconds]
      /\ g.type = f.type /\ g.target = f.target /\ g.delay_seconds = f.delay_seconds
      /\ g.status_code = IF f.type = "downstream_5xx" /\ f.status_code = {} THEN {503}
                         ELSE f.status_code
  BY DEF WithStatus
<1> HIDE DEF g
<1>2. /\ h.type = f.type /\ h.target = IF f.target = "" THEN {} ELSE {f.target}
      /\ h.status_code = g.status_code
      /\ h.delay_seconds = IF f.delay_seconds = 0 THEN {} ELSE {f.delay_seconds}
  BY <1>1 DEF FaultHeader
<1> HIDE DEF h
<1>0. /\ f.type \in SimpleFaults => f.target = ""
      /\ f.type \notin SimpleFaults => f.target \in ToolTargets
      /\ f.type # "downstream_5xx" => f.status_code = {}
      /\ f.type = "tool_slow_response" => f.delay_seconds \in 1..50
      /\ f.type # "tool_slow_response" => f.delay_seconds = 0
  BY DEF ValidFault
<1>3. CASE f.type \in SimpleFaults
  <2>1. /\ f.target = "" /\ f.status_code = {} /\ f.delay_seconds = 0 /\ f.type # "downstream_5xx"
    BY <1>0, <1>3 DEF SimpleFaults
  <2>2. g = Fault(f.type, "", {}, 0)
    BY <1>1, <2>1 DEF Fault
  <2>3. FromJson(h) \subseteq {Fault(f.type, "", {}, 0)}
    BY <1>2, <1>3 DEF FromJson
  <2>4. QED
    BY <2>2, <2>3 DEF Resolve, g, h
<1>4. CASE f.type = "downstream_5xx"
  <2>1. /\ f.target # "" /\ f.delay_seconds = 0 /\ g.status_code # {}
    <3>1. f.type \notin SimpleFaults
      BY <1>4 DEF SimpleFaults
    <3>2. f.target # ""
      BY <1>0, <3>1 DEF ToolTargets
    <3>3. f.delay_seconds = 0
      BY <1>0, <1>4
    <3>4. g.status_code # {}
      BY <1>1, <1>4
    <3>5. QED
      BY <3>2, <3>3, <3>4
  <2>2. g = Fault(f.type, f.target, g.status_code, 0)
    BY <1>1, <2>1 DEF Fault
  <2>3. The(h.target) = f.target
    BY <1>2, <2>1 DEF The
  <2>4. FromJson(h) \subseteq {Fault(f.type, f.target, g.status_code, 0)}
    <3>1. h.type \notin SimpleFaults /\ h.type = "downstream_5xx" /\ h.status_code # {}
      BY <1>2, <1>4, <2>1 DEF SimpleFaults
    <3>2. FromJson(h) \subseteq {Fault(h.type, The(h.target), h.status_code, 0)}
      BY <3>1 DEF FromJson
    <3>3. QED
      BY <1>2, <2>3, <3>2
  <2>5. QED
    BY <2>2, <2>4 DEF Resolve, g, h
<1>5. CASE f.type = "tool_slow_response"
  <2>1. /\ f.target # "" /\ f.status_code = {} /\ f.delay_seconds # 0
    <3>1. f.type \notin SimpleFaults
      BY <1>5 DEF SimpleFaults
    <3>2. f.target # ""
      BY <1>0, <3>1 DEF ToolTargets
    <3>3. f.delay_seconds \in 1..50 => f.delay_seconds # 0
      OBVIOUS
    <3>4. f.type # "downstream_5xx"
      BY <1>5
    <3>5. QED
      BY <1>0, <1>5, <3>2, <3>3, <3>4, Zenon
  <2>2. g = Fault(f.type, f.target, {}, f.delay_seconds)
    BY <1>1, <1>5, <2>1 DEF Fault
  <2>3. The(h.target) = f.target /\ The(h.delay_seconds) = f.delay_seconds
    BY <1>2, <2>1 DEF The
  <2>4. FromJson(h) \subseteq {Fault(f.type, f.target, {}, f.delay_seconds)}
    BY <1>2, <1>5, <2>3 DEF FromJson, SimpleFaults
  <2>5. QED
    BY <2>2, <2>4 DEF Resolve, g, h
<1>6. QED
  BY <1>3, <1>4, <1>5 DEF ValidFault

AllPassed(checks) == \A c \in checks : c.passed

LEMMA ExpectationMet ==
  ASSUME NEW samples, NEW expectation, NEW stage, AllPassed(EvaluateSamples(samples, expectation, stage)),
         NEW name \in DOMAIN expectation
  PROVE  samples # {} /\ \A s \in samples : SampleMeets(s, name, expectation[name])
<1> DEFINE met == samples # {} /\ \A s \in samples : SampleMeets(s, name, expectation[name])
<1>1. Check(stage, name, met) \in EvaluateSamples(samples, expectation, stage)
  BY DEF EvaluateSamples
<1>2. Check(stage, name, met).passed
  BY <1>1 DEF AllPassed
<1>3. Check(stage, name, met).passed = met
  BY DEF Check
<1>4. QED
  BY <1>2, <1>3

LEMMA ThresholdMet ==
  ASSUME NEW summary, NEW thresholds, NEW stage,
         AllPassed(EvaluateThresholds(summary, thresholds, stage)), NEW name \in DOMAIN thresholds
  PROVE  /\ Covered(summary, name)
         /\ \E m \in Metric(summary, name) : Meets(name, m, thresholds[name])
<1> DEFINE met == /\ Covered(summary, name)
                  /\ \E m \in Metric(summary, name) : Meets(name, m, thresholds[name])
<1>1. Check(stage, name, met) \in EvaluateThresholds(summary, thresholds, stage)
  BY DEF EvaluateThresholds
<1>2. Check(stage, name, met).passed
  BY <1>1 DEF AllPassed
<1>3. Check(stage, name, met).passed = met
  BY DEF Check
<1>4. QED
  BY <1>2, <1>3

LEMMA CostWithin ==
  ASSUME NEW samples, NEW wall, NEW limit \in Nat,
         Covered(Summary(samples, wall), "max_cost_total"),
         \E m \in Metric(Summary(samples, wall), "max_cost_total") :
            Meets("max_cost_total", m, limit)
  PROVE  /\ \A s \in samples : s.cost # {}
         /\ CostOf(samples) <= limit
         /\ Cardinality({s.currency : s \in samples}) <= 1
<1> DEFINE priced == {s \in samples : s.cost # {}}
           summary == Summary(samples, wall)
<1>1. /\ summary.cost_complete = (samples # {} /\ priced = samples)
      /\ summary.cost_total = IF priced # {} /\ Cardinality({s.currency : s \in priced}) <= 1
                              THEN {CostOf(priced)} ELSE {}
  BY DEF Summary, CostOf
<1> HIDE DEF summary
<1>2. summary.cost_complete
  BY DEF Covered, CostNames, summary
<1>3. priced = samples
  BY <1>1, <1>2
<1>4. Metric(summary, "max_cost_total") = {<<c, 1>> : c \in summary.cost_total}
  BY DEF Metric
<1>5. PICK c \in summary.cost_total : Meets("max_cost_total", <<c, 1>>, limit)
  BY <1>4 DEF summary
<1>6. c <= limit
  <2>1. c <= limit * 1
    BY <1>5 DEF Meets, FloorNames
  <2>2. QED
    BY <2>1
<1>7. c = CostOf(samples) /\ Cardinality({s.currency : s \in samples}) <= 1
  BY <1>1, <1>3, <1>5
<1>8. QED
  BY <1>3, <1>6, <1>7

Verified(samples, checks) ==
  \E found \in SUBSET service.persisted : DatabaseCheck(samples, found) \in checks

\* What passes the checks of a recovery has recovered.
LEMMA RecoveryJudged ==
  ASSUME LoadInv, load.stage = "returned", NEW s, load.config = LoadOf(s),
         NEW wall, NEW checks, AllPassed(checks),
         EvaluateSamples(load.samples, s.recovery_expect, "recovery") \subseteq checks,
         EvaluateThresholds(Summary(load.samples, wall), Thresholds(s), "recovery") \subseteq checks,
         s.fault.type = "database_error" => Verified(load.samples, checks),
         \A name \in DOMAIN Thresholds(s) : Thresholds(s)[name] \in Nat
  PROVE  Recovered(s, [service EXCEPT !.persisted = Cardinality(@)])
<1> DEFINE tgt == [service EXCEPT !.persisted = Cardinality(@)]
<1>1. /\ Accounted /\ ServiceTypeOK /\ ValidLoad(load.config) /\ load.flying = {}
      /\ load.config.requests # {} => service.served = The(load.config.requests)
  BY DEF LoadInv, Runs
<1>2. /\ tgt.persisted = Cardinality(service.persisted) /\ tgt.served = service.served
      /\ tgt.answered = service.answered /\ tgt.billed = service.billed
      /\ tgt.currencies = service.currencies
  BY <1>1 DEF ServiceTypeOK
<1> HIDE DEF tgt
<1>3. AllPassed(EvaluateSamples(load.samples, s.recovery_expect, "recovery"))
  BY DEF AllPassed
<1>4. AllPassed(EvaluateThresholds(Summary(load.samples, wall), Thresholds(s), "recovery"))
  BY DEF AllPassed
<1>5. /\ IsFiniteSet(load.samples) /\ Cardinality(load.samples) = service.served
      /\ service.served \in Nat
      /\ (\A x \in load.samples : x.success) => service.answered = service.served
      /\ (\A x \in load.samples : x.cost # {}) =>
            service.billed = CostOf(load.samples) /\ service.currencies = {x.currency : x \in load.samples}
      /\ \A x \in load.samples : x.cost \subseteq Nat
  BY <1>1 DEF Accounted, ServiceTypeOK
<1>6. ASSUME "duration" \notin DOMAIN s \cup DOMAIN suite.defaults
      PROVE  tgt.served = The(LoadOf(s).requests)
  <2>1. LoadOf(s).requests # {}
    BY <1>6 DEF LoadOf
  <2>2. QED
    BY <1>1, <1>2, <2>1
<1>7. ASSUME "success" \in DOMAIN s.recovery_expect, s.recovery_expect.success
      PROVE  tgt.served > 0 /\ tgt.answered = tgt.served
  <2>1. load.samples # {} /\ \A x \in load.samples : SampleMeets(x, "success", s.recovery_expect["success"])
    BY <1>3, <1>7, ExpectationMet
  <2>2. \A x \in load.samples : x.success = s.recovery_expect.success
    BY <2>1 DEF SampleMeets, DirectNames
  <2>3. \A x \in load.samples : x.success
    BY <1>7, <2>2
  <2>4. service.served # 0
    BY <1>5, <2>1, FS_EmptySet
  <2>5. QED
    BY <1>2, <1>5, <2>3, <2>4
<1>8. ASSUME s.fault.type = "database_error"
      PROVE  tgt.persisted >= tgt.served
  <2>1. PICK found \in SUBSET service.persisted : DatabaseCheck(load.samples, found) \in checks
    BY <1>8 DEF Verified
  <2> DEFINE named == UNION {x.conversation : x \in load.samples}
  <2>2. Cardinality(found \cap named) = Cardinality(load.samples)
    BY <2>1 DEF AllPassed, DatabaseCheck, Check
  <2>3. found \cap named \in SUBSET service.persisted /\ IsFiniteSet(service.persisted)
    BY <1>1 DEF ServiceTypeOK
  <2> HIDE DEF named
  <2>4. Cardinality(found \cap named) <= Cardinality(service.persisted)
    BY <2>3, FS_Subset
  <2>5. Cardinality(service.persisted) \in Nat
    BY <2>3, FS_CardinalityType
  <2>6. QED
    BY <1>2, <1>5, <2>2, <2>4, <2>5
<1>9. ASSUME "max_cost_total" \in DOMAIN Thresholds(s)
      PROVE  /\ tgt.billed <= Thresholds(s)["max_cost_total"]
             /\ Cardinality(tgt.currencies) <= 1
  <2> DEFINE summary == Summary(load.samples, wall)  limit == Thresholds(s)["max_cost_total"]
  <2>1. /\ Covered(summary, "max_cost_total")
        /\ \E m \in Metric(summary, "max_cost_total") : Meets("max_cost_total", m, limit)
    BY <1>4, <1>9, ThresholdMet
  <2>2. limit \in Nat
    BY <1>9
  <2> HIDE DEF limit
  <2>3. /\ \A x \in load.samples : x.cost # {}
        /\ CostOf(load.samples) <= limit
        /\ Cardinality({x.currency : x \in load.samples}) <= 1
    BY <2>1, <2>2, CostWithin
  <2>4. QED
    BY <1>2, <1>5, <2>3 DEF limit
<1>10. QED
  BY <1>6, <1>7, <1>8, <1>9 DEF Recovered, tgt

------------------------------------------------------------------------------
(* The suite.                                                                 *)

GateShaped ==
    gate = [at |-> gate.at, index |-> gate.index, fault |-> gate.fault, checks |-> gate.checks,
            errors |-> gate.errors, results |-> gate.results, exit |-> gate.exit]

\* A result tells of its scenario: its fault is that of the scenario, it has a
\* target where a recovery was asked for, and a pass means that this recovered.
ResultSound(s, r) ==
    /\ r.fault \subseteq {WithStatus(s.fault)}
    /\ r.gate_passed => \A tgt \in r.target : Recovered(s, tgt)
    /\ s.recovery => r.target # {}

ResultsSound ==
    /\ \E results : gate.results \in Seq(results)
    /\ Len(gate.results) <= Len(suite.scenarios)
    /\ \A i \in DOMAIN gate.results : ResultSound(suite.scenarios[i], gate.results[i])

AtScenario ==
    gate.at \in {"scenario", "fault", "recovery"} =>
        /\ ValidSuite
        /\ gate.index \in 1..Len(suite.scenarios)
        /\ Len(gate.results) = gate.index - 1

InPhase ==
    gate.at \in {"fault", "recovery"} =>
        /\ load.stage # "idle"
        /\ load.config = LoadOf(Scenario)
        /\ gate.fault \subseteq {WithStatus(Scenario.fault)}

Concluding ==
    /\ gate.at = "start" => gate.results = <<>>
    /\ gate.at = "report" => Len(gate.results) = Len(suite.scenarios)
    /\ gate.at # "done" => gate.exit = "running"
    /\ gate.exit = "passed" => /\ Len(gate.results) = Len(suite.scenarios)
                               /\ \A i \in DOMAIN gate.results : gate.results[i].gate_passed

GateInv ==
    /\ GateShaped
    /\ suite \in Suites
    /\ gate.at \in {"start", "scenario", "fault", "recovery", "report", "done"}
    /\ gate.exit \in Exits
    /\ LoadInv
    /\ gate.at \notin {"fault", "recovery"} => load.stage = "idle"
    /\ AtScenario /\ InPhase /\ Concluding /\ ResultsSound

LEMMA ScenariosList ==
  ASSUME suite \in Suites
  PROVE  /\ suite.scenarios \in Seq({suite.scenarios[i] : i \in DOMAIN suite.scenarios})
         /\ Len(suite.scenarios) \in Nat /\ DOMAIN suite.scenarios = 1..Len(suite.scenarios)
<1>1. suite.scenarios \in Seq({suite.scenarios[i] : i \in DOMAIN suite.scenarios})
  BY GateConstants
<1>2. QED
  BY <1>1, LenProperties

\* What is said of the configuration stays true.
LEMMA SuiteStands ==
  ASSUME suite' = suite
  PROVE  ValidSuite' = ValidSuite
BY DEF ValidSuite, LoadOf

LEMMA ResultStands ==
  ASSUME suite' = suite, NEW s, NEW r, ResultSound(s, r)
  PROVE  ResultSound(s, r)'
<1>1. /\ LoadOf(s)' = LoadOf(s) /\ Thresholds(s)' = Thresholds(s)
  BY DEF LoadOf, Thresholds
<1>2. QED
  BY <1>1 DEF ResultSound, Recovered

LEMMA GateInitInv == GateInit => GateInv
<1> SUFFICES ASSUME GateInit PROVE GateInv
  OBVIOUS
<1>1. load = [config |-> <<>>, stage |-> "idle", issued |-> 0, warm |-> 0, flying |-> {},
              over |-> FALSE, samples |-> {}]
      /\ service = [persisted |-> {}, served |-> 0, answered |-> 0, billed |-> 0, currencies |-> {}]
  BY DEF GateInit, Idle, Untouched
<1>2. LoadInv
  <2>1. LoadShaped
    BY <1>1 DEF LoadShaped
  <2>2. ServiceTypeOK
    BY <1>1, FS_EmptySet DEF ServiceTypeOK
  <2>3. QED
    BY <1>1, <2>1, <2>2 DEF LoadInv
<1>3. gate = [at |-> "start", index |-> 0, fault |-> {}, checks |-> {}, errors |-> {},
               results |-> <<>>, exit |-> "running"]
      /\ suite \in Suites
  BY DEF GateInit
<1>4. GateShaped
  BY <1>3 DEF GateShaped
<1>5. ResultsSound
  <2>1. gate.results = <<>>
    BY <1>3
  <2>2. <<>> \in Seq({}) /\ Len(<<>>) = 0
    OBVIOUS
  <2>3. QED
    BY <1>3, <2>1, <2>2, ScenariosList DEF ResultsSound
<1>6. QED
  BY <1>1, <1>2, <1>3, <1>4, <1>5 DEF GateInv, Exits, AtScenario, InPhase, Concluding

LEMMA GateStartsKeeps ==
  ASSUME GateInv, GateStarts
  PROVE  GateInv'
<1>1. PICK a, i, fa, ch, er, rs, ex :
        gate = [at |-> a, index |-> i, fault |-> fa, checks |-> ch, errors |-> er, results |-> rs,
                exit |-> ex]
  BY DEF GateInv, GateShaped
<1>2. /\ rs = <<>> /\ ex = "running" /\ suite' = suite /\ load' = load /\ service' = service
      /\ suite \in Suites /\ load.stage = "idle"
  BY <1>1 DEF GateInv, GateStarts, Concluding
<1>3. LoadInv'
  BY <1>2 DEF GateInv, LoadInv, LoadShaped, ServiceTypeOK, Runs
<1>4. PICK k \in {1, i}, place \in {"scenario", "done"}, e \in {"running", "config"} :
        /\ gate' = [at |-> place, index |-> k, fault |-> fa, checks |-> ch, errors |-> er,
                    results |-> rs, exit |-> e]
        /\ place = "scenario" => ValidSuite /\ k = 1 /\ e = "running"
        /\ place = "done" => e = "config"
  <2>1. CASE ValidSuite /\ tokens.runner # ""
    <3>1. gate' = [at |-> "scenario", index |-> 1, fault |-> fa, checks |-> ch, errors |-> er,
                   results |-> rs, exit |-> "running"]
      BY <1>1, <1>2, <2>1 DEF GateStarts
    <3>2. QED
      BY <2>1, <3>1
  <2>2. CASE ~(ValidSuite /\ tokens.runner # "")
    <3>1. gate' = [at |-> "done", index |-> i, fault |-> fa, checks |-> ch, errors |-> er,
                   results |-> rs, exit |-> "config"]
      BY <1>1, <2>2 DEF GateStarts
    <3>2. QED
      BY <3>1
  <2>3. QED
    BY <2>1, <2>2
<1>5. GateShaped'
  BY <1>4 DEF GateShaped
<1>6. ResultsSound'
  <2>1. gate'.results = <<>>
    BY <1>2, <1>4
  <2>2. <<>> \in Seq({}) /\ Len(<<>>) = 0 /\ Len(suite'.scenarios) \in Nat
    BY <1>2, ScenariosList
  <2>3. QED
    BY <2>1, <2>2 DEF ResultsSound
<1>7. AtScenario'
  <2>1. SUFFICES ASSUME place = "scenario"
                 PROVE  AtScenario'
    BY <1>4 DEF AtScenario
  <2>2. suite.scenarios # <<>> /\ ValidSuite
    BY <1>4, <2>1 DEF ValidSuite
  <2>3. Len(suite.scenarios) >= 1
    BY <1>2, <2>2, ScenariosList
  <2>4. QED
    BY <1>2, <1>4, <2>1, <2>2, <2>3, ScenariosList, SuiteStands DEF AtScenario
<1>8. QED
  BY <1>2, <1>3, <1>4, <1>5, <1>6, <1>7 DEF GateInv, Exits, InPhase, Concluding

\* The scenario at work is one of a valid configuration.
LEMMA AtWorkValid ==
  ASSUME GateInv, gate.at \in {"scenario", "fault", "recovery"}
  PROVE  /\ ValidLoad(LoadOf(Scenario)) /\ ValidFault(Scenario.fault)
         /\ Scenario.fault \in [type : STRING, target : STRING, status_code : SUBSET Nat,
                                delay_seconds : Nat]
         /\ \A name \in DOMAIN Thresholds(Scenario) : Thresholds(Scenario)[name] \in Nat
<1>1. gate.index \in DOMAIN suite.scenarios /\ ValidSuite /\ suite \in Suites
  BY ScenariosList DEF GateInv, AtScenario
<1>2. /\ ValidLoad(LoadOf(Scenario)) /\ ValidFault(Scenario.fault)
      /\ ValidThresholds(Scenario.thresholds) /\ ValidThresholds(suite.thresholds)
  BY <1>1 DEF ValidSuite, Scenario
<1>3. Scenario.fault \in [type : STRING, target : STRING, status_code : SUBSET Nat,
                          delay_seconds : Nat]
  BY <1>1, GateConstants DEF Scenario
<1>4. \A name \in DOMAIN Thresholds(Scenario) : Thresholds(Scenario)[name] \in Nat
  BY <1>2 DEF ValidThresholds, Thresholds
<1>5. QED
  BY <1>2, <1>3, <1>4

LEMMA FaultPhaseBeginsKeeps ==
  ASSUME GateInv, FaultPhaseBegins
  PROVE  GateInv'
<1>1. PICK a, i, fa, ch, er, rs, ex :
        gate = [at |-> a, index |-> i, fault |-> fa, checks |-> ch, errors |-> er, results |-> rs,
                exit |-> ex]
  BY DEF GateInv, GateShaped
<1>2. /\ suite' = suite /\ suite \in Suites /\ a = "scenario" /\ ex = "running"
      /\ LoadBegins(LoadOf(Scenario)) /\ ResultsSound /\ AtScenario
  BY <1>1 DEF GateInv, FaultPhaseBegins, Concluding
<1>3. PICK f : f = Resolve(tokens.runner, FaultHeader(WithStatus(Scenario.fault)))
  OBVIOUS
<1>4. gate' = [at |-> "fault", index |-> i, fault |-> f, checks |-> {}, errors |-> {},
               results |-> rs, exit |-> ex]
  BY <1>1, <1>3 DEF FaultPhaseBegins
<1>5. f \subseteq {WithStatus(Scenario.fault)}
  <2>1. PICK fault \in [type : STRING, target : STRING, status_code : SUBSET Nat,
                        delay_seconds : Nat] : fault = Scenario.fault
    <3>1. Scenario.fault \in [type : STRING, target : STRING, status_code : SUBSET Nat,
                              delay_seconds : Nat]
      BY <1>1, <1>2, AtWorkValid
    <3>2. QED
      BY <3>1
  <2>2. ValidFault(fault)
    BY <1>1, <1>2, <2>1, AtWorkValid
  <2>3. PICK token : token = tokens.runner
    OBVIOUS
  <2>4. Resolve(token, FaultHeader(WithStatus(fault))) \subseteq {WithStatus(fault)}
    BY <2>2, FaultArrives
  <2>5. QED
    BY <1>3, <2>1, <2>3, <2>4
<1>6. LoadInv' /\ load'.stage = "warmup" /\ load'.config = LoadOf(Scenario)
  <2>1. PICK c : c = LoadOf(Scenario)
    OBVIOUS
  <2>2. QED
    BY <1>1, <1>2, <2>1, AtWorkValid, BeginsInv
<1>7. GateShaped'
  BY <1>4 DEF GateShaped
<1>8. Scenario' = Scenario /\ LoadOf(Scenario)' = LoadOf(Scenario)
  BY <1>1, <1>2, <1>4 DEF Scenario, LoadOf
<1>9. AtScenario'
  BY <1>1, <1>2, <1>4, SuiteStands DEF AtScenario
<1>10. InPhase'
  BY <1>4, <1>5, <1>6, <1>8 DEF InPhase
<1>11. ResultsSound'
  <2>1. gate'.results = gate.results
    BY <1>1, <1>4
  <2>2. QED
    BY <1>2, <2>1, ResultStands DEF ResultsSound
<1>12. QED
  BY <1>2, <1>4, <1>6, <1>7, <1>9, <1>10, <1>11 DEF GateInv, Concluding, Exits

LEMMA LoadGoesOnKeeps ==
  ASSUME GateInv, LoadGoesOn
  PROVE  GateInv'
<1>1. /\ suite' = suite /\ gate' = gate /\ gate.at \in {"fault", "recovery"} /\ Runs
      /\ LoadStep(Replies, Persistence)
  BY DEF LoadGoesOn
<1>2. LoadInv' /\ load'.config = load.config /\ load'.stage # "idle"
  <2>1. PICK replies, persistence : replies = Replies /\ persistence = Persistence
    OBVIOUS
  <2>2. replies \in SUBSET LoadReplies
    BY <2>1 DEF Replies
  <2>3. persistence \in SUBSET BOOLEAN
    BY <2>1 DEF Persistence
  <2>4. LoadStep(replies, persistence)
    BY <1>1, <2>1
  <2>5. LoadInv
    BY DEF GateInv
  <2>6. QED
    BY <1>1, <2>2, <2>3, <2>4, <2>5, LoadStepKeeps
<1>3. GateShaped'
  BY <1>1 DEF GateInv, GateShaped
<1>4. AtScenario'
  BY <1>1, SuiteStands DEF GateInv, AtScenario
<1>5. LoadOf(Scenario)' = LoadOf(Scenario) /\ Scenario' = Scenario
  BY <1>1 DEF LoadOf, Scenario
<1>6. InPhase'
  BY <1>1, <1>2, <1>5 DEF GateInv, InPhase
<1>7. ResultsSound'
  BY <1>1, ResultStands DEF GateInv, ResultsSound
<1>8. QED
  BY <1>1, <1>2, <1>3, <1>4, <1>6, <1>7 DEF GateInv, Concluding

LEMMA NextScenarioKeeps ==
  ASSUME GateInv, gate.at \in {"fault", "recovery"}, NEW checks, NEW errors,
         NextScenario(checks, errors), suite' = suite,
         ResultSound(Scenario, ScenarioResult(checks, errors))
  PROVE  GateInv'
<1>1. PICK a, i, fa, ch, er, rs, ex :
        gate = [at |-> a, index |-> i, fault |-> fa, checks |-> ch, errors |-> er, results |-> rs,
                exit |-> ex]
  BY DEF GateInv, GateShaped
<1>2. PICK r : r = ScenarioResult(checks, errors)
  OBVIOUS
<1>3. /\ load' = Idle /\ service' = Untouched /\ suite \in Suites /\ ex = "running"
      /\ i \in 1..Len(suite.scenarios) /\ Len(rs) = i - 1 /\ ValidSuite /\ ResultsSound
      /\ Scenario = suite.scenarios[i]
  BY <1>1 DEF GateInv, NextScenario, AtScenario, Concluding, Scenario
<1>4. PICK place \in {"scenario", "report"} :
        /\ gate' = [at |-> place, index |-> i + 1, fault |-> {}, checks |-> {}, errors |-> {},
                    results |-> Append(rs, r), exit |-> ex]
        /\ place = IF i < Len(suite.scenarios) THEN "scenario" ELSE "report"
  BY <1>1, <1>2 DEF NextScenario
<1>5. LoadInv' /\ load'.stage = "idle"
  BY <1>3, IdleInv DEF Idle
<1>6. GateShaped'
  BY <1>4 DEF GateShaped
<1>7. Len(suite.scenarios) \in Nat /\ i \in Nat
  BY <1>3, ScenariosList
<1>8. PICK results : rs \in Seq(results)
  BY <1>1, <1>3 DEF ResultsSound
<1>9. /\ Append(rs, r) \in Seq(results \cup {r}) /\ Len(Append(rs, r)) = i
      /\ DOMAIN Append(rs, r) = 1..i /\ Append(rs, r)[i] = r
      /\ \A j \in 1..(i - 1) : j \in DOMAIN rs /\ Append(rs, r)[j] = rs[j]
  <2>1. rs \in Seq(results \cup {r}) /\ r \in results \cup {r}
    BY <1>8
  <2>2. QED
    BY <1>3, <1>7, <2>1
<1>10. ResultsSound'
  <2>1. \A j \in 1..i : ResultSound(suite.scenarios[j], Append(rs, r)[j])
    <3> TAKE j \in 1..i
    <3>1. CASE j = i
      BY <1>2, <1>3, <1>9, <3>1
    <3>2. CASE j # i
      <4>1. j \in 1..(i - 1)
        BY <1>7, <3>2
      <4>2. QED
        BY <1>1, <1>3, <1>9, <4>1 DEF ResultsSound
    <3>3. QED
      BY <3>1, <3>2
  <2>2. \A j \in 1..i : ResultSound(suite.scenarios[j], Append(rs, r)[j])'
    <3> TAKE j \in 1..i
    <3>1. PICK s, x : s = suite.scenarios[j] /\ x = Append(rs, r)[j]
      OBVIOUS
    <3>2. ResultSound(s, x)'
      BY <2>1, <3>1, ResultStands
    <3>3. QED
      BY <3>1, <3>2
  <2>3. gate'.results = Append(rs, r)
    BY <1>4
  <2>4. QED
    BY <1>3, <1>7, <1>9, <2>2, <2>3 DEF ResultsSound
<1>11. AtScenario'
  BY <1>3, <1>4, <1>7, <1>9, SuiteStands DEF AtScenario
<1>12. Concluding'
  BY <1>3, <1>4, <1>7, <1>9 DEF Concluding
<1>13. QED
  BY <1>3, <1>4, <1>5, <1>6, <1>10, <1>11, <1>12 DEF GateInv, InPhase, Exits

LEMMA FaultPhaseEndsKeeps ==
  ASSUME GateInv, FaultPhaseEnds
  PROVE  GateInv'
<1>1. PICK a, i, fa, ch, er, rs, ex :
        gate = [at |-> a, index |-> i, fault |-> fa, checks |-> ch, errors |-> er, results |-> rs,
                exit |-> ex]
  BY DEF GateInv, GateShaped
<1>2. /\ suite' = suite /\ suite \in Suites /\ a = "fault" /\ ex = "running" /\ ResultsSound
      /\ AtScenario /\ fa \subseteq {WithStatus(Scenario.fault)}
  BY <1>1 DEF GateInv, FaultPhaseEnds, PhaseEnds, Concluding, InPhase
<1>3. PICK checks, errors : /\ checks = EvaluateSamples(PhaseSamples, Scenario.expect, "fault")
                            /\ errors = PhaseErrors
  OBVIOUS
<1>4. CASE Scenario.recovery
  <2>1. /\ gate' = [at |-> "recovery", index |-> i, fault |-> fa, checks |-> checks,
                    errors |-> errors, results |-> rs, exit |-> ex]
        /\ LoadBegins(LoadOf(Scenario))
    BY <1>1, <1>3, <1>4 DEF FaultPhaseEnds
  <2>2. LoadInv' /\ load'.stage = "warmup" /\ load'.config = LoadOf(Scenario)
    <3>1. PICK c : c = LoadOf(Scenario)
      OBVIOUS
    <3>2. QED
      BY <1>1, <1>2, <2>1, <3>1, AtWorkValid, BeginsInv
  <2>3. GateShaped'
    BY <2>1 DEF GateShaped
  <2>4. Scenario' = Scenario /\ LoadOf(Scenario)' = LoadOf(Scenario)
    BY <1>1, <1>2, <2>1 DEF Scenario, LoadOf
  <2>5. AtScenario'
    BY <1>1, <1>2, <2>1, SuiteStands DEF AtScenario
  <2>6. InPhase'
    BY <1>2, <2>1, <2>2, <2>4 DEF InPhase
  <2>7. ResultsSound'
    <3>1. gate'.results = gate.results
      BY <1>1, <2>1
    <3>2. QED
      BY <1>2, <3>1, ResultStands DEF ResultsSound
  <2>8. QED
    BY <1>2, <2>1, <2>2, <2>3, <2>5, <2>6, <2>7 DEF GateInv, Concluding, Exits
<1>5. CASE ~Scenario.recovery
  <2>1. NextScenario(checks, errors)
    BY <1>3, <1>5 DEF FaultPhaseEnds
  <2>2. /\ ScenarioResult(checks, errors).fault = gate.fault
        /\ ScenarioResult(checks, errors).target = {}
    BY <1>1, <1>2 DEF ScenarioResult
  <2>3. ResultSound(Scenario, ScenarioResult(checks, errors))
    BY <1>1, <1>2, <1>5, <2>2 DEF ResultSound
  <2>4. QED
    BY <1>1, <1>2, <2>1, <2>3, NextScenarioKeeps
<1>6. QED
  BY <1>4, <1>5

\* A recovery phase with these checks and errors leaves a sound result.
LEMMA RecoverySound ==
  ASSUME GateInv, gate.at = "recovery", load.stage \in {"returned", "raised"},
         NEW checks, NEW errors, NEW wall, PhaseErrors \subseteq errors,
         EvaluateSamples(PhaseSamples, Scenario.recovery_expect, "recovery") \subseteq checks,
         EvaluateThresholds(Summary(PhaseSamples, IF load.stage = "raised" THEN 0 ELSE wall),
                            Thresholds(Scenario), "recovery") \subseteq checks,
         Scenario.fault.type = "database_error" /\ load.stage = "returned" =>
             errors # {} \/ Verified(PhaseSamples, checks)
  PROVE  ResultSound(Scenario, ScenarioResult(checks, errors))
<1> DEFINE r == ScenarioResult(checks, errors)
           tgt == [service EXCEPT !.persisted = Cardinality(@)]
<1>1. /\ r.fault = gate.fault /\ r.target = {tgt}
      /\ r.gate_passed = (errors = {} /\ checks # {} /\ AllPassed(checks))
  BY DEF ScenarioResult, AllPassed
<1>2. /\ LoadInv /\ load.config = LoadOf(Scenario)
      /\ gate.fault \subseteq {WithStatus(Scenario.fault)}
  BY DEF GateInv, InPhase
<1> HIDE DEF r, tgt
<1>3. ASSUME r.gate_passed
      PROVE  Recovered(Scenario, tgt)
  <2>1. errors = {} /\ AllPassed(checks)
    BY <1>1, <1>3
  <2>2. load.stage = "returned"
    BY <2>1 DEF PhaseErrors
  <2>3. PhaseSamples = load.samples
    BY <2>2 DEF PhaseSamples
  <2>4. PICK s : s = Scenario
    OBVIOUS
  <2>5. /\ load.config = LoadOf(s)
        /\ EvaluateSamples(load.samples, s.recovery_expect, "recovery") \subseteq checks
        /\ s.fault.type = "database_error" => Verified(load.samples, checks)
        /\ EvaluateThresholds(Summary(load.samples, wall), Thresholds(s), "recovery") \subseteq checks
    BY <1>2, <2>1, <2>2, <2>3, <2>4
  <2>6. \A name \in DOMAIN Thresholds(s) : Thresholds(s)[name] \in Nat
    BY <2>4, AtWorkValid
  <2>7. QED
    BY <1>2, <2>1, <2>2, <2>4, <2>5, <2>6, RecoveryJudged DEF tgt
<1>4. QED
  BY <1>1, <1>2, <1>3 DEF ResultSound, r

LEMMA RecoveryPhaseEndsKeeps ==
  ASSUME GateInv, NEW wall \in 0..1, RecoveryPhaseEnds(wall)
  PROVE  GateInv'
<1>1. /\ gate.at = "recovery" /\ load.stage \in {"returned", "raised"} /\ suite' = suite
  BY DEF RecoveryPhaseEnds, PhaseEnds
<1>2. PICK checks, errors :
        /\ checks = gate.checks
                      \cup EvaluateSamples(PhaseSamples, Scenario.recovery_expect, "recovery")
                      \cup EvaluateThresholds(
                              Summary(PhaseSamples, IF load.stage = "raised" THEN 0 ELSE wall),
                              Thresholds(Scenario), "recovery")
        /\ errors = gate.errors \cup PhaseErrors
  OBVIOUS
<1>3. \/ /\ ~(Scenario.fault.type = "database_error" /\ load.stage = "returned")
         /\ NextScenario(checks, errors)
      \/ \E unreadable \in SUBSET service.persisted :
            NextScenario(checks \cup {DatabaseCheck(PhaseSamples, service.persisted \ unreadable)},
                         errors)
      \/ NextScenario(checks, errors \cup {"recovery_verification"})
  BY <1>2 DEF RecoveryPhaseEnds
<1>4. CASE /\ ~(Scenario.fault.type = "database_error" /\ load.stage = "returned")
           /\ NextScenario(checks, errors)
  <2>1. ResultSound(Scenario, ScenarioResult(checks, errors))
    BY <1>1, <1>2, <1>4, RecoverySound
  <2>2. QED
    BY <1>1, <1>4, <2>1, NextScenarioKeeps
<1>5. ASSUME NEW unreadable \in SUBSET service.persisted,
             NextScenario(checks \cup {DatabaseCheck(PhaseSamples, service.persisted \ unreadable)},
                          errors)
      PROVE  GateInv'
  <2>1. PICK all :
          all = checks \cup {DatabaseCheck(PhaseSamples, service.persisted \ unreadable)}
    OBVIOUS
  <2>2. Verified(PhaseSamples, all)
    BY <2>1 DEF Verified
  <2>3. ResultSound(Scenario, ScenarioResult(all, errors))
    BY <1>1, <1>2, <2>1, <2>2, RecoverySound
  <2>4. QED
    BY <1>1, <1>5, <2>1, <2>3, NextScenarioKeeps
<1>6. CASE NextScenario(checks, errors \cup {"recovery_verification"})
  <2>1. PICK all : all = errors \cup {"recovery_verification"}
    OBVIOUS
  <2>2. ResultSound(Scenario, ScenarioResult(checks, all))
    BY <1>1, <1>2, <2>1, RecoverySound
  <2>3. QED
    BY <1>1, <1>6, <2>1, <2>2, NextScenarioKeeps
<1>7. QED
  BY <1>3, <1>4, <1>5, <1>6

LEMMA GateReportsKeeps ==
  ASSUME GateInv, NEW written \in BOOLEAN, GateReports(written)
  PROVE  GateInv'
<1>1. PICK a, i, fa, ch, er, rs, ex :
        gate = [at |-> a, index |-> i, fault |-> fa, checks |-> ch, errors |-> er, results |-> rs,
                exit |-> ex]
  BY DEF GateInv, GateShaped
<1>2. /\ a = "report" /\ suite' = suite /\ load' = load /\ service' = service
      /\ suite \in Suites /\ load.stage = "idle" /\ Len(rs) = Len(suite.scenarios) /\ ResultsSound
  BY <1>1 DEF GateInv, GateReports, Concluding
<1>3. PICK e \in {"execution", "failed", "passed"} : e = Verdict(written)
  BY DEF Verdict
<1>4. gate' = [at |-> "done", index |-> i, fault |-> fa, checks |-> ch, errors |-> er,
               results |-> rs, exit |-> e]
  BY <1>1, <1>3 DEF GateReports
<1>5. e = "passed" => \A j \in DOMAIN rs : rs[j].gate_passed
  BY <1>1, <1>3 DEF Verdict
<1>6. LoadInv'
  BY <1>2 DEF GateInv, LoadInv, LoadShaped, ServiceTypeOK, Runs
<1>7. GateShaped'
  BY <1>4 DEF GateShaped
<1>8. ResultsSound'
  <2>1. gate'.results = gate.results
    BY <1>1, <1>4
  <2>2. QED
    BY <1>2, <2>1, ResultStands DEF ResultsSound
<1>9. QED
  BY <1>2, <1>4, <1>5, <1>6, <1>7, <1>8 DEF GateInv, AtScenario, InPhase, Concluding, Exits

LEMMA GateNextInv == GateInv /\ [GateNext]_gateVars => GateInv'
<1> SUFFICES ASSUME GateInv, [GateNext]_gateVars PROVE GateInv'
  OBVIOUS
<1>1. CASE GateNext
  BY <1>1, GateStartsKeeps, FaultPhaseBeginsKeeps, LoadGoesOnKeeps, FaultPhaseEndsKeeps,
     RecoveryPhaseEndsKeeps, GateReportsKeeps DEF GateNext
<1>2. CASE UNCHANGED gateVars
  <2>1. suite' = suite /\ gate' = gate /\ load' = load /\ service' = service
    BY <1>2 DEF gateVars
  <2>2. LoadInv'
    BY <2>1 DEF GateInv, LoadInv, LoadShaped, ServiceTypeOK, Runs, WarmingUp, Accounted, NextIndex,
                Workers
  <2>3. ResultsSound'
    BY <2>1, ResultStands DEF GateInv, ResultsSound
  <2>4. AtScenario'
    BY <2>1, SuiteStands DEF GateInv, AtScenario
  <2>5. InPhase'
    BY <2>1 DEF GateInv, InPhase, LoadOf, Scenario
  <2>6. QED
    BY <2>1, <2>2, <2>3, <2>4, <2>5 DEF GateInv, GateShaped, Concluding
<1>3. QED
  BY <1>1, <1>2

LEMMA GateInvariant == GateSpec => []GateInv
BY GateInitInv, GateNextInv, PTL DEF GateSpec

LEMMA GateTypesHold == GateInv => GateTypeOK
<1> SUFFICES ASSUME GateInv PROVE GateTypeOK
  OBVIOUS
<1>1. Cardinality(load.flying) <= (IF Runs THEN Workers ELSE 0)
  <2>1. CASE load.stage = "measure"
    BY <2>1 DEF GateInv, LoadInv, Runs
  <2>2. CASE load.stage = "warmup"
    <3>1. load.flying \in SUBSET {load.issued}
      BY <2>2 DEF GateInv, LoadInv, WarmingUp
    <3>2. IsFiniteSet({load.issued}) /\ Cardinality({load.issued}) = 1
      BY FS_Singleton
    <3>3. Cardinality(load.flying) <= 1 /\ Cardinality(load.flying) \in Nat
      <4>1. IsFiniteSet(load.flying) /\ Cardinality(load.flying) <= Cardinality({load.issued})
        BY <3>1, <3>2, FS_Subset
      <4>2. QED
        BY <3>2, <4>1, FS_CardinalityType
    <3>4. Workers \in Nat \ {0}
      BY <2>2, WorkersNumber DEF GateInv, LoadInv
    <3>5. QED
      BY <2>2, <3>3, <3>4 DEF Runs
  <2>3. CASE ~Runs
    BY <2>3, FS_EmptySet DEF GateInv, LoadInv
  <2>4. QED
    BY <2>1, <2>2, <2>3 DEF Runs
<1>2. QED
  BY <1>1 DEF GateInv, LoadInv, GateTypeOK

\* The suite, its configuration and the run under way keep their types, and no more
\* requests are under way than there are workers (gate_runner.py and runner.py of
\* qe_platform/loadtest).
THEOREM GateTypeCorrect == GateSpec => []GateTypeOK
BY GateInvariant, GateTypesHold, PTL

\* A suite that passes had every scenario's fault arrive as configured, or refused,
\* and every target recover: no sample is lost, counted twice or left unpriced on the
\* way to the verdict (runner.py, gates.py and gate_runner.py of qe_platform/loadtest).
THEOREM PassAlwaysRecovered == GateSpec => []PassMeansRecovered
<1>1. GateInv => PassMeansRecovered
  <2> SUFFICES ASSUME GateInv, gate.exit = "passed" PROVE PassMeansRecovered
    BY DEF PassMeansRecovered
  <2>1. /\ Len(gate.results) = Len(suite.scenarios)
        /\ \A i \in DOMAIN gate.results : gate.results[i].gate_passed
        /\ \A i \in DOMAIN gate.results : ResultSound(suite.scenarios[i], gate.results[i])
    BY DEF GateInv, Concluding, ResultsSound
  <2>2. QED
    BY <2>1 DEF PassMeansRecovered, ResultSound
<1>2. QED
  BY <1>1, GateInvariant, PTL

------------------------------------------------------------------------------
(* The parts share no state: a step of one is a stutter of the others.        *)

PartsInv ==
    /\ part \in {"backup", "gates", "ledger", "adapters"}
    /\ IInv /\ GateInv /\ LedgerInv /\ AdaptersInv

LEMMA PartsKept ==
  ASSUME PartsInv, [OperationsNext]_<<part, vars, gateVars, ledgerVars, adapterVars>>
  PROVE  PartsInv'
<1>1. /\ [Next]_vars /\ [GateNext]_gateVars /\ [LedgerNext]_ledgerVars
      /\ [AdaptersNext]_adapterVars /\ part' = part
  BY DEF OperationsNext
<1>2. QED
  BY <1>1, NextIInv, GateNextInv, InvNext, AdaptersNextInv DEF PartsInv

\* The part at work keeps its types, whichever it is (ops/backup.py, ops/restore.py,
\* loadtest/gate_runner.py and adapters/ of qe_platform, scripts/calibration_budget.py).
THEOREM OperationsTypeCorrect == OperationsSpec => []OperationsTypeOK
<1>1. OperationsInit => PartsInv
  BY InitIInv, GateInitInv, InvInit, AdaptersInitInv DEF OperationsInit, PartsInv
<1>2. PartsInv => OperationsTypeOK
  <2>1. IInv => TypeOK
    BY DEF IInv
  <2>2. LedgerInv => LedgerTypeOK
    BY DEF LedgerInv
  <2>3. AdaptersInv => AdaptersTypeOK
    BY DEF AdaptersInv
  <2>4. QED
    BY <2>1, <2>2, <2>3, GateTypesHold DEF PartsInv, OperationsTypeOK
<1>3. QED
  BY <1>1, <1>2, PartsKept, PTL DEF OperationsSpec
=============================================================================
