--------------------------- MODULE TokenBucketProofs ---------------------------
(***************************************************************************)
(* TokenBucket, for every capacity, rate, cost and number of callers.      *)
(*                                                                         *)
(* RateBound is not inductive: what the bucket would hold after a refill   *)
(* (Refilled) can still be granted.  Covered adds that to what the window  *)
(* has granted already; each step keeps the sum under the bound.           *)
(***************************************************************************)
EXTENDS TokenBucket, TLAPS

Covered == granted + Refilled <= Capacity + RefillRate * (real - since)

IInv == TypeOK /\ Covered

-----------------------------------------------------------------------------
(* Arithmetic *)

\* Capacity and rate are positive, and the first allowance fits.
LEMMA ConfigType ==
  /\ Capacity \in Nat /\ Capacity > 0
  /\ RefillRate \in Nat /\ RefillRate > 0
  /\ InitialTokens * Thousandth \in 0..Capacity
BY BucketAssumption DEF Capacity, Thousandth

\* One millisecond more adds the rate once more.
LEMMA OneMore ==
  ASSUME NEW r \in Nat, NEW d \in Int
  PROVE  r * (d + 1) = r * d + r
OBVIOUS

\* A product grows with its factor.
LEMMA TimesMonotone ==
  ASSUME NEW r \in Nat, NEW a \in Int, NEW b \in Int, a <= b
  PROVE  r * a <= r * b
OBVIOUS

\* A product of naturals is natural.
LEMMA TimesNat ==
  ASSUME NEW r \in Nat, NEW a \in Nat
  PROVE  r * a \in Nat
OBVIOUS

\* The quotient rounded up is natural.
LEMMA CeilDivNat ==
  ASSUME NEW a \in Nat, NEW b \in Nat, b > 0
  PROVE  CeilDiv(a, b) \in Nat
BY DEF CeilDiv

\* The quotient rounded up is the least that suffices, and rounded down plus one it
\* suffices and leaves no whole rate over.
LEMMA QuotientBounds ==
  ASSUME NEW a \in Nat, NEW b \in Nat, b > 0
  PROVE  /\ a \div b + 1 \in Nat
         /\ a <= b * CeilDiv(a, b) /\ b * (CeilDiv(a, b) - 1) <= a
         /\ a <= b * (a \div b + 1) /\ b * (a \div b) <= a
BY DEF CeilDiv

\* Every hint covers what lacks, and a millisecond less would not more than cover it.
LEMMA HintBounds ==
  ASSUME NEW cost, NEW available \in Nat, Price(cost) \in Nat, available <= Price(cost),
         NEW hint \in Hints(cost, available)
  PROVE  /\ hint \in Nat
         /\ Price(cost) - available <= RefillRate * hint
         /\ RefillRate * (hint - 1) <= Price(cost) - available
<1> DEFINE lacking == Price(cost) - available
<1>1. lacking \in Nat
  OBVIOUS
<1>2. hint = CeilDiv(lacking, RefillRate) \/ hint = lacking \div RefillRate + 1
  BY DEF Hints
<1> HIDE DEF lacking
<1>3. /\ hint \in Nat
      /\ lacking <= RefillRate * hint
      /\ RefillRate * (hint - 1) <= lacking
  <2>1. CASE hint = CeilDiv(lacking, RefillRate)
    BY <1>1, <2>1, CeilDivNat, QuotientBounds, ConfigType
  <2>2. CASE hint = lacking \div RefillRate + 1
    <3>1. hint - 1 = lacking \div RefillRate
      BY <1>1, <2>2, ConfigType
    <3>2. QED
      BY <1>1, <2>2, <3>1, QuotientBounds, ConfigType
  <2>3. QED
    BY <1>2, <2>1, <2>2
<1>4. QED
  BY <1>3 DEF lacking

\* The price of a call, or of none, is natural.
LEMMA PriceNat ==
  ASSUME NEW cost \in Costs \cup {0}
  PROVE  Price(cost) \in Nat
<1>1. cost \in Nat
  BY BucketAssumption
<1>2. QED
  BY <1>1 DEF Price, Thousandth

-----------------------------------------------------------------------------
(* Refilling *)

\* A refill takes nothing away and stays within the capacity.
LEMMA RefilledRange ==
  ASSUME tokens \in 0..Capacity, wall \in Int, lastRefillTime \in Int
  PROVE  /\ Refilled \in tokens..Capacity
         /\ Refilled \in 0..Capacity
         /\ RefillTime \in Int
<1>1. CASE wall > lastRefillTime
  <2>1. RefillRate * (wall - lastRefillTime) \in Nat
    BY <1>1, ConfigType, TimesNat
  <2>2. QED
    BY <1>1, <2>1, ConfigType DEF Refilled, RefillTime, Lesser
<1>2. CASE ~(wall > lastRefillTime)
  BY <1>2, ConfigType DEF Refilled, RefillTime
<1>3. QED
  BY <1>1, <1>2

\* A bucket that has just been refilled, whatever was then taken from it.
LEMMA JustRefilled ==
  ASSUME wall \in Int, lastRefillTime \in Int,
         lastRefillTime' = RefillTime, wall' = wall
  PROVE  Refilled' = tokens' /\ RefillInexact' = inexact'
BY DEF Refilled, RefillInexact, RefillTime

\* What a refill leaves is exact or not.
LEMMA InexactType ==
  ASSUME tokens \in 0..Capacity, wall \in Int, lastRefillTime \in Int, inexact \in BOOLEAN
  PROVE  RefillInexact \in BOOLEAN
<1>1. RefillRate * (wall - lastRefillTime) \in Int
  BY ConfigType
<1>2. (tokens + RefillRate * (wall - lastRefillTime) <= Capacity) \in BOOLEAN
  BY <1>1, ConfigType
<1>3. CASE wall > lastRefillTime
  BY <1>2, <1>3, Zenon DEF RefillInexact
<1>4. CASE ~(wall > lastRefillTime)
  BY <1>4, Zenon DEF RefillInexact
<1>5. QED
  BY <1>3, <1>4, Zenon

\* A millisecond is worth RefillRate, up to the capacity.
LEMMA TickRefill ==
  ASSUME tokens \in 0..Capacity, wall \in Int, lastRefillTime \in Int,
         wall' = wall + 1, tokens' = tokens, lastRefillTime' = lastRefillTime
  PROVE  /\ Refilled' <= Refilled + RefillRate
         /\ lastRefillTime <= wall =>
              Refilled' = IF Refilled + RefillRate > Capacity THEN Capacity
                          ELSE Refilled + RefillRate
         /\ lastRefillTime <= wall /\ Refilled + RefillRate > Capacity => ~RefillInexact'
<1> DEFINE gain == RefillRate * (wall - lastRefillTime)
<1>1. RefillRate * (wall + 1 - lastRefillTime) = gain + RefillRate
  BY ConfigType, OneMore
<1>2. CASE wall > lastRefillTime
  <2>1. gain \in Nat
    BY <1>2, ConfigType, TimesNat
  <2>2. Refilled = Lesser(Capacity, tokens + gain)
    BY <1>2 DEF Refilled
  <2>3. Refilled' = Lesser(Capacity, tokens + (gain + RefillRate))
    BY <1>1, <1>2 DEF Refilled, Capacity, Lesser
  <2>4. RefillInexact' <=> tokens + (gain + RefillRate) <= Capacity
    BY <1>1, <1>2 DEF RefillInexact, Capacity
  <2>5. QED
    BY <2>1, <2>2, <2>3, <2>4, ConfigType DEF Lesser
<1>3. CASE wall = lastRefillTime
  <2>1. gain = 0
    BY <1>3, ConfigType
  <2>2. Refilled = tokens
    BY <1>3 DEF Refilled
  <2>3. Refilled' = Lesser(Capacity, tokens + RefillRate)
    BY <1>1, <1>3, <2>1, ConfigType DEF Refilled, Capacity, Lesser
  <2>4. RefillInexact' <=> tokens + RefillRate <= Capacity
    BY <1>1, <1>3, <2>1, ConfigType DEF RefillInexact, Capacity
  <2>5. QED
    BY <2>2, <2>3, <2>4, ConfigType DEF Lesser
<1>4. CASE wall < lastRefillTime
  <2>1. Refilled = tokens /\ Refilled' = tokens
    BY <1>4 DEF Refilled
  <2>2. QED
    BY <1>4, <2>1, ConfigType
<1>5. QED
  BY <1>2, <1>3, <1>4

\* Setting the clock back adds nothing.
LEMMA StepBackRefill ==
  ASSUME tokens \in 0..Capacity, wall \in Int, lastRefillTime \in Int,
         NEW step \in Nat, wall' = wall - step,
         tokens' = tokens, lastRefillTime' = lastRefillTime
  PROVE  Refilled' <= Refilled
<1>1. CASE wall' > lastRefillTime
  <2>1. RefillRate * (wall' - lastRefillTime) <= RefillRate * (wall - lastRefillTime)
    BY ConfigType, TimesMonotone
  <2>2. RefillRate * (wall' - lastRefillTime) \in Nat
    BY <1>1, ConfigType, TimesNat
  <2>3. Refilled' = Lesser(Capacity, tokens + RefillRate * (wall' - lastRefillTime))
    BY <1>1 DEF Refilled, Capacity, Lesser
  <2>4. Refilled = Lesser(Capacity, tokens + RefillRate * (wall - lastRefillTime))
    BY <1>1 DEF Refilled
  <2>5. RefillRate * (wall - lastRefillTime) \in Int
    BY ConfigType
  <2>6. QED
    BY <2>1, <2>2, <2>3, <2>4, <2>5, ConfigType DEF Lesser
<1>2. CASE ~(wall' > lastRefillTime)
  <2>1. Refilled' = tokens
    BY <1>2 DEF Refilled
  <2>2. QED
    BY <2>1, RefilledRange, ConfigType
<1>3. QED
  BY <1>1, <1>2

-----------------------------------------------------------------------------
(* The invariant *)

\* At the start nothing is granted and the bucket holds at most its capacity.
LEMMA InitIInv == Init => IInv
<1> SUFFICES ASSUME Init PROVE IInv
  OBVIOUS
<1>1. Refilled = tokens
  BY DEF Init, Refilled
<1>2. RefillRate * (real - since) = 0
  BY ConfigType DEF Init
<1>3. Covered
  BY <1>1, <1>2, ConfigType DEF Init, Covered
<1>4. TypeOK
  <2>1. inexact \in BOOLEAN
    BY Zenon DEF Init
  <2>2. QED
    BY <2>1, ConfigType, BucketAssumption DEF Init, TypeOK, Idle
<1>5. QED
  BY <1>3, <1>4 DEF IInv

\* The refill every operation starts with, and a price of at most what it yields.
LEMMA SpendKeepsCovered ==
  ASSUME IInv, NEW price \in Nat, price <= Refilled,
         tokens' = Refilled - price, lastRefillTime' = RefillTime, wall' = wall,
         granted' = granted + price, real' = real, since' = since
  PROVE  /\ Covered'
         /\ tokens' \in 0..Capacity' /\ lastRefillTime' \in Int /\ granted' \in Nat
<1>1. /\ Refilled \in 0..Capacity /\ RefillTime \in Int
      /\ granted \in Nat /\ Capacity' = Capacity
  BY RefilledRange DEF IInv, TypeOK, Capacity
<1>2. Refilled' = Refilled - price
  BY JustRefilled DEF IInv, TypeOK
<1>3. granted' + Refilled' = granted + Refilled
  BY <1>1, <1>2
<1>4. Covered'
  BY <1>1, <1>3 DEF IInv, Covered
<1>5. QED
  BY <1>1, <1>4, ConfigType

\* A call that is chained takes nothing yet.
LEMMA ConsumeIInv ==
  ASSUME IInv, NEW c \in Callers, Consume(c)
  PROVE  IInv'
<1>1. Covered'
  BY DEF IInv, Covered, Consume, bucket, clocks, window, Refilled, Capacity, Lesser
<1>2. PICK kind \in Kinds, cost \in Costs :
        call' = [call EXCEPT ![c] = Chained(kind, cost)]
  BY DEF Consume
<1>3. TypeOK'
  <2>1. mutex' \in Seq(Callers)
    BY DEF IInv, TypeOK, Consume
  <2>2. UNCHANGED <<tokens, lastRefillTime, inexact, wall, real, resets, since, granted>>
        /\ quiet' \subseteq Callers
    BY DEF IInv, TypeOK, Consume, bucket, clocks, window
  <2>3. QED
    BY <1>2, <2>1, <2>2 DEF IInv, TypeOK, Chained, Capacity
<1>4. QED
  BY <1>1, <1>3 DEF IInv

\* What a grant adds to granted it takes from the bucket.
LEMMA GrantIInv ==
  ASSUME IInv, Grant
  PROVE  IInv'
<1> DEFINE c == Head(mutex)
           price == Price(call[c].cost)
<1>1. c \in Callers /\ Tail(mutex) \in Seq(Callers)
  BY DEF IInv, TypeOK, Grant
<1>2. price \in Nat
  <2>1. call[c].cost \in Costs \cup {0}
    BY <1>1 DEF IInv, TypeOK
  <2>2. QED
    BY <2>1, PriceNat
<1>3. /\ Covered'
      /\ tokens' \in 0..Capacity' /\ lastRefillTime' \in Int /\ granted' \in Nat
  BY <1>2, SpendKeepsCovered DEF Grant, clocks, IInv, TypeOK
<1>4. TypeOK'
  BY <1>1, <1>3, InexactType DEF IInv, TypeOK, Grant, Answered, Allowance, clocks
<1>5. QED
  BY <1>3, <1>4 DEF IInv

\* A refusal only refills.
LEMMA RefuseIInv ==
  ASSUME IInv, Refuse
  PROVE  IInv'
<1> DEFINE c == Head(mutex)
<1>1. c \in Callers /\ Tail(mutex) \in Seq(Callers)
  BY DEF IInv, TypeOK, Refuse
<1>2. Refilled \in 0..Capacity /\ Price(call[c].cost) \in Nat
  <2>1. call[c].cost \in Costs \cup {0}
    BY <1>1 DEF IInv, TypeOK
  <2>2. QED
    BY <2>1, PriceNat, RefilledRange DEF IInv, TypeOK
<1>3. PICK hint \in Hints(call[c].cost, Refilled) :
        call' = [call EXCEPT ![c] = Answered(call[c], Refusal(call[c].kind, hint), FALSE, hint)]
  BY DEF Refuse
<1>4. hint \in Nat
  <2>1. Refilled \in Nat /\ Refilled <= Price(call[c].cost)
    BY <1>2, ConfigType DEF Refuse, MayFallShort
  <2>2. QED
    BY <1>2, <2>1, HintBounds
<1>5. Refusal(call[c].kind, hint) \in {"refused", "threw", "returned"}
  BY DEF Refusal
<1>6. /\ Covered'
      /\ tokens' \in 0..Capacity' /\ lastRefillTime' \in Int /\ granted' \in Nat
  <2>1. tokens' = Refilled - 0 /\ granted' = granted + 0 /\ 0 <= Refilled
    BY <1>2, ConfigType DEF Refuse, window, IInv, TypeOK
  <2>2. QED
    BY <2>1, SpendKeepsCovered DEF Refuse, clocks, window
<1>7. call' \in [Callers -> [phase : {"idle", "queued", "done"}, kind : Kinds \cup {"consume"},
                 cost : Costs \cup {0}, paid : BOOLEAN, hint : Nat, at : Nat,
                 result : {"none", "allowed", "refused", "returned", "threw"}]]
  BY <1>1, <1>3, <1>4, <1>5 DEF IInv, TypeOK, Answered
<1>8. TypeOK'
  BY <1>1, <1>6, <1>7, InexactType DEF IInv, TypeOK, Refuse, clocks, window
<1>9. QED
  BY <1>6, <1>8 DEF IInv

\* peek() and getStats() only refill.
LEMMA PeekIInv ==
  ASSUME IInv, Peek
  PROVE  IInv'
<1>1. Refilled \in 0..Capacity
  BY RefilledRange DEF IInv, TypeOK
<1>2. tokens' = Refilled - 0 /\ granted' = granted + 0 /\ 0 <= Refilled
  BY <1>1, ConfigType DEF Peek, window, IInv, TypeOK
<1>3. /\ Covered'
      /\ tokens' \in 0..Capacity' /\ lastRefillTime' \in Int /\ granted' \in Nat
  BY <1>2, SpendKeepsCovered DEF Peek, clocks, window
<1>4. QED
  BY <1>3, InexactType DEF IInv, TypeOK, Peek, clocks, window

\* A reset fills the bucket and ends the window.
LEMMA ResetIInv ==
  ASSUME IInv, Reset
  PROVE  IInv'
<1>1. Refilled' = Capacity
  BY DEF Reset, clocks, Refilled, Capacity, IInv, TypeOK
<1>2. RefillRate * (real' - since') = 0
  BY ConfigType DEF Reset, clocks, IInv, TypeOK
<1>3. Covered'
  BY <1>1, <1>2, ConfigType DEF Covered, Reset, Capacity
<1>4. TypeOK'
  <2>1. inexact' \in BOOLEAN
    BY Zenon DEF Reset
  <2>2. QED
    BY <2>1, ConfigType, BucketAssumption DEF IInv, TypeOK, Reset, clocks, Capacity
<1>5. QED
  BY <1>3, <1>4 DEF IInv

\* Time adds no more to the bucket than to the bound.
LEMMA TickIInv ==
  ASSUME IInv, Tick
  PROVE  IInv'
<1>1. Refilled' <= Refilled + RefillRate
  BY TickRefill DEF IInv, TypeOK, Tick, bucket
<1>2. RefillRate * (real' - since') = RefillRate * (real - since) + RefillRate
  <2>1. real' - since' = (real - since) + 1
    BY DEF IInv, TypeOK, Tick, window
  <2>2. QED
    BY <2>1, OneMore, ConfigType DEF IInv, TypeOK
<1>3. Refilled \in Int /\ Refilled' \in Int
  BY ConfigType DEF IInv, TypeOK, Tick, bucket, Refilled, Lesser, Capacity
<1>4. Covered'
  <2>1. RefillRate * (real - since) \in Int
    BY ConfigType DEF IInv, TypeOK
  <2>2. granted' = granted /\ granted \in Nat /\ Capacity' = Capacity
    BY DEF IInv, TypeOK, Tick, window, Capacity
  <2>3. QED
    BY <1>1, <1>2, <1>3, <2>1, <2>2, ConfigType DEF IInv, Covered
<1>5. TypeOK'
  BY DEF IInv, TypeOK, Tick, bucket, window, Capacity
<1>6. QED
  BY <1>4, <1>5 DEF IInv

\* A clock set back adds nothing.
LEMMA StepBackIInv ==
  ASSUME IInv, StepBack
  PROVE  IInv'
<1>1. PICK step \in BackSteps : wall' = wall - step
  BY DEF StepBack
<1>2. step \in Nat
  BY BucketAssumption
<1>3. Refilled' <= Refilled
  BY <1>1, <1>2, StepBackRefill DEF IInv, TypeOK, StepBack, bucket
<1>4. Refilled \in Int /\ Refilled' \in Int
  BY <1>1, <1>2, ConfigType DEF IInv, TypeOK, StepBack, bucket, Refilled, Lesser, Capacity
<1>5. Covered'
  <2>1. RefillRate * (real - since) \in Int
    BY ConfigType DEF IInv, TypeOK
  <2>2. /\ granted' = granted /\ granted \in Nat /\ Capacity' = Capacity
        /\ real' = real /\ since' = since
    BY DEF IInv, TypeOK, StepBack, window, Capacity
  <2>3. QED
    BY <1>3, <1>4, <2>1, <2>2, ConfigType DEF IInv, Covered
<1>6. TypeOK'
  BY <1>1, <1>2 DEF IInv, TypeOK, StepBack, bucket, window, Capacity
<1>7. QED
  BY <1>5, <1>6 DEF IInv

\* A window opens with at most a full bucket.
LEMMA OpenWindowIInv ==
  ASSUME IInv, OpenWindow
  PROVE  IInv'
<1>1. Refilled' = Refilled /\ Capacity' = Capacity
  BY DEF OpenWindow, bucket, clocks, Refilled, Capacity, Lesser
<1>2. Refilled \in 0..Capacity
  BY RefilledRange DEF IInv, TypeOK
<1>3. RefillRate * (real' - since') = 0
  BY ConfigType DEF OpenWindow, clocks, IInv, TypeOK
<1>4. Covered'
  BY <1>1, <1>2, <1>3, ConfigType DEF Covered, OpenWindow
<1>5. TypeOK'
  BY DEF IInv, TypeOK, OpenWindow, bucket, clocks, Capacity
<1>6. QED
  BY <1>4, <1>5 DEF IInv

\* A step that changes nothing.
LEMMA StutterIInv ==
  ASSUME IInv, UNCHANGED vars
  PROVE  IInv'
BY DEF IInv, TypeOK, Covered, vars, Refilled, Capacity, Lesser

\* Every step keeps the invariant.
LEMMA StepIInv == IInv /\ [Next]_vars => IInv'
<1> SUFFICES ASSUME IInv, [Next]_vars PROVE IInv'
  OBVIOUS
<1>1. ASSUME NEW c \in Callers, Consume(c) PROVE IInv'
  BY <1>1, ConsumeIInv
<1>2. CASE Grant      BY <1>2, GrantIInv
<1>3. CASE Refuse     BY <1>3, RefuseIInv
<1>4. CASE Peek       BY <1>4, PeekIInv
<1>5. CASE Reset      BY <1>5, ResetIInv
<1>6. CASE Tick       BY <1>6, TickIInv
<1>7. CASE StepBack   BY <1>7, StepBackIInv
<1>8. CASE OpenWindow BY <1>8, OpenWindowIInv
<1>9. CASE UNCHANGED vars BY <1>9, StutterIInv
<1>10. QED
  BY <1>1, <1>2, <1>3, <1>4, <1>5, <1>6, <1>7, <1>8, <1>9 DEF Next

\* What the bucket still holds is not negative, so what was granted is under the bound.
LEMMA IInvImpliesRateBound == IInv => RateBound
<1> SUFFICES ASSUME IInv PROVE RateBound
  OBVIOUS
<1>1. Refilled \in 0..Capacity
  BY RefilledRange DEF IInv, TypeOK
<1>2. RefillRate * (real - since) \in Int
  BY ConfigType DEF IInv, TypeOK
<1>3. QED
  BY <1>1, <1>2, ConfigType DEF IInv, TypeOK, Covered, RateBound

\* The bucket never holds more than its capacity nor less than nothing, and
\* every variable keeps its type: the code of consume, refill, peek and reset.
THEOREM TypeCorrect == Spec => []TypeOK
<1>1. IInv => TypeOK
  BY DEF IInv
<1>2. QED
  BY <1>1, InitIInv, StepIInv, PTL DEF Spec

\* Whatever the clock, the callers and the order of calls, no window of real time
\* sees more granted than capacity plus refillRate times its length.
THEOREM RateBounded == Spec => []RateBound
BY InitIInv, StepIInv, IInvImpliesRateBound, PTL DEF Spec

-----------------------------------------------------------------------------
(* The lazy bucket implements the eager one, if the clock is never set back *)

Forward == lastRefillTime <= wall

Asks == [c \in Callers |-> View(call[c])]

\* At the start the last refill is now.
LEMMA InitForward == Init => Forward
BY DEF Init, Forward

\* While the clock is never set back, no refill lies in the future.
LEMMA StepForward ==
  ASSUME BackSteps = {}, IInv, Forward, [Next]_vars
  PROVE  Forward'
<1>1. wall \in Int /\ lastRefillTime \in Int
  BY DEF IInv, TypeOK
<1>2. CASE Grant \/ Refuse \/ Peek
  <2>1. lastRefillTime' = RefillTime /\ wall' = wall
    <3>1. CASE Grant  BY <3>1 DEF Grant, clocks
    <3>2. CASE Refuse BY <3>2 DEF Refuse, clocks
    <3>3. CASE Peek   BY <3>3 DEF Peek, clocks
    <3>4. QED
      BY <1>2, <3>1, <3>2, <3>3
  <2>2. QED
    BY <1>1, <2>1 DEF RefillTime, Forward
<1>3. CASE Reset \/ Tick \/ OpenWindow
  BY <1>1, <1>3 DEF Reset, Tick, OpenWindow, bucket, clocks, Forward
<1>4. CASE StepBack
  BY <1>4 DEF StepBack
<1>5. ASSUME NEW c \in Callers, Consume(c) PROVE Forward'
  BY <1>5 DEF Consume, bucket, clocks, Forward
<1>6. CASE UNCHANGED vars
  BY <1>6 DEF vars, Forward
<1>7. QED
  BY <1>2, <1>3, <1>4, <1>5, <1>6 DEF Next

\* A caller's call is what the eager bucket is asked.
LEMMA AnswerAsks ==
  ASSUME TypeOK, NEW c \in Callers, NEW k, call' = [call EXCEPT ![c] = k]
  PROVE  Asks' = [Asks EXCEPT ![c] = View(k)]
BY DEF TypeOK, Asks

\* Both buckets start with the same allowance and no calls.
LEMMA InitEager == Init => Eager!Init
<1> SUFFICES ASSUME Init PROVE Eager!Init
  OBVIOUS
<1>1. Refilled = InitialTokens * Thousandth
  BY DEF Init, Refilled
<1>2. Price(0) = 0
  BY DEF Price, Thousandth
<1>3. \A c \in Callers : View(call[c]) = [verdict |-> "none", price |-> 0]
  BY <1>2 DEF Init, Idle, View, Verdict
<1>4. QED
  BY <1>1, <1>3 DEF Eager!Init, Eager!Verdict

\* Chaining a call asks the eager bucket.
LEMMA ConsumeEager ==
  ASSUME IInv, NEW c \in Callers, Consume(c)
  PROVE  Eager!Ask(c)
<1>1. PICK kind \in Kinds, cost \in Costs : call' = [call EXCEPT ![c] = Chained(kind, cost)]
  BY DEF Consume
<1>2. Asks' = [Asks EXCEPT ![c] = View(Chained(kind, cost))]
  BY <1>1, AnswerAsks DEF IInv
<1>3. View(Chained(kind, cost)) = [verdict |-> "pending", price |-> Price(cost)]
  BY DEF View, Verdict, Chained
<1>4. Asks[c].verdict # "pending"
  BY DEF Consume, Asks, View, Verdict
<1>5. Refilled' = Refilled
  BY DEF Consume, bucket, clocks, Refilled, Capacity, Lesser
<1>6. QED
  BY <1>2, <1>3, <1>4, <1>5 DEF Eager!Ask, Eager!Verdict, Asks

\* A chained call is pending.
LEMMA QueuedAsks ==
  ASSUME IInv, NEW c \in Callers, call[c].phase = "queued"
  PROVE  Asks[c] = [verdict |-> "pending", price |-> Price(call[c].cost)]
BY DEF Asks, View, Verdict

-----------------------------------------------------------------------------
(* The chain of calls: each waits, and waits once *)

Chain ==
  /\ \A i \in 1..Len(mutex) : call[mutex[i]].phase = "queued"
  /\ \A i, j \in 1..Len(mutex) : mutex[i] = mutex[j] => i = j

\* At the start nobody waits.
LEMMA InitChain == Init => Chain
BY DEF Init, Chain

\* Serving the head of the chain leaves the others waiting.
LEMMA ServeChain ==
  ASSUME IInv, Chain, mutex # << >>, mutex' = Tail(mutex),
         NEW k, call' = [call EXCEPT ![Head(mutex)] = k]
  PROVE  Chain'
<1>1. mutex \in Seq(Callers) /\ Len(mutex) \in Nat /\ Len(mutex) > 0
  BY DEF IInv, TypeOK
<1>2. /\ Len(mutex') = Len(mutex) - 1
      /\ \A i \in 1..Len(mutex') : mutex'[i] = mutex[i + 1] /\ i + 1 \in 1..Len(mutex)
  BY <1>1
<1>3. Head(mutex) = mutex[1] /\ 1 \in 1..Len(mutex)
  BY <1>1
<1>4. \A i, j \in 1..Len(mutex') : mutex'[i] = mutex'[j] => i = j
  BY <1>1, <1>2 DEF Chain
<1>5. ASSUME NEW i \in 1..Len(mutex') PROVE call'[mutex'[i]].phase = "queued"
  <2>1. mutex'[i] # Head(mutex)
    BY <1>1, <1>2, <1>3 DEF Chain
  <2>2. mutex'[i] \in Callers
    BY <1>1, <1>2
  <2>3. call'[mutex'[i]] = call[mutex[i + 1]]
    BY <1>2, <2>1, <2>2 DEF IInv, TypeOK
  <2>4. QED
    BY <1>2, <2>3 DEF Chain
<1>6. QED
  BY <1>4, <1>5 DEF Chain

\* Who is chained was not waiting before.
LEMMA ConsumeChain ==
  ASSUME IInv, Chain, NEW c \in Callers, Consume(c)
  PROVE  Chain'
<1>1. mutex \in Seq(Callers) /\ Len(mutex) \in Nat
  BY DEF IInv, TypeOK
<1>2. PICK kind \in Kinds, cost \in Costs : call' = [call EXCEPT ![c] = Chained(kind, cost)]
  BY DEF Consume
<1>3. /\ mutex' = Append(mutex, c) /\ Len(mutex') = Len(mutex) + 1
      /\ mutex'[Len(mutex) + 1] = c
      /\ \A i \in 1..Len(mutex) : mutex'[i] = mutex[i] /\ mutex[i] \in Callers
  BY <1>1 DEF Consume
<1>4. \A i \in 1..Len(mutex) : mutex[i] # c
  BY DEF Chain, Consume
<1>5. call'[c].phase = "queued"
  BY <1>2 DEF IInv, TypeOK, Chained
<1>6. \A i \in 1..Len(mutex) : call'[mutex[i]] = call[mutex[i]]
  BY <1>2, <1>3, <1>4 DEF IInv, TypeOK
<1>7. \A i \in 1..Len(mutex') : call'[mutex'[i]].phase = "queued"
  BY <1>1, <1>3, <1>5, <1>6 DEF Chain
<1>8. \A i, j \in 1..Len(mutex') : mutex'[i] = mutex'[j] => i = j
  BY <1>1, <1>3, <1>4 DEF Chain
<1>9. QED
  BY <1>7, <1>8 DEF Chain

\* Every step keeps the chain in order.
LEMMA StepChain ==
  ASSUME IInv, Chain, [Next]_vars
  PROVE  Chain'
<1>1. ASSUME NEW c \in Callers, Consume(c) PROVE Chain'
  BY <1>1, ConsumeChain
<1>2. CASE Grant
  BY <1>2, ServeChain DEF Grant
<1>3. CASE Refuse
  <2>1. PICK hint : call' = [call EXCEPT ![Head(mutex)] =
                               Answered(call[Head(mutex)],
                                        Refusal(call[Head(mutex)].kind, hint), FALSE, hint)]
    BY <1>3 DEF Refuse
  <2>2. QED
    BY <1>3, <2>1, ServeChain DEF Refuse
<1>4. CASE Peek \/ Reset \/ Tick \/ StepBack \/ OpenWindow \/ UNCHANGED vars
  <2>1. mutex' = mutex /\ call' = call
    BY <1>4 DEF Peek, Reset, Tick, StepBack, OpenWindow, vars
  <2>2. QED
    BY <2>1 DEF Chain
<1>5. QED
  BY <1>1, <1>2, <1>3, <1>4 DEF Next

\* A grant is a grant of the eager bucket.
LEMMA GrantEager ==
  ASSUME IInv, Chain, Grant
  PROVE  Eager!Grant(Head(mutex))
<1> DEFINE c == Head(mutex)
           k == Answered(call[c], Allowance(call[c].kind), TRUE, 0)
<1>1. c \in Callers /\ call[c].phase = "queued"
  BY DEF IInv, TypeOK, Grant, Chain
<1>2. Asks[c] = [verdict |-> "pending", price |-> Price(call[c].cost)]
  BY <1>1, QueuedAsks
<1>3. Asks' = [Asks EXCEPT ![c] = View(k)]
  BY <1>1, AnswerAsks DEF Grant, IInv
<1>4. View(k) = [verdict |-> "granted", price |-> Price(call[c].cost)]
  BY DEF View, Verdict, Answered
<1>5. /\ Asks[c].verdict = "pending"
      /\ Asks[c].price = Price(call[c].cost)
      /\ Asks' = [Asks EXCEPT ![c] = Eager!Verdict("granted", Asks[c].price)]
  <2>1. Asks[c].verdict = "pending" /\ Asks[c].price = Price(call[c].cost)
    BY <1>2
  <2>2. View(k) = Eager!Verdict("granted", Asks[c].price)
    BY <1>4, <2>1 DEF Eager!Verdict
  <2>3. QED
    BY <1>3, <2>1, <2>2
<1>6. Refilled' = tokens'
  BY JustRefilled DEF IInv, TypeOK, Grant, clocks
<1>7. QED
  BY <1>1, <1>5, <1>6 DEF Eager!Grant, Grant, Asks

\* A refusal is one of the eager bucket.
LEMMA RefuseEager ==
  ASSUME IInv, Chain, Refuse
  PROVE  Eager!Refuse(Head(mutex))
<1> DEFINE c == Head(mutex)
<1>0. PICK hint : call' = [call EXCEPT ![c] =
                             Answered(call[c], Refusal(call[c].kind, hint), FALSE, hint)]
  BY DEF Refuse
<1> DEFINE k == Answered(call[c], Refusal(call[c].kind, hint), FALSE, hint)
<1>1. c \in Callers /\ call[c].phase = "queued"
  BY DEF IInv, TypeOK, Refuse, Chain
<1>2. Asks[c] = [verdict |-> "pending", price |-> Price(call[c].cost)]
  BY <1>1, QueuedAsks
<1>3. Asks' = [Asks EXCEPT ![c] = View(k)]
  BY <1>0, <1>1, AnswerAsks DEF IInv
<1>4. View(k) = [verdict |-> "refused", price |-> Price(call[c].cost)]
  BY DEF View, Verdict, Answered
<1>5. /\ Asks[c].verdict = "pending"
      /\ Asks[c].price = Price(call[c].cost)
      /\ Asks' = [Asks EXCEPT ![c] = Eager!Verdict("refused", Asks[c].price)]
  <2>1. Asks[c].verdict = "pending" /\ Asks[c].price = Price(call[c].cost)
    BY <1>2
  <2>2. View(k) = Eager!Verdict("refused", Asks[c].price)
    BY <1>4, <2>1 DEF Eager!Verdict
  <2>3. QED
    BY <1>3, <2>1, <2>2
<1>6. Refilled' = tokens'
  BY JustRefilled DEF IInv, TypeOK, Refuse, clocks
<1>7. Price(call[c].cost) >= Refilled
  <2>1. Refilled \in Int
    BY RefilledRange, ConfigType DEF IInv, TypeOK
  <2>2. Price(call[c].cost) \in Int
    <3>1. call[c].cost \in Costs \cup {0}
      BY <1>1 DEF IInv, TypeOK
    <3>2. QED
      BY <3>1, PriceNat
  <2>3. QED
    BY <2>1, <2>2 DEF Refuse, MayFallShort
<1>8. QED
  BY <1>1, <1>5, <1>6, <1>7 DEF Eager!Refuse, Refuse, Asks

\* Every step is one of the eager bucket, or changes nothing it shows.
LEMMA StepEager ==
  ASSUME BackSteps = {}, IInv, Chain, Forward, [Next]_vars
  PROVE  [Eager!Next]_(Eager!vars)
<1>1. ASSUME NEW c \in Callers, Consume(c) PROVE Eager!Next
  BY <1>1, ConsumeEager DEF Eager!Next
<1>2. CASE Grant
  <2>1. Head(mutex) \in Callers
    BY <1>2 DEF Grant, IInv, TypeOK
  <2>2. QED
    BY <1>2, <2>1, GrantEager DEF Eager!Next
<1>3. CASE Refuse
  <2>1. Head(mutex) \in Callers
    BY <1>3 DEF Refuse, IInv, TypeOK
  <2>2. QED
    BY <1>3, <2>1, RefuseEager DEF Eager!Next
<1>4. CASE Peek
  <2>1. Refilled' = Refilled
    BY <1>4, JustRefilled DEF IInv, TypeOK, Peek, clocks
  <2>2. Asks' = Asks
    BY <1>4 DEF Peek, Asks
  <2>3. QED
    BY <2>1, <2>2 DEF Eager!vars, Asks
<1>5. CASE Reset
  <2>1. Refilled' = Capacity
    BY <1>5 DEF Reset, clocks, Refilled, Capacity, IInv, TypeOK
  <2>2. Asks' = Asks
    BY <1>5 DEF Reset, Asks
  <2>3. QED
    BY <2>1, <2>2 DEF Eager!Next, Eager!FillUp, Asks
<1>6. CASE Tick
  <2>1. Refilled' = IF Refilled + RefillRate > Capacity THEN Capacity
                    ELSE Refilled + RefillRate
    BY <1>6, TickRefill DEF IInv, TypeOK, Tick, bucket, Forward
  <2>2. Asks' = Asks
    BY <1>6 DEF Tick, Asks
  <2>3. QED
    BY <2>1, <2>2 DEF Eager!Next, Eager!Grow, Asks
<1>7. CASE StepBack
  BY <1>7 DEF StepBack
<1>8. CASE OpenWindow \/ UNCHANGED vars
  <2>1. Refilled' = Refilled /\ Asks' = Asks
    BY <1>8 DEF OpenWindow, vars, bucket, clocks, Refilled, Capacity, Lesser, Asks
  <2>2. QED
    BY <2>1 DEF Eager!vars, Asks
<1>9. QED
  BY <1>1, <1>2, <1>3, <1>4, <1>5, <1>6, <1>7, <1>8 DEF Next

\* As long as the wall clock is never set back, callers cannot tell the lazy refill
\* from a bucket that is topped up every millisecond: each is granted when the exact
\* allowance exceeds its price, refused when it falls short, and rounding decides between.
THEOREM LazyIsEager == BackSteps = {} => (Spec => ImplementsEager)
<1> SUFFICES ASSUME BackSteps = {} PROVE Spec => ImplementsEager
  OBVIOUS
<1> DEFINE Inv == IInv /\ Chain /\ Forward
<1>1. Init => Inv
  BY InitIInv, InitChain, InitForward
<1>2. Inv /\ [Next]_vars => Inv'
  BY StepIInv, StepChain, StepForward
<1>3. Inv /\ [Next]_vars => [Eager!Next]_(Eager!vars)
  BY StepEager
<1>4. QED
  BY <1>1, <1>2, <1>3, InitEager, PTL DEF Spec, ImplementsEager, Eager!Spec

-----------------------------------------------------------------------------
(* The hints of refused calls *)

\* How long after now the wait that a refused call was told ends; negative once over.
Left(k) == k.at + k.hint - real

\* Unless the bucket is full to the brim, what it holds and what it gains in the time left
\* cover the call; and two milliseconds less would not, if nothing was reset.
Full == Refilled = Capacity /\ ~RefillInexact
Enough(k) == Full \/ Price(k.cost) <= Refilled + RefillRate * Left(k)
Tight(k) == resets = 0 => Refilled + RefillRate * (Left(k) - 2) < Price(k.cost)

\* HintIsEnough and HintIsTight speak of the moment the wait ends; these speak of every
\* moment of it, and are inductive.
EnoughInv == \A c \in quiet : Enough(call[c])
TightInv == \A c \in quiet : Tight(call[c])

\* A refused call has its type.
LEMMA CallType ==
  ASSUME IInv, NEW c \in Callers
  PROVE  /\ call[c].at \in Nat /\ call[c].hint \in Nat /\ real \in Nat
         /\ Left(call[c]) \in Int /\ Price(call[c].cost) \in Nat
         /\ Refilled \in 0..Capacity /\ Refilled \in Int
<1>1. call[c].cost \in Costs \cup {0} /\ call[c].at \in Nat /\ call[c].hint \in Nat
  BY DEF IInv, TypeOK
<1>2. real \in Nat /\ Refilled \in 0..Capacity
  BY RefilledRange DEF IInv, TypeOK
<1>3. QED
  BY <1>1, <1>2, PriceNat, ConfigType DEF Left

\* A step that neither fills nor waits keeps what holds of the calls it leaves alone.
LEMMA StillKeeps ==
  ASSUME IInv, NEW c \in Callers, call'[c] = call[c], Refilled' = Refilled, real' = real,
         RefillInexact' = RefillInexact
  PROVE  /\ Enough(call[c]) => Enough(call[c])'
         /\ resets' = resets /\ Tight(call[c]) => Tight(call[c])'
<1>1. Left(call[c])' = Left(call[c]) /\ Price(call[c].cost)' = Price(call[c].cost)
  BY DEF Left, Price
<1>2. QED
  BY <1>1 DEF Enough, Tight, Full, Capacity

\* The operations that answer nobody and reset nothing.
LEMMA QuietKeeps ==
  ASSUME IInv, Refilled' = Refilled, real' = real, resets' = resets, quiet' \subseteq quiet,
         RefillInexact' = RefillInexact,
         \A c \in quiet' : call'[c] = call[c]
  PROVE  /\ EnoughInv => EnoughInv'
         /\ TightInv => TightInv'
<1>1. ASSUME NEW c \in quiet'
      PROVE  /\ c \in quiet
             /\ Enough(call[c]) => Enough(call[c])'
             /\ Tight(call[c]) => Tight(call[c])'
  <2>1. c \in quiet /\ c \in Callers /\ call'[c] = call[c]
    BY DEF IInv, TypeOK
  <2>2. QED
    BY <2>1, StillKeeps
<1>2. QED
  BY <1>1 DEF EnoughInv, TightInv

\* A call is refused with a hint that is enough and no more.
LEMMA RefuseHints ==
  ASSUME IInv, Refuse
  PROVE  /\ EnoughInv => EnoughInv'
         /\ TightInv => TightInv'
<1>1. PICK c \in Callers : c = Head(mutex)
  BY DEF IInv, TypeOK, Refuse
<1>2. PICK p \in Nat, r \in Nat : p = Price(call[c].cost) /\ r = Refilled /\ r <= p
  BY <1>1, CallType DEF Refuse, MayFallShort
<1>3. PICK hint \in Hints(call[c].cost, Refilled) :
        call' = [call EXCEPT ![c] = Answered(call[c], Refusal(call[c].kind, hint), FALSE, hint)]
  BY <1>1 DEF Refuse
<1>4. hint \in Nat /\ p - r <= RefillRate * hint /\ RefillRate * (hint - 1) <= p - r
  BY <1>2, <1>3, HintBounds
<1>5. /\ Refilled' = Refilled /\ real' = real /\ resets' = resets
      /\ RefillInexact' = RefillInexact
  BY JustRefilled DEF IInv, TypeOK, Refuse, clocks
<1>6. /\ call'[c] = Answered(call[c], Refusal(call[c].kind, hint), FALSE, hint)
      /\ \A d \in Callers \ {c} : call'[d] = call[d]
      /\ quiet' = quiet \cup {c} /\ quiet \subseteq Callers
  BY <1>1, <1>3 DEF Refuse, IInv, TypeOK
<1>7. Enough(call[c])' /\ Tight(call[c])'
  <2>1. call'[c].cost = call[c].cost /\ call'[c].hint = hint /\ call'[c].at = real
    BY <1>6 DEF Answered
  <2>2. Left(call[c])' = hint
    BY <1>4, <1>5, <2>1 DEF Left, IInv, TypeOK
  <2>3. Price(call[c].cost)' = p
    BY <1>2, <2>1 DEF Price
  <2>4. Refilled' = r
    BY <1>2, <1>5
  <2>5. r + RefillRate * (hint - 2) < p /\ p <= r + RefillRate * hint
    <3>1. /\ RefillRate * hint \in Int /\ RefillRate * (hint - 1) \in Int
          /\ RefillRate * (hint - 2) = RefillRate * (hint - 1) - RefillRate
      BY <1>4, ConfigType
    <3>2. QED
      BY <1>2, <1>4, <3>1, ConfigType
  <2>6. QED
    BY <2>2, <2>3, <2>4, <2>5 DEF Enough, Tight
<1>8. ASSUME NEW d \in quiet, d # c
      PROVE  /\ Enough(call[d]) => Enough(call[d])'
             /\ Tight(call[d]) => Tight(call[d])'
  <2>1. d \in Callers /\ call'[d] = call[d]
    BY <1>6, <1>8
  <2>2. QED
    BY <1>5, <2>1, StillKeeps
<1>9. QED
  BY <1>6, <1>7, <1>8 DEF EnoughInv, TightInv

\* A millisecond that passes is a millisecond less to wait, and adds what it is worth.
LEMMA TickHints ==
  ASSUME IInv, Tick
  PROVE  /\ Forward /\ EnoughInv => EnoughInv'
         /\ TightInv => TightInv'
<1>1. /\ Refilled' <= Refilled + RefillRate
      /\ Forward => Refilled' = IF Refilled + RefillRate > Capacity THEN Capacity
                                ELSE Refilled + RefillRate
      /\ Forward /\ Refilled + RefillRate > Capacity => ~RefillInexact'
  BY TickRefill DEF IInv, TypeOK, Tick, bucket, Forward
<1>2. /\ call' = call /\ quiet' = quiet /\ resets' = resets /\ real' = real + 1
      /\ Capacity' = Capacity
  BY DEF Tick, Capacity
<1>3. Refilled' \in Int
  BY ConfigType DEF IInv, TypeOK, Tick, bucket, Refilled, Lesser, Capacity
<1>4. ASSUME NEW c \in quiet
      PROVE  /\ Forward /\ Enough(call[c]) => Enough(call[c])'
             /\ Tight(call[c]) => Tight(call[c])'
  <2>1. c \in Callers
    BY DEF IInv, TypeOK
  <2>2. PICK p \in Nat, r \in 0..Capacity, left \in Int :
          p = Price(call[c].cost) /\ r = Refilled /\ left = Left(call[c])
    BY <2>1, CallType
  <2>3. Left(call[c])' = left - 1 /\ Price(call[c].cost)' = p
    BY <1>2, <2>1, <2>2, CallType DEF Left, Price
  <2>4. /\ RefillRate * (left - 1) = RefillRate * left - RefillRate
        /\ RefillRate * (left - 1 - 2) = RefillRate * (left - 2) - RefillRate
        /\ RefillRate * left \in Int /\ RefillRate * (left - 2) \in Int
    BY <2>2, ConfigType
  <2>5. ASSUME Forward, Enough(call[c]) PROVE Enough(call[c])'
    <3>1. r = Capacity \/ p <= r + RefillRate * left
      BY <2>2, <2>5 DEF Enough, Full
    <3>2. \/ Refilled' = Capacity /\ ~RefillInexact'
          \/ p <= Refilled' + RefillRate * (left - 1)
      BY <1>1, <1>3, <2>2, <2>4, <2>5, <3>1, ConfigType
    <3>3. QED
      BY <1>2, <2>3, <3>2 DEF Enough, Full
  <2>6. ASSUME Tight(call[c]), resets = 0
        PROVE  Refilled' + RefillRate * (left - 1 - 2) < p
    <3>1. r + RefillRate * (left - 2) < p
      BY <2>2, <2>6 DEF Tight
    <3>2. QED
      BY <1>1, <1>3, <2>2, <2>4, <3>1, ConfigType
  <2>7. Tight(call[c]) => Tight(call[c])'
    BY <1>2, <2>3, <2>6 DEF Tight
  <2>8. QED
    BY <2>5, <2>7
<1>5. QED
  BY <1>2, <1>4 DEF EnoughInv, TightInv

\* A clock that is set back adds nothing, so the bound from above stays.
LEMMA StepBackHints ==
  ASSUME IInv, StepBack, TightInv
  PROVE  TightInv'
<1>1. PICK step \in BackSteps : wall' = wall - step
  BY DEF StepBack
<1>2. step \in Nat
  BY BucketAssumption
<1>3. Refilled' <= Refilled
  BY <1>1, <1>2, StepBackRefill DEF IInv, TypeOK, StepBack, bucket
<1>4. Refilled' \in Int
  BY <1>1, <1>2, ConfigType DEF IInv, TypeOK, StepBack, bucket, Refilled, Lesser, Capacity
<1>5. call' = call /\ quiet' = quiet /\ resets' = resets /\ real' = real
  BY DEF StepBack
<1>6. ASSUME NEW c \in quiet PROVE Tight(call[c])'
  <2>1. c \in Callers /\ Tight(call[c])
    BY DEF IInv, TypeOK, TightInv
  <2>2. PICK p \in Nat, r \in 0..Capacity, left \in Int :
          p = Price(call[c].cost) /\ r = Refilled /\ left = Left(call[c])
    BY <2>1, CallType
  <2>3. Left(call[c])' = left /\ Price(call[c].cost)' = p
    BY <1>5, <2>2 DEF Left, Price
  <2>4. RefillRate * (left - 2) \in Int
    BY ConfigType
  <2>5. resets = 0 => Refilled' + RefillRate * (left - 2) < p
    BY <1>3, <1>4, <2>1, <2>2, <2>4, ConfigType DEF Tight
  <2>6. QED
    BY <1>5, <2>3, <2>5 DEF Tight
<1>7. QED
  BY <1>5, <1>6 DEF TightInv

\* Both invariants survive every step; the one that the hint is enough, if the clock is
\* never set back.
LEMMA StepHints ==
  ASSUME IInv, [Next]_vars
  PROVE  /\ BackSteps = {} /\ Forward /\ EnoughInv => EnoughInv'
         /\ TightInv => TightInv'
<1>1. ASSUME NEW c \in Callers, Consume(c)
      PROVE  (EnoughInv => EnoughInv') /\ (TightInv => TightInv')
  <2>1. /\ Refilled' = Refilled /\ RefillInexact' = RefillInexact
        /\ real' = real /\ resets' = resets /\ quiet' = quiet \ {c}
    BY <1>1 DEF Consume, bucket, clocks, Refilled, RefillInexact, Capacity, Lesser
  <2>2. \A d \in quiet' : call'[d] = call[d]
    BY <1>1, <2>1 DEF Consume, IInv, TypeOK
  <2>3. QED
    BY <2>1, <2>2, QuietKeeps
<1>2. CASE Grant
  BY <1>2 DEF Grant, EnoughInv, TightInv
<1>3. CASE Refuse
  BY <1>3, RefuseHints
<1>4. CASE Peek
  <2>1. Refilled' = Refilled /\ RefillInexact' = RefillInexact
    BY <1>4, JustRefilled DEF IInv, TypeOK, Peek, clocks
  <2>2. QED
    BY <1>4, <2>1, QuietKeeps DEF Peek, clocks
<1>5. CASE Reset
  <2>1. Full'
    BY <1>5 DEF Reset, clocks, Full, Refilled, RefillInexact, Capacity, IInv, TypeOK
  <2>2. resets' # 0
    BY <1>5, BucketAssumption DEF Reset, IInv, TypeOK
  <2>3. QED
    BY <2>1, <2>2 DEF EnoughInv, Enough, TightInv, Tight
<1>6. CASE Tick
  BY <1>6, TickHints
<1>7. CASE StepBack
  BY <1>7, StepBackHints DEF StepBack
<1>8. CASE OpenWindow \/ UNCHANGED vars
  <2>1. /\ Refilled' = Refilled /\ RefillInexact' = RefillInexact
        /\ real' = real /\ resets' = resets /\ quiet' = quiet /\ call' = call
    BY <1>8 DEF OpenWindow, vars, bucket, clocks, Refilled, RefillInexact, Capacity, Lesser
  <2>2. QED
    BY <2>1, QuietKeeps
<1>9. QED
  BY <1>1, <1>2, <1>3, <1>4, <1>5, <1>6, <1>7, <1>8 DEF Next

\* Once the wait is over what is left to gain is less than nothing.
LEMMA EnoughInvImplies == IInv /\ EnoughInv => HintIsEnough
<1> SUFFICES ASSUME IInv, EnoughInv, NEW c \in quiet, Price(call[c].cost) <= Capacity,
                    real > call[c].at + call[c].hint
             PROVE  ~MayFallShort(Price(call[c].cost))
  BY DEF HintIsEnough
<1>1. c \in Callers /\ Enough(call[c])
  BY DEF IInv, TypeOK, EnoughInv
<1>2. PICK p \in Nat, r \in 0..Capacity, left \in Int :
        p = Price(call[c].cost) /\ r = Refilled /\ left = Left(call[c])
  BY <1>1, CallType
<1>3. left <= -1
  BY <1>1, <1>2, CallType DEF Left
<1>4. RefillRate * left <= RefillRate * (-1) /\ RefillRate * left \in Int
  BY <1>3, TimesMonotone, ConfigType
<1>5. Full \/ p <= r + RefillRate * left
  BY <1>1, <1>2 DEF Enough
<1>6. Full \/ p < r
  BY <1>2, <1>4, <1>5, ConfigType
<1>7. QED
  BY <1>2, <1>6, ConfigType DEF Full, MayFallShort

\* Two milliseconds before there is no less than nothing left to gain.
LEMMA TightInvImplies == IInv /\ TightInv => HintIsTight
<1> SUFFICES ASSUME IInv, TightInv, NEW c \in quiet, resets = 0,
                    real + 1 < call[c].at + call[c].hint
             PROVE  Refilled < Price(call[c].cost)
  BY DEF HintIsTight
<1>1. c \in Callers /\ Tight(call[c])
  BY DEF IInv, TypeOK, TightInv
<1>2. PICK p \in Nat, r \in 0..Capacity, left \in Int :
        p = Price(call[c].cost) /\ r = Refilled /\ left = Left(call[c])
  BY <1>1, CallType
<1>3. left - 2 >= 0
  BY <1>1, <1>2, CallType DEF Left
<1>4. RefillRate * (left - 2) \in Nat
  BY <1>3, TimesNat, ConfigType
<1>5. r + RefillRate * (left - 2) < p
  BY <1>1, <1>2 DEF Tight
<1>6. QED
  BY <1>2, <1>4, <1>5, ConfigType

\* While the clock is never set back, a caller who waits a millisecond longer than its
\* refusal says is not refused again, whatever the doubles round to, if no other call was
\* granted and the bucket can hold what it asks for.
THEOREM HintsSuffice ==
  ASSUME BackSteps = {}
  PROVE  Spec => []HintIsEnough
<1>1. Init => EnoughInv
  BY DEF Init, EnoughInv
<1>2. IInv /\ Forward /\ EnoughInv /\ [Next]_vars => EnoughInv'
  BY StepHints
<1>3. IInv /\ Forward /\ [Next]_vars => Forward'
  BY StepForward
<1>4. QED
  BY <1>1, <1>2, <1>3, InitIInv, StepIInv, InitForward, EnoughInvImplies, PTL DEF Spec

\* Whatever the clock does and the doubles round to, no caller is told to wait two
\* milliseconds longer than it must.
THEOREM HintsAreTight == Spec => []HintIsTight
<1>1. Init => TightInv
  BY DEF Init, TightInv
<1>2. IInv /\ TightInv /\ [Next]_vars => TightInv'
  BY StepHints
<1>3. QED
  BY <1>1, <1>2, InitIInv, StepIInv, TightInvImplies, PTL DEF Spec
=============================================================================
