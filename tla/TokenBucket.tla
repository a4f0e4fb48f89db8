------------------------------ MODULE TokenBucket ------------------------------
(***************************************************************************)
(* TokenBucket, the rate limiter of the exchange adapters.  Tokens are     *)
(* counted in thousandths, so that RefillRate (tokens per second) is what  *)
(* one millisecond adds.  The code adds doubles, whose error stays far     *)
(* below a thousandth: it decides only comparisons of equals, and the      *)
(* model leaves those open while the content is `inexact`.  Date.now() is  *)
(* a wall clock: the host may set it back, which real time never does.     *)
(***************************************************************************)
EXTENDS Integers, Sequences

CONSTANTS
  Callers,         \* concurrent users of one bucket
  Kinds,           \* the methods they call: "consume", "consumeOrWait"
  Costs,           \* what calls cost, in tokens
  CapacityTokens, RefillRate, InitialTokens,  \* TokenBucketConfig
  MaxWaitMs,       \* consumeOrWait's maxWaitMs
  BackSteps,       \* by how much the wall clock may be set back, in ms
  MaxTime,         \* bound on real time
  MaxResets        \* bound on resets

ASSUME BucketAssumption ==
  /\ Kinds \subseteq {"consume", "consumeOrWait"}
  /\ Costs \subseteq Nat \ {0}
  /\ CapacityTokens \in Nat \ {0}
  /\ RefillRate \in Nat \ {0}
  /\ InitialTokens \in 0..CapacityTokens
  /\ MaxWaitMs \in Nat /\ MaxTime \in Nat /\ MaxResets \in Nat
  /\ BackSteps \subseteq Nat

VARIABLES
  tokens, lastRefillTime,   \* the bucket
  inexact,                  \* tokens may be off by the rounding of doubles
  mutex,                    \* calls chained on the promise, in order
  call,                     \* what each caller asked, and the answer it got
  wall, real,               \* Date.now() and real time, in ms
  resets,
  since, granted,           \* an observed window: its start, and the grants in it
  quiet                     \* callers refused since the last grant

bucket == <<tokens, lastRefillTime, inexact>>
clocks == <<wall, real>>
window == <<since, granted>>
vars == <<tokens, lastRefillTime, inexact, mutex, call, wall, real, resets, since, granted,
          quiet>>

Thousandth == 1000
Capacity == CapacityTokens * Thousandth
Price(cost) == cost * Thousandth

Lesser(a, b) == IF a < b THEN a ELSE b

\* The quotient a / b, rounded up.
CeilDiv(a, b) == (a + b - 1) \div b

\* Slip: no Math.min with the capacity.
RefilledUncapped ==
  IF wall > lastRefillTime
  THEN tokens + RefillRate * (wall - lastRefillTime)
  ELSE tokens

\* Slip: time cannot be negative, so the difference is taken without its sign.
RefilledEitherWay ==
  Lesser(Capacity, tokens + RefillRate * (IF wall > lastRefillTime
                                          THEN wall - lastRefillTime
                                          ELSE lastRefillTime - wall))

\* What refill() makes of tokens and lastRefillTime: nothing when the clock has
\* not moved forward since the last refill.
Refilled ==
  IF wall > lastRefillTime
  THEN Lesser(Capacity, tokens + RefillRate * (wall - lastRefillTime))
  ELSE tokens

\* Slip: lastRefillTime is not moved on, so the same time is credited again.
RefillTimeKept == lastRefillTime

RefillTime == IF wall > lastRefillTime THEN wall ELSE lastRefillTime

\* newTokens is rounded, and so is the sum; one that exceeds the capacity is cut to it.
RefillInexact ==
  IF wall > lastRefillTime
  THEN tokens + RefillRate * (wall - lastRefillTime) <= Capacity
  ELSE inexact

\* this.tokens >= cost may fail: of an inexact content just as much as the price, too.
MayFallShort(price) == Refilled < price \/ (Refilled = price /\ RefillInexact)

\* paid: history, whether the call's cost was taken from the bucket.
\* at: the real time of the answer.
Idle == [phase |-> "idle", kind |-> "consume", cost |-> 0, result |-> "none",
         paid |-> FALSE, hint |-> 0, at |-> 0]

Chained(kind, cost) ==
  [phase |-> "queued", kind |-> kind, cost |-> cost, result |-> "none",
   paid |-> FALSE, hint |-> 0, at |-> 0]

Answered(k, result, paid, hint) ==
  [phase |-> "done", kind |-> k.kind, cost |-> k.cost, result |-> result,
   paid |-> paid, hint |-> hint, at |-> real]

Init ==
  /\ tokens = InitialTokens * Thousandth /\ inexact = FALSE
  /\ wall = 0 /\ real = 0
  /\ lastRefillTime = 0
  /\ mutex = << >>
  /\ call = [c \in Callers |-> Idle]
  /\ resets = 0
  /\ since = 0 /\ granted = 0
  /\ quiet = {}

\* consume(), and consumeOrWait() up to its await: the call is chained on the mutex.
Consume(c) ==
  /\ call[c].phase # "queued"
  /\ \E kind \in Kinds, cost \in Costs :
       call' = [call EXCEPT ![c] = Chained(kind, cost)]
  /\ mutex' = Append(mutex, c)
  /\ quiet' = quiet \ {c}
  /\ UNCHANGED <<bucket, clocks, resets, window>>

\* Slip: how long until there is one token, not until there are enough.
HintsForOne(cost, available) == {CeilDiv(Price(1), RefillRate)}

\* Slip: the tokens already in the bucket are not counted.
HintsFromEmpty(cost, available) == {CeilDiv(Price(cost), RefillRate)}

\* retryAfterMs, the wait for what lacks, rounded up: one millisecond more when the
\* doubles' quotient comes out just above a whole number.
Hints(cost, available) ==
  LET lacking == Price(cost) - available
  IN {CeilDiv(lacking, RefillRate), lacking \div RefillRate + 1} \ {0}

Allowance(kind) == IF kind = "consume" THEN "allowed" ELSE "returned"

\* The callback at the head of the chain finds enough tokens.
Grant ==
  LET c == Head(mutex) IN
  /\ mutex # << >>
  /\ Refilled >= Price(call[c].cost)
  /\ tokens' = Refilled - Price(call[c].cost) /\ inexact' = RefillInexact
  /\ lastRefillTime' = RefillTime
  /\ call' = [call EXCEPT ![c] = Answered(call[c], Allowance(call[c].kind), TRUE, 0)]
  /\ mutex' = Tail(mutex)
  /\ granted' = granted + Price(call[c].cost)
  /\ quiet' = {}
  /\ UNCHANGED <<clocks, resets, since>>

\* How a refused call ends: consumeOrWait throws if the hint exceeds maxWaitMs,
\* and otherwise returns as if it had been granted.
Refusal(kind, hint) ==
  IF kind = "consume" THEN "refused"
  ELSE IF hint > MaxWaitMs THEN "threw" ELSE "returned"

\* Slip: a call that can never be covered is left waiting at the head of the chain.
RefuseIfCoverable ==
  LET c == Head(mutex) IN
  /\ mutex # << >>
  /\ Price(call[c].cost) <= Capacity
  /\ MayFallShort(Price(call[c].cost))
  /\ tokens' = Refilled /\ inexact' = RefillInexact
  /\ lastRefillTime' = RefillTime
  /\ \E hint \in Hints(call[c].cost, Refilled) :
       call' = [call EXCEPT ![c] =
                  Answered(call[c], Refusal(call[c].kind, hint), FALSE, hint)]
  /\ mutex' = Tail(mutex)
  /\ quiet' = quiet \cup {c}
  /\ UNCHANGED <<clocks, resets, window>>

\* The callback at the head of the chain finds too few.
Refuse ==
  LET c == Head(mutex) IN
  /\ mutex # << >>
  /\ MayFallShort(Price(call[c].cost))
  /\ tokens' = Refilled /\ inexact' = RefillInexact
  /\ lastRefillTime' = RefillTime
  /\ \E hint \in Hints(call[c].cost, Refilled) :
       call' = [call EXCEPT ![c] =
                  Answered(call[c], Refusal(call[c].kind, hint), FALSE, hint)]
  /\ mutex' = Tail(mutex)
  /\ quiet' = quiet \cup {c}
  /\ UNCHANGED <<clocks, resets, window>>

\* Slip: peek() moves lastRefillTime on and keeps no tokens for it.
PeekForgetsTokens ==
  /\ lastRefillTime' = RefillTime
  /\ UNCHANGED <<tokens, inexact, mutex, call, clocks, resets, window, quiet>>

\* peek() and getStats() refill, and do not go through the mutex.
Peek ==
  /\ tokens' = Refilled /\ inexact' = RefillInexact
  /\ lastRefillTime' = RefillTime
  /\ UNCHANGED <<mutex, call, clocks, resets, window, quiet>>

\* reset() does not go through the mutex either.  A window ends at a reset.
Reset ==
  /\ resets < MaxResets
  /\ resets' = resets + 1
  /\ tokens' = Capacity /\ inexact' = FALSE
  /\ lastRefillTime' = wall
  /\ since' = real /\ granted' = 0
  /\ UNCHANGED <<mutex, call, clocks, quiet>>

Tick ==
  /\ real < MaxTime
  /\ real' = real + 1 /\ wall' = wall + 1
  /\ UNCHANGED <<bucket, mutex, call, resets, window, quiet>>

\* The host's clock is set back.
StepBack ==
  /\ \E step \in BackSteps : wall - step >= -MaxTime /\ wall' = wall - step
  /\ UNCHANGED <<bucket, mutex, call, real, resets, window, quiet>>

\* The observer starts a new window.
OpenWindow ==
  /\ since' = real /\ granted' = 0
  /\ UNCHANGED <<bucket, mutex, call, clocks, resets, quiet>>

Next ==
  \/ \E c \in Callers : Consume(c)
  \/ Grant \/ Refuse \/ Peek \/ Reset \/ Tick \/ StepBack \/ OpenWindow

Spec == Init /\ [][Next]_vars

\* Promise callbacks run as soon as the running code returns.
FairSpec == Spec /\ WF_vars(Grant \/ Refuse)

-----------------------------------------------------------------------------
(* Properties *)

TypeOK ==
  /\ tokens \in 0..Capacity /\ inexact \in BOOLEAN
  /\ lastRefillTime \in Int /\ wall \in Int /\ real \in Nat
  /\ mutex \in Seq(Callers)
  /\ call \in [Callers -> [phase : {"idle", "queued", "done"}, kind : Kinds \cup {"consume"},
                 cost : Costs \cup {0}, paid : BOOLEAN, hint : Nat, at : Nat,
                 result : {"none", "allowed", "refused", "returned", "threw"}]]
  /\ resets \in 0..MaxResets
  /\ since \in 0..real /\ granted \in Nat
  /\ quiet \subseteq Callers

\* Over any stretch of real time between resets, the calls granted cost no more
\* than a full bucket and what that stretch adds to it: bursts of capacity, a
\* sustained rate of refillRate (the algorithm in TokenBucket's header).  It holds
\* however peeks, grants and refusals split the refills.
RateBound == granted <= Capacity + RefillRate * (real - since)

\* The retryAfterMs of a refusal is enough, up to rounding: a millisecond after that
\* time, with nothing granted to others, a call the bucket can hold is not refused again.
\* (At the very millisecond it may be: ten refills of 0.1 do not sum to 1.)
HintIsEnough ==
  \A c \in quiet :
    (Price(call[c].cost) <= Capacity /\ real > call[c].at + call[c].hint) =>
      ~MayFallShort(Price(call[c].cost))

\* And it is not too long, up to rounding: two milliseconds earlier the bucket, if not
\* reset, does not cover the call.
HintIsTight ==
  \A c \in quiet :
    (resets = 0 /\ real + 1 < call[c].at + call[c].hint) => Refilled < Price(call[c].cost)

\* What consumeOrWait's comment says: when it returns, it has its tokens.
WaitIsPaid ==
  \A c \in Callers : call[c].result = "returned" => call[c].paid

\* Every call is answered.
EveryCallAnswered == \A c \in Callers : call[c].phase = "queued" ~> call[c].phase # "queued"

Verdict(k) ==
  IF k.phase = "idle" THEN "none"
  ELSE IF k.phase = "queued" THEN "pending"
  ELSE IF k.paid THEN "granted" ELSE "refused"

View(k) == [verdict |-> Verdict(k), price |-> Price(k.cost)]

\* The bucket that refills lazily implements the one that refills every
\* millisecond: its allowance is what a refill would make of tokens now.  Of a call for
\* the whole allowance the rounding decides, in both.
Eager == INSTANCE EagerBucket WITH
  Clients <- Callers, Prices <- {Price(cost) : cost \in Costs}, Burst <- Capacity,
  Gain <- RefillRate, Start <- InitialTokens * Thousandth, allowance <- Refilled,
  ask <- [c \in Callers |-> View(call[c])]

ImplementsEager == Eager!Spec
=============================================================================
