------------------------------ MODULE EagerBucket ------------------------------
(***************************************************************************)
(* What a token bucket promises, without the trick that makes it cheap: an *)
(* allowance that grows by Gain every millisecond up to Burst, and calls   *)
(* that are granted if it exceeds their price and refused if it falls      *)
(* short of it; of a call for just the allowance, rounding decides.        *)
(* TokenBucket refills lazily and is shown to implement this.              *)
(***************************************************************************)
EXTENDS Integers

CONSTANTS Clients, Prices, Burst, Gain, Start

VARIABLES
  allowance,   \* what a call may spend now
  ask          \* what each client asked for, and the verdict

vars == <<allowance, ask>>

Verdict(verdict, price) == [verdict |-> verdict, price |-> price]

Init == allowance = Start /\ ask = [c \in Clients |-> Verdict("none", 0)]

Ask(c) ==
  /\ ask[c].verdict # "pending"
  /\ \E price \in Prices : ask' = [ask EXCEPT ![c] = Verdict("pending", price)]
  /\ UNCHANGED allowance

Grant(c) ==
  /\ ask[c].verdict = "pending"
  /\ ask[c].price <= allowance
  /\ allowance' = allowance - ask[c].price
  /\ ask' = [ask EXCEPT ![c] = Verdict("granted", ask[c].price)]

Refuse(c) ==
  /\ ask[c].verdict = "pending"
  /\ ask[c].price >= allowance
  /\ ask' = [ask EXCEPT ![c] = Verdict("refused", ask[c].price)]
  /\ UNCHANGED allowance

\* A millisecond passes.
Grow ==
  /\ allowance' = IF allowance + Gain > Burst THEN Burst ELSE allowance + Gain
  /\ UNCHANGED ask

FillUp == allowance' = Burst /\ UNCHANGED ask

Next == (\E c \in Clients : Ask(c) \/ Grant(c) \/ Refuse(c)) \/ Grow \/ FillUp

Spec == Init /\ [][Next]_vars
=============================================================================
