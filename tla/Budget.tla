------------------------------- MODULE Budget -------------------------------
(***************************************************************************)
(* What the element budgets of the service promise, with no limiter, no    *)
(* message and no counter in sight: every account (one per client, and one *)
(* for the whole service) has an allowance per UTC day.  A charge is taken *)
(* only while the account is under its allowance, so the last charge of a  *)
(* day may overshoot it; midnight gives every account its allowance back,  *)
(* and an account may be forgotten at any time (the limiters keep their    *)
(* counters in memory and fail open).  Admission implements this.          *)
(***************************************************************************)
EXTENDS Integers

CONSTANTS
    Accounts,     \* the budgets
    Allowance,    \* [Accounts -> Int], elements per day; <= 0 means no budget
    Charges       \* the sizes a single request may have

VARIABLE
    spent         \* [Accounts -> Nat], elements charged today

Metered == {a \in Accounts : Allowance[a] > 0}

Init == spent = [a \in Accounts |-> 0]

Charge(a, e) ==
    /\ a \in Metered
    /\ spent[a] < Allowance[a]
    /\ spent' = [spent EXCEPT ![a] = @ + e]

Forget(a) == spent' = [spent EXCEPT ![a] = 0]

Midnight == spent' = [a \in Accounts |-> 0]

Next ==
    \/ \E a \in Accounts, e \in Charges : Charge(a, e)
    \/ \E a \in Accounts : Forget(a)
    \/ Midnight

Spec == Init /\ [][Next]_spent
=============================================================================
