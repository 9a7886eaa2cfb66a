------------------------------- MODULE Ledger -------------------------------
(***************************************************************************)
(* What the trading core promises of balances: every portfolio holds a     *)
(* non-negative amount of cash and of each stock, and balances move only   *)
(* by opening an account and by whole trades that the account can pay for. *)
(* A trade changes one stock and the cash of one portfolio in one step.    *)
(***************************************************************************)
EXTENDS Integers

CONSTANTS Portfolios, Stocks, Cash,
          Amounts   \* quantities and sums of money one operation may move

VARIABLE bal    \* balance of each asset in each portfolio

Assets == Stocks \cup {Cash}

Init == bal = [p \in Portfolios |-> [i \in Assets |-> 0]]

\* A new portfolio is credited with its seed cash.
Open(p, seed) ==
    /\ \A i \in Assets : bal[p][i] = 0
    /\ bal' = [bal EXCEPT ![p][Cash] = seed]

Buy(p, i, qty, cost) ==
    /\ bal[p][Cash] >= cost
    /\ bal' = [bal EXCEPT ![p][i] = @ + qty, ![p][Cash] = @ - cost]

Sell(p, i, qty, cost) ==
    /\ bal[p][i] >= qty
    /\ bal' = [bal EXCEPT ![p][i] = @ - qty, ![p][Cash] = @ + cost]

Next ==
    \E p \in Portfolios :
        \/ \E seed \in Amounts : Open(p, seed)
        \/ \E i \in Stocks, qty, cost \in Amounts :
              Buy(p, i, qty, cost) \/ Sell(p, i, qty, cost)

Spec == Init /\ [][Next]_bal

=============================================================================
