---------------------------- MODULE SpendAccount ----------------------------
(* What the resource ledger of a Run with a finite hard budget promises:    *)
(* each operation holds an amount before it may cost anything, is closed    *)
(* once, for at most what it held, and the balance of amounts held and      *)
(* charged never exceeds the limit.                                         *)
EXTENDS Integers

CONSTANTS Holders, Limit

VARIABLES stage, amount, balance
account == <<stage, amount, balance>>

AccountOK == /\ stage \in [Holders -> {"new", "held", "closed"}]
             /\ amount \in [Holders -> Nat]
             /\ balance \in Int

Init == /\ stage = [h \in Holders |-> "new"] /\ amount = [h \in Holders |-> 0]
        /\ balance = 0

Hold(h, n) == /\ stage[h] = "new" /\ balance + n <= Limit
              /\ stage' = [stage EXCEPT ![h] = "held"]
              /\ amount' = [amount EXCEPT ![h] = n]
              /\ balance' = balance + n

\* The hold is replaced by what the operation cost: nothing when it is given up.
Close(h, n) == /\ stage[h] = "held" /\ n <= amount[h]
               /\ stage' = [stage EXCEPT ![h] = "closed"]
               /\ amount' = [amount EXCEPT ![h] = n]
               /\ balance' = balance + n - amount[h]

Next == \E h \in Holders, n \in 0..Limit : Hold(h, n) \/ Close(h, n)

Spec == Init /\ [][Next]_account

\* The hard budget: what is held and charged together never exceeds the limit
\* (loadRunBudgetExposure).
WithinLimit == balance <= Limit
=============================================================================
