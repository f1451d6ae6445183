------------------------------- MODULE Ledger -------------------------------
(***************************************************************************)
(* What a paper account promises, whatever the order flow.  Value moves    *)
(* between cash and one holding at a time, a purchase never spends money   *)
(* the account does not have, and apart from the profit booked when a      *)
(* holding is released nothing appears or vanishes but what one rounding   *)
(* of an average price and one of an amount can account for.               *)
(***************************************************************************)
EXTENDS Rounding

CONSTANTS
    Accounts,       \* what money can be invested in
    Funds,          \* the opening cash
    Grain           \* average prices are multiples of 1/Grain

VARIABLES
    cash,           \* money not invested
    held,           \* held[a]: what is invested in a cost
    size,           \* size[a]: units of a that were bought with it
    realized        \* profit booked so far, negative for a loss

ledgerVars == <<cash, held, size, realized>>

Init ==
    /\ cash = Funds
    /\ held = [a \in Accounts |-> 0]
    /\ size = [a \in Accounts |-> 0]
    /\ realized = 0

OnlyChanges(a) ==
    /\ held' = [held EXCEPT ![a] = held'[a]]
    /\ size' = [size EXCEPT ![a] = size'[a]]

(* Money goes into a holding.  All that leaves the cash arrives there, up  *)
(* to half a grain for each unit now held and half a unit of money.        *)
Invest(a) ==
    /\ OnlyChanges(a)
    /\ cash' \in 0..cash
    /\ size'[a] > size[a]
    /\ 2 * Grain * Abs((held'[a] - held[a]) - (cash - cash')) <= size'[a] + Grain
    /\ UNCHANGED realized

(* What a sale took out of the holding: the proceeds that are not profit.  *)
Released == (cash' - cash) - (realized' - realized)

(* A holding is released for proceeds that may be more or less than its    *)
(* cost; the difference is booked.  A part of it releases its share of the *)
(* cost and leaves the rest, up to a unit of money; the whole releases     *)
(* everything, exactly.                                                    *)
Divest(a) ==
    /\ OnlyChanges(a)
    /\ cash' >= cash
    /\ size'[a] \in 0..(size[a] - 1)
    /\ Released \in 0..held[a]
    /\ Abs(Released * size[a] - held[a] * (size[a] - size'[a])) <= size[a]
    /\ Abs((held[a] - held'[a]) - Released) <= 1
    /\ size'[a] = 0 => held'[a] = 0 /\ Released = held[a]

Next == \E a \in Accounts : Invest(a) \/ Divest(a)

Spec == Init /\ [][Next]_ledgerVars
=============================================================================
