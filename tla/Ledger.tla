------------------------------- MODULE Ledger -------------------------------
(***************************************************************************)
(* What the order API promises its callers, with every operation atomic:   *)
(* an order is created once per order_no, payments accumulate until they   *)
(* cover the net amount, the payment that covers it also settles the       *)
(* order (stock drawn by the recipes, accounting job queued, exactly       *)
(* once), and a void order has given its stock back.  OrdersSerial shows   *)
(* that the handlers of Orders implement it for clients that take turns.   *)
(***************************************************************************)
EXTENDS Integers

CONSTANTS OrderIds, Keys, NoKey, Carts, Amounts,
          NoStock,      \* nothing drawn
          StockOf(_, _) \* what some items draw from stock by some recipes

VARIABLES ledger,       \* [OrderIds -> entry]
          recipes       \* the recipes table

Absent == [status |-> "absent", key |-> NoKey, items |-> <<>>, net |-> 0,
           received |-> 0, used |-> NoStock, jobs |-> 0]

Init == ledger = [o \in OrderIds |-> Absent]

\* An order is opened for a cart, unless its order_no already has one.
Create(o, key, cart) ==
    /\ ledger[o].status = "absent"
    /\ key # NoKey => \A p \in OrderIds : ledger[p].key # key
    /\ ledger' = [ledger EXCEPT ![o] =
           [Absent EXCEPT !.status = "pending", !.key = key,
                          !.items = cart.items, !.net = cart.net]]
    /\ UNCHANGED recipes

\* A payment towards an order that is not covered yet; the one that covers it settles it.
Pay(o, amount) ==
    /\ ledger[o].status = "pending"
    /\ ledger[o].received < ledger[o].net
    /\ LET entry == ledger[o]
           total == entry.received + amount
       IN  ledger' = [ledger EXCEPT ![o] =
               IF total < entry.net
               THEN [entry EXCEPT !.received = total]
               ELSE [entry EXCEPT !.received = total, !.status = "paid",
                                  !.used = StockOf(recipes, entry.items), !.jobs = 1]]
    /\ UNCHANGED recipes

\* Whatever a void order had drawn is back in stock.
Void(o) ==
    /\ ledger[o].status \in {"pending", "paid"}
    /\ ledger' = [ledger EXCEPT ![o].status = "void", ![o].used = NoStock]
    /\ UNCHANGED recipes

\* The recipes are edited before the first order is opened.
EditRecipes ==
    /\ \A o \in OrderIds : ledger[o].status = "absent"
    /\ UNCHANGED ledger

Next ==
    \/ \E o \in OrderIds :
          \/ \E key \in Keys \cup {NoKey}, cart \in Carts : Create(o, key, cart)
          \/ \E amount \in Amounts : Pay(o, amount)
          \/ Void(o)
    \/ EditRecipes

Spec == Init /\ [][Next]_<<ledger, recipes>>
=============================================================================
