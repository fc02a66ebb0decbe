---------------------------- MODULE OrdersSerial ----------------------------
(***************************************************************************)
(* The order handlers used as the till uses them: what holds of orders on  *)
(* which clients take turns (Serial), and what the handlers implement on   *)
(* orders whose handlers do not die and while which exist the recipes stay *)
(* as they are (Calm).  Requests on different orders interleave freely,    *)
(* and orders outside Calm go on around those in it.                       *)
(***************************************************************************)
EXTENDS Orders, SequencesExt

NoStock == [i \in Ingredients |-> 0]

\* What the rows of the recipes table make the items draw, as deductStock() computes it.
StockOf(rows, items) ==
    [i \in Ingredients |->
        FoldLeft(LAMBDA sum, item :
                    sum + MapThenSumSet(LAMBDA row : row.usage * item.qty,
                              {row \in rows : /\ row.product = item.product
                                                 /\ row.ingredient = i}),
                 0, items)]

\* What o draws by the recipes as they are now.
Drawn(o) == StockOf(recipes, orders[o].items)

\* A payment that covers o has been saved and its handler is still settling it.
Settling(o) ==
    \E r \in Requests : /\ requests[r].op = "pay"
                        /\ requests[r].order = o
                        /\ requests[r].pc \in {"mark", "stock"}

\* A void of o is giving stock back and has not marked the order yet.
Reversing(o) ==
    \E r \in Requests : /\ requests[r].op = "void"
                        /\ requests[r].order = o
                        /\ requests[r].pc = "stock"

\* The refinement mapping: an order changes hands in the ledger when its payment
\* is saved and when it is marked void; what its handler does before or after
\* that is hidden.
LedgerEntry(o) ==
    [status |-> IF Settling(o) THEN "paid" ELSE orders[o].status,
     key |-> orders[o].key, items |-> orders[o].items, net |-> orders[o].net,
     received |-> orders[o].received,
     used |-> IF Settling(o) \/ (Reversing(o) /\ orders[o].status = "paid")
              THEN Drawn(o) ELSE used[o],
     jobs |-> IF Settling(o) THEN jobs[o] + 1 ELSE jobs[o]]

L == INSTANCE Ledger WITH ledger <- [o \in Calm |-> LedgerEntry(o)], OrderIds <- Calm

\* On calm orders the handlers implement the atomic operations of the ledger,
\* whatever requests on other orders do, overlap or die meanwhile (addPayment,
\* voidOrder and create against what their error messages and tests promise).
ImplementsLedger == L!Spec

\* Between requests the tables agree on calm orders: a pending order has drawn no stock and is
\* not covered, a paid order has drawn exactly what its recipes say and has one
\* accounting job, a void order has drawn nothing (addPayment and voidOrder as a whole).
QuiescentConsistency ==
    \A o \in Calm : Quiescent(o) =>
        CASE orders[o].status = "paid" ->
                /\ used[o] = Drawn(o)
                /\ jobs[o] = 1
          [] orders[o].status = "pending" ->
                /\ used[o] = NoStock
                /\ jobs[o] = 0
                /\ orders[o].received < orders[o].net
          [] OTHER -> used[o] = NoStock

\* Between requests the customer display, when it shows an order that is not
\* void, shows the order's current status (publishCfdSnapshot re-reads the row).
DisplayIsCurrent ==
    \A o \in Calm :
        (Quiescent(o) /\ display.order = o /\ orders[o].status # "void")
            => display.status = orders[o].status

\* While clients take turns, however often handlers die half-way and are retried, and
\* whatever recipe rows are added meanwhile, the stock of an order is drawn at most once and at most
\* one accounting job is queued for it (addPayment marks the order PAID before it
\* touches stock or the queue).
SettledAtMostOnce ==
    \A o \in OrderIds :
        /\ \A i \in Ingredients : used[o][i] <= Drawn(o)[i]
        /\ jobs[o] <= 1

\* While clients take turns, a void gives back what was never drawn only for a reason: each handler that died
\* half-way, and an edit of the recipes between payment and void, put at most one
\* order's worth too much into stock (restoreStock trusts the status, not what
\* deductStock did).
ReturnsAreExplained ==
    LET reasons == aborts + (IF recipes = InitialRecipes THEN 0 ELSE 1)
    IN  \A o \in OrderIds : \A i \in Ingredients : used[o][i] >= -(reasons * Drawn(o)[i])
=============================================================================
