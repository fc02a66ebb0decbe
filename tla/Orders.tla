------------------------------- MODULE Orders -------------------------------
(***************************************************************************)
(* The order life cycle of the POS backend: OrdersService (create,         *)
(* addPayment, voidOrder, findOne, publishCfdSnapshot) with the            *)
(* InventoryService operations it calls (deductStock, restoreStock) and    *)
(* the rows an administrator adds with createRecipe.                       *)
(*                                                                         *)
(* Node runs the handlers on one thread, but every `await` lets another    *)
(* request run.  None of addPayment and voidOrder is a database            *)
(* transaction, so each handler is split here at its awaits: one action is *)
(* one statement sent to Postgres or Redis together with the synchronous   *)
(* code up to the next await.  What a handler keeps in its local variables *)
(* between awaits (the status and totals it read) is kept in the record of *)
(* its request.                                                            *)
(*                                                                         *)
(* Amounts are integers in satang (1/100 baht).  The column stock_qty is   *)
(* only ever changed by relative updates ("stock_qty - x"), which commute, *)
(* so it is represented by what each order has drawn from it: the column   *)
(* is the opening stock minus the sum of `used` over all orders.           *)
(***************************************************************************)
EXTENDS Integers, Sequences, FiniteSets

CONSTANTS
    Requests,           \* the HTTP requests the API receives
    OrderIds,           \* primary keys of the orders table
    Keys,               \* client-generated order_no values (idempotency keys)
    NoKey,              \* a request without order_no: the server generates one
    NoOrder,            \* a request that has no order (yet)
    Carts,              \* the carts a create request may carry, priced
    Amounts,            \* the values amount_received may have
    Products,
    Ingredients,
    InitialRecipes,     \* rows of the recipes table at the start
    NewRecipes,         \* rows POST /inventory/recipes may add
    Serial,             \* orders on which clients take turns: no overlapping requests
    Calm,               \* of these, orders whose handlers do not die, and while which
                        \* exist nobody edits the recipes
    MaxAborts           \* bound: how many requests may die half-way

\* A row of the recipes table: one unit of the product uses `usage` of the ingredient.
Recipe == [product : Products, ingredient : Ingredients, usage : Nat]

\* A cart as create() has resolved it: its lines and the net amount that
\* OrderTotals computes for them.  Nothing keeps net above zero: a discount of
\* 100 % and an empty list of items are both accepted by CreateOrderDto.
Item == [product : Products, qty : Nat]
Cart == [items : Seq(Item), net : Int]

ASSUME OrdersAssumption ==
    /\ NoKey \notin Keys
    /\ NoOrder \notin OrderIds
    /\ Carts \subseteq Cart
    /\ Amounts \subseteq Int
    /\ InitialRecipes \subseteq Recipe
    /\ IsFiniteSet(InitialRecipes)
    /\ NewRecipes \subseteq Recipe
    /\ Serial \subseteq OrderIds
    /\ Calm \subseteq Serial
    /\ MaxAborts \in Nat

VARIABLES
    orders,   \* the orders table, with the sum of the order's payments
    used,     \* per order and ingredient: stock drawn on behalf of the order
    recipes,  \* the recipes table
    jobs,     \* per order: order-sync jobs waiting on the Redis ready list
    display,  \* latestSnapshots of CfdGatewayService (one branch)
    requests, \* local variables and program counter of each request
    aborts    \* how many requests have died half-way

ordersVars == <<orders, used, recipes, jobs, display, requests, aborts>>

-----------------------------------------------------------------------------
(* Rows and requests.                                                      *)

\* PaymentStatus, and "absent" for a primary key that has no row.
Status == {"absent", "pending", "paid", "void"}

NoRow == [status |-> "absent", key |-> NoKey, items |-> <<>>, net |-> 0,
          received |-> 0, synced |-> FALSE]

NewRow_NoStatus(key, cart) ==
    [status |-> "new", key |-> key, items |-> cart.items, net |-> cart.net,
     received |-> 0, synced |-> FALSE]

\* The row create() inserts: payment_status and sync_status_acc by default.
NewRow(key, cart) ==
    [status |-> "pending", key |-> key, items |-> cart.items, net |-> cart.net,
     received |-> 0, synced |-> FALSE]

\* Where a handler stands: the await it will return from next.
Pc == {"idle", "lookup", "insert", "payRead", "save", "mark", "voidRead",
       "stock", "reload", "view", "publish", "done"}

\* What the caller is told: an HTTP error, or the order.
Reply == {"none", "order", "notFound", "alreadyPaid", "voided", "synced", "error"}

IdleRequest ==
    [pc |-> "idle", op |-> "none", order |-> NoOrder, key |-> NoKey,
     cart |-> [items |-> <<>>, net |-> 0], amount |-> 0, seen |-> 0,
     item |-> 0, rows |-> {}, view |-> "absent", reply |-> "none"]

Active(r) == requests[r].pc \notin {"idle", "done"}

\* No request is being handled for order o.
Quiescent(o) == \A r \in Requests : Active(r) => requests[r].order # o

\* The payments recorded for o cover its net amount.
Covered(o) == orders[o].received >= orders[o].net

RowsOf(product) == {row \in recipes : row.product = product}

\* The local variables of the handler of r become q; no other handler runs.
Becomes(r, q) == requests' = [requests EXCEPT ![r] = q]

\* The handler of r goes on to pc, with its other local variables unchanged.
Goto(r, pc) == Becomes(r, [requests[r] EXCEPT !.pc = pc])

\* The handler of r returns: it answers, or throws an HTTP exception.
Answer(r, reply) == Becomes(r, [requests[r] EXCEPT !.pc = "done", !.reply = reply])

-----------------------------------------------------------------------------
Init ==
    /\ orders = [o \in OrderIds |-> NoRow]
    /\ used = [o \in OrderIds |-> [i \in Ingredients |-> 0]]
    /\ recipes = InitialRecipes
    /\ jobs = [o \in OrderIds |-> 0]
    /\ display = [order |-> NoOrder, status |-> "absent"]
    /\ requests = [r \in Requests |-> IdleRequest]
    /\ aborts = 0

(* Requests arrive.  Serial and Calm are assumptions on the environment of *)
(* some orders, not a lock of the server: the server has none.             *)

StartCreate(r) ==
    /\ requests[r].pc = "idle"
    /\ \E key \in Keys \cup {NoKey}, cart \in Carts :
          Becomes(r, [IdleRequest EXCEPT !.pc = "lookup", !.op = "create",
                                         !.key = key, !.cart = cart])
    /\ UNCHANGED <<orders, used, recipes, jobs, display, aborts>>

\* The id in the URL of a request: an order that exists, or no order at all.
Target(o) ==
    \/ o = NoOrder
    \/ /\ o \in OrderIds
       /\ orders[o].status # "absent"
       /\ o \in Serial => Quiescent(o)

StartPay(r) ==
    /\ requests[r].pc = "idle"
    /\ \E o \in OrderIds \cup {NoOrder}, amount \in Amounts :
          /\ Target(o)
          /\ Becomes(r, [IdleRequest EXCEPT !.pc = "payRead", !.op = "pay",
                                            !.order = o, !.amount = amount])
    /\ UNCHANGED <<orders, used, recipes, jobs, display, aborts>>

StartVoid(r) ==
    /\ requests[r].pc = "idle"
    /\ \E o \in OrderIds \cup {NoOrder} :
          /\ Target(o)
          /\ Becomes(r, [IdleRequest EXCEPT !.pc = "voidRead", !.op = "void",
                                            !.order = o])
    /\ UNCHANGED <<orders, used, recipes, jobs, display, aborts>>

-----------------------------------------------------------------------------
(* create()                                                                *)

\* The order_no of the request already has a row: that order is the answer.
CreateFound(r) ==
    /\ requests[r].pc = "lookup"
    /\ requests[r].key # NoKey
    /\ \E o \in OrderIds :
          /\ orders[o].status # "absent"
          /\ orders[o].key = requests[r].key
          /\ Becomes(r, [requests[r] EXCEPT !.pc = "done", !.order = o,
                                          !.reply = "order"])
    /\ UNCHANGED <<orders, used, recipes, jobs, display, aborts>>

\* No row has the order_no, and every product of the cart was found and priced.
CreateNotFound(r) ==
    /\ requests[r].pc = "lookup"
    /\ \A o \in OrderIds :
          orders[o].status # "absent" =>
              requests[r].key = NoKey \/ orders[o].key # requests[r].key
    /\ Goto(r, "insert")
    /\ UNCHANGED <<orders, used, recipes, jobs, display, aborts>>

KeyIsFree_NotUnique(r) == TRUE

\* order_no is UNIQUE: whether a row with the key of r may be inserted.
KeyIsFree(r) ==
    \/ requests[r].key = NoKey
    \/ \A o \in OrderIds :
          orders[o].status # "absent" => orders[o].key # requests[r].key

\* The transaction that inserts the order and its items.
CreateInsert(r) ==
    /\ requests[r].pc = "insert"
    /\ KeyIsFree(r)
    /\ \E o \in OrderIds :
          /\ orders[o].status = "absent"
          /\ orders' = [orders EXCEPT ![o] = NewRow(requests[r].key, requests[r].cart)]
          /\ Becomes(r, [requests[r] EXCEPT !.pc = "view", !.order = o,
                                          !.reply = "order"])
    /\ UNCHANGED <<used, recipes, jobs, display, aborts>>

\* A concurrent create won the race: the insert violates the constraint (500).
CreateConflict(r) ==
    /\ requests[r].pc = "insert"
    /\ ~KeyIsFree(r)
    /\ Answer(r, "error")
    /\ UNCHANGED <<orders, used, recipes, jobs, display, aborts>>

-----------------------------------------------------------------------------
(* addPayment()                                                            *)

PayRefusal_NoPaidCheck(o) ==
    CASE o = NoOrder -> "notFound"
      [] o # NoOrder /\ orders[o].status = "void" -> "voided"
      [] OTHER -> "none"

PayRefusal_NoVoidCheck(o) ==
    CASE o = NoOrder -> "notFound"
      [] o # NoOrder /\ (orders[o].status = "paid" \/ Covered(o)) -> "alreadyPaid"
      [] OTHER -> "none"

\* Why a payment for the order just read is refused, "none" when it is not.
PayRefusal(o) ==
    CASE o = NoOrder -> "notFound"
      [] o # NoOrder /\ orders[o].status = "void" -> "voided"
      [] o # NoOrder /\ orders[o].status = "paid" -> "alreadyPaid"
      [] o # NoOrder /\ orders[o].status = "pending" /\ Covered(o) -> "alreadyPaid"
      [] OTHER -> "none"

\* findOne(), and the checks on the order it returned.
PayRead(r) ==
    /\ requests[r].pc = "payRead"
    /\ LET o == requests[r].order
       IN  \/ /\ PayRefusal(o) # "none"
              /\ Answer(r, PayRefusal(o))
           \/ /\ PayRefusal(o) = "none"
              /\ Becomes(r, [requests[r] EXCEPT !.pc = "save",
                                              !.seen = orders[o].received])
    /\ UNCHANGED <<orders, used, recipes, jobs, display, aborts>>

Settles_WithTolerance(r) ==
    requests[r].seen + requests[r].amount + 1 >= orders[requests[r].order].net

Settles_Exceeds(r) ==
    requests[r].seen + requests[r].amount > orders[requests[r].order].net

Settles_ThisPaymentOnly(r) ==
    requests[r].amount >= orders[requests[r].order].net

\* newTotalPaid >= net_amount: decided from the payments read before this one
\* was saved, not from those in the table now.
Settles(r) ==
    requests[r].seen + requests[r].amount >= orders[requests[r].order].net

\* The payment row is inserted.
PaySave(r) ==
    /\ requests[r].pc = "save"
    /\ orders' = [orders EXCEPT ![requests[r].order].received = @ + requests[r].amount]
    /\ Goto(r, IF Settles(r) THEN "mark" ELSE "reload")
    /\ UNCHANGED <<used, recipes, jobs, display, aborts>>

\* update(order.id, PAID), unconditionally.
PayMark(r) ==
    /\ requests[r].pc = "mark"
    /\ orders' = [orders EXCEPT ![requests[r].order].status = "paid"]
    /\ Goto(r, "stock")
    /\ UNCHANGED <<used, recipes, jobs, display, aborts>>

\* deductStock() has returned for every item: the order-sync job is pushed.
StockDone(r) ==
    /\ requests[r].pc = "stock"
    /\ requests[r].rows = {}
    /\ requests[r].item = Len(orders[requests[r].order].items)

PayEnqueue(r) ==
    /\ StockDone(r)
    /\ requests[r].op = "pay"
    /\ jobs' = [jobs EXCEPT ![requests[r].order] = @ + 1]
    /\ Goto(r, "reload")
    /\ UNCHANGED <<orders, used, recipes, display, aborts>>

-----------------------------------------------------------------------------
(* deductStock() and restoreStock(), called for the items one after the    *)
(* other: read the recipe rows of the product, then one UPDATE per row.    *)

FindRecipes(r) ==
    /\ requests[r].pc = "stock"
    /\ requests[r].rows = {}
    /\ LET items == orders[requests[r].order].items
           next == requests[r].item + 1
       IN  /\ next \in 1 .. Len(items)
           /\ Becomes(r, [requests[r] EXCEPT !.item = next,
                                           !.rows = RowsOf(items[next].product)])
    /\ UNCHANGED <<orders, used, recipes, jobs, display, aborts>>

StockChange_PerLine(r, row) ==
    IF requests[r].op = "pay" THEN row.usage ELSE -row.usage

\* How the UPDATE of the handler of r for one recipe row changes stock usage.
StockChange(r, row) ==
    LET qty == orders[requests[r].order].items[requests[r].item].qty
    IN  IF requests[r].op = "pay" THEN row.usage * qty ELSE -(row.usage * qty)

MoveStock(r) ==
    /\ requests[r].pc = "stock"
    /\ \E row \in requests[r].rows :
          /\ used' = [used EXCEPT ![requests[r].order][row.ingredient] =
                                      @ + StockChange(r, row)]
          /\ Becomes(r, [requests[r] EXCEPT !.rows = @ \ {row}])
    /\ UNCHANGED <<orders, recipes, jobs, display, aborts>>

-----------------------------------------------------------------------------
(* voidOrder()                                                             *)

\* Why a void of the order just read is refused, "none" when it is not.
VoidRefusal(o) ==
    CASE o = NoOrder -> "notFound"
      [] o # NoOrder /\ orders[o].status = "void" -> "voided"
      [] o # NoOrder /\ orders[o].status # "void" /\ orders[o].synced -> "synced"
      [] OTHER -> "none"

VoidRead_RestoresUnpaid(r) ==
    /\ requests[r].pc = "voidRead"
    /\ IF VoidRefusal(requests[r].order) # "none"
       THEN Answer(r, VoidRefusal(requests[r].order))
       ELSE Goto(r, "stock")
    /\ UNCHANGED <<orders, used, recipes, jobs, display, aborts>>

\* findOne(), and the checks on the order it returned.  Stock is restored only
\* if that order was PAID: otherwise no item is left to visit.
VoidRead(r) ==
    /\ requests[r].pc = "voidRead"
    /\ LET o == requests[r].order
       IN  \/ /\ VoidRefusal(o) # "none"
              /\ Answer(r, VoidRefusal(o))
           \/ /\ VoidRefusal(o) = "none"
              /\ Becomes(r, [requests[r] EXCEPT !.pc = "stock",
                     !.item = IF orders[o].status = "paid" THEN 0
                              ELSE Len(orders[o].items)])
    /\ UNCHANGED <<orders, used, recipes, jobs, display, aborts>>

\* update(id, VOID), unconditionally.
VoidMark(r) ==
    /\ StockDone(r)
    /\ requests[r].op = "void"
    /\ orders' = [orders EXCEPT ![requests[r].order].status = "void"]
    /\ Goto(r, "reload")
    /\ UNCHANGED <<used, recipes, jobs, display, aborts>>

-----------------------------------------------------------------------------
(* The end of the handlers.                                                *)

Reload_WithoutPublish(r) ==
    /\ requests[r].pc = "reload"
    /\ Answer(r, "order")
    /\ UNCHANGED <<orders, used, recipes, jobs, display, aborts>>

\* findOne() for the response; a void answers with it, a payment still has to
\* publish the order to the customer display.
Reload(r) ==
    /\ requests[r].pc = "reload"
    /\ Becomes(r, [requests[r] EXCEPT !.reply = "order",
                       !.pc = IF requests[r].op = "pay" THEN "view" ELSE "done"])
    /\ UNCHANGED <<orders, used, recipes, jobs, display, aborts>>

\* publishCfdSnapshot() reads the order again ...
PublishRead(r) ==
    /\ requests[r].pc = "view"
    /\ Becomes(r, [requests[r] EXCEPT !.pc = "publish",
                                      !.view = orders[requests[r].order].status])
    /\ UNCHANGED <<orders, used, recipes, jobs, display, aborts>>

\* ... and, when the row has arrived, makes it the snapshot of the branch.
Publish(r) ==
    /\ requests[r].pc = "publish"
    /\ display' = [order |-> requests[r].order, status |-> requests[r].view]
    /\ Goto(r, "done")
    /\ UNCHANGED <<orders, used, recipes, jobs, aborts>>

-----------------------------------------------------------------------------
(* The environment.                                                        *)

\* An await of the handler rejects (Postgres or Redis is unreachable, a product
\* is missing) or the process dies: what was written stays, nothing follows.
Abort(r) ==
    /\ Active(r)
    /\ requests[r].order \notin Calm
    /\ aborts < MaxAborts
    /\ aborts' = aborts + 1
    /\ Answer(r, "error")
    /\ UNCHANGED <<orders, used, recipes, jobs, display>>

\* InventoryService.createRecipe().
CreateRecipe ==
    /\ \A o \in Calm : orders[o].status = "absent"
    /\ \E row \in NewRecipes \ recipes : recipes' = recipes \cup {row}
    /\ UNCHANGED <<orders, used, jobs, display, requests, aborts>>

Arrive(r) == StartCreate(r) \/ StartPay(r) \/ StartVoid(r)

\* One step of the handler of r.
Handle(r) ==
    \/ CreateFound(r) \/ CreateNotFound(r) \/ CreateInsert(r) \/ CreateConflict(r)
    \/ PayRead(r) \/ PaySave(r) \/ PayMark(r) \/ PayEnqueue(r)
    \/ FindRecipes(r) \/ MoveStock(r)
    \/ VoidRead(r) \/ VoidMark(r)
    \/ Reload(r) \/ PublishRead(r) \/ Publish(r)

Next ==
    \/ \E r \in Requests : Arrive(r) \/ Handle(r) \/ Abort(r)
    \/ CreateRecipe

Spec == Init /\ [][Next]_ordersVars

\* Every statement sent to Postgres or Redis is answered, so a handler that has
\* not thrown goes on; nothing obliges a client to send a request.
FairSpec == Spec /\ \A r \in Requests : WF_ordersVars(Handle(r))

-----------------------------------------------------------------------------
(* Properties.                                                             *)

Row == [status : Status, key : Keys \cup {NoKey}, items : Seq(Item),
        net : Int, received : Int, synced : BOOLEAN]

Request == [pc : Pc, op : {"none", "create", "pay", "void"}, order : OrderIds \cup {NoOrder},
            key : Keys \cup {NoKey}, cart : Cart, amount : Int, seen : Int, item : Nat,
            rows : SUBSET Recipe, view : Status, reply : Reply]

\* Every table and every local variable of a handler has its type.
TypeOK ==
    /\ orders \in [OrderIds -> Row]
    /\ used \in [OrderIds -> [Ingredients -> Int]]
    /\ recipes \subseteq Recipe
    /\ jobs \in [OrderIds -> Nat]
    /\ display \in [order : OrderIds \cup {NoOrder}, status : Status]
    /\ requests \in [Requests -> Request]
    /\ aborts \in 0 .. MaxAborts

\* However two creates with the same order_no interleave, they never end up with
\* two orders: every answer names the same one (CreateOrderDto calls order_no
\* the idempotency key of offline sync; create() looks it up before it inserts).
CreateIsIdempotent ==
    \A r, s \in Requests :
        (/\ requests[r].op = "create" /\ requests[r].reply = "order"
         /\ requests[s].op = "create" /\ requests[s].reply = "order"
         /\ requests[r].key = requests[s].key
         /\ requests[r].key # NoKey)
            => requests[r].order = requests[s].order

\* What only a settled order may cause: status PAID, a movement of stock in either
\* direction, an accounting job.
Effect(o) ==
    \/ orders[o].status = "paid"
    \/ jobs[o] > 0
    \/ \E i \in Ingredients : used[o][i] # 0

\* Nothing that a settled order causes happens before its payments in the table
\* cover its net amount, in any interleaving of payments and voids and whatever
\* handler dies half-way (addPayment decides from totals that may be stale).
EffectsOnlyWhenCovered == \A o \in OrderIds : Effect(o) => Covered(o)

\* While clients take turns, no payment is recorded for an order that is paid or void:
\* addPayment throws 'Order is already fully paid' / 'Cannot pay for a voided order'.
NoPaymentAfterSettlement ==
    [][\A o \in OrderIds : orders[o].status \in {"paid", "void"}
                              => orders'[o].received = orders[o].received]_ordersVars

\* A void order stays void while clients take turns: voidOrder and addPayment both
\* refuse it.
VoidIsFinal ==
    [][\A o \in OrderIds : orders[o].status = "void" => orders'[o].status = "void"]_ordersVars

\* A payment refused with 'Order is already fully paid' was for an order that is
\* not left pending, if it is calm (addPayment, remaining <= 0).
RejectionIsTruthful ==
    \A r \in Requests :
        (/\ requests[r].reply = "alreadyPaid"
         /\ requests[r].order \in Calm
         /\ Quiescent(requests[r].order))
            => orders[requests[r].order].status # "pending"

\* The handler of a payment of o goes on, or has answered, that decided whether the order
\* is settled on all that is recorded for it (and has neither died nor been refused).
DecidedOnAll(o) ==
    \E r \in Requests :
        /\ requests[r].op = "pay" /\ requests[r].order = o
        /\ requests[r].pc \notin {"payRead", "save"}
        /\ requests[r].reply \in {"none", "order"}
        /\ requests[r].seen + requests[r].amount = orders[o].received

\* An order whose payments cover it ends up PAID (or VOID), however requests overlap, as
\* long as one of its payments knew of all the others and its handler does not die.  Two
\* overlapping halves that each know of one only leave it pending (newTotalPaid of
\* addPayment is computed from what was read before the payment is saved).
CoveredOrderSettles ==
    \A o \in OrderIds :
        (orders[o].status = "pending" /\ Covered(o))
            ~> (orders[o].status \in {"paid", "void"} \/ ~DecidedOnAll(o))
=============================================================================
