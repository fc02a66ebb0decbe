---------------------------- MODULE OrdersProofs ----------------------------
(***************************************************************************)
(* Theorems about Orders and OrdersSerial for any number of requests,      *)
(* orders, carts and recipes, checked by TLAPS.  In this order:            *)
(*                                                                         *)
(*   TypeInv      the types, with what a handler may rely on about the     *)
(*                order it works on (TargetExists);                        *)
(*   CoverInv     what a stale total is still worth;                       *)
(*   KeyInv       no two rows share an order_no;                           *)
(*   SerialInv    where clients take turns, what a handler read still is;  *)
(*   CalmInv      ... and what it began it finishes;                       *)
(*   DisplayInv   the handler that has still to publish an order;          *)
(*   StockInv     what each handler has drawn so far, as a sum over the    *)
(*                lines and recipe rows it has visited;                    *)
(*   LedgerStep   and hence every step of the handlers is a step of        *)
(*                Ledger or hidden from it.                                *)
(***************************************************************************)
EXTENDS OrdersSerial, FoldTheorems, SequenceTheorems, TLAPS

USE OrdersAssumption

\* What the handler of r may rely on about the order it works on.
TargetExists(r) ==
    /\ requests[r].order # NoOrder => orders[requests[r].order].status # "absent"
    /\ requests[r].pc \in {"save", "mark", "stock", "reload", "view", "publish"}
          => requests[r].order # NoOrder
    /\ requests[r].pc \in {"payRead", "save", "mark"} => requests[r].op = "pay"
    /\ requests[r].pc = "voidRead" => requests[r].op = "void"
    /\ requests[r].pc \notin {"stock", "done"} => requests[r].rows = {}
    /\ requests[r].pc = "stock" /\ requests[r].rows # {}
          => requests[r].item \in 1 .. Len(orders[requests[r].order].items)

TypeInv == TypeOK /\ \A r \in Requests : TargetExists(r)

\* A step never removes an order, and never changes its items, price or order_no.
OrdersStay ==
    \A o \in OrderIds : orders[o].status # "absent" =>
        /\ orders'[o].status # "absent"
        /\ orders'[o].items = orders[o].items
        /\ orders'[o].net = orders[o].net
        /\ orders'[o].key = orders[o].key

\* The local variables of a request that has not arrived have their types.
LEMMA IdleTyped == IdleRequest \in Request
  BY DEF IdleRequest, Request, Pc, Status, Reply, Cart

\* The type invariant holds initially.
LEMMA InitTypeInv == Init => TypeInv
<1> SUFFICES ASSUME Init PROVE TypeInv
  OBVIOUS
<1>1. NoRow \in Row
  BY DEF NoRow, Row, Status
<1>2. TypeOK
  BY <1>1, IdleTyped DEF Init, TypeOK, Status
<1>3. \A r \in Requests : TargetExists(r)
  BY DEF Init, TargetExists, IdleRequest
<1> QED BY <1>2, <1>3 DEF TypeInv

-----------------------------------------------------------------------------
(* One step changes the local variables of one handler, to a record of the *)
(* right type.                                                             *)

\* New local variables for the handler of r (Becomes).
LEMMA BecomesTyped ==
    ASSUME requests \in [Requests -> Request],
           NEW r \in Requests, NEW q \in Request, Becomes(r, q)
    PROVE  /\ requests' \in [Requests -> Request]
           /\ requests'[r] = q
           /\ \A s \in Requests : s # r => requests'[s] = requests[s]
  BY DEF Becomes

\* A new program counter only (Goto).
LEMMA GotoTyped ==
    ASSUME requests \in [Requests -> Request],
           NEW r \in Requests, NEW pc \in Pc, Goto(r, pc)
    PROVE  /\ requests' \in [Requests -> Request]
           /\ requests'[r] = [requests[r] EXCEPT !.pc = pc]
           /\ \A s \in Requests : s # r => requests'[s] = requests[s]
<1>1. [requests[r] EXCEPT !.pc = pc] \in Request
  BY DEF Request
<1> QED BY <1>1, BecomesTyped DEF Goto

\* The handler returns (Answer).
LEMMA AnswerTyped ==
    ASSUME requests \in [Requests -> Request],
           NEW r \in Requests, NEW reply \in Reply, Answer(r, reply)
    PROVE  /\ requests' \in [Requests -> Request]
           /\ requests'[r] = [requests[r] EXCEPT !.pc = "done", !.reply = reply]
           /\ \A s \in Requests : s # r => requests'[s] = requests[s]
<1>1. [requests[r] EXCEPT !.pc = "done", !.reply = reply] \in Request
  BY DEF Request, Pc
<1> QED BY <1>1, BecomesTyped DEF Answer

\* The other handlers do not notice a step of r, as long as orders stay.
LEMMA OthersUndisturbed ==
    ASSUME TypeInv, OrdersStay, NEW r \in Requests,
           \A s \in Requests : s # r => requests'[s] = requests[s],
           TargetExists(r)'
    PROVE  \A s \in Requests : TargetExists(s)'
<1> SUFFICES ASSUME NEW s \in Requests, s # r PROVE TargetExists(s)'
  OBVIOUS
<1>1. requests'[s] = requests[s] /\ requests[s] \in Request
  BY DEF TypeInv, TypeOK
<1>2. TargetExists(s)
  BY DEF TypeInv
<1>3. requests[s].order \in OrderIds \cup {NoOrder}
  BY <1>1 DEF Request
<1> QED BY <1>1, <1>2, <1>3 DEF TargetExists, OrdersStay

\* The row that create() inserts is one of the orders table.
LEMMA NewRowTyped ==
    ASSUME NEW key \in Keys \cup {NoKey}, NEW cart \in Cart
    PROVE  NewRow(key, cart) \in Row
  BY DEF NewRow, Row, Status, Cart

\* An UPDATE of the status of an order.
LEMMA StatusUpdated ==
    ASSUME orders \in [OrderIds -> Row],
           NEW o \in OrderIds, NEW status \in Status \ {"absent"},
           orders' = [orders EXCEPT ![o].status = status]
    PROVE  orders' \in [OrderIds -> Row] /\ OrdersStay
<1> DEFINE row == [orders[o] EXCEPT !.status = status]
<1>1. orders[o] \in Row
  OBVIOUS
<1>2. row \in Row
  BY <1>1 DEF Row
<1>3. row.status # "absent" /\ row.items = orders[o].items
      /\ row.net = orders[o].net /\ row.key = orders[o].key
  BY <1>1 DEF Row
<1>4. orders' = [orders EXCEPT ![o] = row]
  OBVIOUS
<1> HIDE DEF row
<1> QED BY <1>2, <1>3, <1>4 DEF OrdersStay

\* The INSERT of a payment.
LEMMA ReceivedUpdated ==
    ASSUME orders \in [OrderIds -> Row],
           NEW o \in OrderIds, NEW amount \in Int,
           orders' = [orders EXCEPT ![o].received = @ + amount]
    PROVE  orders' \in [OrderIds -> Row] /\ OrdersStay
<1> DEFINE total == orders[o].received + amount
           row == [orders[o] EXCEPT !.received = total]
<1>1. orders[o] \in Row /\ total \in Int
  BY DEF Row
<1>2. row \in Row
  <2> HIDE DEF total
  <2> QED BY <1>1 DEF Row
<1>3. row.status = orders[o].status /\ row.items = orders[o].items
      /\ row.net = orders[o].net /\ row.key = orders[o].key
  BY <1>1 DEF Row
<1>4. orders' = [orders EXCEPT ![o] = row]
  OBVIOUS
<1> HIDE DEF row
<1> QED BY <1>2, <1>3, <1>4 DEF OrdersStay

\* A step that leaves the orders table alone keeps every order.
LEMMA SameOrdersStay == orders' = orders => OrdersStay
  BY DEF OrdersStay

-----------------------------------------------------------------------------
\* Every step keeps the types, and keeps every order with its items and order_no.
LEMMA NextTypeInv == TypeInv /\ [Next]_ordersVars => TypeInv' /\ OrdersStay
<1> SUFFICES ASSUME TypeInv, [Next]_ordersVars PROVE TypeInv' /\ OrdersStay
  OBVIOUS
<1> USE DEF TypeInv
<1>1. /\ requests \in [Requests -> Request]
      /\ orders \in [OrderIds -> Row]
  BY DEF TypeOK
<1>2. \A r \in Requests : requests[r] \in Request
  BY <1>1
<1>3. \A r \in Requests : TargetExists(r)
  OBVIOUS
<1>4. ASSUME NEW r \in Requests, StartCreate(r) PROVE TypeInv' /\ OrdersStay
  <2>1. PICK key \in Keys \cup {NoKey}, cart \in Carts :
          Becomes(r, [IdleRequest EXCEPT !.pc = "lookup", !.op = "create",
                                         !.key = key, !.cart = cart])
    BY <1>4 DEF StartCreate
  <2> DEFINE q == [IdleRequest EXCEPT !.pc = "lookup", !.op = "create",
                                      !.key = key, !.cart = cart]
  <2>2. q \in Request
    BY IdleTyped DEF Request, Pc
  <2>3. q.order = NoOrder /\ q.pc = "lookup" /\ q.op = "create" /\ q.rows = {}
    BY IdleTyped DEF IdleRequest
  <2> HIDE DEF q
  <2>4. /\ requests' \in [Requests -> Request]
        /\ requests'[r] = q
        /\ \A s \in Requests : s # r => requests'[s] = requests[s]
    BY <1>1, <2>1, <2>2, BecomesTyped DEF q
  <2>5. TypeOK'
    BY <1>4, <2>4 DEF StartCreate, TypeOK
  <2>6. TargetExists(r)'
    BY <1>4, <2>1, <2>3, <2>4 DEF StartCreate, TargetExists
  <2> QED BY <1>4, <2>4, <2>5, <2>6, OthersUndisturbed, SameOrdersStay DEF StartCreate
<1>5. ASSUME NEW r \in Requests, StartPay(r) PROVE TypeInv' /\ OrdersStay
  <2>1. PICK o \in OrderIds \cup {NoOrder}, amount \in Amounts :
          /\ Target(o)
          /\ Becomes(r, [IdleRequest EXCEPT !.pc = "payRead", !.op = "pay",
                                            !.order = o, !.amount = amount])
    BY <1>5 DEF StartPay
  <2> DEFINE q == [IdleRequest EXCEPT !.pc = "payRead", !.op = "pay",
                                      !.order = o, !.amount = amount]
  <2>2. q \in Request
    BY IdleTyped DEF Request, Pc
  <2>3. q.order = o /\ q.pc = "payRead" /\ q.op = "pay" /\ q.rows = {}
    BY IdleTyped DEF IdleRequest
  <2> HIDE DEF q
  <2>4. /\ requests' \in [Requests -> Request]
        /\ requests'[r] = q
        /\ \A s \in Requests : s # r => requests'[s] = requests[s]
    BY <1>1, <2>1, <2>2, BecomesTyped DEF q
  <2>5. TypeOK'
    BY <1>5, <2>4 DEF StartPay, TypeOK
  <2>6. TargetExists(r)'
    BY <1>5, <2>1, <2>3, <2>4 DEF StartPay, TargetExists, Target
  <2> QED BY <1>5, <2>4, <2>5, <2>6, OthersUndisturbed, SameOrdersStay DEF StartPay
<1>6. ASSUME NEW r \in Requests, StartVoid(r) PROVE TypeInv' /\ OrdersStay
  <2>1. PICK o \in OrderIds \cup {NoOrder} :
          /\ Target(o)
          /\ Becomes(r, [IdleRequest EXCEPT !.pc = "voidRead", !.op = "void",
                                            !.order = o])
    BY <1>6 DEF StartVoid
  <2> DEFINE q == [IdleRequest EXCEPT !.pc = "voidRead", !.op = "void",
                                      !.order = o]
  <2>2. q \in Request
    BY IdleTyped DEF Request, Pc
  <2>3. q.order = o /\ q.pc = "voidRead" /\ q.op = "void" /\ q.rows = {}
    BY IdleTyped DEF IdleRequest
  <2> HIDE DEF q
  <2>4. /\ requests' \in [Requests -> Request]
        /\ requests'[r] = q
        /\ \A s \in Requests : s # r => requests'[s] = requests[s]
    BY <1>1, <2>1, <2>2, BecomesTyped DEF q
  <2>5. TypeOK'
    BY <1>6, <2>4 DEF StartVoid, TypeOK
  <2>6. TargetExists(r)'
    BY <1>6, <2>1, <2>3, <2>4 DEF StartVoid, TargetExists, Target
  <2> QED BY <1>6, <2>4, <2>5, <2>6, OthersUndisturbed, SameOrdersStay DEF StartVoid
<1>7. ASSUME NEW r \in Requests, CreateFound(r) PROVE TypeInv' /\ OrdersStay
  <2>1. PICK o \in OrderIds :
          /\ orders[o].status # "absent"
          /\ Becomes(r, [requests[r] EXCEPT !.pc = "done", !.order = o, !.reply = "order"])
    BY <1>7 DEF CreateFound
  <2>2. [requests[r] EXCEPT !.pc = "done", !.order = o, !.reply = "order"] \in Request
    BY <1>2, <2>1 DEF Request, Pc, Reply
  <2>3. /\ requests' \in [Requests -> Request]
        /\ requests'[r] = [requests[r] EXCEPT !.pc = "done", !.order = o, !.reply = "order"]
        /\ \A s \in Requests : s # r => requests'[s] = requests[s]
    BY <1>1, <2>1, <2>2, BecomesTyped
  <2>4. TypeOK'
    BY <1>7, <2>3 DEF CreateFound, TypeOK
  <2>5. OrdersStay
    BY <1>7, SameOrdersStay DEF CreateFound
  <2>6. TargetExists(r)'
    BY <1>7, <1>3, <2>3, <2>1 DEF CreateFound, TargetExists, Request
  <2> QED BY <2>3, <2>4, <2>5, <2>6, OthersUndisturbed
<1>8. ASSUME NEW r \in Requests, CreateNotFound(r) PROVE TypeInv' /\ OrdersStay
  <2>1. /\ requests' \in [Requests -> Request]
        /\ requests'[r] = [requests[r] EXCEPT !.pc = "insert"]
        /\ \A s \in Requests : s # r => requests'[s] = requests[s]
    BY <1>1, <1>8, GotoTyped DEF CreateNotFound, Pc
  <2>2. TypeOK'
    BY <1>8, <2>1 DEF CreateNotFound, TypeOK
  <2>3. OrdersStay
    BY <1>8, SameOrdersStay DEF CreateNotFound
  <2>4. TargetExists(r)'
    BY <1>8, <1>3, <2>1 DEF CreateNotFound, TargetExists, Request
  <2> QED BY <2>1, <2>2, <2>3, <2>4, OthersUndisturbed
<1>9. ASSUME NEW r \in Requests, CreateInsert(r) PROVE TypeInv' /\ OrdersStay
  <2>1. PICK o \in OrderIds :
          /\ orders[o].status = "absent"
          /\ orders' = [orders EXCEPT ![o] = NewRow(requests[r].key, requests[r].cart)]
          /\ Becomes(r, [requests[r] EXCEPT !.pc = "view", !.order = o, !.reply = "order"])
    BY <1>9 DEF CreateInsert
  <2>2. [requests[r] EXCEPT !.pc = "view", !.order = o, !.reply = "order"] \in Request
    BY <1>2, <2>1 DEF Request, Pc, Reply
  <2>3. NewRow(requests[r].key, requests[r].cart) \in Row
    BY <1>2, NewRowTyped DEF Request
  <2>4. /\ requests' \in [Requests -> Request]
        /\ requests'[r] = [requests[r] EXCEPT !.pc = "view", !.order = o, !.reply = "order"]
        /\ \A s \in Requests : s # r => requests'[s] = requests[s]
    BY <1>1, <2>1, <2>2, BecomesTyped
  <2>5. TypeOK'
    BY <1>9, <2>4, <1>1, <2>1, <2>3 DEF CreateInsert, TypeOK
  <2>6. OrdersStay
    BY <1>1, <2>1 DEF OrdersStay
  <2>7. TargetExists(r)'
    <3>1. orders'[o].status = "pending"
      BY <1>1, <2>1 DEF NewRow
    <3>2. /\ requests'[r].order = o /\ requests'[r].pc = "view"
          /\ requests'[r].rows = requests[r].rows
      BY <1>2, <2>4 DEF Request
    <3>3. requests[r].rows = {} /\ o # NoOrder
      BY <1>3, <1>9 DEF CreateInsert, TargetExists
    <3> QED BY <3>1, <3>2, <3>3 DEF TargetExists
  <2> QED BY <2>4, <2>5, <2>6, <2>7, OthersUndisturbed
<1>10. ASSUME NEW r \in Requests, CreateConflict(r) PROVE TypeInv' /\ OrdersStay
  <2>1. /\ requests' \in [Requests -> Request]
        /\ requests'[r] = [requests[r] EXCEPT !.pc = "done", !.reply = "error"]
        /\ \A s \in Requests : s # r => requests'[s] = requests[s]
    BY <1>1, <1>10, AnswerTyped DEF CreateConflict, Reply
  <2>2. TypeOK'
    BY <1>10, <2>1 DEF CreateConflict, TypeOK
  <2>3. OrdersStay
    BY <1>10, SameOrdersStay DEF CreateConflict
  <2>4. TargetExists(r)'
    BY <1>10, <1>3, <2>1 DEF CreateConflict, TargetExists, Request
  <2> QED BY <2>1, <2>2, <2>3, <2>4, OthersUndisturbed
<1>11. ASSUME NEW r \in Requests, PayRead(r) PROVE TypeInv' /\ OrdersStay
  <2> DEFINE o == requests[r].order
  <2>1. OrdersStay
    BY <1>11, SameOrdersStay DEF PayRead
  <2>2. CASE PayRefusal(o) # "none"
    <3>1. PayRefusal(o) \in Reply
      BY DEF PayRefusal, Reply
    <3>2. /\ requests' \in [Requests -> Request]
          /\ requests'[r] = [requests[r] EXCEPT !.pc = "done", !.reply = PayRefusal(o)]
          /\ \A s \in Requests : s # r => requests'[s] = requests[s]
      BY <1>1, <1>11, <2>2, <3>1, AnswerTyped DEF PayRead
    <3>3. TypeOK'
      BY <1>11, <3>2 DEF PayRead, TypeOK
    <3>4. TargetExists(r)'
      BY <1>2, <1>3, <1>11, <3>2 DEF PayRead, TargetExists, Request
    <3> QED BY <2>1, <3>2, <3>3, <3>4, OthersUndisturbed
  <2>3. CASE PayRefusal(o) = "none"
    <3> DEFINE q == [requests[r] EXCEPT !.pc = "save", !.seen = orders[o].received]
    <3>1. o \in OrderIds /\ o # NoOrder
      BY <1>2, <2>3 DEF PayRefusal, Request
    <3>2. q \in Request
      BY <1>1, <1>2, <3>1 DEF Request, Pc, Row
    <3>3. q.order = o /\ q.pc = "save" /\ q.rows = requests[r].rows /\ q.op = requests[r].op
      BY <1>2 DEF Request
    <3>4. /\ requests' \in [Requests -> Request]
          /\ requests'[r] = q
          /\ \A s \in Requests : s # r => requests'[s] = requests[s]
      <4>1. Becomes(r, q)
        BY <1>11, <2>3 DEF PayRead
      <4> QED BY <1>1, <3>2, <4>1, BecomesTyped
    <3> HIDE DEF q
    <3>5. TypeOK'
      BY <1>11, <3>4 DEF PayRead, TypeOK
    <3>6. TargetExists(r)'
      BY <1>2, <1>3, <1>11, <3>1, <3>3, <3>4 DEF PayRead, TargetExists
    <3> QED BY <2>1, <3>4, <3>5, <3>6, OthersUndisturbed
  <2> QED BY <2>2, <2>3
<1>12. ASSUME NEW r \in Requests, PaySave(r) PROVE TypeInv' /\ OrdersStay
  <2>1. requests[r].order \in OrderIds /\ requests[r].amount \in Int
    BY <1>2, <1>3, <1>12 DEF PaySave, TargetExists, Request
  <2>2. /\ requests' \in [Requests -> Request]
        /\ requests'[r] = [requests[r] EXCEPT !.pc = IF Settles(r) THEN "mark" ELSE "reload"]
        /\ \A s \in Requests : s # r => requests'[s] = requests[s]
    BY <1>1, <1>12, GotoTyped DEF PaySave, Pc
  <2>3. TypeOK'
    BY <1>1, <1>12, <2>2, <2>1, ReceivedUpdated DEF PaySave, TypeOK
  <2>4. OrdersStay
    BY <1>1, <1>12, <2>1, ReceivedUpdated DEF PaySave
  <2>5. TargetExists(r)'
    <3>1. /\ requests'[r].order = requests[r].order /\ requests'[r].op = requests[r].op
          /\ requests'[r].rows = requests[r].rows /\ requests'[r].pc \in {"mark", "reload"}
      BY <1>2, <2>2 DEF Request
    <3>2. requests[r].pc = "save" /\ TargetExists(r)
      BY <1>3, <1>12 DEF PaySave
    <3> QED BY <2>4, <2>1, <3>1, <3>2 DEF TargetExists, OrdersStay
  <2> QED BY <2>2, <2>3, <2>4, <2>5, OthersUndisturbed
<1>13. ASSUME NEW r \in Requests, PayMark(r) PROVE TypeInv' /\ OrdersStay
  <2>1. requests[r].order \in OrderIds
    BY <1>2, <1>3, <1>13 DEF PayMark, TargetExists, Request
  <2>2. /\ requests' \in [Requests -> Request]
        /\ requests'[r] = [requests[r] EXCEPT !.pc = "stock"]
        /\ \A s \in Requests : s # r => requests'[s] = requests[s]
    BY <1>1, <1>13, GotoTyped DEF PayMark, Pc
  <2>3. TypeOK'
    BY <1>1, <1>13, <2>2, <2>1, StatusUpdated DEF PayMark, TypeOK, Status
  <2>4. OrdersStay
    <3>1. {"paid", "void"} \subseteq Status \ {"absent"}
      BY DEF Status
    <3> QED BY <1>1, <1>13, <2>1, <3>1, StatusUpdated DEF PayMark
  <2>5. TargetExists(r)'
    BY <1>13, <1>3, <2>2, <2>4 DEF PayMark, TargetExists, Request, OrdersStay
  <2> QED BY <2>2, <2>3, <2>4, <2>5, OthersUndisturbed
<1>14. ASSUME NEW r \in Requests, PayEnqueue(r) PROVE TypeInv' /\ OrdersStay
  <2>1. requests[r].order \in OrderIds
    BY <1>2, <1>3, <1>14 DEF PayEnqueue, StockDone, TargetExists, Request
  <2>2. /\ requests' \in [Requests -> Request]
        /\ requests'[r] = [requests[r] EXCEPT !.pc = "reload"]
        /\ \A s \in Requests : s # r => requests'[s] = requests[s]
    BY <1>1, <1>14, GotoTyped DEF PayEnqueue, Pc
  <2>3. TypeOK'
    BY <1>14, <2>2, <2>1 DEF PayEnqueue, TypeOK
  <2>4. OrdersStay
    BY <1>14, SameOrdersStay DEF PayEnqueue
  <2>5. TargetExists(r)'
    BY <1>14, <1>3, <2>2 DEF PayEnqueue, StockDone, TargetExists, Request
  <2> QED BY <2>2, <2>3, <2>4, <2>5, OthersUndisturbed
<1>15. ASSUME NEW r \in Requests, FindRecipes(r) PROVE TypeInv' /\ OrdersStay
  <2> DEFINE items == orders[requests[r].order].items
             next == requests[r].item + 1
             q == [requests[r] EXCEPT !.item = next, !.rows = RowsOf(items[next].product)]
  <2>1. next \in 1 .. Len(items) /\ Becomes(r, q)
    BY <1>15 DEF FindRecipes
  <2>2. requests[r].order \in OrderIds
    BY <1>2, <1>3, <1>15 DEF FindRecipes, TargetExists, Request
  <2>3. next \in Nat /\ RowsOf(items[next].product) \in SUBSET Recipe
    BY <1>2 DEF TypeOK, RowsOf, Request
  <2>4. q \in Request
    BY <1>2, <2>3 DEF Request
  <2>5. q.order = requests[r].order /\ q.pc = "stock" /\ q.item = next
    BY <1>2, <1>15 DEF FindRecipes, Request
  <2>6. /\ requests' \in [Requests -> Request]
        /\ requests'[r] = q
        /\ \A s \in Requests : s # r => requests'[s] = requests[s]
    BY <1>1, <2>1, <2>4, BecomesTyped
  <2> HIDE DEF q
  <2>7. TypeOK'
    BY <1>15, <2>6 DEF FindRecipes, TypeOK
  <2>8. TargetExists(r)'
    BY <1>3, <1>15, <2>1, <2>5, <2>6 DEF FindRecipes, TargetExists
  <2> QED BY <1>15, <2>6, <2>7, <2>8, OthersUndisturbed, SameOrdersStay DEF FindRecipes
<1>16. ASSUME NEW r \in Requests, MoveStock(r) PROVE TypeInv' /\ OrdersStay
  <2> DEFINE o == requests[r].order
  <2>1. PICK row \in requests[r].rows :
          /\ used' = [used EXCEPT ![o][row.ingredient] = @ + StockChange(r, row)]
          /\ Becomes(r, [requests[r] EXCEPT !.rows = @ \ {row}])
    BY <1>16 DEF MoveStock
  <2>2. o \in OrderIds /\ row \in Recipe
    BY <1>2, <1>3, <1>16 DEF MoveStock, TargetExists, Request
  <2>3. requests[r].item \in 1 .. Len(orders[o].items)
    BY <1>3, <1>16, <2>1 DEF MoveStock, TargetExists
  <2>4. orders[o].items \in Seq(Item)
    BY <1>1, <2>2 DEF Row
  <2>5. orders[o].items[requests[r].item] \in Item
    BY <2>3, <2>4, ElementOfSeq
  <2>6. StockChange(r, row) \in Int
    <3>1. row.usage \in Nat /\ orders[o].items[requests[r].item].qty \in Nat
      BY <2>2, <2>5 DEF Recipe, Item
    <3>2. \A a, b \in Nat : a * b \in Int /\ -(a * b) \in Int
      OBVIOUS
    <3> QED BY <3>1, <3>2 DEF StockChange
  <2>7. used' \in [OrderIds -> [Ingredients -> Int]]
    <3>1. used \in [OrderIds -> [Ingredients -> Int]] /\ row.ingredient \in Ingredients
      BY <2>2 DEF TypeOK, Recipe
    <3>2. [used[o] EXCEPT ![row.ingredient] = @ + StockChange(r, row)] \in [Ingredients -> Int]
      BY <2>2, <2>6, <3>1
    <3> QED BY <2>1, <2>2, <3>1, <3>2
  <2>8. [requests[r] EXCEPT !.rows = @ \ {row}] \in Request
    BY <1>2 DEF Request
  <2>9. /\ requests' \in [Requests -> Request]
        /\ requests'[r] = [requests[r] EXCEPT !.rows = @ \ {row}]
        /\ \A s \in Requests : s # r => requests'[s] = requests[s]
    BY <1>1, <2>1, <2>8, BecomesTyped
  <2>10. TypeOK'
    BY <1>16, <2>7, <2>9 DEF MoveStock, TypeOK
  <2>11. TargetExists(r)'
    BY <1>2, <1>3, <1>16, <2>3, <2>9 DEF MoveStock, TargetExists, Request
  <2> QED BY <1>16, <2>9, <2>10, <2>11, OthersUndisturbed, SameOrdersStay DEF MoveStock
<1>17. ASSUME NEW r \in Requests, VoidRead(r) PROVE TypeInv' /\ OrdersStay
  <2> DEFINE o == requests[r].order
  <2>1. OrdersStay
    BY <1>17, SameOrdersStay DEF VoidRead
  <2>2. CASE VoidRefusal(o) # "none"
    <3>1. VoidRefusal(o) \in Reply
      BY DEF VoidRefusal, Reply
    <3>2. /\ requests' \in [Requests -> Request]
          /\ requests'[r] = [requests[r] EXCEPT !.pc = "done", !.reply = VoidRefusal(o)]
          /\ \A s \in Requests : s # r => requests'[s] = requests[s]
      BY <1>1, <1>17, <2>2, <3>1, AnswerTyped DEF VoidRead
    <3>3. TypeOK'
      BY <1>17, <3>2 DEF VoidRead, TypeOK
    <3>4. TargetExists(r)'
      BY <1>2, <1>3, <1>17, <3>2 DEF VoidRead, TargetExists, Request
    <3> QED BY <2>1, <3>2, <3>3, <3>4, OthersUndisturbed
  <2>3. CASE VoidRefusal(o) = "none"
    <3> DEFINE q == [requests[r] EXCEPT !.pc = "stock",
                    !.item = IF orders[o].status = "paid" THEN 0
                             ELSE Len(orders[o].items)]
    <3>1. o \in OrderIds /\ o # NoOrder
      BY <1>2, <2>3 DEF VoidRefusal, Request
    <3>2. q \in Request
      <4>1. orders[o].items \in Seq(Item)
        BY <1>1, <3>1 DEF Row
      <4>2. (IF orders[o].status = "paid" THEN 0 ELSE Len(orders[o].items)) \in Nat
        BY <4>1
      <4> QED BY <1>2, <4>2 DEF Request, Pc
    <3>3. q.order = o /\ q.pc = "stock" /\ q.rows = requests[r].rows /\ q.op = requests[r].op
      BY <1>2 DEF Request
    <3>4. /\ requests' \in [Requests -> Request]
          /\ requests'[r] = q
          /\ \A s \in Requests : s # r => requests'[s] = requests[s]
      <4>1. Becomes(r, q)
        BY <1>17, <2>3 DEF VoidRead
      <4> QED BY <1>1, <3>2, <4>1, BecomesTyped
    <3> HIDE DEF q
    <3>5. TypeOK'
      BY <1>17, <3>4 DEF VoidRead, TypeOK
    <3>6. TargetExists(r)'
      BY <1>2, <1>3, <1>17, <3>1, <3>3, <3>4 DEF VoidRead, TargetExists
    <3> QED BY <2>1, <3>4, <3>5, <3>6, OthersUndisturbed
  <2> QED BY <2>2, <2>3
<1>18. ASSUME NEW r \in Requests, VoidMark(r) PROVE TypeInv' /\ OrdersStay
  <2>1. requests[r].order \in OrderIds
    BY <1>2, <1>3, <1>18 DEF VoidMark, StockDone, TargetExists, Request
  <2>2. /\ requests' \in [Requests -> Request]
        /\ requests'[r] = [requests[r] EXCEPT !.pc = "reload"]
        /\ \A s \in Requests : s # r => requests'[s] = requests[s]
    BY <1>1, <1>18, GotoTyped DEF VoidMark, Pc
  <2>3. TypeOK'
    BY <1>1, <1>18, <2>2, <2>1, StatusUpdated DEF VoidMark, TypeOK, Status
  <2>4. OrdersStay
    <3>1. {"paid", "void"} \subseteq Status \ {"absent"}
      BY DEF Status
    <3> QED BY <1>1, <1>18, <2>1, <3>1, StatusUpdated DEF VoidMark
  <2>5. TargetExists(r)'
    BY <1>18, <1>3, <2>2, <2>4 DEF VoidMark, StockDone, TargetExists, Request, OrdersStay
  <2> QED BY <2>2, <2>3, <2>4, <2>5, OthersUndisturbed
<1>19. ASSUME NEW r \in Requests, Reload(r) PROVE TypeInv' /\ OrdersStay
  <2>1. [requests[r] EXCEPT !.reply = "order",
                              !.pc = IF requests[r].op = "pay" THEN "view" ELSE "done"] \in Request
    BY <1>2 DEF Request, Pc, Reply
  <2>2. /\ requests' \in [Requests -> Request]
        /\ requests'[r] = [requests[r] EXCEPT !.reply = "order",
                              !.pc = IF requests[r].op = "pay" THEN "view" ELSE "done"]
        /\ \A s \in Requests : s # r => requests'[s] = requests[s]
    BY <1>1, <1>19, <2>1, BecomesTyped DEF Reload
  <2>3. TypeOK'
    BY <1>19, <2>2 DEF Reload, TypeOK
  <2>4. OrdersStay
    BY <1>19, SameOrdersStay DEF Reload
  <2>5. TargetExists(r)'
    BY <1>19, <1>3, <2>2 DEF Reload, TargetExists, Request
  <2> QED BY <2>2, <2>3, <2>4, <2>5, OthersUndisturbed
<1>20. ASSUME NEW r \in Requests, PublishRead(r) PROVE TypeInv' /\ OrdersStay
  <2>1. [requests[r] EXCEPT !.pc = "publish", !.view = orders[requests[r].order].status] \in Request
    BY <1>1, <1>2, <1>3, <1>20 DEF PublishRead, Request, TargetExists, Row, Pc
  <2>2. /\ requests' \in [Requests -> Request]
        /\ requests'[r] = [requests[r] EXCEPT !.pc = "publish", !.view = orders[requests[r].order].status]
        /\ \A s \in Requests : s # r => requests'[s] = requests[s]
    BY <1>1, <1>20, <2>1, BecomesTyped DEF PublishRead
  <2>3. TypeOK'
    BY <1>20, <2>2 DEF PublishRead, TypeOK
  <2>4. OrdersStay
    BY <1>20, SameOrdersStay DEF PublishRead
  <2>5. TargetExists(r)'
    BY <1>20, <1>3, <2>2 DEF PublishRead, TargetExists, Request
  <2> QED BY <2>2, <2>3, <2>4, <2>5, OthersUndisturbed
<1>21. ASSUME NEW r \in Requests, Publish(r) PROVE TypeInv' /\ OrdersStay
  <2>1. /\ requests' \in [Requests -> Request]
        /\ requests'[r] = [requests[r] EXCEPT !.pc = "done"]
        /\ \A s \in Requests : s # r => requests'[s] = requests[s]
    BY <1>1, <1>21, GotoTyped DEF Publish, Pc
  <2>2. TypeOK'
    BY <1>21, <2>1, <1>2 DEF Publish, TypeOK, Request
  <2>3. OrdersStay
    BY <1>21, SameOrdersStay DEF Publish
  <2>4. TargetExists(r)'
    BY <1>21, <1>3, <2>1 DEF Publish, TargetExists, Request
  <2> QED BY <2>1, <2>2, <2>3, <2>4, OthersUndisturbed
<1>22. ASSUME NEW r \in Requests, Abort(r) PROVE TypeInv' /\ OrdersStay
  <2>1. /\ requests' \in [Requests -> Request]
        /\ requests'[r] = [requests[r] EXCEPT !.pc = "done", !.reply = "error"]
        /\ \A s \in Requests : s # r => requests'[s] = requests[s]
    BY <1>1, <1>22, AnswerTyped DEF Abort, Reply
  <2>2. TypeOK'
    BY <1>22, <2>1 DEF Abort, TypeOK
  <2>3. OrdersStay
    BY <1>22, SameOrdersStay DEF Abort
  <2>4. TargetExists(r)'
    BY <1>22, <1>3, <2>1 DEF Abort, TargetExists, Request
  <2> QED BY <2>1, <2>2, <2>3, <2>4, OthersUndisturbed
<1>23. ASSUME CreateRecipe PROVE TypeInv' /\ OrdersStay
  BY <1>23, SameOrdersStay DEF CreateRecipe, TypeOK, TargetExists
<1>24. ASSUME UNCHANGED ordersVars PROVE TypeInv' /\ OrdersStay
  BY <1>24, SameOrdersStay DEF ordersVars, TypeOK, TargetExists
<1> QED
  BY <1>4, <1>5, <1>6, <1>7, <1>8, <1>9, <1>10, <1>11, <1>12, <1>13, <1>14, <1>15,
     <1>16, <1>17, <1>18, <1>19, <1>20, <1>21, <1>22, <1>23, <1>24
     DEF Next, Arrive, Handle

\* Tables and local variables keep their types, and a handler only ever writes
\* to rows that exist, in every interleaving and whatever handler dies.
THEOREM OrdersTypeOK == Spec => []TypeOK
<1>1. Spec => []TypeInv
  BY InitTypeInv, NextTypeInv, PTL DEF Spec
<1> QED BY <1>1, PTL DEF TypeInv

-----------------------------------------------------------------------------
(* No effect without payment.  A handler acts on what it read before its   *)
(* awaits, so the invariant has to say what that is still worth: the total *)
(* it has seen is a lower bound of the total in the table, and once it has *)
(* decided to settle (or found the order PAID), the order is covered.      *)
(* Both last only because totals never shrink.                             *)

HandlerCovered(r) ==
    LET q == requests[r]
    IN  /\ q.amount >= 0
        /\ q.pc = "save" => q.seen <= orders[q.order].received
        /\ q.pc = "mark" => Covered(q.order)
        /\ q.pc = "stock" /\ (q.op = "pay" \/ q.rows # {}
                              \/ q.item < Len(orders[q.order].items))
              => Covered(q.order)

EffectExplained(o) == Effect(o) => orders[o].status # "absent" /\ Covered(o)

CoverInv ==
    /\ \A r \in Requests : HandlerCovered(r)
    /\ \A o \in OrderIds : EffectExplained(o)

\* A step never takes back a payment.
TotalsGrow ==
    \A o \in OrderIds : orders[o].status # "absent" =>
        orders'[o].received >= orders[o].received

\* A step that leaves the orders table alone takes no payment back.
LEMMA SameTotalsGrow ==
    ASSUME orders \in [OrderIds -> Row], orders' = orders PROVE TotalsGrow
  BY DEF TotalsGrow, Row

\* What a step of the handler of r has to respect for the invariant to last.
LEMMA CoverLasts ==
    ASSUME TypeInv, TypeInv', CoverInv, OrdersStay, TotalsGrow, NEW r \in Requests,
           \A s \in Requests : s # r => requests'[s] = requests[s],
           HandlerCovered(r)',
           \A o \in OrderIds : Effect(o)' =>
               Effect(o) \/ (orders[o].status # "absent" /\ Covered(o))
    PROVE  CoverInv'
<1>1. /\ requests \in [Requests -> Request]
      /\ orders \in [OrderIds -> Row] /\ orders' \in [OrderIds -> Row]
  BY DEF TypeInv, TypeOK
<1>2. ASSUME NEW o \in OrderIds, orders[o].status # "absent", Covered(o)
      PROVE  orders'[o].status # "absent" /\ Covered(o)'
  BY <1>1, <1>2 DEF OrdersStay, TotalsGrow, Covered, Row
<1>3. ASSUME NEW o \in OrderIds PROVE EffectExplained(o)'
  BY <1>2 DEF EffectExplained, CoverInv
<1>4. ASSUME NEW s \in Requests, s # r PROVE HandlerCovered(s)'
  <2>1. requests'[s] = requests[s] /\ requests[s] \in Request
    BY <1>1, <1>4
  <2>2. HandlerCovered(s) /\ TargetExists(s)
    BY DEF CoverInv, TypeInv
  <2>3. CASE requests[s].pc \in {"save", "mark", "stock"}
    <3>1. PICK o \in OrderIds : o = requests[s].order /\ orders[o].status # "absent"
      BY <2>1, <2>2, <2>3 DEF TargetExists, Request
    <3>2. /\ orders'[o].items = orders[o].items
          /\ orders'[o].received >= orders[o].received
          /\ Covered(o) => Covered(o)'
      BY <1>2, <3>1 DEF OrdersStay, TotalsGrow
    <3>3. /\ requests[s].seen \in Int
          /\ orders[o].received \in Int /\ orders'[o].received \in Int
      BY <1>1, <2>1, <3>1 DEF Request, Row
    <3>4. requests[s].pc = "save" => requests[s].seen <= orders'[o].received
      BY <2>2, <3>1, <3>2, <3>3 DEF HandlerCovered
    <3>5. Covered(o) => orders'[o].received >= orders'[o].net
      BY <3>2 DEF Covered
    <3>6. \/ requests[s].pc = "mark"
          \/ /\ requests[s].pc = "stock"
             /\ \/ requests[s].op = "pay" \/ requests[s].rows # {}
                \/ requests[s].item < Len(orders'[o].items)
          => orders'[o].received >= orders'[o].net
      BY <2>2, <3>1, <3>2, <3>5 DEF HandlerCovered
    <3>7. requests[s].amount >= 0
      BY <2>2 DEF HandlerCovered
    <3> QED BY <2>1, <3>1, <3>4, <3>6, <3>7 DEF HandlerCovered, Covered
  <2>4. CASE requests[s].pc \notin {"save", "mark", "stock"}
    BY <2>1, <2>2, <2>4 DEF HandlerCovered
  <2> QED BY <2>3, <2>4
<1> QED BY <1>3, <1>4 DEF CoverInv

\* Initially no handler relies on a payment and no effect has happened.
LEMMA InitCoverInv == Init => CoverInv
  BY DEF Init, CoverInv, HandlerCovered, IdleRequest, EffectExplained, Effect, NoRow

\* The local variables of the other handlers are untouched by a step of r.
LEMMA OthersSame ==
    ASSUME requests \in [Requests -> Request], NEW r \in Requests, NEW q, Becomes(r, q)
    PROVE  /\ requests'[r] = q
           /\ \A s \in Requests : s # r => requests'[s] = requests[s]
  BY DEF Becomes

\* A step that leaves the tables alone and the handler outside the part of
\* addPayment or voidOrder that relies on the payments read.
LEMMA QuietStep ==
    ASSUME TypeInv, TypeInv', CoverInv, NEW r \in Requests, NEW q,
           Becomes(r, q), UNCHANGED <<orders, used, jobs>>,
           q.amount >= 0, q.pc \notin {"save", "mark", "stock"}
    PROVE  CoverInv'
<1>1. requests \in [Requests -> Request] /\ orders \in [OrderIds -> Row]
  BY DEF TypeInv, TypeOK
<1>2. HandlerCovered(r)'
  BY <1>1, OthersSame DEF HandlerCovered
<1>3. \A o \in OrderIds : Effect(o)' => Effect(o)
  BY DEF Effect
<1> QED BY <1>1, <1>2, <1>3, OthersSame, SameTotalsGrow, SameOrdersStay, CoverLasts

\* Every step keeps effects explained by payments that cover the order.
LEMMA NextCoverInv ==
    ASSUME Amounts \subseteq Nat, TypeInv, CoverInv, [Next]_ordersVars
    PROVE  CoverInv'
<1>1. /\ TypeInv' /\ OrdersStay
      /\ requests \in [Requests -> Request]
      /\ orders \in [OrderIds -> Row]
  BY NextTypeInv DEF TypeInv, TypeOK
<1>2. \A r \in Requests : requests[r] \in Request /\ TargetExists(r) /\ HandlerCovered(r)
  BY <1>1 DEF TypeInv, CoverInv
<1>3. \A r \in Requests : requests[r].amount >= 0
  BY <1>2 DEF HandlerCovered
<1>4. ASSUME NEW r \in Requests, StartCreate(r) PROVE CoverInv'
  <2>1. PICK key \in Keys \cup {NoKey}, cart \in Carts :
          Becomes(r, [IdleRequest EXCEPT !.pc = "lookup", !.op = "create",
                                         !.key = key, !.cart = cart])
    BY <1>4 DEF StartCreate
  <2> DEFINE q == [IdleRequest EXCEPT !.pc = "lookup", !.op = "create",
                                      !.key = key, !.cart = cart]
  <2>2. q.amount >= 0 /\ q.pc \notin {"save", "mark", "stock"}
    BY <2>1, IdleTyped DEF IdleRequest, Request
  <2> HIDE DEF q
  <2> QED BY <1>1, <1>4, <2>1, <2>2, QuietStep DEF StartCreate, q
<1>5. ASSUME NEW r \in Requests, StartPay(r) PROVE CoverInv'
  <2>1. PICK o \in OrderIds \cup {NoOrder}, amount \in Amounts :
          Becomes(r, [IdleRequest EXCEPT !.pc = "payRead", !.op = "pay",
                                         !.order = o, !.amount = amount])
    BY <1>5 DEF StartPay
  <2> DEFINE q == [IdleRequest EXCEPT !.pc = "payRead", !.op = "pay",
                                      !.order = o, !.amount = amount]
  <2>2. q.amount >= 0 /\ q.pc \notin {"save", "mark", "stock"}
    BY <2>1, IdleTyped DEF IdleRequest, Request
  <2> HIDE DEF q
  <2> QED BY <1>1, <1>5, <2>1, <2>2, QuietStep DEF StartPay, q
<1>6. ASSUME NEW r \in Requests, StartVoid(r) PROVE CoverInv'
  <2>1. PICK o \in OrderIds \cup {NoOrder} :
          Becomes(r, [IdleRequest EXCEPT !.pc = "voidRead", !.op = "void",
                                         !.order = o])
    BY <1>6 DEF StartVoid
  <2> DEFINE q == [IdleRequest EXCEPT !.pc = "voidRead", !.op = "void",
                                      !.order = o]
  <2>2. q.amount >= 0 /\ q.pc \notin {"save", "mark", "stock"}
    BY <2>1, IdleTyped DEF IdleRequest, Request
  <2> HIDE DEF q
  <2> QED BY <1>1, <1>6, <2>1, <2>2, QuietStep DEF StartVoid, q
<1>7. ASSUME NEW r \in Requests, CreateFound(r) PROVE CoverInv'
  <2>1. PICK o \in OrderIds :
          Becomes(r, [requests[r] EXCEPT !.pc = "done", !.order = o, !.reply = "order"])
    BY <1>7 DEF CreateFound
  <2> DEFINE q == [requests[r] EXCEPT !.pc = "done", !.order = o, !.reply = "order"]
  <2>2. q.amount >= 0 /\ q.pc \notin {"save", "mark", "stock"}
    BY <1>2, <1>3 DEF Request
  <2> HIDE DEF q
  <2> QED BY <1>1, <1>7, <2>1, <2>2, QuietStep DEF CreateFound, q
<1>8. ASSUME NEW r \in Requests, CreateNotFound(r) PROVE CoverInv'
  <2> DEFINE q == [requests[r] EXCEPT !.pc = "insert"]
  <2>1. q.amount >= 0 /\ q.pc \notin {"save", "mark", "stock"}
    BY <1>2, <1>3 DEF Request
  <2>2. Becomes(r, q)
    BY <1>8 DEF CreateNotFound, Goto
  <2> HIDE DEF q
  <2> QED BY <1>1, <1>8, <2>1, <2>2, QuietStep DEF CreateNotFound
<1>9. ASSUME NEW r \in Requests, CreateConflict(r) PROVE CoverInv'
  <2> DEFINE q == [requests[r] EXCEPT !.pc = "done", !.reply = "error"]
  <2>1. q.amount >= 0 /\ q.pc \notin {"save", "mark", "stock"}
    BY <1>2, <1>3 DEF Request
  <2>2. Becomes(r, q)
    BY <1>9 DEF CreateConflict, Answer
  <2> HIDE DEF q
  <2> QED BY <1>1, <1>9, <2>1, <2>2, QuietStep DEF CreateConflict
<1>10. ASSUME NEW r \in Requests, Reload(r) PROVE CoverInv'
  <2> DEFINE q == [requests[r] EXCEPT !.reply = "order",
                              !.pc = IF requests[r].op = "pay" THEN "view" ELSE "done"]
  <2>1. q.amount >= 0 /\ q.pc \notin {"save", "mark", "stock"}
    BY <1>2, <1>3 DEF Request
  <2>2. Becomes(r, q)
    BY <1>10 DEF Reload
  <2> HIDE DEF q
  <2> QED BY <1>1, <1>10, <2>1, <2>2, QuietStep DEF Reload
<1>11. ASSUME NEW r \in Requests, PublishRead(r) PROVE CoverInv'
  <2> DEFINE q == [requests[r] EXCEPT !.pc = "publish", !.view = orders[requests[r].order].status]
  <2>1. q.amount >= 0 /\ q.pc \notin {"save", "mark", "stock"}
    BY <1>2, <1>3 DEF Request
  <2>2. Becomes(r, q)
    BY <1>11 DEF PublishRead
  <2> HIDE DEF q
  <2> QED BY <1>1, <1>11, <2>1, <2>2, QuietStep DEF PublishRead
<1>12. ASSUME NEW r \in Requests, Publish(r) PROVE CoverInv'
  <2> DEFINE q == [requests[r] EXCEPT !.pc = "done"]
  <2>1. q.amount >= 0 /\ q.pc \notin {"save", "mark", "stock"}
    BY <1>2, <1>3 DEF Request
  <2>2. Becomes(r, q)
    BY <1>12 DEF Publish, Goto
  <2> HIDE DEF q
  <2> QED BY <1>1, <1>12, <2>1, <2>2, QuietStep DEF Publish
<1>13. ASSUME NEW r \in Requests, Abort(r) PROVE CoverInv'
  <2> DEFINE q == [requests[r] EXCEPT !.pc = "done", !.reply = "error"]
  <2>1. q.amount >= 0 /\ q.pc \notin {"save", "mark", "stock"}
    BY <1>2, <1>3 DEF Request
  <2>2. Becomes(r, q)
    BY <1>13 DEF Abort, Answer
  <2> HIDE DEF q
  <2> QED BY <1>1, <1>13, <2>1, <2>2, QuietStep DEF Abort
<1>14. ASSUME NEW r \in Requests, PayRead(r) PROVE CoverInv'
  <2>1. CASE PayRefusal(requests[r].order) # "none"
    <3> DEFINE q == [requests[r] EXCEPT !.pc = "done", !.reply = PayRefusal(requests[r].order)]
    <3>1. q.amount >= 0 /\ q.pc \notin {"save", "mark", "stock"}
      BY <1>2, <1>3 DEF Request
    <3>2. Becomes(r, q)
      BY <1>14, <2>1 DEF PayRead, Answer
    <3> HIDE DEF q
    <3> QED BY <1>1, <1>14, <3>1, <3>2, QuietStep DEF PayRead
  <2>2. CASE PayRefusal(requests[r].order) = "none"
    <3>1. PICK o \in OrderIds : o = requests[r].order
      BY <1>2, <2>2 DEF PayRefusal, Request
    <3> DEFINE q == [requests[r] EXCEPT !.pc = "save", !.seen = orders[o].received]
    <3>2. Becomes(r, q)
      BY <1>14, <2>2, <3>1 DEF PayRead
    <3>3. /\ q.order = o /\ q.pc = "save" /\ q.seen = orders[o].received
          /\ q.amount >= 0
      BY <1>2, <1>3, <3>1 DEF Request
    <3> HIDE DEF q
    <3>4. UNCHANGED <<orders, used, jobs>>
      BY <1>14 DEF PayRead
    <3>5. requests'[r] = q /\ \A s \in Requests : s # r => requests'[s] = requests[s]
      BY <1>1, <3>2, OthersSame
    <3>6. orders[o].received \in Int
      BY <1>1 DEF Row
    <3>7. HandlerCovered(r)'
      BY <3>3, <3>4, <3>5, <3>6 DEF HandlerCovered
    <3>8. \A p \in OrderIds : Effect(p)' => Effect(p)
      BY <3>4 DEF Effect
    <3> QED BY <1>1, <3>4, <3>5, <3>7, <3>8, CoverLasts, SameTotalsGrow
  <2> QED BY <2>1, <2>2
<1>15. ASSUME NEW r \in Requests, VoidRead(r) PROVE CoverInv'
  <2>1. CASE VoidRefusal(requests[r].order) # "none"
    <3> DEFINE q == [requests[r] EXCEPT !.pc = "done", !.reply = VoidRefusal(requests[r].order)]
    <3>1. q.amount >= 0 /\ q.pc \notin {"save", "mark", "stock"}
      BY <1>2, <1>3 DEF Request
    <3>2. Becomes(r, q)
      BY <1>15, <2>1 DEF VoidRead, Answer
    <3> HIDE DEF q
    <3> QED BY <1>1, <1>15, <3>1, <3>2, QuietStep DEF VoidRead
  <2>2. CASE VoidRefusal(requests[r].order) = "none"
    <3>1. PICK o \in OrderIds : o = requests[r].order
      BY <1>2, <2>2 DEF VoidRefusal, Request
    <3> DEFINE item == IF orders[o].status = "paid" THEN 0 ELSE Len(orders[o].items)
               q == [requests[r] EXCEPT !.pc = "stock", !.item = item]
    <3>2. Becomes(r, q)
      BY <1>15, <2>2, <3>1 DEF VoidRead
    <3>3. orders[o].status # "paid" => item = Len(orders[o].items)
      OBVIOUS
    <3>4. requests[r].op = "void" /\ requests[r].rows = {}
      BY <1>2, <1>15 DEF VoidRead, TargetExists
    <3> HIDE DEF item
    <3>5. /\ q.order = o /\ q.pc = "stock" /\ q.op = "void" /\ q.rows = {}
          /\ orders[o].status # "paid" => q.item = Len(orders[o].items)
          /\ q.amount >= 0
      BY <1>2, <1>3, <3>1, <3>3, <3>4 DEF Request
    <3> HIDE DEF q
    <3>6. UNCHANGED <<orders, used, jobs>>
      BY <1>15 DEF VoidRead
    <3>7. requests'[r] = q /\ \A s \in Requests : s # r => requests'[s] = requests[s]
      BY <1>1, <3>2, OthersSame
    <3>8. /\ orders[o].status = "paid" => Covered(o)
          /\ Len(orders[o].items) \in Nat
      BY <1>1 DEF CoverInv, EffectExplained, Effect, Row
    <3>9. HandlerCovered(r)'
      BY <3>5, <3>6, <3>7, <3>8 DEF HandlerCovered, Covered
    <3>10. \A p \in OrderIds : Effect(p)' => Effect(p)
      BY <3>6 DEF Effect
    <3> QED BY <1>1, <3>6, <3>7, <3>9, <3>10, CoverLasts, SameTotalsGrow
  <2> QED BY <2>1, <2>2
<1>16. ASSUME NEW r \in Requests, CreateInsert(r) PROVE CoverInv'
  <2>1. PICK o \in OrderIds :
          /\ orders[o].status = "absent"
          /\ orders' = [orders EXCEPT ![o] = NewRow(requests[r].key, requests[r].cart)]
          /\ Becomes(r, [requests[r] EXCEPT !.pc = "view", !.order = o, !.reply = "order"])
    BY <1>16 DEF CreateInsert
  <2> DEFINE q == [requests[r] EXCEPT !.pc = "view", !.order = o, !.reply = "order"]
  <2>2. q.amount >= 0 /\ q.pc = "view"
    BY <1>2, <1>3 DEF Request
  <2>3. requests'[r] = q /\ \A s \in Requests : s # r => requests'[s] = requests[s]
    BY <1>1, <2>1, OthersSame
  <2> HIDE DEF q
  <2>4. HandlerCovered(r)'
    BY <2>2, <2>3 DEF HandlerCovered
  <2>5. orders'[o].status = "pending" /\ \A p \in OrderIds : p # o => orders'[p] = orders[p]
    BY <1>1, <2>1 DEF NewRow
  <2>6. TotalsGrow
    BY <1>1, <2>1, <2>5 DEF TotalsGrow, Row
  <2>7. \A p \in OrderIds : Effect(p)' => Effect(p)
    BY <1>16, <2>5 DEF CreateInsert, Effect
  <2> QED BY <1>1, <2>3, <2>4, <2>6, <2>7, CoverLasts
<1>17. ASSUME NEW r \in Requests, PaySave(r) PROVE CoverInv'
  <2>1. PICK o \in OrderIds : o = requests[r].order
    BY <1>2, <1>17 DEF PaySave, TargetExists, Request
  <2> DEFINE pc == IF Settles(r) THEN "mark" ELSE "reload"
             q == [requests[r] EXCEPT !.pc = pc]
  <2>2. /\ q.amount = requests[r].amount /\ q.order = o
        /\ q.pc \in {"mark", "reload"}
        /\ q.pc = "mark" => Settles(r)
    BY <1>2, <2>1 DEF Request
  <2>3. requests'[r] = q /\ \A s \in Requests : s # r => requests'[s] = requests[s]
    BY <1>1, <1>17, OthersSame DEF PaySave, Goto
  <2> HIDE DEF q
  <2>4. /\ orders[o].received \in Int /\ orders[o].net \in Int
        /\ requests[r].amount \in Int /\ requests[r].amount >= 0
        /\ requests[r].seen \in Int /\ requests[r].seen <= orders[o].received
    BY <1>1, <1>2, <1>3, <1>17, <2>1 DEF PaySave, HandlerCovered, Row, Request
  <2>5. /\ orders'[o].received = orders[o].received + requests[r].amount
        /\ orders'[o].net = orders[o].net /\ orders'[o].status = orders[o].status
        /\ \A p \in OrderIds : p # o => orders'[p] = orders[p]
    BY <1>1, <1>17, <2>1 DEF PaySave, Row
  <2>6. HandlerCovered(r)'
    <3>1. Settles(r) => orders'[o].received >= orders'[o].net
      BY <2>1, <2>4, <2>5 DEF Settles
    <3> QED BY <2>2, <2>3, <2>4, <3>1 DEF HandlerCovered, Covered
  <2>7. TotalsGrow
    <3>1. \A p \in OrderIds : orders[p].received \in Int
      BY <1>1 DEF Row
    <3> QED BY <2>4, <2>5, <3>1 DEF TotalsGrow
  <2>8. \A p \in OrderIds : Effect(p)' => Effect(p)
    BY <1>17, <2>5 DEF PaySave, Effect
  <2> QED BY <1>1, <2>3, <2>6, <2>7, <2>8, CoverLasts
<1>18. ASSUME NEW r \in Requests, PayMark(r) PROVE CoverInv'
  <2>1. PICK o \in OrderIds : o = requests[r].order /\ orders[o].status # "absent"
    BY <1>2, <1>18 DEF PayMark, TargetExists, Request
  <2> DEFINE q == [requests[r] EXCEPT !.pc = "stock"]
  <2>2. q.amount >= 0 /\ q.order = o /\ q.pc = "stock"
    BY <1>2, <1>3, <2>1 DEF Request
  <2>3. requests'[r] = q /\ \A s \in Requests : s # r => requests'[s] = requests[s]
    BY <1>1, <1>18, OthersSame DEF PayMark, Goto
  <2> HIDE DEF q
  <2>4. /\ orders'[o].received = orders[o].received /\ orders'[o].net = orders[o].net
        /\ orders'[o].status = "paid"
        /\ \A p \in OrderIds : p # o => orders'[p] = orders[p]
    BY <1>1, <1>18, <2>1 DEF PayMark, Row
  <2>5. HandlerCovered(r)'
    BY <1>2, <1>18, <2>1, <2>2, <2>3, <2>4 DEF PayMark, HandlerCovered, Covered
  <2>6. TotalsGrow
    BY <1>1, <2>4 DEF TotalsGrow, Row
  <2>7. \A p \in OrderIds : Effect(p)' => Effect(p) \/ (orders[p].status # "absent" /\ Covered(p))
    BY <1>2, <1>18, <2>1, <2>4 DEF PayMark, Effect, HandlerCovered
  <2> QED BY <1>1, <2>3, <2>5, <2>6, <2>7, CoverLasts
<1>19. ASSUME NEW r \in Requests, VoidMark(r) PROVE CoverInv'
  <2>1. PICK o \in OrderIds : o = requests[r].order /\ orders[o].status # "absent"
    BY <1>2, <1>19 DEF VoidMark, StockDone, TargetExists, Request
  <2> DEFINE q == [requests[r] EXCEPT !.pc = "reload"]
  <2>2. q.amount >= 0 /\ q.order = o /\ q.pc = "reload"
    BY <1>2, <1>3, <2>1 DEF Request
  <2>3. requests'[r] = q /\ \A s \in Requests : s # r => requests'[s] = requests[s]
    BY <1>1, <1>19, OthersSame DEF VoidMark, Goto
  <2> HIDE DEF q
  <2>4. /\ orders'[o].received = orders[o].received /\ orders'[o].net = orders[o].net
        /\ orders'[o].status = "void"
        /\ \A p \in OrderIds : p # o => orders'[p] = orders[p]
    BY <1>1, <1>19, <2>1 DEF VoidMark, Row
  <2>5. HandlerCovered(r)'
    BY <2>2, <2>3 DEF HandlerCovered
  <2>6. TotalsGrow
    BY <1>1, <2>4 DEF TotalsGrow, Row
  <2>7. \A p \in OrderIds : Effect(p)' => Effect(p)
    BY <1>19, <2>4 DEF VoidMark, Effect
  <2> QED BY <1>1, <2>3, <2>5, <2>6, <2>7, CoverLasts
<1>20. ASSUME NEW r \in Requests, PayEnqueue(r) PROVE CoverInv'
  <2>1. PICK o \in OrderIds : o = requests[r].order /\ orders[o].status # "absent"
    BY <1>2, <1>20 DEF PayEnqueue, StockDone, TargetExists, Request
  <2>2. Covered(o)
    BY <1>2, <1>20, <2>1 DEF PayEnqueue, StockDone, HandlerCovered
  <2> DEFINE q == [requests[r] EXCEPT !.pc = "reload"]
  <2>3. q.amount >= 0 /\ q.pc = "reload"
    BY <1>2, <1>3 DEF Request
  <2>4. requests'[r] = q /\ \A s \in Requests : s # r => requests'[s] = requests[s]
    BY <1>1, <1>20, OthersSame DEF PayEnqueue, Goto
  <2> HIDE DEF q
  <2>5. HandlerCovered(r)'
    BY <2>3, <2>4 DEF HandlerCovered
  <2>6. \A p \in OrderIds : p # o => jobs'[p] = jobs[p]
    BY <1>20, <2>1 DEF PayEnqueue, TypeInv, TypeOK
  <2>7. \A p \in OrderIds : Effect(p)' => Effect(p) \/ (orders[p].status # "absent" /\ Covered(p))
    BY <1>20, <2>1, <2>2, <2>6 DEF PayEnqueue, Effect
  <2> QED BY <1>1, <1>20, <2>4, <2>5, <2>7, CoverLasts, SameTotalsGrow DEF PayEnqueue
<1>21. ASSUME NEW r \in Requests, FindRecipes(r) PROVE CoverInv'
  <2>1. PICK o \in OrderIds : o = requests[r].order /\ orders[o].status # "absent"
    BY <1>2, <1>21 DEF FindRecipes, TargetExists, Request
  <2> DEFINE items == orders[o].items
             next == requests[r].item + 1
             q == [requests[r] EXCEPT !.item = next, !.rows = RowsOf(items[next].product)]
  <2>2. next \in 1 .. Len(items) /\ Becomes(r, q)
    BY <1>21, <2>1 DEF FindRecipes
  <2>3. Covered(o)
    BY <1>1, <1>2, <1>21, <2>1, <2>2 DEF FindRecipes, HandlerCovered, Request
  <2>4. q.amount >= 0 /\ q.pc = "stock" /\ q.order = o
    BY <1>2, <1>3, <1>21, <2>1 DEF FindRecipes, Request
  <2>5. requests'[r] = q /\ \A s \in Requests : s # r => requests'[s] = requests[s]
    BY <1>1, <2>2, OthersSame
  <2> HIDE DEF q
  <2>6. HandlerCovered(r)'
    BY <1>21, <2>3, <2>4, <2>5 DEF FindRecipes, HandlerCovered, Covered
  <2>7. \A p \in OrderIds : Effect(p)' => Effect(p)
    BY <1>21 DEF FindRecipes, Effect
  <2> QED BY <1>1, <1>21, <2>5, <2>6, <2>7, CoverLasts, SameTotalsGrow DEF FindRecipes
<1>22. ASSUME NEW r \in Requests, MoveStock(r) PROVE CoverInv'
  <2>1. PICK o \in OrderIds : o = requests[r].order /\ orders[o].status # "absent"
    BY <1>2, <1>22 DEF MoveStock, TargetExists, Request
  <2>2. PICK row \in requests[r].rows :
          /\ used' = [used EXCEPT ![o][row.ingredient] = @ + StockChange(r, row)]
          /\ Becomes(r, [requests[r] EXCEPT !.rows = @ \ {row}])
    BY <1>22, <2>1 DEF MoveStock
  <2> DEFINE q == [requests[r] EXCEPT !.rows = @ \ {row}]
  <2>3. Covered(o)
    BY <1>2, <1>22, <2>1, <2>2 DEF MoveStock, HandlerCovered
  <2>4. q.amount >= 0 /\ q.pc = "stock" /\ q.order = o
    BY <1>2, <1>3, <1>22, <2>1 DEF MoveStock, Request
  <2>5. requests'[r] = q /\ \A s \in Requests : s # r => requests'[s] = requests[s]
    BY <1>1, <2>2, OthersSame
  <2> HIDE DEF q
  <2>6. HandlerCovered(r)'
    BY <1>22, <2>3, <2>4, <2>5 DEF MoveStock, HandlerCovered, Covered
  <2>7. \A p \in OrderIds : p # o => used'[p] = used[p]
    BY <2>2 DEF TypeInv, TypeOK
  <2>8. \A p \in OrderIds : Effect(p)' => Effect(p) \/ (orders[p].status # "absent" /\ Covered(p))
    BY <1>22, <2>1, <2>3, <2>7 DEF MoveStock, Effect
  <2> QED BY <1>1, <1>22, <2>5, <2>6, <2>8, CoverLasts, SameTotalsGrow DEF MoveStock
<1>23. ASSUME CreateRecipe PROVE CoverInv'
  BY <1>23 DEF CreateRecipe, CoverInv, HandlerCovered, EffectExplained, Effect, Covered
<1>24. ASSUME UNCHANGED ordersVars PROVE CoverInv'
  BY <1>24 DEF ordersVars, CoverInv, HandlerCovered, EffectExplained, Effect, Covered
<1> QED
  BY <1>4, <1>5, <1>6, <1>7, <1>8, <1>9, <1>10, <1>11, <1>12, <1>13, <1>14, <1>15,
     <1>16, <1>17, <1>18, <1>19, <1>20, <1>21, <1>22, <1>23, <1>24
     DEF Next, Arrive, Handle

\* Whatever the interleaving of payments and voids and whatever handler dies
\* half-way, an order is marked PAID, has stock moved or an accounting job queued
\* only once its recorded payments cover it, as long as no amount is negative.
THEOREM OrdersEffects ==
    ASSUME Amounts \subseteq Nat
    PROVE  Spec => []EffectsOnlyWhenCovered
<1>1. TypeInv /\ CoverInv /\ [Next]_ordersVars => (TypeInv /\ CoverInv)'
  BY NextTypeInv, NextCoverInv
<1>2. Init => TypeInv /\ CoverInv
  BY InitTypeInv, InitCoverInv
<1>3. CoverInv => EffectsOnlyWhenCovered
  BY DEF CoverInv, EffectExplained, EffectsOnlyWhenCovered
<1> QED BY <1>1, <1>2, <1>3, PTL DEF Spec

-----------------------------------------------------------------------------
(* create() is idempotent in order_no, for any number of requests: two     *)
(* answers for the same order_no name the same order.  What makes it       *)
(* inductive is that no two rows share an order_no (the lookup before the  *)
(* insert is not enough: another create may run in between) and that an    *)
(* answered create points at the row with its own order_no.                *)

UniqueKeys ==
    \A o, p \in OrderIds :
        (/\ orders[o].status # "absent" /\ orders[p].status # "absent"
         /\ orders[o].key = orders[p].key /\ orders[o].key # NoKey) => o = p

\* What an answered create knows, and that a create never gets to the reload step
\* that only payments and voids have.
AnswerFits(r) ==
    LET q == requests[r]
    IN  /\ q.op = "create" /\ q.reply = "order" =>
               q.order \in OrderIds /\ orders[q.order].key = q.key
        /\ q.pc = "reload" => q.op # "create"

KeyInv == UniqueKeys /\ \A r \in Requests : AnswerFits(r)

NoNewOrders ==
    \A o \in OrderIds : orders'[o].status # "absent" => orders[o].status # "absent"

\* Initially there is no order and no answer.
LEMMA InitKeyInv == Init => KeyInv
  BY DEF Init, KeyInv, UniqueKeys, AnswerFits, IdleRequest, NoRow

\* Orders keep their order_no, so the other handlers' answers stay right.
LEMMA OtherAnswersFit ==
    ASSUME TypeInv, KeyInv, OrdersStay, NEW r \in Requests,
           \A s \in Requests : s # r => requests'[s] = requests[s]
    PROVE  \A s \in Requests : s # r => AnswerFits(s)'
<1> SUFFICES ASSUME NEW s \in Requests, s # r PROVE AnswerFits(s)'
  OBVIOUS
<1>1. requests'[s] = requests[s] /\ AnswerFits(s) /\ TargetExists(s)
  BY DEF KeyInv, TypeInv
<1>2. ASSUME requests[s].order \in OrderIds
      PROVE  orders'[requests[s].order].key = orders[requests[s].order].key
  <2>1. requests[s].order # NoOrder
    BY <1>2, OrdersAssumption
  <2> QED BY <1>1, <1>2, <2>1 DEF TargetExists, OrdersStay
<1> QED BY <1>1, <1>2 DEF AnswerFits

\* A step that opens no order and does not answer a create with one.
LEMMA KeysLast ==
    ASSUME TypeInv, KeyInv, OrdersStay, NoNewOrders, NEW r \in Requests, NEW q,
           Becomes(r, q),
           q.pc = "reload" => q.op # "create",
           q.op = "create" => q.reply # "order" \/
               (/\ requests[r].reply = "order" /\ requests[r].op = "create"
                /\ q.order = requests[r].order /\ q.key = requests[r].key)
    PROVE  KeyInv'
<1>1. requests \in [Requests -> Request]
  BY DEF TypeInv, TypeOK
<1>2. requests'[r] = q /\ \A s \in Requests : s # r => requests'[s] = requests[s]
  BY <1>1, OthersSame
<1>3. AnswerFits(r)'
  <2>1. CASE q.op = "create" /\ q.reply = "order"
    <3>1. /\ q.order \in OrderIds /\ orders[q.order].key = q.key
          /\ q.order = requests[r].order
      BY <2>1 DEF KeyInv, AnswerFits
    <3>2. orders[q.order].status # "absent"
      BY <3>1, OrdersAssumption DEF TypeInv, TargetExists
    <3> QED BY <1>2, <2>1, <3>1, <3>2 DEF AnswerFits, OrdersStay
  <2>2. CASE ~(q.op = "create" /\ q.reply = "order")
    BY <1>2, <2>2 DEF AnswerFits
  <2> QED BY <2>1, <2>2
<1>4. UniqueKeys'
  BY DEF KeyInv, UniqueKeys, OrdersStay, NoNewOrders
<1> QED BY <1>2, <1>3, <1>4, OtherAnswersFit DEF KeyInv

\* No step ever creates a second order with an order_no, or a wrong answer.
LEMMA NextKeyInv ==
    ASSUME TypeInv, KeyInv, [Next]_ordersVars
    PROVE  KeyInv'
<1>1. /\ OrdersStay
      /\ requests \in [Requests -> Request]
      /\ orders \in [OrderIds -> Row]
  BY NextTypeInv DEF TypeInv, TypeOK
<1>2. \A r \in Requests : requests[r] \in Request /\ TargetExists(r) /\ AnswerFits(r)
  BY <1>1 DEF TypeInv, KeyInv
<1>3. orders' = orders => NoNewOrders
  BY DEF NoNewOrders
<1>4. ASSUME NEW r \in Requests, StartCreate(r) PROVE KeyInv'
  <2>1. PICK key \in Keys \cup {NoKey}, cart \in Carts :
          Becomes(r, [IdleRequest EXCEPT !.pc = "lookup", !.op = "create",
                                         !.key = key, !.cart = cart])
    BY <1>4 DEF StartCreate
  <2> DEFINE q == [IdleRequest EXCEPT !.pc = "lookup", !.op = "create",
                                      !.key = key, !.cart = cart]
  <2>2. q.reply = "none" /\ q.pc # "reload"
    BY IdleTyped DEF IdleRequest, Request
  <2> HIDE DEF q
  <2> QED BY <1>1, <1>3, <1>4, <2>1, <2>2, KeysLast DEF StartCreate, q
<1>5. ASSUME NEW r \in Requests, StartPay(r) PROVE KeyInv'
  <2>1. PICK o \in OrderIds \cup {NoOrder}, amount \in Amounts :
          Becomes(r, [IdleRequest EXCEPT !.pc = "payRead", !.op = "pay",
                                         !.order = o, !.amount = amount])
    BY <1>5 DEF StartPay
  <2> DEFINE q == [IdleRequest EXCEPT !.pc = "payRead", !.op = "pay",
                                      !.order = o, !.amount = amount]
  <2>2. q.reply = "none" /\ q.pc # "reload"
    BY IdleTyped DEF IdleRequest, Request
  <2> HIDE DEF q
  <2> QED BY <1>1, <1>3, <1>5, <2>1, <2>2, KeysLast DEF StartPay, q
<1>6. ASSUME NEW r \in Requests, StartVoid(r) PROVE KeyInv'
  <2>1. PICK o \in OrderIds \cup {NoOrder} :
          Becomes(r, [IdleRequest EXCEPT !.pc = "voidRead", !.op = "void",
                                         !.order = o])
    BY <1>6 DEF StartVoid
  <2> DEFINE q == [IdleRequest EXCEPT !.pc = "voidRead", !.op = "void",
                                      !.order = o]
  <2>2. q.reply = "none" /\ q.pc # "reload"
    BY IdleTyped DEF IdleRequest, Request
  <2> HIDE DEF q
  <2> QED BY <1>1, <1>3, <1>6, <2>1, <2>2, KeysLast DEF StartVoid, q
<1>7. ASSUME NEW r \in Requests, CreateFound(r) PROVE KeyInv'
  <2>1. PICK o \in OrderIds :
          /\ orders[o].key = requests[r].key
          /\ Becomes(r, [requests[r] EXCEPT !.pc = "done", !.order = o, !.reply = "order"])
    BY <1>7 DEF CreateFound
  <2> DEFINE q == [requests[r] EXCEPT !.pc = "done", !.order = o, !.reply = "order"]
  <2>2. q.order = o /\ q.key = orders[o].key /\ q.pc = "done"
    BY <1>2, <2>1 DEF Request
  <2>3. requests'[r] = q /\ \A s \in Requests : s # r => requests'[s] = requests[s]
    BY <1>1, <2>1, OthersSame
  <2> HIDE DEF q
  <2>4. AnswerFits(r)'
    BY <1>7, <2>2, <2>3 DEF CreateFound, AnswerFits
  <2>5. UniqueKeys'
    BY <1>7 DEF CreateFound, KeyInv, UniqueKeys
  <2> QED BY <1>1, <2>3, <2>4, <2>5, OtherAnswersFit DEF KeyInv
<1>8. ASSUME NEW r \in Requests, CreateInsert(r) PROVE KeyInv'
  <2>1. PICK o \in OrderIds :
          /\ orders[o].status = "absent"
          /\ orders' = [orders EXCEPT ![o] = NewRow(requests[r].key, requests[r].cart)]
          /\ Becomes(r, [requests[r] EXCEPT !.pc = "view", !.order = o, !.reply = "order"])
    BY <1>8 DEF CreateInsert
  <2> DEFINE q == [requests[r] EXCEPT !.pc = "view", !.order = o, !.reply = "order"]
  <2>2. q.order = o /\ q.key = requests[r].key /\ q.pc = "view"
    BY <1>2, <2>1 DEF Request
  <2>3. requests'[r] = q /\ \A s \in Requests : s # r => requests'[s] = requests[s]
    BY <1>1, <2>1, OthersSame
  <2> HIDE DEF q
  <2>4. orders'[o].key = requests[r].key /\ \A p \in OrderIds : p # o => orders'[p] = orders[p]
    BY <1>1, <2>1 DEF NewRow
  <2>5. AnswerFits(r)'
    BY <2>2, <2>3, <2>4 DEF AnswerFits
  <2>6. \A p \in OrderIds : (orders[p].status # "absent" /\ requests[r].key # NoKey)
                               => orders[p].key # requests[r].key
    BY <1>8 DEF CreateInsert, KeyIsFree
  <2>7. UniqueKeys'
    BY <2>4, <2>6 DEF KeyInv, UniqueKeys
  <2> QED BY <1>1, <2>3, <2>5, <2>7, OtherAnswersFit DEF KeyInv
<1>9. ASSUME NEW r \in Requests, CreateNotFound(r) PROVE KeyInv'
  <2> DEFINE q == [requests[r] EXCEPT !.pc = "insert"]
  <2>1. Becomes(r, q)
    BY <1>9 DEF CreateNotFound, Goto
  <2>2. /\ q.op = requests[r].op /\ q.order = requests[r].order /\ q.key = requests[r].key
        /\ q.pc = "reload" => q.op # "create"
        /\ q.op = "create" => q.reply # "order" \/ requests[r].reply = "order"
    BY <1>2, <1>9 DEF CreateNotFound, AnswerFits, TargetExists, Request
  <2>3. NoNewOrders
    BY <1>3, <1>9 DEF CreateNotFound
  <2> HIDE DEF q
  <2> QED BY <1>1, <2>1, <2>2, <2>3, KeysLast
<1>10. ASSUME NEW r \in Requests, CreateConflict(r) PROVE KeyInv'
  <2> DEFINE q == [requests[r] EXCEPT !.pc = "done", !.reply = "error"]
  <2>1. Becomes(r, q)
    BY <1>10 DEF CreateConflict, Answer
  <2>2. /\ q.op = requests[r].op /\ q.order = requests[r].order /\ q.key = requests[r].key
        /\ q.pc = "reload" => q.op # "create"
        /\ q.op = "create" => q.reply # "order" \/ requests[r].reply = "order"
    BY <1>2, <1>10 DEF CreateConflict, AnswerFits, TargetExists, Request
  <2>3. NoNewOrders
    BY <1>3, <1>10 DEF CreateConflict
  <2> HIDE DEF q
  <2> QED BY <1>1, <2>1, <2>2, <2>3, KeysLast
<1>11. ASSUME NEW r \in Requests, PayRead(r) PROVE KeyInv'
  <2>1. NoNewOrders
    BY <1>3, <1>11 DEF PayRead
  <2>2. CASE PayRefusal(requests[r].order) # "none"
    <3> DEFINE q == [requests[r] EXCEPT !.pc = "done", !.reply = PayRefusal(requests[r].order)]
    <3>1. Becomes(r, q)
      BY <1>11, <2>2 DEF PayRead, Answer
    <3>2. PayRefusal(requests[r].order) # "order"
      BY DEF PayRefusal
    <3>3. q.reply # "order" /\ q.pc = "done"
      BY <1>2, <3>2 DEF Request
    <3> HIDE DEF q
    <3> QED BY <1>1, <2>1, <3>1, <3>3, KeysLast
  <2>3. CASE PayRefusal(requests[r].order) = "none"
    <3> DEFINE o == requests[r].order
               q == [requests[r] EXCEPT !.pc = "save", !.seen = orders[o].received]
    <3>1. Becomes(r, q)
      BY <1>11, <2>3 DEF PayRead
    <3>2. /\ q.op = requests[r].op /\ q.order = requests[r].order
          /\ q.key = requests[r].key /\ q.reply = requests[r].reply /\ q.pc # "reload"
      BY <1>2 DEF Request
    <3> HIDE DEF q
    <3> QED BY <1>1, <2>1, <3>1, <3>2, KeysLast
  <2> QED BY <2>2, <2>3
<1>12. ASSUME NEW r \in Requests, PaySave(r) PROVE KeyInv'
  <2> DEFINE q == [requests[r] EXCEPT !.pc = IF Settles(r) THEN "mark" ELSE "reload"]
  <2>1. Becomes(r, q)
    BY <1>12 DEF PaySave, Goto
  <2>2. /\ q.op = requests[r].op /\ q.order = requests[r].order /\ q.key = requests[r].key
        /\ q.pc = "reload" => q.op # "create"
        /\ q.op = "create" => q.reply # "order" \/ requests[r].reply = "order"
    BY <1>2, <1>12 DEF PaySave, AnswerFits, TargetExists, Request
  <2>3. NoNewOrders
    <3>1. PICK o \in OrderIds : o = requests[r].order /\ orders[o].status # "absent"
      BY <1>2, <1>12 DEF PaySave, TargetExists, Request
    <3>2. \A p \in OrderIds : p # o => orders'[p] = orders[p]
      BY <1>1, <1>12, <3>1 DEF PaySave
    <3> QED BY <3>1, <3>2 DEF NoNewOrders
  <2> HIDE DEF q
  <2> QED BY <1>1, <2>1, <2>2, <2>3, KeysLast
<1>13. ASSUME NEW r \in Requests, PayMark(r) PROVE KeyInv'
  <2> DEFINE q == [requests[r] EXCEPT !.pc = "stock"]
  <2>1. Becomes(r, q)
    BY <1>13 DEF PayMark, Goto
  <2>2. /\ q.op = requests[r].op /\ q.order = requests[r].order /\ q.key = requests[r].key
        /\ q.pc = "reload" => q.op # "create"
        /\ q.op = "create" => q.reply # "order" \/ requests[r].reply = "order"
    BY <1>2, <1>13 DEF PayMark, AnswerFits, TargetExists, Request
  <2>3. NoNewOrders
    <3>1. PICK o \in OrderIds : o = requests[r].order /\ orders[o].status # "absent"
      BY <1>2, <1>13 DEF PayMark, TargetExists, Request
    <3>2. \A p \in OrderIds : p # o => orders'[p] = orders[p]
      BY <1>1, <1>13, <3>1 DEF PayMark
    <3> QED BY <3>1, <3>2 DEF NoNewOrders
  <2> HIDE DEF q
  <2> QED BY <1>1, <2>1, <2>2, <2>3, KeysLast
<1>14. ASSUME NEW r \in Requests, PayEnqueue(r) PROVE KeyInv'
  <2> DEFINE q == [requests[r] EXCEPT !.pc = "reload"]
  <2>1. Becomes(r, q)
    BY <1>14 DEF PayEnqueue, Goto
  <2>2. /\ q.op = requests[r].op /\ q.order = requests[r].order /\ q.key = requests[r].key
        /\ q.pc = "reload" => q.op # "create"
        /\ q.op = "create" => q.reply # "order" \/ requests[r].reply = "order"
    BY <1>2, <1>14 DEF PayEnqueue, AnswerFits, TargetExists, Request
  <2>3. NoNewOrders
    BY <1>3, <1>14 DEF PayEnqueue
  <2> HIDE DEF q
  <2> QED BY <1>1, <2>1, <2>2, <2>3, KeysLast
<1>15. ASSUME NEW r \in Requests, FindRecipes(r) PROVE KeyInv'
  <2> DEFINE items == orders[requests[r].order].items
             next == requests[r].item + 1
             q == [requests[r] EXCEPT !.item = next, !.rows = RowsOf(items[next].product)]
  <2>1. Becomes(r, q)
    BY <1>15 DEF FindRecipes
  <2>2. /\ q.op = requests[r].op /\ q.order = requests[r].order /\ q.key = requests[r].key
        /\ q.pc = "stock" /\ q.reply = requests[r].reply
    BY <1>2, <1>15 DEF FindRecipes, Request
  <2>3. NoNewOrders
    BY <1>3, <1>15 DEF FindRecipes
  <2> HIDE DEF q
  <2> QED BY <1>1, <2>1, <2>2, <2>3, KeysLast
<1>16. ASSUME NEW r \in Requests, MoveStock(r) PROVE KeyInv'
  <2>1. PICK row \in requests[r].rows : Becomes(r, [requests[r] EXCEPT !.rows = @ \ {row}])
    BY <1>16 DEF MoveStock
  <2> DEFINE q == [requests[r] EXCEPT !.rows = @ \ {row}]
  <2>2. /\ q.op = requests[r].op /\ q.order = requests[r].order /\ q.key = requests[r].key
        /\ q.pc = "stock" /\ q.reply = requests[r].reply
    BY <1>2, <1>16 DEF MoveStock, Request
  <2>3. NoNewOrders
    BY <1>3, <1>16 DEF MoveStock
  <2> HIDE DEF q
  <2> QED BY <1>1, <2>1, <2>2, <2>3, KeysLast DEF q
<1>17. ASSUME NEW r \in Requests, VoidRead(r) PROVE KeyInv'
  <2>1. NoNewOrders
    BY <1>3, <1>17 DEF VoidRead
  <2>2. CASE VoidRefusal(requests[r].order) # "none"
    <3> DEFINE q == [requests[r] EXCEPT !.pc = "done", !.reply = VoidRefusal(requests[r].order)]
    <3>1. Becomes(r, q)
      BY <1>17, <2>2 DEF VoidRead, Answer
    <3>2. VoidRefusal(requests[r].order) # "order"
      BY DEF VoidRefusal
    <3>3. q.reply # "order" /\ q.pc = "done"
      BY <1>2, <3>2 DEF Request
    <3> HIDE DEF q
    <3> QED BY <1>1, <2>1, <3>1, <3>3, KeysLast
  <2>3. CASE VoidRefusal(requests[r].order) = "none"
    <3> DEFINE o == requests[r].order
               q == [requests[r] EXCEPT !.pc = "stock",
                      !.item = IF orders[o].status = "paid" THEN 0
                               ELSE Len(orders[o].items)]
    <3>1. Becomes(r, q)
      BY <1>17, <2>3 DEF VoidRead
    <3>2. /\ q.op = requests[r].op /\ q.order = requests[r].order
          /\ q.key = requests[r].key /\ q.reply = requests[r].reply /\ q.pc # "reload"
      BY <1>2 DEF Request
    <3> HIDE DEF q
    <3> QED BY <1>1, <2>1, <3>1, <3>2, KeysLast
  <2> QED BY <2>2, <2>3
<1>18. ASSUME NEW r \in Requests, VoidMark(r) PROVE KeyInv'
  <2> DEFINE q == [requests[r] EXCEPT !.pc = "reload"]
  <2>1. Becomes(r, q)
    BY <1>18 DEF VoidMark, Goto
  <2>2. /\ q.op = requests[r].op /\ q.order = requests[r].order /\ q.key = requests[r].key
        /\ q.pc = "reload" => q.op # "create"
        /\ q.op = "create" => q.reply # "order" \/ requests[r].reply = "order"
    BY <1>2, <1>18 DEF VoidMark, AnswerFits, TargetExists, Request
  <2>3. NoNewOrders
    <3>1. PICK o \in OrderIds : o = requests[r].order /\ orders[o].status # "absent"
      BY <1>2, <1>18 DEF VoidMark, StockDone, TargetExists, Request
    <3>2. \A p \in OrderIds : p # o => orders'[p] = orders[p]
      BY <1>1, <1>18, <3>1 DEF VoidMark
    <3> QED BY <3>1, <3>2 DEF NoNewOrders
  <2> HIDE DEF q
  <2> QED BY <1>1, <2>1, <2>2, <2>3, KeysLast
<1>19. ASSUME NEW r \in Requests, Reload(r) PROVE KeyInv'
  <2> DEFINE q == [requests[r] EXCEPT !.reply = "order",
                              !.pc = IF requests[r].op = "pay" THEN "view" ELSE "done"]
  <2>1. Becomes(r, q)
    BY <1>19 DEF Reload
  <2>2. /\ q.op = requests[r].op /\ q.order = requests[r].order /\ q.key = requests[r].key
        /\ q.pc = "reload" => q.op # "create"
        /\ q.op = "create" => q.reply # "order" \/ requests[r].reply = "order"
    BY <1>2, <1>19 DEF Reload, AnswerFits, TargetExists, Request
  <2>3. NoNewOrders
    BY <1>3, <1>19 DEF Reload
  <2> HIDE DEF q
  <2> QED BY <1>1, <2>1, <2>2, <2>3, KeysLast
<1>20. ASSUME NEW r \in Requests, PublishRead(r) PROVE KeyInv'
  <2> DEFINE q == [requests[r] EXCEPT !.pc = "publish", !.view = orders[requests[r].order].status]
  <2>1. Becomes(r, q)
    BY <1>20 DEF PublishRead
  <2>2. /\ q.op = requests[r].op /\ q.order = requests[r].order /\ q.key = requests[r].key
        /\ q.pc = "reload" => q.op # "create"
        /\ q.op = "create" => q.reply # "order" \/ requests[r].reply = "order"
    BY <1>2, <1>20 DEF PublishRead, AnswerFits, TargetExists, Request
  <2>3. NoNewOrders
    BY <1>3, <1>20 DEF PublishRead
  <2> HIDE DEF q
  <2> QED BY <1>1, <2>1, <2>2, <2>3, KeysLast
<1>21. ASSUME NEW r \in Requests, Publish(r) PROVE KeyInv'
  <2> DEFINE q == [requests[r] EXCEPT !.pc = "done"]
  <2>1. Becomes(r, q)
    BY <1>21 DEF Publish, Goto
  <2>2. /\ q.op = requests[r].op /\ q.order = requests[r].order /\ q.key = requests[r].key
        /\ q.pc = "reload" => q.op # "create"
        /\ q.op = "create" => q.reply # "order" \/ requests[r].reply = "order"
    BY <1>2, <1>21 DEF Publish, AnswerFits, TargetExists, Request
  <2>3. NoNewOrders
    BY <1>3, <1>21 DEF Publish
  <2> HIDE DEF q
  <2> QED BY <1>1, <2>1, <2>2, <2>3, KeysLast
<1>22. ASSUME NEW r \in Requests, Abort(r) PROVE KeyInv'
  <2> DEFINE q == [requests[r] EXCEPT !.pc = "done", !.reply = "error"]
  <2>1. Becomes(r, q)
    BY <1>22 DEF Abort, Answer
  <2>2. /\ q.op = requests[r].op /\ q.order = requests[r].order /\ q.key = requests[r].key
        /\ q.pc = "reload" => q.op # "create"
        /\ q.op = "create" => q.reply # "order" \/ requests[r].reply = "order"
    BY <1>2, <1>22 DEF Abort, AnswerFits, TargetExists, Request
  <2>3. NoNewOrders
    BY <1>3, <1>22 DEF Abort
  <2> HIDE DEF q
  <2> QED BY <1>1, <2>1, <2>2, <2>3, KeysLast
<1>23. ASSUME CreateRecipe PROVE KeyInv'
  BY <1>23 DEF CreateRecipe, KeyInv, UniqueKeys, AnswerFits
<1>24. ASSUME UNCHANGED ordersVars PROVE KeyInv'
  BY <1>24 DEF ordersVars, KeyInv, UniqueKeys, AnswerFits
<1> QED
  BY <1>4, <1>5, <1>6, <1>7, <1>8, <1>9, <1>10, <1>11, <1>12, <1>13, <1>14, <1>15,
     <1>16, <1>17, <1>18, <1>19, <1>20, <1>21, <1>22, <1>23, <1>24
     DEF Next, Arrive, Handle

\* However creates, payments and voids interleave and whatever handler dies half-way,
\* all creates that are answered for one order_no are answered with the same order.
THEOREM OrdersCreateIsIdempotent == Spec => []CreateIsIdempotent
<1>1. TypeInv /\ KeyInv /\ [Next]_ordersVars => (TypeInv /\ KeyInv)'
  BY NextTypeInv, NextKeyInv
<1>2. Init => TypeInv /\ KeyInv
  BY InitTypeInv, InitKeyInv
<1>3. TypeInv /\ KeyInv => CreateIsIdempotent
  <2> SUFFICES ASSUME TypeInv, KeyInv, NEW r \in Requests, NEW s \in Requests,
                      requests[r].op = "create", requests[r].reply = "order",
                      requests[s].op = "create", requests[s].reply = "order",
                      requests[r].key = requests[s].key, requests[r].key # NoKey
               PROVE  requests[r].order = requests[s].order
    BY DEF CreateIsIdempotent
  <2>1. ASSUME NEW t \in Requests, requests[t].op = "create", requests[t].reply = "order"
        PROVE  /\ requests[t].order \in OrderIds
               /\ orders[requests[t].order].key = requests[t].key
               /\ orders[requests[t].order].status # "absent"
    BY <2>1, OrdersAssumption DEF KeyInv, AnswerFits, TypeInv, TargetExists
  <2> QED BY <2>1 DEF KeyInv, UniqueKeys
<1> QED BY <1>1, <1>2, <1>3, PTL DEF Spec

-----------------------------------------------------------------------------
(* What each step of a handler does to its local variables, field by       *)
(* field: the serial proofs need no more of it than this.                  *)

HIDE OrdersAssumption

\* The fields of a request that no step after its arrival changes.
SameRequest(r) ==
    /\ requests'[r].op = requests[r].op
    /\ requests'[r].key = requests[r].key
    /\ requests'[r].cart = requests[r].cart
    /\ requests'[r].amount = requests[r].amount

\* The handler of r takes a step, the others do not.
Alone(r) ==
    /\ DOMAIN requests' = Requests
    /\ \A s \in Requests : s # r => requests'[s] = requests[s]

\* The handler of r goes from one await to another; what it has seen stays.
Moves(r, from, to) ==
    /\ Alone(r)
    /\ SameRequest(r)
    /\ requests[r].pc = from
    /\ requests'[r].pc = to
    /\ requests'[r].order = requests[r].order
    /\ requests'[r].seen = requests[r].seen

\* It does not touch the items it has visited, the recipe rows it holds or its answer.
KeepsRest(r) ==
    /\ requests'[r].item = requests[r].item
    /\ requests'[r].rows = requests[r].rows
    /\ requests'[r].view = requests[r].view
    /\ requests'[r].reply = requests[r].reply

\* Requests are records of their type.
LEMMA RequestTyped ==
    ASSUME TypeOK, NEW r \in Requests
    PROVE  requests[r] \in Request /\ requests \in [Requests -> Request]
  BY DEF TypeOK

\* A request arrives.
LEMMA StartCreateEffect ==
    ASSUME TypeOK, NEW r \in Requests, StartCreate(r)
    PROVE  /\ Alone(r) /\ requests[r].pc = "idle"
           /\ requests'[r].pc = "lookup" /\ requests'[r].op = "create"
           /\ requests'[r].order = NoOrder /\ requests'[r].cart \in Carts
           /\ requests'[r].rows = {} /\ requests'[r].reply = "none"
           /\ UNCHANGED <<orders, used, recipes, jobs, display, aborts>>
  BY DEF StartCreate, Becomes, Alone, TypeOK, IdleRequest

\* A payment of an order that exists, or of none.
LEMMA StartPayEffect ==
    ASSUME TypeOK, NEW r \in Requests, StartPay(r)
    PROVE  /\ Alone(r) /\ requests[r].pc = "idle"
           /\ requests'[r].pc = "payRead" /\ requests'[r].op = "pay"
           /\ requests'[r].order \in OrderIds \cup {NoOrder}
           /\ Target(requests'[r].order)
           /\ requests'[r].amount \in Amounts
           /\ requests'[r].item = 0 /\ requests'[r].rows = {} /\ requests'[r].reply = "none"
           /\ UNCHANGED <<orders, used, recipes, jobs, display, aborts>>
  BY DEF StartPay, Becomes, Alone, TypeOK, IdleRequest

\* A void of an order that exists, or of none.
LEMMA StartVoidEffect ==
    ASSUME TypeOK, NEW r \in Requests, StartVoid(r)
    PROVE  /\ Alone(r) /\ requests[r].pc = "idle"
           /\ requests'[r].pc = "voidRead" /\ requests'[r].op = "void"
           /\ requests'[r].order \in OrderIds \cup {NoOrder}
           /\ Target(requests'[r].order)
           /\ requests'[r].item = 0 /\ requests'[r].rows = {} /\ requests'[r].reply = "none"
           /\ UNCHANGED <<orders, used, recipes, jobs, display, aborts>>
  BY DEF StartVoid, Becomes, Alone, TypeOK, IdleRequest

\* create() finds an order.
LEMMA CreateFoundEffect ==
    ASSUME TypeOK, NEW r \in Requests, CreateFound(r)
    PROVE  /\ Alone(r) /\ SameRequest(r) /\ requests[r].pc = "lookup"
           /\ requests'[r].pc = "done" /\ requests'[r].reply = "order"
           /\ requests'[r].order \in OrderIds
           /\ UNCHANGED <<orders, used, recipes, jobs, display, aborts>>
  BY RequestTyped DEF CreateFound, Becomes, Alone, SameRequest, Request

\* create() finds no order with the order_no.
LEMMA CreateNotFoundEffect ==
    ASSUME TypeOK, NEW r \in Requests, CreateNotFound(r)
    PROVE  /\ Moves(r, "lookup", "insert") /\ KeepsRest(r)
           /\ UNCHANGED <<orders, used, recipes, jobs, display, aborts>>
  BY RequestTyped DEF CreateNotFound, Goto, Becomes, Moves, Alone, SameRequest, KeepsRest, Request

\* create() inserts an order.
LEMMA CreateInsertEffect ==
    ASSUME TypeOK, NEW r \in Requests, CreateInsert(r)
    PROVE  /\ Alone(r) /\ SameRequest(r) /\ requests[r].pc = "insert"
           /\ KeyIsFree(r)
           /\ requests'[r].pc = "view" /\ requests'[r].reply = "order"
           /\ requests'[r].order \in OrderIds
           /\ orders[requests'[r].order].status = "absent"
           /\ orders' = [orders EXCEPT ![requests'[r].order] =
                            NewRow(requests[r].key, requests[r].cart)]
           /\ requests'[r].rows = requests[r].rows
           /\ UNCHANGED <<used, recipes, jobs, display, aborts>>
<1>1. requests[r] \in Request /\ requests \in [Requests -> Request]
  BY RequestTyped
<1>2. PICK o \in OrderIds :
         /\ orders[o].status = "absent"
         /\ orders' = [orders EXCEPT ![o] = NewRow(requests[r].key, requests[r].cart)]
         /\ Becomes(r, [requests[r] EXCEPT !.pc = "view", !.order = o, !.reply = "order"])
  BY DEF CreateInsert
<1>3. /\ Alone(r) /\ SameRequest(r)
      /\ requests'[r].pc = "view" /\ requests'[r].order = o /\ requests'[r].reply = "order"
      /\ requests'[r].rows = requests[r].rows
  BY <1>1, <1>2 DEF Becomes, Alone, SameRequest, Request
<1> QED BY <1>2, <1>3 DEF CreateInsert

\* create() loses the race.
LEMMA CreateConflictEffect ==
    ASSUME TypeOK, NEW r \in Requests, CreateConflict(r)
    PROVE  /\ Moves(r, "insert", "done") /\ requests'[r].reply = "error"
           /\ UNCHANGED <<orders, used, recipes, jobs, display, aborts>>
  BY RequestTyped DEF CreateConflict, Answer, Becomes, Moves, Alone, SameRequest, Request

\* addPayment() refuses, or goes on with the payments it has seen.
LEMMA PayReadEffect ==
    ASSUME TypeOK, NEW r \in Requests, PayRead(r)
    PROVE  /\ Alone(r) /\ SameRequest(r) /\ requests[r].pc = "payRead"
           /\ requests'[r].order = requests[r].order
           /\ requests'[r].rows = requests[r].rows
           /\ requests'[r].item = requests[r].item
           /\ \/ /\ PayRefusal(requests[r].order) # "none"
                 /\ requests'[r].pc = "done"
                 /\ requests'[r].reply = PayRefusal(requests[r].order)
              \/ /\ PayRefusal(requests[r].order) = "none"
                 /\ requests'[r].pc = "save"
                 /\ requests'[r].reply = requests[r].reply
                 /\ requests'[r].seen = orders[requests[r].order].received
           /\ UNCHANGED <<orders, used, recipes, jobs, display, aborts>>
<1>1. requests[r] \in Request /\ requests \in [Requests -> Request]
  BY RequestTyped
<1> DEFINE o == requests[r].order
           seen == orders[o].received
           refusal == PayRefusal(o)
<1>2. /\ requests[r].pc = "payRead"
      /\ UNCHANGED <<orders, used, recipes, jobs, display, aborts>>
      /\ \/ refusal # "none" /\ Answer(r, refusal)
         \/ refusal = "none" /\ Becomes(r, [requests[r] EXCEPT !.pc = "save", !.seen = seen])
  BY DEF PayRead
<1> HIDE DEF seen, refusal
<1>3. CASE refusal # "none" /\ Answer(r, refusal)
  <2>1. /\ Alone(r) /\ SameRequest(r) /\ requests'[r].order = o
        /\ requests'[r].rows = requests[r].rows /\ requests'[r].item = requests[r].item
        /\ requests'[r].pc = "done" /\ requests'[r].reply = refusal
    BY <1>1, <1>3 DEF Answer, Becomes, Alone, SameRequest, Request
  <2> QED BY <1>2, <1>3, <2>1 DEF refusal
<1>4. CASE refusal = "none" /\ Becomes(r, [requests[r] EXCEPT !.pc = "save", !.seen = seen])
  <2>1. /\ Alone(r) /\ SameRequest(r) /\ requests'[r].order = o
        /\ requests'[r].rows = requests[r].rows /\ requests'[r].item = requests[r].item
        /\ requests'[r].pc = "save" /\ requests'[r].seen = seen
        /\ requests'[r].reply = requests[r].reply
    BY <1>1, <1>4 DEF Becomes, Alone, SameRequest, Request
  <2> QED BY <1>2, <1>4, <2>1 DEF refusal, seen
<1> QED BY <1>2, <1>3, <1>4

\* addPayment() saves the payment and decides whether it settles the order.
LEMMA PaySaveEffect ==
    ASSUME TypeOK, NEW r \in Requests, PaySave(r)
    PROVE  /\ Moves(r, "save", IF Settles(r) THEN "mark" ELSE "reload") /\ KeepsRest(r)
           /\ orders' = [orders EXCEPT ![requests[r].order].received = @ + requests[r].amount]
           /\ UNCHANGED <<used, recipes, jobs, display, aborts>>
<1>1. requests[r] \in Request /\ requests \in [Requests -> Request]
  BY RequestTyped
<1> DEFINE to == IF Settles(r) THEN "mark" ELSE "reload"
<1>2. Goto(r, to) /\ requests[r].pc = "save"
  BY DEF PaySave
<1> HIDE DEF to
<1>3. Moves(r, "save", to) /\ KeepsRest(r)
  BY <1>1, <1>2 DEF Goto, Becomes, Moves, Alone, SameRequest, KeepsRest, Request
<1> QED BY <1>3 DEF to, PaySave

\* addPayment() marks the order PAID.
LEMMA PayMarkEffect ==
    ASSUME TypeOK, NEW r \in Requests, PayMark(r)
    PROVE  /\ Moves(r, "mark", "stock") /\ KeepsRest(r)
           /\ orders' = [orders EXCEPT ![requests[r].order].status = "paid"]
           /\ UNCHANGED <<used, recipes, jobs, display, aborts>>
  BY RequestTyped DEF PayMark, Goto, Becomes, Moves, Alone, SameRequest, KeepsRest, Request

\* addPayment() queues the accounting job.
LEMMA PayEnqueueEffect ==
    ASSUME TypeOK, NEW r \in Requests, PayEnqueue(r)
    PROVE  /\ Moves(r, "stock", "reload") /\ KeepsRest(r)
           /\ requests[r].op = "pay" /\ requests[r].rows = {}
           /\ requests[r].item = Len(orders[requests[r].order].items)
           /\ jobs' = [jobs EXCEPT ![requests[r].order] = @ + 1]
           /\ UNCHANGED <<orders, used, recipes, display, aborts>>
  BY RequestTyped DEF PayEnqueue, StockDone, Goto, Becomes, Moves, Alone, SameRequest, KeepsRest, Request

\* deductStock() and restoreStock() look up the rows of the next item.
LEMMA FindRecipesEffect ==
    ASSUME TypeOK, NEW r \in Requests, FindRecipes(r)
    PROVE  /\ Moves(r, "stock", "stock") /\ requests[r].rows = {}
           /\ requests'[r].item = requests[r].item + 1
           /\ requests'[r].item \in 1 .. Len(orders[requests[r].order].items)
           /\ requests'[r].rows = RowsOf(orders[requests[r].order].items[requests'[r].item].product)
           /\ requests'[r].reply = requests[r].reply
           /\ UNCHANGED <<orders, used, recipes, jobs, display, aborts>>
<1>1. requests[r] \in Request /\ requests \in [Requests -> Request]
  BY RequestTyped
<1> DEFINE next == requests[r].item + 1
           rows == RowsOf(orders[requests[r].order].items[next].product)
<1>2. /\ requests[r].pc = "stock" /\ requests[r].rows = {}
      /\ next \in 1 .. Len(orders[requests[r].order].items)
      /\ requests' = [requests EXCEPT ![r] = [requests[r] EXCEPT !.item = next, !.rows = rows]]
      /\ UNCHANGED <<orders, used, recipes, jobs, display, aborts>>
  BY DEF FindRecipes, Becomes
<1>3. requests'[r] = [requests[r] EXCEPT !.item = next, !.rows = rows] /\ Alone(r)
  BY <1>1, <1>2 DEF Alone
<1> HIDE DEF next, rows
<1>4. requests'[r].item = next /\ requests'[r].rows = rows /\ Moves(r, "stock", "stock")
      /\ requests'[r].reply = requests[r].reply
  BY <1>1, <1>2, <1>3 DEF Moves, SameRequest, Request
<1> QED BY <1>2, <1>4 DEF next, rows

\* One UPDATE of stock.
LEMMA MoveStockEffect ==
    ASSUME TypeOK, NEW r \in Requests, MoveStock(r)
    PROVE  \E row \in requests[r].rows :
               /\ Moves(r, "stock", "stock")
               /\ requests'[r].item = requests[r].item
               /\ requests'[r].rows = requests[r].rows \ {row}
               /\ requests'[r].reply = requests[r].reply
               /\ used' = [used EXCEPT ![requests[r].order][row.ingredient] =
                                           @ + StockChange(r, row)]
               /\ UNCHANGED <<orders, recipes, jobs, display, aborts>>
<1>1. requests[r] \in Request /\ requests \in [Requests -> Request]
  BY RequestTyped
<1>2. PICK row \in requests[r].rows :
         /\ used' = [used EXCEPT ![requests[r].order][row.ingredient] = @ + StockChange(r, row)]
         /\ Becomes(r, [requests[r] EXCEPT !.rows = @ \ {row}])
  BY DEF MoveStock
<1>3. /\ Moves(r, "stock", "stock")
      /\ requests'[r].item = requests[r].item
      /\ requests'[r].rows = requests[r].rows \ {row}
      /\ requests'[r].reply = requests[r].reply
  BY <1>1, <1>2 DEF MoveStock, Becomes, Moves, Alone, SameRequest, Request
<1> QED BY <1>2, <1>3 DEF MoveStock

\* voidOrder() refuses, or goes on with all items of a paid order and none of a pending one.
LEMMA VoidReadEffect ==
    ASSUME TypeOK, NEW r \in Requests, VoidRead(r)
    PROVE  /\ Alone(r) /\ SameRequest(r) /\ requests[r].pc = "voidRead"
           /\ requests'[r].order = requests[r].order
           /\ requests'[r].rows = requests[r].rows
           /\ \/ /\ VoidRefusal(requests[r].order) # "none"
                 /\ requests'[r].pc = "done"
                 /\ requests'[r].reply = VoidRefusal(requests[r].order)
              \/ /\ VoidRefusal(requests[r].order) = "none"
                 /\ requests'[r].pc = "stock"
                 /\ requests'[r].reply = requests[r].reply
                 /\ requests'[r].item = IF orders[requests[r].order].status = "paid" THEN 0
                                        ELSE Len(orders[requests[r].order].items)
           /\ UNCHANGED <<orders, used, recipes, jobs, display, aborts>>
<1>1. requests[r] \in Request /\ requests \in [Requests -> Request]
  BY RequestTyped
<1> DEFINE o == requests[r].order
           first == IF orders[o].status = "paid" THEN 0 ELSE Len(orders[o].items)
           refusal == VoidRefusal(o)
<1>2. /\ requests[r].pc = "voidRead"
      /\ UNCHANGED <<orders, used, recipes, jobs, display, aborts>>
      /\ \/ refusal # "none" /\ Answer(r, refusal)
         \/ refusal = "none" /\ Becomes(r, [requests[r] EXCEPT !.pc = "stock", !.item = first])
  BY DEF VoidRead
<1> HIDE DEF first, refusal
<1>3. CASE refusal # "none" /\ Answer(r, refusal)
  <2>1. /\ Alone(r) /\ SameRequest(r) /\ requests'[r].order = o
        /\ requests'[r].rows = requests[r].rows
        /\ requests'[r].pc = "done" /\ requests'[r].reply = refusal
    BY <1>1, <1>3 DEF Answer, Becomes, Alone, SameRequest, Request
  <2> QED BY <1>2, <1>3, <2>1 DEF refusal
<1>4. CASE refusal = "none" /\ Becomes(r, [requests[r] EXCEPT !.pc = "stock", !.item = first])
  <2>1. /\ Alone(r) /\ SameRequest(r) /\ requests'[r].order = o
        /\ requests'[r].rows = requests[r].rows
        /\ requests'[r].pc = "stock" /\ requests'[r].item = first
        /\ requests'[r].reply = requests[r].reply
    BY <1>1, <1>4 DEF Becomes, Alone, SameRequest, Request
  <2> QED BY <1>2, <1>4, <2>1 DEF refusal, first
<1> QED BY <1>2, <1>3, <1>4

\* voidOrder() marks the order VOID.
LEMMA VoidMarkEffect ==
    ASSUME TypeOK, NEW r \in Requests, VoidMark(r)
    PROVE  /\ Moves(r, "stock", "reload") /\ KeepsRest(r)
           /\ requests[r].op = "void" /\ requests[r].rows = {}
           /\ requests[r].item = Len(orders[requests[r].order].items)
           /\ orders' = [orders EXCEPT ![requests[r].order].status = "void"]
           /\ UNCHANGED <<used, recipes, jobs, display, aborts>>
  BY RequestTyped DEF VoidMark, StockDone, Goto, Becomes, Moves, Alone, SameRequest, KeepsRest, Request

\* The handler answers, or goes on to publish.
LEMMA ReloadEffect ==
    ASSUME TypeOK, NEW r \in Requests, Reload(r)
    PROVE  /\ Moves(r, "reload", IF requests[r].op = "pay" THEN "view" ELSE "done")
           /\ requests'[r].rows = requests[r].rows /\ requests'[r].reply = "order"
           /\ UNCHANGED <<orders, used, recipes, jobs, display, aborts>>
  BY RequestTyped DEF Reload, Becomes, Moves, Alone, SameRequest, Request

\* publishCfdSnapshot() reads the order.
LEMMA PublishReadEffect ==
    ASSUME TypeOK, NEW r \in Requests, PublishRead(r)
    PROVE  /\ Moves(r, "view", "publish") /\ requests'[r].rows = requests[r].rows
           /\ requests'[r].view = orders[requests[r].order].status
           /\ requests'[r].reply = requests[r].reply
           /\ UNCHANGED <<orders, used, recipes, jobs, display, aborts>>
  BY RequestTyped DEF PublishRead, Becomes, Moves, Alone, SameRequest, Request

\* publishCfdSnapshot() publishes it.
LEMMA PublishEffect ==
    ASSUME TypeOK, NEW r \in Requests, Publish(r)
    PROVE  /\ Moves(r, "publish", "done") /\ KeepsRest(r)
           /\ display' = [order |-> requests[r].order, status |-> requests[r].view]
           /\ UNCHANGED <<orders, used, recipes, jobs, aborts>>
  BY RequestTyped DEF Publish, Goto, Becomes, Moves, Alone, SameRequest, KeepsRest, Request

\* A handler dies.
LEMMA AbortEffect ==
    ASSUME TypeOK, NEW r \in Requests, Abort(r)
    PROVE  /\ Alone(r) /\ SameRequest(r) /\ Active(r)
           /\ requests[r].order \notin Calm
           /\ requests'[r].pc = "done" /\ requests'[r].reply = "error"
           /\ requests'[r].order = requests[r].order
           /\ aborts' = aborts + 1
           /\ UNCHANGED <<orders, used, recipes, jobs, display>>
  BY RequestTyped DEF Abort, Answer, Becomes, Alone, SameRequest, Request

-----------------------------------------------------------------------------
(* Where clients take turns, no other handler comes between a read and the *)
(* write that rests on it: what a handler read is still so.                *)

\* What a request may be at each of its awaits.
RequestFits(r) ==
    /\ requests[r].pc \in {"lookup", "insert"} =>
           /\ requests[r].op = "create" /\ requests[r].order = NoOrder
           /\ requests[r].cart \in Carts
    /\ requests[r].pc \in {"payRead", "save"} => requests[r].amount \in Amounts
    /\ requests[r].pc \in {"payRead", "save", "mark"} => requests[r].item = 0
    /\ requests[r].pc \in {"stock", "reload"} => requests[r].op \in {"pay", "void"}
    /\ requests[r].pc \in {"view", "publish"} => requests[r].op # "void"
    /\ requests[r].reply = "alreadyPaid" => requests[r].pc = "done"
    /\ requests[r].pc = "stock" =>
           /\ requests[r].item \in 0 .. Len(orders[requests[r].order].items)
           /\ requests[r].rows # {} =>
                  requests[r].rows \subseteq
                      RowsOf(orders[requests[r].order].items[requests[r].item].product)

\* A primary key without a row has nothing booked on it.
Blank(o) ==
    orders[o].status = "absent" => /\ orders[o] = NoRow
                                   /\ used[o] = NoStock
                                   /\ jobs[o] = 0

\* On an order on which clients take turns, what a handler read is still so.
HandlerFits(r) ==
    LET o == requests[r].order
    IN  o \in Serial =>
        /\ requests[r].pc = "save" => /\ orders[o].status = "pending"
                                      /\ orders[o].received < orders[o].net
                                      /\ requests[r].seen = orders[o].received
        /\ requests[r].pc = "mark" => orders[o].status = "pending"
        /\ requests[r].pc = "stock" /\ requests[r].op = "pay" =>
               orders[o].status = "paid" /\ jobs[o] = 0
        /\ requests[r].pc = "stock" /\ requests[r].op = "void" =>
               /\ orders[o].status \in {"pending", "paid"}
               /\ orders[o].status = "pending" => /\ requests[r].rows = {}
                                                  /\ requests[r].item = Len(orders[o].items)
        /\ requests[r].pc = "reload" /\ requests[r].op = "void" => orders[o].status = "void"

\* Such an order is settled once: before that nothing is drawn or queued for it.
BookFits(o) ==
    o \in Serial => /\ orders[o].status = "pending" => used[o] = NoStock /\ jobs[o] = 0
                    /\ jobs[o] <= 1

\* At most one request works on it at a time.
OneAtATime ==
    \A r, s \in Requests :
        (/\ Active(r) /\ Active(s) /\ requests[r].order \in Serial
         /\ requests[s].order = requests[r].order) => r = s

SerialInv ==
    /\ OneAtATime
    /\ \A r \in Requests : RequestFits(r) /\ HandlerFits(r)
    /\ \A o \in OrderIds : Blank(o) /\ BookFits(o)

\* Initially nothing has happened.
LEMMA InitSerialInv == Init => SerialInv
  BY OrdersAssumption DEF Init, SerialInv, OneAtATime, Active, RequestFits, HandlerFits, Blank, BookFits,
     IdleRequest, NoRow, NoStock

\* What a step of r does not change fits as it did.
LEMMA OthersFit ==
    ASSUME TypeInv, OrdersStay, SerialInv, NEW r \in Requests, Alone(r), recipes' = recipes,
           NEW o, \A p \in OrderIds \ {o} : orders'[p] = orders[p] /\ jobs'[p] = jobs[p],
           NEW s \in Requests, s # r,
           requests[s].order = o /\ o \in Serial => ~Active(s)
    PROVE  RequestFits(s)' /\ HandlerFits(s)'
<1>1. requests'[s] = requests[s] /\ requests[s] \in Request /\ TargetExists(s)
  BY RequestTyped DEF Alone, TypeInv
<1>2. RequestFits(s) /\ HandlerFits(s)
  BY DEF SerialInv
<1>3. requests[s].order \in OrderIds \cup {NoOrder}
  BY <1>1 DEF Request
<1>4. requests[s].pc = "stock" =>
         orders'[requests[s].order].items = orders[requests[s].order].items
  BY <1>1, <1>3 DEF TargetExists, OrdersStay
<1>5. RequestFits(s)'
  BY <1>1, <1>2, <1>4 DEF RequestFits, RowsOf
<1>6. HandlerFits(s)'
  <2>1. CASE requests[s].order \in OrderIds \ {o}
    BY <1>1, <1>2, <2>1 DEF HandlerFits
  <2>2. CASE requests[s].order \notin OrderIds
    BY <1>1, <2>2, OrdersAssumption DEF HandlerFits
  <2>3. CASE requests[s].order = o
    BY <1>1, <2>3 DEF HandlerFits, Active
  <2> QED BY <2>1, <2>2, <2>3
<1> QED BY <1>5, <1>6

\* A step of an active handler does not make two of one.
LEMMA StillOneAtATime ==
    ASSUME SerialInv, NEW r \in Requests, Alone(r), Active(r),
           requests'[r].order = requests[r].order
    PROVE  OneAtATime'
  BY DEF SerialInv, OneAtATime, Alone, Active

\* While r is active on an order, no other request is.
LEMMA OthersElsewhere ==
    ASSUME SerialInv, NEW r \in Requests, Active(r), NEW s \in Requests, s # r
    PROVE  requests[s].order = requests[r].order /\ requests[r].order \in Serial => ~Active(s)
  BY DEF SerialInv, OneAtATime

\* Books that a step does not touch stay right.
LEMMA BooksLast ==
    ASSUME SerialInv, NEW o \in OrderIds,
           orders'[o] = orders[o], used'[o] = used[o], jobs'[o] = jobs[o]
    PROVE  Blank(o)' /\ BookFits(o)'
<1>1. Blank(o) /\ BookFits(o)
  BY DEF SerialInv
<1> QED BY <1>1 DEF Blank, BookFits, NoRow, NoStock

\* A step of r that changes no table keeps the invariant if r still fits.
LEMMA QuietSerial ==
    ASSUME TypeInv, SerialInv, NEW r \in Requests, Alone(r),
           UNCHANGED <<orders, used, recipes, jobs>>,
           OneAtATime', RequestFits(r)', HandlerFits(r)'
    PROVE  SerialInv'
<1>1. OrdersStay
  BY SameOrdersStay
<1>2. ASSUME NEW s \in Requests, s # r PROVE RequestFits(s)' /\ HandlerFits(s)'
  <2>1. NoOrder \notin Serial
    BY OrdersAssumption
  <2>2. \A p \in OrderIds \ {NoOrder} : orders'[p] = orders[p] /\ jobs'[p] = jobs[p]
    OBVIOUS
  <2> QED BY <1>1, <1>2, <2>1, <2>2, OthersFit
<1>3. ASSUME NEW o \in OrderIds PROVE Blank(o)' /\ BookFits(o)'
  BY BooksLast
<1> QED BY <1>2, <1>3 DEF SerialInv

\* A step of r on an order of its own keeps the invariant if r and the order still fit.
LEMMA OwnSerial ==
    ASSUME TypeInv, OrdersStay, SerialInv, NEW r \in Requests, Alone(r), recipes' = recipes,
           NEW o \in OrderIds,
           \A p \in OrderIds \ {o} : /\ orders'[p] = orders[p]
                                     /\ used'[p] = used[p]
                                     /\ jobs'[p] = jobs[p],
           \A s \in Requests \ {r} : requests[s].order = o /\ o \in Serial => ~Active(s),
           OneAtATime', RequestFits(r)', HandlerFits(r)', Blank(o)', BookFits(o)'
    PROVE  SerialInv'
<1>1. ASSUME NEW s \in Requests, s # r PROVE RequestFits(s)' /\ HandlerFits(s)'
  BY <1>1, OthersFit
<1>2. ASSUME NEW p \in OrderIds, p # o PROVE Blank(p)' /\ BookFits(p)'
  BY <1>2, BooksLast
<1> QED BY <1>1, <1>2 DEF SerialInv

\* A payment, a marking or a movement of stock does not make a row blank.
LEMMA StillThere ==
    ASSUME OrdersStay, NEW o \in OrderIds, orders[o].status # "absent"
    PROVE  Blank(o)'
  BY DEF OrdersStay, Blank

\* Every step keeps it.
LEMMA NextSerialInv == TypeInv /\ SerialInv /\ [Next]_ordersVars => SerialInv'
<1> SUFFICES ASSUME TypeInv, SerialInv, [Next]_ordersVars PROVE SerialInv'
  OBVIOUS
<1>1. TypeOK /\ OrdersStay
  BY NextTypeInv DEF TypeInv
<1>2. \A r \in Requests : requests[r] \in Request /\ TargetExists(r) /\ RequestFits(r) /\ HandlerFits(r)
  BY <1>1, RequestTyped DEF TypeInv, SerialInv
<1>3. NoOrder \notin OrderIds /\ Serial \subseteq OrderIds
  BY OrdersAssumption
<1>4. ASSUME NEW r \in Requests, StartCreate(r) PROVE SerialInv'
  <2>1. OneAtATime'
    BY <1>1, <1>3, <1>4, StartCreateEffect DEF SerialInv, OneAtATime, Alone, Active
  <2>2. RequestFits(r)' /\ HandlerFits(r)'
    BY <1>1, <1>4, StartCreateEffect DEF RequestFits, HandlerFits
  <2> QED BY <1>1, <1>4, <2>1, <2>2, StartCreateEffect, QuietSerial
<1>5. ASSUME NEW r \in Requests, StartPay(r) PROVE SerialInv'
  <2>1. OneAtATime'
    BY <1>1, <1>3, <1>5, StartPayEffect DEF SerialInv, OneAtATime, Alone, Active, Target, Quiescent
  <2>2. RequestFits(r)' /\ HandlerFits(r)'
    BY <1>1, <1>5, StartPayEffect DEF RequestFits, HandlerFits
  <2> QED BY <1>1, <1>5, <2>1, <2>2, StartPayEffect, QuietSerial
<1>6. ASSUME NEW r \in Requests, StartVoid(r) PROVE SerialInv'
  <2>1. OneAtATime'
    BY <1>1, <1>3, <1>6, StartVoidEffect DEF SerialInv, OneAtATime, Alone, Active, Target, Quiescent
  <2>2. RequestFits(r)' /\ HandlerFits(r)'
    BY <1>1, <1>6, StartVoidEffect DEF RequestFits, HandlerFits
  <2> QED BY <1>1, <1>6, <2>1, <2>2, StartVoidEffect, QuietSerial
<1>7. ASSUME NEW r \in Requests, CreateFound(r) PROVE SerialInv'
  <2>1. OneAtATime'
    BY <1>1, <1>7, CreateFoundEffect DEF SerialInv, OneAtATime, Alone, Active
  <2>2. RequestFits(r)' /\ HandlerFits(r)'
    BY <1>1, <1>7, CreateFoundEffect DEF RequestFits, HandlerFits
  <2> QED BY <1>1, <1>7, <2>1, <2>2, CreateFoundEffect, QuietSerial
<1>8. ASSUME NEW r \in Requests, CreateNotFound(r) PROVE SerialInv'
  <2>1. Moves(r, "lookup", "insert") /\ KeepsRest(r) /\ UNCHANGED <<orders, used, recipes, jobs>>
    BY <1>1, <1>8, CreateNotFoundEffect
  <2>2. OneAtATime'
    BY <2>1, StillOneAtATime DEF Moves, Active
  <2>3. RequestFits(r)' /\ HandlerFits(r)'
    BY <1>2, <2>1 DEF RequestFits, HandlerFits, Moves, SameRequest, KeepsRest
  <2> QED BY <2>1, <2>2, <2>3, QuietSerial DEF Moves
<1>9. ASSUME NEW r \in Requests, CreateInsert(r) PROVE SerialInv'
  <2>0. PICK o \in OrderIds : o = requests'[r].order
    BY <1>1, <1>9, CreateInsertEffect
  <2>1. /\ Alone(r) /\ SameRequest(r) /\ requests[r].pc = "insert"
        /\ requests'[r].pc = "view" /\ requests'[r].reply = "order"
        /\ orders[o].status = "absent"
        /\ orders' = [orders EXCEPT ![o] = NewRow(requests[r].key, requests[r].cart)]
        /\ UNCHANGED <<used, recipes, jobs>>
    BY <1>1, <1>9, <2>0, CreateInsertEffect
  <2>2. \A s \in Requests : requests[s].order # o
    BY <1>2, <1>3, <2>1 DEF TargetExists
  <2>3. OneAtATime'
    BY <2>0, <2>1, <2>2 DEF SerialInv, OneAtATime, Alone, Active
  <2>4. RequestFits(r)' /\ HandlerFits(r)'
    BY <1>2, <2>1 DEF RequestFits, HandlerFits, SameRequest
  <2>5. \A p \in OrderIds \ {o} : orders'[p] = orders[p] /\ used'[p] = used[p] /\ jobs'[p] = jobs[p]
    BY <2>1
  <2>6. orders'[o].status = "pending"
    BY <1>1, <2>1 DEF TypeOK, NewRow
  <2>7. Blank(o)' /\ BookFits(o)'
    BY <2>1, <2>6 DEF SerialInv, Blank, BookFits, NoStock
  <2> QED BY <1>1, <2>1, <2>2, <2>3, <2>4, <2>5, <2>7, OwnSerial
<1>10. ASSUME NEW r \in Requests, CreateConflict(r) PROVE SerialInv'
  <2>1. Moves(r, "insert", "done") /\ requests'[r].reply = "error"
        /\ UNCHANGED <<orders, used, recipes, jobs>>
    BY <1>1, <1>10, CreateConflictEffect
  <2>2. OneAtATime'
    BY <2>1, StillOneAtATime DEF Moves, Active
  <2>3. RequestFits(r)' /\ HandlerFits(r)'
    BY <2>1 DEF RequestFits, HandlerFits, Moves
  <2> QED BY <2>1, <2>2, <2>3, QuietSerial DEF Moves
<1>11. ASSUME NEW r \in Requests, PayRead(r) PROVE SerialInv'
  <2> DEFINE o == requests[r].order
  <2>1. /\ Alone(r) /\ SameRequest(r) /\ requests[r].pc = "payRead"
        /\ requests'[r].order = o
        /\ \/ requests'[r].pc = "done"
           \/ /\ PayRefusal(o) = "none"
              /\ requests'[r].pc = "save" /\ requests'[r].reply = requests[r].reply
              /\ requests'[r].seen = orders[o].received
        /\ requests'[r].item = requests[r].item
        /\ UNCHANGED <<orders, used, recipes, jobs>>
    BY <1>1, <1>11, PayReadEffect
  <2>2. OneAtATime'
    BY <2>1, StillOneAtATime DEF Active
  <2>3. RequestFits(r)'
    BY <1>2, <2>1 DEF RequestFits, SameRequest
  <2>4. HandlerFits(r)'
    <3>1. CASE requests'[r].pc = "done"
      BY <3>1 DEF HandlerFits
    <3>2. CASE requests'[r].pc # "done" /\ o \in Serial
      <4>1. orders[o].status \in Status \ {"absent"} /\ orders[o].received \in Int /\ orders[o].net \in Int
        BY <1>1, <1>2, <1>3, <3>2 DEF TypeOK, Row, TargetExists
      <4>2. orders[o].status = "pending" /\ ~Covered(o)
        BY <1>3, <2>1, <3>2, <4>1 DEF PayRefusal, Status
      <4>3. orders[o].received < orders[o].net
        BY <4>1, <4>2 DEF Covered
      <4> QED BY <2>1, <3>2, <4>2, <4>3 DEF HandlerFits
    <3>3. CASE o \notin Serial
      BY <2>1, <3>3 DEF HandlerFits
    <3> QED BY <3>1, <3>2, <3>3
  <2> QED BY <2>1, <2>2, <2>3, <2>4, QuietSerial
<1>12. ASSUME NEW r \in Requests, PaySave(r) PROVE SerialInv'
  <2>0. PICK o \in OrderIds : o = requests[r].order
    BY <1>1, <1>2, <1>12, PaySaveEffect DEF Moves, TargetExists, Request
  <2> DEFINE to == IF Settles(r) THEN "mark" ELSE "reload"
  <2>1. /\ Moves(r, "save", to) /\ KeepsRest(r)
        /\ orders' = [orders EXCEPT ![o].received = @ + requests[r].amount]
        /\ UNCHANGED <<used, recipes, jobs>>
    BY <1>1, <1>12, <2>0, PaySaveEffect
  <2>2. o \in OrderIds /\ orders[o].status # "absent" /\ orders[o] \in Row /\ requests[r].op = "pay"
    BY <1>1, <1>2, <1>3, <2>0, <2>1 DEF Moves, TargetExists, Request, TypeOK
  <2>3. to \in {"mark", "reload"}
    OBVIOUS
  <2>4. orders'[o].status = orders[o].status
    BY <1>1, <2>1, <2>2 DEF TypeOK, Row
  <2> HIDE DEF to
  <2>5. OneAtATime' /\ \A s \in Requests \ {r} : requests[s].order = o /\ o \in Serial => ~Active(s)
    BY <2>0, <2>1, StillOneAtATime, OthersElsewhere DEF Moves, Active
  <2>6. RequestFits(r)'
    BY <1>2, <2>1, <2>2, <2>3 DEF RequestFits, Moves, SameRequest, KeepsRest
  <2>7. HandlerFits(r)'
    BY <2>0, <1>2, <2>1, <2>2, <2>3, <2>4 DEF HandlerFits, Moves, SameRequest
  <2>8. Blank(o)' /\ BookFits(o)'
    BY <1>1, <2>1, <2>2, <2>4, StillThere DEF SerialInv, BookFits, NoStock
  <2>9. \A p \in OrderIds \ {o} : orders'[p] = orders[p] /\ used'[p] = used[p] /\ jobs'[p] = jobs[p]
    BY <2>1
  <2> QED BY <1>1, <2>1, <2>2, <2>5, <2>6, <2>7, <2>8, <2>9, OwnSerial DEF Moves
<1>13. ASSUME NEW r \in Requests, PayMark(r) PROVE SerialInv'
  <2>0. PICK o \in OrderIds : o = requests[r].order
    BY <1>1, <1>2, <1>13, PayMarkEffect DEF Moves, TargetExists, Request
  <2>1. /\ Moves(r, "mark", "stock") /\ KeepsRest(r)
        /\ orders' = [orders EXCEPT ![o].status = "paid"]
        /\ UNCHANGED <<used, recipes, jobs>>
    BY <1>1, <1>13, <2>0, PayMarkEffect
  <2>2. o \in OrderIds /\ orders[o].status # "absent" /\ orders[o] \in Row /\ requests[r].op = "pay"
    BY <1>1, <1>2, <1>3, <2>0, <2>1 DEF Moves, TargetExists, Request, TypeOK
  <2>3. orders'[o].status = "paid" /\ orders'[o].items = orders[o].items
    BY <1>1, <2>1, <2>2 DEF TypeOK, Row
  <2>4. OneAtATime' /\ \A s \in Requests \ {r} : requests[s].order = o /\ o \in Serial => ~Active(s)
    BY <2>0, <2>1, StillOneAtATime, OthersElsewhere DEF Moves, Active
  <2>5. BookFits(o) /\ HandlerFits(r) /\ RequestFits(r) /\ TargetExists(r)
    BY <1>2, <2>2 DEF SerialInv
  <2>6. RequestFits(r)'
    <3>1. requests'[r].item = 0 /\ requests'[r].rows = {} /\ requests'[r].reply # "alreadyPaid"
      BY <2>1, <2>5 DEF RequestFits, TargetExists, Moves, KeepsRest
    <3>2. Len(orders'[o].items) \in Nat
      BY <2>2, <2>3 DEF Row
    <3> QED BY <2>0, <2>1, <2>2, <3>1, <3>2 DEF RequestFits, Moves, SameRequest
  <2>7. HandlerFits(r)'
    BY <2>0, <2>1, <2>2, <2>3, <2>5 DEF HandlerFits, BookFits, Moves, SameRequest
  <2>8. Blank(o)' /\ BookFits(o)'
    BY <1>1, <2>1, <2>2, <2>3, <2>5, StillThere DEF BookFits
  <2>9. \A p \in OrderIds \ {o} : orders'[p] = orders[p] /\ used'[p] = used[p] /\ jobs'[p] = jobs[p]
    BY <2>1
  <2> QED BY <1>1, <2>1, <2>2, <2>4, <2>6, <2>7, <2>8, <2>9, OwnSerial DEF Moves
<1>14. ASSUME NEW r \in Requests, PayEnqueue(r) PROVE SerialInv'
  <2>0. PICK o \in OrderIds : o = requests[r].order
    BY <1>1, <1>2, <1>14, PayEnqueueEffect DEF Moves, TargetExists, Request
  <2>1. /\ Moves(r, "stock", "reload") /\ KeepsRest(r) /\ requests[r].op = "pay"
        /\ jobs' = [jobs EXCEPT ![o] = @ + 1]
        /\ UNCHANGED <<orders, used, recipes>>
    BY <1>1, <1>14, <2>0, PayEnqueueEffect
  <2>2. o \in OrderIds /\ orders[o].status # "absent" /\ jobs[o] \in Nat
    BY <1>1, <1>2, <1>3, <2>0, <2>1 DEF Moves, TargetExists, Request, TypeOK
  <2>3. jobs'[o] = jobs[o] + 1 /\ orders'[o] = orders[o]
    BY <1>1, <2>1, <2>2 DEF TypeOK
  <2>4. OneAtATime' /\ \A s \in Requests \ {r} : requests[s].order = o /\ o \in Serial => ~Active(s)
    BY <2>0, <2>1, StillOneAtATime, OthersElsewhere DEF Moves, Active
  <2>5. HandlerFits(r) /\ RequestFits(r)
    BY <1>2
  <2>6. RequestFits(r)' /\ HandlerFits(r)'
    BY <2>1, <2>5 DEF RequestFits, HandlerFits, Moves, SameRequest, KeepsRest
  <2>7. o \in Serial => orders[o].status = "paid" /\ jobs[o] = 0
    BY <2>0, <2>1, <2>5 DEF HandlerFits, Moves
  <2>8. Blank(o)' /\ BookFits(o)'
    BY <1>1, <2>2, <2>3, <2>7, StillThere DEF BookFits
  <2>9. \A p \in OrderIds \ {o} : orders'[p] = orders[p] /\ used'[p] = used[p] /\ jobs'[p] = jobs[p]
    BY <2>1
  <2> QED BY <1>1, <2>1, <2>2, <2>4, <2>6, <2>8, <2>9, OwnSerial DEF Moves
<1>15. ASSUME NEW r \in Requests, FindRecipes(r) PROVE SerialInv'
  <2>1. /\ Moves(r, "stock", "stock") /\ requests[r].rows = {}
        /\ requests'[r].item = requests[r].item + 1
        /\ requests'[r].item \in 1 .. Len(orders[requests[r].order].items)
        /\ requests'[r].rows = RowsOf(orders[requests[r].order].items[requests'[r].item].product)
        /\ requests'[r].reply = requests[r].reply
        /\ UNCHANGED <<orders, used, recipes, jobs>>
    BY <1>1, <1>15, FindRecipesEffect
  <2>2. OneAtATime'
    BY <2>1, StillOneAtATime DEF Moves, Active
  <2>3. RequestFits(r)'
    BY <1>2, <2>1 DEF RequestFits, Moves, SameRequest, RowsOf
  <2>4. HandlerFits(r)'
    <3>1. requests[r].item \in Nat
      BY <1>2 DEF Request
    <3>2. requests[r].item # Len(orders[requests[r].order].items)
      BY <2>1, <3>1
    <3> QED BY <1>2, <2>1, <3>2 DEF HandlerFits, Moves, SameRequest
  <2> QED BY <2>1, <2>2, <2>3, <2>4, QuietSerial DEF Moves
<1>16. ASSUME NEW r \in Requests, MoveStock(r) PROVE SerialInv'
  <2>0. PICK o \in OrderIds : o = requests[r].order
    BY <1>1, <1>2, <1>16, MoveStockEffect DEF Moves, TargetExists, Request
  <2>1. PICK row \in requests[r].rows :
          /\ Moves(r, "stock", "stock")
          /\ requests'[r].item = requests[r].item
          /\ requests'[r].rows = requests[r].rows \ {row}
          /\ requests'[r].reply = requests[r].reply
          /\ used' = [used EXCEPT ![o][row.ingredient] = @ + StockChange(r, row)]
          /\ UNCHANGED <<orders, recipes, jobs>>
    BY <1>1, <1>16, <2>0, MoveStockEffect
  <2>2. o \in OrderIds /\ orders[o].status # "absent"
    BY <1>1, <1>2, <1>3, <2>0, <2>1 DEF Moves, TargetExists, Request, TypeOK
  <2>3. \A p \in OrderIds \ {o} : orders'[p] = orders[p] /\ used'[p] = used[p] /\ jobs'[p] = jobs[p]
    BY <2>1
  <2>4. OneAtATime' /\ \A s \in Requests \ {r} : requests[s].order = o /\ o \in Serial => ~Active(s)
    BY <2>0, <2>1, StillOneAtATime, OthersElsewhere DEF Moves, Active
  <2>5. HandlerFits(r) /\ RequestFits(r)
    BY <1>2
  <2>6. RequestFits(r)'
    BY <2>1, <2>5 DEF RequestFits, Moves, SameRequest, RowsOf
  <2>7. HandlerFits(r)'
    BY <2>1, <2>5 DEF HandlerFits, Moves, SameRequest
  <2>8. o \in Serial => orders[o].status # "pending"
    BY <2>0, <2>1, <2>5 DEF HandlerFits, RequestFits, Moves
  <2>9. Blank(o)' /\ BookFits(o)'
    BY <1>1, <2>1, <2>2, <2>8, StillThere DEF SerialInv, BookFits
  <2> QED BY <1>1, <2>1, <2>2, <2>3, <2>4, <2>6, <2>7, <2>9, OwnSerial DEF Moves
<1>17. ASSUME NEW r \in Requests, VoidRead(r) PROVE SerialInv'
  <2> DEFINE o == requests[r].order
  <2>1. /\ Alone(r) /\ SameRequest(r) /\ requests[r].pc = "voidRead"
        /\ requests'[r].order = o /\ requests'[r].rows = requests[r].rows
        /\ \/ requests'[r].pc = "done"
           \/ /\ VoidRefusal(o) = "none"
              /\ requests'[r].pc = "stock" /\ requests'[r].reply = requests[r].reply
              /\ requests'[r].item = IF orders[o].status = "paid" THEN 0 ELSE Len(orders[o].items)
        /\ UNCHANGED <<orders, used, recipes, jobs>>
    BY <1>1, <1>17, VoidReadEffect
  <2>2. OneAtATime'
    BY <2>1, StillOneAtATime DEF Active
  <2>3. requests[r].rows = {} /\ requests[r].op = "void" /\ requests[r].reply # "alreadyPaid"
    BY <1>2, <2>1 DEF RequestFits, TargetExists
  <2>4. CASE requests'[r].pc = "done"
    <3>1. RequestFits(r)' /\ HandlerFits(r)'
      BY <2>4 DEF RequestFits, HandlerFits
    <3> QED BY <2>1, <2>2, <3>1, QuietSerial
  <2>5. CASE requests'[r].pc # "done"
    <3>1. o \in OrderIds
      BY <1>2, <1>3, <2>1, <2>5 DEF VoidRefusal, Request
    <3>2. orders[o].status \in Status \ {"absent", "void"} /\ Len(orders[o].items) \in Nat
      BY <1>1, <1>2, <1>3, <2>1, <2>5, <3>1 DEF VoidRefusal, TypeOK, Row, TargetExists
    <3>3. RequestFits(r)'
      BY <1>2, <2>1, <2>3, <2>5, <3>2 DEF RequestFits, SameRequest
    <3>4. HandlerFits(r)'
      BY <2>1, <2>3, <2>5, <3>2 DEF HandlerFits, SameRequest, Status
    <3> QED BY <2>1, <2>2, <3>3, <3>4, QuietSerial
  <2> QED BY <2>4, <2>5
<1>18. ASSUME NEW r \in Requests, VoidMark(r) PROVE SerialInv'
  <2>0. PICK o \in OrderIds : o = requests[r].order
    BY <1>1, <1>2, <1>18, VoidMarkEffect DEF Moves, TargetExists, Request
  <2>1. /\ Moves(r, "stock", "reload") /\ KeepsRest(r) /\ requests[r].op = "void"
        /\ orders' = [orders EXCEPT ![o].status = "void"]
        /\ UNCHANGED <<used, recipes, jobs>>
    BY <1>1, <1>18, <2>0, VoidMarkEffect
  <2>2. o \in OrderIds /\ orders[o].status # "absent" /\ orders[o] \in Row
    BY <1>1, <1>2, <1>3, <2>0, <2>1 DEF Moves, TargetExists, Request, TypeOK
  <2>3. orders'[o].status = "void"
    BY <1>1, <2>1, <2>2 DEF TypeOK, Row
  <2>4. OneAtATime' /\ \A s \in Requests \ {r} : requests[s].order = o /\ o \in Serial => ~Active(s)
    BY <2>0, <2>1, StillOneAtATime, OthersElsewhere DEF Moves, Active
  <2>5. HandlerFits(r) /\ RequestFits(r)
    BY <1>2
  <2>6. RequestFits(r)' /\ HandlerFits(r)'
    BY <2>0, <2>1, <2>3, <2>5 DEF RequestFits, HandlerFits, Moves, SameRequest, KeepsRest
  <2>7. Blank(o)' /\ BookFits(o)'
    BY <1>1, <2>1, <2>2, <2>3, StillThere DEF SerialInv, BookFits
  <2>8. \A p \in OrderIds \ {o} : orders'[p] = orders[p] /\ used'[p] = used[p] /\ jobs'[p] = jobs[p]
    BY <2>1
  <2> QED BY <1>1, <2>1, <2>2, <2>4, <2>6, <2>7, <2>8, OwnSerial DEF Moves
<1>19. ASSUME NEW r \in Requests, Reload(r) PROVE SerialInv'
  <2>1. Moves(r, "reload", IF requests[r].op = "pay" THEN "view" ELSE "done")
        /\ requests'[r].reply = "order" /\ UNCHANGED <<orders, used, recipes, jobs>>
    BY <1>1, <1>19, ReloadEffect
  <2>2. OneAtATime'
    BY <2>1, StillOneAtATime DEF Moves, Active
  <2>3. RequestFits(r)' /\ HandlerFits(r)'
    BY <2>1 DEF RequestFits, HandlerFits, Moves, SameRequest
  <2> QED BY <2>1, <2>2, <2>3, QuietSerial DEF Moves
<1>20. ASSUME NEW r \in Requests, PublishRead(r) PROVE SerialInv'
  <2>1. Moves(r, "view", "publish") /\ requests'[r].reply = requests[r].reply
        /\ UNCHANGED <<orders, used, recipes, jobs>>
    BY <1>1, <1>20, PublishReadEffect
  <2>2. OneAtATime'
    BY <2>1, StillOneAtATime DEF Moves, Active
  <2>3. RequestFits(r)' /\ HandlerFits(r)'
    BY <1>2, <2>1 DEF RequestFits, HandlerFits, Moves, SameRequest
  <2> QED BY <2>1, <2>2, <2>3, QuietSerial DEF Moves
<1>21. ASSUME NEW r \in Requests, Publish(r) PROVE SerialInv'
  <2>1. Moves(r, "publish", "done") /\ UNCHANGED <<orders, used, recipes, jobs>>
    BY <1>1, <1>21, PublishEffect
  <2>2. OneAtATime'
    BY <2>1, StillOneAtATime DEF Moves, Active
  <2>3. RequestFits(r)' /\ HandlerFits(r)'
    BY <2>1 DEF RequestFits, HandlerFits, Moves
  <2> QED BY <2>1, <2>2, <2>3, QuietSerial DEF Moves
<1>22. ASSUME NEW r \in Requests, Abort(r) PROVE SerialInv'
  <2>1. /\ Alone(r) /\ Active(r) /\ requests'[r].pc = "done"
        /\ requests'[r].order = requests[r].order /\ UNCHANGED <<orders, used, recipes, jobs>>
    BY <1>1, <1>22, AbortEffect
  <2>2. OneAtATime'
    BY <2>1, StillOneAtATime
  <2>3. RequestFits(r)' /\ HandlerFits(r)'
    BY <2>1 DEF RequestFits, HandlerFits
  <2> QED BY <2>1, <2>2, <2>3, QuietSerial
<1>23. ASSUME CreateRecipe PROVE SerialInv'
  <2>1. recipes \subseteq recipes' /\ UNCHANGED <<orders, used, jobs, requests>>
    BY <1>23 DEF CreateRecipe
  <2>2. \A r \in Requests : RequestFits(r)'
    BY <1>2, <2>1 DEF RequestFits, RowsOf
  <2> QED BY <2>1, <2>2
        DEF SerialInv, OneAtATime, Active, HandlerFits, Blank, BookFits, NoRow, NoStock
<1>24. ASSUME UNCHANGED ordersVars PROVE SerialInv'
  BY <1>24 DEF ordersVars, SerialInv, OneAtATime, Active, RequestFits, RowsOf, HandlerFits,
     Blank, BookFits, NoRow, NoStock
<1> QED
  BY <1>4, <1>5, <1>6, <1>7, <1>8, <1>9, <1>10, <1>11, <1>12, <1>13, <1>14, <1>15,
     <1>16, <1>17, <1>18, <1>19, <1>20, <1>21, <1>22, <1>23, <1>24
     DEF Next, Arrive, Handle

-----------------------------------------------------------------------------
(* While clients take turns, what is settled is settled.                   *)

\* A step pays for, or takes from its status, only an order that is not settled.
SettledStays(o) ==
    orders[o].status \in {"paid", "void"} =>
        /\ orders'[o].received = orders[o].received
        /\ orders[o].status = "void" => orders'[o].status = "void"

\* No step changes the payments of a settled order, or the status of a void one.
LEMMA SettledOrdersStay ==
    ASSUME TypeInv, SerialInv, [Next]_ordersVars, NEW o \in Serial
    PROVE  SettledStays(o)
<1>1. TypeOK /\ o \in OrderIds /\ orders[o] \in Row
  BY OrdersAssumption DEF TypeInv, TypeOK
<1>2. \A r \in Requests : HandlerFits(r)
  BY DEF SerialInv
<1>3. CASE orders'[o] = orders[o]
  BY <1>3 DEF SettledStays
<1>4. ASSUME NEW r \in Requests, CreateInsert(r) PROVE SettledStays(o)
  <2>1. /\ orders[requests'[r].order].status = "absent"
        /\ orders' = [orders EXCEPT ![requests'[r].order] =
                         NewRow(requests[r].key, requests[r].cart)]
    BY <1>1, <1>4, CreateInsertEffect
  <2>2. CASE requests'[r].order = o
    BY <2>1, <2>2 DEF SettledStays
  <2> QED BY <1>3, <2>1, <2>2
<1>5. ASSUME NEW r \in Requests, PaySave(r) PROVE SettledStays(o)
  <2>1. requests[r].pc = "save"
        /\ orders' = [orders EXCEPT ![requests[r].order].received = @ + requests[r].amount]
    BY <1>1, <1>5, PaySaveEffect DEF Moves
  <2>2. CASE requests[r].order = o
    BY <1>2, <2>1, <2>2 DEF HandlerFits, SettledStays
  <2> QED BY <1>3, <2>1, <2>2
<1>6. ASSUME NEW r \in Requests, PayMark(r) PROVE SettledStays(o)
  <2>1. requests[r].pc = "mark"
        /\ orders' = [orders EXCEPT ![requests[r].order].status = "paid"]
    BY <1>1, <1>6, PayMarkEffect DEF Moves
  <2>2. CASE requests[r].order = o
    BY <1>2, <2>1, <2>2 DEF HandlerFits, SettledStays
  <2> QED BY <1>3, <2>1, <2>2
<1>7. ASSUME NEW r \in Requests, VoidMark(r) PROVE SettledStays(o)
  <2>1. orders' = [orders EXCEPT ![requests[r].order].status = "void"]
    BY <1>1, <1>7, VoidMarkEffect
  <2>2. orders'[o] = IF requests[r].order = o THEN [orders[o] EXCEPT !.status = "void"] ELSE orders[o]
    BY <1>1, <2>1 DEF TypeOK
  <2> QED BY <1>1, <2>2 DEF SettledStays, Row
<1>8. CASE orders' = orders
  BY <1>3, <1>8
<1> QED
  BY <1>4, <1>5, <1>6, <1>7, <1>8
     DEF Next, Arrive, Handle, ordersVars, StartCreate, StartPay, StartVoid, CreateFound,
         CreateNotFound, CreateConflict, PayRead, PayEnqueue, FindRecipes, MoveStock,
         VoidRead, Reload, PublishRead, Publish, Abort, CreateRecipe

\* Every reachable state is typed, and serial where clients take turns.
LEMMA SerialInvHolds == Spec => [](TypeInv /\ SerialInv)
<1>1. Init => TypeInv /\ SerialInv
  BY InitTypeInv, InitSerialInv
<1>2. TypeInv /\ SerialInv /\ [Next]_ordersVars => (TypeInv /\ SerialInv)'
  BY NextTypeInv, NextSerialInv
<1> QED BY <1>1, <1>2, PTL DEF Spec

\* While clients take turns, a void order stays void (voidOrder, addPayment).
THEOREM OrdersVoidIsFinal ==
    ASSUME Serial = OrderIds
    PROVE  Spec => VoidIsFinal
<1>1. TypeInv /\ SerialInv /\ [Next]_ordersVars =>
         \A o \in OrderIds : orders[o].status = "void" => orders'[o].status = "void"
  BY SettledOrdersStay DEF SettledStays
<1> QED BY <1>1, SerialInvHolds, PTL DEF Spec, VoidIsFinal

\* While clients take turns, no payment is recorded for an order that is paid or void
\* (addPayment).
THEOREM OrdersNoPaymentAfterSettlement ==
    ASSUME Serial = OrderIds
    PROVE  Spec => NoPaymentAfterSettlement
<1>1. TypeInv /\ SerialInv /\ [Next]_ordersVars =>
         \A o \in OrderIds : orders[o].status \in {"paid", "void"}
                                => orders'[o].received = orders[o].received
  BY SettledOrdersStay DEF SettledStays
<1> QED BY <1>1, SerialInvHolds, PTL DEF Spec, NoPaymentAfterSettlement

-----------------------------------------------------------------------------
(* Calm orders are also settled at once, if no cart is free.               *)

\* Every cart costs something: no discount of 100 %, no empty list of items.
NothingIsFree == \A cart \in Carts : cart.net > 0

\* r is about to mark o PAID, or has marked it and is settling it.
Marking(r, o) == requests[r].pc = "mark" /\ requests[r].order = o
Stocking(r, o) == requests[r].pc = "stock" /\ requests[r].op = "pay" /\ requests[r].order = o

\* A covered order is being marked, and a PAID one has its job or is about to get it.
CalmFits(o) ==
    /\ orders[o].status = "pending" /\ Covered(o) => \E r \in Requests : Marking(r, o)
    /\ orders[o].status = "paid" => jobs[o] = 1 \/ \E r \in Requests : Stocking(r, o)

\* A payment refused because the order was paid was refused rightly.
RefusedRightly(r) ==
    (requests[r].reply = "alreadyPaid" /\ requests[r].order \in Calm) =>
        orders[requests[r].order].status \in {"paid", "void"}

CalmInv == (\A o \in Calm : CalmFits(o)) /\ (\A r \in Requests : RefusedRightly(r))

\* Initially there is no order.
LEMMA InitCalmInv == Init => CalmInv
  BY OrdersAssumption DEF Init, CalmInv, CalmFits, RefusedRightly, NoRow, IdleRequest

\* A step that leaves an order and its job alone, and is not the settling of it.
LEMMA CalmLasts ==
    ASSUME NEW o, CalmFits(o), NEW r \in Requests, Alone(r),
           orders'[o] = orders[o], jobs'[o] = jobs[o],
           Marking(r, o) => Marking(r, o)',
           Stocking(r, o) => Stocking(r, o)'
    PROVE  CalmFits(o)'
<1>1. \A s \in Requests : Marking(s, o) => Marking(s, o)'
  BY DEF Alone, Marking
<1>2. \A s \in Requests : Stocking(s, o) => Stocking(s, o)'
  BY DEF Alone, Stocking
<1> QED BY <1>1, <1>2 DEF CalmFits, Covered

\* A settled order stays settled, whoever works on it.
LEMMA SettledForGood ==
    ASSUME TypeInv, [Next]_ordersVars, NEW o \in OrderIds, orders[o].status \in {"paid", "void"}
    PROVE  orders'[o].status \in {"paid", "void"}
<1>1. TypeOK /\ orders[o] \in Row
  BY DEF TypeInv, TypeOK
<1>2. ASSUME NEW r \in Requests, CreateInsert(r) PROVE orders'[o] = orders[o]
  <2>1. /\ orders[requests'[r].order].status = "absent"
        /\ orders' = [orders EXCEPT ![requests'[r].order] =
                         NewRow(requests[r].key, requests[r].cart)]
    BY <1>1, <1>2, CreateInsertEffect
  <2> QED BY <2>1
<1>3. ASSUME NEW r \in Requests, PaySave(r) PROVE orders'[o].status = orders[o].status
  <2>1. orders' = [orders EXCEPT ![requests[r].order].received = @ + requests[r].amount]
    BY <1>1, <1>3, PaySaveEffect
  <2>2. CASE requests[r].order = o
    BY <1>1, <2>1, <2>2 DEF TypeOK, Row
  <2> QED BY <2>1, <2>2
<1>4. ASSUME NEW r \in Requests, PayMark(r) \/ VoidMark(r)
      PROVE  orders'[o].status \in {"paid", "void"}
  <2>1. PICK status \in {"paid", "void"} :
           orders' = [orders EXCEPT ![requests[r].order].status = status]
    BY <1>4 DEF PayMark, VoidMark
  <2>2. CASE requests[r].order = o
    BY <1>1, <2>1, <2>2 DEF TypeOK, Row
  <2> QED BY <2>1, <2>2
<1>5. CASE orders' = orders
  BY <1>5
<1> QED
  BY <1>2, <1>3, <1>4, <1>5
     DEF Next, Arrive, Handle, ordersVars, StartCreate, StartPay, StartVoid, CreateFound,
         CreateNotFound, CreateConflict, PayRead, PayEnqueue, FindRecipes, MoveStock,
         VoidRead, Reload, PublishRead, Publish, Abort, CreateRecipe

\* The handlers that do not step are still right about what they refused.
LEMMA OthersRefusedRightly ==
    ASSUME TypeInv, CalmInv, [Next]_ordersVars, NEW s \in Requests, requests'[s] = requests[s]
    PROVE  RefusedRightly(s)'
  BY SettledForGood, OrdersAssumption DEF CalmInv, RefusedRightly

\* A step that ends no request with a refusal refuses nothing.
LEMMA NothingRefused ==
    ASSUME SerialInv', NEW r \in Requests, requests'[r].pc # "done" \/ requests'[r].reply # "alreadyPaid"
    PROVE  RefusedRightly(r)'
  BY DEF SerialInv, RequestFits, RefusedRightly

\* A step of r that is not a refusal, and leaves the tables alone.
LEMMA QuietCalm ==
    ASSUME TypeInv, SerialInv', CalmInv, [Next]_ordersVars, NEW r \in Requests, Alone(r),
           UNCHANGED <<orders, jobs>>,
           requests'[r].pc # "done" \/ requests'[r].reply # "alreadyPaid",
           \A o \in Calm : /\ Marking(r, o) => Marking(r, o)'
                           /\ Stocking(r, o) => Stocking(r, o)'
    PROVE  CalmInv'
<1>1. \A o \in Calm : CalmFits(o)'
  BY CalmLasts DEF CalmInv
<1>2. ASSUME NEW s \in Requests PROVE RefusedRightly(s)'
  BY OthersRefusedRightly, NothingRefused DEF Alone
<1> QED BY <1>1, <1>2 DEF CalmInv

\* A step of r that settles its order, or takes it further.
LEMMA OwnCalm ==
    ASSUME TypeInv, SerialInv', CalmInv, [Next]_ordersVars, NEW r \in Requests, Alone(r),
           requests'[r].pc # "done", NEW o \in OrderIds, requests[r].order \in {o, NoOrder},
           \A p \in OrderIds \ {o} : orders'[p] = orders[p] /\ jobs'[p] = jobs[p],
           o \in Calm => CalmFits(o)'
    PROVE  CalmInv'
<1>1. ASSUME NEW p \in Calm PROVE CalmFits(p)'
  <2>1. CASE p # o
    <3>1. ~Marking(r, p) /\ ~Stocking(r, p)
      BY <2>1, OrdersAssumption DEF Marking, Stocking
    <3> QED BY <2>1, <3>1, CalmLasts, OrdersAssumption DEF CalmInv
  <2> QED BY <2>1
<1>2. ASSUME NEW s \in Requests PROVE RefusedRightly(s)'
  BY OthersRefusedRightly, NothingRefused DEF Alone
<1> QED BY <1>1, <1>2 DEF CalmInv

\* Every step keeps it.
LEMMA NextCalmInv ==
    ASSUME NothingIsFree
    PROVE  TypeInv /\ SerialInv /\ CalmInv /\ [Next]_ordersVars => CalmInv'
<1> SUFFICES ASSUME TypeInv, SerialInv, CalmInv, [Next]_ordersVars PROVE CalmInv'
  OBVIOUS
<1>1. TypeOK /\ TypeInv' /\ SerialInv'
  BY NextTypeInv, NextSerialInv DEF TypeInv
<1>2. \A r \in Requests : requests[r] \in Request /\ TargetExists(r) /\ RequestFits(r) /\ HandlerFits(r)
  BY <1>1, RequestTyped DEF TypeInv, SerialInv
<1>3. NoOrder \notin OrderIds /\ Calm \subseteq Serial /\ Serial \subseteq OrderIds
  BY OrdersAssumption
<1> USE DEF Marking, Stocking
<1>4. ASSUME NEW r \in Requests, StartCreate(r) PROVE CalmInv'
  BY <1>1, <1>4, StartCreateEffect, QuietCalm
<1>5. ASSUME NEW r \in Requests, StartPay(r) PROVE CalmInv'
  BY <1>1, <1>5, StartPayEffect, QuietCalm
<1>6. ASSUME NEW r \in Requests, StartVoid(r) PROVE CalmInv'
  BY <1>1, <1>6, StartVoidEffect, QuietCalm
<1>7. ASSUME NEW r \in Requests, CreateFound(r) PROVE CalmInv'
  BY <1>1, <1>7, CreateFoundEffect, QuietCalm
<1>8. ASSUME NEW r \in Requests, CreateNotFound(r) PROVE CalmInv'
  BY <1>1, <1>8, CreateNotFoundEffect, QuietCalm DEF Moves
<1>9. ASSUME NEW r \in Requests, CreateInsert(r) PROVE CalmInv'
  <2>0. PICK o \in OrderIds : o = requests'[r].order
    BY <1>1, <1>9, CreateInsertEffect
  <2>1. /\ Alone(r) /\ requests[r].pc = "insert" /\ requests'[r].pc = "view"
        /\ orders' = [orders EXCEPT ![o] = NewRow(requests[r].key, requests[r].cart)]
        /\ jobs' = jobs
    BY <1>1, <1>9, <2>0, CreateInsertEffect
  <2>2. requests[r].order = NoOrder /\ requests[r].cart.net > 0
    BY <1>2, <2>1 DEF RequestFits, NothingIsFree
  <2>3. orders'[o] = NewRow(requests[r].key, requests[r].cart)
    BY <1>1, <2>1 DEF TypeOK
  <2>4. requests[r].cart.net \in Int
    BY <1>2 DEF Request, Cart
  <2>5. CalmFits(o)'
    BY <2>2, <2>3, <2>4 DEF CalmFits, Covered, NewRow
  <2> QED BY <1>1, <2>1, <2>2, <2>5, OwnCalm
<1>10. ASSUME NEW r \in Requests, CreateConflict(r) PROVE CalmInv'
  BY <1>1, <1>10, CreateConflictEffect, QuietCalm DEF Moves
<1>11. ASSUME NEW r \in Requests, PayRead(r) PROVE CalmInv'
  <2>1. /\ Alone(r) /\ requests[r].pc = "payRead" /\ requests'[r].order = requests[r].order
        /\ requests'[r].pc # "done" \/ requests'[r].reply = PayRefusal(requests[r].order)
        /\ UNCHANGED <<orders, jobs>>
    BY <1>1, <1>11, PayReadEffect
  <2>2. ASSUME NEW o \in Calm PROVE CalmFits(o)'
    BY <2>1, CalmLasts DEF CalmInv
  <2>3. RefusedRightly(r)'
    <3>1. CASE requests'[r].pc # "done" \/ requests[r].order \notin Calm
      BY <1>1, <2>1, <3>1, NothingRefused DEF RefusedRightly
    <3>2. CASE requests'[r].pc = "done" /\ requests[r].order \in Calm
      <4>1. PICK o \in Calm : o = requests[r].order
        BY <3>2
      <4>2. CASE orders[o].status \in {"paid", "void"}
        BY <2>1, <4>1, <4>2 DEF RefusedRightly
      <4>3. CASE orders[o].status = "pending" /\ Covered(o)
        <5>1. PICK s \in Requests : Marking(s, o)
          BY <4>3 DEF CalmInv, CalmFits
        <5>2. s # r /\ Active(s) /\ Active(r)
          BY <2>1, <5>1 DEF Active
        <5> QED BY <1>3, <4>1, <5>1, <5>2, OthersElsewhere
      <4>4. CASE ~(orders[o].status \in {"paid", "void"}) /\ ~(orders[o].status = "pending" /\ Covered(o))
        <5>1. PayRefusal(o) # "alreadyPaid"
          BY <1>3, <4>4 DEF PayRefusal
        <5> QED BY <2>1, <3>2, <4>1, <5>1 DEF RefusedRightly
      <4> QED BY <4>2, <4>3, <4>4
    <3> QED BY <3>1, <3>2
  <2>4. ASSUME NEW s \in Requests PROVE RefusedRightly(s)'
    BY <2>1, <2>3, OthersRefusedRightly DEF Alone
  <2> QED BY <2>2, <2>4 DEF CalmInv
<1>12. ASSUME NEW r \in Requests, PaySave(r) PROVE CalmInv'
  <2>0. PICK o \in OrderIds : o = requests[r].order
    BY <1>1, <1>2, <1>12, PaySaveEffect DEF Moves, TargetExists, Request
  <2>1. /\ Moves(r, "save", IF Settles(r) THEN "mark" ELSE "reload")
        /\ orders' = [orders EXCEPT ![o].received = @ + requests[r].amount]
        /\ jobs' = jobs
    BY <1>1, <1>12, <2>0, PaySaveEffect
  <2>2. orders[o] \in Row /\ requests[r].amount \in Int
    BY <1>1, <1>2 DEF TypeOK, Request
  <2>3. /\ orders'[o].received = orders[o].received + requests[r].amount
        /\ orders'[o].net = orders[o].net
        /\ orders'[o].status = orders[o].status
    BY <1>1, <2>1, <2>2 DEF TypeOK, Row
  <2>4. o \in Calm => CalmFits(o)'
    <3>1. SUFFICES ASSUME o \in Calm PROVE CalmFits(o)'
      OBVIOUS
    <3>2. orders[o].status = "pending" /\ requests[r].seen = orders[o].received
      BY <1>2, <1>3, <2>0, <2>1, <3>1 DEF HandlerFits, Moves
    <3>3. CASE Settles(r)
      BY <2>0, <2>1, <2>3, <3>2, <3>3 DEF CalmFits, Moves
    <3>4. CASE ~Settles(r)
      <4>1. ~(orders'[o].received >= orders'[o].net)
        BY <2>0, <2>3, <3>2, <3>4 DEF Settles
      <4> QED BY <2>3, <3>2, <4>1 DEF CalmFits, Covered
    <3> QED BY <3>3, <3>4
  <2>5. Alone(r) /\ requests'[r].pc # "done" /\ requests[r].order = o
    BY <2>0, <2>1 DEF Moves
  <2> QED BY <1>1, <2>1, <2>4, <2>5, OwnCalm
<1>13. ASSUME NEW r \in Requests, PayMark(r) PROVE CalmInv'
  <2>0. PICK o \in OrderIds : o = requests[r].order
    BY <1>1, <1>2, <1>13, PayMarkEffect DEF Moves, TargetExists, Request
  <2>1. /\ Moves(r, "mark", "stock")
        /\ orders' = [orders EXCEPT ![o].status = "paid"]
        /\ jobs' = jobs
    BY <1>1, <1>13, <2>0, PayMarkEffect
  <2>2. requests[r].op = "pay" /\ orders'[o].status = "paid"
    BY <1>1, <1>2, <2>1 DEF Moves, TargetExists, TypeOK, Row
  <2>3. CalmFits(o)'
    BY <2>0, <2>1, <2>2 DEF CalmFits, Moves, SameRequest
  <2> QED BY <1>1, <2>0, <2>1, <2>3, OwnCalm DEF Moves
<1>14. ASSUME NEW r \in Requests, PayEnqueue(r) PROVE CalmInv'
  <2>0. PICK o \in OrderIds : o = requests[r].order
    BY <1>1, <1>2, <1>14, PayEnqueueEffect DEF Moves, TargetExists, Request
  <2>1. /\ Moves(r, "stock", "reload") /\ requests[r].op = "pay"
        /\ jobs' = [jobs EXCEPT ![o] = @ + 1]
        /\ orders' = orders
    BY <1>1, <1>14, <2>0, PayEnqueueEffect
  <2>2. o \in Calm => CalmFits(o)'
    <3>1. SUFFICES ASSUME o \in Calm PROVE CalmFits(o)'
      OBVIOUS
    <3>2. jobs[o] = 0 /\ orders[o].status = "paid"
      BY <1>2, <1>3, <2>0, <2>1, <3>1 DEF HandlerFits, Moves
    <3>3. jobs'[o] = 1
      BY <1>1, <2>1, <3>2 DEF TypeOK
    <3> QED BY <2>1, <3>2, <3>3 DEF CalmFits
  <2> QED BY <1>1, <2>0, <2>1, <2>2, OwnCalm DEF Moves
<1>15. ASSUME NEW r \in Requests, FindRecipes(r) PROVE CalmInv'
  BY <1>1, <1>15, FindRecipesEffect, QuietCalm DEF Moves, SameRequest
<1>16. ASSUME NEW r \in Requests, MoveStock(r) PROVE CalmInv'
  BY <1>1, <1>16, MoveStockEffect, QuietCalm DEF Moves, SameRequest
<1>17. ASSUME NEW r \in Requests, VoidRead(r) PROVE CalmInv'
  <2>1. VoidRefusal(requests[r].order) # "alreadyPaid"
    BY DEF VoidRefusal
  <2> QED BY <1>1, <1>17, <2>1, VoidReadEffect, QuietCalm
<1>18. ASSUME NEW r \in Requests, VoidMark(r) PROVE CalmInv'
  <2>0. PICK o \in OrderIds : o = requests[r].order
    BY <1>1, <1>2, <1>18, VoidMarkEffect DEF Moves, TargetExists, Request
  <2>1. /\ Moves(r, "stock", "reload") /\ requests[r].op = "void"
        /\ orders' = [orders EXCEPT ![o].status = "void"]
        /\ jobs' = jobs
    BY <1>1, <1>18, <2>0, VoidMarkEffect
  <2>2. orders'[o].status = "void"
    BY <1>1, <2>1 DEF TypeOK, Row
  <2>3. CalmFits(o)'
    BY <2>2 DEF CalmFits
  <2> QED BY <1>1, <2>0, <2>1, <2>3, OwnCalm DEF Moves
<1>19. ASSUME NEW r \in Requests, Reload(r) PROVE CalmInv'
  BY <1>1, <1>19, ReloadEffect, QuietCalm DEF Moves
<1>20. ASSUME NEW r \in Requests, PublishRead(r) PROVE CalmInv'
  BY <1>1, <1>20, PublishReadEffect, QuietCalm DEF Moves
<1>21. ASSUME NEW r \in Requests, Publish(r) PROVE CalmInv'
  BY <1>1, <1>2, <1>21, PublishEffect, QuietCalm DEF Moves, KeepsRest, RequestFits
<1>22. ASSUME NEW r \in Requests, Abort(r) PROVE CalmInv'
  BY <1>1, <1>22, AbortEffect, QuietCalm
<1>23. CASE UNCHANGED <<orders, jobs, requests>>
  BY <1>23 DEF CalmInv, CalmFits, Covered, RefusedRightly
<1> QED
  BY <1>4, <1>5, <1>6, <1>7, <1>8, <1>9, <1>10, <1>11, <1>12, <1>13, <1>14, <1>15,
     <1>16, <1>17, <1>18, <1>19, <1>20, <1>21, <1>22, <1>23
     DEF Next, Arrive, Handle, CreateRecipe, ordersVars

\* A payment of a calm order that is refused with 'Order is already fully paid' was for an
\* order that is not left pending, if nothing is free (addPayment, remaining <= 0).
THEOREM OrdersRejectionIsTruthful ==
    ASSUME NothingIsFree
    PROVE  Spec => []RejectionIsTruthful
<1>1. Init => CalmInv
  BY InitCalmInv
<1>2. TypeInv /\ SerialInv /\ CalmInv /\ [Next]_ordersVars => CalmInv'
  BY NextCalmInv
<1>3. CalmInv => RejectionIsTruthful
  BY DEF CalmInv, RefusedRightly, RejectionIsTruthful
<1> QED BY <1>1, <1>2, <1>3, SerialInvHolds, PTL DEF Spec

-----------------------------------------------------------------------------
(* The customer display lags behind a calm order only while its handler    *)
(* has still to publish it.                                                *)

\* The handler of r has changed the status of o, or inserted it, and not published it yet.
Publishes(r, o) ==
    /\ requests[r].order = o
    /\ \/ requests[r].op = "pay" /\ requests[r].pc \in {"stock", "reload"}
       \/ requests[r].pc \in {"view", "publish"}

\* Otherwise the display, when it shows the order, shows its status.
DisplayFits(o) ==
    (display.order = o /\ orders[o].status # "void" /\ \A r \in Requests : ~Publishes(r, o)) =>
        display.status = orders[o].status

\* What the handler of r is about to publish is the status of its order.
ViewFits(r) ==
    (requests[r].pc = "publish" /\ requests[r].order \in Calm) =>
        requests[r].view = orders[requests[r].order].status

DisplayInv == (\A o \in Calm : DisplayFits(o)) /\ (\A r \in Requests : ViewFits(r))

\* Initially the display shows no order.
LEMMA InitDisplayInv == Init => DisplayInv
  BY OrdersAssumption DEF Init, DisplayInv, DisplayFits, ViewFits, IdleRequest

\* A step of r that leaves the status of its order alone and is not the end of publishing.
LEMMA QuietDisplay ==
    ASSUME DisplayInv, NEW r \in Requests, Alone(r), display' = display,
           \A o \in OrderIds : orders'[o].status = orders[o].status,
           \A o \in Calm : Publishes(r, o) => Publishes(r, o)',
           ViewFits(r)'
    PROVE  DisplayInv'
<1>1. ASSUME NEW o \in Calm PROVE DisplayFits(o)'
  <2>1. \A s \in Requests : Publishes(s, o) => Publishes(s, o)'
    BY DEF Alone, Publishes
  <2>2. orders'[o].status = orders[o].status /\ DisplayFits(o)
    BY OrdersAssumption DEF DisplayInv
  <2> QED BY <2>1, <2>2 DEF DisplayFits
<1>2. ASSUME NEW s \in Requests, s # r PROVE ViewFits(s)'
  BY <1>2, OrdersAssumption DEF DisplayInv, ViewFits, Alone
<1> QED BY <1>1, <1>2 DEF DisplayInv

\* A step of r that changes the status of its order, and will publish it or has made it void.
LEMMA OwnDisplay ==
    ASSUME DisplayInv, NEW r \in Requests, Alone(r), display' = display,
           NEW o \in OrderIds, \A p \in OrderIds \ {o} : orders'[p] = orders[p],
           \A p \in OrderIds : Publishes(r, p) => p = o,
           \A s \in Requests \ {r} : requests[s].order = o /\ o \in Serial => ~Active(s),
           Publishes(r, o)' \/ orders'[o].status = "void",
           requests'[r].pc # "publish"
    PROVE  DisplayInv'
<1>1. ASSUME NEW p \in Calm PROVE DisplayFits(p)'
  <2>1. CASE p = o
    BY <2>1 DEF DisplayFits
  <2>2. CASE p # o
    <3>1. \A s \in Requests : Publishes(s, p) => Publishes(s, p)'
      BY <2>2, OrdersAssumption DEF Alone, Publishes
    <3>2. orders'[p] = orders[p] /\ DisplayFits(p)
      BY <2>2, OrdersAssumption DEF DisplayInv
    <3> QED BY <3>1, <3>2 DEF DisplayFits
  <2> QED BY <2>1, <2>2
<1>2. ASSUME NEW s \in Requests PROVE ViewFits(s)'
  <2>1. CASE s = r
    BY <2>1 DEF ViewFits
  <2>2. CASE s # r /\ requests[s].order # o
    BY <2>2, OrdersAssumption DEF DisplayInv, ViewFits, Alone
  <2>3. CASE s # r /\ requests[s].order = o
    <3>1. o \in Calm => requests[s].pc # "publish"
      BY <2>3, OrdersAssumption DEF Active
    <3> QED BY <2>3, <3>1 DEF ViewFits, Alone
  <2> QED BY <2>1, <2>2, <2>3
<1> QED BY <1>1, <1>2 DEF DisplayInv

\* Every step keeps it.
LEMMA NextDisplayInv == TypeInv /\ SerialInv /\ DisplayInv /\ [Next]_ordersVars => DisplayInv'
<1> SUFFICES ASSUME TypeInv, SerialInv, DisplayInv, [Next]_ordersVars PROVE DisplayInv'
  OBVIOUS
<1>1. TypeOK
  BY DEF TypeInv
<1>2. \A r \in Requests : requests[r] \in Request /\ TargetExists(r) /\ RequestFits(r) /\ HandlerFits(r)
  BY <1>1, RequestTyped DEF TypeInv, SerialInv
<1>3. NoOrder \notin OrderIds /\ Calm \subseteq Serial /\ Serial \subseteq OrderIds
  BY OrdersAssumption
<1> USE DEF Publishes
<1>4. ASSUME NEW r \in Requests, StartCreate(r) PROVE DisplayInv'
  BY <1>1, <1>4, StartCreateEffect, QuietDisplay DEF ViewFits
<1>5. ASSUME NEW r \in Requests, StartPay(r) PROVE DisplayInv'
  BY <1>1, <1>5, StartPayEffect, QuietDisplay DEF ViewFits
<1>6. ASSUME NEW r \in Requests, StartVoid(r) PROVE DisplayInv'
  BY <1>1, <1>6, StartVoidEffect, QuietDisplay DEF ViewFits
<1>7. ASSUME NEW r \in Requests, CreateFound(r) PROVE DisplayInv'
  BY <1>1, <1>7, CreateFoundEffect, QuietDisplay DEF ViewFits
<1>8. ASSUME NEW r \in Requests, CreateNotFound(r) PROVE DisplayInv'
  BY <1>1, <1>8, CreateNotFoundEffect, QuietDisplay DEF ViewFits, Moves
<1>9. ASSUME NEW r \in Requests, CreateInsert(r) PROVE DisplayInv'
  <2>0. PICK o \in OrderIds : o = requests'[r].order
    BY <1>1, <1>9, CreateInsertEffect
  <2>1. /\ Alone(r) /\ requests[r].pc = "insert" /\ requests'[r].pc = "view"
        /\ orders' = [orders EXCEPT ![o] = NewRow(requests[r].key, requests[r].cart)]
        /\ display' = display /\ orders[o].status = "absent"
    BY <1>1, <1>9, <2>0, CreateInsertEffect
  <2>2. \A s \in Requests : requests[s].order # o
    BY <1>2, <1>3, <2>1 DEF TargetExists
  <2> QED BY <2>0, <2>1, <2>2, OwnDisplay
<1>10. ASSUME NEW r \in Requests, CreateConflict(r) PROVE DisplayInv'
  BY <1>1, <1>10, CreateConflictEffect, QuietDisplay DEF ViewFits, Moves
<1>11. ASSUME NEW r \in Requests, PayRead(r) PROVE DisplayInv'
  BY <1>1, <1>11, PayReadEffect, QuietDisplay DEF ViewFits
<1>12. ASSUME NEW r \in Requests, PaySave(r) PROVE DisplayInv'
  <2>1. /\ Moves(r, "save", IF Settles(r) THEN "mark" ELSE "reload")
        /\ orders' = [orders EXCEPT ![requests[r].order].received = @ + requests[r].amount]
        /\ display' = display
    BY <1>1, <1>12, PaySaveEffect
  <2>2. \A o \in OrderIds : orders'[o].status = orders[o].status
    <3>1. SUFFICES ASSUME NEW o \in OrderIds PROVE orders'[o].status = orders[o].status
      OBVIOUS
    <3>2. CASE requests[r].order = o
      BY <1>1, <2>1, <3>2 DEF TypeOK, Row
    <3> QED BY <2>1, <3>2
  <2> QED BY <2>1, <2>2, QuietDisplay DEF ViewFits, Moves
<1>13. ASSUME NEW r \in Requests, PayMark(r) PROVE DisplayInv'
  <2>0. PICK o \in OrderIds : o = requests[r].order
    BY <1>1, <1>2, <1>13, PayMarkEffect DEF Moves, TargetExists, Request
  <2>1. /\ Moves(r, "mark", "stock") /\ display' = display
        /\ orders' = [orders EXCEPT ![o].status = "paid"]
    BY <1>1, <1>13, <2>0, PayMarkEffect
  <2>2. requests'[r].op = "pay"
    BY <1>2, <2>1 DEF Moves, TargetExists, SameRequest
  <2>3. \A s \in Requests \ {r} : requests[s].order = o /\ o \in Serial => ~Active(s)
    BY <2>0, <2>1, OthersElsewhere DEF Moves, Active
  <2> QED BY <2>0, <2>1, <2>2, <2>3, OwnDisplay DEF Moves
<1>14. ASSUME NEW r \in Requests, PayEnqueue(r) PROVE DisplayInv'
  BY <1>1, <1>14, PayEnqueueEffect, QuietDisplay DEF ViewFits, Moves, SameRequest
<1>15. ASSUME NEW r \in Requests, FindRecipes(r) PROVE DisplayInv'
  BY <1>1, <1>15, FindRecipesEffect, QuietDisplay DEF ViewFits, Moves, SameRequest
<1>16. ASSUME NEW r \in Requests, MoveStock(r) PROVE DisplayInv'
  BY <1>1, <1>16, MoveStockEffect, QuietDisplay DEF ViewFits, Moves, SameRequest
<1>17. ASSUME NEW r \in Requests, VoidRead(r) PROVE DisplayInv'
  BY <1>1, <1>17, VoidReadEffect, QuietDisplay DEF ViewFits
<1>18. ASSUME NEW r \in Requests, VoidMark(r) PROVE DisplayInv'
  <2>0. PICK o \in OrderIds : o = requests[r].order
    BY <1>1, <1>2, <1>18, VoidMarkEffect DEF Moves, TargetExists, Request
  <2>1. /\ Moves(r, "stock", "reload") /\ display' = display
        /\ orders' = [orders EXCEPT ![o].status = "void"]
    BY <1>1, <1>18, <2>0, VoidMarkEffect
  <2>2. orders'[o].status = "void"
    BY <1>1, <2>1 DEF TypeOK, Row
  <2>3. \A s \in Requests \ {r} : requests[s].order = o /\ o \in Serial => ~Active(s)
    BY <2>0, <2>1, OthersElsewhere DEF Moves, Active
  <2> QED BY <2>0, <2>1, <2>2, <2>3, OwnDisplay DEF Moves
<1>19. ASSUME NEW r \in Requests, Reload(r) PROVE DisplayInv'
  BY <1>1, <1>19, ReloadEffect, QuietDisplay DEF ViewFits, Moves
<1>20. ASSUME NEW r \in Requests, PublishRead(r) PROVE DisplayInv'
  BY <1>1, <1>20, PublishReadEffect, QuietDisplay DEF ViewFits, Moves
<1>21. ASSUME NEW r \in Requests, Publish(r) PROVE DisplayInv'
  <2>1. /\ Moves(r, "publish", "done") /\ orders' = orders
        /\ display' = [order |-> requests[r].order, status |-> requests[r].view]
    BY <1>1, <1>21, PublishEffect
  <2>2. ASSUME NEW o \in Calm PROVE DisplayFits(o)'
    <3>1. display'.order = requests[r].order /\ display'.status = requests[r].view
      BY <2>1
    <3>2. requests[r].order = o => requests[r].view = orders[o].status
      BY <2>1 DEF DisplayInv, ViewFits, Moves
    <3> QED BY <2>1, <3>1, <3>2 DEF DisplayFits
  <2>3. ASSUME NEW s \in Requests PROVE ViewFits(s)'
    BY <2>1 DEF DisplayInv, ViewFits, Moves, Alone
  <2> QED BY <2>2, <2>3 DEF DisplayInv
<1>22. ASSUME NEW r \in Requests, Abort(r) PROVE DisplayInv'
  BY <1>1, <1>22, AbortEffect, QuietDisplay DEF ViewFits
<1>23. CASE UNCHANGED <<orders, display, requests>>
  BY <1>23 DEF DisplayInv, DisplayFits, ViewFits
<1> QED
  BY <1>4, <1>5, <1>6, <1>7, <1>8, <1>9, <1>10, <1>11, <1>12, <1>13, <1>14, <1>15,
     <1>16, <1>17, <1>18, <1>19, <1>20, <1>21, <1>22, <1>23
     DEF Next, Arrive, Handle, CreateRecipe, ordersVars

\* Between requests the customer display, when it shows a calm order that is not void,
\* shows its current status, whatever requests on other orders do (publishCfdSnapshot).
THEOREM OrdersDisplayIsCurrent == Spec => []DisplayIsCurrent
<1>1. Init => DisplayInv
  BY InitDisplayInv
<1>2. TypeInv /\ SerialInv /\ DisplayInv /\ [Next]_ordersVars => DisplayInv'
  BY NextDisplayInv
<1>3. DisplayInv => DisplayIsCurrent
  <2>1. \A o \in Calm : Quiescent(o) => \A r \in Requests : ~Publishes(r, o)
    BY DEF Quiescent, Active, Publishes
  <2> QED BY <2>1 DEF DisplayInv, DisplayFits, DisplayIsCurrent
<1> QED BY <1>1, <1>2, <1>3, SerialInvHolds, PTL DEF Spec

-----------------------------------------------------------------------------
(* What an order draws from stock, as a sum over the pairs of one of its   *)
(* lines and one row of the recipe of the line's product.                  *)

\* The number of a line of items, with a row of its recipe.
PairsOf(rows, items) ==
    {p \in (DOMAIN items) \X rows : p[2].product = items[p[1]].product}

\* What each pair draws of ingredient i.
Worth(rows, items, i) ==
    [p \in PairsOf(rows, items) |->
        IF p[2].ingredient = i THEN p[2].usage * items[p[1]].qty ELSE 0]

\* What all pairs draw.
Whole(rows, items, i) == SumOver(Worth(rows, items, i), PairsOf(rows, items))

\* What a set of pairs draws is never less than nothing.
LEMMA WorthTyped ==
    ASSUME NEW rows \in SUBSET Recipe, IsFiniteSet(rows), NEW items \in Seq(Item), NEW i
    PROVE  /\ Summable(Worth(rows, items, i))
           /\ DOMAIN Worth(rows, items, i) = PairsOf(rows, items)
           /\ \A p \in PairsOf(rows, items) : Worth(rows, items, i)[p] \in Nat
<1>1. IsFiniteSet((DOMAIN items) \X rows)
  <2>1. IsFiniteSet(DOMAIN items)
    BY FS_Interval
  <2> QED BY <2>1, FS_Product
<1>2. IsFiniteSet(PairsOf(rows, items))
  <2>1. PairsOf(rows, items) \subseteq (DOMAIN items) \X rows
    BY DEF PairsOf
  <2> QED BY <1>1, <2>1, FS_Subset
<1>3. \A p \in PairsOf(rows, items) : Worth(rows, items, i)[p] \in Nat
  <2>1. ASSUME NEW p \in PairsOf(rows, items)
        PROVE  p[2].usage * items[p[1]].qty \in Nat
    <3>1. p[2] \in Recipe /\ p[1] \in DOMAIN items
      BY DEF PairsOf
    <3>2. items[p[1]] \in Item
      BY <3>1
    <3>3. p[2].usage \in Nat /\ items[p[1]].qty \in Nat
      BY <3>1, <3>2 DEF Recipe, Item
    <3> QED BY <3>3
  <2> QED BY <2>1 DEF Worth
<1>4. DOMAIN Worth(rows, items, i) = PairsOf(rows, items)
  BY DEF Worth
<1> QED BY <1>2, <1>3, <1>4 DEF Summable, Worth

\* What one line draws of i, as deductStock() computes it.
RowsFor(rows, item, i) == {row \in rows : row.product = item.product /\ row.ingredient = i}
Need(rows, item, i) == MapThenSumSet(LAMBDA row : row.usage * item.qty, RowsFor(rows, item, i))

NeedWorth(rows, item, i) == [row \in RowsFor(rows, item, i) |-> row.usage * item.qty]

\* It is the sum over the rows.
LEMMA NeedIsSum ==
    ASSUME NEW rows \in SUBSET Recipe, IsFiniteSet(rows), NEW item \in Item, NEW i
    PROVE  /\ Summable(NeedWorth(rows, item, i))
           /\ Need(rows, item, i) = SumOver(NeedWorth(rows, item, i), RowsFor(rows, item, i))
<1> DEFINE T == RowsFor(rows, item, i)
           val == NeedWorth(rows, item, i)
           Body(g) == [s \in SUBSET T |->
                          IF s = {} THEN 0
                          ELSE (CHOOSE x \in s : TRUE).usage * item.qty + g[s \ {CHOOSE x \in s : TRUE}]]
<1>1. Summable(val) /\ DOMAIN val = T
  <2>1. T \subseteq rows
    BY DEF RowsFor
  <2>2. \A row \in T : row.usage * item.qty \in Int
    <3>1. \A row \in T : row.usage \in Nat /\ item.qty \in Nat
      BY <2>1 DEF Recipe, Item
    <3> QED BY <3>1
  <2> QED BY <2>1, <2>2, FS_Subset DEF Summable, NeedWorth
<1>2. ASSUME NEW g PROVE g = Body(g) <=> Sums(g, T, Anyone(T), val)
  <2> DEFINE Left(s) == IF s = {} THEN 0
                        ELSE (CHOOSE x \in s : TRUE).usage * item.qty + g[s \ {CHOOSE x \in s : TRUE}]
             Right(s) == IF s = {} THEN 0 ELSE val[Anyone(T)[s]] + g[s \ {Anyone(T)[s]}]
  <2>1. ASSUME NEW s \in SUBSET T PROVE Left(s) = Right(s)
    <3>1. CASE s = {}
      BY <3>1
    <3>2. CASE s # {}
      <4>1. Anyone(T)[s] = (CHOOSE x \in s : TRUE) /\ Anyone(T)[s] \in s
        BY <3>2, AnyonePicks DEF Anyone, Picks
      <4> QED BY <3>2, <4>1 DEF NeedWorth
    <3> QED BY <3>1, <3>2
  <2> HIDE DEF Left, Right
  <2>2. [s \in SUBSET T |-> Left(s)] = [s \in SUBSET T |-> Right(s)]
    BY <2>1
  <2> QED BY <2>2 DEF Sums, Left, Right
<1>3. \E g : g = Body(g)
  <2>1. PICK g : IsSum(g, T, Anyone(T), val)
    BY <1>1, AnyonePicks, SumsExist DEF Summable
  <2>2. Sums(g, T, Anyone(T), val)
    BY <2>1 DEF IsSum
  <2>3. g = Body(g)
    BY <1>2, <2>2
  <2> HIDE DEF Body
  <2> QED BY <2>3
<1> DEFINE it == CHOOSE g : g = Body(g)
<1>4. it = Body(it)
  <2> HIDE DEF Body
  <2> QED BY <1>3, Zenon
<1>5. Need(rows, item, i) = it[T]
  BY DEF Need, MapThenSumSet, MapThenFoldSet
<1> HIDE DEF it
<1>6. IsSum(it, T, Anyone(T), val)
  <2>1. Sums(it, T, Anyone(T), val)
    BY <1>2, <1>4
  <2> QED BY <1>1, <2>1, AnyonePicks, SumsAreSums DEF Summable
<1>7. it[T] = SumOver(val, T)
  BY <1>1, <1>6, SumOverEquals
<1> QED BY <1>1, <1>5, <1>7

\* A line draws what its pairs do.
LEMMA NeedIsWorth ==
    ASSUME NEW rows \in SUBSET Recipe, IsFiniteSet(rows), NEW items \in Seq(Item),
           NEW n \in DOMAIN items, NEW i
    PROVE  Need(rows, items[n], i) =
               SumOver(Worth(rows, items, i), {p \in PairsOf(rows, items) : p[1] = n})
<1> DEFINE item == items[n]
           T == {row \in rows : row.product = item.product}
           drawn == NeedWorth(rows, item, i)
           worth == Worth(rows, items, i)
           Some(s) == {row \in s : row.ingredient = i}
           Paired(s) == {n} \X s
           S == {s \in SUBSET T : SumOver(drawn, Some(s)) = SumOver(worth, Paired(s))}
<1>1. item \in Item
  OBVIOUS
<1>2. Summable(drawn) /\ DOMAIN drawn = RowsFor(rows, item, i)
  BY <1>1, NeedIsSum DEF NeedWorth
<1>3. Summable(worth) /\ DOMAIN worth = PairsOf(rows, items)
  BY WorthTyped
<1>4. ASSUME NEW s \in SUBSET T
      PROVE  Some(s) \in SUBSET DOMAIN drawn /\ Paired(s) \in SUBSET DOMAIN worth
  BY <1>2, <1>3 DEF RowsFor, PairsOf
<1>5. {} \in S
  <2>1. Some({}) = {} /\ Paired({}) = {}
    OBVIOUS
  <2>2. SumOver(drawn, {}) = 0 /\ SumOver(worth, {}) = 0
    BY <1>2, <1>3, SumOverTyped
  <2> HIDE DEF Some, Paired, drawn, worth
  <2> QED BY <2>1, <2>2
<1>6. ASSUME NEW s \in SUBSET T, s # {}, \A x \in s : s \ {x} \in S PROVE s \in S
  <2>1. PICK x \in s : TRUE
    BY <1>6
  <2>2. /\ Some(s) \in SUBSET DOMAIN drawn /\ Some(s \ {x}) \in SUBSET DOMAIN drawn
        /\ Paired(s) \in SUBSET DOMAIN worth
    BY <1>4
  <2>3. SumOver(drawn, Some(s \ {x})) = SumOver(worth, Paired(s \ {x}))
    BY <1>6
  <2>4. SumOver(worth, Paired(s)) = worth[<<n, x>>] + SumOver(worth, Paired(s \ {x}))
    <3>1. Paired(s) \ {<<n, x>>} = Paired(s \ {x}) /\ <<n, x>> \in Paired(s)
      OBVIOUS
    <3>2. SumOver(worth, Paired(s)) = worth[<<n, x>>] + SumOver(worth, Paired(s) \ {<<n, x>>})
      <4> HIDE DEF worth
      <4> QED BY <1>3, <2>2, <3>1, SumOverMember
    <3> QED BY <3>1, <3>2
  <2>5. worth[<<n, x>>] = IF x.ingredient = i THEN x.usage * item.qty ELSE 0
    <3>1. <<n, x>> \in PairsOf(rows, items)
      BY <1>3, <2>2
    <3> QED BY <3>1 DEF Worth
  <2>6. CASE x.ingredient = i
    <3>1. Some(s) \ {x} = Some(s \ {x}) /\ x \in Some(s)
      BY <2>6
    <3>2. SumOver(drawn, Some(s)) = drawn[x] + SumOver(drawn, Some(s) \ {x})
      <4> HIDE DEF drawn
      <4> QED BY <1>2, <2>2, <3>1, SumOverMember
    <3>3. drawn[x] = x.usage * item.qty
      BY <1>2, <2>2, <3>1 DEF NeedWorth
    <3>4. SumOver(drawn, Some(s)) = SumOver(worth, Paired(s))
      BY <2>3, <2>4, <2>5, <2>6, <3>1, <3>2, <3>3
    <3> QED BY <3>4
  <2>7. CASE x.ingredient # i
    <3>1. Some(s) = Some(s \ {x})
      BY <2>7
    <3>2. SumOver(worth, Paired(s \ {x})) \in Int
      <4> HIDE DEF worth
      <4>1. Paired(s \ {x}) \in SUBSET DOMAIN worth
        BY <1>4
      <4> QED BY <1>3, <4>1, SumOverTyped
    <3>3. worth[<<n, x>>] = 0
      BY <2>5, <2>7
    <3>4. SumOver(worth, Paired(s)) = SumOver(worth, Paired(s \ {x}))
      <4> HIDE DEF worth, Paired
      <4> QED BY <2>4, <3>2, <3>3
    <3>5. SumOver(drawn, Some(s)) = SumOver(worth, Paired(s))
      <4> HIDE DEF worth, drawn, Paired, Some
      <4> QED BY <2>3, <3>1, <3>4
    <3> QED BY <3>5
  <2> QED BY <2>6, <2>7
<1>7. IsFiniteSet(T)
  BY FS_Subset
<1>8. T \in S
  <2> HIDE DEF S
  <2>1. SUBSET T \subseteq S
    BY <1>5, <1>6, <1>7, InductionOnSubsets
  <2> QED BY <2>1
<1>9. Some(T) = RowsFor(rows, item, i) /\ Paired(T) = {p \in PairsOf(rows, items) : p[1] = n}
  BY DEF RowsFor, PairsOf
<1>10. Need(rows, item, i) = SumOver(drawn, RowsFor(rows, item, i))
  BY <1>1, NeedIsSum
<1> QED BY <1>8, <1>9, <1>10

\* What StockOf() folds over the lines, and the order in which it undoes them.
Needs(rows, items, i) == [n \in DOMAIN items |-> Need(rows, items[n], i)]
LastOf(D) == [s \in SUBSET D |-> Max(s)]

\* A finite set of numbers that is not empty has its maximum.
LEMMA MaxIn ==
    ASSUME NEW s, s \subseteq Int, IsFiniteSet(s), s # {}
    PROVE  Max(s) \in s
<1>1. \E m \in s : \A n \in s : m >= n
  BY GreatestExists
<1> QED BY <1>1 DEF Max

\* The fold is the sum over the lines.
LEMMA StockIsSum ==
    ASSUME NEW rows \in SUBSET Recipe, IsFiniteSet(rows), NEW items \in Seq(Item),
           NEW i \in Ingredients
    PROVE  /\ Summable(Needs(rows, items, i))
           /\ StockOf(rows, items)[i] = SumOver(Needs(rows, items, i), DOMAIN items)
<1> DEFINE D == DOMAIN items
           pick == LastOf(D)
           val == Needs(rows, items, i)
           Body(g) == [s \in SUBSET D |->
                          IF s = {} THEN 0 ELSE g[s \ {Max(s)}] + Need(rows, items[Max(s)], i)]
<1>1. D = 1 .. Len(items) /\ \A n \in D : items[n] \in Item
  OBVIOUS
<1>2. IsFiniteSet(D) /\ D \subseteq Int
  BY <1>1, FS_Interval
<1>3. Picks(pick, D)
  <2>1. ASSUME NEW s \in SUBSET D, s # {} PROVE pick[s] \in s
    <3>1. IsFiniteSet(s) /\ s \subseteq Int
      BY <1>2, FS_Subset
    <3> QED BY <2>1, <3>1, MaxIn DEF LastOf
  <2> QED BY <2>1 DEF Picks
<1>4. val \in [D -> Int] /\ DOMAIN val = D
  <2>1. ASSUME NEW n \in D PROVE Need(rows, items[n], i) \in Int
    <3>1. /\ Summable(NeedWorth(rows, items[n], i))
          /\ Need(rows, items[n], i) = SumOver(NeedWorth(rows, items[n], i), RowsFor(rows, items[n], i))
      BY <1>1, NeedIsSum
    <3>2. DOMAIN NeedWorth(rows, items[n], i) = RowsFor(rows, items[n], i)
      BY DEF NeedWorth
    <3> QED BY <3>1, <3>2, SumOverTyped
  <2> QED BY <2>1 DEF Needs
<1>5. ASSUME NEW g PROVE g = Body(g) <=> SumsTail(g, D, pick, val)
  <2> DEFINE More(s) == IF s = {} THEN 0 ELSE g[s \ {Max(s)}] + Need(rows, items[Max(s)], i)
             Less(s) == IF s = {} THEN 0 ELSE g[s \ {pick[s]}] + val[pick[s]]
  <2>1. ASSUME NEW s \in SUBSET D PROVE More(s) = Less(s)
    <3>1. CASE s = {}
      BY <3>1
    <3>2. CASE s # {}
      <4>1. pick[s] = Max(s) /\ pick[s] \in D
        BY <1>3, <3>2 DEF LastOf, Picks
      <4> QED BY <3>2, <4>1 DEF Needs
    <3> QED BY <3>1, <3>2
  <2> HIDE DEF More, Less
  <2>2. [s \in SUBSET D |-> More(s)] = [s \in SUBSET D |-> Less(s)]
    BY <2>1
  <2> QED BY <2>2 DEF SumsTail, More, Less
<1>6. \E g : g = Body(g)
  <2>1. PICK g : IsSum(g, D, pick, val)
    BY <1>2, <1>3, <1>4, SumsExist
  <2>2. SumsTail(g, D, pick, val)
    BY <2>1, SumsTailExist
  <2>3. g = Body(g)
    BY <1>5, <2>2
  <2> HIDE DEF Body
  <2> QED BY <2>3
<1> DEFINE it == CHOOSE g : g = Body(g)
<1>7. it = Body(it)
  <2> HIDE DEF Body
  <2> QED BY <1>6, Zenon
<1>8. StockOf(rows, items)[i] = it[D]
  BY DEF StockOf, FoldLeft, MapThenFoldSet, Need, RowsFor
<1> HIDE DEF it
<1>9. IsSum(it, D, pick, val)
  <2>1. SumsTail(it, D, pick, val)
    BY <1>5, <1>7
  <2> QED BY <1>2, <1>3, <1>4, <2>1, SumsTailAreSums
<1>10. Summable(val)
  BY <1>2, <1>4 DEF Summable
<1>11. it[D] = SumOver(val, D)
  BY <1>4, <1>9, <1>10, SumOverEquals
<1> QED BY <1>8, <1>10, <1>11

\* The lines together draw what all the pairs do.
LEMMA StockIsWhole ==
    ASSUME NEW rows \in SUBSET Recipe, IsFiniteSet(rows), NEW items \in Seq(Item),
           NEW i \in Ingredients
    PROVE  StockOf(rows, items)[i] = Whole(rows, items, i)
<1> DEFINE D == DOMAIN items
           needs == Needs(rows, items, i)
           worth == Worth(rows, items, i)
           Paired(s) == {p \in PairsOf(rows, items) : p[1] \in s}
           S == {s \in SUBSET D : SumOver(needs, s) = SumOver(worth, Paired(s))}
<1>1. Summable(needs) /\ DOMAIN needs = D
  BY StockIsSum DEF Needs
<1>2. Summable(worth) /\ DOMAIN worth = PairsOf(rows, items)
  BY WorthTyped
<1>3. ASSUME NEW s PROVE Paired(s) \in SUBSET DOMAIN worth
  BY <1>2
<1>4. {} \in S
  <2>1. Paired({}) = {}
    OBVIOUS
  <2>2. SumOver(needs, {}) = 0 /\ SumOver(worth, {}) = 0
    BY <1>1, <1>2, SumOverTyped
  <2> HIDE DEF Paired, needs, worth
  <2> QED BY <2>1, <2>2
<1>5. ASSUME NEW s \in SUBSET D, s # {}, \A x \in s : s \ {x} \in S PROVE s \in S
  <2>1. PICK n \in s : TRUE
    BY <1>5
  <2> DEFINE own == {p \in PairsOf(rows, items) : p[1] = n}
  <2>2. SumOver(needs, s) = needs[n] + SumOver(needs, s \ {n})
    BY <1>1, SumOverMember
  <2>3. needs[n] = SumOver(worth, own)
    BY NeedIsWorth DEF Needs
  <2>4. SumOver(needs, s \ {n}) = SumOver(worth, Paired(s \ {n}))
    BY <1>5
  <2>5. SumOver(worth, own \cup Paired(s \ {n})) = SumOver(worth, own) + SumOver(worth, Paired(s \ {n}))
    <3>1. own \in SUBSET DOMAIN worth /\ Paired(s \ {n}) \in SUBSET DOMAIN worth
          /\ own \cap Paired(s \ {n}) = {}
      BY <1>2
    <3> HIDE DEF worth, own, Paired
    <3> QED BY <1>2, <3>1, SumOverUnion
  <2>6. own \cup Paired(s \ {n}) = Paired(s)
    OBVIOUS
  <2>7. SumOver(needs, s) = SumOver(worth, Paired(s))
    BY <2>2, <2>3, <2>4, <2>5, <2>6
  <2> QED BY <2>7
<1>6. IsFiniteSet(D)
  BY FS_Interval
<1>7. D \in S
  <2> HIDE DEF S, D
  <2>1. SUBSET D \subseteq S
    BY <1>4, <1>5, <1>6, InductionOnSubsets
  <2> QED BY <2>1
<1>8. Paired(D) = PairsOf(rows, items)
  BY DEF PairsOf
<1>9. StockOf(rows, items)[i] = SumOver(needs, D)
  BY StockIsSum
<1> QED BY <1>7, <1>8, <1>9 DEF Whole

-----------------------------------------------------------------------------
(* What a handler has drawn, or given back, when it stands at line k and   *)
(* has the rows in `left` of its recipe still to go.                       *)

Visited(rows, items, k, left) ==
    {p \in PairsOf(rows, items) : p[1] < k \/ (p[1] = k /\ p[2] \notin left)}

Gone(rows, items, i, k, left) == SumOver(Worth(rows, items, i), Visited(rows, items, k, left))

\* It is part of what the order draws.
LEMMA GoneBounds ==
    ASSUME NEW rows \in SUBSET Recipe, IsFiniteSet(rows), NEW items \in Seq(Item), NEW i,
           NEW k, NEW left
    PROVE  /\ Gone(rows, items, i, k, left) \in Nat
           /\ Whole(rows, items, i) \in Nat
           /\ Gone(rows, items, i, k, left) <= Whole(rows, items, i)
<1> DEFINE worth == Worth(rows, items, i)
           all == PairsOf(rows, items)
           part == Visited(rows, items, k, left)
<1>1. /\ Summable(worth) /\ DOMAIN worth = all
      /\ \A p \in all : worth[p] \in Nat
  BY WorthTyped
<1>2. part \in SUBSET all /\ all \in SUBSET DOMAIN worth
  BY <1>1 DEF Visited
<1> HIDE DEF worth, all, part
<1>3. \A p \in all : worth[p] >= 0
  BY <1>1
<1>4. SumOver(worth, part) \in Nat
  BY <1>1, <1>2, <1>3, SumOverNatural
<1>5. SumOver(worth, all) \in Nat
  BY <1>1, <1>2, <1>3, SumOverNatural
<1>6. SumOver(worth, part) <= SumOver(worth, all)
  BY <1>1, <1>2, <1>3, SumOverPart
<1> QED BY <1>4, <1>5, <1>6 DEF Gone, Whole, worth, all, part

\* At first it is nothing.
LEMMA GoneNothing ==
    ASSUME NEW rows \in SUBSET Recipe, IsFiniteSet(rows), NEW items \in Seq(Item), NEW i
    PROVE  Gone(rows, items, i, 0, {}) = 0
<1>1. Visited(rows, items, 0, {}) = {}
  BY DEF Visited, PairsOf
<1>2. SumOver(Worth(rows, items, i), {}) = 0
  BY WorthTyped, SumOverTyped
<1> QED BY <1>1, <1>2 DEF Gone

\* In the end it is everything.
LEMMA GoneAll ==
    ASSUME NEW rows, NEW items \in Seq(Item), NEW i
    PROVE  Gone(rows, items, i, Len(items), {}) = Whole(rows, items, i)
<1>1. \A p \in PairsOf(rows, items) : p[1] < Len(items) \/ p[1] = Len(items)
  BY DEF PairsOf
<1>2. Visited(rows, items, Len(items), {}) = PairsOf(rows, items)
  BY <1>1 DEF Visited
<1> QED BY <1>2 DEF Gone, Whole

\* Going on to the next line changes nothing.
LEMMA GoneNext ==
    ASSUME NEW rows, NEW items \in Seq(Item), NEW i, NEW k \in Nat, k + 1 \in 1 .. Len(items),
           NEW left, left = {row \in rows : row.product = items[k + 1].product}
    PROVE  Gone(rows, items, i, k + 1, left) = Gone(rows, items, i, k, {})
<1>1. ASSUME NEW p \in PairsOf(rows, items)
      PROVE  (p[1] < k + 1 \/ (p[1] = k + 1 /\ p[2] \notin left)) <=> (p[1] < k \/ p[1] = k)
  <2>1. p[1] \in Nat /\ p[2] \in rows /\ p[2].product = items[p[1]].product
    BY DEF PairsOf
  <2>2. p[1] = k + 1 => p[2] \in left
    BY <2>1
  <2> QED BY <2>1, <2>2
<1>2. Visited(rows, items, k + 1, left) = Visited(rows, items, k, {})
  BY <1>1 DEF Visited
<1> QED BY <1>2 DEF Gone

\* One row more.
LEMMA GoneOne ==
    ASSUME NEW rows \in SUBSET Recipe, IsFiniteSet(rows), NEW items \in Seq(Item), NEW i,
           NEW k \in 1 .. Len(items), NEW left, NEW row \in left,
           left \subseteq {x \in rows : x.product = items[k].product}
    PROVE  Gone(rows, items, i, k, left \ {row}) =
               Gone(rows, items, i, k, left)
                   + (IF row.ingredient = i THEN row.usage * items[k].qty ELSE 0)
<1> DEFINE worth == Worth(rows, items, i)
           before == Visited(rows, items, k, left)
           after == Visited(rows, items, k, left \ {row})
           pair == <<k, row>>
           value == IF row.ingredient = i THEN row.usage * items[k].qty ELSE 0
<1>1. Summable(worth) /\ DOMAIN worth = PairsOf(rows, items)
  BY WorthTyped
<1>2. pair \in PairsOf(rows, items)
  BY DEF PairsOf
<1>3. worth[pair] = value
  BY <1>2 DEF Worth
<1>4. pair \in after /\ pair \notin before
  BY <1>2 DEF Visited
<1>5. after \ {pair} = before
  <2>1. ASSUME NEW p \in PairsOf(rows, items)
        PROVE  p \in after /\ p # pair <=> p \in before
    <3>1. p = <<p[1], p[2]>>
      BY DEF PairsOf
    <3>2. p # pair <=> p[1] # k \/ p[2] # row
      BY <3>1
    <3> QED BY <1>4, <3>2 DEF Visited
  <2> QED BY <2>1 DEF Visited
<1>6. after \in SUBSET DOMAIN worth /\ before \in SUBSET DOMAIN worth
  BY <1>1 DEF Visited
<1> HIDE DEF worth, before, after, pair
<1>7. SumOver(worth, after) = worth[pair] + SumOver(worth, before)
  BY <1>1, <1>4, <1>5, <1>6, SumOverMember
<1>8. SumOver(worth, before) \in Int /\ worth[pair] \in Int
  BY <1>1, <1>4, <1>6, SumOverTyped DEF Summable
<1> HIDE DEF value
<1>9. SumOver(worth, after) = SumOver(worth, before) + value
  BY <1>3, <1>7, <1>8
<1> QED BY <1>9 DEF Gone, worth, before, after, value

\* With more rows in the recipes neither part is less, what is drawn and what is not.
LEMMA GoneGrows ==
    ASSUME NEW rows \in SUBSET Recipe, NEW more \in SUBSET Recipe, IsFiniteSet(more),
           rows \subseteq more, NEW items \in Seq(Item), NEW i, NEW k, NEW left
    PROVE  /\ Gone(rows, items, i, k, left) <= Gone(more, items, i, k, left)
           /\ Whole(rows, items, i) - Gone(rows, items, i, k, left)
                  <= Whole(more, items, i) - Gone(more, items, i, k, left)
<1> DEFINE few == Worth(rows, items, i)
           many == Worth(more, items, i)
<1>0. IsFiniteSet(rows)
  BY FS_Subset
<1>1. Summable(few) /\ DOMAIN few = PairsOf(rows, items)
  BY <1>0, WorthTyped
<1>2. /\ Summable(many) /\ DOMAIN many = PairsOf(more, items)
      /\ \A p \in PairsOf(more, items) : many[p] \in Nat
  BY WorthTyped
<1>3. \A p \in PairsOf(more, items) : many[p] >= 0
  BY <1>2
<1>4. PairsOf(rows, items) \subseteq PairsOf(more, items)
  BY DEF PairsOf
<1>5. \A p \in PairsOf(rows, items) : few[p] = many[p]
  BY <1>4 DEF Worth
<1>6. ASSUME NEW A \in SUBSET PairsOf(rows, items), NEW B \in SUBSET PairsOf(more, items),
             A \subseteq B
      PROVE  SumOver(few, A) <= SumOver(many, B)
  <2> HIDE DEF few, many
  <2>1. SumOver(few, A) = SumOver(many, A)
    BY <1>1, <1>2, <1>4, <1>5, SumOverSame
  <2>2. SumOver(many, A) <= SumOver(many, B)
    <3>1. B \in SUBSET DOMAIN many /\ A \in SUBSET B /\ \A x \in B : many[x] >= 0
      BY <1>2, <1>3, <1>6
    <3> QED BY <1>2, <3>1, SumOverPart
  <2> QED BY <2>1, <2>2
<1>7. /\ Visited(rows, items, k, left) \in SUBSET PairsOf(rows, items)
      /\ Visited(more, items, k, left) \in SUBSET PairsOf(more, items)
      /\ Visited(rows, items, k, left) \subseteq Visited(more, items, k, left)
  BY <1>4 DEF Visited
<1> HIDE DEF few, many
<1>8. SumOver(few, Visited(rows, items, k, left)) <= SumOver(many, Visited(more, items, k, left))
  BY <1>6, <1>7
<1>9. SumOver(few, PairsOf(rows, items) \ Visited(rows, items, k, left))
         <= SumOver(many, PairsOf(more, items) \ Visited(more, items, k, left))
  <2>1. PairsOf(rows, items) \ Visited(rows, items, k, left)
            \subseteq PairsOf(more, items) \ Visited(more, items, k, left)
    BY <1>4 DEF Visited
  <2> QED BY <1>6, <2>1
<1>10. ASSUME NEW val, Summable(val), NEW A \in SUBSET DOMAIN val
       PROVE  SumOver(val, DOMAIN val) - SumOver(val, A) = SumOver(val, DOMAIN val \ A)
  <2>0. DOMAIN val \ A \in SUBSET DOMAIN val /\ A \cap (DOMAIN val \ A) = {}
    OBVIOUS
  <2>1. SumOver(val, A \cup (DOMAIN val \ A)) = SumOver(val, A) + SumOver(val, DOMAIN val \ A)
    BY <1>10, <2>0, SumOverUnion
  <2>2. A \cup (DOMAIN val \ A) = DOMAIN val
    OBVIOUS
  <2>3. SumOver(val, A) \in Int /\ SumOver(val, DOMAIN val \ A) \in Int
    BY <1>10, <2>0, SumOverTyped
  <2>4. ASSUME NEW a \in Int, NEW b \in Int, NEW c, c = a + b PROVE c - a = b
    BY <2>4
  <2> QED BY <2>1, <2>2, <2>3, <2>4
<1>11. SumOver(few, PairsOf(rows, items)) - SumOver(few, Visited(rows, items, k, left))
          = SumOver(few, PairsOf(rows, items) \ Visited(rows, items, k, left))
  BY <1>1, <1>7, <1>10
<1>12. SumOver(many, PairsOf(more, items)) - SumOver(many, Visited(more, items, k, left))
          = SumOver(many, PairsOf(more, items) \ Visited(more, items, k, left))
  BY <1>2, <1>7, <1>10
<1> QED BY <1>8, <1>9, <1>11, <1>12 DEF Gone, Whole, few, many

-----------------------------------------------------------------------------
(* The stock of an order on which clients take turns.                      *)

\* The handler of r is drawing or returning the stock of o.
At(r, o) == requests[r].order = o /\ requests[r].pc = "stock"

\* How much of i the items of o draw, and what of it the handler of r has visited.
AllOf(o, i) == Whole(recipes, orders[o].items, i)
GoneBy(r, i) ==
    Gone(recipes, orders[requests[r].order].items, i, requests[r].item, requests[r].rows)

\* How many times the stock of o may have been given back without having been drawn.
Debt(o) == IF o \in Calm THEN 0 ELSE aborts + (IF recipes = InitialRecipes THEN 0 ELSE 1)

\* A handler that draws has drawn at most what it has visited, and all of it if nothing died.
Drawing(u, gone, debt) ==
    /\ 0 <= u /\ u <= gone
    /\ debt = 0 => u = gone

\* x is the whole, or less by at most debt times the whole.
Near(x, all, debt) == x <= all /\ x >= all - debt * all

StockFits(o, i) ==
    /\ \A r \in Requests : At(r, o) /\ requests[r].op = "pay" =>
           Drawing(used[o][i], GoneBy(r, i), Debt(o))
    /\ \A r \in Requests : At(r, o) /\ requests[r].op = "void" /\ orders[o].status = "paid" =>
           Near(used[o][i] + GoneBy(r, i), AllOf(o, i), Debt(o))
    /\ orders[o].status = "paid" /\ (\A r \in Requests : ~At(r, o)) =>
           Near(used[o][i], AllOf(o, i), Debt(o))
    /\ orders[o].status = "void" =>
           Near(used[o][i] + AllOf(o, i), AllOf(o, i), Debt(o))

StockInv ==
    /\ IsFiniteSet(recipes)
    /\ InitialRecipes \subseteq recipes
    /\ \A o \in Serial : \A i \in Ingredients : StockFits(o, i)

\* The arithmetic of Drawing and Near.
LEMMA DrawingLasts ==
    ASSUME NEW u \in Int, NEW gone \in Nat, NEW more \in Nat, NEW debt \in Nat, NEW d \in Nat,
           Drawing(u, gone, debt), gone <= more, d >= debt, d >= 1 \/ more = gone
    PROVE  Drawing(u, more, d)
  BY DEF Drawing

\* debt times all, and one time more.
LEMMA OneTimeMore ==
    ASSUME NEW all \in Nat, NEW debt \in Nat
    PROVE  /\ debt * all \in Nat
           /\ (debt + 1) * all = debt * all + all
           /\ 0 * all = 0
  OBVIOUS

\* A product is not less if a factor is not.
LEMMA ProductsGrow ==
    ASSUME NEW a \in Nat, NEW b \in Nat, NEW c \in Nat, NEW d \in Nat, a <= c, b <= d
    PROVE  /\ a * b \in Nat /\ c * d \in Nat /\ a * b <= c * d
<1>1. PICK m \in Nat : c = a + m
  <2>1. c - a \in Nat /\ c = a + (c - a)
    OBVIOUS
  <2> QED BY <2>1
<1>2. PICK n \in Nat : d = b + n
  <2>1. d - b \in Nat /\ d = b + (d - b)
    OBVIOUS
  <2> QED BY <2>1
<1>3. c * d = a * b + a * n + m * b + m * n
  BY <1>1, <1>2
<1>4. a * b \in Nat /\ a * n \in Nat /\ m * b \in Nat /\ m * n \in Nat
  OBVIOUS
<1> QED BY <1>3, <1>4

\* What is near stays near while more is drawn by the recipes and reasons add up.
LEMMA NearGrows ==
    ASSUME NEW u \in Int, NEW gone \in Nat, NEW all \in Nat, NEW more \in Nat, NEW whole \in Nat,
           NEW debt \in Nat, NEW d \in Nat,
           Near(u + gone, all, debt), gone <= more, all - gone <= whole - more,
           d >= debt, d >= 1
    PROVE  Near(u + more, whole, d)
<1>1. all <= whole
  OBVIOUS
<1>2. PICK m \in Nat : whole = all + m
  <2>1. whole - all \in Nat /\ whole = all + (whole - all)
    BY <1>1
  <2> QED BY <2>1
<1>3. d * whole = d * all + d * m
  BY <1>2
<1>4. debt * all \in Nat /\ d * all \in Nat /\ debt * all <= d * all
  BY ProductsGrow
<1>5. d * m \in Nat /\ m <= d * m
  <2>1. 1 * m <= d * m /\ d * m \in Nat
    BY ProductsGrow
  <2> QED BY <2>1
<1>6. u + gone <= all /\ u + gone >= all - debt * all
  BY DEF Near
<1>7. u + more <= whole
  BY <1>6
<1>8. u + more >= whole - d * whole
  <2> DEFINE x == debt * all
             y == d * all
             z == d * m
             v == d * whole
  <2>1. x \in Nat /\ y \in Nat /\ z \in Nat /\ v = y + z /\ x <= y /\ m <= z
        /\ u + gone >= all - x
    BY <1>3, <1>4, <1>5, <1>6
  <2> HIDE DEF x, y, z, v
  <2>2. u + more >= whole - v
    BY <1>2, <2>1
  <2> QED BY <2>2 DEF v
<1> QED BY <1>7, <1>8 DEF Near

\* It stays near when only reasons are added.
LEMMA NearLasts ==
    ASSUME NEW x \in Int, NEW all \in Nat, NEW debt \in Nat, NEW d \in Nat,
           Near(x, all, debt), d >= debt
    PROVE  Near(x, all, d)
<1>1. debt * all \in Nat /\ d * all \in Nat /\ debt * all <= d * all
  BY ProductsGrow
<1> QED BY <1>1 DEF Near

\* What a handler has drawn when it ends, or dies.
LEMMA DrawnIsNear ==
    ASSUME NEW u \in Int, NEW gone \in Nat, NEW all \in Nat, NEW debt \in Nat,
           Drawing(u, gone, debt), gone <= all, gone = all \/ debt >= 1
    PROVE  Near(u, all, debt)
<1>1. CASE debt = 0
  <2>1. debt * all = 0
    BY <1>1, OneTimeMore
  <2> QED BY <1>1, <2>1 DEF Drawing, Near
<1>2. CASE debt >= 1
  <2>1. 1 * all <= debt * all /\ debt * all \in Nat
    BY <1>2, ProductsGrow
  <2> QED BY <2>1 DEF Drawing, Near
<1> QED BY <1>1, <1>2

\* What is left of the stock of an order whose void dies.
LEMMA ReturnedIsNear ==
    ASSUME NEW u \in Int, NEW gone \in Nat, NEW all \in Nat, NEW debt \in Nat,
           Near(u + gone, all, debt), gone <= all
    PROVE  Near(u, all, debt + 1)
<1>1. debt * all \in Nat /\ (debt + 1) * all = debt * all + all
  BY OneTimeMore
<1> QED BY <1>1 DEF Near

\* A step that does not concern the stock of o.
Alike(o) ==
    /\ used'[o] = used[o]
    /\ orders'[o].status = "paid" <=> orders[o].status = "paid"
    /\ orders'[o].status = "void" <=> orders[o].status = "void"
    /\ \A s \in Requests : requests'[s] = requests[s] \/ (~At(s, o) /\ ~At(s, o)')

\* The types of what StockFits compares.
LEMMA StockTyped ==
    ASSUME TypeOK, IsFiniteSet(recipes), NEW o \in OrderIds, NEW i \in Ingredients
    PROVE  /\ used[o][i] \in Int
           /\ AllOf(o, i) \in Nat
           /\ Debt(o) \in Nat
           /\ \A r \in Requests : requests[r].order = o =>
                  GoneBy(r, i) \in Nat /\ GoneBy(r, i) <= AllOf(o, i)
<1>1. used[o][i] \in Int /\ orders[o] \in Row /\ recipes \in SUBSET Recipe /\ aborts \in Nat
  BY DEF TypeOK
<1>2. orders[o].items \in Seq(Item)
  BY <1>1 DEF Row
<1>3. AllOf(o, i) \in Nat
  BY <1>1, <1>2, GoneBounds DEF AllOf
<1>4. ASSUME NEW r \in Requests, requests[r].order = o
      PROVE  GoneBy(r, i) \in Nat /\ GoneBy(r, i) <= AllOf(o, i)
  BY <1>1, <1>2, <1>4, GoneBounds DEF GoneBy, AllOf
<1> QED BY <1>1, <1>3, <1>4 DEF Debt

\* The same as one formula.
StockTypes ==
    \A o \in OrderIds, i \in Ingredients :
        TypeOK /\ IsFiniteSet(recipes) =>
            /\ used[o][i] \in Int
            /\ AllOf(o, i) \in Nat
            /\ Debt(o) \in Nat
            /\ \A r \in Requests : requests[r].order = o =>
                   GoneBy(r, i) \in Nat /\ GoneBy(r, i) <= AllOf(o, i)

\* It holds always.
LEMMA StockTypesHold == StockTypes
  BY StockTyped DEF StockTypes

\* So it does after a step.
LEMMA StockTypesNext == StockTypes'
  BY StockTypesHold, PTL

\* They are typed after a step as well.
LEMMA StockTypedNext ==
    ASSUME TypeOK', IsFiniteSet(recipes)', NEW o \in OrderIds, NEW i \in Ingredients
    PROVE  /\ used'[o][i] \in Int
           /\ AllOf(o, i)' \in Nat
           /\ Debt(o)' \in Nat
           /\ \A r \in Requests : requests'[r].order = o =>
                  GoneBy(r, i)' \in Nat /\ GoneBy(r, i)' <= AllOf(o, i)'
  BY StockTypesNext DEF StockTypes

\* The reasons for a return without a draw only add up.
LEMMA DebtLasts ==
    ASSUME TypeOK, recipes' = recipes, aborts' \in Nat, aborts' >= aborts, NEW o
    PROVE  Debt(o) \in Nat /\ Debt(o)' \in Nat /\ Debt(o)' >= Debt(o)
<1>1. aborts \in Nat
  BY DEF TypeOK
<1> DEFINE edited == IF recipes = InitialRecipes THEN 0 ELSE 1
<1>2. edited \in Nat /\ edited' = edited
  OBVIOUS
<1>3. /\ Debt(o) = IF o \in Calm THEN 0 ELSE aborts + edited
      /\ Debt(o)' = IF o \in Calm THEN 0 ELSE aborts' + edited
  BY DEF Debt
<1>4. ASSUME NEW a \in Nat, NEW b \in Nat, NEW e \in Nat, b >= a
      PROVE  a + e \in Nat /\ b + e \in Nat /\ b + e >= a + e
  BY <1>4
<1>5. CASE o \in Calm
  BY <1>3, <1>5
<1>6. CASE o \notin Calm
  <2> HIDE DEF edited
  <2> QED BY <1>1, <1>2, <1>3, <1>4, <1>6
<1> QED BY <1>5, <1>6

\* Such a step keeps the stock of o fitting.
LEMMA StockAlike ==
    ASSUME TypeInv, OrdersStay, IsFiniteSet(recipes),
           recipes' = recipes, aborts' \in Nat, aborts' >= aborts,
           NEW o \in OrderIds, NEW i \in Ingredients, Alike(o), StockFits(o, i)
    PROVE  StockFits(o, i)'
<1>1. TypeOK /\ NoOrder # o
  BY OrdersAssumption DEF TypeInv
<1>2. Debt(o) \in Nat /\ Debt(o)' \in Nat /\ Debt(o)' >= Debt(o)
  BY <1>1, DebtLasts
<1>3. used[o][i] \in Int /\ AllOf(o, i) \in Nat
  BY <1>1, StockTyped
<1>4. orders[o].status # "absent" => AllOf(o, i)' = AllOf(o, i)
  BY DEF AllOf, OrdersStay
<1>5. ASSUME NEW r \in Requests, At(r, o)'
      PROVE  /\ requests'[r] = requests[r] /\ At(r, o)
             /\ GoneBy(r, i)' = GoneBy(r, i) /\ GoneBy(r, i) \in Nat
  <2>1. requests'[r] = requests[r] /\ At(r, o)
    BY <1>5 DEF Alike, At
  <2>2. orders[o].status # "absent"
    BY <1>1, <2>1 DEF TypeInv, TargetExists, At
  <2>3. orders'[o].items = orders[o].items
    BY <2>2 DEF OrdersStay
  <2>4. GoneBy(r, i)' = GoneBy(r, i)
    BY <2>1, <2>3 DEF GoneBy, At
  <2>5. GoneBy(r, i) \in Nat
    BY <1>1, <2>1, StockTyped DEF At
  <2> QED BY <2>1, <2>4, <2>5
<1>6. ASSUME NEW r \in Requests, At(r, o)', requests'[r].op = "pay"
      PROVE  Drawing(used'[o][i], GoneBy(r, i)', Debt(o)')
  <2>1. Drawing(used[o][i], GoneBy(r, i), Debt(o))
    BY <1>5, <1>6 DEF StockFits
  <2>2. Drawing(used[o][i], GoneBy(r, i), Debt(o)')
    BY <1>2, <1>3, <1>5, <1>6, <2>1, DrawingLasts
  <2> QED BY <1>5, <1>6, <2>2 DEF Alike
<1>7. ASSUME NEW r \in Requests, At(r, o)', requests'[r].op = "void", orders'[o].status = "paid"
      PROVE  Near(used'[o][i] + GoneBy(r, i)', AllOf(o, i)', Debt(o)')
  <2>1. orders[o].status = "paid"
    BY <1>7 DEF Alike
  <2>2. Near(used[o][i] + GoneBy(r, i), AllOf(o, i), Debt(o))
    BY <1>5, <1>7, <2>1 DEF StockFits
  <2>3. used[o][i] + GoneBy(r, i) \in Int
    BY <1>3, <1>5, <1>7
  <2>4. Near(used[o][i] + GoneBy(r, i), AllOf(o, i), Debt(o)')
    BY <1>2, <1>3, <2>2, <2>3, NearLasts
  <2> QED BY <1>4, <1>5, <1>7, <2>1, <2>4 DEF Alike
<1>8. ASSUME orders'[o].status = "paid", \A r \in Requests : ~At(r, o)'
      PROVE  Near(used'[o][i], AllOf(o, i)', Debt(o)')
  <2>1. orders[o].status = "paid"
    BY <1>8 DEF Alike
  <2>2. \A r \in Requests : ~At(r, o)
    BY <1>8 DEF Alike, At
  <2>3. Near(used[o][i], AllOf(o, i), Debt(o))
    BY <2>1, <2>2 DEF StockFits
  <2>4. Near(used[o][i], AllOf(o, i), Debt(o)')
    BY <1>2, <1>3, <2>3, NearLasts
  <2> QED BY <1>4, <2>1, <2>4 DEF Alike
<1>9. ASSUME orders'[o].status = "void"
      PROVE  Near(used'[o][i] + AllOf(o, i)', AllOf(o, i)', Debt(o)')
  <2>1. orders[o].status = "void"
    BY <1>9 DEF Alike
  <2>2. Near(used[o][i] + AllOf(o, i), AllOf(o, i), Debt(o))
    BY <2>1 DEF StockFits
  <2>3. used[o][i] + AllOf(o, i) \in Int
    BY <1>3
  <2>4. Near(used[o][i] + AllOf(o, i), AllOf(o, i), Debt(o)')
    BY <1>2, <1>3, <2>2, <2>3, NearLasts
  <2> QED BY <1>4, <2>1, <2>4 DEF Alike
<1> QED BY <1>6, <1>7, <1>8, <1>9 DEF StockFits

\* A new row in the recipes keeps it fitting.
LEMMA StockGrows ==
    ASSUME TypeInv, TypeInv', StockInv, CreateRecipe,
           NEW o \in Serial, NEW i \in Ingredients
    PROVE  StockFits(o, i)' /\ IsFiniteSet(recipes)' /\ InitialRecipes \subseteq recipes'
<1>1. TypeOK /\ TypeOK' /\ IsFiniteSet(recipes) /\ InitialRecipes \subseteq recipes
      /\ o \in OrderIds /\ StockFits(o, i)
  BY OrdersAssumption DEF TypeInv, StockInv
<1>2. PICK row \in NewRecipes \ recipes : recipes' = recipes \cup {row}
  BY DEF CreateRecipe
<1>3. /\ UNCHANGED <<orders, used, jobs, requests, aborts>>
      /\ \A p \in Calm : orders[p].status = "absent"
  BY DEF CreateRecipe
<1>4. IsFiniteSet(recipes') /\ InitialRecipes \subseteq recipes' /\ recipes' # InitialRecipes
  BY <1>1, <1>2, FS_AddElement
<1>5. CASE orders[o].status = "absent"
  <2>1. \A r \in Requests : ~At(r, o)
    BY <1>5 DEF TypeInv, TargetExists, At
  <2>2. \A r \in Requests : ~At(r, o)'
    BY <1>3, <2>1 DEF At
  <2>3. orders'[o].status = "absent"
    BY <1>3, <1>5
  <2> QED BY <1>4, <2>2, <2>3 DEF StockFits
<1>6. CASE orders[o].status # "absent"
  <2>0. o \notin Calm
    BY <1>3, <1>6
  <2> DEFINE debt == Debt(o)
             d == Debt(o)'
  <2>1. debt \in Nat /\ d \in Nat /\ d >= debt /\ d >= 1
    <3>1. aborts \in Nat
      BY <1>1 DEF TypeOK
    <3>2. debt = aborts + 0 \/ debt = aborts + 1
      BY <2>0 DEF Debt
    <3>3. d = aborts' + 1 /\ aborts' = aborts
      BY <1>3, <1>4, <2>0 DEF Debt
    <3> HIDE DEF debt, d
    <3> QED BY <3>1, <3>2, <3>3
  <2>2. /\ used[o][i] \in Int /\ AllOf(o, i) \in Nat
        /\ \A r \in Requests : requests[r].order = o => GoneBy(r, i) \in Nat
    BY <1>1, StockTyped
  <2>3. /\ AllOf(o, i)' \in Nat
        /\ \A r \in Requests : requests'[r].order = o => GoneBy(r, i)' \in Nat
    BY <1>1, <1>4, StockTypedNext
  <2>4. \A k, left :
           /\ Gone(recipes, orders[o].items, i, k, left) <= Gone(recipes', orders[o].items, i, k, left)
           /\ AllOf(o, i) - Gone(recipes, orders[o].items, i, k, left)
                  <= AllOf(o, i)' - Gone(recipes', orders[o].items, i, k, left)
    <3>1. /\ recipes \in SUBSET Recipe /\ recipes' \in SUBSET Recipe /\ recipes \subseteq recipes'
          /\ orders[o].items \in Seq(Item) /\ orders'[o].items = orders[o].items
      BY <1>1, <1>2, <1>3 DEF TypeOK, Row
    <3> QED BY <1>4, <3>1, GoneGrows DEF AllOf
  <2>5. ASSUME NEW r \in Requests, At(r, o)'
        PROVE  /\ At(r, o) /\ requests'[r] = requests[r]
               /\ GoneBy(r, i) <= GoneBy(r, i)'
               /\ AllOf(o, i) - GoneBy(r, i) <= AllOf(o, i)' - GoneBy(r, i)'
               /\ GoneBy(r, i) \in Nat /\ GoneBy(r, i)' \in Nat
    <3>1. At(r, o) /\ requests'[r] = requests[r] /\ requests[r].order = o
      BY <1>3, <2>5 DEF At
    <3>2. /\ GoneBy(r, i) = Gone(recipes, orders[o].items, i, requests[r].item, requests[r].rows)
          /\ GoneBy(r, i)' = Gone(recipes', orders[o].items, i, requests[r].item, requests[r].rows)
      BY <1>3, <3>1 DEF GoneBy
    <3> QED BY <2>2, <2>3, <2>4, <3>1, <3>2
  <2>6. Gone(recipes, orders[o].items, i, 0, {}) = 0 /\ Gone(recipes', orders[o].items, i, 0, {}) = 0
    <3>1. recipes \in SUBSET Recipe /\ recipes' \in SUBSET Recipe /\ orders[o].items \in Seq(Item)
      BY <1>1 DEF TypeOK, Row
    <3> QED BY <1>1, <1>4, <3>1, GoneNothing
  <2>7. AllOf(o, i) <= AllOf(o, i)'
    <3> DEFINE a == AllOf(o, i)
               b == AllOf(o, i)'
    <3>1. a - 0 <= b - 0 /\ a \in Nat /\ b \in Nat
      BY <2>2, <2>3, <2>4, <2>6
    <3> HIDE DEF a, b
    <3>2. a <= b
      BY <3>1
    <3> QED BY <3>2 DEF a, b
  <2> HIDE DEF debt, d
  <2>8. ASSUME NEW r \in Requests, At(r, o)', requests'[r].op = "pay"
        PROVE  Drawing(used[o][i], GoneBy(r, i)', d)
    <3>1. Drawing(used[o][i], GoneBy(r, i), debt)
      BY <1>1, <2>5, <2>8 DEF StockFits, debt
    <3> QED BY <2>1, <2>2, <2>5, <2>8, <3>1, DrawingLasts
  <2>9. ASSUME NEW r \in Requests, At(r, o)', requests'[r].op = "void", orders'[o].status = "paid"
        PROVE  Near(used[o][i] + GoneBy(r, i)', AllOf(o, i)', d)
    <3>1. Near(used[o][i] + GoneBy(r, i), AllOf(o, i), debt)
      BY <1>1, <1>3, <2>5, <2>9 DEF StockFits, debt
    <3> QED BY <2>1, <2>2, <2>3, <2>5, <2>9, <3>1, NearGrows
  <2>10. ASSUME orders'[o].status = "paid", \A r \in Requests : ~At(r, o)'
         PROVE  Near(used[o][i], AllOf(o, i)', d)
    <3>1. \A r \in Requests : ~At(r, o)
      BY <1>3, <2>10 DEF At
    <3>2. Near(used[o][i], AllOf(o, i), debt)
      BY <1>1, <1>3, <2>10, <3>1 DEF StockFits, debt
    <3>3. Near(used[o][i] + 0, AllOf(o, i), debt) /\ used[o][i] + 0 = used[o][i]
      BY <2>2, <3>2
    <3>4. 0 <= 0 /\ AllOf(o, i) - 0 <= AllOf(o, i)' - 0
      BY <2>2, <2>3, <2>7
    <3>5. Near(used[o][i] + 0, AllOf(o, i)', d)
      BY <2>1, <2>2, <2>3, <3>3, <3>4, NearGrows
    <3> QED BY <3>3, <3>5
  <2>11. ASSUME orders'[o].status = "void"
         PROVE  Near(used[o][i] + AllOf(o, i)', AllOf(o, i)', d)
    <3>1. Near(used[o][i] + AllOf(o, i), AllOf(o, i), debt)
      BY <1>1, <1>3, <2>11 DEF StockFits, debt
    <3>2. AllOf(o, i) - AllOf(o, i) <= AllOf(o, i)' - AllOf(o, i)'
      BY <2>2, <2>3
    <3> QED BY <2>1, <2>2, <2>3, <2>7, <3>1, <3>2, NearGrows
  <2>12. used'[o][i] = used[o][i]
    BY <1>3
  <2>13. StockFits(o, i)'
    BY <2>8, <2>9, <2>10, <2>11, <2>12 DEF StockFits, d
  <2> QED BY <1>4, <2>13
<1> QED BY <1>5, <1>6

\* A step of r on its own order o keeps the stock of o fitting if it does so for r.
LEMMA OwnStock ==
    ASSUME SerialInv, NEW r \in Requests, Alone(r), Active(r),
           NEW o \in Serial, requests[r].order = o, requests'[r].order = o, NEW i \in Ingredients,
           requests'[r].pc = "stock" /\ requests'[r].op = "pay" =>
               Drawing(used'[o][i], GoneBy(r, i)', Debt(o)'),
           requests'[r].pc = "stock" /\ requests'[r].op = "void" /\ orders'[o].status = "paid" =>
               Near(used'[o][i] + GoneBy(r, i)', AllOf(o, i)', Debt(o)'),
           requests'[r].pc # "stock" /\ orders'[o].status = "paid" =>
               Near(used'[o][i], AllOf(o, i)', Debt(o)'),
           orders'[o].status = "void" =>
               Near(used'[o][i] + AllOf(o, i)', AllOf(o, i)', Debt(o)')
    PROVE  StockFits(o, i)'
<1>1. ASSUME NEW s \in Requests, At(s, o)' PROVE s = r
  <2>1. SUFFICES ASSUME s # r PROVE FALSE
    OBVIOUS
  <2>2. requests'[s] = requests[s]
    BY <2>1 DEF Alone
  <2>3. Active(s) /\ requests[s].order = o
    BY <1>1, <2>2 DEF At, Active
  <2> QED BY <2>1, <2>3 DEF SerialInv, OneAtATime
<1>2. At(r, o)' <=> requests'[r].pc = "stock"
  BY DEF At
<1>3. \A s \in Requests : At(s, o)' /\ requests'[s].op = "pay" =>
          Drawing(used'[o][i], GoneBy(s, i)', Debt(o)')
  BY <1>1, <1>2
<1>4. \A s \in Requests : At(s, o)' /\ requests'[s].op = "void" /\ orders'[o].status = "paid" =>
          Near(used'[o][i] + GoneBy(s, i)', AllOf(o, i)', Debt(o)')
  BY <1>1, <1>2
<1>5. orders'[o].status = "paid" /\ (\A s \in Requests : ~At(s, o)') =>
          Near(used'[o][i], AllOf(o, i)', Debt(o)')
  BY <1>2
<1> QED BY <1>3, <1>4, <1>5 DEF StockFits

\* The step of a handler keeps the invariant if it does so for the order it works on.
LEMMA OthersStock ==
    ASSUME TypeInv, OrdersStay, StockInv, NEW r \in Requests, Alone(r),
           recipes' = recipes, aborts' \in Nat, aborts' >= aborts, NEW p,
           At(r, p) \/ requests[r].pc # "stock", At(r, p)' \/ requests'[r].pc # "stock",
           \A o \in OrderIds \ {p} : orders'[o] = orders[o] /\ used'[o] = used[o],
           p \in Serial => \A i \in Ingredients : StockFits(p, i)'
    PROVE  StockInv'
<1>1. ASSUME NEW o \in Serial, NEW i \in Ingredients PROVE StockFits(o, i)'
  <2>1. CASE o = p
    BY <2>1
  <2>2. CASE o # p
    <3>1. o \in OrderIds /\ StockFits(o, i) /\ IsFiniteSet(recipes)
      BY OrdersAssumption DEF StockInv
    <3>2. ASSUME NEW s \in Requests
          PROVE  requests'[s] = requests[s] \/ (~At(s, o) /\ ~At(s, o)')
      <4>1. CASE s = r
        BY <2>2, <4>1 DEF At
      <4>2. CASE s # r
        BY <4>2 DEF Alone
      <4> QED BY <4>1, <4>2
    <3>3. Alike(o)
      BY <2>2, <3>1, <3>2 DEF Alike
    <3> QED BY <3>1, <3>3, StockAlike
  <2> QED BY <2>1, <2>2
<1> QED BY <1>1 DEF StockInv

\* A step outside deductStock() and restoreStock() keeps the invariant.
LEMMA QuietStock ==
    ASSUME TypeInv, OrdersStay, StockInv, NEW r \in Requests, Alone(r),
           recipes' = recipes, used' = used, aborts' \in Nat, aborts' >= aborts,
           requests[r].pc # "stock", requests'[r].pc # "stock",
           \A o \in OrderIds : /\ orders'[o].status = "paid" <=> orders[o].status = "paid"
                               /\ orders'[o].status = "void" <=> orders[o].status = "void"
    PROVE  StockInv'
<1>1. ASSUME NEW o \in Serial, NEW i \in Ingredients PROVE StockFits(o, i)'
  <2>1. o \in OrderIds /\ StockFits(o, i) /\ IsFiniteSet(recipes)
    BY OrdersAssumption DEF StockInv
  <2>2. \A s \in Requests : requests'[s] = requests[s] \/ (~At(s, o) /\ ~At(s, o)')
    BY DEF Alone, At
  <2>3. Alike(o)
    BY <2>1, <2>2 DEF Alike
  <2> QED BY <2>1, <2>3, StockAlike
<1> QED BY <1>1 DEF StockInv

\* Initially no stock is drawn.
LEMMA InitStockInv == Init => StockInv
  BY OrdersAssumption DEF Init, StockInv, StockFits, At, IdleRequest, NoRow

\* What holds of the order of a handler before any of its steps in deductStock() or
\* restoreStock(), and of the values that step compares.
LEMMA StockSetting ==
    ASSUME TypeInv, SerialInv, StockInv, NEW r \in Requests, requests[r].order \in Serial,
           NEW i \in Ingredients
    PROVE  \E o \in Serial :
              /\ o = requests[r].order /\ o \in OrderIds
              /\ orders[o] \in Row /\ orders[o].items \in Seq(Item)
              /\ recipes \in SUBSET Recipe /\ IsFiniteSet(recipes)
              /\ StockFits(o, i) /\ HandlerFits(r) /\ RequestFits(r) /\ TargetExists(r)
              /\ BookFits(o)
              /\ used[o][i] \in Int /\ AllOf(o, i) \in Nat /\ Debt(o) \in Nat
              /\ GoneBy(r, i) \in Nat /\ GoneBy(r, i) <= AllOf(o, i)
              /\ GoneBy(r, i) = Gone(recipes, orders[o].items, i, requests[r].item, requests[r].rows)
              /\ Active(r) => \A s \in Requests : At(s, o) => s = r
<1>1. PICK o \in Serial : o = requests[r].order
  OBVIOUS
<1>2. o \in OrderIds /\ TypeOK /\ IsFiniteSet(recipes)
  BY OrdersAssumption DEF TypeInv, StockInv
<1>3. orders[o] \in Row /\ recipes \in SUBSET Recipe
  BY <1>2 DEF TypeOK
<1>4. orders[o].items \in Seq(Item)
  BY <1>3 DEF Row
<1>5. StockFits(o, i) /\ HandlerFits(r) /\ RequestFits(r) /\ TargetExists(r) /\ BookFits(o)
  BY <1>2 DEF TypeInv, SerialInv, StockInv
<1>6. /\ used[o][i] \in Int /\ AllOf(o, i) \in Nat /\ Debt(o) \in Nat
      /\ GoneBy(r, i) \in Nat /\ GoneBy(r, i) <= AllOf(o, i)
  BY <1>1, <1>2, StockTyped
<1>7. GoneBy(r, i) = Gone(recipes, orders[o].items, i, requests[r].item, requests[r].rows)
  BY <1>1 DEF GoneBy
<1>8. Active(r) => \A s \in Requests : At(s, o) => s = r
  BY <1>1 DEF SerialInv, OneAtATime, At, Active
<1> QED BY <1>1, <1>2, <1>3, <1>4, <1>5, <1>6, <1>7, <1>8

\* A step that leaves recipes, deaths and the items of o alone does not change what o draws.
LEMMA SameAll ==
    ASSUME NEW o, recipes' = recipes, aborts' = aborts, orders'[o].items = orders[o].items
    PROVE  Debt(o)' = Debt(o) /\ \A i : AllOf(o, i)' = AllOf(o, i)
  BY DEF Debt, AllOf

\* addPayment() starts to draw.
LEMMA PayMarkStock ==
    ASSUME TypeInv, SerialInv, StockInv, NEW r \in Requests, PayMark(r),
           NEW o \in Serial, o = requests[r].order, NEW i \in Ingredients
    PROVE  StockFits(o, i)'
<1>1. /\ o \in OrderIds
      /\ orders[o] \in Row /\ orders[o].items \in Seq(Item)
      /\ recipes \in SUBSET Recipe /\ IsFiniteSet(recipes)
      /\ HandlerFits(r) /\ RequestFits(r) /\ TargetExists(r) /\ BookFits(o)
      /\ Debt(o) \in Nat
  BY StockSetting
<1>2. /\ Moves(r, "mark", "stock") /\ KeepsRest(r)
      /\ orders' = [orders EXCEPT ![o].status = "paid"]
      /\ UNCHANGED <<used, recipes, jobs, display, aborts>>
  BY PayMarkEffect DEF TypeInv
<1>3. orders'[o].status = "paid" /\ orders'[o].items = orders[o].items
  BY <1>1, <1>2 DEF TypeInv, TypeOK, Row
<1>4. /\ requests'[r].order = o /\ requests'[r].item = 0 /\ requests'[r].rows = {}
      /\ requests'[r].op = "pay" /\ requests'[r].pc = "stock"
  BY <1>1, <1>2 DEF Moves, KeepsRest, SameRequest, RequestFits, TargetExists
<1>5. GoneBy(r, i)' = 0
  <2>1. GoneBy(r, i)' = Gone(recipes, orders[o].items, i, 0, {})
    BY <1>2, <1>3, <1>4 DEF GoneBy
  <2> QED BY <1>1, <2>1, GoneNothing
<1>6. used'[o][i] = 0
  BY <1>1, <1>2 DEF HandlerFits, BookFits, Moves, NoStock
<1>7. Drawing(used'[o][i], GoneBy(r, i)', Debt(o)')
  BY <1>5, <1>6 DEF Drawing
<1>8. Alone(r) /\ Active(r)
  BY <1>2 DEF Moves, Active
<1> QED BY <1>3, <1>4, <1>7, <1>8, OwnStock

\* voidOrder() starts to give back.
LEMMA VoidReadStock ==
    ASSUME TypeInv, SerialInv, StockInv, NEW r \in Requests, VoidRead(r),
           NEW o \in Serial, o = requests[r].order, NEW i \in Ingredients
    PROVE  StockFits(o, i)'
<1>1. /\ o \in OrderIds
      /\ orders[o] \in Row /\ orders[o].items \in Seq(Item)
      /\ recipes \in SUBSET Recipe /\ IsFiniteSet(recipes)
      /\ StockFits(o, i) /\ TargetExists(r)
      /\ used[o][i] \in Int
      /\ Active(r) => \A s \in Requests : At(s, o) => s = r
  BY StockSetting
<1>2. /\ Alone(r) /\ SameRequest(r) /\ requests[r].pc = "voidRead"
      /\ requests'[r].order = o
      /\ requests'[r].rows = requests[r].rows
      /\ \/ requests'[r].pc = "done"
         \/ /\ requests'[r].pc = "stock" /\ VoidRefusal(o) = "none"
            /\ requests'[r].item = IF orders[o].status = "paid" THEN 0 ELSE Len(orders[o].items)
      /\ UNCHANGED <<orders, used, recipes, jobs, display, aborts>>
  BY VoidReadEffect DEF TypeInv
<1>3. Active(r) /\ requests'[r].op = "void" /\ requests'[r].rows = {}
  BY <1>1, <1>2 DEF Active, SameRequest, TargetExists
<1>4. \A s \in Requests : ~At(s, o)
  BY <1>1, <1>2, <1>3 DEF At
<1>5. Debt(o)' = Debt(o) /\ AllOf(o, i)' = AllOf(o, i)
  BY <1>2, SameAll
<1>6. ASSUME requests'[r].pc = "stock", orders'[o].status = "paid"
      PROVE  Near(used'[o][i] + GoneBy(r, i)', AllOf(o, i)', Debt(o)')
  <2>1. requests'[r].item = 0 /\ orders[o].status = "paid"
    BY <1>2, <1>6
  <2>2. GoneBy(r, i)' = Gone(recipes, orders[o].items, i, 0, {})
    BY <1>2, <1>3, <2>1 DEF GoneBy
  <2>3. GoneBy(r, i)' = 0
    BY <1>1, <2>2, GoneNothing
  <2>4. Near(used[o][i], AllOf(o, i), Debt(o))
    BY <1>1, <1>4, <2>1 DEF StockFits
  <2>5. used'[o][i] + GoneBy(r, i)' = used[o][i]
    BY <1>1, <1>2, <2>3
  <2> QED BY <1>5, <2>4, <2>5
<1>7. orders'[o].status = "paid" => Near(used'[o][i], AllOf(o, i)', Debt(o)')
  BY <1>1, <1>2, <1>4, <1>5 DEF StockFits
<1>8. orders'[o].status = "void" =>
         Near(used'[o][i] + AllOf(o, i)', AllOf(o, i)', Debt(o)')
  BY <1>1, <1>2, <1>5 DEF StockFits
<1> QED BY <1>2, <1>3, <1>6, <1>7, <1>8, OwnStock

\* They go on to the next line.
LEMMA FindRecipesStock ==
    ASSUME TypeInv, SerialInv, StockInv, NEW r \in Requests, FindRecipes(r),
           NEW o \in Serial, o = requests[r].order, NEW i \in Ingredients
    PROVE  StockFits(o, i)'
<1>1. /\ o \in OrderIds
      /\ orders[o] \in Row /\ orders[o].items \in Seq(Item)
      /\ StockFits(o, i)
      /\ GoneBy(r, i) = Gone(recipes, orders[o].items, i, requests[r].item, requests[r].rows)
  BY StockSetting
<1>2. /\ Moves(r, "stock", "stock") /\ requests[r].rows = {}
      /\ requests'[r].item = requests[r].item + 1
      /\ requests'[r].item \in 1 .. Len(orders[o].items)
      /\ requests'[r].rows = RowsOf(orders[o].items[requests'[r].item].product)
      /\ UNCHANGED <<orders, used, recipes, jobs, display, aborts>>
  BY FindRecipesEffect DEF TypeInv
<1>3. At(r, o) /\ Alone(r) /\ Active(r) /\ requests'[r].order = o
      /\ requests'[r].op = requests[r].op /\ requests'[r].pc = "stock"
  BY <1>2 DEF Moves, At, Active, SameRequest
<1>4. PICK k \in Nat : k = requests[r].item
  BY RequestTyped DEF TypeInv, Request
<1>5. requests'[r].rows = {row \in recipes : row.product = orders[o].items[k + 1].product}
  BY <1>2, <1>4 DEF RowsOf
<1>6. GoneBy(r, i)' = Gone(recipes, orders[o].items, i, k + 1, requests'[r].rows)
  BY <1>2, <1>3, <1>4 DEF GoneBy
<1>7. Gone(recipes, orders[o].items, i, k + 1, requests'[r].rows) =
         Gone(recipes, orders[o].items, i, k, {})
  BY <1>1, <1>2, <1>4, <1>5, GoneNext
<1>8. GoneBy(r, i)' = GoneBy(r, i)
  BY <1>1, <1>2, <1>4, <1>6, <1>7
<1>9. Debt(o)' = Debt(o) /\ AllOf(o, i)' = AllOf(o, i)
  BY <1>2, SameAll
<1>10. requests'[r].op = "pay" => Drawing(used'[o][i], GoneBy(r, i)', Debt(o)')
  BY <1>1, <1>2, <1>3, <1>8, <1>9 DEF StockFits
<1>11. requests'[r].op = "void" /\ orders'[o].status = "paid" =>
          Near(used'[o][i] + GoneBy(r, i)', AllOf(o, i)', Debt(o)')
  BY <1>1, <1>2, <1>3, <1>8, <1>9 DEF StockFits
<1>12. orders'[o].status = "void" =>
          Near(used'[o][i] + AllOf(o, i)', AllOf(o, i)', Debt(o)')
  BY <1>1, <1>2, <1>9 DEF StockFits
<1> QED BY <1>3, <1>10, <1>11, <1>12, OwnStock

\* They change the stock of one ingredient.
LEMMA MoveStockStock ==
    ASSUME TypeInv, SerialInv, StockInv, NEW r \in Requests, MoveStock(r),
           NEW o \in Serial, o = requests[r].order, NEW i \in Ingredients
    PROVE  StockFits(o, i)'
<1>1. /\ o \in OrderIds
      /\ orders[o] \in Row /\ orders[o].items \in Seq(Item)
      /\ recipes \in SUBSET Recipe /\ IsFiniteSet(recipes)
      /\ StockFits(o, i) /\ HandlerFits(r) /\ RequestFits(r) /\ TargetExists(r)
      /\ used[o][i] \in Int /\ AllOf(o, i) \in Nat /\ Debt(o) \in Nat
      /\ GoneBy(r, i) \in Nat
      /\ GoneBy(r, i) = Gone(recipes, orders[o].items, i, requests[r].item, requests[r].rows)
  BY StockSetting
<1>2. PICK row \in requests[r].rows :
         /\ Moves(r, "stock", "stock")
         /\ requests'[r].item = requests[r].item
         /\ requests'[r].rows = requests[r].rows \ {row}
         /\ used' = [used EXCEPT ![o][row.ingredient] = @ + StockChange(r, row)]
         /\ UNCHANGED <<orders, recipes, jobs, display, aborts>>
  BY MoveStockEffect DEF TypeInv
<1>3. At(r, o) /\ Alone(r) /\ Active(r) /\ requests'[r].order = o /\ requests[r].pc = "stock"
      /\ requests'[r].op = requests[r].op /\ requests'[r].pc = "stock"
  BY <1>2 DEF Moves, At, Active, SameRequest
<1>4. PICK k \in 1 .. Len(orders[o].items) : k = requests[r].item
  BY <1>1, <1>2, <1>3 DEF TargetExists
<1>5. requests[r].rows \subseteq {x \in recipes : x.product = orders[o].items[k].product}
  BY <1>1, <1>2, <1>3, <1>4 DEF RequestFits, RowsOf
<1> DEFINE qty == orders[o].items[k].qty
           w == IF row.ingredient = i THEN row.usage * qty ELSE 0
<1>6. row \in Recipe /\ orders[o].items[k] \in Item
  BY <1>1, <1>5
<1>7. row.usage \in Nat /\ qty \in Nat /\ row.ingredient \in Ingredients
  BY <1>6 DEF Recipe, Item
<1>8. w \in Nat
  <2>1. row.usage * qty \in Nat
    <3> HIDE DEF qty
    <3> QED BY <1>7
  <2> QED BY <2>1
<1>9. GoneBy(r, i)' = GoneBy(r, i) + w
  <2>1. GoneBy(r, i)' = Gone(recipes, orders[o].items, i, k, requests[r].rows \ {row})
    BY <1>2, <1>3, <1>4 DEF GoneBy
  <2>2. Gone(recipes, orders[o].items, i, k, requests[r].rows \ {row}) =
            Gone(recipes, orders[o].items, i, k, requests[r].rows) + w
    <3>1. row \in requests[r].rows
      BY <1>2
    <3> QED BY <1>1, <1>5, <3>1, GoneOne
  <2> QED BY <1>1, <1>4, <2>1, <2>2
<1>10. StockChange(r, row) = IF requests[r].op = "pay" THEN row.usage * qty ELSE -(row.usage * qty)
  BY <1>4 DEF StockChange
<1>11. requests[r].op = "pay" => used'[o][i] = used[o][i] + w
  <2>1. used \in [OrderIds -> [Ingredients -> Int]]
    BY DEF TypeInv, TypeOK
  <2>2. used'[o] = [used[o] EXCEPT ![row.ingredient] = @ + StockChange(r, row)]
    BY <1>1, <1>2, <2>1
  <2>3. used'[o][i] = IF row.ingredient = i THEN used[o][i] + StockChange(r, row) ELSE used[o][i]
    BY <1>1, <1>7, <2>1, <2>2
  <2> QED BY <1>1, <1>10, <2>3
<1>12. requests[r].op = "void" => used'[o][i] = used[o][i] - w
  <2>1. used \in [OrderIds -> [Ingredients -> Int]]
    BY DEF TypeInv, TypeOK
  <2>2. used'[o] = [used[o] EXCEPT ![row.ingredient] = @ + StockChange(r, row)]
    BY <1>1, <1>2, <2>1
  <2>3. used'[o][i] = IF row.ingredient = i THEN used[o][i] + StockChange(r, row) ELSE used[o][i]
    BY <1>1, <1>7, <2>1, <2>2
  <2>4. row.usage * qty \in Nat
    BY <1>7
  <2> QED BY <1>1, <1>10, <2>3, <2>4
<1> HIDE DEF w, qty
<1>13. Debt(o)' = Debt(o) /\ AllOf(o, i)' = AllOf(o, i)
  BY <1>2, SameAll
<1>14. requests'[r].op = "pay" => Drawing(used'[o][i], GoneBy(r, i)', Debt(o)')
  <2>1. requests[r].op = "pay" => Drawing(used[o][i], GoneBy(r, i), Debt(o))
    BY <1>1, <1>3 DEF StockFits
  <2>2. ASSUME NEW u \in Int, NEW gone \in Nat, NEW debt \in Nat, Drawing(u, gone, debt)
        PROVE  Drawing(u + w, gone + w, debt)
    BY <1>8, <2>2 DEF Drawing
  <2> QED BY <1>1, <1>3, <1>9, <1>11, <1>13, <2>1, <2>2
<1>15. requests'[r].op = "void" /\ orders'[o].status = "paid" =>
          Near(used'[o][i] + GoneBy(r, i)', AllOf(o, i)', Debt(o)')
  <2>1. requests[r].op = "void" /\ orders[o].status = "paid" =>
           Near(used[o][i] + GoneBy(r, i), AllOf(o, i), Debt(o))
    BY <1>1, <1>3 DEF StockFits
  <2>2. requests[r].op = "void" => used'[o][i] + GoneBy(r, i)' = used[o][i] + GoneBy(r, i)
    <3>1. ASSUME NEW u \in Int, NEW gone \in Nat PROVE (u - w) + (gone + w) = u + gone
      BY <1>8
    <3> QED BY <1>1, <1>9, <1>12, <3>1
  <2> QED BY <1>2, <1>3, <1>13, <2>1, <2>2
<1>16. orders'[o].status # "void"
  BY <1>1, <1>2, <1>3 DEF HandlerFits, RequestFits
<1> QED BY <1>3, <1>14, <1>15, <1>16, OwnStock

\* addPayment() has drawn everything.
LEMMA PayEnqueueStock ==
    ASSUME TypeInv, SerialInv, StockInv, NEW r \in Requests, PayEnqueue(r),
           NEW o \in Serial, o = requests[r].order, NEW i \in Ingredients
    PROVE  StockFits(o, i)'
<1>1. /\ o \in OrderIds
      /\ orders[o] \in Row /\ orders[o].items \in Seq(Item)
      /\ StockFits(o, i) /\ HandlerFits(r)
      /\ used[o][i] \in Int /\ AllOf(o, i) \in Nat /\ Debt(o) \in Nat
      /\ GoneBy(r, i) = Gone(recipes, orders[o].items, i, requests[r].item, requests[r].rows)
  BY StockSetting
<1>2. /\ Moves(r, "stock", "reload")
      /\ requests[r].op = "pay" /\ requests[r].rows = {}
      /\ requests[r].item = Len(orders[o].items)
      /\ UNCHANGED <<orders, used, recipes, display, aborts>>
  BY PayEnqueueEffect DEF TypeInv
<1>3. At(r, o) /\ Alone(r) /\ Active(r) /\ requests'[r].order = o /\ requests'[r].pc = "reload"
  BY <1>2 DEF Moves, At, Active
<1>4. GoneBy(r, i) = AllOf(o, i)
  BY <1>1, <1>2, GoneAll DEF AllOf
<1>5. Drawing(used[o][i], AllOf(o, i), Debt(o))
  BY <1>1, <1>2, <1>3, <1>4 DEF StockFits
<1>6. Near(used[o][i], AllOf(o, i), Debt(o))
  BY <1>1, <1>5, DrawnIsNear
<1>7. Debt(o)' = Debt(o) /\ AllOf(o, i)' = AllOf(o, i) /\ used'[o][i] = used[o][i]
  BY <1>2, SameAll
<1>8. orders'[o].status # "void"
  BY <1>1, <1>2, <1>3 DEF HandlerFits, Moves
<1> QED BY <1>3, <1>6, <1>7, <1>8, OwnStock

\* voidOrder() has given everything back, or had nothing to give back.
LEMMA VoidMarkStock ==
    ASSUME TypeInv, SerialInv, StockInv, NEW r \in Requests, VoidMark(r),
           NEW o \in Serial, o = requests[r].order, NEW i \in Ingredients
    PROVE  StockFits(o, i)'
<1>1. /\ o \in OrderIds
      /\ orders[o] \in Row /\ orders[o].items \in Seq(Item)
      /\ StockFits(o, i) /\ HandlerFits(r) /\ BookFits(o)
      /\ used[o][i] \in Int /\ AllOf(o, i) \in Nat /\ Debt(o) \in Nat
      /\ GoneBy(r, i) = Gone(recipes, orders[o].items, i, requests[r].item, requests[r].rows)
  BY StockSetting
<1>2. /\ Moves(r, "stock", "reload")
      /\ requests[r].op = "void" /\ requests[r].rows = {}
      /\ requests[r].item = Len(orders[o].items)
      /\ orders' = [orders EXCEPT ![o].status = "void"]
      /\ UNCHANGED <<used, recipes, jobs, display, aborts>>
  BY VoidMarkEffect DEF TypeInv
<1>3. At(r, o) /\ Alone(r) /\ Active(r) /\ requests'[r].order = o /\ requests'[r].pc = "reload"
      /\ requests[r].pc = "stock"
  BY <1>2 DEF Moves, At, Active
<1>4. orders'[o].status = "void" /\ orders'[o].items = orders[o].items
  BY <1>1, <1>2 DEF TypeInv, TypeOK, Row
<1>5. GoneBy(r, i) = AllOf(o, i)
  BY <1>1, <1>2, GoneAll DEF AllOf
<1>6. Debt(o)' = Debt(o) /\ AllOf(o, i)' = AllOf(o, i) /\ used'[o][i] = used[o][i]
  BY <1>2, <1>4, SameAll
<1>7. Near(used[o][i] + AllOf(o, i), AllOf(o, i), Debt(o))
  <2>1. CASE orders[o].status = "paid"
    BY <1>1, <1>2, <1>3, <1>5, <2>1 DEF StockFits
  <2>2. CASE orders[o].status = "pending"
    <3>1. used[o][i] = 0
      BY <1>1, <2>2 DEF BookFits, NoStock
    <3>2. Debt(o) * AllOf(o, i) \in Nat
      BY <1>1, OneTimeMore, Zenon
    <3> QED BY <1>1, <3>1, <3>2 DEF Near
  <2> QED BY <1>1, <1>2, <1>3, <2>1, <2>2 DEF HandlerFits
<1> QED BY <1>3, <1>4, <1>6, <1>7, OwnStock

\* A handler dies.
LEMMA AbortStock ==
    ASSUME TypeInv, SerialInv, StockInv, NEW r \in Requests, Abort(r), requests[r].pc = "stock",
           NEW o \in Serial, o = requests[r].order, NEW i \in Ingredients
    PROVE  StockFits(o, i)'
<1>1. /\ o \in OrderIds
      /\ StockFits(o, i) /\ HandlerFits(r) /\ RequestFits(r)
      /\ used[o][i] \in Int /\ AllOf(o, i) \in Nat /\ Debt(o) \in Nat
      /\ GoneBy(r, i) \in Nat /\ GoneBy(r, i) <= AllOf(o, i)
  BY StockSetting
<1>2. /\ Alone(r) /\ Active(r)
      /\ o \notin Calm
      /\ requests'[r].pc = "done"
      /\ requests'[r].order = o
      /\ aborts' = aborts + 1
      /\ UNCHANGED <<orders, used, recipes, jobs, display>>
  BY AbortEffect DEF TypeInv
<1>3. Debt(o)' = Debt(o) + 1
  <2> DEFINE edited == IF recipes = InitialRecipes THEN 0 ELSE 1
  <2>1. edited \in Nat /\ aborts \in Nat
    BY DEF TypeInv, TypeOK
  <2>2. Debt(o) = aborts + edited /\ Debt(o)' = (aborts + 1) + edited
    BY <1>2 DEF Debt
  <2> HIDE DEF edited
  <2> QED BY <2>1, <2>2
<1>4. AllOf(o, i)' = AllOf(o, i) /\ used'[o][i] = used[o][i] /\ orders'[o] = orders[o]
  BY <1>2 DEF AllOf
<1>5. At(r, o)
  BY DEF At
<1>6. orders[o].status = "paid" => Near(used[o][i], AllOf(o, i), Debt(o) + 1)
  <2>1. CASE requests[r].op = "pay"
    <3>1. Drawing(used[o][i], GoneBy(r, i), Debt(o))
      BY <1>1, <1>5, <2>1 DEF StockFits
    <3>2. Drawing(used[o][i], GoneBy(r, i), Debt(o) + 1) /\ Debt(o) + 1 \in Nat /\ Debt(o) + 1 >= 1
      BY <1>1, <3>1 DEF Drawing
    <3> QED BY <1>1, <3>2, DrawnIsNear
  <2>2. CASE requests[r].op = "void"
    <3>1. orders[o].status = "paid" => Near(used[o][i] + GoneBy(r, i), AllOf(o, i), Debt(o))
      BY <1>1, <1>5, <2>2 DEF StockFits
    <3> QED BY <1>1, <3>1, ReturnedIsNear
  <2> QED BY <1>1, <2>1, <2>2 DEF RequestFits
<1>7. orders[o].status # "void"
  BY <1>1 DEF HandlerFits, RequestFits
<1> QED BY <1>2, <1>3, <1>4, <1>6, <1>7, OwnStock

\* Every step keeps the stock fitting.
LEMMA NextStockInv == TypeInv /\ SerialInv /\ StockInv /\ [Next]_ordersVars => StockInv'
<1> SUFFICES ASSUME TypeInv, SerialInv, StockInv, [Next]_ordersVars PROVE StockInv'
  OBVIOUS
<1>1. TypeOK /\ OrdersStay /\ TypeInv'
  BY NextTypeInv DEF TypeInv
<1>2. \A r \in Requests : requests[r] \in Request
  BY <1>1, RequestTyped
<1>3. aborts \in Nat
  BY <1>1, OrdersAssumption DEF TypeOK
<1>4. ASSUME NEW r \in Requests, StartCreate(r) PROVE StockInv'
  BY <1>1, <1>3, <1>4, StartCreateEffect, QuietStock
<1>5. ASSUME NEW r \in Requests, StartPay(r) PROVE StockInv'
  BY <1>1, <1>3, <1>5, StartPayEffect, QuietStock
<1>6. ASSUME NEW r \in Requests, StartVoid(r) PROVE StockInv'
  BY <1>1, <1>3, <1>6, StartVoidEffect, QuietStock
<1>7. ASSUME NEW r \in Requests, CreateFound(r) PROVE StockInv'
  BY <1>1, <1>3, <1>7, CreateFoundEffect, QuietStock
<1>8. ASSUME NEW r \in Requests, CreateNotFound(r) PROVE StockInv'
  BY <1>1, <1>3, <1>8, CreateNotFoundEffect, QuietStock DEF Moves
<1>9. ASSUME NEW r \in Requests, CreateInsert(r) PROVE StockInv'
  <2>1. PICK o \in OrderIds : o = requests'[r].order
    BY <1>1, <1>9, CreateInsertEffect
  <2>2. /\ Alone(r) /\ requests[r].pc = "insert" /\ requests'[r].pc = "view"
        /\ orders[o].status = "absent"
        /\ orders' = [orders EXCEPT ![o] = NewRow(requests[r].key, requests[r].cart)]
        /\ UNCHANGED <<used, recipes, aborts>>
    BY <1>1, <1>9, <2>1, CreateInsertEffect
  <2>3. orders'[o].status = "pending" /\ \A p \in OrderIds \ {o} : orders'[p] = orders[p]
    BY <1>1, <2>2 DEF TypeOK, NewRow
  <2>4. \A p \in OrderIds : /\ orders'[p].status = "paid" <=> orders[p].status = "paid"
                            /\ orders'[p].status = "void" <=> orders[p].status = "void"
    BY <2>2, <2>3
  <2> QED BY <1>1, <1>3, <2>2, <2>4, QuietStock
<1>10. ASSUME NEW r \in Requests, CreateConflict(r) PROVE StockInv'
  BY <1>1, <1>3, <1>10, CreateConflictEffect, QuietStock DEF Moves
<1>11. ASSUME NEW r \in Requests, PayRead(r) PROVE StockInv'
  BY <1>1, <1>3, <1>11, PayReadEffect, QuietStock
<1>12. ASSUME NEW r \in Requests, PaySave(r) PROVE StockInv'
  <2> DEFINE to == IF Settles(r) THEN "mark" ELSE "reload"
  <2>1. /\ Moves(r, "save", to)
        /\ orders' = [orders EXCEPT ![requests[r].order].received = @ + requests[r].amount]
        /\ UNCHANGED <<used, recipes, aborts>>
    BY <1>1, <1>12, PaySaveEffect
  <2>2. to # "stock"
    OBVIOUS
  <2> HIDE DEF to
  <2>3. \A p \in OrderIds : orders'[p].status = orders[p].status
    BY <1>1, <2>1 DEF TypeOK, Row
  <2> QED BY <1>1, <1>3, <2>1, <2>2, <2>3, QuietStock DEF Moves
<1>13. ASSUME NEW r \in Requests, PayMark(r) PROVE StockInv'
  <2>1. PICK o : o = requests[r].order
    OBVIOUS
  <2>2. /\ Moves(r, "mark", "stock")
        /\ orders' = [orders EXCEPT ![o].status = "paid"]
        /\ UNCHANGED <<used, recipes, aborts>>
    BY <1>1, <1>13, <2>1, PayMarkEffect
  <2>3. Alone(r) /\ (At(r, o) \/ requests[r].pc # "stock") /\ (At(r, o)' \/ requests'[r].pc # "stock")
    BY <2>1, <2>2 DEF Moves, At
  <2>4. \A p \in OrderIds \ {o} : orders'[p] = orders[p] /\ used'[p] = used[p]
    BY <2>2
  <2>5. o \in Serial => \A i \in Ingredients : StockFits(o, i)'
    BY <1>13, <2>1, PayMarkStock
  <2> QED BY <1>1, <1>3, <2>2, <2>3, <2>4, <2>5, OthersStock
<1>14. ASSUME NEW r \in Requests, PayEnqueue(r) PROVE StockInv'
  <2>1. PICK o : o = requests[r].order
    OBVIOUS
  <2>2. /\ Moves(r, "stock", "reload")
        /\ UNCHANGED <<orders, used, recipes, aborts>>
    BY <1>1, <1>14, <2>1, PayEnqueueEffect
  <2>3. Alone(r) /\ (At(r, o) \/ requests[r].pc # "stock") /\ (At(r, o)' \/ requests'[r].pc # "stock")
    BY <2>1, <2>2 DEF Moves, At
  <2>4. \A p \in OrderIds \ {o} : orders'[p] = orders[p] /\ used'[p] = used[p]
    BY <2>2
  <2>5. o \in Serial => \A i \in Ingredients : StockFits(o, i)'
    BY <1>14, <2>1, PayEnqueueStock
  <2> QED BY <1>1, <1>3, <2>2, <2>3, <2>4, <2>5, OthersStock
<1>15. ASSUME NEW r \in Requests, FindRecipes(r) PROVE StockInv'
  <2>1. PICK o : o = requests[r].order
    OBVIOUS
  <2>2. /\ Moves(r, "stock", "stock")
        /\ UNCHANGED <<orders, used, recipes, aborts>>
    BY <1>1, <1>15, <2>1, FindRecipesEffect
  <2>3. Alone(r) /\ (At(r, o) \/ requests[r].pc # "stock") /\ (At(r, o)' \/ requests'[r].pc # "stock")
    BY <2>1, <2>2 DEF Moves, At
  <2>4. \A p \in OrderIds \ {o} : orders'[p] = orders[p] /\ used'[p] = used[p]
    BY <2>2
  <2>5. o \in Serial => \A i \in Ingredients : StockFits(o, i)'
    BY <1>15, <2>1, FindRecipesStock
  <2> QED BY <1>1, <1>3, <2>2, <2>3, <2>4, <2>5, OthersStock
<1>16. ASSUME NEW r \in Requests, MoveStock(r) PROVE StockInv'
  <2>1. PICK o : o = requests[r].order
    OBVIOUS
  <2>2. PICK row \in requests[r].rows :
           /\ Moves(r, "stock", "stock")
           /\ used' = [used EXCEPT ![o][row.ingredient] = @ + StockChange(r, row)]
           /\ UNCHANGED <<orders, recipes, jobs, display, aborts>>
    BY <1>1, <1>16, <2>1, MoveStockEffect
  <2>3. Alone(r) /\ (At(r, o) \/ requests[r].pc # "stock") /\ (At(r, o)' \/ requests'[r].pc # "stock")
    BY <2>1, <2>2 DEF Moves, At
  <2>4. \A p \in OrderIds \ {o} : orders'[p] = orders[p] /\ used'[p] = used[p]
    <3>1. used \in [OrderIds -> [Ingredients -> Int]]
      BY <1>1 DEF TypeOK
    <3> QED BY <2>2, <3>1
  <2>5. o \in Serial => \A i \in Ingredients : StockFits(o, i)'
    BY <1>16, <2>1, MoveStockStock
  <2> QED BY <1>1, <1>3, <2>2, <2>3, <2>4, <2>5, OthersStock
<1>17. ASSUME NEW r \in Requests, VoidRead(r) PROVE StockInv'
  <2>1. PICK o : o = requests[r].order
    OBVIOUS
  <2>2. /\ Alone(r) /\ requests[r].pc = "voidRead" /\ requests'[r].order = o
        /\ UNCHANGED <<orders, used, recipes, aborts>>
    BY <1>1, <1>17, <2>1, VoidReadEffect
  <2>3. Alone(r) /\ (At(r, o) \/ requests[r].pc # "stock") /\ (At(r, o)' \/ requests'[r].pc # "stock")
    BY <2>1, <2>2 DEF Moves, At
  <2>4. \A p \in OrderIds \ {o} : orders'[p] = orders[p] /\ used'[p] = used[p]
    BY <2>2
  <2>5. o \in Serial => \A i \in Ingredients : StockFits(o, i)'
    BY <1>17, <2>1, VoidReadStock
  <2> QED BY <1>1, <1>3, <2>2, <2>3, <2>4, <2>5, OthersStock
<1>18. ASSUME NEW r \in Requests, VoidMark(r) PROVE StockInv'
  <2>1. PICK o : o = requests[r].order
    OBVIOUS
  <2>2. /\ Moves(r, "stock", "reload")
        /\ orders' = [orders EXCEPT ![o].status = "void"]
        /\ UNCHANGED <<used, recipes, aborts>>
    BY <1>1, <1>18, <2>1, VoidMarkEffect
  <2>3. Alone(r) /\ (At(r, o) \/ requests[r].pc # "stock") /\ (At(r, o)' \/ requests'[r].pc # "stock")
    BY <2>1, <2>2 DEF Moves, At
  <2>4. \A p \in OrderIds \ {o} : orders'[p] = orders[p] /\ used'[p] = used[p]
    BY <2>2
  <2>5. o \in Serial => \A i \in Ingredients : StockFits(o, i)'
    BY <1>18, <2>1, VoidMarkStock
  <2> QED BY <1>1, <1>3, <2>2, <2>3, <2>4, <2>5, OthersStock
<1>19. ASSUME NEW r \in Requests, Reload(r) PROVE StockInv'
  <2> DEFINE to == IF requests[r].op = "pay" THEN "view" ELSE "done"
  <2>1. Moves(r, "reload", to) /\ UNCHANGED <<orders, used, recipes, aborts>>
    BY <1>1, <1>19, ReloadEffect
  <2>2. to # "stock"
    OBVIOUS
  <2> HIDE DEF to
  <2> QED BY <1>1, <1>3, <2>1, <2>2, QuietStock DEF Moves
<1>20. ASSUME NEW r \in Requests, PublishRead(r) PROVE StockInv'
  BY <1>1, <1>3, <1>20, PublishReadEffect, QuietStock DEF Moves
<1>21. ASSUME NEW r \in Requests, Publish(r) PROVE StockInv'
  BY <1>1, <1>3, <1>21, PublishEffect, QuietStock DEF Moves
<1>22. ASSUME NEW r \in Requests, Abort(r) PROVE StockInv'
  <2>1. PICK o : o = requests[r].order
    OBVIOUS
  <2>2. /\ Alone(r) /\ requests'[r].pc = "done" /\ aborts' = aborts + 1
        /\ UNCHANGED <<orders, used, recipes>>
    BY <1>1, <1>22, AbortEffect
  <2>3. aborts' \in Nat /\ aborts' >= aborts
    BY <1>3, <2>2
  <2>4. CASE requests[r].pc # "stock"
    BY <1>1, <2>2, <2>3, <2>4, QuietStock
  <2>5. CASE requests[r].pc = "stock"
    <3>1. At(r, o)
      BY <2>1, <2>5 DEF At
    <3>2. o \in Serial => \A i \in Ingredients : StockFits(o, i)'
      BY <1>22, <2>1, <2>5, AbortStock
    <3> QED BY <1>1, <2>2, <2>3, <3>1, <3>2, OthersStock
  <2> QED BY <2>4, <2>5
<1>23. ASSUME CreateRecipe PROVE StockInv'
  <2>1. CASE \E o \in Serial, i \in Ingredients : TRUE
    BY <1>1, <1>23, <2>1, StockGrows DEF StockInv
  <2>2. CASE ~\E o \in Serial, i \in Ingredients : TRUE
    <3>1. PICK row \in NewRecipes \ recipes : recipes' = recipes \cup {row}
      BY <1>23 DEF CreateRecipe
    <3>2. IsFiniteSet(recipes') /\ InitialRecipes \subseteq recipes'
      BY <3>1, FS_AddElement DEF StockInv
    <3> QED BY <2>2, <3>2 DEF StockInv
  <2> QED BY <2>1, <2>2
<1>24. ASSUME UNCHANGED ordersVars PROVE StockInv'
  <2>1. ASSUME NEW o \in Serial, NEW i \in Ingredients PROVE StockFits(o, i)'
    <3>1. /\ recipes' = recipes /\ aborts' = aborts /\ Alike(o)
      BY <1>24 DEF ordersVars, Alike
    <3>2. o \in OrderIds /\ StockFits(o, i) /\ IsFiniteSet(recipes)
      BY OrdersAssumption DEF StockInv
    <3>3. aborts' >= aborts /\ aborts' \in Nat
      BY <1>3, <3>1
    <3> QED BY <1>1, <3>1, <3>2, <3>3, StockAlike
  <2>2. recipes' = recipes
    BY <1>24 DEF ordersVars
  <2> QED BY <2>1, <2>2 DEF StockInv
<1> QED
  BY <1>4, <1>5, <1>6, <1>7, <1>8, <1>9, <1>10, <1>11, <1>12, <1>13, <1>14, <1>15,
     <1>16, <1>17, <1>18, <1>19, <1>20, <1>21, <1>22, <1>23, <1>24
     DEF Next, Arrive, Handle

\* In every reachable state the stock of serial orders is accounted for.
LEMMA StockInvHolds == Spec => [](TypeInv /\ SerialInv /\ StockInv)
<1>1. Init => TypeInv /\ SerialInv /\ StockInv
  BY InitTypeInv, InitSerialInv, InitStockInv
<1>2. TypeInv /\ SerialInv /\ StockInv /\ [Next]_ordersVars => (TypeInv /\ SerialInv /\ StockInv)'
  BY NextTypeInv, NextSerialInv, NextStockInv
<1> QED BY <1>1, <1>2, PTL DEF Spec

\* What the recipes make an order draw is the sum that StockFits speaks of.
LEMMA DrawnIsAll ==
    ASSUME TypeOK, IsFiniteSet(recipes), NEW o \in OrderIds, NEW i \in Ingredients
    PROVE  Drawn(o)[i] = AllOf(o, i)
<1>1. recipes \in SUBSET Recipe /\ orders[o] \in Row
  BY DEF TypeOK
<1>2. orders[o].items \in Seq(Item)
  BY <1>1 DEF Row
<1> QED BY <1>1, <1>2, StockIsWhole DEF Drawn, AllOf

\* What StockInv says of the stock of an order in any state.
LEMMA StockBounds ==
    ASSUME TypeInv, SerialInv, StockInv, NEW o \in Serial, NEW i \in Ingredients
    PROVE  /\ used[o][i] <= Drawn(o)[i]
           /\ used[o][i] >= -(Debt(o) * Drawn(o)[i])
           /\ Debt(o) \in Nat /\ Drawn(o)[i] \in Nat /\ used[o][i] \in Int
<1>1. /\ TypeOK /\ IsFiniteSet(recipes) /\ o \in OrderIds
      /\ StockFits(o, i) /\ Blank(o) /\ BookFits(o)
      /\ \A r \in Requests : HandlerFits(r) /\ RequestFits(r)
  BY OrdersAssumption DEF TypeInv, SerialInv, StockInv
<1>2. orders[o] \in Row
  BY <1>1 DEF TypeOK
<1>3. /\ used[o][i] \in Int /\ AllOf(o, i) \in Nat /\ Debt(o) \in Nat
      /\ \A r \in Requests : requests[r].order = o =>
             GoneBy(r, i) \in Nat /\ GoneBy(r, i) <= AllOf(o, i)
  BY <1>1, StockTyped
<1>4. Drawn(o)[i] = AllOf(o, i)
  BY <1>1, DrawnIsAll
<1> DEFINE u == used[o][i]
           all == AllOf(o, i)
           debt == Debt(o)
           back == debt * all
<1>5. back \in Nat
  BY <1>3, OneTimeMore, Zenon
<1>6. u <= all /\ u >= -back
  <2>1. CASE orders[o].status \in {"absent", "pending"}
    <3>1. u = 0
      BY <1>1, <2>1 DEF Blank, BookFits, NoStock
    <3> HIDE DEF u, all, back
    <3> QED BY <1>3, <1>5, <3>1 DEF all
  <2>2. CASE orders[o].status = "void"
    <3>1. Near(u + all, all, debt)
      BY <1>1, <2>2 DEF StockFits
    <3>2. u + all <= all /\ u + all >= all - back
      BY <3>1 DEF Near
    <3>3. u \in Int /\ all \in Nat
      BY <1>3
    <3> HIDE DEF u, all, back
    <3> QED BY <1>5, <3>2, <3>3
  <2>3. CASE orders[o].status = "paid" /\ \A r \in Requests : ~At(r, o)
    <3>1. Near(u, all, debt)
      BY <1>1, <2>3 DEF StockFits
    <3>2. u <= all /\ u >= all - back
      BY <3>1 DEF Near
    <3>3. u \in Int /\ all \in Nat
      BY <1>3
    <3> HIDE DEF u, all, back
    <3> QED BY <1>5, <3>2, <3>3
  <2>4. ASSUME orders[o].status = "paid", NEW r \in Requests, At(r, o)
        PROVE  u <= all /\ u >= -back
    <3> DEFINE gone == GoneBy(r, i)
    <3>1. gone \in Nat /\ gone <= all /\ u \in Int /\ all \in Nat
      BY <1>3, <2>4 DEF At
    <3>2. CASE requests[r].op = "pay"
      <4>1. 0 <= u /\ u <= gone
        BY <1>1, <2>4, <3>2 DEF StockFits, Drawing
      <4> HIDE DEF u, all, back, gone
      <4> QED BY <1>5, <3>1, <4>1
    <3>3. CASE requests[r].op = "void"
      <4>1. Near(u + gone, all, debt)
        BY <1>1, <2>4, <3>3 DEF StockFits
      <4>2. u + gone <= all /\ u + gone >= all - back
        BY <4>1 DEF Near
      <4> HIDE DEF u, all, back, gone
      <4> QED BY <1>5, <3>1, <4>2
    <3> QED BY <1>1, <2>4, <3>2, <3>3 DEF RequestFits, At
  <2> QED BY <1>2, <2>1, <2>2, <2>3, <2>4 DEF Row, Status
<1> QED BY <1>3, <1>4, <1>6

\* While clients take turns, whatever dies and whatever rows are added to the recipes, the
\* stock of an order is drawn at most once, and one job is queued for it at most (addPayment).
THEOREM OrdersSettledAtMostOnce ==
    ASSUME Serial = OrderIds
    PROVE  Spec => []SettledAtMostOnce
<1>1. TypeInv /\ SerialInv /\ StockInv => SettledAtMostOnce
  BY StockBounds DEF SettledAtMostOnce, SerialInv, BookFits
<1> QED BY <1>1, StockInvHolds, PTL

\* While clients take turns, each death and the edits of the recipes give back too much at
\* most once (restoreStock).
THEOREM OrdersReturnsAreExplained ==
    ASSUME Serial = OrderIds
    PROVE  Spec => []ReturnsAreExplained
<1>1. ASSUME TypeInv, SerialInv, StockInv PROVE ReturnsAreExplained
  <2> DEFINE edited == IF recipes = InitialRecipes THEN 0 ELSE 1
             reasons == aborts + edited
  <2>1. reasons \in Nat /\ 0 <= reasons
    BY <1>1, OrdersAssumption DEF TypeInv, TypeOK
  <2>2. ASSUME NEW o \in OrderIds, NEW i \in Ingredients
        PROVE  used[o][i] >= -(reasons * Drawn(o)[i])
    <3>1. /\ used[o][i] >= -(Debt(o) * Drawn(o)[i])
          /\ Debt(o) \in Nat /\ Drawn(o)[i] \in Nat /\ used[o][i] \in Int
      BY <1>1, StockBounds
    <3>2. Debt(o) = reasons \/ Debt(o) = 0
      BY DEF Debt
    <3> HIDE DEF reasons
    <3>3. Debt(o) <= reasons /\ Drawn(o)[i] <= Drawn(o)[i]
      BY <2>1, <3>1, <3>2
    <3> DEFINE owed == Debt(o) * Drawn(o)[i]
               most == reasons * Drawn(o)[i]
    <3>4. owed \in Nat /\ most \in Nat /\ owed <= most
      BY <2>1, <3>1, <3>3, ProductsGrow
    <3>5. used[o][i] >= -owed /\ used[o][i] \in Int
      BY <3>1
    <3> HIDE DEF owed, most
    <3>6. used[o][i] >= -most
      BY <3>4, <3>5
    <3> QED BY <3>6 DEF most
  <2> QED BY <2>2 DEF ReturnsAreExplained
<1> QED BY <1>1, StockInvHolds, PTL

\* A calm order that no handler works on has the stock its status says.
LEMMA CalmStock ==
    ASSUME TypeInv, SerialInv, StockInv, NEW o \in Calm, \A r \in Requests : ~At(r, o)
    PROVE  /\ orders[o].status = "paid" => used[o] = Drawn(o)
           /\ orders[o].status \in {"absent", "pending", "void"} => used[o] = NoStock
<1>1. /\ TypeOK /\ IsFiniteSet(recipes) /\ o \in OrderIds /\ o \in Serial
      /\ \A i \in Ingredients : StockFits(o, i)
      /\ Blank(o) /\ BookFits(o)
  BY OrdersAssumption DEF TypeInv, SerialInv, StockInv
<1>2. used[o] \in [Ingredients -> Int]
  BY <1>1 DEF TypeOK
<1>3. Debt(o) = 0
  BY DEF Debt
<1>4. ASSUME NEW i \in Ingredients
      PROVE  AllOf(o, i) \in Nat /\ Drawn(o)[i] = AllOf(o, i) /\ used[o][i] \in Int
             /\ 0 * AllOf(o, i) = 0
  <2>1. AllOf(o, i) \in Nat /\ used[o][i] \in Int
    BY <1>1, StockTyped
  <2>2. 0 * AllOf(o, i) = 0
    BY <2>1
  <2> QED BY <1>1, <2>1, <2>2, DrawnIsAll
<1>5. ASSUME orders[o].status = "paid" PROVE used[o] = Drawn(o)
  <2>1. ASSUME NEW i \in Ingredients PROVE used[o][i] = Drawn(o)[i]
    <3>1. Near(used[o][i], AllOf(o, i), 0)
      BY <1>1, <1>3, <1>5 DEF StockFits
    <3> QED BY <1>4, <3>1 DEF Near
  <2>2. Drawn(o) = [i \in Ingredients |-> Drawn(o)[i]]
    BY DEF Drawn, StockOf
  <2> QED BY <1>2, <2>1, <2>2
<1>6. ASSUME orders[o].status = "void" PROVE used[o] = NoStock
  <2>1. ASSUME NEW i \in Ingredients PROVE used[o][i] = 0
    <3>1. Near(used[o][i] + AllOf(o, i), AllOf(o, i), 0)
      BY <1>1, <1>3, <1>6 DEF StockFits
    <3> QED BY <1>4, <3>1 DEF Near
  <2> QED BY <1>2, <2>1 DEF NoStock
<1>7. orders[o].status \in {"absent", "pending"} => used[o] = NoStock
  BY <1>1 DEF Blank, BookFits
<1> QED BY <1>5, <1>6, <1>7

\* Between requests the tables agree on calm orders, if no cart is free (addPayment and
\* voidOrder as a whole).
THEOREM OrdersQuiescentConsistency ==
    ASSUME NothingIsFree
    PROVE  Spec => []QuiescentConsistency
<1>1. ASSUME TypeInv, SerialInv, StockInv, CalmInv PROVE QuiescentConsistency
  <2> SUFFICES ASSUME NEW o \in Calm, Quiescent(o)
               PROVE  CASE orders[o].status = "paid" -> used[o] = Drawn(o) /\ jobs[o] = 1
                        [] orders[o].status = "pending" ->
                              used[o] = NoStock /\ jobs[o] = 0 /\ orders[o].received < orders[o].net
                        [] OTHER -> used[o] = NoStock
    BY DEF QuiescentConsistency
  <2>1. o \in OrderIds /\ o \in Serial /\ TypeOK
    BY <1>1, OrdersAssumption DEF TypeInv
  <2>2. orders[o] \in Row
    BY <2>1 DEF TypeOK
  <2>3. orders[o].status \in Status /\ orders[o].received \in Int /\ orders[o].net \in Int
    BY <2>2 DEF Row
  <2>4. \A r \in Requests : requests[r].order = o => ~Active(r)
    BY DEF Quiescent
  <2>5. \A r \in Requests : ~At(r, o) /\ ~Marking(r, o) /\ ~Stocking(r, o)
    BY <2>4 DEF At, Marking, Stocking, Active
  <2>6. CalmFits(o) /\ BookFits(o)
    BY <1>1, <2>1 DEF CalmInv, SerialInv
  <2>7. orders[o].status = "paid" => used[o] = Drawn(o) /\ jobs[o] = 1
    BY <1>1, <2>5, <2>6, CalmStock DEF CalmFits
  <2>8. orders[o].status = "pending" =>
            used[o] = NoStock /\ jobs[o] = 0 /\ orders[o].received < orders[o].net
    <3>1. orders[o].status = "pending" => ~Covered(o)
      BY <2>5, <2>6 DEF CalmFits
    <3> QED BY <2>1, <2>3, <2>6, <3>1 DEF BookFits, Covered
  <2>9. orders[o].status \in {"absent", "void"} => used[o] = NoStock
    BY <1>1, <2>5, CalmStock
  <2> QED BY <2>3, <2>7, <2>8, <2>9 DEF Status
<1>2. Init => CalmInv
  BY InitCalmInv
<1>3. TypeInv /\ SerialInv /\ CalmInv /\ [Next]_ordersVars => CalmInv'
  BY NextCalmInv
<1> QED BY <1>1, <1>2, <1>3, StockInvHolds, PTL DEF Spec

-----------------------------------------------------------------------------
(* The handlers implement the ledger on calm orders.                       *)

\* The handler of r is doing what the ledger hides of o.
Works(r, o) ==
    /\ requests[r].order = o
    /\ \/ requests[r].op = "pay" /\ requests[r].pc \in {"mark", "stock"}
       \/ requests[r].op = "void" /\ requests[r].pc = "stock"

\* At first no order is in the ledger.
LEMMA InitLedger == Init => L!Init
<1> SUFFICES ASSUME Init PROVE L!Init
  OBVIOUS
<1>1. \A o \in OrderIds : ~Settling(o) /\ ~Reversing(o)
  BY DEF Init, Settling, Reversing, IdleRequest
<1>2. \A o \in Calm : LedgerEntry(o) = L!Absent
  BY <1>1, OrdersAssumption DEF Init, LedgerEntry, L!Absent, NoRow, NoStock
<1> QED BY <1>2 DEF L!Init

\* A step that leaves the rows of o alone, of a handler that does nothing hidden to it.
LEMMA EntryLasts ==
    ASSUME NEW o, NEW r \in Requests, Alone(r), recipes' = recipes,
           orders'[o] = orders[o], used'[o] = used[o], jobs'[o] = jobs[o],
           ~Works(r, o), ~Works(r, o)'
    PROVE  LedgerEntry(o)' = LedgerEntry(o)
<1>1. Settling(o)' <=> Settling(o)
  BY DEF Settling, Works, Alone
<1>2. Reversing(o)' <=> Reversing(o)
  BY DEF Reversing, Works, Alone
<1>3. Drawn(o)' = Drawn(o)
  BY DEF Drawn
<1> QED BY <1>1, <1>2, <1>3 DEF LedgerEntry

\* While r works on o, it alone does.
LEMMA OwnWork ==
    ASSUME SerialInv, NEW r \in Requests, Active(r), NEW o \in Serial, requests[r].order = o
    PROVE  /\ Settling(o) <=> requests[r].op = "pay" /\ requests[r].pc \in {"mark", "stock"}
           /\ Reversing(o) <=> requests[r].op = "void" /\ requests[r].pc = "stock"
<1>1. ASSUME NEW s \in Requests, requests[s].order = o, Active(s) PROVE s = r
  BY <1>1 DEF SerialInv, OneAtATime
<1> QED BY <1>1 DEF Settling, Reversing, Active

\* The same, in one formula.
OwnWorks ==
    SerialInv => \A r \in Requests : \A o \in Serial : Active(r) /\ requests[r].order = o =>
        /\ Settling(o) <=> requests[r].op = "pay" /\ requests[r].pc \in {"mark", "stock"}
        /\ Reversing(o) <=> requests[r].op = "void" /\ requests[r].pc = "stock"
\* It holds always.
LEMMA OwnWorksHold == OwnWorks
  BY OwnWork DEF OwnWorks

\* So it does after a step.
LEMMA OwnWorksNext == OwnWorks'
  BY OwnWorksHold, PTL

\* The ledger changes at o only.
LEMMA LedgerChange ==
    ASSUME NEW o \in Calm, NEW e, LedgerEntry(o)' = e,
           \A p \in Calm \ {o} : LedgerEntry(p)' = LedgerEntry(p)
    PROVE  [p \in Calm |-> LedgerEntry(p)]' = [[p \in Calm |-> LedgerEntry(p)] EXCEPT ![o] = e]
<1>1. [p \in Calm |-> LedgerEntry(p)]' = [p \in Calm |-> LedgerEntry(p)']
  OBVIOUS
<1> QED BY <1>1

\* It does not change at all.
LEMMA LedgerStutters ==
    ASSUME recipes' = recipes, \A p \in Calm : LedgerEntry(p)' = LedgerEntry(p)
    PROVE  UNCHANGED <<[p \in Calm |-> LedgerEntry(p)], recipes>>
  OBVIOUS

\* An entry that goes from Absent to an open order is a Create.
LEMMA IsCreate ==
    ASSUME NEW o \in Calm, NEW key \in Keys \cup {NoKey}, NEW cart \in Carts, recipes' = recipes,
           LedgerEntry(o).status = "absent",
           key # NoKey => \A p \in Calm : LedgerEntry(p).key # key,
           LedgerEntry(o)' = [status |-> "pending", key |-> key, items |-> cart.items,
                              net |-> cart.net, received |-> 0, used |-> NoStock, jobs |-> 0],
           \A p \in Calm \ {o} : LedgerEntry(p)' = LedgerEntry(p)
    PROVE  L!Next
<1> DEFINE e == [status |-> "pending", key |-> key, items |-> cart.items,
                 net |-> cart.net, received |-> 0, used |-> NoStock, jobs |-> 0]
<1>1. e = [L!Absent EXCEPT !.status = "pending", !.key = key, !.items = cart.items, !.net = cart.net]
  <2> DEFINE a == [L!Absent EXCEPT !.status = "pending"]
             b == [a EXCEPT !.key = key]
             c == [b EXCEPT !.items = cart.items]
             d == [c EXCEPT !.net = cart.net]
  <2>1. a = [status |-> "pending", key |-> NoKey, items |-> <<>>, net |-> 0,
             received |-> 0, used |-> NoStock, jobs |-> 0]
    BY DEF L!Absent
  <2> HIDE DEF a
  <2>2. b = [status |-> "pending", key |-> key, items |-> <<>>, net |-> 0,
             received |-> 0, used |-> NoStock, jobs |-> 0]
    BY <2>1
  <2> HIDE DEF b
  <2>3. c = [status |-> "pending", key |-> key, items |-> cart.items, net |-> 0,
             received |-> 0, used |-> NoStock, jobs |-> 0]
    BY <2>2
  <2> HIDE DEF c
  <2>4. d = e
    BY <2>3
  <2> QED BY <2>4 DEF a, b, c, d
<1>2. [p \in Calm |-> LedgerEntry(p)]' = [[p \in Calm |-> LedgerEntry(p)] EXCEPT ![o] = e]
  BY LedgerChange
<1> HIDE DEF e
<1>3. L!Create(o, key, cart)
  BY <1>1, <1>2 DEF L!Create
<1> QED BY <1>3 DEF L!Next

\* An entry that receives an amount is a Pay.
LEMMA IsPay ==
    ASSUME NEW o \in Calm, NEW amount \in Amounts, recipes' = recipes,
           NEW key, NEW items, NEW net, NEW received, NEW drawn,
           LedgerEntry(o) = [status |-> "pending", key |-> key, items |-> items, net |-> net,
                             received |-> received, used |-> drawn, jobs |-> 0],
           received < net, NEW total, total = received + amount,
           LedgerEntry(o)' =
               IF total < net
               THEN [status |-> "pending", key |-> key, items |-> items, net |-> net,
                     received |-> total, used |-> drawn, jobs |-> 0]
               ELSE [status |-> "paid", key |-> key, items |-> items, net |-> net,
                     received |-> total, used |-> StockOf(recipes, items), jobs |-> 1],
           \A p \in Calm \ {o} : LedgerEntry(p)' = LedgerEntry(p)
    PROVE  L!Next
<1>0. PICK e : e = [status |-> "pending", key |-> key, items |-> items, net |-> net,
                    received |-> received, used |-> drawn, jobs |-> 0]
  OBVIOUS
<1> DEFINE f == IF total < e.net THEN [e EXCEPT !.received = total]
                ELSE [e EXCEPT !.received = total, !.status = "paid",
                               !.used = StockOf(recipes, e.items), !.jobs = 1]
           a == [e EXCEPT !.received = total]
           b == [a EXCEPT !.status = "paid"]
           c == [b EXCEPT !.used = StockOf(recipes, e.items)]
           d == [c EXCEPT !.jobs = 1]
<1>1. f = IF total < e.net THEN a ELSE d
  OBVIOUS
<1> HIDE DEF f
<1>2. a = [status |-> "pending", key |-> key, items |-> items, net |-> net,
           received |-> total, used |-> drawn, jobs |-> 0]
  BY <1>0
<1> HIDE DEF a
<1>3. b = [status |-> "paid", key |-> key, items |-> items, net |-> net,
           received |-> total, used |-> drawn, jobs |-> 0]
  BY <1>2
<1> HIDE DEF b
<1>4. c = [status |-> "paid", key |-> key, items |-> items, net |-> net,
           received |-> total, used |-> StockOf(recipes, items), jobs |-> 0]
  BY <1>0, <1>3
<1> HIDE DEF c
<1>5. d = [status |-> "paid", key |-> key, items |-> items, net |-> net,
           received |-> total, used |-> StockOf(recipes, items), jobs |-> 1]
  BY <1>4
<1> HIDE DEF d
<1>6. LedgerEntry(o)' = f /\ e.net = net /\ e.received = received /\ e.status = "pending"
  BY <1>0, <1>1, <1>2, <1>5
<1>7. [p \in Calm |-> LedgerEntry(p)]' = [[p \in Calm |-> LedgerEntry(p)] EXCEPT ![o] = f]
  BY <1>6, LedgerChange
<1>8. [p \in Calm |-> LedgerEntry(p)][o] = e
  BY <1>0
<1>9. L!Pay(o, amount)
  <2>1. e.status = "pending" /\ e.received < e.net /\ total = e.received + amount
    BY <1>6
  <2> QED BY <1>7, <1>8, <2>1, Zenon DEF L!Pay, f
<1> QED BY <1>9 DEF L!Next

\* An entry that becomes void, with nothing drawn, is a Void.
LEMMA IsVoid ==
    ASSUME NEW o \in Calm, recipes' = recipes,
           NEW status \in {"pending", "paid"}, NEW key, NEW items, NEW net, NEW received,
           NEW drawn, NEW queued,
           LedgerEntry(o) = [status |-> status, key |-> key, items |-> items, net |-> net,
                             received |-> received, used |-> drawn, jobs |-> queued],
           LedgerEntry(o)' = [status |-> "void", key |-> key, items |-> items, net |-> net,
                              received |-> received, used |-> NoStock, jobs |-> queued],
           \A p \in Calm \ {o} : LedgerEntry(p)' = LedgerEntry(p)
    PROVE  L!Next
<1>0. PICK e : e = [status |-> status, key |-> key, items |-> items, net |-> net,
                    received |-> received, used |-> drawn, jobs |-> queued]
  OBVIOUS
<1> DEFINE a == [e EXCEPT !.status = "void"]
           f == [a EXCEPT !.used = NoStock]
           g == [[p \in Calm |-> LedgerEntry(p)] EXCEPT ![o].status = "void", ![o].used = NoStock]
<1>1. LedgerEntry(o)' = f /\ e.status = status
  <2>1. a = [status |-> "void", key |-> key, items |-> items, net |-> net,
             received |-> received, used |-> drawn, jobs |-> queued]
    BY <1>0
  <2> HIDE DEF a
  <2>2. f = [status |-> "void", key |-> key, items |-> items, net |-> net,
             received |-> received, used |-> NoStock, jobs |-> queued]
    BY <2>1
  <2>3. e.status = status
    BY <1>0
  <2> QED BY <2>2, <2>3
<1>2. [p \in Calm |-> LedgerEntry(p)]' = [[p \in Calm |-> LedgerEntry(p)] EXCEPT ![o] = f]
  BY <1>1, LedgerChange
<1>3. [p \in Calm |-> LedgerEntry(p)][o] = e
  BY <1>0
<1>4. g = [[p \in Calm |-> LedgerEntry(p)] EXCEPT ![o] = f]
  BY <1>3
<1>5. L!Void(o)
  BY <1>1, <1>2, <1>3, <1>4 DEF L!Void
<1> QED BY <1>5 DEF L!Next

\* The ledger, and what it may do in a step.
LedgerNow == [o \in Calm |-> LedgerEntry(o)]
LedgerStep == L!Next \/ UNCHANGED <<LedgerNow, recipes>>

\* A step that changes no entry is a stutter of the ledger.
LEMMA StepStutters ==
    ASSUME recipes' = recipes, \A p \in Calm : LedgerEntry(p)' = LedgerEntry(p)
    PROVE  LedgerStep
  BY LedgerStutters DEF LedgerStep, LedgerNow

\* So is a step of r that leaves the tables alone and is hidden neither before nor after it.
LEMMA QuietLedger ==
    ASSUME NEW r \in Requests, Alone(r), UNCHANGED <<orders, used, recipes, jobs>>,
           \A o \in Calm : ~Works(r, o) /\ ~Works(r, o)'
    PROVE  LedgerStep
<1>1. \A p \in Calm : LedgerEntry(p)' = LedgerEntry(p)
  BY EntryLasts
<1> QED BY <1>1, StepStutters

\* A step of r on its own order changes the entry of that order at most.
LEMMA OthersEntries ==
    ASSUME NEW r \in Requests, Alone(r), recipes' = recipes, NEW o,
           requests[r].order = o, requests'[r].order = o,
           \A p \in OrderIds \ {o} : orders'[p] = orders[p] /\ used'[p] = used[p] /\ jobs'[p] = jobs[p]
    PROVE  \A p \in Calm \ {o} : LedgerEntry(p)' = LedgerEntry(p)
  BY EntryLasts, OrdersAssumption DEF Works

\* What is known of the order of a handler, if it is calm.
LEMMA LedgerSetting ==
    ASSUME TypeInv, SerialInv, SerialInv', NEW r \in Requests, Active(r), NEW o \in Calm,
           requests[r].order = o
    PROVE  /\ o \in Serial /\ o \in OrderIds /\ TypeOK
           /\ orders[o] \in Row /\ used[o] \in [Ingredients -> Int] /\ jobs[o] \in Nat
           /\ HandlerFits(r) /\ RequestFits(r) /\ TargetExists(r) /\ BookFits(o)
           /\ Settling(o) <=> requests[r].op = "pay" /\ requests[r].pc \in {"mark", "stock"}
           /\ Reversing(o) <=> requests[r].op = "void" /\ requests[r].pc = "stock"
           /\ Active(r)' /\ requests'[r].order = o =>
                /\ Settling(o)' <=> requests'[r].op = "pay" /\ requests'[r].pc \in {"mark", "stock"}
                /\ Reversing(o)' <=> requests'[r].op = "void" /\ requests'[r].pc = "stock"
           /\ \A s \in Requests : At(s, o) => s = r
<1>1. o \in Serial /\ o \in OrderIds /\ TypeOK
  BY OrdersAssumption DEF TypeInv
<1>2. orders[o] \in Row /\ used[o] \in [Ingredients -> Int] /\ jobs[o] \in Nat
  BY <1>1 DEF TypeOK
<1>3. HandlerFits(r) /\ RequestFits(r) /\ TargetExists(r) /\ BookFits(o)
  BY <1>1 DEF TypeInv, SerialInv
<1>4. /\ Settling(o) <=> requests[r].op = "pay" /\ requests[r].pc \in {"mark", "stock"}
      /\ Reversing(o) <=> requests[r].op = "void" /\ requests[r].pc = "stock"
  BY <1>1, OwnWork
<1>5. Active(r)' /\ requests'[r].order = o =>
         /\ Settling(o)' <=> requests'[r].op = "pay" /\ requests'[r].pc \in {"mark", "stock"}
         /\ Reversing(o)' <=> requests'[r].op = "void" /\ requests'[r].pc = "stock"
  BY <1>1, OwnWorksNext DEF OwnWorks
<1>6. \A s \in Requests : At(s, o) => s = r
  BY <1>1 DEF SerialInv, OneAtATime, At, Active
<1> QED BY <1>1, <1>2, <1>3, <1>4, <1>5, <1>6

\* What the stock of calm orders is while no handler is at it, in one formula.
CalmStockFacts ==
    TypeInv /\ SerialInv /\ StockInv =>
        \A o \in Calm : (\A r \in Requests : ~At(r, o)) =>
            /\ orders[o].status = "paid" => used[o] = Drawn(o)
            /\ orders[o].status \in {"absent", "pending", "void"} => used[o] = NoStock

\* It holds always.
LEMMA CalmStockHolds == CalmStockFacts
  BY CalmStock DEF CalmStockFacts

\* So it does after a step.
LEMMA CalmStockNext == CalmStockFacts'
  BY CalmStockHolds, PTL

\* The payment that is saved.
LEMMA PaySaveLedger ==
    ASSUME TypeInv, SerialInv, SerialInv', NEW r \in Requests, PaySave(r)
    PROVE  LedgerStep
<1>1. PICK o : o = requests[r].order
  OBVIOUS
<1> DEFINE to == IF Settles(r) THEN "mark" ELSE "reload"
<1>2. /\ Moves(r, "save", to) /\ KeepsRest(r)
      /\ orders' = [orders EXCEPT ![o].received = @ + requests[r].amount]
      /\ UNCHANGED <<used, recipes, jobs, display, aborts>>
  BY <1>1, PaySaveEffect DEF TypeInv
<1>3. Alone(r) /\ requests'[r].order = o /\ requests[r].pc = "save" /\ requests'[r].pc = to /\ SameRequest(r)
  BY <1>1, <1>2 DEF Moves
<1>4. \A p \in Calm \ {o} : LedgerEntry(p)' = LedgerEntry(p)
  <2>1. \A p \in OrderIds \ {o} : orders'[p] = orders[p] /\ used'[p] = used[p] /\ jobs'[p] = jobs[p]
    BY <1>2
  <2> HIDE DEF to
  <2> QED BY <1>1, <1>2, <1>3, <2>1, OthersEntries
<1>5. CASE o \notin Calm
  BY <1>2, <1>4, <1>5, StepStutters
<1>6. CASE o \in Calm
  <2>1. to \in {"mark", "reload"} /\ Active(r) /\ Active(r)'
    BY <1>3 DEF Active
  <2>2. /\ o \in Serial /\ o \in OrderIds /\ TypeOK
        /\ orders[o] \in Row /\ used[o] \in [Ingredients -> Int] /\ jobs[o] \in Nat
        /\ HandlerFits(r) /\ RequestFits(r) /\ TargetExists(r) /\ BookFits(o)
        /\ Settling(o) <=> requests[r].op = "pay" /\ requests[r].pc \in {"mark", "stock"}
        /\ Reversing(o) <=> requests[r].op = "void" /\ requests[r].pc = "stock"
        /\ Settling(o)' <=> requests'[r].op = "pay" /\ requests'[r].pc \in {"mark", "stock"}
        /\ Reversing(o)' <=> requests'[r].op = "void" /\ requests'[r].pc = "stock"
    BY <1>1, <1>3, <1>6, <2>1, LedgerSetting
  <2>3. /\ requests[r].amount \in Amounts /\ requests[r].op = "pay" /\ requests'[r].op = "pay"
        /\ orders[o].status = "pending" /\ orders[o].received < orders[o].net
        /\ requests[r].seen = orders[o].received
    BY <1>1, <1>3, <2>2 DEF RequestFits, HandlerFits, TargetExists, SameRequest
  <2>4. ~Settling(o) /\ ~Reversing(o) /\ ~Reversing(o)' /\ (Settling(o)' <=> Settles(r))
    BY <1>3, <2>2, <2>3
  <2>5. jobs[o] = 0
    BY <2>2, <2>3 DEF BookFits
  <2> DEFINE row == orders[o]
             total == row.received + requests[r].amount
             e == [status |-> "pending", key |-> row.key, items |-> row.items, net |-> row.net,
                   received |-> row.received, used |-> used[o], jobs |-> 0]
  <2>6. LedgerEntry(o) = e
    BY <2>3, <2>4, <2>5 DEF LedgerEntry
  <2>7. /\ orders'[o].status = "pending" /\ orders'[o].key = row.key /\ orders'[o].items = row.items
        /\ orders'[o].net = row.net /\ orders'[o].received = total
    BY <1>2, <2>2, <2>3 DEF TypeOK, Row
  <2>8. row.received \in Int /\ row.net \in Int /\ requests[r].amount \in Int
    BY <2>2, <2>3, OrdersAssumption DEF Row
  <2>9. Settles(r) <=> total >= row.net
    BY <1>1, <2>3 DEF Settles
  <2>10. LedgerEntry(o)' =
            IF total < row.net
            THEN [status |-> "pending", key |-> row.key, items |-> row.items, net |-> row.net,
                  received |-> total, used |-> used[o], jobs |-> 0]
            ELSE [status |-> "paid", key |-> row.key, items |-> row.items, net |-> row.net,
                  received |-> total, used |-> StockOf(recipes, row.items), jobs |-> 1]
    <3>1. total \in Int
      BY <2>8
    <3> HIDE DEF total
    <3>2. CASE total < row.net
      <4>1. ~Settling(o)'
        BY <2>4, <2>8, <2>9, <3>1, <3>2
      <4> QED BY <1>2, <2>4, <2>5, <2>7, <3>2, <4>1 DEF LedgerEntry
    <3>3. CASE ~(total < row.net)
      <4>1. Settling(o)'
        BY <2>4, <2>8, <2>9, <3>1, <3>3
      <4>2. Drawn(o)' = StockOf(recipes, row.items)
        BY <1>2, <2>7 DEF Drawn
      <4>3. jobs'[o] + 1 = 1
        BY <1>2, <2>5
      <4> QED BY <2>7, <3>3, <4>1, <4>2, <4>3 DEF LedgerEntry
    <3> QED BY <3>2, <3>3
  <2> HIDE DEF total
  <2>11. L!Next
    <3>1. total = row.received + requests[r].amount /\ recipes' = recipes
      BY <1>2 DEF total
    <3> QED BY <1>4, <1>6, <2>3, <2>6, <2>10, <3>1, IsPay
  <2> QED BY <2>11 DEF LedgerStep
<1> QED BY <1>5, <1>6

\* The order that is inserted.
LEMMA CreateInsertLedger ==
    ASSUME TypeInv, SerialInv, NEW r \in Requests, CreateInsert(r)
    PROVE  LedgerStep
<1>1. PICK o \in OrderIds : o = requests'[r].order
  BY CreateInsertEffect DEF TypeInv
<1>2. /\ Alone(r) /\ SameRequest(r) /\ requests[r].pc = "insert" /\ requests'[r].pc = "view"
      /\ KeyIsFree(r) /\ orders[o].status = "absent"
      /\ orders' = [orders EXCEPT ![o] = NewRow(requests[r].key, requests[r].cart)]
      /\ UNCHANGED <<used, recipes, jobs, display, aborts>>
  BY <1>1, CreateInsertEffect DEF TypeInv
<1>3. TypeOK /\ \A s \in Requests : RequestFits(s) /\ TargetExists(s)
  BY DEF TypeInv, SerialInv
<1>4. \A p \in OrderIds \ {o} : orders'[p] = orders[p] /\ used'[p] = used[p] /\ jobs'[p] = jobs[p]
  BY <1>2
<1>5. \A p : ~Works(r, p) /\ ~Works(r, p)'
  BY <1>2 DEF Works
<1>6. \A p \in Calm \ {o} : LedgerEntry(p)' = LedgerEntry(p)
  BY <1>2, <1>4, <1>5, EntryLasts, OrdersAssumption
<1>7. CASE o \notin Calm
  BY <1>2, <1>6, <1>7, StepStutters
<1>8. CASE o \in Calm
  <2>1. \A s \in Requests : requests[s].order # o
    BY <1>2, <1>3, OrdersAssumption DEF TargetExists
  <2>2. ~Settling(o) /\ ~Reversing(o)
    BY <2>1 DEF Settling, Reversing
  <2>3. ~Settling(o)' /\ ~Reversing(o)'
    <3>1. ASSUME NEW s \in Requests, requests'[s].order = o PROVE requests'[s].pc = "view"
      BY <1>2, <2>1, <3>1 DEF Alone
    <3> QED BY <3>1 DEF Settling, Reversing
  <2>4. PICK key \in Keys \cup {NoKey}, cart \in Carts : key = requests[r].key /\ cart = requests[r].cart
    BY <1>2, <1>3, RequestTyped DEF RequestFits, Request
  <2>5. Blank(o) /\ \A p \in Calm : Blank(p) /\ p \in OrderIds
    BY <1>1, OrdersAssumption DEF SerialInv
  <2>6. LedgerEntry(o).status = "absent"
    BY <1>2, <2>2 DEF LedgerEntry
  <2>7. orders'[o] = NewRow(key, cart)
    BY <1>2, <1>3, <2>4 DEF TypeOK
  <2>8. used'[o] = NoStock /\ jobs'[o] = 0
    BY <1>2, <2>5 DEF Blank
  <2>9. LedgerEntry(o)' = [status |-> "pending", key |-> key, items |-> cart.items,
                           net |-> cart.net, received |-> 0, used |-> NoStock, jobs |-> 0]
    BY <2>3, <2>7, <2>8 DEF LedgerEntry, NewRow
  <2>10. ASSUME key # NoKey, NEW p \in Calm PROVE LedgerEntry(p).key # key
    <3>1. LedgerEntry(p).key = orders[p].key
      BY DEF LedgerEntry
    <3>2. CASE orders[p].status = "absent"
      <4>1. orders[p].key = NoKey
        BY <2>5, <3>2 DEF Blank, NoRow
      <4> QED BY <2>10, <3>1, <4>1
    <3>3. CASE orders[p].status # "absent"
      <4>1. orders[p].key # key
        BY <1>2, <2>4, <2>5, <2>10, <3>3 DEF KeyIsFree
      <4> QED BY <3>1, <4>1
    <3> QED BY <3>2, <3>3
  <2>11. L!Next
    <3>1. recipes' = recipes
      BY <1>2
    <3> QED BY <1>6, <1>8, <2>6, <2>9, <2>10, <3>1, IsCreate
  <2> QED BY <2>11 DEF LedgerStep
<1> QED BY <1>7, <1>8

\* The order that becomes void.
LEMMA VoidMarkLedger ==
    ASSUME TypeInv, TypeInv', SerialInv, SerialInv', StockInv', NEW r \in Requests, VoidMark(r)
    PROVE  LedgerStep
<1>1. PICK o : o = requests[r].order
  OBVIOUS
<1>2. /\ Moves(r, "stock", "reload") /\ KeepsRest(r)
      /\ requests[r].op = "void" /\ requests[r].rows = {}
      /\ orders' = [orders EXCEPT ![o].status = "void"]
      /\ UNCHANGED <<used, recipes, jobs, display, aborts>>
  BY <1>1, VoidMarkEffect DEF TypeInv
<1>3. Alone(r) /\ requests'[r].order = o /\ requests[r].pc = "stock" /\ requests'[r].pc = "reload"
      /\ SameRequest(r)
  BY <1>1, <1>2 DEF Moves
<1>4. \A p \in Calm \ {o} : LedgerEntry(p)' = LedgerEntry(p)
  <2>1. \A p \in OrderIds \ {o} : orders'[p] = orders[p] /\ used'[p] = used[p] /\ jobs'[p] = jobs[p]
    BY <1>2
  <2> QED BY <1>1, <1>2, <1>3, <2>1, OthersEntries
<1>5. CASE o \notin Calm
  BY <1>2, <1>4, <1>5, StepStutters
<1>6. CASE o \in Calm
  <2>1. Active(r) /\ Active(r)'
    BY <1>3 DEF Active
  <2>2. /\ o \in Serial /\ o \in OrderIds /\ TypeOK
        /\ orders[o] \in Row
        /\ HandlerFits(r)
        /\ Settling(o) <=> requests[r].op = "pay" /\ requests[r].pc \in {"mark", "stock"}
        /\ Reversing(o) <=> requests[r].op = "void" /\ requests[r].pc = "stock"
        /\ Settling(o)' <=> requests'[r].op = "pay" /\ requests'[r].pc \in {"mark", "stock"}
        /\ Reversing(o)' <=> requests'[r].op = "void" /\ requests'[r].pc = "stock"
        /\ \A s \in Requests : At(s, o) => s = r
    BY <1>1, <1>3, <1>6, <2>1, LedgerSetting
  <2>3. ~Settling(o) /\ ~Settling(o)' /\ ~Reversing(o)'
    BY <1>2, <1>3, <2>2 DEF SameRequest
  <2>4. orders[o].status \in {"pending", "paid"}
    BY <1>1, <1>2, <1>3, <2>2 DEF HandlerFits
  <2> DEFINE row == orders[o]
  <2>5. /\ orders'[o].status = "void" /\ orders'[o].key = row.key /\ orders'[o].items = row.items
        /\ orders'[o].net = row.net /\ orders'[o].received = row.received
    BY <1>2, <2>2 DEF TypeOK, Row
  <2>6. used'[o] = NoStock
    <3>1. \A s \in Requests : ~At(s, o)'
      BY <1>3, <2>2 DEF At, Alone
    <3>2. CalmStockFacts'
      BY CalmStockNext
    <3> QED BY <1>6, <2>5, <3>1, <3>2 DEF CalmStockFacts
  <2>7. LedgerEntry(o) = [status |-> row.status, key |-> row.key, items |-> row.items, net |-> row.net,
                          received |-> row.received, used |-> LedgerEntry(o).used, jobs |-> jobs[o]]
    BY <2>3 DEF LedgerEntry
  <2>8. LedgerEntry(o)' = [status |-> "void", key |-> row.key, items |-> row.items, net |-> row.net,
                           received |-> row.received, used |-> NoStock, jobs |-> jobs[o]]
    BY <1>2, <2>3, <2>5, <2>6 DEF LedgerEntry
  <2>9. recipes' = recipes
    BY <1>2
  <2>10. L!Next
    BY <1>4, <1>6, <2>4, <2>7, <2>8, <2>9, IsVoid
  <2> QED BY <2>10 DEF LedgerStep
<1> QED BY <1>5, <1>6

\* A step on its own order that leaves the entry of that order as it was.
LEMMA OwnStutter ==
    ASSUME NEW r \in Requests, Alone(r), recipes' = recipes, NEW o,
           requests[r].order = o, requests'[r].order = o,
           \A p \in OrderIds \ {o} : orders'[p] = orders[p] /\ used'[p] = used[p] /\ jobs'[p] = jobs[p],
           o \in Calm => LedgerEntry(o)' = LedgerEntry(o)
    PROVE  LedgerStep
<1>1. \A p \in Calm \ {o} : LedgerEntry(p)' = LedgerEntry(p)
  BY OthersEntries
<1> QED BY <1>1, StepStutters

\* The covering payment marks the order: the ledger has it paid since it was saved.
LEMMA PayMarkLedger ==
    ASSUME TypeInv, SerialInv, SerialInv', NEW r \in Requests, PayMark(r)
    PROVE  LedgerStep
<1>1. PICK o : o = requests[r].order
  OBVIOUS
<1>2. /\ Moves(r, "mark", "stock")
      /\ orders' = [orders EXCEPT ![o].status = "paid"]
      /\ UNCHANGED <<used, recipes, jobs>>
  BY <1>1, PayMarkEffect DEF TypeInv
<1>3. Alone(r) /\ requests'[r].order = o /\ requests[r].pc = "mark" /\ requests'[r].pc = "stock"
      /\ requests'[r].op = requests[r].op
  BY <1>1, <1>2 DEF Moves, SameRequest
<1>4. \A p \in OrderIds \ {o} : orders'[p] = orders[p] /\ used'[p] = used[p] /\ jobs'[p] = jobs[p]
  BY <1>2
<1>5. ASSUME o \in Calm PROVE LedgerEntry(o)' = LedgerEntry(o)
  <2>1. Active(r) /\ Active(r)'
    BY <1>3 DEF Active
  <2>2. /\ o \in OrderIds /\ TypeOK /\ orders[o] \in Row /\ TargetExists(r)
        /\ Settling(o) <=> requests[r].op = "pay" /\ requests[r].pc \in {"mark", "stock"}
        /\ Settling(o)' <=> requests'[r].op = "pay" /\ requests'[r].pc \in {"mark", "stock"}
    BY <1>1, <1>3, <1>5, <2>1, LedgerSetting
  <2>3. Settling(o) /\ Settling(o)'
    BY <1>3, <2>2 DEF TargetExists
  <2>4. /\ orders'[o].key = orders[o].key /\ orders'[o].items = orders[o].items
        /\ orders'[o].net = orders[o].net /\ orders'[o].received = orders[o].received
    BY <1>2, <2>2 DEF TypeOK, Row
  <2>5. Drawn(o)' = Drawn(o)
    BY <1>2, <2>4 DEF Drawn
  <2> QED BY <1>2, <2>3, <2>4, <2>5 DEF LedgerEntry
<1> QED BY <1>1, <1>2, <1>3, <1>4, <1>5, OwnStutter

\* The job is queued: what the ledger was ahead of the tables, the tables have caught up with.
LEMMA PayEnqueueLedger ==
    ASSUME TypeInv, TypeInv', SerialInv, SerialInv', StockInv', NEW r \in Requests, PayEnqueue(r)
    PROVE  LedgerStep
<1>1. PICK o : o = requests[r].order
  OBVIOUS
<1>2. /\ Moves(r, "stock", "reload") /\ requests[r].op = "pay"
      /\ jobs' = [jobs EXCEPT ![o] = @ + 1]
      /\ UNCHANGED <<orders, used, recipes>>
  BY <1>1, PayEnqueueEffect DEF TypeInv
<1>3. Alone(r) /\ requests'[r].order = o /\ requests[r].pc = "stock" /\ requests'[r].pc = "reload"
      /\ requests'[r].op = "pay"
  BY <1>1, <1>2 DEF Moves, SameRequest
<1>4. \A p \in OrderIds \ {o} : orders'[p] = orders[p] /\ used'[p] = used[p] /\ jobs'[p] = jobs[p]
  BY <1>2
<1>5. ASSUME o \in Calm PROVE LedgerEntry(o)' = LedgerEntry(o)
  <2>1. Active(r) /\ Active(r)'
    BY <1>3 DEF Active
  <2>2. /\ o \in OrderIds /\ o \in Serial /\ TypeOK /\ HandlerFits(r)
        /\ Settling(o) <=> requests[r].op = "pay" /\ requests[r].pc \in {"mark", "stock"}
        /\ Settling(o)' <=> requests'[r].op = "pay" /\ requests'[r].pc \in {"mark", "stock"}
        /\ Reversing(o)' <=> requests'[r].op = "void" /\ requests'[r].pc = "stock"
        /\ \A s \in Requests : At(s, o) => s = r
    BY <1>1, <1>3, <1>5, <2>1, LedgerSetting
  <2>3. Settling(o) /\ ~Settling(o)' /\ ~Reversing(o)'
    BY <1>2, <1>3, <2>2
  <2>4. orders[o].status = "paid" /\ orders' = orders
    BY <1>1, <1>2, <1>3, <2>2 DEF HandlerFits
  <2>5. jobs'[o] = jobs[o] + 1
    BY <1>2, <2>2 DEF TypeOK
  <2>6. used'[o] = Drawn(o)
    <3>1. \A s \in Requests : ~At(s, o)'
      BY <1>3, <2>2 DEF At, Alone
    <3>2. CalmStockFacts'
      BY CalmStockNext
    <3>3. used'[o] = Drawn(o)'
      BY <1>5, <2>4, <3>1, <3>2 DEF CalmStockFacts
    <3>4. Drawn(o)' = Drawn(o)
      BY <1>2 DEF Drawn
    <3> QED BY <3>3, <3>4
  <2> QED BY <2>3, <2>4, <2>5, <2>6 DEF LedgerEntry
<1> QED BY <1>1, <1>2, <1>3, <1>4, <1>5, OwnStutter

\* A handler looks up recipe rows.
LEMMA FindRecipesLedger ==
    ASSUME TypeInv, SerialInv, SerialInv', NEW r \in Requests, FindRecipes(r)
    PROVE  LedgerStep
<1>1. PICK o : o = requests[r].order
  OBVIOUS
<1>2. Moves(r, "stock", "stock") /\ UNCHANGED <<orders, used, recipes, jobs>>
  BY FindRecipesEffect DEF TypeInv
<1>3. Alone(r) /\ requests'[r].order = o /\ requests[r].pc = "stock" /\ requests'[r].pc = "stock"
      /\ requests'[r].op = requests[r].op
  BY <1>1, <1>2 DEF Moves, SameRequest
<1>4. ASSUME o \in Calm PROVE LedgerEntry(o)' = LedgerEntry(o)
  <2>1. Active(r) /\ Active(r)'
    BY <1>3 DEF Active
  <2>2. /\ Settling(o) <=> requests[r].op = "pay" /\ requests[r].pc \in {"mark", "stock"}
        /\ Reversing(o) <=> requests[r].op = "void" /\ requests[r].pc = "stock"
        /\ Settling(o)' <=> requests'[r].op = "pay" /\ requests'[r].pc \in {"mark", "stock"}
        /\ Reversing(o)' <=> requests'[r].op = "void" /\ requests'[r].pc = "stock"
    BY <1>1, <1>3, <1>4, <2>1, LedgerSetting
  <2>3. (Settling(o)' <=> Settling(o)) /\ (Reversing(o)' <=> Reversing(o))
    BY <1>3, <2>2
  <2>4. Drawn(o)' = Drawn(o)
    BY <1>2 DEF Drawn
  <2> QED BY <1>2, <2>3, <2>4 DEF LedgerEntry
<1> QED BY <1>1, <1>2, <1>3, <1>4, OwnStutter

\* Stock moves, which the ledger hides: it has drawn all of it already, or returns it at once.
LEMMA MoveStockLedger ==
    ASSUME TypeInv, SerialInv, SerialInv', NEW r \in Requests, MoveStock(r)
    PROVE  LedgerStep
<1>1. PICK o : o = requests[r].order
  OBVIOUS
<1>2. PICK row \in requests[r].rows :
          /\ Moves(r, "stock", "stock")
          /\ used' = [used EXCEPT ![o][row.ingredient] = @ + StockChange(r, row)]
          /\ UNCHANGED <<orders, recipes, jobs>>
  BY <1>1, MoveStockEffect DEF TypeInv
<1>3. Alone(r) /\ requests'[r].order = o /\ requests[r].pc = "stock" /\ requests'[r].pc = "stock"
      /\ requests'[r].op = requests[r].op
  BY <1>1, <1>2 DEF Moves, SameRequest
<1>4. \A p \in OrderIds \ {o} : orders'[p] = orders[p] /\ used'[p] = used[p] /\ jobs'[p] = jobs[p]
  BY <1>2 DEF TypeInv, TypeOK
<1>5. ASSUME o \in Calm PROVE LedgerEntry(o)' = LedgerEntry(o)
  <2>1. Active(r) /\ Active(r)'
    BY <1>3 DEF Active
  <2>2. /\ o \in Serial /\ RequestFits(r) /\ HandlerFits(r)
        /\ Settling(o) <=> requests[r].op = "pay" /\ requests[r].pc \in {"mark", "stock"}
        /\ Reversing(o) <=> requests[r].op = "void" /\ requests[r].pc = "stock"
        /\ Settling(o)' <=> requests'[r].op = "pay" /\ requests'[r].pc \in {"mark", "stock"}
        /\ Reversing(o)' <=> requests'[r].op = "void" /\ requests'[r].pc = "stock"
    BY <1>1, <1>3, <1>5, <2>1, LedgerSetting
  <2>3. (Settling(o)' <=> Settling(o)) /\ (Reversing(o)' <=> Reversing(o))
    BY <1>3, <2>2
  <2>4. requests[r].rows # {}
    BY <1>2
  <2>5. Settling(o) \/ (Reversing(o) /\ orders[o].status = "paid")
    BY <1>1, <1>3, <2>2, <2>4 DEF RequestFits, HandlerFits
  <2>6. Drawn(o)' = Drawn(o)
    BY <1>2 DEF Drawn
  <2> QED BY <1>2, <2>3, <2>5, <2>6 DEF LedgerEntry
<1> QED BY <1>1, <1>2, <1>3, <1>4, <1>5, OwnStutter

\* A void is accepted: what a paid order has drawn is what the ledger says, from now on by itself.
LEMMA VoidReadLedger ==
    ASSUME TypeInv, SerialInv, SerialInv', StockInv, NEW r \in Requests, VoidRead(r)
    PROVE  LedgerStep
<1>1. PICK o : o = requests[r].order
  OBVIOUS
<1>2. /\ Alone(r) /\ requests[r].pc = "voidRead" /\ requests'[r].pc \in {"done", "stock"}
      /\ requests'[r].op = requests[r].op /\ requests'[r].order = o
      /\ UNCHANGED <<orders, used, recipes, jobs>>
  BY <1>1, VoidReadEffect DEF TypeInv, SameRequest
<1>3. CASE requests'[r].pc = "done"
  <2>1. \A p \in Calm : ~Works(r, p) /\ ~Works(r, p)'
    BY <1>2, <1>3 DEF Works
  <2> QED BY <1>2, <2>1, QuietLedger
<1>4. CASE requests'[r].pc = "stock"
  <2>1. ASSUME o \in Calm PROVE LedgerEntry(o)' = LedgerEntry(o)
    <3>1. Active(r) /\ Active(r)'
      BY <1>2, <1>4 DEF Active
    <3>2. /\ TargetExists(r)
          /\ Settling(o) <=> requests[r].op = "pay" /\ requests[r].pc \in {"mark", "stock"}
          /\ Reversing(o) <=> requests[r].op = "void" /\ requests[r].pc = "stock"
          /\ Settling(o)' <=> requests'[r].op = "pay" /\ requests'[r].pc \in {"mark", "stock"}
          /\ Reversing(o)' <=> requests'[r].op = "void" /\ requests'[r].pc = "stock"
          /\ \A s \in Requests : At(s, o) => s = r
      BY <1>1, <1>2, <2>1, <3>1, LedgerSetting
    <3>3. ~Settling(o) /\ ~Reversing(o) /\ ~Settling(o)' /\ Reversing(o)'
      BY <1>2, <1>4, <3>2 DEF TargetExists
    <3>4. \A s \in Requests : ~At(s, o)
      BY <1>2, <3>2 DEF At
    <3>5. orders[o].status = "paid" => used[o] = Drawn(o)
      BY <2>1, <3>4, CalmStock
    <3>6. Drawn(o)' = Drawn(o)
      BY <1>2 DEF Drawn
    <3> QED BY <1>2, <3>3, <3>5, <3>6 DEF LedgerEntry
  <2> QED BY <1>1, <1>2, <2>1, OwnStutter
<1> QED BY <1>2, <1>3, <1>4

\* A recipe row is added: no calm order exists.
LEMMA CreateRecipeLedger ==
    ASSUME TypeInv, SerialInv, CreateRecipe
    PROVE  LedgerStep
<1>1. /\ \A o \in Calm : orders[o].status = "absent"
      /\ UNCHANGED <<orders, used, jobs, requests>>
  BY DEF CreateRecipe
<1>2. ASSUME NEW o \in Calm PROVE ~Settling(o) /\ ~Reversing(o)
  BY <1>1, <1>2, OrdersAssumption DEF Settling, Reversing, TypeInv, TargetExists
<1>3. ASSUME NEW o \in Calm
      PROVE  LedgerEntry(o).status = "absent" /\ LedgerEntry(o)' = LedgerEntry(o)
  <2>1. ~Settling(o)' /\ ~Reversing(o)'
    BY <1>1, <1>2 DEF Settling, Reversing
  <2> QED BY <1>1, <1>2, <2>1 DEF LedgerEntry
<1>4. UNCHANGED [o \in Calm |-> LedgerEntry(o)]
  BY <1>3
<1>5. L!EditRecipes
  BY <1>3, <1>4 DEF L!EditRecipes
<1> QED BY <1>5 DEF LedgerStep, L!Next

\* Every step is a step of the ledger, or one that it hides.
LEMMA NextLedger ==
    TypeInv /\ TypeInv' /\ SerialInv /\ SerialInv' /\ StockInv /\ StockInv' /\ [Next]_ordersVars
        => LedgerStep
<1> SUFFICES ASSUME TypeInv, TypeInv', SerialInv, SerialInv', StockInv, StockInv', [Next]_ordersVars
             PROVE  LedgerStep
  OBVIOUS
<1>1. TypeOK
  BY DEF TypeInv
<1>2. ASSUME NEW r \in Requests, StartCreate(r) PROVE LedgerStep
  BY <1>1, <1>2, StartCreateEffect, QuietLedger DEF Works
<1>3. ASSUME NEW r \in Requests, StartPay(r) PROVE LedgerStep
  BY <1>1, <1>3, StartPayEffect, QuietLedger DEF Works
<1>4. ASSUME NEW r \in Requests, StartVoid(r) PROVE LedgerStep
  BY <1>1, <1>4, StartVoidEffect, QuietLedger DEF Works
<1>5. ASSUME NEW r \in Requests, CreateFound(r) PROVE LedgerStep
  BY <1>1, <1>5, CreateFoundEffect, QuietLedger DEF Works
<1>6. ASSUME NEW r \in Requests, CreateNotFound(r) PROVE LedgerStep
  BY <1>1, <1>6, CreateNotFoundEffect, QuietLedger DEF Works, Moves
<1>7. ASSUME NEW r \in Requests, CreateConflict(r) PROVE LedgerStep
  BY <1>1, <1>7, CreateConflictEffect, QuietLedger DEF Works, Moves
<1>8. ASSUME NEW r \in Requests, PayRead(r) PROVE LedgerStep
  BY <1>1, <1>8, PayReadEffect, QuietLedger DEF Works
<1>9. ASSUME NEW r \in Requests, Reload(r) PROVE LedgerStep
  <2>1. /\ Alone(r) /\ requests[r].pc = "reload" /\ requests'[r].pc \in {"view", "done"}
        /\ UNCHANGED <<orders, used, recipes, jobs>>
    BY <1>1, <1>9, ReloadEffect DEF Moves
  <2> QED BY <2>1, QuietLedger DEF Works
<1>10. ASSUME NEW r \in Requests, PublishRead(r) PROVE LedgerStep
  BY <1>1, <1>10, PublishReadEffect, QuietLedger DEF Works, Moves
<1>11. ASSUME NEW r \in Requests, Publish(r) PROVE LedgerStep
  BY <1>1, <1>11, PublishEffect, QuietLedger DEF Works, Moves
<1>12. ASSUME NEW r \in Requests, Abort(r) PROVE LedgerStep
  BY <1>1, <1>12, AbortEffect, QuietLedger DEF Works
<1>13. CASE UNCHANGED ordersVars
  <2>1. recipes' = recipes /\ \A p \in Calm : LedgerEntry(p)' = LedgerEntry(p)
    BY <1>13 DEF ordersVars, LedgerEntry, Settling, Reversing, Drawn
  <2> QED BY <2>1, StepStutters
<1>14. ASSUME NEW r \in Requests, Arrive(r) \/ Handle(r) PROVE LedgerStep
  BY <1>2, <1>3, <1>4, <1>5, <1>6, <1>7, <1>8, <1>9, <1>10, <1>11, <1>14,
     CreateInsertLedger, PaySaveLedger, PayMarkLedger, PayEnqueueLedger,
     FindRecipesLedger, MoveStockLedger, VoidReadLedger, VoidMarkLedger
     DEF Arrive, Handle
<1> QED BY <1>12, <1>13, <1>14, CreateRecipeLedger DEF Next

\* On calm orders the handlers implement the atomic ledger, whatever else goes on (create,
\* addPayment and voidOrder as their callers see them).
THEOREM OrdersImplementsLedger == Spec => ImplementsLedger
<1>1. LedgerStep => [L!Next]_<<[o \in Calm |-> LedgerEntry(o)], recipes>>
  BY DEF LedgerStep, LedgerNow
<1>2. TypeInv /\ TypeInv' /\ SerialInv /\ SerialInv' /\ StockInv /\ StockInv' /\ [Next]_ordersVars
          => [L!Next]_<<[o \in Calm |-> LedgerEntry(o)], recipes>>
  BY <1>1, NextLedger
<1> QED BY <1>2, InitLedger, StockInvHolds, PTL DEF Spec, ImplementsLedger, L!Spec
=============================================================================
