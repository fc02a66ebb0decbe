--------------------------- MODULE OfflineClient ----------------------------
(***************************************************************************)
(* The offline queue of the till: OrderService (createOrder, addPayment,   *)
(* syncPendingQueue) over the local database, the periodic flushes of      *)
(* OfflineSyncService, a network that comes and goes and loses answers,    *)
(* and an app that may be killed.  Every call is split at its awaits.  The *)
(* server is reduced to what Ledger promises: POST /orders is idempotent   *)
(* in the order number, a payment is taken while the order is not covered. *)
(***************************************************************************)
EXTENDS Integers, Sequences, SequencesExt, FiniteSetsExt

CONSTANTS
    OrderNos,    \* order numbers the till may generate
    Payments,    \* payments customers may hand over
    Till,        \* the task of the cashier
    Syncers,     \* tasks running OfflineSyncService.syncNowIfOnline()
    NoOrder,     \* no order (on the payment screen, in a task)
    NoPayment,   \* no payment
    Net,         \* net amount of every order
    Amounts,     \* amounts that customers hand over
    Worlds,      \* assumptions under which the till runs, see `world`
    MaxDrops,    \* bound: losses of connectivity
    MaxFaults,   \* bound: requests answered with an error or not at all
    MaxCrashes   \* bound: kills of the app

ASSUME ClientAssumption ==
    /\ NoOrder \notin OrderNos /\ NoPayment \notin Payments /\ Till \notin Syncers
    /\ OrderNos \cap Payments = {}
    /\ Net \in Nat \ {0} /\ Amounts \subseteq Nat \ {0}
    /\ Worlds \subseteq [exclusive : BOOLEAN, validates : BOOLEAN, refuses : SUBSET OrderNos]
    /\ {MaxDrops, MaxFaults, MaxCrashes} \subseteq Nat

VARIABLES
    world,     \* exclusive: tasks of the till do not overlap;
               \* validates: the server insists on order_id in the body of a payment;
               \* refuses: orders it never creates
    online,    \* what connectivity_plus reports
    created,   \* the orders that the server has
    booked,    \* how often the server has booked each payment
    tender,    \* order and amount of each payment handed over
    snaps,     \* the local snapshot of each order
    queue,     \* sync_queue_locals, by createdAt
    tasks,     \* program counter and local variables of each task
    isSyncing, \* OfflineSyncService._isSyncing
    current,   \* orderProvider.currentOrder: the order on the payment screen
    shown,     \* orders and payments that the cashier was told are done
    misled,    \* history: orders with a payment that the server has booked while the
               \* cashier was told of an error, and no answer of the server saved since
    drops, faults, crashes

serverVars == <<created, booked>>
localVars == <<snaps, queue>>
screenVars == <<tender, current, shown, misled>>
bounds == <<drops, faults, crashes>>
vars == <<world, online, serverVars, localVars, tasks, isSyncing, screenVars, bounds>>

Tasks == Syncers \cup {Till}

\* The local row of an order: whether it bears the unsyncedMarker, and the sum of
\* its local payments; its paymentStatus is "paid" when they cover Net.
NoSnap == [state |-> "none", received |-> 0]
Snap(state, received) == [state |-> state, received |-> received]

\* Entries of the queue.  `status` and `retryCount` are left out: pending and failed
\* entries are read alike and nothing reads the count.
OrderItem(o) == [kind |-> "order", order |-> o, payment |-> NoPayment]
PaymentItem(p) == [kind |-> "payment", order |-> tender[p].order, payment |-> p]

IdleTask ==
    [pc |-> "idle", op |-> "sync", order |-> NoOrder, payment |-> NoPayment,
     left |-> <<>>, progress |-> FALSE, received |-> 0, state |-> "none"]

\* What the server has booked for an order.
TotalOf(bookings, o) ==
    MapThenSumSet(LAMBDA p : bookings[p] * tender[p].amount,
                  {p \in Payments : tender[p].order = o})

Received(o) == TotalOf(booked, o)

Init ==
    /\ world \in Worlds
    /\ online \in BOOLEAN
    /\ created = {}
    /\ booked = [p \in Payments |-> 0]
    /\ tender = [p \in Payments |-> [order |-> NoOrder, amount |-> 0]]
    /\ snaps = [o \in OrderNos |-> NoSnap]
    /\ queue = <<>>
    /\ tasks = [t \in Tasks |-> IdleTask]
    /\ isSyncing = FALSE
    /\ current = NoOrder
    /\ shown = {} /\ misled = {}
    /\ drops = 0 /\ faults = 0 /\ crashes = 0

-----------------------------------------------------------------------------
(* Steps of a task.                                                        *)

Goto(t, pc) == tasks' = [tasks EXCEPT ![t].pc = pc]

MayStart(t) ==
    /\ tasks[t].pc = "idle"
    /\ world.exclusive => \A u \in Tasks : tasks[u].pc = "idle"

\* syncNowIfOnline(): _isSyncing is tested, then isOnline is awaited ...
SyncStart(s) ==
    /\ MayStart(s)
    /\ ~isSyncing
    /\ tasks' = [tasks EXCEPT ![s] = [IdleTask EXCEPT !.pc = "check"]]
    /\ UNCHANGED <<world, online, serverVars, localVars, isSyncing, screenVars, bounds>>

\* ... and only then _isSyncing is set.
SyncEnter(s) ==
    /\ tasks[s].pc = "check"
    /\ \/ online /\ isSyncing' = TRUE /\ Goto(s, "flush")
       \/ ~online /\ Goto(s, "idle") /\ UNCHANGED isSyncing
    /\ UNCHANGED <<world, online, serverVars, localVars, screenVars, bounds>>

CheckoutStart_ShownEarly ==
    /\ MayStart(Till)
    /\ \E o \in OrderNos :
          /\ snaps[o] = NoSnap /\ o \notin created
          /\ current' = o
          /\ tasks' = [tasks EXCEPT ![Till] =
                [IdleTask EXCEPT !.op = "create", !.order = o,
                                 !.pc = IF online THEN "flush" ELSE "localOrder"]]
    /\ UNCHANGED <<world, online, serverVars, localVars, isSyncing, tender, shown, misled, bounds>>

\* createOrder(): a fresh order number.  An order is begun even when another is on screen.
CheckoutStart ==
    /\ MayStart(Till)
    /\ \E o \in OrderNos :
          /\ snaps[o] = NoSnap /\ o \notin created
          /\ tasks' = [tasks EXCEPT ![Till] =
                [IdleTask EXCEPT !.op = "create", !.order = o,
                                 !.pc = IF online THEN "flush" ELSE "localOrder"]]
    /\ current' = NoOrder
    /\ UNCHANGED <<world, online, serverVars, localVars, isSyncing, tender, shown, misled, bounds>>

\* addPayment(): the customer hands over a payment for the order on screen.
PayStart ==
    /\ MayStart(Till)
    /\ current # NoOrder
    /\ \E p \in Payments, amount \in Amounts :
          /\ tender[p].order = NoOrder
          /\ tender' = [tender EXCEPT ![p] = [order |-> current, amount |-> amount]]
          /\ tasks' = [tasks EXCEPT ![Till] =
                [IdleTask EXCEPT !.op = "pay", !.order = current, !.payment = p,
                                 !.pc = IF online THEN "flush" ELSE "lookup"]]
    /\ UNCHANGED <<world, online, serverVars, localVars, isSyncing, current, shown, misled, bounds>>

\* syncPendingQueue() returns to the operation that awaits it.
AfterFlush(t) ==
    /\ tasks' = [tasks EXCEPT
          ![t].pc = CASE tasks[t].op = "create" -> "postOrder"
                      [] tasks[t].op = "pay" -> "lookup"
                      [] OTHER -> "idle",
          ![t].left = <<>>, ![t].progress = FALSE, ![t].received = 0]
    /\ isSyncing' = (tasks[t].op # "sync" /\ isSyncing)

\* An iteration of its while loop: isOnline, then getPendingSyncQueue().
Flush(t) ==
    /\ tasks[t].pc = "flush"
    /\ \/ /\ online /\ queue # <<>>
          /\ tasks' = [tasks EXCEPT ![t].pc = "item", ![t].left = queue,
                                    ![t].progress = FALSE]
          /\ UNCHANGED isSyncing
       \/ (~online \/ queue = <<>>) /\ AfterFlush(t)
    /\ UNCHANGED <<world, online, serverVars, localVars, screenVars, bounds>>

EndOfItems(t) ==
    /\ tasks[t].pc = "item" /\ tasks[t].left = <<>>
    /\ \/ tasks[t].progress /\ Goto(t, "flush") /\ UNCHANGED isSyncing
       \/ ~tasks[t].progress /\ AfterFlush(t)
    /\ UNCHANGED <<world, online, serverVars, localVars, screenVars, bounds>>

AtItem(t, kind) ==
    /\ tasks[t].pc = "item" /\ tasks[t].left # <<>>
    /\ Head(tasks[t].left).kind = kind

\* getRemoteOrderIdByOrderNo() is not null.
RemoteKnown(o) == snaps[o].state = "synced"

SkipItem_CountsAsProgress(t) ==
    /\ AtItem(t, "payment")
    /\ ~RemoteKnown(Head(tasks[t].left).order)
    /\ tasks' = [tasks EXCEPT ![t].left = Tail(@), ![t].progress = TRUE]
    /\ UNCHANGED <<world, online, serverVars, localVars, isSyncing, screenVars, bounds>>

\* A queued payment whose order has no remote id yet is passed over.
SkipItem(t) ==
    /\ AtItem(t, "payment")
    /\ ~RemoteKnown(Head(tasks[t].left).order)
    /\ tasks' = [tasks EXCEPT ![t].left = Tail(@)]
    /\ UNCHANGED <<world, online, serverVars, localVars, isSyncing, screenVars, bounds>>

-----------------------------------------------------------------------------
(* Requests to the server.                                                 *)

\* The order and the payment of the POST that t is about to make.
PostsOrder(t) ==
    tasks[t].pc = "postOrder" \/ AtItem(t, "order")

PostsPayment(t) ==
    \/ tasks[t].pc = "postPay"
    \/ AtItem(t, "payment") /\ RemoteKnown(Head(tasks[t].left).order)

Subject(t) ==
    IF tasks[t].pc = "item" THEN Head(tasks[t].left)
    ELSE [kind |-> tasks[t].op, order |-> tasks[t].order, payment |-> tasks[t].payment]

\* POST /orders can be carried out: its products and its branch exist, and the till is
\* signed in.
Creates(o) == o \notin world.refuses

\* ValidationPipe and OrdersService.addPayment() let the payment pass.
Accepts(o) == ~world.validates /\ Received(o) < Net

\* What the request does at the server.
Effect(t) ==
    \/ /\ PostsOrder(t) /\ Creates(Subject(t).order)
       /\ created' = created \cup {Subject(t).order}
       /\ UNCHANGED booked
    \/ /\ PostsPayment(t) /\ Accepts(Subject(t).order)
       /\ booked' = [booked EXCEPT ![Subject(t).payment] = @ + 1]
       /\ UNCHANGED created

\* The answer is the order with its payments.
Answered(t) ==
    /\ online
    /\ Effect(t)
    /\ UNCHANGED <<world, online, localVars, isSyncing, screenVars, bounds>>
    /\ tasks' = [tasks EXCEPT
          ![t].pc = IF tasks[t].pc = "item" THEN "saveItem" ELSE "saveAnswer",
          ![t].received = TotalOf(booked', Subject(t).order)]

IsQueued(item) == item \in ToSet(queue)

\* To the next entry of a flush; this one counts as progress.
PassOn(t) ==
    tasks' = [tasks EXCEPT ![t].pc = "item", ![t].left = Tail(@), ![t].progress = TRUE]

\* An error answer: markSyncQueueFailed() reads a queued entry, to put it back with its
\* new status, unless another task has deleted it; the cashier sees the error.
Rejected(t) ==
    IF tasks[t].pc = "item"
    THEN IF IsQueued(Head(tasks[t].left)) THEN Goto(t, "failed") ELSE PassOn(t)
    ELSE tasks' = [tasks EXCEPT ![t] = IdleTask]

Refused(t) ==
    /\ online
    /\ \/ PostsOrder(t) /\ ~Creates(Subject(t).order)
       \/ PostsPayment(t) /\ ~Accepts(Subject(t).order)
    /\ Rejected(t)
    /\ UNCHANGED <<world, online, serverVars, localVars, isSyncing, screenVars, bounds>>

\* put(): the entry is there again if another task has deleted it meanwhile.  Its place is
\* that of its createdAt, which is left open.
PutFailed(t) ==
    /\ tasks[t].pc = "failed"
    /\ LET item == Head(tasks[t].left)
       IN  \/ IsQueued(item) /\ UNCHANGED queue
           \/ /\ ~IsQueued(item)
              /\ \E n \in 1 .. Len(queue) + 1 : queue' = InsertAt(queue, n, item)
    /\ PassOn(t)
    /\ UNCHANGED <<world, online, serverVars, snaps, isSyncing, screenVars, bounds>>

\* _isOfflineError(): the flush returns; createOrder and addPayment go on offline.
Disconnected(t) ==
    \/ tasks[t].pc = "item" /\ AfterFlush(t)
    \/ /\ tasks[t].pc # "item"
       /\ Goto(t, IF tasks[t].pc = "postOrder" THEN "localOrder" ELSE "readLocal")
       /\ UNCHANGED isSyncing

NotSent(t) ==
    /\ ~online
    /\ PostsOrder(t) \/ PostsPayment(t)
    /\ Disconnected(t)
    /\ UNCHANGED <<world, online, serverVars, localVars, screenVars, bounds>>

\* The request fails although the till is online: its answer is lost after the server
\* has acted; the server has acted, fails then and answers 5xx (a payment that is saved,
\* and the steps after it are not); the request does not arrive; or it is answered 5xx
\* or 401 at once.
Fault(t) ==
    /\ online /\ faults < MaxFaults
    /\ PostsOrder(t) \/ PostsPayment(t)
    /\ faults' = faults + 1
    /\ \/ Effect(t) /\ Disconnected(t) /\ UNCHANGED misled
       \/ /\ Effect(t) /\ Rejected(t) /\ UNCHANGED isSyncing
          /\ misled' = misled \cup {o \in {tasks[t].order} : tasks[t].pc = "postPay"}
       \/ Disconnected(t) /\ UNCHANGED <<serverVars, misled>>
       \/ Rejected(t) /\ UNCHANGED <<serverVars, isSyncing, misled>>
    /\ UNCHANGED <<world, online, localVars, tender, current, shown, drops, crashes>>

-----------------------------------------------------------------------------
(* Local transactions.                                                     *)

\* saveOrderSnapshot() of the server's answer, inside a flush ...
SaveItem(t) ==
    /\ tasks[t].pc = "saveItem"
    /\ snaps' = [snaps EXCEPT ![Head(tasks[t].left).order] = Snap("synced", tasks[t].received)]
    /\ misled' = misled \ {Head(tasks[t].left).order}
    /\ Goto(t, "complete")
    /\ UNCHANGED <<world, online, serverVars, queue, isSyncing, tender, current, shown, bounds>>

CompleteItem_Kept(t) ==
    /\ tasks[t].pc = "complete"
    /\ PassOn(t)
    /\ UNCHANGED <<world, online, serverVars, localVars, isSyncing, screenVars, bounds>>

\* The queue after the entry, if it is there, has been deleted.
Without(item) ==
    IF \E n \in DOMAIN queue : queue[n] = item
    THEN RemoveAt(queue, CHOOSE n \in DOMAIN queue : queue[n] = item)
    ELSE queue

\* ... followed by markSyncQueueCompleted().
CompleteItem(t) ==
    /\ tasks[t].pc = "complete"
    /\ queue' = Without(Head(tasks[t].left))
    /\ PassOn(t)
    /\ UNCHANGED <<world, online, serverVars, snaps, isSyncing, screenVars, bounds>>

\* createOrder() and addPayment() return: the order is on screen, until it is paid.
Return(t, received) ==
    /\ current' = IF received >= Net THEN NoOrder ELSE tasks[t].order
    /\ shown' = shown \cup {IF tasks[t].op = "create" THEN tasks[t].order
                                                      ELSE tasks[t].payment}
    /\ tasks' = [tasks EXCEPT ![t] = IdleTask]

SaveAnswer_NotSaved(t) ==
    /\ tasks[t].pc = "saveAnswer"
    /\ Return(t, tasks[t].received)
    /\ UNCHANGED <<world, online, serverVars, localVars, isSyncing, tender, misled, bounds>>

\* They return the server's answer once it is saved.
SaveAnswer(t) ==
    /\ tasks[t].pc = "saveAnswer"
    /\ snaps' = [snaps EXCEPT ![tasks[t].order] = Snap("synced", tasks[t].received)]
    /\ misled' = misled \ {tasks[t].order}
    /\ Return(t, tasks[t].received)
    /\ UNCHANGED <<world, online, serverVars, queue, isSyncing, tender, bounds>>

\* _createOfflineOrder(): the snapshot, in a transaction of its own, ...
LocalOrder(t) ==
    /\ tasks[t].pc = "localOrder"
    /\ snaps' = [snaps EXCEPT ![tasks[t].order] = Snap("local", 0)]
    /\ Goto(t, "queueOrder")
    /\ UNCHANGED <<world, online, serverVars, queue, isSyncing, screenVars, bounds>>

\* addPayment(): is the order known to the server?
Lookup(t) ==
    /\ tasks[t].pc = "lookup"
    /\ Goto(t, IF RemoteKnown(tasks[t].order) THEN "postPay" ELSE "readLocal")
    /\ UNCHANGED <<world, online, serverVars, localVars, isSyncing, screenVars, bounds>>

\* _queueOfflinePayment(): the local order is read, ...
ReadLocal(t) ==
    /\ tasks[t].pc = "readLocal"
    /\ tasks' = [tasks EXCEPT
          ![t].pc = "localPay",
          ![t].received = snaps[tasks[t].order].received + tender[tasks[t].payment].amount,
          ![t].state = snaps[tasks[t].order].state]
    /\ UNCHANGED <<world, online, serverVars, localVars, isSyncing, screenVars, bounds>>

LocalPay_Unsynced(t) ==
    /\ tasks[t].pc = "localPay"
    /\ snaps' = [snaps EXCEPT ![tasks[t].order] = Snap("local", tasks[t].received)]
    /\ Goto(t, "queuePay")
    /\ UNCHANGED <<world, online, serverVars, queue, isSyncing, screenVars, bounds>>

\* ... and written back with the payment, whatever has become of it meanwhile, ...
LocalPay(t) ==
    /\ tasks[t].pc = "localPay"
    /\ snaps' = [snaps EXCEPT ![tasks[t].order] = Snap(tasks[t].state, tasks[t].received)]
    /\ Goto(t, "queuePay")
    /\ UNCHANGED <<world, online, serverVars, queue, isSyncing, screenVars, bounds>>

Enqueue_OneKeyPerOrder(t) ==
    /\ tasks[t].pc \in {"queueOrder", "queuePay"}
    /\ queue' = IF tasks[t].pc = "queueOrder" THEN Append(queue, OrderItem(tasks[t].order))
                ELSE Append(SelectSeq(queue, LAMBDA i : i.kind = "order" \/ i.order # tasks[t].order),
                            PaymentItem(tasks[t].payment))
    /\ Return(t, tasks[t].received)
    /\ UNCHANGED <<world, online, serverVars, snaps, isSyncing, tender, misled, bounds>>

\* ... and enqueueSyncAction() in a second transaction, for orders and payments alike.
Enqueue(t) ==
    /\ tasks[t].pc \in {"queueOrder", "queuePay"}
    /\ queue' = Append(queue, IF tasks[t].pc = "queueOrder" THEN OrderItem(tasks[t].order)
                                                            ELSE PaymentItem(tasks[t].payment))
    /\ Return(t, tasks[t].received)
    /\ UNCHANGED <<world, online, serverVars, snaps, isSyncing, tender, misled, bounds>>

-----------------------------------------------------------------------------
(* The environment.                                                        *)

GoOnline ==
    /\ ~online /\ online' = TRUE
    /\ UNCHANGED <<world, serverVars, localVars, tasks, isSyncing, screenVars, bounds>>

GoOffline ==
    /\ online /\ online' = FALSE
    /\ drops < MaxDrops /\ drops' = drops + 1
    /\ UNCHANGED <<world, serverVars, localVars, tasks, isSyncing, screenVars, faults, crashes>>

\* The app is killed and started again: the database stays.
Crash ==
    /\ crashes < MaxCrashes /\ crashes' = crashes + 1
    /\ tasks' = [t \in Tasks |-> IdleTask]
    /\ isSyncing' = FALSE
    /\ current' = NoOrder
    /\ UNCHANGED <<world, online, serverVars, localVars, tender, shown, misled, drops, faults>>

\* What a task does once it has begun.
Go(t) ==
    \/ Flush(t) \/ EndOfItems(t) \/ SkipItem(t)
    \/ Answered(t) \/ Refused(t) \/ PutFailed(t) \/ NotSent(t)
    \/ SaveItem(t) \/ CompleteItem(t) \/ SaveAnswer(t)
    \/ LocalOrder(t) \/ Lookup(t) \/ ReadLocal(t) \/ LocalPay(t) \/ Enqueue(t)

Next ==
    \/ \E s \in Syncers : SyncStart(s) \/ SyncEnter(s)
    \/ CheckoutStart \/ PayStart
    \/ \E t \in Tasks : Go(t) \/ Fault(t)
    \/ GoOnline \/ GoOffline \/ Crash

Spec == Init /\ [][Next]_vars

\* Connectivity returns, the poll timer keeps firing, and what is begun goes on.
FairSpec ==
    /\ Spec
    /\ WF_vars(GoOnline)
    /\ \A s \in Syncers : WF_vars(SyncStart(s)) /\ WF_vars(SyncEnter(s))
    /\ \A t \in Tasks : WF_vars(Go(t))

-----------------------------------------------------------------------------
(* Properties.                                                             *)

PCs == {"idle", "check", "flush", "item", "failed", "saveItem", "complete", "postOrder", "postPay",
        "saveAnswer", "localOrder", "queueOrder", "lookup", "readLocal", "localPay", "queuePay"}

Items == [kind : {"order"}, order : OrderNos, payment : {NoPayment}]
             \cup [kind : {"payment"}, order : OrderNos, payment : Payments]

\* The queue never holds an entry twice, an order on the payment screen is in the
\* local database, only the cashier's task stores what is not yet on the server, and
\* a payment is queued under the order it was handed over for.
ClientTypeOK ==
    /\ created \subseteq OrderNos
    /\ booked \in [Payments -> Nat]
    /\ tender \in [Payments -> [order : OrderNos \cup {NoOrder}, amount : Amounts \cup {0}]]
    /\ snaps \in [OrderNos -> [state : {"none", "local", "synced"}, received : Nat]]
    /\ queue \in Seq(Items) /\ IsInjective(queue)
    /\ \A n \in DOMAIN queue :
          queue[n].kind = "payment" => queue[n].order = tender[queue[n].payment].order
    /\ \A t \in Tasks : tasks[t].pc \in PCs /\ tasks[t].left \in Seq(Items)
    /\ \A s \in Syncers : tasks[s].op = "sync"
    /\ current # NoOrder => snaps[current] # NoSnap

\* What the cashier was told is done is never lost: whatever overlaps, fails or is
\* killed, the server has it or it waits in the queue (order_service_test.dart,
\* 'createOrder stores a local snapshot and queue entry when offline').
ShownIsKept ==
    /\ \A o \in OrderNos \cap shown : o \in created \/ IsQueued(OrderItem(o))
    /\ \A p \in Payments \cap shown : booked[p] > 0 \/ IsQueued(PaymentItem(p))

\* A payment is booked again only after a lost answer, an error of a server that had
\* booked it, or a kill, as long as no two tasks of the till overlap (addPayment and
\* syncPendingQueue send no idempotency key).
RebookingIsExplained ==
    world.exclusive =>
        MapThenSumSet(LAMBDA p : booked[p] - 1, {p \in Payments : booked[p] > 0})
            <= faults + crashes

\* Once nothing of an order waits in the queue and no task runs, the local snapshot
\* shows the payments the server has booked, as long as no two tasks overlap, the app is
\* not killed, and the cashier was not told of an error for a payment that the server
\* has booked (getOrders lets the local snapshot hide the server's order).
AgreeOnceFlushed ==
    (world.exclusive /\ crashes = 0 /\ \A t \in Tasks : tasks[t].pc \in {"idle", "check"}) =>
        \A o \in OrderNos \ misled :
            (snaps[o] # NoSnap /\ \A n \in DOMAIN queue : queue[n].order # o) =>
                o \in created /\ snaps[o] = Snap("synced", Received(o))

Arrived(p) == booked[p] > 0 \/ Received(tender[p].order) >= Net

\* A payment the cashier was told is done arrives at the server, which then has it
\* or has the order paid (order_service_test.dart, 'syncPendingQueue flushes queued
\* local order and payment').
PaymentArrives == \A p \in Payments : (p \in shown) ~> Arrived(p)

\* The same, for a server that creates the order and takes the till's payments, and for
\* tasks that do not overlap, whatever answers are lost and whenever the app is killed.
PaymentArrivesAlone ==
    \A p \in Payments :
        (/\ world.exclusive /\ ~world.validates
         /\ p \in shown /\ Creates(tender[p].order)) ~> Arrived(p)

\* The queue holds an order or a payment that the server refuses now and for ever.
Poisoned ==
    \/ \E o \in OrderNos : IsQueued(OrderItem(o)) /\ ~Creates(o)
    \/ \E p \in Payments :
          LET o == tender[p].order
          IN  IsQueued(PaymentItem(p)) /\ RemoteKnown(o) /\ ~Accepts(o)

\* createOrder and addPayment return, even while tasks overlap, unless the queue
\* holds an entry that is refused for good (syncPendingQueue goes on as long as an
\* entry is sent or refused; both await it).
TillReturns == (tasks[Till].pc # "idle") ~> (tasks[Till].pc = "idle" \/ Poisoned)
=============================================================================
