------------------------ MODULE OfflineClientProofs -------------------------
(***************************************************************************)
(* The offline queue of the till, for any numbers of orders, payments and  *)
(* background tasks, and any drops, faults and kills.  Four invariants,    *)
(* each resting on those before it:                                        *)
(*  KeptInv   a task deletes an entry of the queue only after the server   *)
(*            has acted on it (Vouched), and reports success only after    *)
(*            the server has acted or the entry is stored;                 *)
(*  TypesInv  entries keep the order they were made for, and what a task   *)
(*            has still to queue is not queued yet;                        *)
(*  SoloInv   where tasks take turns, what is booked again and what may be *)
(*            is paid for by a fault or a kill;                            *)
(*  AgreeInv  where they do and nothing is killed, an order waits in the   *)
(*            queue, is in hand, or is locally as the server has it.       *)
(***************************************************************************)
EXTENDS OfflineClient, FoldTheorems, SequenceTheorems, TLAPS

\* The server has what the entry asks for.
Done(item) ==
    IF item.kind = "order" THEN item.order \in created ELSE booked[item.payment] > 0

\* The types of what the argument looks at.
KeptTypes ==
    /\ created \subseteq OrderNos
    /\ booked \in [Payments -> Nat]
    /\ DOMAIN tender = Payments
    /\ \A p \in Payments : tender[p].order \in OrderNos \cup {NoOrder}
    /\ queue \in Seq(Items)
    /\ current \in OrderNos \cup {NoOrder}
    /\ shown \subseteq OrderNos \cup Payments
    /\ DOMAIN tasks = Tasks

TaskFields == {"pc", "op", "order", "payment", "left", "progress", "received", "state"}

\* The program counters each operation of a task passes through.
Place ==
    [sync |-> {"idle", "check", "flush", "item", "failed", "saveItem", "complete"},
     create |-> {"flush", "item", "failed", "saveItem", "complete", "postOrder", "saveAnswer",
                 "localOrder", "queueOrder"},
     pay |-> {"flush", "item", "failed", "saveItem", "complete", "lookup", "postPay",
              "saveAnswer", "readLocal", "localPay", "queuePay"}]

TaskOK(q) ==
    /\ DOMAIN q = TaskFields
    /\ q.op \in {"sync", "create", "pay"}
    /\ q.pc \in Place[q.op]
    /\ q.left \in Seq(Items)
    /\ q.op \in {"create", "pay"} => q.order \in OrderNos
    /\ q.op = "pay" => q.payment \in Payments

\* A task that is about to delete an entry or to report success is entitled to, and one
\* that is about to put an entry back has it.
Vouched(q) ==
    /\ q.pc = "failed" => q.left # <<>>
    /\ q.pc \in {"saveItem", "complete"} => q.left # <<>> /\ Done(Head(q.left))
    /\ q.pc = "saveAnswer" => /\ q.op = "create" => q.order \in created
                              /\ q.op = "pay" => booked[q.payment] > 0

\* Payments in hand have been handed over for an order.
Tendered ==
    /\ \A p \in Payments \cap shown : tender[p].order # NoOrder
    /\ \A t \in Tasks : tasks[t].op = "pay" => tender[tasks[t].payment].order # NoOrder

KeptInv ==
    /\ KeptTypes
    /\ \A t \in Tasks : TaskOK(tasks[t]) /\ Vouched(tasks[t])
    /\ Tendered
    /\ ShownIsKept

-----------------------------------------------------------------------------
\* Only t moves.
OnlyMoves(t) ==
    /\ DOMAIN tasks' = Tasks
    /\ \A u \in Tasks : u # t => tasks'[u] = tasks[u]

\* The server never forgets an order or a payment.
ServerGrows ==
    /\ created \subseteq created' /\ created' \subseteq OrderNos
    /\ booked' \in [Payments -> Nat]
    /\ \A p \in Payments : booked[p] > 0 => booked'[p] > 0

\* The server will have what the entry asks for after this step.
DoneNow(item) ==
    IF item.kind = "order" THEN item.order \in created' ELSE booked'[item.payment] > 0

\* An entry that is done stays done.
LEMMA DoneStays ==
    ASSUME ServerGrows, NEW item \in Items, Done(item)
    PROVE  DoneNow(item)
  BY DEF ServerGrows, Done, DoneNow, Items

\* What a task is entitled to it stays entitled to while others move.
LEMMA VouchedStays ==
    ASSUME ServerGrows, NEW q, TaskOK(q), Vouched(q)
    PROVE  /\ q.pc = "failed" => q.left # <<>>
           /\ q.pc \in {"saveItem", "complete"} => q.left # <<>> /\ DoneNow(Head(q.left))
           /\ q.pc = "saveAnswer" => /\ q.op = "create" => q.order \in created'
                                     /\ q.op = "pay" => booked'[q.payment] > 0
<1>0. q.pc = "failed" => q.left # <<>>
  BY DEF Vouched
<1>1. CASE q.pc \in {"saveItem", "complete"}
  <2>1. q.left \in Seq(Items) /\ q.left # <<>> /\ Done(Head(q.left))
    BY <1>1 DEF TaskOK, Vouched
  <2>2. Head(q.left) \in Items
    BY <2>1
  <2> QED BY <1>1, <2>1, <2>2, DoneStays
<1>2. CASE q.pc = "saveAnswer"
  BY <1>2 DEF TaskOK, Vouched, ServerGrows
<1> QED BY <1>0, <1>1, <1>2

\* A step of one task that leaves queue, tender and what was shown alone.
LEMMA TaskStep ==
    ASSUME KeptInv, NEW t \in Tasks, OnlyMoves(t), ServerGrows,
           TaskOK(tasks[t])', Vouched(tasks[t])',
           tasks'[t].op = "pay" => tasks[t].op = "pay" /\ tasks'[t].payment = tasks[t].payment,
           current' \in OrderNos \cup {NoOrder}, UNCHANGED <<queue, tender, shown>>
    PROVE  KeptInv'
<1> USE DEF KeptInv
<1>1. KeptTypes'
  BY DEF KeptTypes, OnlyMoves, ServerGrows
<1>2. ASSUME NEW u \in Tasks PROVE (TaskOK(tasks[u]) /\ Vouched(tasks[u]))'
  <2>1. CASE u = t
    BY <2>1
  <2>2. CASE u # t
    <3>1. tasks'[u] = tasks[u] /\ TaskOK(tasks[u]) /\ Vouched(tasks[u])
      BY <2>2 DEF OnlyMoves
    <3>2. TaskOK(tasks[u])'
      BY <3>1 DEF TaskOK
    <3>3. Vouched(tasks[u])'
      BY <3>1, VouchedStays DEF Vouched, Done, DoneNow
    <3> QED BY <3>2, <3>3
  <2> QED BY <2>1, <2>2
<1>3. Tendered'
  BY DEF Tendered, OnlyMoves
<1>4. ShownIsKept'
  BY DEF ShownIsKept, IsQueued, OrderItem, PaymentItem, ServerGrows
<1> QED BY <1>1, <1>2, <1>3, <1>4

\* An idle task is in order and entitled to nothing.
LEMMA IdleOK ==
    ASSUME NEW q, q = IdleTask
    PROVE  TaskOK(q) /\ q.pc = "idle" /\ q.op = "sync"
  BY DEF TaskOK, IdleTask, TaskFields, Place

\* A step that only changes local variables of a task and the payment screen.
LEMMA LocalStep ==
    ASSUME KeptInv, NEW t \in Tasks, OnlyMoves(t), UNCHANGED <<serverVars, queue, tender, shown>>,
           TaskOK(tasks[t])', Vouched(tasks[t])',
           tasks'[t].op = "pay" => tasks[t].op = "pay" /\ tasks'[t].payment = tasks[t].payment,
           current' \in OrderNos \cup {NoOrder}
    PROVE  KeptInv'
<1>1. ServerGrows
  BY DEF ServerGrows, KeptInv, KeptTypes, serverVars
<1> QED BY <1>1, TaskStep

\* The beginning of a flush by OfflineSyncService.
LEMMA SyncKeeps ==
    ASSUME KeptInv, NEW s \in Syncers, SyncStart(s) \/ SyncEnter(s)
    PROVE  KeptInv'
<1> USE DEF KeptInv, Tasks
<1>1. CASE SyncStart(s)
  <2>1. OnlyMoves(s) /\ tasks'[s] = [IdleTask EXCEPT !.pc = "check"]
    BY <1>1 DEF SyncStart, OnlyMoves, KeptTypes
  <2>2. TaskOK(tasks[s])' /\ Vouched(tasks[s])' /\ tasks'[s].op = "sync"
    BY <2>1 DEF TaskOK, Vouched, IdleTask, Place, TaskFields
  <2> QED BY <1>1, <2>1, <2>2, LocalStep DEF SyncStart, screenVars, localVars, KeptTypes
<1>2. CASE SyncEnter(s)
  <2>0. TaskOK(tasks[s]) /\ tasks[s].pc = "check" /\ tasks[s].op = "sync"
    BY <1>2 DEF SyncEnter, TaskOK, Place
  <2>1. OnlyMoves(s) /\ \E pc \in {"flush", "idle"} : tasks'[s] = [tasks[s] EXCEPT !.pc = pc]
    BY <1>2 DEF SyncEnter, Goto, OnlyMoves, KeptTypes
  <2>2. TaskOK(tasks[s])' /\ Vouched(tasks[s])' /\ tasks'[s].op = "sync"
    BY <2>0, <2>1 DEF TaskOK, Vouched, Place, TaskFields
  <2> QED BY <1>2, <2>1, <2>2, LocalStep DEF SyncEnter, screenVars, localVars, KeptTypes
<1> QED BY <1>1, <1>2

\* An operation awaits a flush or goes on after it.
LEMMA AfterFlushOK ==
    ASSUME KeptInv, NEW t \in Tasks, tasks[t].pc \in {"flush", "item"}, AfterFlush(t)
    PROVE  /\ OnlyMoves(t) /\ TaskOK(tasks[t])' /\ Vouched(tasks[t])'
           /\ tasks'[t].op = tasks[t].op /\ tasks'[t].payment = tasks[t].payment
<1>1. TaskOK(tasks[t]) /\ DOMAIN tasks = Tasks
  BY DEF KeptInv, KeptTypes
<1> DEFINE pc == CASE tasks[t].op = "create" -> "postOrder"
                   [] tasks[t].op = "pay" -> "lookup"
                   [] OTHER -> "idle"
<1>2. OnlyMoves(t) /\ tasks'[t] = [tasks[t] EXCEPT !.pc = pc, !.left = <<>>,
                                       !.progress = FALSE, !.received = 0]
  BY <1>1 DEF AfterFlush, OnlyMoves
<1>3. pc \in Place[tasks[t].op] /\ pc \notin {"failed", "saveItem", "complete", "saveAnswer"}
  BY <1>1 DEF TaskOK, Place
<1> HIDE DEF pc
<1>4. TaskOK(tasks[t])'
  BY <1>1, <1>2, <1>3 DEF TaskOK, TaskFields
<1>5. Vouched(tasks[t])'
  BY <1>1, <1>2, <1>3 DEF TaskOK, TaskFields, Vouched
<1> QED BY <1>1, <1>2, <1>4, <1>5 DEF TaskOK, TaskFields

\* A task moves to pc without further ado.
LEMMA GotoOK ==
    ASSUME KeptInv, NEW t \in Tasks, NEW pc, Goto(t, pc), pc \in Place[tasks[t].op],
           pc \notin {"failed", "saveItem", "complete", "saveAnswer"}
    PROVE  /\ OnlyMoves(t) /\ TaskOK(tasks[t])' /\ Vouched(tasks[t])'
           /\ tasks'[t].op = tasks[t].op /\ tasks'[t].payment = tasks[t].payment
<1>1. TaskOK(tasks[t]) /\ DOMAIN tasks = Tasks
  BY DEF KeptInv, KeptTypes
<1>2. OnlyMoves(t) /\ tasks'[t] = [tasks[t] EXCEPT !.pc = pc]
  BY <1>1 DEF Goto, OnlyMoves
<1> QED BY <1>1, <1>2 DEF TaskOK, TaskFields, Vouched

\* The loop of syncPendingQueue, apart from its requests.
LEMMA FlushKeeps ==
    ASSUME KeptInv, NEW t \in Tasks, Flush(t) \/ EndOfItems(t) \/ SkipItem(t)
    PROVE  KeptInv'
<1>0. TaskOK(tasks[t]) /\ DOMAIN tasks = Tasks /\ queue \in Seq(Items)
  BY DEF KeptInv, KeptTypes
<1>1. /\ UNCHANGED <<serverVars, queue, tender, shown>>
      /\ current' \in OrderNos \cup {NoOrder}
      /\ tasks[t].pc \in {"flush", "item"}
  BY DEF Flush, EndOfItems, SkipItem, AtItem, localVars, screenVars, KeptInv, KeptTypes
<1>2. CASE AfterFlush(t)
  BY <1>1, <1>2, AfterFlushOK, LocalStep
<1>3. CASE EndOfItems(t) /\ Goto(t, "flush")
  <2>1. "flush" \in Place[tasks[t].op]
    BY <1>0 DEF TaskOK, Place
  <2> QED BY <1>1, <1>3, <2>1, GotoOK, LocalStep
<1>4. CASE Flush(t) /\ tasks' = [tasks EXCEPT ![t].pc = "item", ![t].left = queue,
                                              ![t].progress = FALSE]
  <2>1. OnlyMoves(t) /\ tasks'[t] = [tasks[t] EXCEPT !.pc = "item", !.left = queue, !.progress = FALSE]
    BY <1>0, <1>4 DEF OnlyMoves
  <2>2. TaskOK(tasks[t])' /\ Vouched(tasks[t])'
    BY <1>0, <2>1 DEF TaskOK, Vouched, Place, TaskFields
  <2>3. tasks'[t].op = tasks[t].op /\ tasks'[t].payment = tasks[t].payment
    BY <1>0, <2>1 DEF TaskOK, TaskFields
  <2> QED BY <1>1, <2>1, <2>2, <2>3, LocalStep
<1>5. CASE SkipItem(t)
  <2>1. OnlyMoves(t) /\ tasks'[t] = [tasks[t] EXCEPT !.left = Tail(@)]
    BY <1>0, <1>5 DEF OnlyMoves, SkipItem
  <2>2. tasks[t].left # <<>> /\ tasks[t].pc = "item"
    BY <1>5 DEF SkipItem, AtItem
  <2>3. Tail(tasks[t].left) \in Seq(Items)
    BY <1>0, <2>2 DEF TaskOK
  <2>4. TaskOK(tasks[t])' /\ Vouched(tasks[t])'
    BY <1>0, <2>1, <2>2, <2>3 DEF TaskOK, Vouched, TaskFields
  <2>5. tasks'[t].op = tasks[t].op /\ tasks'[t].payment = tasks[t].payment
    BY <1>0, <2>1 DEF TaskOK, TaskFields
  <2> QED BY <1>1, <2>1, <2>4, <2>5, LocalStep
<1> QED BY <1>2, <1>3, <1>4, <1>5 DEF Flush, EndOfItems

-----------------------------------------------------------------------------
\* A flush goes on with its next entry.
LEMMA PassOnOK ==
    ASSUME KeptInv, NEW t \in Tasks, tasks[t].left # <<>>, PassOn(t)
    PROVE  /\ OnlyMoves(t) /\ TaskOK(tasks[t])' /\ Vouched(tasks[t])'
           /\ tasks'[t].op = tasks[t].op /\ tasks'[t].payment = tasks[t].payment
<1>1. TaskOK(tasks[t]) /\ DOMAIN tasks = Tasks
  BY DEF KeptInv, KeptTypes
<1>2. OnlyMoves(t) /\ tasks'[t] = [tasks[t] EXCEPT !.pc = "item", !.left = Tail(@),
                                                   !.progress = TRUE]
  BY <1>1 DEF OnlyMoves, PassOn
<1>3. Tail(tasks[t].left) \in Seq(Items)
  BY <1>1 DEF TaskOK
<1>4. "item" \in Place[tasks[t].op]
  BY <1>1 DEF TaskOK, Place
<1> QED BY <1>1, <1>2, <1>3, <1>4 DEF TaskOK, Vouched, TaskFields

\* An error answer ends the operation, or passes over the entry or is about to mark it.
LEMMA RejectedOK ==
    ASSUME KeptInv, NEW t \in Tasks, PostsOrder(t) \/ PostsPayment(t), Rejected(t)
    PROVE  /\ OnlyMoves(t) /\ TaskOK(tasks[t])' /\ Vouched(tasks[t])'
           /\ tasks'[t].op = "pay" => tasks[t].op = "pay" /\ tasks'[t].payment = tasks[t].payment
<1>1. TaskOK(tasks[t]) /\ DOMAIN tasks = Tasks
  BY DEF KeptInv, KeptTypes
<1>2. CASE tasks[t].pc = "item"
  <2>1. tasks[t].left # <<>>
    BY <1>2 DEF PostsOrder, PostsPayment, AtItem
  <2>2. CASE Goto(t, "failed")
    <3>1. OnlyMoves(t) /\ tasks'[t] = [tasks[t] EXCEPT !.pc = "failed"]
      BY <1>1, <2>2 DEF OnlyMoves, Goto
    <3>2. "failed" \in Place[tasks[t].op]
      BY <1>1 DEF TaskOK, Place
    <3> QED BY <1>1, <2>1, <3>1, <3>2 DEF TaskOK, Vouched, TaskFields
  <2>3. CASE PassOn(t)
    BY <1>1, <2>1, <2>3, PassOnOK
  <2> QED BY <1>2, <2>2, <2>3 DEF Rejected
<1>3. CASE tasks[t].pc # "item"
  <2>1. OnlyMoves(t) /\ tasks'[t] = IdleTask
    BY <1>1, <1>3 DEF OnlyMoves, Rejected
  <2> QED BY <2>1 DEF TaskOK, Vouched, TaskFields, IdleTask, Place
<1> QED BY <1>2, <1>3

\* Without an answer the flush returns and the operations go on offline.
LEMMA DisconnectedOK ==
    ASSUME KeptInv, NEW t \in Tasks, PostsOrder(t) \/ PostsPayment(t), Disconnected(t)
    PROVE  /\ OnlyMoves(t) /\ TaskOK(tasks[t])' /\ Vouched(tasks[t])'
           /\ tasks'[t].op = tasks[t].op /\ tasks'[t].payment = tasks[t].payment
<1>1. CASE tasks[t].pc = "item"
  BY <1>1, AfterFlushOK DEF Disconnected
<1>2. CASE tasks[t].pc # "item"
  <2>1. tasks[t].pc \in {"postOrder", "postPay"} /\ TaskOK(tasks[t])
    BY <1>2 DEF PostsOrder, PostsPayment, AtItem, KeptInv
  <2> DEFINE pc == IF tasks[t].pc = "postOrder" THEN "localOrder" ELSE "readLocal"
  <2>2. pc \in Place[tasks[t].op] /\ pc \notin {"failed", "saveItem", "complete", "saveAnswer"}
    BY <2>1 DEF TaskOK, Place
  <2> QED BY <1>2, <2>2, GotoOK DEF Disconnected
<1> QED BY <1>1, <1>2

\* The entry of the POST is one of the queue's, or the operation's own.
LEMMA SubjectOK ==
    ASSUME KeptInv, NEW t \in Tasks
    PROVE  /\ PostsOrder(t) => /\ Subject(t).order \in OrderNos
                               /\ tasks[t].pc = "item" => Head(tasks[t].left).kind = "order"
                               /\ tasks[t].pc # "item" => tasks[t].op = "create"
           /\ PostsPayment(t) => /\ Subject(t).payment \in Payments
                                 /\ tasks[t].pc = "item" => Head(tasks[t].left).kind = "payment"
                                 /\ tasks[t].pc # "item" => tasks[t].op = "pay"
<1>1. TaskOK(tasks[t])
  BY DEF KeptInv
<1>2. CASE tasks[t].pc = "item" /\ tasks[t].left # <<>>
  <2>1. Head(tasks[t].left) \in Items
    BY <1>1, <1>2 DEF TaskOK
  <2>2. Subject(t) = Head(tasks[t].left)
    BY <1>2 DEF Subject
  <2> QED BY <1>2, <2>1, <2>2 DEF PostsOrder, PostsPayment, AtItem, Items
<1>3. CASE tasks[t].pc = "item" /\ tasks[t].left = <<>>
  BY <1>3 DEF PostsOrder, PostsPayment, AtItem
<1>4. CASE tasks[t].pc = "postOrder"
  BY <1>1, <1>4 DEF PostsOrder, PostsPayment, AtItem, Subject, TaskOK, Place
<1>5. CASE tasks[t].pc = "postPay"
  BY <1>1, <1>5 DEF PostsOrder, PostsPayment, AtItem, Subject, TaskOK, Place
<1>6. CASE tasks[t].pc \notin {"item", "postOrder", "postPay"}
  BY <1>6 DEF PostsOrder, PostsPayment, AtItem
<1> QED BY <1>2, <1>3, <1>4, <1>5, <1>6

\* The server acts on the entry and forgets nothing.
LEMMA EffectOK ==
    ASSUME KeptInv, NEW t \in Tasks, Effect(t)
    PROVE  /\ ServerGrows
           /\ PostsOrder(t) \/ PostsPayment(t)
           /\ tasks[t].pc = "item" => DoneNow(Head(tasks[t].left))
           /\ tasks[t].pc # "item" =>
                 /\ tasks[t].op = "create" => tasks[t].order \in created'
                 /\ tasks[t].op = "pay" => booked'[tasks[t].payment] > 0
<1>0. KeptTypes /\ TaskOK(tasks[t])
  BY DEF KeptInv
<1>1. CASE PostsOrder(t) /\ created' = created \cup {Subject(t).order} /\ UNCHANGED booked
  <2>1. Subject(t).order \in OrderNos
    BY <1>1, SubjectOK
  <2>2. ServerGrows
    BY <1>0, <1>1, <2>1 DEF ServerGrows, KeptTypes
  <2>3. CASE tasks[t].pc = "item"
    <3>1. Subject(t) = Head(tasks[t].left) /\ Head(tasks[t].left).kind = "order"
      BY <1>1, <2>3, SubjectOK DEF Subject
    <3>2. DoneNow(Head(tasks[t].left))
      BY <1>1, <3>1, <2>3 DEF DoneNow
    <3> QED BY <1>1, <2>2, <2>3, <3>2
  <2>4. CASE tasks[t].pc # "item"
    BY <1>1, <2>2, <2>4, SubjectOK DEF Subject
  <2> QED BY <2>3, <2>4
<1>2. CASE /\ PostsPayment(t)
           /\ booked' = [booked EXCEPT ![Subject(t).payment] = @ + 1]
           /\ UNCHANGED created
  <2>1. Subject(t).payment \in Payments
    BY <1>2, SubjectOK
  <2>2. ServerGrows /\ booked'[Subject(t).payment] > 0
    BY <1>0, <1>2, <2>1 DEF ServerGrows, KeptTypes
  <2>3. CASE tasks[t].pc = "item"
    <3>1. Subject(t) = Head(tasks[t].left) /\ Head(tasks[t].left).kind = "payment"
      BY <1>2, <2>3, SubjectOK DEF Subject
    <3>2. DoneNow(Head(tasks[t].left))
      BY <2>2, <3>1, <1>2, <2>3 DEF DoneNow
    <3> QED BY <1>2, <2>2, <2>3, <3>2
  <2>4. CASE tasks[t].pc # "item"
    BY <1>2, <2>2, <2>4, SubjectOK DEF Subject
  <2> QED BY <2>3, <2>4
<1> QED BY <1>1, <1>2 DEF Effect

\* Requests, answered or not.
LEMMA RequestKeeps ==
    ASSUME KeptInv, NEW t \in Tasks, Answered(t) \/ Refused(t) \/ NotSent(t) \/ Fault(t)
    PROVE  KeptInv'
<1>0. TaskOK(tasks[t]) /\ DOMAIN tasks = Tasks
  BY DEF KeptInv, KeptTypes
<1>1. /\ UNCHANGED <<queue, tender, shown>>
      /\ current' \in OrderNos \cup {NoOrder}
  BY DEF Answered, Refused, NotSent, Fault, localVars, screenVars, KeptInv, KeptTypes
<1>2. CASE Answered(t)
  <2> DEFINE pc == IF tasks[t].pc = "item" THEN "saveItem" ELSE "saveAnswer"
             received == TotalOf(booked', Subject(t).order)
  <2>1. Effect(t)
    BY <1>2 DEF Answered
  <2>2. OnlyMoves(t) /\ tasks'[t] = [tasks[t] EXCEPT !.pc = pc, !.received = received]
    BY <1>0, <1>2 DEF OnlyMoves, Answered
  <2> HIDE DEF received
  <2>3. pc \in Place[tasks[t].op]
    BY <1>0, <2>1, EffectOK, SubjectOK DEF TaskOK, Place
  <2>4. TaskOK(tasks[t])' /\ tasks'[t].op = tasks[t].op /\ tasks'[t].payment = tasks[t].payment
    BY <1>0, <2>2, <2>3 DEF TaskOK, TaskFields
  <2>5. tasks[t].pc = "item" => tasks[t].left # <<>>
    BY <2>1, EffectOK DEF PostsOrder, PostsPayment, AtItem
  <2>6. Vouched(tasks[t])'
    BY <1>0, <2>1, <2>2, <2>5, EffectOK DEF TaskOK, TaskFields, Vouched, Done, DoneNow
  <2> QED BY <1>1, <2>1, <2>2, <2>4, <2>6, EffectOK, TaskStep
<1>3. CASE Refused(t)
  BY <1>1, <1>3, RejectedOK, LocalStep DEF Refused
<1>4. CASE NotSent(t)
  BY <1>1, <1>4, DisconnectedOK, LocalStep DEF NotSent
<1>5. CASE Fault(t)
  <2>1. PostsOrder(t) \/ PostsPayment(t)
    BY <1>5 DEF Fault
  <2>2. CASE Effect(t) /\ Disconnected(t)
    BY <1>1, <2>1, <2>2, EffectOK, DisconnectedOK, TaskStep
  <2>3. CASE Disconnected(t) /\ UNCHANGED serverVars
    BY <1>1, <2>1, <2>3, DisconnectedOK, LocalStep
  <2>4. CASE Rejected(t) /\ UNCHANGED serverVars
    BY <1>1, <2>1, <2>4, RejectedOK, LocalStep
  <2>5. CASE Effect(t) /\ Rejected(t)
    BY <1>1, <2>1, <2>5, EffectOK, RejectedOK, TaskStep
  <2> QED BY <1>5, <2>2, <2>3, <2>4, <2>5 DEF Fault
<1> QED BY <1>2, <1>3, <1>4, <1>5

-----------------------------------------------------------------------------
\* Local transactions that only write snapshots, and the reads before them.
LEMMA SnapshotKeeps ==
    ASSUME KeptInv, NEW t \in Tasks,
           SaveItem(t) \/ LocalOrder(t) \/ Lookup(t) \/ ReadLocal(t) \/ LocalPay(t)
    PROVE  KeptInv'
<1>0. TaskOK(tasks[t]) /\ Vouched(tasks[t]) /\ DOMAIN tasks = Tasks
  BY DEF KeptInv, KeptTypes
<1>1. /\ UNCHANGED <<serverVars, queue, tender, shown>>
      /\ current' \in OrderNos \cup {NoOrder}
  BY DEF SaveItem, LocalOrder, Lookup, ReadLocal, LocalPay, localVars, screenVars, KeptInv, KeptTypes
<1>2. CASE SaveItem(t)
  <2>1. OnlyMoves(t) /\ tasks'[t] = [tasks[t] EXCEPT !.pc = "complete"]
    BY <1>0, <1>2 DEF OnlyMoves, SaveItem, Goto
  <2>2. TaskOK(tasks[t])' /\ tasks'[t].op = tasks[t].op /\ tasks'[t].payment = tasks[t].payment
    BY <1>0, <1>2, <2>1 DEF SaveItem, TaskOK, TaskFields, Place
  <2>3. Vouched(tasks[t])'
    BY <1>0, <1>1, <1>2, <2>1 DEF SaveItem, TaskOK, TaskFields, Vouched, Done, serverVars
  <2> QED BY <1>1, <2>1, <2>2, <2>3, LocalStep
<1>3. CASE LocalOrder(t)
  <2>1. Goto(t, "queueOrder") /\ "queueOrder" \in Place[tasks[t].op]
    BY <1>0, <1>3 DEF LocalOrder, TaskOK, Place
  <2> QED BY <1>1, <2>1, GotoOK, LocalStep
<1>4. CASE Lookup(t)
  <2> DEFINE pc == IF RemoteKnown(tasks[t].order) THEN "postPay" ELSE "readLocal"
  <2>1. Goto(t, pc) /\ pc \in Place[tasks[t].op] /\ pc \notin {"failed", "saveItem", "complete", "saveAnswer"}
    BY <1>0, <1>4 DEF Lookup, TaskOK, Place
  <2> QED BY <1>1, <2>1, GotoOK, LocalStep
<1>5. CASE ReadLocal(t)
  <2> DEFINE received == snaps[tasks[t].order].received + tender[tasks[t].payment].amount
             state == snaps[tasks[t].order].state
  <2>1. OnlyMoves(t) /\ tasks'[t] = [tasks[t] EXCEPT !.pc = "localPay", !.received = received,
                                                     !.state = state]
    BY <1>0, <1>5 DEF OnlyMoves, ReadLocal
  <2> HIDE DEF received, state
  <2>2. /\ TaskOK(tasks[t])' /\ Vouched(tasks[t])'
        /\ tasks'[t].op = tasks[t].op /\ tasks'[t].payment = tasks[t].payment
    BY <1>0, <1>5, <2>1 DEF ReadLocal, TaskOK, TaskFields, Place, Vouched
  <2> QED BY <1>1, <2>1, <2>2, LocalStep
<1>6. CASE LocalPay(t)
  <2>1. Goto(t, "queuePay") /\ "queuePay" \in Place[tasks[t].op]
    BY <1>0, <1>6 DEF LocalPay, TaskOK, Place
  <2> QED BY <1>1, <2>1, GotoOK, LocalStep
<1> QED BY <1>2, <1>3, <1>4, <1>5, <1>6

\* Deleting an entry keeps all the others.
LEMMA WithoutOK ==
    ASSUME queue \in Seq(Items), NEW item
    PROVE  /\ Without(item) \in Seq(Items)
           /\ \A other \in ToSet(queue) : other # item => other \in ToSet(Without(item))
<1>1. CASE ~ \E n \in DOMAIN queue : queue[n] = item
  BY <1>1 DEF Without
<1>2. CASE \E n \in DOMAIN queue : queue[n] = item
  <2> DEFINE k == CHOOSE n \in DOMAIN queue : queue[n] = item
             front == SubSeq(queue, 1, k - 1)
             back == SubSeq(queue, k + 1, Len(queue))
  <2>1. k \in 1 .. Len(queue) /\ queue[k] = item
    BY <1>2
  <2>2. Without(item) = front \o back
    BY <1>2 DEF Without, RemoveAt
  <2> HIDE DEF k
  <2>3. /\ front \in Seq(Items) /\ Len(front) = k - 1
        /\ \A i \in 1 .. k - 1 : front[i] = queue[i]
    BY <2>1, SubSeqProperties
  <2>4. /\ back \in Seq(Items) /\ Len(back) = Len(queue) - k
        /\ \A i \in 1 .. Len(queue) - k : back[i] = queue[k + i]
    BY <2>1, SubSeqProperties
  <2> HIDE DEF front, back
  <2> DEFINE rest == front \o back
  <2>5. /\ rest \in Seq(Items) /\ Len(rest) = Len(front) + Len(back)
        /\ \A i \in 1 .. Len(rest) : rest[i] = IF i <= Len(front) THEN front[i]
                                                                ELSE back[i - Len(front)]
    <3>1. front \in Seq(Items) /\ back \in Seq(Items)
      BY <2>3, <2>4
    <3>2. /\ rest \in Seq(Items) /\ Len(rest) = Len(front) + Len(back)
          /\ \A i \in 1 .. Len(front) + Len(back) :
                rest[i] = IF i <= Len(front) THEN front[i] ELSE back[i - Len(front)]
      BY <3>1, ConcatProperties, Zenon
    <3> HIDE DEF rest
    <3> QED BY <3>2
  <2> HIDE DEF rest
  <2>6. Len(queue) \in Nat /\ Len(rest) = Len(queue) - 1 /\ ToSet(rest) = {rest[i] : i \in 1 .. Len(rest)}
    <3>1. Len(queue) \in Nat /\ DOMAIN rest = 1 .. Len(rest)
      BY <2>5
    <3>2. k \in 1 .. Len(queue) /\ Len(rest) = (k - 1) + (Len(queue) - k)
      BY <2>1, <2>3, <2>4, <2>5
    <3>3. Len(rest) = Len(queue) - 1
      BY <3>1, <3>2
    <3>4. ToSet(rest) = {rest[i] : i \in 1 .. Len(rest)}
      BY <3>1, Zenon DEF ToSet
    <3> QED BY <3>1, <3>3, <3>4
  <2>7. ASSUME NEW other \in ToSet(queue), other # item
        PROVE  other \in ToSet(rest)
    <3>1. PICK i \in 1 .. Len(queue) : queue[i] = other
      BY DEF ToSet
    <3>2. CASE i < k
      <4>1. i \in 1 .. Len(rest) /\ i \in 1 .. k - 1
        BY <2>1, <2>6, <3>1, <3>2
      <4>2. i <= Len(front)
        BY <2>1, <2>3, <4>1
      <4>3. rest[i] = front[i]
        BY <2>5, <4>1, <4>2
      <4>4. front[i] = other
        BY <2>3, <3>1, <4>1
      <4> QED BY <2>6, <4>1, <4>3, <4>4
    <3>3. CASE i > k
      <4>1. i - 1 \in 1 .. Len(rest) /\ i - k \in 1 .. Len(queue) - k
        BY <2>1, <2>6, <3>1, <3>3
      <4>2. rest[i - 1] = back[i - k]
        <5>1. Len(front) = k - 1 /\ ~(i - 1 <= Len(front)) /\ (i - 1) - Len(front) = i - k
          BY <2>1, <2>3, <3>1, <3>3
        <5> QED BY <2>5, <4>1, <5>1
      <4>3. back[i - k] = other
        BY <2>1, <2>4, <3>1, <4>1
      <4> QED BY <2>6, <4>1, <4>2, <4>3
    <3> QED BY <2>1, <2>7, <3>1, <3>2, <3>3
  <2> QED BY <2>2, <2>5, <2>7 DEF rest
<1> QED BY <1>1, <1>2

\* An entry is deleted only when the server has acted on it.
LEMMA CompleteKeeps ==
    ASSUME KeptInv, NEW t \in Tasks, CompleteItem(t)
    PROVE  KeptInv'
<1> DEFINE item == Head(tasks[t].left)
<1>1. TaskOK(tasks[t]) /\ KeptTypes /\ tasks[t].pc = "complete" /\ tasks[t].left # <<>> /\ Done(item)
  BY DEF KeptInv, CompleteItem, Vouched
<1>2. item \in Items
  BY <1>1 DEF TaskOK
<1>3. OnlyMoves(t)
  BY <1>1, PassOnOK DEF CompleteItem
<1>4. /\ TaskOK(tasks[t])' /\ Vouched(tasks[t])'
      /\ tasks'[t].op = tasks[t].op /\ tasks'[t].payment = tasks[t].payment
  BY <1>1, PassOnOK DEF CompleteItem
<1>5. /\ queue' \in Seq(Items)
      /\ \A other \in ToSet(queue) : other # item => other \in ToSet(queue')
  BY <1>1, WithoutOK DEF CompleteItem, KeptTypes
<1>6. UNCHANGED <<created, booked, tender, current, shown>>
  BY DEF CompleteItem, serverVars, screenVars
<1>7. KeptTypes'
  BY <1>1, <1>3, <1>5, <1>6 DEF KeptTypes, OnlyMoves
<1>8. ASSUME NEW u \in Tasks PROVE (TaskOK(tasks[u]) /\ Vouched(tasks[u]))'
  <2>1. CASE u = t
    BY <1>4, <2>1
  <2>2. CASE u # t
    <3>1. tasks'[u] = tasks[u] /\ TaskOK(tasks[u]) /\ Vouched(tasks[u])
      BY <1>3, <2>2 DEF KeptInv, OnlyMoves
    <3> QED BY <1>6, <3>1 DEF TaskOK, Vouched, Done
  <2> QED BY <2>1, <2>2
<1>9. Tendered'
  BY <1>3, <1>4, <1>6 DEF KeptInv, Tendered, OnlyMoves
<1>10. ASSUME NEW o \in OrderNos \cap shown, o \notin created PROVE OrderItem(o) \in ToSet(queue')
  <2>1. OrderItem(o) \in ToSet(queue)
    BY <1>10 DEF KeptInv, ShownIsKept, IsQueued
  <2>2. OrderItem(o) # item
    BY <1>1, <1>10 DEF Done, OrderItem
  <2> QED BY <1>5, <2>1, <2>2
<1>11. ASSUME NEW p \in Payments \cap shown, ~(booked[p] > 0) PROVE PaymentItem(p) \in ToSet(queue')
  <2>1. PaymentItem(p) \in ToSet(queue)
    BY <1>11 DEF KeptInv, ShownIsKept, IsQueued
  <2>2. PaymentItem(p) # item
    BY <1>1, <1>11 DEF Done, PaymentItem
  <2> QED BY <1>5, <2>1, <2>2
<1>12. ShownIsKept'
  BY <1>6, <1>10, <1>11 DEF ShownIsKept, IsQueued, OrderItem, PaymentItem
<1> QED BY <1>7, <1>8, <1>9, <1>12 DEF KeptInv

\* A sequence with one more entry in it.
LEMMA InsertedInto ==
    ASSUME NEW S, NEW s \in Seq(S), NEW n \in 1 .. Len(s) + 1, NEW e \in S
    PROVE  /\ InsertAt(s, n, e) \in Seq(S)
           /\ Len(InsertAt(s, n, e)) = Len(s) + 1
           /\ \A i \in 1 .. Len(s) + 1 :
                 InsertAt(s, n, e)[i] = IF i < n THEN s[i] ELSE IF i = n THEN e ELSE s[i - 1]
           /\ ToSet(InsertAt(s, n, e)) = ToSet(s) \cup {e}
<1> DEFINE front == SubSeq(s, 1, n - 1)
           back == SubSeq(s, n, Len(s))
           start == front \o <<e>>
           all == start \o back
<1>1. /\ front \in Seq(S) /\ Len(front) = n - 1
      /\ \A i \in 1 .. n - 1 : front[i] = s[i]
  BY SubSeqProperties
<1>2. /\ back \in Seq(S) /\ Len(back) = Len(s) - n + 1
      /\ \A i \in 1 .. Len(s) - n + 1 : back[i] = s[n + i - 1]
  BY SubSeqProperties
<1> HIDE DEF front, back
<1>3. /\ start \in Seq(S) /\ Len(start) = n
      /\ \A i \in 1 .. n : start[i] = IF i < n THEN s[i] ELSE e
  <2>1. <<e>> \in Seq(S) /\ Len(<<e>>) = 1 /\ <<e>>[1] = e
    OBVIOUS
  <2>2. /\ start \in Seq(S) /\ Len(start) = Len(front) + Len(<<e>>)
        /\ \A i \in 1 .. Len(front) + Len(<<e>>) :
              start[i] = IF i <= Len(front) THEN front[i] ELSE <<e>>[i - Len(front)]
    BY <1>1, <2>1, ConcatProperties, Zenon
  <2> HIDE DEF start
  <2> QED BY <1>1, <2>1, <2>2
<1> HIDE DEF start
<1>4. /\ all \in Seq(S) /\ Len(all) = Len(start) + Len(back)
      /\ \A i \in 1 .. Len(start) + Len(back) :
            all[i] = IF i <= Len(start) THEN start[i] ELSE back[i - Len(start)]
  BY <1>2, <1>3, ConcatProperties, Zenon
<1>5. InsertAt(s, n, e) = all
  BY DEF InsertAt, all, start, front, back
<1> HIDE DEF all
<1>6. Len(all) = Len(s) + 1 /\ Len(s) \in Nat
  BY <1>2, <1>3, <1>4
<1>7. ASSUME NEW i \in 1 .. Len(s) + 1
      PROVE  all[i] = IF i < n THEN s[i] ELSE IF i = n THEN e ELSE s[i - 1]
  <2>1. CASE i <= n
    BY <1>3, <1>4, <1>6, <2>1
  <2>2. CASE i > n
    <3>1. all[i] = back[i - n] /\ i - n \in 1 .. Len(s) - n + 1
      BY <1>2, <1>3, <1>4, <1>6, <2>2
    <3>2. back[i - n] = s[n + (i - n) - 1]
      BY <1>2, <3>1
    <3>3. n + (i - n) - 1 = i - 1
      OBVIOUS
    <3> QED BY <2>2, <3>1, <3>2, <3>3
  <2> QED BY <1>6, <2>1, <2>2
<1>8. ToSet(all) = {all[i] : i \in 1 .. Len(s) + 1} /\ ToSet(s) = {s[i] : i \in 1 .. Len(s)}
  <2>1. DOMAIN all = 1 .. Len(all)
    BY <1>4
  <2> QED BY <1>6, <2>1 DEF ToSet
<1>9. ASSUME NEW x \in ToSet(s) \cup {e} PROVE x \in ToSet(all)
  <2>1. CASE x = e
    BY <1>6, <1>7, <1>8, <2>1
  <2>2. CASE x \in ToSet(s)
    <3>1. PICK i \in 1 .. Len(s) : x = s[i]
      BY <1>8, <2>2
    <3>2. CASE i < n
      BY <1>6, <1>7, <1>8, <3>1, <3>2
    <3>3. CASE i >= n
      <4>1. i + 1 \in 1 .. Len(s) + 1 /\ ~(i + 1 < n) /\ i + 1 # n /\ (i + 1) - 1 = i
        BY <1>6, <3>3
      <4> QED BY <1>7, <1>8, <3>1, <4>1
    <3> QED BY <1>6, <3>2, <3>3
  <2> QED BY <2>1, <2>2
<1>10. ASSUME NEW x \in ToSet(all) PROVE x \in ToSet(s) \cup {e}
  <2>1. PICK i \in 1 .. Len(s) + 1 : x = all[i]
    BY <1>8
  <2>2. CASE i < n
    BY <1>6, <1>7, <1>8, <2>1, <2>2
  <2>3. CASE i = n
    BY <1>7, <2>1, <2>3
  <2>4. CASE i > n
    BY <1>6, <1>7, <1>8, <2>1, <2>4
  <2> QED BY <1>6, <2>2, <2>3, <2>4
<1> QED BY <1>4, <1>5, <1>6, <1>7, <1>9, <1>10

\* An entry that is put back was read from the queue; no other is lost.
LEMMA PutFailedOK ==
    ASSUME KeptInv, NEW t \in Tasks, PutFailed(t)
    PROVE  /\ tasks[t].pc = "failed" /\ tasks[t].left # <<>> /\ PassOn(t)
           /\ Head(tasks[t].left) \in Items
           /\ queue' \in Seq(Items)
           /\ ToSet(queue') = ToSet(queue) \cup {Head(tasks[t].left)}
           /\ UNCHANGED <<created, booked, tender, current, shown>>
<1>1. TaskOK(tasks[t]) /\ Vouched(tasks[t]) /\ queue \in Seq(Items)
  BY DEF KeptInv, KeptTypes
<1>2. tasks[t].pc = "failed" /\ tasks[t].left # <<>> /\ Head(tasks[t].left) \in Items
  BY <1>1 DEF PutFailed, Vouched, TaskOK
<1>3. PICK item \in Items, entries \in Seq(Items) :
          item = Head(tasks[t].left) /\ entries = queue
  BY <1>1, <1>2
<1>4. /\ queue' \in Seq(Items)
      /\ ToSet(queue') = ToSet(entries) \cup {item}
  <2>1. CASE item \in ToSet(entries) /\ queue' = entries
    BY <2>1
  <2>2. CASE \E n \in 1 .. Len(entries) + 1 : queue' = InsertAt(entries, n, item)
    BY <2>2, InsertedInto
  <2> QED BY <1>3, <2>1, <2>2 DEF PutFailed, IsQueued
<1> QED BY <1>2, <1>3, <1>4 DEF PutFailed, serverVars, screenVars

\* Putting an entry back keeps what is shown.
LEMMA PutFailedKeeps ==
    ASSUME KeptInv, NEW t \in Tasks, PutFailed(t)
    PROVE  KeptInv'
<1>1. /\ tasks[t].left # <<>> /\ PassOn(t)
      /\ queue' \in Seq(Items) /\ ToSet(queue) \subseteq ToSet(queue')
      /\ UNCHANGED <<created, booked, tender, current, shown>>
  BY PutFailedOK
<1>2. /\ OnlyMoves(t) /\ TaskOK(tasks[t])' /\ Vouched(tasks[t])'
      /\ tasks'[t].op = tasks[t].op /\ tasks'[t].payment = tasks[t].payment
  BY <1>1, PassOnOK
<1>3. KeptTypes'
  BY <1>1, <1>2 DEF KeptInv, KeptTypes, OnlyMoves
<1>4. ASSUME NEW u \in Tasks PROVE (TaskOK(tasks[u]) /\ Vouched(tasks[u]))'
  <2>1. CASE u = t
    BY <1>2, <2>1
  <2>2. CASE u # t
    <3>1. tasks'[u] = tasks[u] /\ TaskOK(tasks[u]) /\ Vouched(tasks[u])
      BY <1>2, <2>2 DEF KeptInv, OnlyMoves
    <3> QED BY <1>1, <3>1 DEF TaskOK, Vouched, Done
  <2> QED BY <2>1, <2>2
<1>5. Tendered'
  BY <1>1, <1>2 DEF KeptInv, Tendered, OnlyMoves
<1>6. ShownIsKept'
  BY <1>1 DEF KeptInv, ShownIsKept, IsQueued, OrderItem, PaymentItem
<1> QED BY <1>3, <1>4, <1>5, <1>6 DEF KeptInv

\* An entry is put back that is not there.
LEMMA InsertedOnce ==
    ASSUME NEW S, NEW s \in Seq(S), IsInjective(s), NEW n \in 1 .. Len(s) + 1, NEW e \in S,
           e \notin ToSet(s)
    PROVE  IsInjective(InsertAt(s, n, e))
<1> DEFINE more == InsertAt(s, n, e)
<1>1. /\ more \in Seq(S) /\ Len(more) = Len(s) + 1
      /\ \A i \in 1 .. Len(s) + 1 : more[i] = IF i < n THEN s[i] ELSE IF i = n THEN e ELSE s[i - 1]
  BY InsertedInto
<1> HIDE DEF more
<1>2. DOMAIN more = 1 .. Len(s) + 1 /\ Len(s) \in Nat
  BY <1>1
<1>3. \A i \in 1 .. Len(s) : s[i] # e
  BY DEF ToSet
<1>4. \A i, j \in 1 .. Len(s) : s[i] = s[j] => i = j
  BY DEF IsInjective
<1> DEFINE From(i) == IF i < n THEN i ELSE i - 1
<1>5. ASSUME NEW i \in 1 .. Len(s) + 1, i # n
      PROVE  From(i) \in 1 .. Len(s) /\ more[i] = s[From(i)] /\ more[i] # e
  <2>1. From(i) \in 1 .. Len(s)
    BY <1>2, <1>5
  <2>2. more[i] = s[From(i)]
    BY <1>1, <1>5
  <2> QED BY <1>3, <2>1, <2>2
<1>6. more[n] = e
  BY <1>1
<1>7. ASSUME NEW i \in 1 .. Len(s) + 1, NEW j \in 1 .. Len(s) + 1, more[i] = more[j]
      PROVE  i = j
  <2>1. CASE i = n \/ j = n
    BY <1>5, <1>6, <1>7, <2>1
  <2>2. CASE i # n /\ j # n
    <3>1. From(i) = From(j)
      <4> HIDE DEF From
      <4> QED BY <1>4, <1>5, <1>7, <2>2
    <3> QED BY <1>2, <2>2, <3>1
  <2> QED BY <2>1, <2>2
<1>8. IsInjective(more)
  BY <1>2, <1>7 DEF IsInjective
<1> QED BY <1>8 DEF more

-----------------------------------------------------------------------------
\* createOrder and addPayment report success once the server has acted or the
\* entry is in the queue.
LEMMA ReturnKeeps ==
    ASSUME KeptInv, NEW t \in Tasks, SaveAnswer(t) \/ Enqueue(t)
    PROVE  KeptInv'
<1> DEFINE q == tasks[t]
           item == IF q.pc = "queueOrder" THEN OrderItem(q.order) ELSE PaymentItem(q.payment)
<1>1. TaskOK(q) /\ Vouched(q) /\ KeptTypes /\ Tendered
  BY DEF KeptInv
<1>2. q.op \in {"create", "pay"} /\ q.order \in OrderNos /\ (q.op = "pay" => q.payment \in Payments)
  BY <1>1 DEF SaveAnswer, Enqueue, TaskOK, Place
<1>3. PICK received : Return(t, received)
  BY DEF SaveAnswer, Enqueue
<1>4. UNCHANGED <<created, booked, tender>>
  BY DEF SaveAnswer, Enqueue, serverVars
<1>5. OnlyMoves(t) /\ tasks'[t] = IdleTask
  BY <1>1, <1>3 DEF Return, OnlyMoves, KeptTypes
<1>6. ASSUME Enqueue(t) PROVE item \in Items /\ queue' = Append(queue, item)
  <2>1. CASE q.pc = "queueOrder"
    BY <1>2, <1>6, <2>1 DEF Enqueue, OrderItem, Items
  <2>2. CASE q.pc = "queuePay"
    <3>1. q.op = "pay"
      BY <1>1, <2>2 DEF TaskOK, Place
    <3>2. tender[q.payment].order \in OrderNos
      BY <1>1, <1>2, <3>1 DEF Tendered, KeptTypes
    <3> QED BY <1>2, <1>6, <2>2, <3>1, <3>2 DEF Enqueue, PaymentItem, Items
  <2> QED BY <1>6, <2>1, <2>2 DEF Enqueue
<1>7. /\ queue' \in Seq(Items)
      /\ \A other \in ToSet(queue) : other \in ToSet(queue')
      /\ Enqueue(t) => item \in ToSet(queue')
  <2>1. CASE SaveAnswer(t)
    <3>1. queue' = queue /\ ~Enqueue(t)
      BY <2>1 DEF SaveAnswer, Enqueue
    <3> QED BY <1>1, <3>1 DEF KeptTypes
  <2>2. CASE Enqueue(t)
    <3> HIDE DEF item
    <3>1. queue \in Seq(Items) /\ item \in Items /\ queue' = Append(queue, item)
      BY <1>1, <1>6, <2>2 DEF KeptTypes
    <3>2. /\ queue' \in Seq(Items) /\ Len(queue') = Len(queue) + 1
          /\ \A i \in 1 .. Len(queue) : queue'[i] = queue[i]
          /\ queue'[Len(queue) + 1] = item
      BY <3>1, AppendProperties
    <3>3. /\ ToSet(queue) = {queue[i] : i \in 1 .. Len(queue)}
          /\ ToSet(queue') = {queue'[i] : i \in 1 .. Len(queue')}
          /\ Len(queue) \in Nat
      BY <3>1, <3>2 DEF ToSet
    <3> QED BY <3>2, <3>3
  <2> QED BY <2>1, <2>2
<1>8. current' \in OrderNos \cup {NoOrder}
  BY <1>2, <1>3 DEF Return
<1>9. shown' = shown \cup {IF q.op = "create" THEN q.order ELSE q.payment}
  BY <1>3 DEF Return
<1>10. KeptTypes'
  BY <1>1, <1>2, <1>4, <1>5, <1>7, <1>8, <1>9 DEF KeptTypes, OnlyMoves
<1>11. ASSUME NEW u \in Tasks PROVE (TaskOK(tasks[u]) /\ Vouched(tasks[u]))'
  <2>1. CASE u = t
    <3>1. tasks'[u] = IdleTask
      BY <1>5, <2>1
    <3>2. TaskOK(tasks'[u]) /\ tasks'[u].pc = "idle"
      BY <3>1, IdleOK
    <3> QED BY <3>2 DEF TaskOK, Vouched
  <2>2. CASE u # t
    <3>1. tasks'[u] = tasks[u] /\ TaskOK(tasks[u]) /\ Vouched(tasks[u])
      BY <1>5, <2>2 DEF KeptInv, OnlyMoves
    <3> QED BY <1>4, <3>1 DEF TaskOK, Vouched, Done
  <2> QED BY <2>1, <2>2
<1>12. Tendered'
  <2>1. ASSUME NEW p \in Payments \cap shown' PROVE tender[p].order # NoOrder
    <3>1. CASE p \in shown
      BY <1>1, <3>1 DEF Tendered
    <3>2. CASE p \notin shown
      BY <1>1, <1>2, <1>9, <2>1, <3>2, ClientAssumption DEF Tendered
    <3> QED BY <3>1, <3>2
  <2> QED BY <1>1, <1>4, <1>5, <2>1 DEF Tendered, OnlyMoves, IdleTask
<1>13. ASSUME NEW o \in OrderNos \cap shown', o \notin created PROVE OrderItem(o) \in ToSet(queue')
  <2>1. CASE o \in shown
    BY <1>7, <1>13, <2>1 DEF KeptInv, ShownIsKept, IsQueued
  <2>2. CASE o \notin shown
    <3>1. q.op = "create" /\ o = q.order
      BY <1>2, <1>9, <1>13, <2>2, ClientAssumption
    <3>2. ~SaveAnswer(t)
      BY <1>1, <1>13, <3>1 DEF SaveAnswer, Vouched
    <3>3. q.pc = "queueOrder" /\ Enqueue(t)
      BY <1>1, <3>1, <3>2 DEF Enqueue, TaskOK, Place
    <3> QED BY <1>7, <3>1, <3>3
  <2> QED BY <2>1, <2>2
<1>14. ASSUME NEW p \in Payments \cap shown', ~(booked[p] > 0) PROVE PaymentItem(p) \in ToSet(queue')
  <2>1. CASE p \in shown
    BY <1>7, <1>14, <2>1 DEF KeptInv, ShownIsKept, IsQueued
  <2>2. CASE p \notin shown
    <3>1. q.op = "pay" /\ p = q.payment
      BY <1>2, <1>9, <1>14, <2>2, ClientAssumption
    <3>2. ~SaveAnswer(t)
      BY <1>1, <1>14, <3>1 DEF SaveAnswer, Vouched
    <3>3. q.pc = "queuePay" /\ Enqueue(t)
      BY <1>1, <3>1, <3>2 DEF Enqueue, TaskOK, Place
    <3> QED BY <1>7, <3>1, <3>3
  <2> QED BY <2>1, <2>2
<1>15. ShownIsKept'
  BY <1>4, <1>13, <1>14 DEF ShownIsKept, IsQueued, OrderItem, PaymentItem
<1> QED BY <1>10, <1>11, <1>12, <1>15 DEF KeptInv

\* The cashier begins an order or takes a payment.
LEMMA CashierKeeps ==
    ASSUME KeptInv, CheckoutStart \/ PayStart
    PROVE  KeptInv'
<1>0. KeptTypes /\ Tendered /\ Till \in Tasks /\ DOMAIN tasks = Tasks
  BY DEF KeptInv, KeptTypes, Tasks
<1>1. CASE CheckoutStart
  <2>1. PICK o \in OrderNos : tasks' = [tasks EXCEPT ![Till] =
              [IdleTask EXCEPT !.op = "create", !.order = o,
                               !.pc = IF online THEN "flush" ELSE "localOrder"]]
    BY <1>1 DEF CheckoutStart
  <2>2. OnlyMoves(Till) /\ TaskOK(tasks[Till])' /\ Vouched(tasks[Till])' /\ tasks'[Till].op = "create"
    BY <1>0, <2>1 DEF OnlyMoves, TaskOK, Vouched, IdleTask, TaskFields, Place
  <2> QED BY <1>0, <1>1, <2>2, LocalStep DEF CheckoutStart, localVars
<1>2. CASE PayStart
  <2>1. PICK p \in Payments, amount \in Amounts :
          /\ tender[p].order = NoOrder
          /\ tender' = [tender EXCEPT ![p] = [order |-> current, amount |-> amount]]
          /\ tasks' = [tasks EXCEPT ![Till] =
                [IdleTask EXCEPT !.op = "pay", !.order = current, !.payment = p,
                                 !.pc = IF online THEN "flush" ELSE "lookup"]]
    BY <1>2 DEF PayStart
  <2>2. current \in OrderNos /\ UNCHANGED <<created, booked, queue, current, shown>>
    BY <1>0, <1>2 DEF PayStart, KeptTypes, serverVars, localVars
  <2>3. /\ OnlyMoves(Till) /\ TaskOK(tasks[Till])' /\ Vouched(tasks[Till])'
        /\ tasks'[Till].op = "pay" /\ tasks'[Till].payment = p
    BY <1>0, <2>1, <2>2 DEF OnlyMoves, TaskOK, Vouched, IdleTask, TaskFields, Place
  <2>4. /\ DOMAIN tender' = Payments /\ tender'[p].order = current
        /\ \A r \in Payments : r # p => tender'[r] = tender[r]
    BY <1>0, <2>1 DEF KeptTypes
  <2>5. KeptTypes'
    <3>1. \A r \in Payments : tender'[r].order \in OrderNos \cup {NoOrder}
      BY <1>0, <2>2, <2>4 DEF KeptTypes
    <3> QED BY <1>0, <2>2, <2>3, <2>4, <3>1 DEF KeptTypes, OnlyMoves
  <2>6. ASSUME NEW u \in Tasks PROVE (TaskOK(tasks[u]) /\ Vouched(tasks[u]))'
    <3>1. CASE u = Till
      BY <2>3, <3>1
    <3>2. CASE u # Till
      <4>1. tasks'[u] = tasks[u] /\ TaskOK(tasks[u]) /\ Vouched(tasks[u])
        BY <2>3, <3>2 DEF KeptInv, OnlyMoves
      <4> QED BY <2>2, <4>1 DEF TaskOK, Vouched, Done
    <3> QED BY <3>1, <3>2
  <2>7. p \notin shown
    BY <1>0, <2>1 DEF Tendered
  <2>8. Tendered'
    <3>1. ASSUME NEW u \in Tasks, tasks'[u].op = "pay" PROVE tender'[tasks'[u].payment].order # NoOrder
      <4>1. CASE u = Till
        BY <2>2, <2>3, <2>4, <4>1, ClientAssumption
      <4>2. CASE u # Till
        <5>1. tasks'[u] = tasks[u] /\ TaskOK(tasks[u])
          BY <2>3, <4>2 DEF KeptInv, OnlyMoves
        <5>2. tasks[u].payment \in Payments /\ tender[tasks[u].payment].order # NoOrder
          BY <1>0, <3>1, <5>1 DEF Tendered, TaskOK
        <5> QED BY <2>1, <2>4, <5>1, <5>2
      <4> QED BY <4>1, <4>2
    <3>2. \A r \in Payments \cap shown : tender'[r].order # NoOrder
      BY <1>0, <2>4, <2>7 DEF Tendered
    <3> QED BY <2>2, <3>1, <3>2 DEF Tendered
  <2>9. ShownIsKept'
    <3>1. \A r \in Payments \cap shown : PaymentItem(r)' = PaymentItem(r)
      BY <2>4, <2>7 DEF PaymentItem
    <3> QED BY <2>2, <3>1 DEF KeptInv, ShownIsKept, IsQueued, OrderItem
  <2> QED BY <2>5, <2>6, <2>8, <2>9 DEF KeptInv
<1> QED BY <1>1, <1>2

\* The network and a kill of the app touch neither server nor database.
LEMMA EnvironmentKeeps ==
    ASSUME KeptInv, GoOnline \/ GoOffline \/ Crash
    PROVE  KeptInv'
<1>1. UNCHANGED <<created, booked, tender, queue, shown>>
  BY DEF GoOnline, GoOffline, Crash, serverVars, localVars, screenVars
<1>2. CASE UNCHANGED <<tasks, current>>
  BY <1>1, <1>2 DEF KeptInv, KeptTypes, TaskOK, Vouched, Done, Tendered, ShownIsKept,
                    IsQueued, OrderItem, PaymentItem
<1>3. CASE tasks' = [t \in Tasks |-> IdleTask] /\ current' = NoOrder
  <2>1. KeptTypes'
    BY <1>1, <1>3 DEF KeptInv, KeptTypes
  <2>2. ASSUME NEW t \in Tasks PROVE (TaskOK(tasks[t]) /\ Vouched(tasks[t]))'
    <3>1. TaskOK(tasks'[t]) /\ tasks'[t].pc = "idle"
      BY <1>3, IdleOK
    <3> QED BY <3>1 DEF TaskOK, Vouched
  <2>3. Tendered'
    BY <1>1, <1>3 DEF KeptInv, Tendered, IdleTask
  <2>4. ShownIsKept'
    BY <1>1 DEF KeptInv, ShownIsKept, IsQueued, OrderItem, PaymentItem
  <2> QED BY <2>1, <2>2, <2>3, <2>4 DEF KeptInv
<1> QED BY <1>2, <1>3 DEF GoOnline, GoOffline, Crash, screenVars

\* At the start nothing is shown, queued or tendered.
LEMMA InitKept == Init => KeptInv
<1> SUFFICES ASSUME Init PROVE KeptInv
  OBVIOUS
<1>1. KeptTypes /\ Tendered
  BY DEF Init, KeptTypes, Tendered, IdleTask
<1>2. ASSUME NEW t \in Tasks PROVE TaskOK(tasks[t]) /\ Vouched(tasks[t])
  <2>1. TaskOK(tasks[t]) /\ tasks[t].pc = "idle"
    BY IdleOK DEF Init
  <2> QED BY <2>1 DEF Vouched
<1>3. ShownIsKept
  BY DEF Init, ShownIsKept
<1> QED BY <1>1, <1>2, <1>3 DEF KeptInv

\* Every step keeps what is shown.
LEMMA NextKeeps == KeptInv /\ [Next]_vars => KeptInv'
<1> SUFFICES ASSUME KeptInv, [Next]_vars PROVE KeptInv'
  OBVIOUS
<1>1. CASE \E s \in Syncers : SyncStart(s) \/ SyncEnter(s)
  BY <1>1, SyncKeeps
<1>2. CASE CheckoutStart \/ PayStart
  BY <1>2, CashierKeeps
<1>3. ASSUME NEW t \in Tasks, Go(t) \/ Fault(t) PROVE KeptInv'
  BY <1>3, FlushKeeps, RequestKeeps, PutFailedKeeps, SnapshotKeeps, CompleteKeeps, ReturnKeeps
     DEF Go
<1>4. CASE GoOnline \/ GoOffline \/ Crash
  BY <1>4, EnvironmentKeeps
<1>5. CASE UNCHANGED vars
  BY <1>5 DEF vars, serverVars, localVars, screenVars, KeptInv, KeptTypes, TaskOK, Vouched, Done,
              Tendered, ShownIsKept, IsQueued, OrderItem, PaymentItem
<1> QED BY <1>1, <1>2, <1>3, <1>4, <1>5 DEF Next

\* What the cashier was told is done is at the server or in the queue, whatever
\* overlaps, fails or is killed (createOrder, addPayment, syncPendingQueue).
THEOREM ClientShownIsKept == Spec => []ShownIsKept
<1>1. KeptInv => ShownIsKept
  BY DEF KeptInv
<1> QED BY <1>1, InitKept, NextKeeps, PTL DEF Spec

-----------------------------------------------------------------------------
(* What is booked for an order, as a sum.                                  *)

PaymentsOf(tend, o) == {p \in Payments : tend[p].order = o}

Worth(tend, bookings, o) == [p \in PaymentsOf(tend, o) |-> bookings[p] * tend[p].amount]

TenderType == [Payments -> [order : OrderNos \cup {NoOrder}, amount : Amounts \cup {0}]]

\* TotalOf, for any tender.
TotalAt(tend, bookings, o) ==
    MapThenSumSet(LAMBDA p : bookings[p] * tend[p].amount, {p \in Payments : tend[p].order = o})

HandedIn(tend) == {p \in Payments : tend[p].order # NoOrder}

LEMMA AmountsAreNatural == Amounts \cup {0} \subseteq Nat
  BY ClientAssumption

\* The total of an order is the sum over its payments.
LEMMA TotalIsSum ==
    ASSUME NEW tend \in TenderType, IsFiniteSet(HandedIn(tend)),
           NEW bookings \in [Payments -> Nat], NEW o \in OrderNos
    PROVE  /\ Summable(Worth(tend, bookings, o))
           /\ \A p \in PaymentsOf(tend, o) : Worth(tend, bookings, o)[p] >= 0
           /\ TotalAt(tend, bookings, o) = SumOver(Worth(tend, bookings, o), PaymentsOf(tend, o))
<1> DEFINE T == PaymentsOf(tend, o)
           val == Worth(tend, bookings, o)
           Body(g) == [s \in SUBSET T |->
                          IF s = {} THEN 0
                          ELSE bookings[CHOOSE x \in s : TRUE] * tend[CHOOSE x \in s : TRUE].amount
                                   + g[s \ {CHOOSE x \in s : TRUE}]]
<1>1. Summable(val) /\ DOMAIN val = T /\ \A p \in T : val[p] >= 0
  <2>1. T \subseteq HandedIn(tend)
    BY ClientAssumption DEF PaymentsOf, HandedIn
  <2>2. \A p \in T : bookings[p] * tend[p].amount \in Nat
    <3>1. ASSUME NEW p \in T PROVE bookings[p] \in Nat /\ tend[p].amount \in Nat
      <4>1. p \in Payments
        BY DEF PaymentsOf
      <4>2. tend[p] \in [order : OrderNos \cup {NoOrder}, amount : Amounts \cup {0}]
        BY <4>1 DEF TenderType
      <4>3. tend[p].amount \in Amounts \cup {0}
        BY <4>2
      <4> QED BY <4>1, <4>3, AmountsAreNatural
    <3> QED BY <3>1
  <2>3. IsFiniteSet(T)
    BY <2>1, FS_Subset
  <2> QED BY <2>2, <2>3 DEF Summable, Worth
<1>2. ASSUME NEW g PROVE g = Body(g) <=> Sums(g, T, Anyone(T), val)
  <2> DEFINE Left(s) == IF s = {} THEN 0
                        ELSE bookings[CHOOSE x \in s : TRUE] * tend[CHOOSE x \in s : TRUE].amount
                                 + g[s \ {CHOOSE x \in s : TRUE}]
             Right(s) == IF s = {} THEN 0 ELSE val[Anyone(T)[s]] + g[s \ {Anyone(T)[s]}]
  <2>1. ASSUME NEW s \in SUBSET T PROVE Left(s) = Right(s)
    <3>1. CASE s = {}
      BY <3>1
    <3>2. CASE s # {}
      <4>1. Anyone(T)[s] = (CHOOSE x \in s : TRUE) /\ Anyone(T)[s] \in s
        BY <3>2, AnyonePicks DEF Anyone, Picks
      <4> QED BY <3>2, <4>1 DEF Worth
    <3> QED BY <3>1, <3>2
  <2> HIDE DEF Left, Right
  <2>2. [s \in SUBSET T |-> Left(s)] = [s \in SUBSET T |-> Right(s)]
    BY <2>1
  <2> QED BY <2>2 DEF Sums, Left, Right
<1>3. \E g : g = Body(g)
  <2>1. PICK g : IsSum(g, T, Anyone(T), val)
    BY <1>1, AnyonePicks, SumsExist DEF Summable
  <2>2. Sums(g, T, Anyone(T), val)
    BY <2>1 DEF IsSum
  <2>3. g = Body(g)
    BY <1>2, <2>2
  <2> HIDE DEF Body
  <2> QED BY <2>3
<1> DEFINE it == CHOOSE g : g = Body(g)
<1>4. it = Body(it)
  <2> HIDE DEF Body
  <2> QED BY <1>3, Zenon
<1>5. TotalAt(tend, bookings, o) = it[T]
  BY DEF TotalAt, MapThenSumSet, MapThenFoldSet, PaymentsOf
<1> HIDE DEF it
<1>6. IsSum(it, T, Anyone(T), val)
  <2>1. Sums(it, T, Anyone(T), val)
    BY <1>2, <1>4
  <2> QED BY <1>1, <2>1, AnyonePicks, SumsAreSums DEF Summable
<1>7. it[T] = SumOver(val, T)
  BY <1>1, <1>6, SumOverEquals
<1> QED BY <1>1, <1>5, <1>7

\* It is a natural number.
LEMMA TotalIsNatural ==
    ASSUME NEW tend \in TenderType, IsFiniteSet(HandedIn(tend)),
           NEW bookings \in [Payments -> Nat], NEW o \in OrderNos
    PROVE  TotalAt(tend, bookings, o) \in Nat
<1> DEFINE val == Worth(tend, bookings, o)
<1>1. /\ Summable(val) /\ \A p \in PaymentsOf(tend, o) : val[p] >= 0
      /\ TotalAt(tend, bookings, o) = SumOver(val, PaymentsOf(tend, o))
      /\ DOMAIN val = PaymentsOf(tend, o)
  BY TotalIsSum DEF Worth
<1> HIDE DEF val
<1> QED BY <1>1, SumOverNatural

\* It depends on what is booked of the order's own payments.
LEMMA TotalStays ==
    ASSUME NEW tend \in TenderType, IsFiniteSet(HandedIn(tend)), NEW o \in OrderNos,
           NEW bookings \in [Payments -> Nat], NEW others \in [Payments -> Nat],
           \A p \in PaymentsOf(tend, o) : bookings[p] = others[p]
    PROVE  TotalAt(tend, bookings, o) = TotalAt(tend, others, o)
<1> DEFINE val == Worth(tend, bookings, o)
           wal == Worth(tend, others, o)
           C == PaymentsOf(tend, o)
<1>1. Summable(val) /\ TotalAt(tend, bookings, o) = SumOver(val, C)
  BY TotalIsSum
<1>2. Summable(wal) /\ TotalAt(tend, others, o) = SumOver(wal, C)
  BY TotalIsSum
<1>3. DOMAIN val = C /\ DOMAIN wal = C /\ \A p \in C : val[p] = wal[p]
  BY DEF Worth
<1> HIDE DEF val, wal, C
<1> QED BY <1>1, <1>2, <1>3, SumOverSame

\* A payment that is handed over adds nothing before it is booked.
LEMMA TotalOfOneMore ==
    ASSUME NEW tend \in TenderType, IsFiniteSet(HandedIn(tend)), NEW o \in OrderNos,
           NEW more \in TenderType, IsFiniteSet(HandedIn(more)),
           NEW bookings \in [Payments -> Nat], NEW p \in Payments, bookings[p] = 0,
           tend[p].order = NoOrder, \A r \in Payments : r # p => more[r] = tend[r]
    PROVE  TotalAt(more, bookings, o) = TotalAt(tend, bookings, o)
<1> DEFINE val == Worth(tend, bookings, o)
           wal == Worth(more, bookings, o)
           C == PaymentsOf(tend, o)
           D == PaymentsOf(more, o)
<1>1. Summable(val) /\ TotalAt(tend, bookings, o) = SumOver(val, C) /\ DOMAIN val = C
  BY TotalIsSum DEF Worth
<1>2. Summable(wal) /\ TotalAt(more, bookings, o) = SumOver(wal, D) /\ DOMAIN wal = D
  BY TotalIsSum DEF Worth
<1>3. C \subseteq D /\ D \ {p} = C
  BY ClientAssumption DEF PaymentsOf
<1>4. \A r \in C : wal[r] = val[r]
  BY <1>3 DEF Worth, PaymentsOf
<1>5. p \in D => wal[p] = 0
  <2>1. more[p].amount \in Nat
    <3>1. more[p].amount \in Amounts \cup {0}
      BY DEF TenderType
    <3> QED BY <3>1, AmountsAreNatural
  <2>2. p \in D => wal[p] = bookings[p] * more[p].amount
    BY DEF Worth
  <2> QED BY <2>1, <2>2
<1> HIDE DEF val, wal, C, D
<1>6. SumOver(wal, C) = SumOver(val, C)
  BY <1>1, <1>2, <1>3, <1>4, SumOverSame
<1>7. p \in D => SumOver(wal, D) = wal[p] + SumOver(wal, D \ {p})
  BY <1>2, SumOverMember
<1>8. SumOver(wal, C) \in Int
  BY <1>2, <1>3, SumOverTyped
<1>9. p \notin D => C = D
  BY <1>3
<1> QED BY <1>1, <1>2, <1>3, <1>5, <1>6, <1>7, <1>8, <1>9

-----------------------------------------------------------------------------
(* The types, and what they rest on: entries keep the order they were made *)
(* for, orders that are worked on are in the local database, and what is   *)
(* marked as synced is known to the server.                                *)

\* The order is in the local database.
Known(o) == snaps[o] # NoSnap

Handed == {p \in Payments : tender[p].order # NoOrder}

States == {"none", "local", "synced"}

EntryOK(item) ==
    /\ item.kind = "order" => Known(item.order)
    /\ item.kind = "payment" => item.order = tender[item.payment].order

SnapsOK ==
    /\ snaps \in [OrderNos -> [state : States, received : Nat]]
    /\ \A o \in OrderNos : snaps[o].state = "synced" => o \in created

ScreenOK ==
    /\ tender \in TenderType
    /\ IsFiniteSet(Handed)
    /\ \A p \in Payments \ Handed : booked[p] = 0
    /\ current # NoOrder => Known(current)

QueueOK == IsInjective(queue) /\ \A item \in ToSet(queue) : EntryOK(item)

\* What a task has read is of its type, ...
ReadsOK(q) ==
    /\ q.received \in Nat /\ q.state \in States
    /\ \A item \in ToSet(q.left) : EntryOK(item)

\* The entries that are queued, or that a flush has read from the queue.
Entries == ToSet(queue) \cup UNION {ToSet(tasks[t].left) : t \in Tasks}

\* ... what it has still to queue is not queued yet, ...
FreshOK(q) ==
    /\ q.op = "create" => OrderItem(q.order) \notin Entries
    /\ q.op = "pay" => /\ PaymentItem(q.payment) \notin Entries
                       /\ Known(q.order)
                       /\ tender[q.payment].order = q.order

\* ... and what it has still to save as synced the server has.
PlaceOK(q) ==
    /\ q.pc = "queueOrder" => Known(q.order)
    /\ q.pc = "localPay" => /\ Snap(q.state, q.received) # NoSnap
                            /\ q.state = "synced" => q.order \in created
    /\ q.pc \in {"postPay", "saveAnswer"} => q.order \in created
    /\ q.pc \in {"saveItem", "complete"} => Head(q.left).order \in created

TaskTypes(q) == ReadsOK(q) /\ FreshOK(q) /\ PlaceOK(q)

TypesInv ==
    /\ SnapsOK /\ ScreenOK /\ QueueOK
    /\ \A s \in Syncers : tasks[s].op = "sync"
    /\ \A t \in Tasks : TaskTypes(tasks[t])

\* Nothing that an entry or a task relies on is taken back.
Grows ==
    /\ \A o \in OrderNos : Known(o) => snaps'[o] # NoSnap
    /\ created \subseteq created'
    /\ \A p \in Handed : tender'[p] = tender[p]

\* There are no entries but those there were.
Shrinks == Entries' \subseteq Entries

\* A step of one task that neither queues nor reads others.
LEMMA ShrinksBy ==
    ASSUME NEW t \in Tasks, OnlyMoves(t), ToSet(queue') \subseteq Entries,
           ToSet(tasks'[t].left) \subseteq Entries
    PROVE  Shrinks
<1>1. ASSUME NEW u \in Tasks PROVE ToSet(tasks'[u].left) \subseteq Entries
  <2>1. CASE u = t
    BY <2>1
  <2>2. CASE u # t
    BY <2>2 DEF OnlyMoves, Entries
  <2> QED BY <2>1, <2>2
<1> QED BY <1>1 DEF Shrinks, Entries

\* What is queued, and what a task has read, is among the entries.
LEMMA AmongEntries == /\ ToSet(queue) \subseteq Entries
                      /\ \A t \in Tasks : ToSet(tasks[t].left) \subseteq Entries
  BY DEF Entries

\* The empty sequence has no entries.
LEMMA NoneOfNone == ToSet(<<>>) = {}
  BY DEF ToSet

\* An entry stays in order.
LEMMA EntryStays ==
    ASSUME KeptInv, Grows, NEW item \in Items, EntryOK(item)
    PROVE  EntryOK(item)'
<1>1. CASE item.kind = "order"
  BY <1>1 DEF Grows, EntryOK, Known, Items
<1>2. CASE item.kind = "payment"
  <2>1. item.payment \in Payments /\ item.order \in OrderNos
    BY <1>2 DEF Items
  <2>2. item.payment \in Handed
    BY <1>2, <2>1, ClientAssumption DEF EntryOK, Handed
  <2> QED BY <1>2, <2>2 DEF Grows, EntryOK
<1> QED BY <1>1, <1>2 DEF Items

\* The entries of a sequence stay in order.
LEMMA EntriesStay ==
    ASSUME KeptInv, Grows, NEW entries \in Seq(Items), \A item \in ToSet(entries) : EntryOK(item)
    PROVE  \A item \in ToSet(entries) : EntryOK(item)'
<1>1. ToSet(entries) \subseteq Items
  BY DEF ToSet
<1> QED BY <1>1, EntryStays

\* What is not queued is not queued by others, ...
LEMMA FreshStays ==
    ASSUME KeptInv, Grows, Shrinks, NEW t \in Tasks, FreshOK(tasks[t]),
           tasks'[t].op = tasks[t].op, tasks'[t].order = tasks[t].order,
           tasks'[t].payment = tasks[t].payment
    PROVE  FreshOK(tasks[t])'
<1> PICK q : q = tasks[t]
  OBVIOUS
<1>1. TaskOK(q) /\ FreshOK(q)
  BY DEF KeptInv
<1>2. q.op = "create" => ~(OrderItem(q.order) \in Entries')
  BY <1>1 DEF FreshOK, Shrinks
<1>3. q.op = "pay" => tender'[q.payment] = tender[q.payment] /\ q.order \in OrderNos
  BY <1>1 DEF Grows, KeptInv, Tendered, TaskOK, Handed
<1>4. q.op = "pay" => ~(PaymentItem(q.payment)' \in Entries')
  BY <1>1, <1>3 DEF FreshOK, Shrinks, PaymentItem
<1>5. q.op = "pay" => snaps'[q.order] # NoSnap /\ tender'[q.payment].order = q.order
  BY <1>1, <1>3 DEF FreshOK, Grows
<1> QED BY <1>2, <1>4, <1>5 DEF FreshOK, OrderItem, PaymentItem, Known

\* ... so that a task that does not move keeps its types.
LEMMA TypesStay ==
    ASSUME KeptInv, Grows, Shrinks, NEW t \in Tasks, TaskTypes(tasks[t]), tasks'[t] = tasks[t]
    PROVE  TaskTypes(tasks[t])'
<1> PICK q : q = tasks[t]
  OBVIOUS
<1>1. q = tasks'[t] /\ TaskOK(q) /\ TaskTypes(q) /\ Vouched(q)
  BY DEF KeptInv
<1>2. \A item \in ToSet(q.left) : EntryOK(item)'
  BY <1>1, EntriesStay DEF TaskTypes, ReadsOK, TaskOK
<1>3. q.pc = "queueOrder" => snaps'[q.order] # NoSnap
  <2>1. q.pc = "queueOrder" => q.order \in OrderNos
    BY <1>1 DEF TaskOK, Place
  <2> QED BY <1>1, <2>1 DEF TaskTypes, PlaceOK, Grows
<1>4. PlaceOK(tasks[t])'
  BY <1>1, <1>3 DEF TaskTypes, PlaceOK, Grows, Known
<1>5. ReadsOK(tasks[t])'
  BY <1>1, <1>2 DEF TaskTypes, ReadsOK
<1> QED BY <1>1, <1>4, <1>5, FreshStays DEF TaskTypes

\* A step of one task that adds nothing to the queue.
LEMMA TypesStep ==
    ASSUME KeptInv, KeptInv', TypesInv, NEW t \in Tasks, OnlyMoves(t), Grows, Shrinks,
           IsInjective(queue'), SnapsOK', ScreenOK',
           t \in Syncers => tasks'[t].op = "sync", TaskTypes(tasks[t])'
    PROVE  TypesInv'
<1>1. ASSUME NEW u \in Tasks PROVE TaskTypes(tasks[u])'
  BY TypesStay DEF OnlyMoves, TypesInv
<1>2. \A s \in Syncers : tasks'[s].op = "sync"
  BY DEF OnlyMoves, TypesInv, Tasks
<1>3. \A item \in ToSet(queue) : EntryOK(item)'
  BY EntriesStay DEF TypesInv, QueueOK, KeptInv, KeptTypes
<1>4. ASSUME NEW u \in Tasks PROVE \A item \in ToSet(tasks[u].left) : EntryOK(item)'
  BY EntriesStay DEF TypesInv, TaskTypes, ReadsOK, KeptInv, TaskOK
<1>5. ToSet(queue') \subseteq Entries
  BY DEF Shrinks, Entries
<1>6. QueueOK'
  BY <1>3, <1>4, <1>5 DEF QueueOK, Entries
<1> QED BY <1>1, <1>2, <1>6 DEF TypesInv

\* A step of one task that changes neither the local database nor what is handed over.
LEMMA QuietTypes ==
    ASSUME KeptInv, KeptInv', TypesInv, NEW t \in Tasks, OnlyMoves(t), ServerGrows,
           UNCHANGED <<queue, tender, snaps>>, \A p \in Payments \ Handed : booked'[p] = 0,
           current' \in {current, NoOrder}, t \in Syncers => tasks'[t].op = "sync",
           ToSet(tasks'[t].left) \subseteq Entries, TaskTypes(tasks[t])'
    PROVE  TypesInv'
<1>1. Grows /\ Shrinks
  BY AmongEntries, ShrinksBy DEF Grows, ServerGrows, Known
<1>2. SnapsOK'
  BY DEF TypesInv, SnapsOK, ServerGrows
<1>3. Handed' = Handed
  BY DEF Handed
<1>4. ScreenOK'
  BY <1>3 DEF TypesInv, ScreenOK, Known
<1>5. IsInjective(queue')
  BY DEF TypesInv, QueueOK
<1> QED BY <1>1, <1>2, <1>4, <1>5, TypesStep

\* A task that is not at work relies on nothing.
LEMMA IdleTypes == ASSUME NEW q, q.op = "sync", q.pc \in {"idle", "check"}, q.left = <<>>,
                          q.received = 0, q.state = "none"
                   PROVE  TaskTypes(q) /\ TaskTypes(q)'
  BY DEF TaskTypes, ReadsOK, FreshOK, PlaceOK, States, ToSet

\* The same for a task that goes on with its operation.
LEMMA QuietMove ==
    ASSUME KeptInv, KeptInv', TypesInv, NEW t \in Tasks, OnlyMoves(t), ServerGrows,
           UNCHANGED <<queue, tender, snaps>>, \A p \in Payments \ Handed : booked'[p] = 0,
           current' \in {current, NoOrder},
           tasks'[t].op = tasks[t].op, tasks'[t].order = tasks[t].order,
           tasks'[t].payment = tasks[t].payment,
           tasks'[t].received \in Nat, tasks'[t].state \in States,
           ToSet(tasks'[t].left) \subseteq ToSet(tasks[t].left) \cup ToSet(queue),
           PlaceOK(tasks[t])'
    PROVE  TypesInv'
<1>0. ToSet(tasks'[t].left) \subseteq Entries
  BY AmongEntries
<1>1. Grows /\ Shrinks
  BY <1>0, AmongEntries, ShrinksBy DEF Grows, ServerGrows, Known
<1>2. TaskTypes(tasks[t]) /\ QueueOK /\ TaskOK(tasks[t]) /\ queue \in Seq(Items)
  BY DEF TypesInv, KeptInv, KeptTypes
<1>3. FreshOK(tasks[t])'
  BY <1>1, <1>2, FreshStays DEF TaskTypes
<1>4. \A item \in ToSet(queue) : EntryOK(item)'
  BY <1>1, <1>2, EntriesStay DEF QueueOK
<1>5. \A item \in ToSet(tasks[t].left) : EntryOK(item)'
  BY <1>1, <1>2, EntriesStay DEF TaskTypes, ReadsOK, TaskOK
<1>6. ReadsOK(tasks[t])'
  BY <1>4, <1>5 DEF ReadsOK
<1>7. t \in Syncers => tasks'[t].op = "sync"
  BY DEF TypesInv
<1> QED BY <1>0, <1>3, <1>6, <1>7, QuietTypes DEF TaskTypes

\* Payments that nobody has handed over are not booked.
LEMMA ServerStays ==
    ASSUME KeptInv, TypesInv, UNCHANGED serverVars
    PROVE  ServerGrows /\ \A p \in Payments \ Handed : booked'[p] = 0
  BY DEF ServerGrows, KeptInv, KeptTypes, serverVars, TypesInv, ScreenOK

\* The beginning of a flush by OfflineSyncService.
LEMMA SyncTypes ==
    ASSUME KeptInv, KeptInv', TypesInv, NEW s \in Syncers, SyncStart(s) \/ SyncEnter(s)
    PROVE  TypesInv'
<1>0. /\ s \in Tasks /\ DOMAIN tasks = Tasks /\ UNCHANGED <<serverVars, queue, tender, snaps, current>>
      /\ TaskTypes(tasks[s]) /\ TaskOK(tasks[s])
  BY DEF SyncStart, SyncEnter, Tasks, KeptInv, KeptTypes, localVars, screenVars, TypesInv
<1>1. CASE SyncStart(s)
  <2>1. OnlyMoves(s) /\ tasks'[s] = [IdleTask EXCEPT !.pc = "check"]
    BY <1>0, <1>1 DEF SyncStart, OnlyMoves
  <2>2. TaskTypes(tasks[s])' /\ tasks'[s].op = "sync"
    BY <2>1 DEF IdleTask, TaskTypes, ReadsOK, FreshOK, PlaceOK, States, ToSet
  <2>3. ToSet(tasks'[s].left) \subseteq Entries
    BY <2>1, NoneOfNone DEF IdleTask
  <2> QED BY <1>0, <2>1, <2>2, <2>3, ServerStays, QuietTypes
<1>2. CASE SyncEnter(s)
  <2>1. OnlyMoves(s) /\ \E pc \in {"flush", "idle"} : tasks'[s] = [tasks[s] EXCEPT !.pc = pc]
    BY <1>0, <1>2 DEF SyncEnter, Goto, OnlyMoves
  <2>2. /\ tasks'[s].op = tasks[s].op /\ tasks'[s].order = tasks[s].order
        /\ tasks'[s].payment = tasks[s].payment /\ tasks'[s].received = tasks[s].received
        /\ tasks'[s].state = tasks[s].state /\ tasks'[s].left = tasks[s].left
        /\ tasks'[s].pc \in {"flush", "idle"}
    BY <1>0, <2>1 DEF TaskOK, TaskFields
  <2>3. PlaceOK(tasks[s])'
    BY <2>2 DEF PlaceOK
  <2> QED BY <1>0, <2>1, <2>2, <2>3, ServerStays, QuietMove DEF TaskTypes, ReadsOK
<1> QED BY <1>1, <1>2

\* What a task is after a flush.
LEMMA AfterFlushFields ==
    ASSUME KeptInv, NEW t \in Tasks, tasks[t].pc \in {"flush", "item"}, AfterFlush(t)
    PROVE  /\ OnlyMoves(t)
           /\ tasks'[t].op = tasks[t].op /\ tasks'[t].order = tasks[t].order
           /\ tasks'[t].payment = tasks[t].payment /\ tasks'[t].state = tasks[t].state
           /\ tasks'[t].left = <<>> /\ tasks'[t].received = 0
           /\ tasks'[t].pc = CASE tasks[t].op = "create" -> "postOrder"
                               [] tasks[t].op = "pay" -> "lookup"
                               [] OTHER -> "idle"
<1>1. TaskOK(tasks[t]) /\ DOMAIN tasks = Tasks
  BY DEF KeptInv, KeptTypes
<1> DEFINE pc == CASE tasks[t].op = "create" -> "postOrder"
                   [] tasks[t].op = "pay" -> "lookup"
                   [] OTHER -> "idle"
<1>2. OnlyMoves(t) /\ tasks'[t] = [tasks[t] EXCEPT !.pc = pc, !.left = <<>>,
                                       !.progress = FALSE, !.received = 0]
  BY <1>1 DEF AfterFlush, OnlyMoves
<1> HIDE DEF pc
<1>3. /\ tasks'[t].op = tasks[t].op /\ tasks'[t].order = tasks[t].order
      /\ tasks'[t].payment = tasks[t].payment /\ tasks'[t].state = tasks[t].state
      /\ tasks'[t].left = <<>> /\ tasks'[t].received = 0 /\ tasks'[t].pc = pc
  BY <1>1, <1>2 DEF TaskOK, TaskFields
<1> QED BY <1>2, <1>3 DEF pc

\* A flush that returns.
LEMMA AfterFlushTypes ==
    ASSUME KeptInv, KeptInv', TypesInv, NEW t \in Tasks, tasks[t].pc \in {"flush", "item"},
           AfterFlush(t), ServerGrows, \A p \in Payments \ Handed : booked'[p] = 0,
           UNCHANGED <<queue, tender, snaps, current>>
    PROVE  TypesInv'
<1>1. tasks'[t].pc \in {"postOrder", "lookup", "idle"}
  BY AfterFlushFields
<1>2. PlaceOK(tasks[t])'
  BY <1>1 DEF PlaceOK
<1>3. ToSet(tasks'[t].left) = {}
  BY AfterFlushFields DEF ToSet
<1>4. tasks'[t].state \in States
  BY AfterFlushFields DEF TypesInv, TaskTypes, ReadsOK
<1> QED BY <1>2, <1>3, <1>4, AfterFlushFields, QuietMove

\* A task moves to pc without further ado.
LEMMA GotoFields ==
    ASSUME KeptInv, NEW t \in Tasks, NEW pc, Goto(t, pc)
    PROVE  /\ OnlyMoves(t)
           /\ tasks'[t].op = tasks[t].op /\ tasks'[t].order = tasks[t].order
           /\ tasks'[t].payment = tasks[t].payment /\ tasks'[t].state = tasks[t].state
           /\ tasks'[t].left = tasks[t].left /\ tasks'[t].received = tasks[t].received
           /\ tasks'[t].pc = pc
<1>1. TaskOK(tasks[t]) /\ DOMAIN tasks = Tasks
  BY DEF KeptInv, KeptTypes
<1>2. OnlyMoves(t) /\ tasks'[t] = [tasks[t] EXCEPT !.pc = pc]
  BY <1>1 DEF Goto, OnlyMoves
<1> QED BY <1>1, <1>2 DEF TaskOK, TaskFields

LEMMA GotoTypes ==
    ASSUME KeptInv, KeptInv', TypesInv, NEW t \in Tasks, NEW pc, Goto(t, pc),
           pc = "postPay" => tasks[t].order \in created,
           pc \notin {"queueOrder", "localPay", "saveAnswer", "saveItem", "complete"},
           ServerGrows, \A p \in Payments \ Handed : booked'[p] = 0,
           UNCHANGED <<queue, tender, snaps, current>>
    PROVE  TypesInv'
<1>1. tasks'[t].pc = pc /\ tasks'[t].order = tasks[t].order
  BY GotoFields
<1>2. PlaceOK(tasks[t])'
  BY <1>1 DEF PlaceOK, ServerGrows
<1>3. tasks[t].received \in Nat /\ tasks[t].state \in States
  BY DEF TypesInv, TaskTypes, ReadsOK
<1>4. /\ OnlyMoves(t)
      /\ tasks'[t].op = tasks[t].op /\ tasks'[t].order = tasks[t].order
      /\ tasks'[t].payment = tasks[t].payment /\ tasks'[t].state = tasks[t].state
      /\ tasks'[t].left = tasks[t].left /\ tasks'[t].received = tasks[t].received
  BY GotoFields
<1> QED BY <1>2, <1>3, <1>4, QuietMove

\* The tail of a sequence has no entries of its own.
LEMMA TailEntries ==
    ASSUME NEW S, NEW entries \in Seq(S), entries # <<>>
    PROVE  /\ ToSet(Tail(entries)) \subseteq ToSet(entries)
           /\ Head(entries) \in ToSet(entries)
<1>1. /\ Tail(entries) \in Seq(S) /\ Len(Tail(entries)) = Len(entries) - 1
      /\ \A i \in 1 .. Len(Tail(entries)) : Tail(entries)[i] = entries[i + 1]
      /\ Len(entries) \in Nat \ {0}
      /\ Head(entries) = entries[1]
  OBVIOUS
<1> DEFINE rest == Tail(entries)
<1>2. ASSUME NEW x \in ToSet(rest) PROVE x \in ToSet(entries)
  <2> HIDE DEF rest
  <2>1. PICK i \in 1 .. Len(rest) : rest[i] = x
    BY <1>1 DEF ToSet, rest
  <2>2. i + 1 \in 1 .. Len(entries) /\ entries[i + 1] = x
    BY <1>1, <2>1 DEF rest
  <2>3. i + 1 \in DOMAIN entries
    BY <2>2
  <2> QED BY <2>2, <2>3 DEF ToSet
<1>3. 1 \in DOMAIN entries
  BY <1>1
<1> QED BY <1>1, <1>2, <1>3 DEF ToSet

\* The loop of syncPendingQueue, apart from its requests.
LEMMA FlushTypes ==
    ASSUME KeptInv, KeptInv', TypesInv, NEW t \in Tasks, Flush(t) \/ EndOfItems(t) \/ SkipItem(t)
    PROVE  TypesInv'
<1>0. /\ TaskOK(tasks[t]) /\ DOMAIN tasks = Tasks /\ TaskTypes(tasks[t])
      /\ UNCHANGED <<serverVars, queue, tender, snaps, current>>
      /\ tasks[t].pc \in {"flush", "item"}
  BY DEF KeptInv, KeptTypes, TypesInv, Flush, EndOfItems, SkipItem, AtItem, localVars, screenVars
<1>1. ServerGrows /\ \A p \in Payments \ Handed : booked'[p] = 0
  BY <1>0, ServerStays
<1>2. CASE AfterFlush(t)
  BY <1>0, <1>1, <1>2, AfterFlushTypes
<1>3. CASE EndOfItems(t) /\ Goto(t, "flush")
  BY <1>0, <1>1, <1>3, GotoTypes
<1>4. CASE Flush(t) /\ tasks' = [tasks EXCEPT ![t].pc = "item", ![t].left = queue,
                                              ![t].progress = FALSE]
  <2>1. OnlyMoves(t) /\ tasks'[t] = [tasks[t] EXCEPT !.pc = "item", !.left = queue, !.progress = FALSE]
    BY <1>0, <1>4 DEF OnlyMoves
  <2>2. /\ tasks'[t].op = tasks[t].op /\ tasks'[t].order = tasks[t].order
        /\ tasks'[t].payment = tasks[t].payment /\ tasks'[t].state = tasks[t].state
        /\ tasks'[t].left = queue /\ tasks'[t].received = tasks[t].received
        /\ tasks'[t].pc = "item"
    BY <1>0, <2>1 DEF TaskOK, TaskFields
  <2>3. PlaceOK(tasks[t])'
    BY <2>2 DEF PlaceOK
  <2> QED BY <1>0, <1>1, <2>1, <2>2, <2>3, QuietMove DEF TaskTypes, ReadsOK
<1>5. CASE SkipItem(t)
  <2>1. OnlyMoves(t) /\ tasks'[t] = [tasks[t] EXCEPT !.left = Tail(@)]
    BY <1>0, <1>5 DEF OnlyMoves, SkipItem
  <2>2. tasks[t].left # <<>> /\ tasks[t].left \in Seq(Items)
    BY <1>0, <1>5 DEF SkipItem, AtItem, TaskOK
  <2>3. /\ tasks'[t].op = tasks[t].op /\ tasks'[t].order = tasks[t].order
        /\ tasks'[t].payment = tasks[t].payment /\ tasks'[t].state = tasks[t].state
        /\ tasks'[t].left = Tail(tasks[t].left) /\ tasks'[t].received = tasks[t].received
        /\ tasks'[t].pc = tasks[t].pc
    BY <1>0, <2>1 DEF TaskOK, TaskFields
  <2>4. PlaceOK(tasks[t])'
    BY <1>0, <2>3 DEF PlaceOK
  <2>5. ToSet(tasks'[t].left) \subseteq ToSet(tasks[t].left)
    BY <2>2, <2>3, TailEntries
  <2>6. tasks'[t].received \in Nat /\ tasks'[t].state \in States
    BY <1>0, <2>3 DEF TaskTypes, ReadsOK
  <2>7. ToSet(tasks'[t].left) \subseteq ToSet(tasks[t].left) \cup ToSet(queue)
    BY <2>5
  <2> QED BY <1>0, <1>1, <2>1, <2>3, <2>4, <2>6, <2>7, QuietMove
<1> QED BY <1>2, <1>3, <1>4, <1>5 DEF Flush, EndOfItems

\* The entry of a POST, and what is known of it.
LEMMA SubjectTypes ==
    ASSUME KeptInv, TypesInv, NEW t \in Tasks, PostsOrder(t) \/ PostsPayment(t)
    PROVE  /\ tasks[t].pc \in {"item", "postOrder", "postPay"}
           /\ tasks[t].pc = "item" => /\ tasks[t].left # <<>>
                                      /\ Subject(t) = Head(tasks[t].left)
                                      /\ Head(tasks[t].left) \in Items
                                      /\ EntryOK(Head(tasks[t].left))
           /\ tasks[t].pc # "item" => /\ Subject(t).order = tasks[t].order
                                      /\ Subject(t).payment = tasks[t].payment
           /\ tasks[t].pc = "postOrder" => tasks[t].op = "create"
           /\ tasks[t].pc = "postPay" => tasks[t].op = "pay"
           /\ Subject(t).order \in OrderNos
           /\ PostsPayment(t) => /\ Subject(t).payment \in Handed
                                 /\ tender[Subject(t).payment].order = Subject(t).order
                                 /\ Subject(t).order \in created
<1>0. TaskOK(tasks[t]) /\ TaskTypes(tasks[t]) /\ SnapsOK
  BY DEF KeptInv, TypesInv
<1>1. tasks[t].pc \in {"item", "postOrder", "postPay"}
  BY DEF PostsOrder, PostsPayment, AtItem
<1>2. CASE tasks[t].pc = "item"
  <2>1. tasks[t].left \in Seq(Items) /\ tasks[t].left # <<>> /\ Subject(t) = Head(tasks[t].left)
    BY <1>0, <1>2 DEF PostsOrder, PostsPayment, AtItem, TaskOK, Subject
  <2>2. Head(tasks[t].left) \in ToSet(tasks[t].left)
    BY <2>1, TailEntries
  <2>3. Head(tasks[t].left) \in Items /\ EntryOK(Head(tasks[t].left))
    BY <1>0, <2>1, <2>2 DEF TaskTypes, ReadsOK
  <2>4. Subject(t).order \in OrderNos
    BY <2>1, <2>3 DEF Items
  <2>5. ASSUME PostsPayment(t)
        PROVE  /\ Subject(t).payment \in Handed
               /\ tender[Subject(t).payment].order = Subject(t).order
               /\ Subject(t).order \in created
    <3>1. Subject(t).kind = "payment" /\ RemoteKnown(Subject(t).order)
      BY <1>2, <2>1, <2>5 DEF PostsPayment, AtItem
    <3>2. Subject(t).payment \in Payments /\ tender[Subject(t).payment].order = Subject(t).order
      BY <2>1, <2>3, <3>1 DEF Items, EntryOK
    <3>3. Subject(t).payment \in Handed
      BY <2>4, <3>2, ClientAssumption DEF Handed
    <3> QED BY <1>0, <2>4, <3>1, <3>2, <3>3 DEF SnapsOK, RemoteKnown
  <2> QED BY <1>2, <2>1, <2>3, <2>4, <2>5
<1>3. CASE tasks[t].pc # "item"
  <2>1. Subject(t).order = tasks[t].order /\ Subject(t).payment = tasks[t].payment
    BY <1>3 DEF Subject
  <2>2. /\ tasks[t].pc = "postOrder" => tasks[t].op = "create"
        /\ tasks[t].pc = "postPay" => tasks[t].op = "pay"
        /\ tasks[t].order \in OrderNos
        /\ tasks[t].op = "pay" => tasks[t].payment \in Payments
    BY <1>0, <1>1, <1>3 DEF TaskOK, Place
  <2>3. ASSUME PostsPayment(t)
        PROVE  /\ tasks[t].payment \in Handed
               /\ tender[tasks[t].payment].order = tasks[t].order
               /\ tasks[t].order \in created
    <3>1. tasks[t].pc = "postPay"
      BY <1>3, <2>3 DEF PostsPayment, AtItem
    <3>2. tender[tasks[t].payment].order = tasks[t].order /\ tasks[t].order \in created
      BY <1>0, <2>2, <3>1 DEF TaskTypes, FreshOK, PlaceOK
    <3> QED BY <2>2, <3>1, <3>2, ClientAssumption DEF Handed
  <2> QED BY <1>1, <1>3, <2>1, <2>2, <2>3
<1> QED BY <1>1, <1>2, <1>3

\* The server books only what is handed over.
LEMMA EffectTypes ==
    ASSUME KeptInv, TypesInv, NEW t \in Tasks, Effect(t)
    PROVE  /\ ServerGrows /\ \A p \in Payments \ Handed : booked'[p] = 0
           /\ PostsOrder(t) \/ PostsPayment(t)
           /\ Subject(t).order \in created'
<1>1. ServerGrows /\ (PostsOrder(t) \/ PostsPayment(t))
  BY EffectOK
<1>2. \A p \in Payments \ Handed : booked[p] = 0
  BY DEF TypesInv, ScreenOK
<1>3. booked \in [Payments -> Nat]
  BY DEF KeptInv, KeptTypes
<1>4. CASE PostsOrder(t) /\ created' = created \cup {Subject(t).order} /\ UNCHANGED booked
  BY <1>1, <1>2, <1>4
<1>5. CASE /\ PostsPayment(t)
           /\ booked' = [booked EXCEPT ![Subject(t).payment] = @ + 1]
           /\ UNCHANGED created
  <2>1. Subject(t).payment \in Handed /\ Subject(t).order \in created
    BY <1>5, SubjectTypes
  <2> QED BY <1>1, <1>2, <1>3, <1>5, <2>1
<1> QED BY <1>4, <1>5 DEF Effect

\* What a task is that passes on to its next entry.
LEMMA PassOnFields ==
    ASSUME KeptInv, NEW t \in Tasks, PassOn(t)
    PROVE  /\ OnlyMoves(t)
           /\ tasks'[t].op = tasks[t].op /\ tasks'[t].order = tasks[t].order
           /\ tasks'[t].payment = tasks[t].payment /\ tasks'[t].state = tasks[t].state
           /\ tasks'[t].received = tasks[t].received
           /\ tasks'[t].left = Tail(tasks[t].left) /\ tasks'[t].pc = "item"
<1>1. TaskOK(tasks[t]) /\ DOMAIN tasks = Tasks
  BY DEF KeptInv, KeptTypes
<1>2. OnlyMoves(t) /\ tasks'[t] = [tasks[t] EXCEPT !.pc = "item", !.left = Tail(@),
                                                   !.progress = TRUE]
  BY <1>1 DEF OnlyMoves, PassOn
<1> QED BY <1>1, <1>2 DEF TaskOK, TaskFields

\* Its types, when it neither queues nor deletes.
LEMMA PassOnTypes ==
    ASSUME KeptInv, KeptInv', TypesInv, NEW t \in Tasks, PassOn(t), tasks[t].left # <<>>,
           ServerGrows, \A p \in Payments \ Handed : booked'[p] = 0,
           UNCHANGED <<queue, tender, snaps, current>>
    PROVE  TypesInv'
<1>1. TaskTypes(tasks[t]) /\ tasks[t].left \in Seq(Items)
  BY DEF TypesInv, KeptInv, TaskOK
<1>2. /\ OnlyMoves(t)
      /\ tasks'[t].op = tasks[t].op /\ tasks'[t].order = tasks[t].order
      /\ tasks'[t].payment = tasks[t].payment /\ tasks'[t].state = tasks[t].state
      /\ tasks'[t].received = tasks[t].received
      /\ tasks'[t].left = Tail(tasks[t].left) /\ tasks'[t].pc = "item"
  BY PassOnFields
<1>3. ToSet(tasks'[t].left) \subseteq ToSet(tasks[t].left) \cup ToSet(queue)
  BY <1>1, <1>2, TailEntries
<1>4. PlaceOK(tasks[t])'
  BY <1>2 DEF PlaceOK
<1>5. tasks'[t].received \in Nat /\ tasks'[t].state \in States
  BY <1>1, <1>2 DEF TaskTypes, ReadsOK
<1> QED BY <1>2, <1>3, <1>4, <1>5, QuietMove

\* An error answer.
LEMMA RejectedTypes ==
    ASSUME KeptInv, KeptInv', TypesInv, NEW t \in Tasks, PostsOrder(t) \/ PostsPayment(t), Rejected(t),
           ServerGrows, \A p \in Payments \ Handed : booked'[p] = 0,
           UNCHANGED <<queue, tender, snaps, current>>
    PROVE  TypesInv'
<1>1. CASE tasks[t].pc = "item" /\ Goto(t, "failed")
  BY <1>1, GotoTypes
<1>2. CASE tasks[t].pc = "item" /\ PassOn(t)
  BY <1>2, SubjectTypes, PassOnTypes
<1>3. CASE tasks[t].pc # "item"
  <2>1. OnlyMoves(t) /\ tasks'[t] = IdleTask
    BY <1>3 DEF Rejected, OnlyMoves, KeptInv, KeptTypes
  <2>2. TaskTypes(tasks[t])' /\ tasks'[t].op = "sync" /\ ToSet(tasks'[t].left) = {}
    BY <2>1, NoneOfNone DEF IdleTask, TaskTypes, ReadsOK, FreshOK, PlaceOK, States
  <2> QED BY <2>1, <2>2, QuietTypes
<1> QED BY <1>1, <1>2, <1>3 DEF Rejected

LEMMA DisconnectedTypes ==
    ASSUME KeptInv, KeptInv', TypesInv, NEW t \in Tasks, PostsOrder(t) \/ PostsPayment(t), Disconnected(t),
           ServerGrows, \A p \in Payments \ Handed : booked'[p] = 0,
           UNCHANGED <<queue, tender, snaps, current>>
    PROVE  TypesInv'
<1>1. CASE tasks[t].pc = "item"
  BY <1>1, AfterFlushTypes DEF Disconnected
<1>2. CASE tasks[t].pc # "item"
  <2> DEFINE pc == IF tasks[t].pc = "postOrder" THEN "localOrder" ELSE "readLocal"
  <2>1. Goto(t, pc)
    BY <1>2 DEF Disconnected
  <2>2. pc \in {"localOrder", "readLocal"}
    OBVIOUS
  <2> HIDE DEF pc
  <2> QED BY <2>1, <2>2, GotoTypes
<1> QED BY <1>1, <1>2

\* What a task is after an answer: it has the server's total.
LEMMA AnsweredFields ==
    ASSUME KeptInv, NEW t \in Tasks, Answered(t)
    PROVE  /\ OnlyMoves(t)
           /\ tasks'[t].op = tasks[t].op /\ tasks'[t].order = tasks[t].order
           /\ tasks'[t].payment = tasks[t].payment /\ tasks'[t].state = tasks[t].state
           /\ tasks'[t].left = tasks[t].left
           /\ tasks'[t].received = TotalAt(tender, booked', Subject(t).order)
           /\ tasks'[t].pc = IF tasks[t].pc = "item" THEN "saveItem" ELSE "saveAnswer"
<1>1. TaskOK(tasks[t]) /\ DOMAIN tasks = Tasks
  BY DEF KeptInv, KeptTypes
<1> DEFINE pc == IF tasks[t].pc = "item" THEN "saveItem" ELSE "saveAnswer"
           received == TotalOf(booked', Subject(t).order)
<1>2. OnlyMoves(t) /\ tasks'[t] = [tasks[t] EXCEPT !.pc = pc, !.received = received]
  BY <1>1 DEF OnlyMoves, Answered
<1> HIDE DEF pc, received
<1>3. /\ tasks'[t].op = tasks[t].op /\ tasks'[t].order = tasks[t].order
      /\ tasks'[t].payment = tasks[t].payment /\ tasks'[t].state = tasks[t].state
      /\ tasks'[t].left = tasks[t].left
      /\ tasks'[t].received = received /\ tasks'[t].pc = pc
  BY <1>1, <1>2 DEF TaskOK, TaskFields
<1>4. received = TotalAt(tender, booked', Subject(t).order)
  BY DEF received, TotalOf, TotalAt, MapThenSumSet, MapThenFoldSet
<1> QED BY <1>2, <1>3, <1>4 DEF pc

\* Requests, answered or not.
LEMMA RequestTypes ==
    ASSUME KeptInv, KeptInv', TypesInv, NEW t \in Tasks,
           Answered(t) \/ Refused(t) \/ NotSent(t) \/ Fault(t)
    PROVE  TypesInv'
<1>1. UNCHANGED <<queue, tender, snaps, current>>
  BY DEF Answered, Refused, NotSent, Fault, localVars, screenVars
<1>2. CASE Answered(t)
  <2>1. Effect(t)
    BY <1>2 DEF Answered
  <2>2. /\ OnlyMoves(t)
        /\ tasks'[t].op = tasks[t].op /\ tasks'[t].order = tasks[t].order
        /\ tasks'[t].payment = tasks[t].payment /\ tasks'[t].state = tasks[t].state
        /\ tasks'[t].left = tasks[t].left
        /\ tasks'[t].received = TotalAt(tender, booked', Subject(t).order)
        /\ tasks'[t].pc = IF tasks[t].pc = "item" THEN "saveItem" ELSE "saveAnswer"
    BY <1>2, AnsweredFields
  <2>3. Subject(t).order \in OrderNos /\ Subject(t).order \in created'
    BY <2>1, EffectTypes, SubjectTypes
  <2>4. tasks'[t].received \in Nat
    <3>1. tender \in TenderType /\ IsFiniteSet(HandedIn(tender)) /\ booked' \in [Payments -> Nat]
      BY DEF TypesInv, ScreenOK, Handed, HandedIn, KeptInv, KeptTypes
    <3> QED BY <2>2, <2>3, <3>1, TotalIsNatural
  <2>5. tasks'[t].pc = "saveItem" => Head(tasks'[t].left).order \in created'
    BY <2>1, <2>2, <2>3, EffectTypes, SubjectTypes
  <2>6. tasks'[t].pc = "saveAnswer" => tasks'[t].order \in created'
    BY <2>1, <2>2, <2>3, EffectTypes, SubjectTypes
  <2>7. PlaceOK(tasks[t])'
    BY <2>2, <2>5, <2>6 DEF PlaceOK
  <2>8. tasks'[t].state \in States
    BY <2>2 DEF TypesInv, TaskTypes, ReadsOK
  <2> QED BY <1>1, <2>1, <2>2, <2>4, <2>7, <2>8, EffectTypes, QuietMove
<1>3. CASE Refused(t)
  BY <1>1, <1>3, ServerStays, RejectedTypes DEF Refused
<1>4. CASE NotSent(t)
  BY <1>1, <1>4, ServerStays, DisconnectedTypes DEF NotSent
<1>5. CASE Fault(t)
  <2>1. PostsOrder(t) \/ PostsPayment(t)
    BY <1>5 DEF Fault
  <2>2. CASE Effect(t) /\ Disconnected(t)
    BY <1>1, <2>1, <2>2, EffectTypes, DisconnectedTypes
  <2>3. CASE Disconnected(t) /\ UNCHANGED serverVars
    BY <1>1, <2>1, <2>3, ServerStays, DisconnectedTypes
  <2>4. CASE Rejected(t) /\ UNCHANGED serverVars
    BY <1>1, <2>1, <2>4, ServerStays, RejectedTypes
  <2>5. CASE Effect(t) /\ Rejected(t)
    BY <1>1, <2>1, <2>5, EffectTypes, RejectedTypes
  <2> QED BY <1>5, <2>2, <2>3, <2>4, <2>5 DEF Fault
<1> QED BY <1>2, <1>3, <1>4, <1>5

\* A snapshot is written, of an order that the server has if it is marked as synced.
LEMMA SnapWritten ==
    ASSUME KeptInv, TypesInv, NEW o \in OrderNos, NEW snap \in [state : States, received : Nat],
           snap # NoSnap, snap.state = "synced" => o \in created,
           snaps' = [snaps EXCEPT ![o] = snap], UNCHANGED <<serverVars, tender>>
    PROVE  Grows /\ SnapsOK' /\ snaps'[o] # NoSnap
<1>1. snaps \in [OrderNos -> [state : States, received : Nat]]
  BY DEF TypesInv, SnapsOK
<1>2. snaps'[o] = snap /\ \A x \in OrderNos : x # o => snaps'[x] = snaps[x]
  BY <1>1
<1>3. snaps' \in [OrderNos -> [state : States, received : Nat]]
  BY <1>1
<1>4. Grows
  BY <1>2 DEF Grows, Known, serverVars
<1>5. SnapsOK'
  BY <1>2, <1>3 DEF TypesInv, SnapsOK, serverVars
<1> QED BY <1>2, <1>4, <1>5

\* Local transactions that only write snapshots, and the reads before them.
LEMMA SnapshotTypes ==
    ASSUME KeptInv, KeptInv', TypesInv, NEW t \in Tasks,
           SaveItem(t) \/ LocalOrder(t) \/ Lookup(t) \/ ReadLocal(t) \/ LocalPay(t)
    PROVE  TypesInv'
<1>0. /\ TaskOK(tasks[t]) /\ Vouched(tasks[t]) /\ TaskTypes(tasks[t]) /\ DOMAIN tasks = Tasks
      /\ SnapsOK /\ ScreenOK
  BY DEF KeptInv, KeptTypes, TypesInv
<1>1. UNCHANGED <<serverVars, queue, tender, current>>
  BY DEF SaveItem, LocalOrder, Lookup, ReadLocal, LocalPay, localVars, screenVars
<1>2. ServerGrows /\ \A p \in Payments \ Handed : booked'[p] = 0
  BY <1>1, ServerStays
<1>3. ASSUME NEW o \in OrderNos, NEW snap \in [state : States, received : Nat], NEW pc,
             snap # NoSnap, snap.state = "synced" => o \in created,
             snaps' = [snaps EXCEPT ![o] = snap], Goto(t, pc), PlaceOK(tasks[t])'
      PROVE  TypesInv'
  <2>1. Grows /\ SnapsOK' /\ snaps'[o] # NoSnap
    BY <1>1, <1>3, SnapWritten
  <2>3. /\ OnlyMoves(t)
        /\ tasks'[t].op = tasks[t].op /\ tasks'[t].order = tasks[t].order
        /\ tasks'[t].payment = tasks[t].payment /\ tasks'[t].state = tasks[t].state
        /\ tasks'[t].left = tasks[t].left /\ tasks'[t].received = tasks[t].received
    BY <1>3, GotoFields
  <2>2. Shrinks /\ IsInjective(queue')
    BY <1>1, <2>3, AmongEntries, ShrinksBy DEF TypesInv, QueueOK
  <2>4. FreshOK(tasks[t])'
    BY <1>0, <2>1, <2>2, <2>3, FreshStays DEF TaskTypes
  <2>5. \A item \in ToSet(tasks[t].left) : EntryOK(item)'
    BY <1>0, <2>1, EntriesStay DEF TaskTypes, ReadsOK, TaskOK
  <2>6. ReadsOK(tasks[t])'
    BY <1>0, <2>3, <2>5 DEF TaskTypes, ReadsOK
  <2>7. current' # NoOrder => current \in OrderNos /\ Known(current)
    BY <1>0, <1>1 DEF ScreenOK, KeptInv, KeptTypes
  <2>8. ScreenOK'
    <3>1. Handed' = Handed
      BY <1>1 DEF Handed
    <3> QED BY <1>0, <1>1, <1>2, <2>1, <2>7, <3>1 DEF ScreenOK, Known, Grows
  <2>9. t \in Syncers => tasks'[t].op = "sync"
    BY <2>3 DEF TypesInv
  <2> QED BY <1>3, <2>1, <2>2, <2>3, <2>4, <2>6, <2>8, <2>9, TypesStep DEF TaskTypes
<1>4. CASE SaveItem(t)
  <2>1. tasks[t].pc = "saveItem" /\ tasks[t].left # <<>> /\ tasks[t].left \in Seq(Items)
    BY <1>0, <1>4 DEF SaveItem, Vouched, TaskOK
  <2>2. Head(tasks[t].left).order \in OrderNos
    BY <2>1, TailEntries DEF Items
  <2>3. Head(tasks[t].left).order \in created
    BY <1>0, <2>1 DEF TaskTypes, PlaceOK
  <2> DEFINE snap == Snap("synced", tasks[t].received)
  <2>4. snap \in [state : States, received : Nat] /\ snap # NoSnap
    BY <1>0 DEF TaskTypes, ReadsOK, Snap, NoSnap, States
  <2>5. Goto(t, "complete") /\ snaps' = [snaps EXCEPT ![Head(tasks[t].left).order] = snap]
    BY <1>4 DEF SaveItem
  <2>6. PlaceOK(tasks[t])'
    BY <1>1, <2>3, <2>5, GotoFields DEF PlaceOK, serverVars
  <2> HIDE DEF snap
  <2> QED BY <1>3, <2>2, <2>3, <2>4, <2>5, <2>6
<1>5. CASE LocalOrder(t)
  <2>1. tasks[t].order \in OrderNos /\ Goto(t, "queueOrder")
    BY <1>0, <1>5 DEF LocalOrder, TaskOK, Place
  <2> DEFINE snap == Snap("local", 0)
  <2>2. snap \in [state : States, received : Nat] /\ snap # NoSnap /\ snap.state # "synced"
    BY DEF Snap, NoSnap, States
  <2>3. snaps' = [snaps EXCEPT ![tasks[t].order] = snap]
    BY <1>5 DEF LocalOrder
  <2> HIDE DEF snap
  <2>4. snaps'[tasks[t].order] # NoSnap
    BY <1>1, <2>1, <2>2, <2>3, SnapWritten
  <2>5. PlaceOK(tasks[t])'
    BY <2>1, <2>4, GotoFields DEF PlaceOK, Known
  <2> QED BY <1>3, <2>1, <2>2, <2>3, <2>5
<1>6. CASE LocalPay(t)
  <2>1. tasks[t].pc = "localPay" /\ tasks[t].order \in OrderNos /\ Goto(t, "queuePay")
    BY <1>0, <1>6 DEF LocalPay, TaskOK, Place
  <2> DEFINE snap == Snap(tasks[t].state, tasks[t].received)
  <2>2. /\ snap \in [state : States, received : Nat]
        /\ snap # NoSnap /\ (snap.state = "synced" => tasks[t].order \in created)
    BY <1>0, <2>1 DEF TaskTypes, ReadsOK, PlaceOK, Snap
  <2>3. snaps' = [snaps EXCEPT ![tasks[t].order] = snap]
    BY <1>6 DEF LocalPay
  <2> HIDE DEF snap
  <2>4. PlaceOK(tasks[t])'
    BY <2>1, GotoFields DEF PlaceOK
  <2> QED BY <1>3, <2>1, <2>2, <2>3, <2>4
<1>7. CASE Lookup(t)
  <2> DEFINE pc == IF RemoteKnown(tasks[t].order) THEN "postPay" ELSE "readLocal"
  <2>1. Goto(t, pc) /\ tasks[t].order \in OrderNos /\ snaps' = snaps
    BY <1>0, <1>7 DEF Lookup, TaskOK, Place, localVars
  <2>2. pc = "postPay" => tasks[t].order \in created
    BY <1>0, <2>1 DEF RemoteKnown, SnapsOK
  <2>3. pc \in {"postPay", "readLocal"}
    OBVIOUS
  <2> HIDE DEF pc
  <2> QED BY <1>1, <1>2, <2>1, <2>2, <2>3, GotoTypes
<1>8. CASE ReadLocal(t)
  <2> DEFINE received == snaps[tasks[t].order].received + tender[tasks[t].payment].amount
             state == snaps[tasks[t].order].state
  <2>1. /\ OnlyMoves(t) /\ snaps' = snaps
        /\ tasks'[t] = [tasks[t] EXCEPT !.pc = "localPay", !.received = received, !.state = state]
    BY <1>0, <1>8 DEF OnlyMoves, ReadLocal, localVars
  <2>2. tasks[t].op = "pay" /\ tasks[t].order \in OrderNos /\ tasks[t].payment \in Payments
    <3>1. tasks[t].pc = "readLocal"
      BY <1>8 DEF ReadLocal
    <3>2. tasks[t].op = "pay"
      BY <1>0, <3>1 DEF TaskOK, Place
    <3> QED BY <1>0, <3>2 DEF TaskOK
  <2>3. Known(tasks[t].order)
    BY <1>0, <2>2 DEF TaskTypes, FreshOK
  <2>4. snaps[tasks[t].order] \in [state : States, received : Nat]
    BY <1>0, <2>2 DEF SnapsOK
  <2>5. tender[tasks[t].payment].amount \in Nat
    <3>1. tender[tasks[t].payment].amount \in Amounts \cup {0}
      BY <1>0, <2>2 DEF ScreenOK, TenderType
    <3> QED BY <3>1, AmountsAreNatural
  <2>6. received \in Nat /\ state \in States
    BY <2>4, <2>5
  <2>7. Snap(state, received) # NoSnap
    <3>1. snaps[tasks[t].order] # NoSnap
      BY <2>3 DEF Known
    <3>2. CASE state = "none"
      <4>1. snaps[tasks[t].order].received # 0
        BY <2>4, <3>1, <3>2 DEF NoSnap
      <4>2. received # 0
        BY <2>4, <2>5, <4>1
      <4> HIDE DEF received, state
      <4> QED BY <4>2 DEF Snap, NoSnap
    <3>3. CASE state # "none"
      <4> HIDE DEF received, state
      <4> QED BY <3>3 DEF Snap, NoSnap
    <3> QED BY <3>2, <3>3
  <2>8. state = "synced" => tasks[t].order \in created
    BY <1>0, <2>2 DEF SnapsOK
  <2> HIDE DEF received, state
  <2>9. /\ tasks'[t].op = tasks[t].op /\ tasks'[t].order = tasks[t].order
        /\ tasks'[t].payment = tasks[t].payment /\ tasks'[t].state = state
        /\ tasks'[t].left = tasks[t].left /\ tasks'[t].received = received
        /\ tasks'[t].pc = "localPay"
    BY <1>0, <2>1 DEF TaskOK, TaskFields
  <2>10. PlaceOK(tasks[t])'
    BY <1>1, <2>7, <2>8, <2>9 DEF PlaceOK, serverVars
  <2> QED BY <1>1, <1>2, <2>1, <2>6, <2>9, <2>10, QuietMove
<1> QED BY <1>4, <1>5, <1>6, <1>7, <1>8

\* Deleting an entry deletes all there is of it, and adds nothing.
LEMMA WithoutInjective ==
    ASSUME queue \in Seq(Items), IsInjective(queue), NEW item
    PROVE  /\ IsInjective(Without(item))
           /\ ToSet(Without(item)) = ToSet(queue) \ {item}
<1>1. CASE ~ \E n \in DOMAIN queue : queue[n] = item
  BY <1>1 DEF Without, ToSet
<1>2. CASE \E n \in DOMAIN queue : queue[n] = item
  <2> DEFINE k == CHOOSE n \in DOMAIN queue : queue[n] = item
             front == SubSeq(queue, 1, k - 1)
             back == SubSeq(queue, k + 1, Len(queue))
             rest == front \o back
  <2>1. k \in 1 .. Len(queue) /\ queue[k] = item /\ Len(queue) \in Nat
    BY <1>2
  <2>2. Without(item) = rest
    BY <1>2 DEF Without, RemoveAt
  <2> HIDE DEF k
  <2>3. /\ front \in Seq(Items) /\ Len(front) = k - 1
        /\ \A i \in 1 .. k - 1 : front[i] = queue[i]
    BY <2>1, SubSeqProperties
  <2>4. /\ back \in Seq(Items) /\ Len(back) = Len(queue) - k
        /\ \A i \in 1 .. Len(queue) - k : back[i] = queue[k + i]
    BY <2>1, SubSeqProperties
  <2> HIDE DEF front, back
  <2>5. /\ rest \in Seq(Items) /\ Len(rest) = Len(front) + Len(back)
        /\ \A i \in 1 .. Len(front) + Len(back) :
              rest[i] = IF i <= Len(front) THEN front[i] ELSE back[i - Len(front)]
    BY <2>3, <2>4, ConcatProperties, Zenon
  <2> HIDE DEF rest
  <2>6. DOMAIN rest = 1 .. Len(queue) - 1
    BY <2>1, <2>3, <2>4, <2>5
  <2>7. ASSUME NEW i \in 1 .. Len(queue) - 1
        PROVE  rest[i] = queue[IF i < k THEN i ELSE i + 1]
    <3>1. i \in 1 .. Len(front) + Len(back)
      BY <2>1, <2>3, <2>4
    <3>2. CASE i < k
      <4>1. i <= Len(front) /\ i \in 1 .. k - 1
        BY <2>1, <2>3, <3>2
      <4> QED BY <2>3, <2>5, <3>1, <3>2, <4>1
    <3>3. CASE ~(i < k)
      <4>1. /\ ~(i <= Len(front)) /\ i - Len(front) \in 1 .. Len(queue) - k
            /\ k + (i - Len(front)) = i + 1
        <5>1. Len(front) = k - 1 /\ k \in Nat /\ i \in Nat /\ k <= i /\ i <= Len(queue) - 1
          BY <2>1, <2>3, <3>3
        <5> QED BY <2>1, <5>1
      <4>2. rest[i] = back[i - Len(front)]
        BY <2>5, <3>1, <4>1
      <4>3. back[i - Len(front)] = queue[k + (i - Len(front))]
        BY <2>4, <4>1
      <4> QED BY <3>3, <4>1, <4>2, <4>3
    <3> QED BY <3>2, <3>3
  <2> DEFINE at(i) == IF i < k THEN i ELSE i + 1
  <2>8. \A i \in 1 .. Len(queue) - 1 : at(i) \in 1 .. Len(queue) /\ at(i) # k /\ rest[i] = queue[at(i)]
    BY <2>1, <2>7
  <2>9. \A i, j \in 1 .. Len(queue) - 1 : at(i) = at(j) => i = j
    BY <2>1
  <2>10. \A n \in 1 .. Len(queue) : n # k => \E i \in 1 .. Len(queue) - 1 : at(i) = n
    <3>1. ASSUME NEW n \in 1 .. Len(queue), n # k PROVE \E i \in 1 .. Len(queue) - 1 : at(i) = n
      <4>1. CASE n < k
        <5>1. n \in 1 .. Len(queue) - 1 /\ at(n) = n
          BY <2>1, <4>1
        <5> QED BY <5>1
      <4>2. CASE ~(n < k)
        <5>1. n - 1 \in 1 .. Len(queue) - 1 /\ at(n - 1) = n
          BY <2>1, <3>1, <4>2
        <5> QED BY <5>1
      <4> QED BY <4>1, <4>2
    <3> QED BY <3>1
  <2> HIDE DEF at
  <2>11. \A i, j \in 1 .. Len(queue) : queue[i] = queue[j] => i = j
    BY <2>1 DEF IsInjective
  <2>12. IsInjective(rest)
    BY <2>6, <2>8, <2>9, <2>11 DEF IsInjective
  <2>13. ToSet(rest) \subseteq ToSet(queue) \ {item}
    BY <2>1, <2>6, <2>8, <2>11 DEF ToSet
  <2>14. ToSet(queue) \ {item} \subseteq ToSet(rest)
    <3>1. ASSUME NEW x \in ToSet(queue), x # item PROVE x \in ToSet(rest)
      <4>1. PICK n \in 1 .. Len(queue) : queue[n] = x
        BY DEF ToSet
      <4>2. n # k
        BY <2>1, <3>1, <4>1
      <4>3. PICK i \in 1 .. Len(queue) - 1 : at(i) = n
        BY <2>10, <4>2
      <4>4. rest[i] = x /\ i \in DOMAIN rest
        BY <2>6, <2>8, <4>1, <4>3
      <4> QED BY <4>4 DEF ToSet
    <3> QED BY <3>1
  <2> QED BY <2>2, <2>12, <2>13, <2>14
<1> QED BY <1>1, <1>2

\* An entry is deleted, and the flush goes on with the next.
LEMMA CompleteTypes ==
    ASSUME KeptInv, KeptInv', TypesInv, NEW t \in Tasks, CompleteItem(t)
    PROVE  TypesInv'
<1>0. /\ TaskOK(tasks[t]) /\ Vouched(tasks[t]) /\ TaskTypes(tasks[t]) /\ DOMAIN tasks = Tasks
      /\ tasks[t].pc = "complete" /\ queue \in Seq(Items)
      /\ UNCHANGED <<created, booked, tender, snaps, current>>
  BY DEF KeptInv, KeptTypes, TypesInv, CompleteItem, serverVars, screenVars
<1>1. tasks[t].left # <<>> /\ tasks[t].left \in Seq(Items)
  BY <1>0 DEF Vouched, TaskOK
<1>2. OnlyMoves(t) /\ PassOn(t)
  BY PassOnFields DEF CompleteItem
<1>3. /\ tasks'[t].op = tasks[t].op /\ tasks'[t].order = tasks[t].order
      /\ tasks'[t].payment = tasks[t].payment /\ tasks'[t].state = tasks[t].state
      /\ tasks'[t].left = Tail(tasks[t].left) /\ tasks'[t].received = tasks[t].received
      /\ tasks'[t].pc = "item"
  BY <1>2, PassOnFields
<1>4. Grows /\ SnapsOK' /\ ScreenOK'
  <2>1. Handed' = Handed
    BY <1>0 DEF Handed
  <2> QED BY <1>0, <2>1 DEF Grows, TypesInv, SnapsOK, ScreenOK, Known
<1>5. Shrinks /\ IsInjective(queue')
  <2>1. queue' = Without(Head(tasks[t].left)) /\ IsInjective(queue)
    BY DEF CompleteItem, TypesInv, QueueOK
  <2>2. IsInjective(queue') /\ ToSet(queue') \subseteq ToSet(queue)
    BY <1>0, <2>1, WithoutInjective
  <2>3. ToSet(tasks'[t].left) \subseteq ToSet(tasks[t].left)
    BY <1>1, <1>3, TailEntries
  <2> QED BY <1>2, <2>2, <2>3, AmongEntries, ShrinksBy
<1>6. FreshOK(tasks[t])'
  BY <1>0, <1>3, <1>4, <1>5, FreshStays DEF TaskTypes
<1>7. \A item \in ToSet(tasks[t].left) : EntryOK(item)'
  BY <1>0, <1>1, <1>4, EntriesStay DEF TaskTypes, ReadsOK
<1>8. ToSet(Tail(tasks[t].left)) \subseteq ToSet(tasks[t].left)
  BY <1>1, TailEntries
<1>9. ReadsOK(tasks[t])'
  BY <1>0, <1>3, <1>7, <1>8 DEF TaskTypes, ReadsOK
<1>10. PlaceOK(tasks[t])'
  BY <1>3 DEF PlaceOK
<1>11. t \in Syncers => tasks'[t].op = "sync"
  BY <1>3 DEF TypesInv
<1> QED BY <1>2, <1>4, <1>5, <1>6, <1>9, <1>10, <1>11, TypesStep DEF TaskTypes

\* An entry is appended that is not there.
LEMMA AppendedOnce ==
    ASSUME NEW S, NEW entries \in Seq(S), IsInjective(entries), NEW item \in S,
           item \notin ToSet(entries)
    PROVE  /\ IsInjective(Append(entries, item))
           /\ ToSet(Append(entries, item)) = ToSet(entries) \cup {item}
<1> DEFINE more == Append(entries, item)
<1>1. /\ DOMAIN more = 1 .. Len(entries) + 1 /\ DOMAIN entries = 1 .. Len(entries)
      /\ \A i \in 1 .. Len(entries) : more[i] = entries[i]
      /\ more[Len(entries) + 1] = item /\ Len(entries) \in Nat
  <2>1. /\ more \in Seq(S) /\ Len(more) = Len(entries) + 1
        /\ \A i \in 1 .. Len(entries) : more[i] = entries[i]
        /\ more[Len(entries) + 1] = item
    BY AppendProperties
  <2> HIDE DEF more
  <2> QED BY <2>1
<1> HIDE DEF more
<1>2. \A i \in 1 .. Len(entries) : more[i] # item
  BY <1>1 DEF ToSet
<1>3. ASSUME NEW i \in DOMAIN more, NEW j \in DOMAIN more, more[i] = more[j] PROVE i = j
  <2>1. CASE i \in 1 .. Len(entries) /\ j \in 1 .. Len(entries)
    BY <1>1, <1>3, <2>1 DEF IsInjective
  <2>2. CASE i \notin 1 .. Len(entries) \/ j \notin 1 .. Len(entries)
    BY <1>1, <1>2, <1>3, <2>2
  <2> QED BY <2>1, <2>2
<1>4. ToSet(more) \subseteq ToSet(entries) \cup {item}
  <2>1. ASSUME NEW i \in DOMAIN more PROVE more[i] \in ToSet(entries) \cup {item}
    <3>1. CASE i \in 1 .. Len(entries)
      BY <1>1, <3>1 DEF ToSet
    <3>2. CASE i = Len(entries) + 1
      BY <1>1, <3>2
    <3> QED BY <1>1, <3>1, <3>2
  <2> QED BY <2>1 DEF ToSet
<1>5. ToSet(entries) \cup {item} \subseteq ToSet(more)
  <2>1. ASSUME NEW i \in DOMAIN entries PROVE entries[i] \in ToSet(more)
    <3>1. i \in DOMAIN more /\ more[i] = entries[i]
      BY <1>1
    <3> QED BY <3>1 DEF ToSet
  <2>2. item \in ToSet(more)
    <3>1. Len(entries) + 1 \in DOMAIN more
      BY <1>1
    <3> QED BY <1>1, <3>1 DEF ToSet
  <2> QED BY <2>1, <2>2 DEF ToSet
<1> QED BY <1>3, <1>4, <1>5 DEF IsInjective, more

\* createOrder and addPayment report success.
LEMMA ReturnTypes ==
    ASSUME KeptInv, KeptInv', TypesInv, NEW t \in Tasks, SaveAnswer(t) \/ Enqueue(t)
    PROVE  TypesInv'
<1> DEFINE q == tasks[t]
           item == IF q.pc = "queueOrder" THEN OrderItem(q.order) ELSE PaymentItem(q.payment)
<1>1. /\ TaskOK(q) /\ TaskTypes(q) /\ DOMAIN tasks = Tasks /\ queue \in Seq(Items)
      /\ SnapsOK /\ ScreenOK /\ QueueOK
  BY DEF KeptInv, KeptTypes, TypesInv
<1>2. q.op \in {"create", "pay"} /\ q.order \in OrderNos /\ (q.op = "pay" => q.payment \in Payments)
  BY <1>1 DEF SaveAnswer, Enqueue, TaskOK, Place
<1>3. PICK received : Return(t, received)
  BY DEF SaveAnswer, Enqueue
<1>4. UNCHANGED <<created, booked, tender>>
  BY DEF SaveAnswer, Enqueue, serverVars
<1>5. OnlyMoves(t) /\ tasks'[t] = IdleTask /\ current' \in {NoOrder, q.order}
  BY <1>1, <1>3 DEF Return, OnlyMoves
<1>6. TaskTypes(tasks[t])' /\ tasks'[t].op = "sync"
  BY <1>5 DEF IdleTask, TaskTypes, ReadsOK, FreshOK, PlaceOK, States, ToSet
<1>7. Handed' = Handed
  BY <1>4 DEF Handed
<1>8. CASE SaveAnswer(t)
  <2> DEFINE snap == Snap("synced", q.received)
  <2>1. snap \in [state : States, received : Nat] /\ snap # NoSnap
    BY <1>1 DEF TaskTypes, ReadsOK, Snap, NoSnap, States
  <2>2. q.order \in created /\ snaps' = [snaps EXCEPT ![q.order] = snap] /\ queue' = queue
    BY <1>1, <1>8 DEF TaskTypes, PlaceOK, SaveAnswer
  <2> HIDE DEF snap
  <2>3. Grows /\ SnapsOK' /\ snaps'[q.order] # NoSnap
    BY <1>2, <1>4, <2>1, <2>2, SnapWritten DEF serverVars
  <2>4. ScreenOK'
    BY <1>1, <1>4, <1>5, <1>7, <2>3 DEF ScreenOK, Known
  <2>5. Shrinks /\ IsInjective(queue')
    BY <1>1, <1>5, <2>2, NoneOfNone, AmongEntries, ShrinksBy DEF QueueOK, IdleTask
  <2> QED BY <1>5, <1>6, <2>3, <2>4, <2>5, TypesStep
<1>9. CASE Enqueue(t)
  <2>1. snaps' = snaps /\ queue' = Append(queue, item) /\ q.pc \in {"queueOrder", "queuePay"}
    BY <1>9 DEF Enqueue
  <2>2. /\ q.pc = "queueOrder" => q.op = "create"
        /\ q.pc = "queuePay" => q.op = "pay"
    BY <1>1 DEF TaskOK, Place
  <2>3. item \in Items /\ item \notin ToSet(queue) /\ EntryOK(item) /\ Known(q.order)
    <3>1. CASE q.pc = "queueOrder"
      <4>1. item = OrderItem(q.order)
        BY <3>1
      <4>2. OrderItem(q.order) \in Items /\ ~IsQueued(OrderItem(q.order)) /\ Known(q.order)
        <5>1. OrderItem(q.order) \notin Entries /\ Known(q.order)
          BY <1>1, <2>2, <3>1 DEF TaskTypes, FreshOK, PlaceOK
        <5>2. OrderItem(q.order) \in Items
          BY <1>2 DEF OrderItem, Items
        <5> QED BY <5>1, <5>2, AmongEntries DEF IsQueued
      <4> HIDE DEF item
      <4> QED BY <4>1, <4>2 DEF IsQueued, EntryOK, OrderItem
    <3>2. CASE q.pc = "queuePay"
      <4>1. item = PaymentItem(q.payment)
        BY <3>2
      <4>2. /\ ~IsQueued(PaymentItem(q.payment)) /\ Known(q.order) /\ q.payment \in Payments
            /\ tender[q.payment].order = q.order
        BY <1>1, <1>2, <2>2, <3>2, AmongEntries DEF TaskTypes, FreshOK, IsQueued
      <4>3. PaymentItem(q.payment) \in Items
        BY <1>2, <4>2 DEF PaymentItem, Items
      <4> HIDE DEF item
      <4> QED BY <4>1, <4>2, <4>3 DEF IsQueued, EntryOK, PaymentItem
    <3> QED BY <2>1, <3>1, <3>2
  <2> HIDE DEF item
  <2> PICK entry : entry = item
    OBVIOUS
  <2>4. IsInjective(queue') /\ ToSet(queue') = ToSet(queue) \cup {entry}
    <3>1. entry \in Items /\ entry \notin ToSet(queue) /\ IsInjective(queue) /\ queue \in Seq(Items)
      BY <1>1, <2>3 DEF QueueOK
    <3> QED BY <2>1, <3>1, AppendedOnce
  <2>5. Grows
    BY <1>4, <2>1 DEF Grows, Known
  <2>6. SnapsOK' /\ ScreenOK'
    BY <1>1, <1>4, <1>5, <1>7, <2>1, <2>3 DEF SnapsOK, ScreenOK, Known
  <2>7. QueueOK'
    <3>1. \A other \in ToSet(queue) : EntryOK(other)'
      BY <1>1, <2>5, EntriesStay DEF QueueOK
    <3>2. EntryOK(entry)'
      BY <2>3, <2>5, EntryStays
    <3> QED BY <2>4, <3>1, <3>2 DEF QueueOK
  <2>8. t \notin Syncers
    BY <1>2 DEF TypesInv
  <2>9. \A s \in Syncers : tasks'[s].op = "sync" /\ tasks'[s] = tasks[s]
    BY <1>5, <2>8 DEF OnlyMoves, Tasks, TypesInv
  <2>10. ASSUME NEW u \in Tasks PROVE TaskTypes(tasks[u])'
    <3>1. CASE u = t
      BY <1>6, <3>1
    <3>2. CASE u # t
      <4>1. u \in Syncers
        <5>1. t = Till
          BY <2>8 DEF Tasks
        <5> QED BY <3>2, <5>1 DEF Tasks
      <4>2. tasks'[u] = tasks[u] /\ tasks[u].op = "sync" /\ TaskTypes(tasks[u]) /\ TaskOK(tasks[u])
        BY <2>9, <4>1 DEF TypesInv, KeptInv
      <4>3. \A other \in ToSet(tasks[u].left) : EntryOK(other)'
        BY <2>5, <4>2, EntriesStay DEF TaskTypes, ReadsOK, TaskOK
      <4>4. ReadsOK(tasks[u])'
        BY <4>2, <4>3 DEF TaskTypes, ReadsOK
      <4>5. FreshOK(tasks[u])'
        BY <4>2 DEF FreshOK
      <4>6. PlaceOK(tasks[u])'
        BY <1>4, <2>1, <4>2 DEF TaskTypes, PlaceOK, Known
      <4> QED BY <4>4, <4>5, <4>6 DEF TaskTypes
    <3> QED BY <3>1, <3>2
  <2> QED BY <2>6, <2>7, <2>9, <2>10 DEF TypesInv
<1> QED BY <1>8, <1>9

\* All entries are in order.
LEMMA EntriesOK ==
    ASSUME KeptInv, TypesInv, NEW item \in Entries
    PROVE  item \in Items /\ EntryOK(item)
<1>1. CASE item \in ToSet(queue)
  BY <1>1 DEF KeptInv, KeptTypes, TypesInv, QueueOK, ToSet
<1>2. CASE \E t \in Tasks : item \in ToSet(tasks[t].left)
  <2>1. PICK t \in Tasks : item \in ToSet(tasks[t].left)
    BY <1>2
  <2>2. tasks[t].left \in Seq(Items) /\ \A other \in ToSet(tasks[t].left) : EntryOK(other)
    BY DEF KeptInv, TaskOK, TypesInv, TaskTypes, ReadsOK
  <2> QED BY <2>1, <2>2 DEF ToSet
<1> QED BY <1>1, <1>2 DEF Entries

\* An entry that is put back is there once, and is one that was read from the queue.
LEMMA PutFailedTypes ==
    ASSUME KeptInv, KeptInv', TypesInv, NEW t \in Tasks, PutFailed(t)
    PROVE  TypesInv'
<1>0. /\ tasks[t].left # <<>> /\ PassOn(t) /\ Head(tasks[t].left) \in Items
      /\ ToSet(queue') = ToSet(queue) \cup {Head(tasks[t].left)}
      /\ UNCHANGED <<created, booked, tender, current>>
  BY PutFailedOK
<1>1. tasks[t].left \in Seq(Items) /\ TaskTypes(tasks[t]) /\ queue \in Seq(Items)
  BY DEF KeptInv, KeptTypes, TaskOK, TypesInv
<1>2. snaps' = snaps
  BY DEF PutFailed
<1>3. /\ OnlyMoves(t)
      /\ tasks'[t].op = tasks[t].op /\ tasks'[t].order = tasks[t].order
      /\ tasks'[t].payment = tasks[t].payment /\ tasks'[t].state = tasks[t].state
      /\ tasks'[t].left = Tail(tasks[t].left) /\ tasks'[t].received = tasks[t].received
      /\ tasks'[t].pc = "item"
  BY <1>0, PassOnFields
<1>4. Grows /\ SnapsOK' /\ ScreenOK'
  <2>1. Handed' = Handed
    BY <1>0 DEF Handed
  <2> QED BY <1>0, <1>2, <2>1 DEF Grows, TypesInv, SnapsOK, ScreenOK, Known
<1>5. /\ ToSet(Tail(tasks[t].left)) \subseteq ToSet(tasks[t].left)
      /\ Head(tasks[t].left) \in ToSet(tasks[t].left)
  BY <1>0, <1>1, TailEntries
<1>6. Shrinks
  BY <1>0, <1>3, <1>5, AmongEntries, ShrinksBy
<1>7. IsInjective(queue')
  <2>1. PICK item \in Items, entries \in Seq(Items) :
            item = Head(tasks[t].left) /\ entries = queue
    BY <1>0, <1>1
  <2>2. IsInjective(entries)
    BY <2>1 DEF TypesInv, QueueOK
  <2>3. CASE queue' = entries
    BY <2>2, <2>3
  <2>4. CASE /\ item \notin ToSet(entries)
             /\ \E n \in 1 .. Len(entries) + 1 : queue' = InsertAt(entries, n, item)
    BY <2>2, <2>4, InsertedOnce
  <2> QED BY <2>1, <2>3, <2>4 DEF PutFailed, IsQueued
<1>8. FreshOK(tasks[t])'
  BY <1>1, <1>3, <1>4, <1>6, FreshStays DEF TaskTypes
<1>9. \A item \in ToSet(tasks[t].left) : EntryOK(item)'
  BY <1>1, <1>4, EntriesStay DEF TaskTypes, ReadsOK
<1>10. ReadsOK(tasks[t])'
  BY <1>1, <1>3, <1>5, <1>9 DEF TaskTypes, ReadsOK
<1>11. PlaceOK(tasks[t])'
  BY <1>3 DEF PlaceOK
<1>12. t \in Syncers => tasks'[t].op = "sync"
  BY <1>3 DEF TypesInv
<1> QED BY <1>3, <1>4, <1>6, <1>7, <1>8, <1>10, <1>11, <1>12, TypesStep DEF TaskTypes

\* The cashier begins an order or takes a payment.
LEMMA CashierTypes ==
    ASSUME KeptInv, KeptInv', TypesInv, CheckoutStart \/ PayStart
    PROVE  TypesInv'
<1>0. /\ Till \in Tasks /\ Till \notin Syncers /\ DOMAIN tasks = Tasks /\ queue \in Seq(Items)
      /\ SnapsOK /\ ScreenOK /\ QueueOK
      /\ UNCHANGED <<serverVars, queue, snaps>>
  BY ClientAssumption DEF KeptInv, KeptTypes, TypesInv, Tasks, CheckoutStart, PayStart, localVars
<1>1. ServerGrows /\ \A p \in Payments \ Handed : booked'[p] = 0
  BY <1>0, ServerStays
<1>2. CASE CheckoutStart
  <2>1. PICK o \in OrderNos :
          /\ snaps[o] = NoSnap
          /\ tasks' = [tasks EXCEPT ![Till] =
                [IdleTask EXCEPT !.op = "create", !.order = o,
                                 !.pc = IF online THEN "flush" ELSE "localOrder"]]
    BY <1>2 DEF CheckoutStart
  <2>2. /\ OnlyMoves(Till)
        /\ tasks'[Till].op = "create" /\ tasks'[Till].order = o /\ tasks'[Till].left = <<>>
        /\ tasks'[Till].received = 0 /\ tasks'[Till].state = "none"
        /\ tasks'[Till].pc \in {"flush", "localOrder"}
    BY <1>0, <2>1 DEF OnlyMoves, IdleTask
  <2>3. OrderItem(o) \notin Entries
    <3>1. ~EntryOK(OrderItem(o))
      BY <2>1 DEF EntryOK, OrderItem, Known
    <3> QED BY <3>1, EntriesOK
  <2>4. ToSet(tasks'[Till].left) = {}
    BY <2>2, NoneOfNone
  <2>5. Shrinks
    BY <1>0, <2>2, <2>4, AmongEntries, ShrinksBy
  <2>6. ~(OrderItem(o) \in Entries')
    BY <2>3, <2>5 DEF Shrinks
  <2>7. TaskTypes(tasks[Till])'
    BY <1>0, <2>2, <2>4, <2>6 DEF TaskTypes, ReadsOK, FreshOK, PlaceOK, States, OrderItem
  <2> QED BY <1>0, <1>1, <1>2, <2>2, <2>4, <2>7, QuietTypes DEF CheckoutStart
<1>3. CASE PayStart
  <2>1. PICK p \in Payments, amount \in Amounts :
          /\ tender[p].order = NoOrder
          /\ tender' = [tender EXCEPT ![p] = [order |-> current, amount |-> amount]]
          /\ tasks' = [tasks EXCEPT ![Till] =
                [IdleTask EXCEPT !.op = "pay", !.order = current, !.payment = p,
                                 !.pc = IF online THEN "flush" ELSE "lookup"]]
    BY <1>3 DEF PayStart
  <2>2. current \in OrderNos /\ current' = current /\ Known(current)
    BY <1>0, <1>3 DEF PayStart, KeptInv, KeptTypes, ScreenOK
  <2>3. /\ OnlyMoves(Till)
        /\ tasks'[Till].op = "pay" /\ tasks'[Till].order = current /\ tasks'[Till].payment = p
        /\ tasks'[Till].left = <<>> /\ tasks'[Till].received = 0 /\ tasks'[Till].state = "none"
        /\ tasks'[Till].pc \in {"flush", "lookup"}
    BY <1>0, <2>1 DEF OnlyMoves, IdleTask
  <2>4. tender \in TenderType
    BY <1>0 DEF ScreenOK
  <2>5. /\ tender' \in TenderType /\ tender'[p].order = current
        /\ \A r \in Payments : r # p => tender'[r] = tender[r]
    BY <2>1, <2>2, <2>4 DEF TenderType
  <2>6. Handed' = Handed \cup {p} /\ p \notin Handed
    BY <2>1, <2>2, <2>5, ClientAssumption DEF Handed
  <2>7. Grows /\ Shrinks /\ IsInjective(queue')
    <3>1. Shrinks
      BY <1>0, <2>3, NoneOfNone, AmongEntries, ShrinksBy
    <3> QED BY <1>0, <2>5, <2>6, <3>1 DEF Grows, serverVars, Known, QueueOK, Handed
  <2>8. ScreenOK'
    <3>1. IsFiniteSet(Handed')
      BY <1>0, <2>6, FS_AddElement DEF ScreenOK
    <3>2. \A r \in Payments \ Handed' : booked'[r] = 0
      BY <1>1, <2>6
    <3> QED BY <1>0, <2>2, <2>5, <3>1, <3>2 DEF ScreenOK, Known
  <2>9. SnapsOK'
    BY <1>0 DEF SnapsOK, serverVars
  <2>10. ~(PaymentItem(p)' \in Entries')
    <3>1. ASSUME NEW item \in Entries, item.kind = "payment", item.payment = p PROVE FALSE
      <4>1. item \in Items /\ EntryOK(item)
        BY EntriesOK
      <4>2. item.order = NoOrder /\ item.order \in OrderNos
        BY <2>1, <3>1, <4>1 DEF EntryOK, Items
      <4> QED BY <4>2, ClientAssumption
    <3>2. PaymentItem(p)'.kind = "payment" /\ PaymentItem(p)'.payment = p
      BY DEF PaymentItem
    <3> QED BY <2>7, <3>1, <3>2 DEF Shrinks
  <2>11. TaskTypes(tasks[Till])'
    <3>1. FreshOK(tasks[Till])'
      <4>1. PaymentItem(tasks[Till].payment)' = PaymentItem(p)'
        BY <2>3 DEF PaymentItem
      <4> QED BY <1>0, <2>2, <2>3, <2>5, <2>10, <4>1 DEF FreshOK, Known
    <3>2. ReadsOK(tasks[Till])' /\ PlaceOK(tasks[Till])'
      BY <2>3 DEF ReadsOK, PlaceOK, States, ToSet
    <3> QED BY <3>1, <3>2 DEF TaskTypes
  <2> QED BY <1>0, <2>3, <2>7, <2>8, <2>9, <2>11, TypesStep
<1> QED BY <1>2, <1>3

\* The network and a kill of the app.
LEMMA EnvironmentTypes ==
    ASSUME KeptInv, KeptInv', TypesInv, GoOnline \/ GoOffline \/ Crash \/ UNCHANGED vars
    PROVE  TypesInv'
<1>1. UNCHANGED <<created, booked, tender, queue, snaps>>
  BY DEF GoOnline, GoOffline, Crash, vars, serverVars, localVars, screenVars
<1>2. Handed' = Handed
  BY <1>1 DEF Handed
<1>3. CASE UNCHANGED <<tasks, current>>
  <2>1. ASSUME NEW t \in Tasks PROVE TaskTypes(tasks[t])'
    <3>1. Grows /\ Shrinks
      BY <1>1, <1>3 DEF Grows, Shrinks, Entries, Known
    <3> QED BY <1>3, <3>1, TypesStay DEF TypesInv
  <2>2. \A item \in ToSet(queue) : EntryOK(item)'
    BY <1>1 DEF TypesInv, QueueOK, EntryOK, Known
  <2> QED BY <1>1, <1>2, <1>3, <2>1, <2>2 DEF TypesInv, SnapsOK, ScreenOK, QueueOK, Known
<1>4. CASE tasks' = [t \in Tasks |-> IdleTask] /\ current' = NoOrder
  <2>1. ASSUME NEW t \in Tasks PROVE TaskTypes(tasks[t])' /\ tasks'[t].op = "sync"
    <3>1. tasks'[t] = IdleTask
      BY <1>4
    <3> QED BY <3>1 DEF IdleTask, TaskTypes, ReadsOK, FreshOK, PlaceOK, States, ToSet
  <2>2. \A item \in ToSet(queue) : EntryOK(item)'
    BY <1>1 DEF TypesInv, QueueOK, EntryOK, Known
  <2>3. \A s \in Syncers : tasks'[s].op = "sync"
    BY <2>1 DEF Tasks
  <2> QED BY <1>1, <1>2, <1>4, <2>1, <2>2, <2>3 DEF TypesInv, SnapsOK, ScreenOK, QueueOK, Known
<1> QED BY <1>3, <1>4 DEF GoOnline, GoOffline, Crash, screenVars, vars

\* At the start there is nothing yet.
LEMMA InitTypes == Init => TypesInv
<1> SUFFICES ASSUME Init PROVE TypesInv
  OBVIOUS
<1>1. Handed = {} /\ IsFiniteSet({})
  BY FS_EmptySet DEF Init, Handed
<1>2. SnapsOK
  BY DEF Init, SnapsOK, NoSnap, States
<1>3. tender \in TenderType
  BY DEF Init, TenderType
<1>4. ScreenOK
  BY <1>1, <1>3 DEF Init, ScreenOK
<1>5. QueueOK
  BY DEF Init, QueueOK, IsInjective, ToSet
<1>6. ASSUME NEW t \in Tasks PROVE TaskTypes(tasks[t]) /\ tasks[t].op = "sync"
  <2>1. tasks[t] = IdleTask
    BY DEF Init
  <2> QED BY <2>1 DEF IdleTask, TaskTypes, ReadsOK, FreshOK, PlaceOK, States, ToSet
<1> QED BY <1>2, <1>4, <1>5, <1>6 DEF TypesInv, Tasks

\* Every step keeps the types.
LEMMA NextTypes == KeptInv /\ KeptInv' /\ TypesInv /\ [Next]_vars => TypesInv'
<1> SUFFICES ASSUME KeptInv, KeptInv', TypesInv, [Next]_vars PROVE TypesInv'
  OBVIOUS
<1>1. CASE \E s \in Syncers : SyncStart(s) \/ SyncEnter(s)
  BY <1>1, SyncTypes
<1>2. CASE CheckoutStart \/ PayStart
  BY <1>2, CashierTypes
<1>3. ASSUME NEW t \in Tasks, Go(t) \/ Fault(t) PROVE TypesInv'
  BY <1>3, FlushTypes, RequestTypes, PutFailedTypes, SnapshotTypes, CompleteTypes, ReturnTypes
     DEF Go
<1>4. CASE GoOnline \/ GoOffline \/ Crash \/ UNCHANGED vars
  BY <1>4, EnvironmentTypes
<1> QED BY <1>1, <1>2, <1>3, <1>4 DEF Next

\* What the types consist of.
LEMMA TypesImplied == KeptInv /\ TypesInv => ClientTypeOK
<1> SUFFICES ASSUME KeptInv, TypesInv PROVE ClientTypeOK
  OBVIOUS
<1>1. /\ created \subseteq OrderNos /\ booked \in [Payments -> Nat] /\ queue \in Seq(Items)
      /\ IsInjective(queue) /\ (\A s \in Syncers : tasks[s].op = "sync")
      /\ (current # NoOrder => snaps[current] # NoSnap)
  BY DEF KeptInv, KeptTypes, TypesInv, QueueOK, ScreenOK, Known
<1>2. tender \in [Payments -> [order : OrderNos \cup {NoOrder}, amount : Amounts \cup {0}]]
  BY DEF TypesInv, ScreenOK, TenderType
<1>3. snaps \in [OrderNos -> [state : {"none", "local", "synced"}, received : Nat]]
  BY DEF TypesInv, SnapsOK, States
<1>4. ASSUME NEW n \in DOMAIN queue, queue[n].kind = "payment"
      PROVE  queue[n].order = tender[queue[n].payment].order
  <2>1. queue[n] \in ToSet(queue)
    BY DEF ToSet
  <2> QED BY <1>4, <2>1 DEF TypesInv, QueueOK, EntryOK
<1>5. ASSUME NEW t \in Tasks PROVE tasks[t].pc \in PCs /\ tasks[t].left \in Seq(Items)
  <2>1. TaskOK(tasks[t])
    BY DEF KeptInv
  <2> QED BY <2>1 DEF TaskOK, Place, PCs
<1> QED BY <1>1, <1>2, <1>3, <1>4, <1>5 DEF ClientTypeOK

\* The queue never holds an entry twice, an order on screen is in the local database, and
\* a payment is queued under the order it was handed over for, whatever overlaps, fails or
\* is killed (OrderService, OfflineSyncService).
THEOREM ClientTypes == Spec => []ClientTypeOK
<1>1. KeptInv /\ TypesInv /\ [Next]_vars => (KeptInv /\ TypesInv)'
  BY NextKeeps, NextTypes
<1> QED BY <1>1, InitKept, InitTypes, TypesImplied, PTL DEF Spec

-----------------------------------------------------------------------------
(* One task at a time.  A payment is at risk of being booked again while   *)
(* it waits in the queue, unless a flush has the answer for it in hand,    *)
(* and while the till is about to queue it.  What has been booked too      *)
(* often, and what may be because of an answer that was lost, is paid for  *)
(* by a fault or a kill.                                                   *)

Pays(item, p) == item.kind = "payment" /\ item.payment = p

\* A flush has the server's answer for the payment.
Sends(q, p) == q.pc \in {"saveItem", "complete"} /\ Pays(Head(q.left), p)

\* The till goes on to queue the payment.
Holds(q, p) == q.op = "pay" /\ q.payment = p /\ q.pc \in {"readLocal", "localPay", "queuePay"}

AtRisk(entries, q, p) ==
    \/ (\E item \in ToSet(entries) : Pays(item, p)) /\ ~Sends(q, p)
    \/ Holds(q, p)

CostOf(n, risk) == IF n = 0 THEN 0 ELSE n - 1 + (IF risk THEN 1 ELSE 0)

Costs(q) == [p \in Handed |-> CostOf(booked[p], AtRisk(queue, q, p))]

\* What is left of a flush is in the queue, once.
LeftQueued(q) ==
    q.pc \in {"item", "failed", "saveItem", "complete"} =>
        IsInjective(q.left) /\ ToSet(q.left) \subseteq ToSet(queue)

\* Before the till sends a payment, no one has.
Unsent(q) ==
    (q.op = "pay" /\ q.pc \in {"flush", "item", "failed", "saveItem", "complete", "lookup",
                               "postPay"}) => booked[q.payment] = 0

OthersIdle(t) == \A u \in Tasks : u # t => tasks[u].pc = "idle"

\* t is the task at work, if there is one.
SoloAt(t) ==
    /\ OthersIdle(t)
    /\ LeftQueued(tasks[t]) /\ Unsent(tasks[t])
    /\ SumOver(Costs(tasks[t]), Handed) <= faults + crashes

SoloInv ==
    /\ faults \in Nat /\ crashes \in Nat
    /\ world.exclusive => \E t \in Tasks : SoloAt(t)

\* What a payment costs is a natural number.
LEMMA CostsAreNatural ==
    ASSUME KeptInv, TypesInv, NEW q
    PROVE  /\ Summable(Costs(q)) /\ DOMAIN Costs(q) = Handed
           /\ \A p \in Handed : Costs(q)[p] = CostOf(booked[p], AtRisk(queue, q, p))
           /\ \A p \in Handed : Costs(q)[p] >= 0
<1>1. IsFiniteSet(Handed) /\ Handed \subseteq Payments /\ booked \in [Payments -> Nat]
  BY DEF TypesInv, ScreenOK, KeptInv, KeptTypes, Handed
<1>2. ASSUME NEW n \in Nat, NEW risk PROVE CostOf(n, risk) \in Nat
  BY DEF CostOf
<1>3. \A p \in Handed : CostOf(booked[p], AtRisk(queue, q, p)) \in Nat
  BY <1>1, <1>2
<1>4. DOMAIN Costs(q) = Handed
  BY DEF Costs
<1>5. \A p \in Handed : Costs(q)[p] = CostOf(booked[p], AtRisk(queue, q, p))
  BY DEF Costs
<1>6. Costs(q) \in [Handed -> Int]
  BY <1>3 DEF Costs
<1>7. \A p \in Handed : Costs(q)[p] \in Nat
  BY <1>3, <1>5
<1>8. \A p \in Handed : Costs(q)[p] >= 0
  BY <1>7
<1> QED BY <1>1, <1>4, <1>5, <1>6, <1>8 DEF Summable

\* The same after a step.
LEMMA CostsAreNaturalNow ==
    ASSUME KeptInv', TypesInv', NEW t \in Tasks
    PROVE  LET D == Handed'
               c == [p \in D |-> CostOf(booked'[p], AtRisk(queue', tasks'[t], p))]
           IN  /\ Summable(c) /\ DOMAIN c = D
               /\ \A p \in D : c[p] \in Nat
               /\ Costs(tasks[t])' = c
<1> DEFINE D == Handed'
           c == [p \in D |-> CostOf(booked'[p], AtRisk(queue', tasks'[t], p))]
<1>1. IsFiniteSet(D) /\ D \subseteq Payments /\ booked' \in [Payments -> Nat]
  BY DEF TypesInv, ScreenOK, KeptInv, KeptTypes, Handed
<1>2. ASSUME NEW n \in Nat, NEW risk PROVE CostOf(n, risk) \in Nat
  BY DEF CostOf
<1>3. Costs(tasks[t])' = c
  BY DEF Costs
<1> HIDE DEF D
<1>4. \A p \in D : CostOf(booked'[p], AtRisk(queue', tasks'[t], p)) \in Nat
  BY <1>1, <1>2
<1>5. Summable(c)
  BY <1>1, <1>4 DEF Summable
<1> QED BY <1>3, <1>4, <1>5 DEF D

\* Where tasks take turns, the one at work is the only one, and a task may only begin
\* when none is.
LEMMA SoloOf ==
    ASSUME SoloInv, world.exclusive, NEW t \in Tasks, tasks[t].pc # "idle"
    PROVE  SoloAt(t)
<1>1. PICK u \in Tasks : SoloAt(u)
  BY DEF SoloInv
<1>2. t = u
  BY <1>1 DEF SoloAt, OthersIdle
<1> QED BY <1>1, <1>2

LEMMA SoloOfIdle ==
    ASSUME KeptInv, TypesInv, SoloInv, world.exclusive, NEW t \in Tasks, MayStart(t)
    PROVE  SoloAt(t)
<1>1. PICK u \in Tasks : SoloAt(u)
  BY DEF SoloInv
<1>2. \A v \in Tasks : tasks[v].pc = "idle"
  BY DEF MayStart
<1>3. \A p \in Handed : AtRisk(queue, tasks[t], p) <=> AtRisk(queue, tasks[u], p)
  BY <1>2 DEF AtRisk, Sends, Holds
<1>4. Costs(tasks[t]) = Costs(tasks[u])
  BY <1>3 DEF Costs, CostOf
<1> QED BY <1>1, <1>2, <1>4 DEF SoloAt, OthersIdle, LeftQueued, Unsent

\* A step of the task at work after which at most one payment costs more.
LEMMA SoloStep ==
    ASSUME KeptInv, KeptInv', TypesInv, TypesInv', NEW t \in Tasks, SoloAt(t), OthersIdle(t)',
           UNCHANGED tender, SoloInv, NEW one, NEW k \in {0, 1},
           faults' + crashes' >= faults + crashes + k, faults' \in Nat, crashes' \in Nat,
           \A p \in Handed :
               p # one => /\ booked'[p] = booked[p]
                          /\ booked[p] > 0 /\ AtRisk(queue', tasks'[t], p)
                                 => AtRisk(queue, tasks[t], p),
           one \in Handed => CostOf(booked'[one], AtRisk(queue', tasks'[t], one))
                                 <= CostOf(booked[one], AtRisk(queue, tasks[t], one)) + k,
           LeftQueued(tasks[t])', Unsent(tasks[t])'
    PROVE  SoloAt(t)'
<1> DEFINE c == Costs(tasks[t])
           d == [p \in Handed |-> CostOf(booked'[p], AtRisk(queue', tasks'[t], p))]
<1>1. Handed' = Handed
  BY DEF Handed
<1>2. /\ Summable(c) /\ DOMAIN c = Handed
      /\ \A p \in Handed : c[p] = CostOf(booked[p], AtRisk(queue, tasks[t], p)) /\ c[p] >= 0
  BY CostsAreNatural
<1>3. Summable(d) /\ DOMAIN d = Handed /\ Costs(tasks[t])' = d
  BY <1>1, CostsAreNaturalNow
<1>4. ASSUME NEW p \in Handed PROVE d[p] <= c[p] + IF p = one THEN k ELSE 0
  <2>1. d[p] = CostOf(booked'[p], AtRisk(queue', tasks'[t], p))
    OBVIOUS
  <2>2. c[p] = CostOf(booked[p], AtRisk(queue, tasks[t], p)) /\ c[p] \in Int /\ d[p] \in Int
    BY <1>2, <1>3 DEF Summable
  <2>3. CASE p = one
    BY <2>1, <2>2, <2>3
  <2>4. CASE p # one
    <3>1. booked[p] \in Nat /\ booked'[p] = booked[p]
      BY <2>4 DEF KeptInv, KeptTypes, Handed
    <3>2. booked[p] > 0 /\ AtRisk(queue', tasks'[t], p) => AtRisk(queue, tasks[t], p)
      BY <2>4
    <3>3. d[p] <= c[p]
      BY <2>1, <2>2, <3>1, <3>2 DEF CostOf
    <3> QED BY <2>2, <2>4, <3>3
  <2> QED BY <2>3, <2>4
<1>5. SumOver(c, Handed) <= faults + crashes /\ faults \in Nat /\ crashes \in Nat
  BY DEF SoloAt, SoloInv
<1> HIDE DEF c, d
<1>6. SumOver(d, Handed) <= SumOver(c, Handed) + k
  <2>1. \A p \in Handed : d[p] <= c[p] + IF p = one THEN k ELSE 0
    BY <1>4
  <2>2. k \in Nat /\ Handed \in SUBSET DOMAIN d /\ Handed \subseteq DOMAIN c
    BY <1>2, <1>3
  <2> QED BY <1>2, <1>3, <2>1, <2>2, SumOverOneGrows
<1>7. SumOver(d, Handed) \in Int /\ SumOver(c, Handed) \in Int
  BY <1>2, <1>3, SumOverTyped
<1>8. SumOver(d, Handed) <= faults' + crashes'
  <2>1. ASSUME NEW x \in Int, NEW y \in Int, NEW n \in Int, NEW m \in Int,
               x <= y + k, y <= n, m >= n + k
        PROVE  x <= m
    BY <2>1
  <2>2. faults + crashes \in Int /\ faults' + crashes' \in Int
    BY <1>5
  <2> HIDE DEF c, d
  <2> QED BY <1>5, <1>6, <1>7, <2>1, <2>2
<1>9. SumOver(Costs(tasks[t]), Handed)' <= faults' + crashes'
  BY <1>1, <1>3, <1>8
<1> QED BY <1>9 DEF SoloAt

\* A step after which none does.
LEMMA SoloCalm ==
    ASSUME KeptInv, KeptInv', TypesInv, TypesInv', NEW t \in Tasks, SoloAt(t), OnlyMoves(t),
           UNCHANGED <<tender, booked>>, SoloInv,
           faults' \in Nat, faults' >= faults, UNCHANGED crashes,
           \A p \in Handed : booked[p] > 0 /\ AtRisk(queue', tasks'[t], p)
                                 => AtRisk(queue, tasks[t], p),
           LeftQueued(tasks[t])', Unsent(tasks[t])'
    PROVE  SoloAt(t)'
<1> PICK one : one = NoPayment
  OBVIOUS
<1>1. one \notin Handed
  BY ClientAssumption DEF Handed
<1>2. faults \in Nat /\ crashes \in Nat
  BY DEF SoloInv
<1>3. crashes' = crashes
  OBVIOUS
<1>4. faults' + crashes' >= faults + crashes + 0
  <2>1. ASSUME NEW a \in Nat, NEW b \in Nat, NEW c \in Nat, b >= a PROVE b + c >= a + c + 0
    BY <2>1
  <2> QED BY <1>2, <1>3, <2>1
<1>5. crashes' \in Nat
  BY <1>2, <1>3
<1>6. \A p \in Handed : booked'[p] = booked[p]
  OBVIOUS
<1>7. 0 \in {0, 1}
  OBVIOUS
<1>8. OthersIdle(t)'
  BY DEF SoloAt, OthersIdle, OnlyMoves
<1> QED BY <1>1, <1>4, <1>5, <1>6, <1>7, <1>8, SoloStep

\* A step that leaves the server and the queue alone.
LEMMA SoloQuiet ==
    ASSUME KeptInv, KeptInv', TypesInv, TypesInv', SoloInv, NEW t \in Tasks, SoloAt(t), OnlyMoves(t),
           UNCHANGED <<tender, booked, queue, crashes>>, faults' \in {faults, faults + 1},
           \A p \in Handed : Sends(tasks[t], p) => Sends(tasks'[t], p),
           \A p \in Handed : booked[p] > 0 /\ Holds(tasks'[t], p) => Holds(tasks[t], p),
           LeftQueued(tasks[t])', Unsent(tasks[t])'
    PROVE  SoloAt(t)'
<1>1. faults' \in Nat /\ faults' >= faults
  BY DEF SoloInv
<1>2. \A p \in Handed : booked[p] > 0 /\ AtRisk(queue', tasks'[t], p) => AtRisk(queue, tasks[t], p)
  BY DEF AtRisk
<1> QED BY <1>1, <1>2, SoloCalm

\* The task becomes idle.
LEMMA SoloRests ==
    ASSUME KeptInv, KeptInv', TypesInv, TypesInv', SoloInv, NEW t \in Tasks, SoloAt(t), OnlyMoves(t),
           UNCHANGED <<tender, booked, queue, crashes>>, faults' \in {faults, faults + 1},
           tasks[t].pc \notin {"saveItem", "complete"},
           tasks'[t].pc \in {"idle", "check"} \/ (tasks'[t].op = "create" /\ tasks'[t].left = <<>>)
    PROVE  SoloAt(t)'
<1>1. \A p \in Handed : ~Sends(tasks[t], p) /\ ~Holds(tasks'[t], p)
  BY DEF Sends, Holds
<1>2. LeftQueued(tasks[t])' /\ Unsent(tasks[t])'
  BY DEF LeftQueued, Unsent, IsInjective, ToSet
<1> QED BY <1>1, <1>2, SoloQuiet

\* What the task at work moves to without a request.
LEMMA GotoSolo ==
    ASSUME KeptInv, KeptInv', TypesInv, TypesInv', SoloInv, NEW t \in Tasks, SoloAt(t),
           NEW pc, Goto(t, pc),
           UNCHANGED <<tender, booked, queue, crashes>>, faults' \in {faults, faults + 1},
           tasks[t].pc \in {"saveItem", "complete"} => pc = "complete",
           pc \in {"item", "saveItem", "complete"} => tasks[t].pc \in {"saveItem", "complete"},
           pc = "failed" => tasks[t].pc = "item",
           (tasks[t].op = "pay" /\ pc \in {"flush", "lookup", "postPay", "readLocal"}) =>
               booked[tasks[t].payment] = 0,
           pc \in {"localPay", "queuePay"} => tasks[t].pc \in {"readLocal", "localPay"}
    PROVE  SoloAt(t)'
<1>1. /\ OnlyMoves(t)
      /\ tasks'[t].op = tasks[t].op /\ tasks'[t].payment = tasks[t].payment
      /\ tasks'[t].left = tasks[t].left /\ tasks'[t].pc = pc
  BY GotoFields
<1>2. LeftQueued(tasks[t]) /\ Unsent(tasks[t]) /\ booked \in [Payments -> Nat]
  BY DEF SoloAt, KeptInv, KeptTypes
<1>3. \A p \in Handed : Sends(tasks[t], p) => Sends(tasks'[t], p)
  BY <1>1 DEF Sends
<1>4. \A p \in Handed : booked[p] > 0 /\ Holds(tasks'[t], p) => Holds(tasks[t], p)
  BY <1>1 DEF Holds
<1>5. LeftQueued(tasks[t])'
  BY <1>1, <1>2 DEF LeftQueued
<1>6. Unsent(tasks[t])'
  BY <1>1, <1>2 DEF Unsent
<1> QED BY <1>1, <1>3, <1>4, <1>5, <1>6, SoloQuiet

\* A flush returns.
LEMMA AfterFlushSolo ==
    ASSUME KeptInv, KeptInv', TypesInv, TypesInv', SoloInv, NEW t \in Tasks, SoloAt(t),
           tasks[t].pc \in {"flush", "item"}, AfterFlush(t),
           UNCHANGED <<tender, booked, queue, crashes>>, faults' \in {faults, faults + 1}
    PROVE  SoloAt(t)'
<1>1. /\ OnlyMoves(t) /\ tasks'[t].op = tasks[t].op /\ tasks'[t].payment = tasks[t].payment
      /\ tasks'[t].pc \in {"postOrder", "lookup", "idle"}
  BY AfterFlushFields
<1>2. Unsent(tasks[t])
  BY DEF SoloAt
<1>3. \A p \in Handed : ~Sends(tasks[t], p) /\ ~Holds(tasks'[t], p)
  BY <1>1 DEF Sends, Holds
<1>4. LeftQueued(tasks[t])' /\ Unsent(tasks[t])'
  BY <1>1, <1>2 DEF LeftQueued, Unsent
<1> QED BY <1>1, <1>3, <1>4, SoloQuiet

\* The tail of a sequence without repetition.
LEMMA TailInjective ==
    ASSUME NEW S, NEW entries \in Seq(S), entries # <<>>, IsInjective(entries)
    PROVE  IsInjective(Tail(entries)) /\ Head(entries) \notin ToSet(Tail(entries))
<1>1. /\ Tail(entries) \in Seq(S) /\ Len(Tail(entries)) = Len(entries) - 1
      /\ \A i \in 1 .. Len(Tail(entries)) : Tail(entries)[i] = entries[i + 1]
      /\ Len(entries) \in Nat \ {0} /\ DOMAIN entries = 1 .. Len(entries)
      /\ Head(entries) = entries[1]
  OBVIOUS
<1> DEFINE rest == Tail(entries)
<1> HIDE DEF rest
<1>2. DOMAIN rest = 1 .. Len(entries) - 1
  BY <1>1 DEF rest
<1>3. \A i \in DOMAIN rest : rest[i] = entries[i + 1] /\ i + 1 \in DOMAIN entries /\ i + 1 # 1
  BY <1>1, <1>2 DEF rest
<1>4. \A i, j \in DOMAIN entries : entries[i] = entries[j] => i = j
  BY DEF IsInjective
<1>5. ASSUME NEW i \in DOMAIN rest, NEW j \in DOMAIN rest, rest[i] = rest[j] PROVE i = j
  <2>1. i + 1 = j + 1 /\ i \in Int /\ j \in Int
    BY <1>2, <1>3, <1>4, <1>5
  <2> QED BY <2>1
<1>6. Head(entries) \notin ToSet(rest)
  <2>1. 1 \in DOMAIN entries
    BY <1>1
  <2> QED BY <1>1, <1>3, <1>4, <2>1 DEF ToSet
<1> QED BY <1>5, <1>6 DEF IsInjective, rest

\* An entry is passed over, with or without an answer.
LEMMA PassedOverSolo ==
    ASSUME KeptInv, KeptInv', TypesInv, TypesInv', SoloInv, NEW t \in Tasks, SoloAt(t), OnlyMoves(t),
           tasks[t].pc \in {"item", "failed"}, tasks[t].left # <<>>,
           tasks'[t].pc = "item", tasks'[t].left = Tail(tasks[t].left),
           tasks'[t].op = tasks[t].op, tasks'[t].payment = tasks[t].payment,
           UNCHANGED <<tender, booked, queue, crashes>>, faults' \in {faults, faults + 1}
    PROVE  SoloAt(t)'
<1>1. /\ LeftQueued(tasks[t]) /\ Unsent(tasks[t]) /\ tasks[t].left \in Seq(Items)
  BY DEF SoloAt, KeptInv, TaskOK
<1>2. \A p \in Handed : ~Sends(tasks[t], p) /\ ~Holds(tasks'[t], p)
  BY DEF Sends, Holds
<1>3. LeftQueued(tasks[t])'
  BY <1>1, TailInjective, TailEntries DEF LeftQueued
<1>4. Unsent(tasks[t])'
  BY <1>1 DEF Unsent
<1> QED BY <1>2, <1>3, <1>4, SoloQuiet

\* The loop of syncPendingQueue, apart from its requests.
LEMMA FlushSolo ==
    ASSUME KeptInv, KeptInv', TypesInv, TypesInv', SoloInv, NEW t \in Tasks, SoloAt(t),
           Flush(t) \/ EndOfItems(t) \/ SkipItem(t)
    PROVE  SoloAt(t)'
<1>0. /\ TaskOK(tasks[t]) /\ DOMAIN tasks = Tasks /\ queue \in Seq(Items) /\ IsInjective(queue)
      /\ UNCHANGED <<tender, booked, queue, crashes, faults>>
      /\ tasks[t].pc \in {"flush", "item"} /\ Unsent(tasks[t])
  BY DEF KeptInv, KeptTypes, TypesInv, QueueOK, SoloAt, Flush, EndOfItems, SkipItem, AtItem,
         serverVars, localVars, screenVars, bounds
<1>1. CASE AfterFlush(t)
  BY <1>0, <1>1, AfterFlushSolo
<1>2. CASE EndOfItems(t) /\ Goto(t, "flush")
  <2>1. tasks[t].op = "pay" => booked[tasks[t].payment] = 0
    BY <1>0 DEF Unsent
  <2> QED BY <1>0, <1>2, <2>1, GotoSolo
<1>3. CASE Flush(t) /\ tasks' = [tasks EXCEPT ![t].pc = "item", ![t].left = queue,
                                              ![t].progress = FALSE]
  <2>1. OnlyMoves(t) /\ tasks'[t] = [tasks[t] EXCEPT !.pc = "item", !.left = queue, !.progress = FALSE]
    BY <1>0, <1>3 DEF OnlyMoves
  <2>2. /\ tasks'[t].op = tasks[t].op /\ tasks'[t].payment = tasks[t].payment
        /\ tasks'[t].left = queue /\ tasks'[t].pc = "item"
    BY <1>0, <2>1 DEF TaskOK, TaskFields
  <2>3. \A p \in Handed : ~Sends(tasks[t], p) /\ ~Holds(tasks'[t], p)
    BY <1>0, <2>2 DEF Sends, Holds
  <2>4. LeftQueued(tasks[t])' /\ Unsent(tasks[t])'
    BY <1>0, <2>2 DEF LeftQueued, Unsent
  <2> QED BY <1>0, <2>1, <2>3, <2>4, SoloQuiet
<1>4. CASE SkipItem(t)
  <2>1. OnlyMoves(t) /\ tasks'[t] = [tasks[t] EXCEPT !.left = Tail(@)]
    BY <1>0, <1>4 DEF OnlyMoves, SkipItem
  <2>2. tasks[t].left # <<>> /\ tasks[t].pc = "item"
    BY <1>4 DEF SkipItem, AtItem
  <2>3. /\ tasks'[t].op = tasks[t].op /\ tasks'[t].payment = tasks[t].payment
        /\ tasks'[t].left = Tail(tasks[t].left) /\ tasks'[t].pc = "item"
    BY <1>0, <2>1, <2>2 DEF TaskOK, TaskFields
  <2> QED BY <1>0, <2>1, <2>2, <2>3, PassedOverSolo
<1> QED BY <1>1, <1>2, <1>3, <1>4 DEF Flush, EndOfItems

\* What is queued for a payment is its entry.
LEMMA PaysItem ==
    ASSUME KeptInv, TypesInv, NEW item \in ToSet(queue), NEW p, Pays(item, p)
    PROVE  item = PaymentItem(p)
<1>1. item \in Items /\ EntryOK(item)
  BY DEF KeptInv, KeptTypes, ToSet, TypesInv, QueueOK
<1>2. item = [kind |-> "payment", order |-> tender[p].order, payment |-> p]
  BY <1>1 DEF Items, Pays, EntryOK
<1> QED BY <1>2 DEF PaymentItem

\* What a POST of a payment is about: the queued entry in hand, or what nobody has sent.
LEMMA SubjectSolo ==
    ASSUME KeptInv, TypesInv, NEW t \in Tasks, SoloAt(t), PostsPayment(t)
    PROVE  LET p == Subject(t).payment
           IN  /\ p \in Handed
               /\ tasks[t].pc = "item" => /\ AtRisk(queue, tasks[t], p)
                                          /\ Pays(Head(tasks[t].left), p)
                                          /\ tasks[t].op = "pay" => tasks[t].payment # p
               /\ tasks[t].pc # "item" => /\ booked[p] = 0 /\ tasks[t].pc = "postPay"
                                          /\ tasks[t].op = "pay" /\ tasks[t].payment = p
                                          /\ ~ \E item \in ToSet(queue) : Pays(item, p)
<1> DEFINE p == Subject(t).payment
<1>1. p \in Handed /\ TaskOK(tasks[t]) /\ FreshOK(tasks[t])
  BY SubjectTypes DEF KeptInv, TypesInv, TaskTypes
<1>2. CASE tasks[t].pc = "item"
  <2>1. Head(tasks[t].left) \in ToSet(queue)
    <3>1. tasks[t].left # <<>> /\ tasks[t].left \in Seq(Items)
      BY <1>1, <1>2, SubjectTypes DEF TaskOK
    <3>2. ToSet(tasks[t].left) \subseteq ToSet(queue)
      BY <1>2 DEF SoloAt, LeftQueued
    <3> QED BY <3>1, <3>2, TailEntries
  <2>2. Pays(Head(tasks[t].left), p)
    BY <1>2 DEF PostsPayment, AtItem, Subject, Pays
  <2>3. AtRisk(queue, tasks[t], p)
    BY <1>2, <2>1, <2>2 DEF AtRisk, Sends
  <2>4. IsQueued(PaymentItem(p))
    BY <2>1, <2>2, PaysItem DEF IsQueued
  <2>5. tasks[t].op = "pay" => tasks[t].payment # p
    BY <1>1, <2>4, AmongEntries DEF FreshOK, IsQueued
  <2> QED BY <1>1, <1>2, <2>2, <2>3, <2>5
<1>3. CASE tasks[t].pc # "item"
  <2>1. tasks[t].pc = "postPay"
    BY <1>3 DEF PostsPayment, AtItem
  <2>2. tasks[t].op = "pay" /\ tasks[t].payment = p
    BY <1>1, <2>1, <1>3 DEF TaskOK, Place, Subject
  <2>3. booked[p] = 0
    BY <2>1, <2>2 DEF SoloAt, Unsent
  <2>4. ~IsQueued(PaymentItem(p))
    BY <1>1, <2>2, AmongEntries DEF FreshOK, IsQueued
  <2>5. ~ \E item \in ToSet(queue) : Pays(item, p)
    BY <2>4, PaysItem DEF IsQueued
  <2> QED BY <1>1, <1>3, <2>1, <2>2, <2>3, <2>5
<1> QED BY <1>2, <1>3

\* The server books the payment once more.
LEMMA BookedMore ==
    ASSUME KeptInv, TypesInv, NEW t \in Tasks, SoloAt(t), PostsPayment(t),
           booked' = [booked EXCEPT ![Subject(t).payment] = @ + 1],
           NEW one, one = Subject(t).payment, NEW risk \in BOOLEAN
    PROVE  /\ one \in Handed
           /\ \A p \in Handed : p # one => booked'[p] = booked[p]
           /\ CostOf(booked'[one], risk)
                  <= CostOf(booked[one], AtRisk(queue, tasks[t], one)) + IF risk THEN 1 ELSE 0
<1>1. booked \in [Payments -> Nat] /\ one \in Handed /\ Handed \subseteq Payments
  BY SubjectSolo DEF KeptInv, KeptTypes, Handed
<1>2. booked'[one] = booked[one] + 1 /\ booked[one] \in Nat
  BY <1>1
<1>3. booked[one] = 0 \/ AtRisk(queue, tasks[t], one)
  BY SubjectSolo
<1>4. CostOf(booked[one], AtRisk(queue, tasks[t], one)) = booked[one]
  BY <1>2, <1>3 DEF CostOf
<1>5. CostOf(booked'[one], risk) = booked[one] + IF risk THEN 1 ELSE 0
  BY <1>2 DEF CostOf
<1> QED BY <1>1, <1>2, <1>4, <1>5

\* An answer.
LEMMA AnsweredSolo ==
    ASSUME KeptInv, KeptInv', TypesInv, TypesInv', SoloInv, NEW t \in Tasks, SoloAt(t), Answered(t)
    PROVE  SoloAt(t)'
<1>0. /\ UNCHANGED <<tender, queue, crashes, faults>> /\ Effect(t)
      /\ LeftQueued(tasks[t]) /\ Unsent(tasks[t])
      /\ faults' \in Nat /\ crashes' \in Nat
  BY DEF Answered, localVars, screenVars, bounds, SoloAt, SoloInv
<1>1. /\ OnlyMoves(t) /\ tasks'[t].op = tasks[t].op /\ tasks'[t].payment = tasks[t].payment
      /\ tasks'[t].left = tasks[t].left
      /\ tasks'[t].pc = IF tasks[t].pc = "item" THEN "saveItem" ELSE "saveAnswer"
  BY AnsweredFields
<1>2. tasks[t].pc \in {"item", "postOrder", "postPay"}
  BY <1>0, EffectTypes, SubjectTypes
<1>3. \A p \in Handed : ~Sends(tasks[t], p) /\ ~Holds(tasks'[t], p)
  BY <1>1, <1>2 DEF Sends, Holds
<1>4. LeftQueued(tasks[t])'
  BY <1>0, <1>1, <1>2 DEF LeftQueued
<1>5. \A p \in Handed : AtRisk(queue', tasks'[t], p) => AtRisk(queue, tasks[t], p)
  BY <1>0, <1>3 DEF AtRisk
<1>6. CASE UNCHANGED booked
  <2>1. Unsent(tasks[t])'
    BY <1>0, <1>1, <1>2, <1>6 DEF Unsent
  <2> QED BY <1>0, <1>1, <1>4, <1>5, <1>6, <2>1, SoloCalm
<1>7. CASE PostsPayment(t) /\ booked' = [booked EXCEPT ![Subject(t).payment] = @ + 1]
  <2> PICK one : one = Subject(t).payment
    OBVIOUS
  <2>1. one \in Handed /\ \A p \in Handed : p # one => booked'[p] = booked[p]
    BY <1>7, BookedMore
  <2>2. ~AtRisk(queue', tasks'[t], one)
    <3>1. CASE tasks[t].pc = "item"
      <4>1. Sends(tasks'[t], one)
        BY <1>1, <1>7, <3>1, SubjectSolo DEF Sends
      <4> QED BY <1>3, <2>1, <4>1 DEF AtRisk
    <3>2. CASE tasks[t].pc # "item"
      BY <1>0, <1>3, <1>7, <2>1, <3>2, SubjectSolo DEF AtRisk
    <3> QED BY <3>1, <3>2
  <2>3. CostOf(booked'[one], AtRisk(queue', tasks'[t], one))
            <= CostOf(booked[one], AtRisk(queue, tasks[t], one)) + 0
    <3>1. CostOf(booked'[one], AtRisk(queue', tasks'[t], one)) = CostOf(booked'[one], FALSE)
      BY <2>2 DEF CostOf
    <3>2. CostOf(booked'[one], FALSE)
            <= CostOf(booked[one], AtRisk(queue, tasks[t], one)) + IF FALSE THEN 1 ELSE 0
      BY <1>7, BookedMore
    <3> QED BY <3>1, <3>2
  <2>4. Unsent(tasks[t])'
    <3>1. CASE tasks[t].pc = "item"
      <4>1. tasks[t].op = "pay" => tasks[t].payment # one /\ booked[tasks[t].payment] = 0
        BY <1>0, <1>7, <3>1, SubjectSolo DEF Unsent
      <4>2. tasks[t].op = "pay" => booked'[tasks[t].payment] = 0
        BY <1>7, <4>1 DEF KeptInv, KeptTypes
      <4> QED BY <1>1, <4>2 DEF Unsent
    <3>2. CASE tasks[t].pc # "item"
      BY <1>1, <3>2 DEF Unsent
    <3> QED BY <3>1, <3>2
  <2>5. faults' + crashes' >= faults + crashes + 0
    <3>1. faults \in Nat /\ crashes \in Nat
      BY DEF SoloInv
    <3> QED BY <1>0, <3>1
  <2>6. OthersIdle(t)'
    BY <1>1 DEF SoloAt, OthersIdle, OnlyMoves
  <2>7. 0 \in {0, 1}
    OBVIOUS
  <2> QED BY <1>0, <1>4, <1>5, <2>1, <2>3, <2>4, <2>5, <2>6, <2>7, SoloStep
<1> QED BY <1>0, <1>6, <1>7 DEF Effect

\* A request that is rejected.
LEMMA RejectedSolo ==
    ASSUME KeptInv, KeptInv', TypesInv, TypesInv', SoloInv, NEW t \in Tasks, SoloAt(t),
           PostsOrder(t) \/ PostsPayment(t), Rejected(t),
           UNCHANGED <<tender, booked, queue, crashes>>, faults' \in {faults, faults + 1}
    PROVE  SoloAt(t)'
<1>1. CASE tasks[t].pc = "item"
  <2>1. tasks[t].left # <<>>
    BY <1>1, SubjectTypes
  <2>2. CASE Goto(t, "failed")
    BY <1>1, <2>2, GotoSolo
  <2>3. CASE PassOn(t)
    BY <1>1, <2>1, <2>3, PassOnFields, PassedOverSolo
  <2> QED BY <1>1, <2>2, <2>3 DEF Rejected
<1>2. CASE tasks[t].pc # "item"
  <2>1. OnlyMoves(t) /\ tasks'[t] = IdleTask
    BY <1>2 DEF Rejected, OnlyMoves, KeptInv, KeptTypes
  <2>2. tasks'[t].pc = "idle" /\ tasks[t].pc \notin {"saveItem", "complete"}
    BY <2>1, SubjectTypes DEF IdleTask
  <2> QED BY <2>1, <2>2, SoloRests
<1> QED BY <1>1, <1>2

\* A request that does not reach the server.
LEMMA DisconnectedSolo ==
    ASSUME KeptInv, KeptInv', TypesInv, TypesInv', SoloInv, NEW t \in Tasks, SoloAt(t),
           PostsOrder(t) \/ PostsPayment(t), Disconnected(t),
           UNCHANGED <<tender, booked, queue, crashes>>, faults' \in {faults, faults + 1}
    PROVE  SoloAt(t)'
<1>1. CASE tasks[t].pc = "item"
  BY <1>1, AfterFlushSolo DEF Disconnected
<1>2. CASE tasks[t].pc # "item"
  <2> PICK pc : pc = IF tasks[t].pc = "postOrder" THEN "localOrder" ELSE "readLocal"
    OBVIOUS
  <2>1. Goto(t, pc) /\ tasks[t].pc \in {"postOrder", "postPay"}
    BY <1>2, SubjectTypes DEF Disconnected
  <2>2. pc = "readLocal" => (tasks[t].op = "pay" => booked[tasks[t].payment] = 0)
    BY <2>1 DEF SoloAt, Unsent
  <2> QED BY <2>1, <2>2, GotoSolo
<1> QED BY <1>1, <1>2

\* A request whose answer is lost, or is an error, after the server has acted.
LEMMA LostAnswerSolo ==
    ASSUME KeptInv, KeptInv', TypesInv, TypesInv', SoloInv, NEW t \in Tasks, SoloAt(t),
           Effect(t), Disconnected(t) \/ Rejected(t),
           UNCHANGED <<tender, queue, crashes>>, faults' = faults + 1
    PROVE  SoloAt(t)'
<1>0. /\ PostsOrder(t) \/ PostsPayment(t)
      /\ LeftQueued(tasks[t]) /\ Unsent(tasks[t])
  BY EffectTypes DEF SoloAt
<1>1. CASE UNCHANGED booked
  BY <1>0, <1>1, DisconnectedSolo, RejectedSolo
<1>2. CASE PostsPayment(t) /\ booked' = [booked EXCEPT ![Subject(t).payment] = @ + 1]
  <2> PICK one : one = Subject(t).payment
    OBVIOUS
  <2>1. one \in Handed /\ \A p \in Handed : p # one => booked'[p] = booked[p]
    BY <1>2, BookedMore
  <2>2. CostOf(booked'[one], AtRisk(queue', tasks'[t], one))
            <= CostOf(booked[one], AtRisk(queue, tasks[t], one)) + 1
    <3>1. CostOf(booked'[one], AtRisk(queue', tasks'[t], one)) \in Int
      <4>1. booked'[one] \in Nat
        BY <2>1 DEF KeptInv, KeptTypes, Handed
      <4> QED BY <4>1 DEF CostOf
    <3>2. PICK risk \in BOOLEAN : risk <=> AtRisk(queue', tasks'[t], one)
      OBVIOUS
    <3>3. CostOf(booked'[one], AtRisk(queue', tasks'[t], one)) = CostOf(booked'[one], risk)
      BY <3>2 DEF CostOf
    <3>4. CostOf(booked'[one], risk)
            <= CostOf(booked[one], AtRisk(queue, tasks[t], one)) + IF risk THEN 1 ELSE 0
      BY <1>2, BookedMore
    <3>5. CostOf(booked[one], AtRisk(queue, tasks[t], one)) \in Int
      <4>1. booked[one] \in Nat
        BY <2>1 DEF KeptInv, KeptTypes, Handed
      <4> QED BY <4>1 DEF CostOf
    <3> QED BY <3>1, <3>3, <3>4, <3>5
  <2>3. /\ OnlyMoves(t) /\ LeftQueued(tasks[t])'
        /\ tasks[t].pc = "item" =>
              /\ tasks'[t].op = tasks[t].op /\ tasks'[t].payment = tasks[t].payment
              /\ tasks'[t].pc \in {"postOrder", "lookup", "idle", "failed", "item"}
        /\ tasks[t].pc # "item" =>
              /\ tasks'[t].pc \in {"readLocal", "idle"}
              /\ tasks'[t].pc = "readLocal" => tasks'[t].payment = tasks[t].payment
    <3>1. CASE tasks[t].pc = "item" /\ AfterFlush(t)
      BY <3>1, AfterFlushFields DEF LeftQueued
    <3>2. CASE tasks[t].pc = "item" /\ Goto(t, "failed")
      BY <1>0, <3>2, GotoFields DEF LeftQueued
    <3>3. CASE tasks[t].pc = "item" /\ PassOn(t)
      <4>1. tasks[t].left # <<>> /\ tasks[t].left \in Seq(Items)
        BY <1>0, <3>3, SubjectTypes DEF KeptInv, TaskOK
      <4>2. LeftQueued(tasks[t])'
        BY <1>0, <3>3, <4>1, PassOnFields, TailInjective, TailEntries DEF LeftQueued
      <4> QED BY <3>3, <4>2, PassOnFields
    <3>4. CASE tasks[t].pc # "item" /\ Goto(t, "readLocal")
      BY <3>4, GotoFields DEF LeftQueued
    <3>5. CASE tasks[t].pc # "item" /\ tasks' = [tasks EXCEPT ![t] = IdleTask]
      BY <3>5 DEF OnlyMoves, KeptInv, KeptTypes, IdleTask, LeftQueued
    <3>6. tasks[t].pc # "item" => tasks[t].pc = "postPay"
      BY <1>2 DEF PostsPayment, AtItem
    <3> QED BY <3>1, <3>2, <3>3, <3>4, <3>5, <3>6 DEF Disconnected, Rejected
  <2>4. \A p \in Handed : p # one => ~Holds(tasks'[t], p)
    <3>1. CASE tasks[t].pc = "item"
      BY <2>3, <3>1 DEF Holds
    <3>2. CASE tasks[t].pc # "item"
      BY <1>2, <2>3, <3>2, SubjectSolo DEF Holds
    <3> QED BY <3>1, <3>2
  <2>5. \A p \in Handed : ~Sends(tasks[t], p)
    BY <1>0, SubjectTypes DEF Sends
  <2>6. \A p \in Handed : p # one => (AtRisk(queue', tasks'[t], p) => AtRisk(queue, tasks[t], p))
    BY <2>4, <2>5 DEF AtRisk
  <2>7. LeftQueued(tasks[t])'
    BY <2>3
  <2>8. Unsent(tasks[t])'
    <3>1. CASE tasks[t].pc = "item"
      <4>1. tasks[t].op = "pay" => tasks[t].payment # one /\ booked[tasks[t].payment] = 0
        BY <1>0, <1>2, <3>1, SubjectSolo DEF Unsent
      <4>2. tasks[t].op = "pay" => booked'[tasks[t].payment] = 0
        BY <1>2, <4>1 DEF KeptInv, KeptTypes
      <4> QED BY <2>3, <4>2 DEF Unsent
    <3>2. CASE tasks[t].pc # "item"
      BY <2>3, <3>2 DEF Unsent
    <3> QED BY <3>1, <3>2
  <2>9. faults' + crashes' >= faults + crashes + 1 /\ faults' \in Nat /\ crashes' \in Nat
    <3>1. faults \in Nat /\ crashes \in Nat
      BY DEF SoloInv
    <3> QED BY <3>1
  <2>10. OthersIdle(t)'
    BY <2>3 DEF SoloAt, OthersIdle, OnlyMoves
  <2>11. 1 \in {0, 1} /\ tender' = tender
    OBVIOUS
  <2> QED BY <2>1, <2>2, <2>6, <2>7, <2>8, <2>9, <2>10, <2>11, SoloStep
<1> QED BY <1>1, <1>2 DEF Effect

\* Requests, answered or not.
LEMMA RequestSolo ==
    ASSUME KeptInv, KeptInv', TypesInv, TypesInv', SoloInv, NEW t \in Tasks, SoloAt(t),
           Answered(t) \/ Refused(t) \/ NotSent(t) \/ Fault(t)
    PROVE  SoloAt(t)'
<1>1. CASE Answered(t)
  BY <1>1, AnsweredSolo
<1>2. CASE Refused(t)
  BY <1>2, RejectedSolo DEF Refused, serverVars, localVars, screenVars, bounds
<1>3. CASE NotSent(t)
  BY <1>3, DisconnectedSolo DEF NotSent, serverVars, localVars, screenVars, bounds
<1>4. CASE Fault(t)
  <2>1. /\ PostsOrder(t) \/ PostsPayment(t)
        /\ UNCHANGED <<tender, queue, crashes>> /\ faults' = faults + 1
    BY <1>4 DEF Fault, localVars, screenVars
  <2>2. CASE Effect(t) /\ Disconnected(t)
    BY <2>1, <2>2, LostAnswerSolo
  <2>3. CASE Disconnected(t) /\ UNCHANGED serverVars
    BY <2>1, <2>3, DisconnectedSolo DEF serverVars
  <2>4. CASE Rejected(t) /\ UNCHANGED serverVars
    BY <2>1, <2>4, RejectedSolo DEF serverVars
  <2>5. CASE Effect(t) /\ Rejected(t)
    BY <2>1, <2>5, LostAnswerSolo
  <2> QED BY <1>4, <2>2, <2>3, <2>4, <2>5 DEF Fault
<1> QED BY <1>1, <1>2, <1>3, <1>4

\* Local transactions that only write snapshots, and the reads before them.
LEMMA SnapshotSolo ==
    ASSUME KeptInv, KeptInv', TypesInv, TypesInv', SoloInv, NEW t \in Tasks, SoloAt(t),
           SaveItem(t) \/ LocalOrder(t) \/ Lookup(t) \/ ReadLocal(t) \/ LocalPay(t)
    PROVE  SoloAt(t)'
<1>0. /\ TaskOK(tasks[t]) /\ DOMAIN tasks = Tasks /\ Unsent(tasks[t])
      /\ UNCHANGED <<tender, booked, queue, crashes, faults>>
  BY DEF KeptInv, KeptTypes, SoloAt, SaveItem, LocalOrder, Lookup, ReadLocal, LocalPay,
         serverVars, localVars, screenVars, bounds
<1>1. CASE SaveItem(t)
  BY <1>0, <1>1, GotoSolo DEF SaveItem
<1>2. CASE LocalOrder(t)
  BY <1>0, <1>2, GotoSolo DEF LocalOrder
<1>3. CASE Lookup(t)
  <2> PICK pc : pc = IF RemoteKnown(tasks[t].order) THEN "postPay" ELSE "readLocal"
    OBVIOUS
  <2>1. Goto(t, pc) /\ pc \in {"postPay", "readLocal"} /\ tasks[t].pc = "lookup"
    BY <1>3 DEF Lookup
  <2>2. tasks[t].op = "pay" => booked[tasks[t].payment] = 0
    BY <1>0, <2>1 DEF Unsent
  <2> QED BY <1>0, <2>1, <2>2, GotoSolo
<1>4. CASE LocalPay(t)
  BY <1>0, <1>4, GotoSolo DEF LocalPay
<1>5. CASE ReadLocal(t)
  <2> DEFINE received == snaps[tasks[t].order].received + tender[tasks[t].payment].amount
             state == snaps[tasks[t].order].state
  <2>1. /\ OnlyMoves(t) /\ tasks[t].pc = "readLocal"
        /\ tasks'[t] = [tasks[t] EXCEPT !.pc = "localPay", !.received = received, !.state = state]
    BY <1>0, <1>5 DEF OnlyMoves, ReadLocal
  <2> HIDE DEF received, state
  <2>2. /\ tasks'[t].op = tasks[t].op /\ tasks'[t].payment = tasks[t].payment
        /\ tasks'[t].pc = "localPay"
    BY <1>0, <2>1 DEF TaskOK, TaskFields
  <2>3. \A p \in Handed : ~Sends(tasks[t], p) /\ (Holds(tasks'[t], p) => Holds(tasks[t], p))
    BY <2>1, <2>2 DEF Sends, Holds
  <2>4. LeftQueued(tasks[t])' /\ Unsent(tasks[t])'
    BY <2>2 DEF LeftQueued, Unsent
  <2> QED BY <1>0, <2>1, <2>3, <2>4, SoloQuiet
<1> QED BY <1>1, <1>2, <1>3, <1>4, <1>5

\* The entry of the payment that was answered leaves the queue.
LEMMA CompleteSolo ==
    ASSUME KeptInv, KeptInv', TypesInv, TypesInv', SoloInv, NEW t \in Tasks, SoloAt(t),
           CompleteItem(t)
    PROVE  SoloAt(t)'
<1>0. /\ TaskOK(tasks[t]) /\ Vouched(tasks[t]) /\ DOMAIN tasks = Tasks
      /\ tasks[t].pc = "complete" /\ queue \in Seq(Items) /\ IsInjective(queue)
      /\ LeftQueued(tasks[t]) /\ Unsent(tasks[t])
      /\ UNCHANGED <<tender, booked, crashes, faults>>
  BY DEF KeptInv, KeptTypes, TypesInv, QueueOK, SoloAt, CompleteItem, serverVars, screenVars, bounds
<1>1. tasks[t].left # <<>> /\ tasks[t].left \in Seq(Items)
  BY <1>0 DEF Vouched, TaskOK
<1>2. OnlyMoves(t) /\ PassOn(t)
  BY PassOnFields DEF CompleteItem
<1>3. /\ tasks'[t].op = tasks[t].op /\ tasks'[t].payment = tasks[t].payment
      /\ tasks'[t].left = Tail(tasks[t].left) /\ tasks'[t].pc = "item"
  BY <1>2, PassOnFields
<1> PICK first : first = Head(tasks[t].left)
  OBVIOUS
<1>4. ToSet(queue') = ToSet(queue) \ {first}
  BY <1>0, WithoutInjective DEF CompleteItem
<1>5. /\ IsInjective(tasks[t].left) /\ ToSet(tasks[t].left) \subseteq ToSet(queue)
      /\ first \in ToSet(tasks[t].left) /\ ToSet(Tail(tasks[t].left)) \subseteq ToSet(tasks[t].left)
      /\ IsInjective(Tail(tasks[t].left)) /\ first \notin ToSet(Tail(tasks[t].left))
  BY <1>0, <1>1, TailInjective, TailEntries DEF LeftQueued
<1>6. LeftQueued(tasks[t])'
  BY <1>3, <1>4, <1>5 DEF LeftQueued
<1>7. Unsent(tasks[t])'
  BY <1>0, <1>3 DEF Unsent
<1>8. ASSUME NEW p \in Handed, AtRisk(queue', tasks'[t], p) PROVE AtRisk(queue, tasks[t], p)
  <2>1. PICK item \in ToSet(queue') : Pays(item, p)
    BY <1>3, <1>8 DEF AtRisk, Holds
  <2>2. item \in ToSet(queue) /\ item # first
    BY <1>4
  <2>3. ~Sends(tasks[t], p)
    <3>1. SUFFICES ASSUME Pays(first, p) PROVE FALSE
      BY DEF Sends
    <3>2. item = PaymentItem(p) /\ first = PaymentItem(p)
      BY <1>5, <2>1, <2>2, <3>1, PaysItem
    <3> QED BY <2>2, <3>2
  <2> QED BY <2>1, <2>2, <2>3 DEF AtRisk
<1>9. faults' \in Nat /\ faults' >= faults
  BY <1>0 DEF SoloInv
<1> QED BY <1>0, <1>2, <1>6, <1>7, <1>8, <1>9, SoloCalm

\* An entry that is put back is still there, as no other task is at work.
LEMMA PutBack ==
    ASSUME KeptInv, NEW t \in Tasks, SoloAt(t), PutFailed(t)
    PROVE  queue' = queue
<1>1. ToSet(tasks[t].left) \subseteq ToSet(queue) /\ tasks[t].left \in Seq(Items) /\ tasks[t].left # <<>>
  BY PutFailedOK DEF SoloAt, LeftQueued, KeptInv, TaskOK
<1>2. IsQueued(Head(tasks[t].left))
  BY <1>1, TailEntries DEF IsQueued
<1> QED BY <1>2 DEF PutFailed

LEMMA PutFailedSolo ==
    ASSUME KeptInv, KeptInv', TypesInv, TypesInv', SoloInv, NEW t \in Tasks, SoloAt(t),
           PutFailed(t)
    PROVE  SoloAt(t)'
<1>1. /\ tasks[t].pc = "failed" /\ tasks[t].left # <<>> /\ PassOn(t)
      /\ UNCHANGED <<booked, tender>>
  BY PutFailedOK
<1>2. UNCHANGED <<queue, crashes, faults>>
  BY PutBack DEF PutFailed, bounds
<1> QED BY <1>1, <1>2, PassOnFields, PassedOverSolo

\* createOrder and addPayment report success.
LEMMA ReturnSolo ==
    ASSUME KeptInv, KeptInv', TypesInv, TypesInv', SoloInv, NEW t \in Tasks, SoloAt(t),
           SaveAnswer(t) \/ Enqueue(t)
    PROVE  SoloAt(t)'
<1>0. /\ TaskOK(tasks[t]) /\ DOMAIN tasks = Tasks /\ queue \in Seq(Items)
      /\ UNCHANGED <<tender, booked, crashes, faults>>
      /\ tasks[t].pc \in {"saveAnswer", "queueOrder", "queuePay"}
  BY DEF KeptInv, KeptTypes, SaveAnswer, Enqueue, serverVars, bounds
<1>1. PICK received : Return(t, received)
  BY DEF SaveAnswer, Enqueue
<1>2. OnlyMoves(t) /\ tasks'[t].pc = "idle"
  BY <1>0, <1>1 DEF Return, OnlyMoves, IdleTask
<1>3. CASE SaveAnswer(t)
  <2>1. queue' = queue
    BY <1>3 DEF SaveAnswer
  <2> QED BY <1>0, <1>2, <2>1, SoloRests
<1>4. CASE Enqueue(t)
  <2> PICK entry : entry = IF tasks[t].pc = "queueOrder" THEN OrderItem(tasks[t].order)
                                                         ELSE PaymentItem(tasks[t].payment)
    OBVIOUS
  <2>1. queue' = Append(queue, entry) /\ tasks[t].pc \in {"queueOrder", "queuePay"}
    BY <1>4 DEF Enqueue
  <2>2. ToSet(queue') \subseteq ToSet(queue) \cup {entry}
    <3>1. ASSUME NEW i \in DOMAIN queue' PROVE queue'[i] \in ToSet(queue) \cup {entry}
      BY <1>0, <2>1 DEF ToSet
    <3> QED BY <3>1 DEF ToSet
  <2>3. \A p \in Handed : Pays(entry, p) => Holds(tasks[t], p)
    <3>1. CASE tasks[t].pc = "queueOrder"
      BY <3>1 DEF Pays, OrderItem
    <3>2. CASE tasks[t].pc = "queuePay"
      <4>1. tasks[t].op = "pay"
        BY <1>0, <3>2 DEF TaskOK, Place
      <4> QED BY <3>2, <4>1 DEF Pays, PaymentItem, Holds
    <3> QED BY <2>1, <3>1, <3>2
  <2>4. \A p \in Handed : ~Sends(tasks[t], p) /\ ~Holds(tasks'[t], p)
    BY <1>0, <1>2 DEF Sends, Holds
  <2>5. \A p \in Handed : AtRisk(queue', tasks'[t], p) => AtRisk(queue, tasks[t], p)
    BY <2>2, <2>3, <2>4 DEF AtRisk
  <2>6. LeftQueued(tasks[t])' /\ Unsent(tasks[t])'
    BY <1>2 DEF LeftQueued, Unsent
  <2>7. faults' \in Nat /\ faults' >= faults
    BY <1>0 DEF SoloInv
  <2> QED BY <1>0, <1>2, <2>5, <2>6, <2>7, SoloCalm
<1> QED BY <1>3, <1>4

\* The beginning of a flush by OfflineSyncService.
LEMMA SyncSolo ==
    ASSUME KeptInv, KeptInv', TypesInv, TypesInv', SoloInv, world.exclusive,
           NEW s \in Syncers, SyncStart(s) \/ SyncEnter(s)
    PROVE  SoloAt(s)'
<1>0. /\ s \in Tasks /\ DOMAIN tasks = Tasks /\ TaskOK(tasks[s]) /\ tasks[s].op = "sync"
      /\ UNCHANGED <<tender, booked, queue, crashes, faults>>
  BY DEF SyncStart, SyncEnter, Tasks, KeptInv, KeptTypes, TypesInv, serverVars, localVars,
         screenVars, bounds
<1>1. CASE SyncStart(s)
  <2>1. SoloAt(s) /\ tasks[s].pc = "idle"
    BY <1>0, <1>1, SoloOfIdle DEF SyncStart, MayStart
  <2>2. OnlyMoves(s) /\ tasks'[s].pc = "check"
    BY <1>0, <1>1 DEF SyncStart, OnlyMoves, IdleTask
  <2> QED BY <1>0, <2>1, <2>2, SoloRests
<1>2. CASE SyncEnter(s)
  <2>1. SoloAt(s) /\ tasks[s].pc = "check"
    BY <1>0, <1>2, SoloOf DEF SyncEnter
  <2>2. PICK pc \in {"flush", "idle"} : Goto(s, pc)
    BY <1>2 DEF SyncEnter
  <2> QED BY <1>0, <2>1, <2>2, GotoSolo
<1> QED BY <1>1, <1>2

\* The cashier begins an order, ...
LEMMA CheckoutSolo ==
    ASSUME KeptInv, KeptInv', TypesInv, TypesInv', SoloInv, world.exclusive, CheckoutStart
    PROVE  SoloAt(Till)'
<1>0. /\ Till \in Tasks /\ DOMAIN tasks = Tasks
      /\ UNCHANGED <<tender, booked, queue, crashes, faults>>
  BY DEF Tasks, KeptInv, KeptTypes, CheckoutStart, serverVars, localVars, bounds
<1>1. SoloAt(Till) /\ tasks[Till].pc = "idle"
  BY <1>0, SoloOfIdle DEF CheckoutStart, MayStart
<1>2. /\ OnlyMoves(Till) /\ tasks'[Till].op = "create" /\ tasks'[Till].left = <<>>
      /\ tasks'[Till].pc \in {"flush", "localOrder"}
  BY <1>0 DEF CheckoutStart, OnlyMoves, IdleTask
<1> QED BY <1>0, <1>1, <1>2, SoloRests

\* ... or takes a payment that nobody has sent.
LEMMA PaySolo ==
    ASSUME KeptInv, KeptInv', TypesInv, TypesInv', SoloInv, world.exclusive, PayStart
    PROVE  SoloAt(Till)'
<1>0. /\ Till \in Tasks /\ DOMAIN tasks = Tasks
      /\ UNCHANGED <<booked, queue, crashes, faults>>
      /\ booked \in [Payments -> Nat] /\ current \in OrderNos
  BY DEF Tasks, KeptInv, KeptTypes, PayStart, serverVars, localVars, bounds
<1>1. SoloAt(Till) /\ tasks[Till].pc = "idle"
  BY <1>0, SoloOfIdle DEF PayStart, MayStart
<1>2. PICK p \in Payments, amount \in Amounts :
          /\ tender[p].order = NoOrder
          /\ tender' = [tender EXCEPT ![p] = [order |-> current, amount |-> amount]]
          /\ tasks' = [tasks EXCEPT ![Till] =
                [IdleTask EXCEPT !.op = "pay", !.order = current, !.payment = p,
                                 !.pc = IF online THEN "flush" ELSE "lookup"]]
  BY DEF PayStart
<1>3. /\ OnlyMoves(Till) /\ tasks'[Till].op = "pay" /\ tasks'[Till].payment = p
      /\ tasks'[Till].pc \in {"flush", "lookup"}
  BY <1>0, <1>2 DEF OnlyMoves, IdleTask
<1>4. Handed' = Handed \cup {p} /\ p \notin Handed /\ booked[p] = 0
  <2>1. /\ tender'[p].order = current
        /\ \A r \in Payments : r # p => tender'[r] = tender[r]
    BY <1>2 DEF KeptInv, KeptTypes
  <2>2. p \notin Handed
    BY <1>2 DEF Handed
  <2> QED BY <1>0, <1>2, <2>1, <2>2, ClientAssumption DEF Handed, TypesInv, ScreenOK
<1>5. OthersIdle(Till)' /\ LeftQueued(tasks[Till])' /\ Unsent(tasks[Till])'
  BY <1>0, <1>1, <1>3, <1>4 DEF SoloAt, OthersIdle, OnlyMoves, LeftQueued, Unsent
<1> DEFINE D == Handed \cup {p}
           c == Costs(tasks[Till])
           d == [r \in D |-> CostOf(booked'[r], AtRisk(queue', tasks'[Till], r))]
<1>6. /\ Summable(c) /\ DOMAIN c = Handed
      /\ \A r \in Handed : c[r] = CostOf(booked[r], AtRisk(queue, tasks[Till], r))
  BY CostsAreNatural
<1>7. Summable(d) /\ DOMAIN d = D /\ Costs(tasks[Till])' = d
  BY <1>0, <1>4, CostsAreNaturalNow
<1>8. d[p] = 0
  BY <1>0, <1>4 DEF CostOf
<1>9. \A r \in Handed : d[r] = c[r]
  <2>1. ASSUME NEW r \in Handed PROVE d[r] = c[r]
    <3>1. AtRisk(queue', tasks'[Till], r) <=> AtRisk(queue, tasks[Till], r)
      BY <1>0, <1>1, <1>3 DEF AtRisk, Sends, Holds
    <3>2. d[r] = CostOf(booked[r], AtRisk(queue', tasks'[Till], r))
      BY <1>0
    <3> HIDE DEF c, d
    <3> QED BY <1>6, <3>1, <3>2 DEF CostOf
  <2> QED BY <2>1
<1>10. SumOver(c, Handed) <= faults + crashes
  BY <1>1 DEF SoloAt
<1> HIDE DEF c, d
<1>11. SumOver(d, D) = d[p] + SumOver(d, Handed)
  <2>1. D \ {p} = Handed /\ D \in SUBSET DOMAIN d /\ p \in D
    BY <1>4, <1>7
  <2> HIDE DEF D
  <2> QED BY <1>7, <2>1, SumOverMember
<1>12. SumOver(d, Handed) = SumOver(c, Handed)
  <2>1. Handed \in SUBSET DOMAIN d /\ Handed \subseteq DOMAIN c
    BY <1>6, <1>7
  <2> HIDE DEF D
  <2> QED BY <1>6, <1>7, <1>9, <2>1, SumOverSame
<1>13. SumOver(d, Handed) \in Int
  <2>1. Handed \in SUBSET DOMAIN d
    BY <1>7
  <2> HIDE DEF D
  <2> QED BY <1>7, <2>1, SumOverTyped
<1>14. SumOver(Costs(tasks[Till]), Handed)' <= faults' + crashes'
  BY <1>0, <1>4, <1>7, <1>8, <1>10, <1>11, <1>12, <1>13
<1> QED BY <1>5, <1>14 DEF SoloAt

\* A kill: an answer in hand may be lost with it.
LEMMA CrashSolo ==
    ASSUME KeptInv, KeptInv', TypesInv, TypesInv', SoloInv, NEW t \in Tasks, SoloAt(t), Crash
    PROVE  SoloAt(t)'
<1>0. UNCHANGED <<tender, booked, queue, faults>> /\ crashes' = crashes + 1
  BY DEF Crash, serverVars, localVars
<1>1. \A u \in Tasks : tasks'[u].pc = "idle"
  BY DEF Crash, IdleTask
<1> PICK one : one = Head(tasks[t].left).payment
  OBVIOUS
<1>2. \A p \in Handed : p # one => ~Sends(tasks[t], p)
  BY DEF Sends, Pays
<1>3. \A p \in Handed : p # one => (AtRisk(queue', tasks'[t], p) => AtRisk(queue, tasks[t], p))
  BY <1>0, <1>1, <1>2 DEF AtRisk, Holds
<1>4. ASSUME one \in Handed
      PROVE  CostOf(booked'[one], AtRisk(queue', tasks'[t], one))
                 <= CostOf(booked[one], AtRisk(queue, tasks[t], one)) + 1
  <2>1. booked[one] \in Nat /\ booked'[one] = booked[one]
    BY <1>0, <1>4 DEF KeptInv, KeptTypes, Handed
  <2> QED BY <2>1 DEF CostOf
<1>5. LeftQueued(tasks[t])' /\ Unsent(tasks[t])' /\ OthersIdle(t)'
  BY <1>1 DEF LeftQueued, Unsent, OthersIdle
<1>6. faults' + crashes' >= faults + crashes + 1 /\ faults' \in Nat /\ crashes' \in Nat
  <2>1. faults \in Nat /\ crashes \in Nat
    BY DEF SoloInv
  <2> QED BY <1>0, <2>1
<1>7. 1 \in {0, 1} /\ \A p \in Handed : booked'[p] = booked[p]
  BY <1>0
<1> QED BY <1>0, <1>3, <1>4, <1>5, <1>6, <1>7, SoloStep

\* The network.
LEMMA NetworkSolo ==
    ASSUME KeptInv, KeptInv', TypesInv, TypesInv', SoloInv, NEW t \in Tasks, SoloAt(t),
           GoOnline \/ GoOffline \/ UNCHANGED vars
    PROVE  SoloAt(t)'
<1>0. UNCHANGED <<tender, booked, queue, tasks, faults, crashes>>
  BY DEF GoOnline, GoOffline, vars, serverVars, localVars, screenVars, bounds
<1>1. OnlyMoves(t) /\ LeftQueued(tasks[t])' /\ Unsent(tasks[t])'
  BY <1>0 DEF OnlyMoves, KeptInv, KeptTypes, SoloAt, LeftQueued, Unsent
<1> QED BY <1>0, <1>1, SoloQuiet

\* What a step does to the bounds.
LEMMA BoundsCount ==
    ASSUME SoloInv, [Next]_vars
    PROVE  faults' \in Nat /\ crashes' \in Nat /\ world' = world
<1>1. faults' \in {faults, faults + 1} /\ crashes' \in {crashes, crashes + 1} /\ world' = world
  BY DEF Next, Go, SyncStart, SyncEnter, CheckoutStart, PayStart, Flush, EndOfItems, SkipItem,
         Answered, Refused, PutFailed, NotSent, SaveItem, CompleteItem, SaveAnswer, LocalOrder,
         Lookup, ReadLocal, LocalPay, Enqueue, Fault, GoOnline, GoOffline, Crash, vars, bounds
<1> QED BY <1>1 DEF SoloInv

\* Every step leaves at most one task at work, and what it books again is paid for.
LEMMA NextSolo ==
    KeptInv /\ KeptInv' /\ TypesInv /\ TypesInv' /\ SoloInv /\ [Next]_vars => SoloInv'
<1> SUFFICES ASSUME KeptInv, KeptInv', TypesInv, TypesInv', SoloInv, [Next]_vars PROVE SoloInv'
  OBVIOUS
<1>0. faults' \in Nat /\ crashes' \in Nat /\ world' = world
  BY BoundsCount
<1> SUFFICES ASSUME world.exclusive PROVE \E t \in Tasks : SoloAt(t)'
  BY <1>0 DEF SoloInv
<1>1. CASE \E s \in Syncers : SyncStart(s) \/ SyncEnter(s)
  BY <1>1, SyncSolo DEF Tasks
<1>2. CASE CheckoutStart \/ PayStart
  BY <1>2, CheckoutSolo, PaySolo DEF Tasks
<1>3. ASSUME NEW t \in Tasks, Go(t) \/ Fault(t) PROVE SoloAt(t)'
  <2>1. tasks[t].pc # "idle"
    BY <1>3 DEF Go, Flush, EndOfItems, SkipItem, AtItem, Answered, Effect, PostsOrder, PostsPayment,
                Refused, PutFailed, NotSent, Fault, SaveItem, CompleteItem, SaveAnswer, LocalOrder,
                Lookup, ReadLocal, LocalPay, Enqueue
  <2>2. SoloAt(t)
    BY <2>1, SoloOf
  <2> QED BY <1>3, <2>2, FlushSolo, RequestSolo, PutFailedSolo, SnapshotSolo, CompleteSolo,
             ReturnSolo DEF Go
<1>4. CASE GoOnline \/ GoOffline \/ Crash \/ UNCHANGED vars
  <2>1. PICK t \in Tasks : SoloAt(t)
    BY DEF SoloInv
  <2> QED BY <1>4, <2>1, NetworkSolo, CrashSolo
<1> QED BY <1>1, <1>2, <1>3, <1>4 DEF Next

\* At the start nothing is booked.
LEMMA InitSolo == Init => SoloInv
<1> SUFFICES ASSUME Init PROVE SoloInv
  OBVIOUS
<1>1. Handed = {} /\ Till \in Tasks
  BY DEF Init, Handed, Tasks
<1>2. \A t \in Tasks : tasks[t].pc = "idle"
  BY DEF Init, IdleTask
<1>3. SumOver(Costs(tasks[Till]), Handed) = 0
  <2>1. KeptInv /\ TypesInv
    BY InitKept, InitTypes
  <2>2. Summable(Costs(tasks[Till])) /\ {} \in SUBSET DOMAIN Costs(tasks[Till])
    BY <2>1, CostsAreNatural
  <2> QED BY <1>1, <2>2, SumOverTyped
<1>4. SoloAt(Till)
  BY <1>1, <1>2, <1>3 DEF SoloAt, OthersIdle, LeftQueued, Unsent, Init
<1>5. faults \in Nat /\ crashes \in Nat
  BY DEF Init
<1> QED BY <1>1, <1>4, <1>5 DEF SoloInv

\* What is booked more than once.
Again(bookings) == [p \in {p \in Payments : bookings[p] > 0} |-> bookings[p] - 1]

LEMMA AgainIsSum ==
    ASSUME NEW bookings \in [Payments -> Nat], IsFiniteSet({p \in Payments : bookings[p] > 0})
    PROVE  LET T == {p \in Payments : bookings[p] > 0}
           IN  /\ Summable(Again(bookings)) /\ DOMAIN Again(bookings) = T
               /\ MapThenSumSet(LAMBDA p : bookings[p] - 1, T) = SumOver(Again(bookings), T)
<1> DEFINE T == {p \in Payments : bookings[p] > 0}
           val == Again(bookings)
           Body(g) == [s \in SUBSET T |->
                          IF s = {} THEN 0
                          ELSE bookings[CHOOSE x \in s : TRUE] - 1
                                   + g[s \ {CHOOSE x \in s : TRUE}]]
<1>1. Summable(val) /\ DOMAIN val = T
  <2>1. \A p \in T : bookings[p] - 1 \in Int
    OBVIOUS
  <2> QED BY <2>1 DEF Summable, Again
<1>2. ASSUME NEW g PROVE g = Body(g) <=> Sums(g, T, Anyone(T), val)
  <2> DEFINE Left(s) == IF s = {} THEN 0
                        ELSE bookings[CHOOSE x \in s : TRUE] - 1
                                 + g[s \ {CHOOSE x \in s : TRUE}]
             Right(s) == IF s = {} THEN 0 ELSE val[Anyone(T)[s]] + g[s \ {Anyone(T)[s]}]
  <2>1. ASSUME NEW s \in SUBSET T PROVE Left(s) = Right(s)
    <3>1. CASE s = {}
      BY <3>1
    <3>2. CASE s # {}
      <4>1. Anyone(T)[s] = (CHOOSE x \in s : TRUE) /\ Anyone(T)[s] \in s
        BY <3>2, AnyonePicks DEF Anyone, Picks
      <4> QED BY <3>2, <4>1 DEF Again
    <3> QED BY <3>1, <3>2
  <2> HIDE DEF Left, Right
  <2>2. [s \in SUBSET T |-> Left(s)] = [s \in SUBSET T |-> Right(s)]
    BY <2>1
  <2> QED BY <2>2 DEF Sums, Left, Right
<1>3. \E g : g = Body(g)
  <2>1. PICK g : IsSum(g, T, Anyone(T), val)
    BY <1>1, AnyonePicks, SumsExist DEF Summable
  <2>2. Sums(g, T, Anyone(T), val)
    BY <2>1 DEF IsSum
  <2>3. g = Body(g)
    BY <1>2, <2>2
  <2> HIDE DEF Body
  <2> QED BY <2>3
<1> DEFINE it == CHOOSE g : g = Body(g)
<1>4. it = Body(it)
  <2> HIDE DEF Body
  <2> QED BY <1>3, Zenon
<1>5. MapThenSumSet(LAMBDA p : bookings[p] - 1, T) = it[T]
  BY DEF MapThenSumSet, MapThenFoldSet
<1> HIDE DEF it
<1>6. IsSum(it, T, Anyone(T), val)
  <2>1. Sums(it, T, Anyone(T), val)
    BY <1>2, <1>4
  <2> QED BY <1>1, <2>1, AnyonePicks, SumsAreSums DEF Summable
<1>7. it[T] = SumOver(val, T)
  BY <1>1, <1>6, SumOverEquals
<1> QED BY <1>1, <1>5, <1>7

\* What is booked again costs at least that.
LEMMA SoloImplied == KeptInv /\ TypesInv /\ SoloInv => RebookingIsExplained
<1> SUFFICES ASSUME KeptInv, TypesInv, SoloInv, world.exclusive
             PROVE  MapThenSumSet(LAMBDA p : booked[p] - 1, {p \in Payments : booked[p] > 0})
                        <= faults + crashes
  BY DEF RebookingIsExplained
<1>1. PICK t \in Tasks : SoloAt(t)
  BY DEF SoloInv
<1> DEFINE T == {p \in Payments : booked[p] > 0}
           val == Again(booked)
           c == Costs(tasks[t])
<1>2. T \subseteq Handed /\ IsFiniteSet(T) /\ booked \in [Payments -> Nat]
  <2>1. T \subseteq Handed /\ IsFiniteSet(Handed) /\ booked \in [Payments -> Nat]
    BY DEF TypesInv, ScreenOK, KeptInv, KeptTypes
  <2> QED BY <2>1, FS_Subset
<1>3. /\ Summable(val) /\ DOMAIN val = T
      /\ MapThenSumSet(LAMBDA p : booked[p] - 1, T) = SumOver(val, T)
  BY <1>2, AgainIsSum
<1>4. /\ Summable(c) /\ DOMAIN c = Handed
      /\ \A p \in Handed : c[p] = CostOf(booked[p], AtRisk(queue, tasks[t], p)) /\ c[p] >= 0
  BY CostsAreNatural
<1>5. \A p \in T : val[p] <= c[p]
  <2>1. ASSUME NEW p \in T PROVE val[p] <= c[p]
    <3>1. val[p] = booked[p] - 1 /\ booked[p] \in Nat /\ booked[p] > 0
      BY <1>2 DEF Again
    <3>2. c[p] = CostOf(booked[p], AtRisk(queue, tasks[t], p))
      BY <1>2, <1>4
    <3> HIDE DEF c, val
    <3> QED BY <3>1, <3>2 DEF CostOf
  <2> QED BY <2>1
<1>6. SumOver(c, Handed) <= faults + crashes /\ faults \in Nat /\ crashes \in Nat
  BY <1>1 DEF SoloAt, SoloInv
<1>7. T \in SUBSET DOMAIN val /\ T \subseteq DOMAIN c
  BY <1>2, <1>3, <1>4
<1> HIDE DEF c, val, T
<1>8. SumOver(val, T) <= SumOver(c, T)
  BY <1>3, <1>4, <1>5, <1>7, SumOverAtMost
<1>9. SumOver(c, T) <= SumOver(c, Handed)
  <2>1. Handed \in SUBSET DOMAIN c /\ T \in SUBSET Handed
    BY <1>2, <1>4
  <2> QED BY <1>4, <2>1, SumOverPart
<1>10. SumOver(val, T) \in Int /\ SumOver(c, T) \in Int /\ SumOver(c, Handed) \in Int
  <2>1. Handed \in SUBSET DOMAIN c /\ T \in SUBSET DOMAIN c
    BY <1>2, <1>4
  <2> QED BY <1>3, <1>4, <1>7, <2>1, SumOverTyped
<1>11. SumOver(val, T) <= faults + crashes
  BY <1>6, <1>8, <1>9, <1>10
<1> QED BY <1>3, <1>11 DEF T

\* Payments are booked again only at the price of a lost answer or a kill, as long as no
\* two tasks of the till overlap (addPayment and syncPendingQueue).
THEOREM ClientRebookingIsExplained == Spec => []RebookingIsExplained
<1>1. KeptInv /\ TypesInv /\ SoloInv /\ [Next]_vars => (KeptInv /\ TypesInv /\ SoloInv)'
  BY NextKeeps, NextTypes, NextSolo
<1> QED BY <1>1, InitKept, InitTypes, InitSolo, SoloImplied, PTL DEF Spec

-----------------------------------------------------------------------------
(* An order in the local database is as the server has it, or waits in the *)
(* queue, or is in the hands of the task at work; an answer is not stale   *)
(* when it is saved, for no one else has made a request since.             *)

Waits(o) == \E item \in ToSet(queue) : item.order = o

Agreed(o) == o \in created /\ snaps[o] = Snap("synced", Received(o))

BusyPlaces == {"saveAnswer", "queueOrder", "readLocal", "localPay", "queuePay"}

Busy(q, o) == q.order = o /\ q.pc \in BusyPlaces

Fresh(q) ==
    /\ q.pc = "saveAnswer" => q.received = Received(q.order)
    /\ q.pc = "saveItem" => q.received = Received(Head(q.left).order)
    /\ q.pc = "complete" => Agreed(Head(q.left).order)

AgreeAt(t) ==
    /\ \A o \in OrderNos : Known(o) => Waits(o) \/ Agreed(o) \/ Busy(tasks[t], o) \/ o \in misled
    /\ Fresh(tasks[t])

AgreeInv == (world.exclusive /\ crashes = 0) => \E t \in Tasks : OthersIdle(t) /\ AgreeAt(t)

\* What the server has booked for an order, now and after a step.
LEMMA ReceivedIs ==
    ASSUME NEW o
    PROVE  Received(o) = TotalAt(tender, booked, o) /\ Received(o)' = TotalAt(tender', booked', o)
  BY DEF Received, TotalOf, TotalAt, MapThenSumSet, MapThenFoldSet

\* A step that touches at most one order.
LEMMA AgreeStep ==
    ASSUME NEW t \in Tasks, AgreeAt(t), created \subseteq created', NEW one,
           \A o \in OrderNos : o # one => snaps'[o] = snaps[o],
           \A o \in OrderNos : o # one => TotalAt(tender', booked', o) = TotalAt(tender, booked, o),
           \A item \in ToSet(queue) : item.order # one => item \in ToSet(queue'),
           \A o \in OrderNos : o # one /\ Busy(tasks[t], o) => Busy(tasks'[t], o),
           \A o \in misled : o # one => o \in misled',
           one \in OrderNos =>
               Waits(one)' \/ Agreed(one)' \/ Busy(tasks'[t], one) \/ one \in misled',
           Fresh(tasks[t])'
    PROVE  AgreeAt(t)'
<1>1. ASSUME NEW o \in OrderNos, Known(o)', o # one
      PROVE  Waits(o)' \/ Agreed(o)' \/ Busy(tasks'[t], o) \/ o \in misled'
  <2>1. Known(o)
    BY <1>1 DEF Known
  <2>2. CASE Waits(o)
    BY <1>1, <2>2 DEF Waits
  <2>3. CASE Agreed(o)
    <3>1. o \in created' /\ snaps'[o] = Snap("synced", Received(o))
      BY <1>1, <2>3 DEF Agreed
    <3>2. Received(o)' = Received(o)
      BY <1>1, ReceivedIs
    <3> QED BY <3>1, <3>2 DEF Agreed, Snap
  <2>4. CASE Busy(tasks[t], o)
    BY <1>1, <2>4
  <2>5. CASE o \in misled
    BY <1>1, <2>5
  <2> QED BY <2>1, <2>2, <2>3, <2>4, <2>5 DEF AgreeAt
<1>2. \A o \in OrderNos :
          Known(o)' => Waits(o)' \/ Agreed(o)' \/ Busy(tasks'[t], o) \/ o \in misled'
  BY <1>1
<1> QED BY <1>2 DEF AgreeAt, Busy

\* A step that touches none.
LEMMA AgreeQuiet ==
    ASSUME NEW t \in Tasks, AgreeAt(t), created \subseteq created',
           UNCHANGED <<booked, tender, snaps, queue>>, misled \subseteq misled',
           \A o \in OrderNos : Busy(tasks[t], o) => Busy(tasks'[t], o), Fresh(tasks[t])'
    PROVE  AgreeAt(t)'
<1> PICK one : one = NoOrder
  OBVIOUS
<1>1. one \notin OrderNos
  BY ClientAssumption
<1>2. \A o \in OrderNos : TotalAt(tender', booked', o) = TotalAt(tender, booked, o)
  OBVIOUS
<1> QED BY <1>1, <1>2, AgreeStep

\* The task has no order in hand, and no answer after the step.
LEMMA AgreeIdly ==
    ASSUME NEW t \in Tasks, AgreeAt(t), created \subseteq created',
           UNCHANGED <<booked, tender, snaps, queue>>, misled \subseteq misled',
           tasks[t].pc \notin BusyPlaces,
           tasks'[t].pc \notin {"saveAnswer", "saveItem", "complete"}
    PROVE  AgreeAt(t)'
<1>1. Fresh(tasks[t])'
  BY DEF Fresh
<1>2. \A o \in OrderNos : Busy(tasks[t], o) => Busy(tasks'[t], o)
  BY DEF Busy
<1> QED BY <1>1, <1>2, AgreeQuiet

\* The loop of syncPendingQueue, apart from its requests.
LEMMA FlushAgree ==
    ASSUME KeptInv, NEW t \in Tasks, AgreeAt(t), Flush(t) \/ EndOfItems(t) \/ SkipItem(t)
    PROVE  AgreeAt(t)'
<1>0. /\ TaskOK(tasks[t]) /\ DOMAIN tasks = Tasks
      /\ UNCHANGED <<tender, booked, queue, snaps, created, misled>>
      /\ tasks[t].pc \in {"flush", "item"} /\ tasks[t].pc \notin BusyPlaces
  BY DEF KeptInv, KeptTypes, Flush, EndOfItems, SkipItem, AtItem,
         serverVars, localVars, screenVars, bounds, BusyPlaces
<1>1. tasks'[t].pc \in {"postOrder", "lookup", "idle", "flush", "item"}
  <2>1. CASE AfterFlush(t)
    BY <1>0, <2>1, AfterFlushFields
  <2>2. CASE EndOfItems(t) /\ Goto(t, "flush")
    BY <2>2, GotoFields
  <2>3. CASE tasks' = [tasks EXCEPT ![t].pc = "item", ![t].left = queue, ![t].progress = FALSE]
    <3>1. tasks'[t] = [tasks[t] EXCEPT !.pc = "item", !.left = queue, !.progress = FALSE]
      BY <1>0, <2>3
    <3> QED BY <1>0, <3>1 DEF TaskOK, TaskFields
  <2>4. CASE SkipItem(t)
    <3>1. tasks'[t] = [tasks[t] EXCEPT !.left = Tail(@)]
      BY <1>0, <2>4 DEF SkipItem
    <3> QED BY <1>0, <3>1 DEF TaskOK, TaskFields
  <2> QED BY <2>1, <2>2, <2>3, <2>4 DEF Flush, EndOfItems
<1>2. tasks'[t].pc \notin {"saveAnswer", "saveItem", "complete"}
  BY <1>1
<1> QED BY <1>0, <1>2, AgreeIdly

\* What the server books is booked for one order only.
LEMMA EffectTotals ==
    ASSUME KeptInv, TypesInv, NEW t \in Tasks, Effect(t), UNCHANGED tender
    PROVE  /\ \A o \in OrderNos : o # Subject(t).order =>
                 TotalAt(tender', booked', o) = TotalAt(tender, booked, o)
           /\ created \subseteq created'
           /\ booked' = booked \/ PostsPayment(t)
<1>1. CASE PostsOrder(t) /\ created' = created \cup {Subject(t).order} /\ UNCHANGED booked
  BY <1>1
<1>2. CASE /\ PostsPayment(t) /\ UNCHANGED created
           /\ booked' = [booked EXCEPT ![Subject(t).payment] = @ + 1]
  <2>1. tender[Subject(t).payment].order = Subject(t).order
    BY <1>2, SubjectTypes
  <2>2. booked \in [Payments -> Nat] /\ tender \in TenderType /\ IsFiniteSet(HandedIn(tender))
    BY DEF KeptInv, KeptTypes, TypesInv, ScreenOK, Handed, HandedIn
  <2>3. booked' \in [Payments -> Nat]
    BY EffectTypes DEF ServerGrows
  <2>4. ASSUME NEW o \in OrderNos, o # Subject(t).order
        PROVE  TotalAt(tender', booked', o) = TotalAt(tender, booked, o)
    <3>1. \A p \in PaymentsOf(tender, o) : booked[p] = booked'[p]
      BY <1>2, <2>1, <2>2, <2>4 DEF PaymentsOf
    <3> QED BY <2>2, <2>3, <3>1, TotalStays
  <2> QED BY <1>2, <2>4
<1> QED BY <1>1, <1>2 DEF Effect

\* An entry in hand is queued for its order.
LEMMA SubjectWaits ==
    ASSUME KeptInv, TypesInv, NEW t \in Tasks, SoloAt(t), PostsOrder(t) \/ PostsPayment(t),
           tasks[t].pc = "item", UNCHANGED queue, NEW one, one = Subject(t).order
    PROVE  Waits(one)'
<1>1. tasks[t].left # <<>> /\ tasks[t].left \in Seq(Items) /\ Subject(t) = Head(tasks[t].left)
  BY SubjectTypes DEF KeptInv, TaskOK
<1>2. ToSet(tasks[t].left) \subseteq ToSet(queue)
  BY DEF SoloAt, LeftQueued
<1>3. Head(tasks[t].left) \in ToSet(queue)
  BY <1>1, <1>2, TailEntries
<1> QED BY <1>1, <1>3 DEF Waits

\* An answer.
LEMMA AnsweredAgree ==
    ASSUME KeptInv, KeptInv', TypesInv, TypesInv', NEW t \in Tasks, SoloAt(t), AgreeAt(t), Answered(t)
    PROVE  AgreeAt(t)'
<1>0. UNCHANGED <<tender, queue, snaps, misled>> /\ Effect(t)
  BY DEF Answered, localVars, screenVars
<1>1. /\ PostsOrder(t) \/ PostsPayment(t)
      /\ tasks[t].pc \in {"item", "postOrder", "postPay"} /\ tasks[t].pc \notin BusyPlaces
      /\ tasks[t].pc # "item" => Subject(t).order = tasks[t].order
      /\ tasks[t].pc = "item" => Subject(t) = Head(tasks[t].left)
  BY <1>0, EffectTypes, SubjectTypes DEF BusyPlaces
<1>2. /\ tasks'[t].order = tasks[t].order /\ tasks'[t].left = tasks[t].left
      /\ tasks'[t].received = TotalAt(tender, booked', Subject(t).order)
      /\ tasks'[t].pc = IF tasks[t].pc = "item" THEN "saveItem" ELSE "saveAnswer"
  BY AnsweredFields
<1> PICK one : one = Subject(t).order
  OBVIOUS
<1>3. tasks'[t].received = Received(one)'
  BY <1>0, <1>2, ReceivedIs
<1>4. Fresh(tasks[t])'
  <2>1. CASE tasks[t].pc = "item"
    <3>1. tasks'[t].pc = "saveItem" /\ Head(tasks'[t].left).order = one
      BY <1>1, <1>2, <2>1
    <3> QED BY <1>3, <3>1 DEF Fresh
  <2>2. CASE tasks[t].pc # "item"
    <3>1. tasks'[t].pc = "saveAnswer" /\ tasks'[t].order = one
      BY <1>1, <1>2, <2>2
    <3> QED BY <1>3, <3>1 DEF Fresh
  <2> QED BY <2>1, <2>2
<1>5. Waits(one)' \/ Busy(tasks'[t], one)
  <2>1. CASE tasks[t].pc = "item"
    BY <1>0, <1>1, <2>1, SubjectWaits
  <2>2. CASE tasks[t].pc # "item"
    BY <1>1, <1>2, <2>2 DEF Busy, BusyPlaces
  <2> QED BY <2>1, <2>2
<1>6. \A o \in OrderNos : o # one /\ Busy(tasks[t], o) => Busy(tasks'[t], o)
  BY <1>1 DEF Busy
<1>7. /\ \A o \in OrderNos : o # one => TotalAt(tender', booked', o) = TotalAt(tender, booked, o)
      /\ created \subseteq created'
  BY <1>0, EffectTotals
<1> QED BY <1>0, <1>4, <1>5, <1>6, <1>7, AgreeStep

\* A request that is not answered.
LEMMA UnansweredAgree ==
    ASSUME KeptInv, KeptInv', TypesInv, TypesInv', NEW t \in Tasks, SoloAt(t), AgreeAt(t),
           Refused(t) \/ NotSent(t) \/ Fault(t)
    PROVE  AgreeAt(t)'
<1>0. /\ PostsOrder(t) \/ PostsPayment(t)
      /\ UNCHANGED <<tender, queue, snaps>> /\ misled \subseteq misled'
      /\ Rejected(t) \/ Disconnected(t)
  BY DEF Refused, NotSent, Fault, localVars, screenVars
<1>1. /\ tasks[t].pc \in {"item", "postOrder", "postPay"} /\ tasks[t].pc \notin BusyPlaces
      /\ tasks[t].pc # "item" => Subject(t).order = tasks[t].order
  BY <1>0, SubjectTypes DEF BusyPlaces
<1>2. tasks'[t].pc \in {"idle", "item", "failed", "postOrder", "lookup", "localOrder", "readLocal"}
  <2>1. CASE Rejected(t)
    BY <2>1, PassOnFields, GotoFields DEF Rejected, IdleTask, KeptInv, KeptTypes
  <2>2. CASE Disconnected(t) /\ tasks[t].pc = "item"
    BY <2>2, AfterFlushFields DEF Disconnected
  <2>3. CASE Disconnected(t) /\ tasks[t].pc # "item"
    BY <2>3, GotoFields DEF Disconnected
  <2> QED BY <1>0, <2>1, <2>2, <2>3
<1>3. tasks'[t].pc \notin {"saveAnswer", "saveItem", "complete"}
  BY <1>2
<1>4. CASE UNCHANGED serverVars
  BY <1>0, <1>1, <1>3, <1>4, AgreeIdly DEF serverVars
<1>5. CASE /\ Effect(t)
           /\ \/ Disconnected(t)
              \/ /\ Rejected(t)
                 /\ misled' = misled \cup {o \in {tasks[t].order} : tasks[t].pc = "postPay"}
  <2> PICK one : one = Subject(t).order
    OBVIOUS
  <2>1. /\ \A o \in OrderNos : o # one => TotalAt(tender', booked', o) = TotalAt(tender, booked, o)
        /\ created \subseteq created' /\ (booked' = booked \/ PostsPayment(t))
    BY <1>0, <1>5, EffectTotals
  <2>2. CASE booked' = booked
    BY <1>0, <1>1, <1>3, <2>1, <2>2, AgreeIdly
  <2>3. CASE PostsPayment(t)
    <3>1. Waits(one)' \/ Busy(tasks'[t], one) \/ one \in misled'
      <4>1. CASE tasks[t].pc = "item"
        BY <1>0, <4>1, SubjectWaits
      <4>2. CASE tasks[t].pc # "item" /\ Disconnected(t)
        <5>1. tasks[t].pc = "postPay"
          BY <2>3, <4>2 DEF PostsPayment, AtItem
        <5>2. Goto(t, "readLocal")
          BY <4>2, <5>1 DEF Disconnected
        <5>3. tasks'[t].pc = "readLocal" /\ tasks'[t].order = tasks[t].order
          BY <5>2, GotoFields
        <5> QED BY <1>1, <4>2, <5>3 DEF Busy, BusyPlaces
      <4>3. CASE /\ tasks[t].pc # "item"
                 /\ misled' = misled \cup {o \in {tasks[t].order} : tasks[t].pc = "postPay"}
        <5>1. tasks[t].pc = "postPay"
          BY <2>3, <4>3 DEF PostsPayment, AtItem
        <5> QED BY <1>1, <1>5, <4>3, <5>1
      <4> QED BY <1>5, <4>1, <4>2, <4>3
    <3>2. \A o \in OrderNos : o # one /\ Busy(tasks[t], o) => Busy(tasks'[t], o)
      BY <1>1 DEF Busy
    <3>3. Fresh(tasks[t])'
      BY <1>3 DEF Fresh
    <3> QED BY <1>0, <2>1, <3>1, <3>2, <3>3, AgreeStep
  <2> QED BY <2>1, <2>2, <2>3
<1> QED BY <1>4, <1>5 DEF Refused, NotSent, Fault, serverVars

\* A snapshot is written of one order.
LEMMA WrittenAgree ==
    ASSUME KeptInv, TypesInv, NEW t \in Tasks, AgreeAt(t), NEW one \in OrderNos, NEW snap,
           snaps' = [snaps EXCEPT ![one] = snap], UNCHANGED <<serverVars, tender>>,
           ToSet(queue) \subseteq ToSet(queue'),
           \A o \in OrderNos : Busy(tasks[t], o) => o = one,
           \A o \in misled : o # one => o \in misled',
           (one \in created /\ snap = Snap("synced", Received(one))) \/ Busy(tasks'[t], one),
           Fresh(tasks[t])'
    PROVE  AgreeAt(t)'
<1>1. snaps'[one] = snap /\ \A o \in OrderNos : o # one => snaps'[o] = snaps[o]
  BY DEF TypesInv, SnapsOK
<1>2. \A o : TotalAt(tender', booked', o) = TotalAt(tender, booked, o)
  BY DEF serverVars
<1>3. Agreed(one)' \/ Busy(tasks'[t], one)
  <2>1. Received(one)' = Received(one) /\ created' = created
    BY <1>2, ReceivedIs DEF serverVars
  <2> QED BY <1>1, <2>1 DEF Agreed, Snap
<1>4. created \subseteq created'
  BY DEF serverVars
<1> QED BY <1>1, <1>2, <1>3, <1>4, AgreeStep

\* Local transactions that only write snapshots, and the reads before them.
LEMMA SnapshotAgree ==
    ASSUME KeptInv, KeptInv', TypesInv, TypesInv', NEW t \in Tasks, AgreeAt(t),
           SaveItem(t) \/ LocalOrder(t) \/ Lookup(t) \/ ReadLocal(t) \/ LocalPay(t)
    PROVE  AgreeAt(t)'
<1>0. /\ TaskOK(tasks[t]) /\ Vouched(tasks[t]) /\ PlaceOK(tasks[t]) /\ Fresh(tasks[t])
      /\ DOMAIN tasks = Tasks /\ snaps \in [OrderNos -> [state : States, received : Nat]]
      /\ UNCHANGED <<serverVars, tender, queue>> /\ UNCHANGED <<booked, created>>
      /\ SaveItem(t) \/ UNCHANGED misled
  BY DEF KeptInv, KeptTypes, TypesInv, TaskTypes, SnapsOK, AgreeAt, SaveItem, LocalOrder, Lookup,
         ReadLocal, LocalPay, serverVars, localVars, screenVars
<1>1. CASE SaveItem(t)
  <2>1. tasks[t].pc = "saveItem" /\ tasks[t].left # <<>> /\ tasks[t].left \in Seq(Items)
    BY <1>0, <1>1 DEF SaveItem, Vouched, TaskOK
  <2> PICK one : one = Head(tasks[t].left).order
    OBVIOUS
  <2>2. one \in OrderNos /\ one \in created /\ tasks[t].received = Received(one)
    BY <1>0, <2>1, TailEntries DEF Items, PlaceOK, Fresh
  <2>3. tasks'[t].pc = "complete" /\ tasks'[t].left = tasks[t].left
    BY <1>1, GotoFields DEF SaveItem
  <2> PICK snap : snap = Snap("synced", Received(one))
    OBVIOUS
  <2>4. snaps' = [snaps EXCEPT ![one] = snap]
    BY <1>1, <2>2 DEF SaveItem
  <2>5. Fresh(tasks[t])'
    <3>1. Received(one)' = Received(one)
      BY <1>0, ReceivedIs
    <3>2. snaps'[one] = snap
      BY <1>0, <2>2, <2>4
    <3>3. Agreed(one)'
      BY <1>0, <2>2, <3>1, <3>2 DEF Agreed, Snap
    <3> QED BY <2>3, <3>3 DEF Fresh
  <2>6. \A o \in OrderNos : ~Busy(tasks[t], o)
    BY <2>1 DEF Busy, BusyPlaces
  <2>7. \A o \in misled : o # one => o \in misled'
    BY <1>1 DEF SaveItem
  <2> QED BY <1>0, <2>2, <2>4, <2>5, <2>6, <2>7, WrittenAgree
<1>2. CASE LocalOrder(t)
  <2>1. /\ tasks[t].pc = "localOrder" /\ tasks[t].order \in OrderNos
        /\ misled' = misled
    BY <1>0, <1>2 DEF LocalOrder, TaskOK, Place, screenVars
  <2> PICK one : one = tasks[t].order
    OBVIOUS
  <2>2. tasks'[t].pc = "queueOrder" /\ tasks'[t].order = one
    BY <1>2, GotoFields DEF LocalOrder
  <2>3. Fresh(tasks[t])' /\ Busy(tasks'[t], one)
    BY <2>2 DEF Fresh, Busy, BusyPlaces
  <2>4. \A o \in OrderNos : ~Busy(tasks[t], o)
    BY <2>1 DEF Busy, BusyPlaces
  <2>5. snaps' = [snaps EXCEPT ![one] = Snap("local", 0)]
    BY <1>2 DEF LocalOrder
  <2> QED BY <1>0, <2>1, <2>3, <2>4, <2>5, WrittenAgree
<1>3. CASE LocalPay(t)
  <2>1. /\ tasks[t].pc = "localPay" /\ tasks[t].order \in OrderNos
        /\ misled' = misled
    BY <1>0, <1>3 DEF LocalPay, TaskOK, Place, screenVars
  <2> PICK one : one = tasks[t].order
    OBVIOUS
  <2>2. tasks'[t].pc = "queuePay" /\ tasks'[t].order = one
    BY <1>3, GotoFields DEF LocalPay
  <2>3. Fresh(tasks[t])' /\ Busy(tasks'[t], one)
    BY <2>2 DEF Fresh, Busy, BusyPlaces
  <2>4. \A o \in OrderNos : Busy(tasks[t], o) => o = one
    BY DEF Busy
  <2> PICK snap : snap = Snap(tasks[t].state, tasks[t].received)
    OBVIOUS
  <2>5. snaps' = [snaps EXCEPT ![one] = snap]
    BY <1>3 DEF LocalPay
  <2> QED BY <1>0, <2>1, <2>3, <2>4, <2>5, WrittenAgree
<1>4. CASE Lookup(t)
  <2>1. /\ tasks[t].pc = "lookup" /\ snaps' = snaps /\ misled' = misled
        /\ tasks'[t].pc \in {"postPay", "readLocal"}
    BY <1>4, GotoFields DEF Lookup, localVars, screenVars
  <2>2. /\ tasks[t].pc \notin BusyPlaces
        /\ tasks'[t].pc \notin {"saveAnswer", "saveItem", "complete"}
    BY <2>1 DEF BusyPlaces
  <2> QED BY <1>0, <2>1, <2>2, AgreeIdly
<1>5. CASE ReadLocal(t)
  <2> DEFINE received == snaps[tasks[t].order].received + tender[tasks[t].payment].amount
             state == snaps[tasks[t].order].state
  <2>1. /\ snaps' = snaps /\ misled' = misled
        /\ tasks'[t] = [tasks[t] EXCEPT !.pc = "localPay", !.received = received, !.state = state]
    BY <1>0, <1>5 DEF ReadLocal, localVars, screenVars
  <2> HIDE DEF received, state
  <2>2. tasks'[t].order = tasks[t].order /\ tasks'[t].pc = "localPay"
    BY <1>0, <2>1 DEF TaskOK, TaskFields
  <2>3. Fresh(tasks[t])' /\ \A o \in OrderNos : Busy(tasks[t], o) => Busy(tasks'[t], o)
    BY <2>2 DEF Fresh, Busy, BusyPlaces
  <2> QED BY <1>0, <2>1, <2>3, AgreeQuiet
<1> QED BY <1>1, <1>2, <1>3, <1>4, <1>5

\* The order of an entry that leaves the queue is as the server has it.
LEMMA CompleteAgree ==
    ASSUME KeptInv, TypesInv, NEW t \in Tasks, AgreeAt(t), CompleteItem(t)
    PROVE  AgreeAt(t)'
<1>0. /\ TaskOK(tasks[t]) /\ Vouched(tasks[t]) /\ DOMAIN tasks = Tasks /\ Fresh(tasks[t])
      /\ tasks[t].pc = "complete" /\ queue \in Seq(Items) /\ IsInjective(queue)
      /\ UNCHANGED <<tender, booked, created, snaps, misled>>
  BY DEF KeptInv, KeptTypes, TypesInv, QueueOK, AgreeAt, CompleteItem, serverVars, screenVars
<1>2. tasks'[t].pc = "item"
  BY PassOnFields DEF CompleteItem
<1> PICK first : first = Head(tasks[t].left)
  OBVIOUS
<1> PICK one : one = first.order
  OBVIOUS
<1>3. ToSet(queue') = ToSet(queue) \ {first}
  BY <1>0, WithoutInjective DEF CompleteItem
<1>4. Agreed(one)'
  <2>1. Agreed(one)
    BY <1>0 DEF Fresh
  <2>2. Received(one)' = Received(one)
    BY <1>0, ReceivedIs
  <2> QED BY <1>0, <2>1, <2>2 DEF Agreed, Snap
<1>5. \A item \in ToSet(queue) : item.order # one => item \in ToSet(queue')
  BY <1>3
<1>6. Fresh(tasks[t])' /\ \A o \in OrderNos : ~Busy(tasks[t], o)
  BY <1>0, <1>2 DEF Fresh, Busy, BusyPlaces
<1>7. \A o \in OrderNos : TotalAt(tender', booked', o) = TotalAt(tender, booked, o)
  BY <1>0
<1> QED BY <1>0, <1>4, <1>5, <1>6, <1>7, AgreeStep

\* Putting an entry back changes nothing.
LEMMA PutFailedAgree ==
    ASSUME KeptInv, NEW t \in Tasks, SoloAt(t), AgreeAt(t), PutFailed(t)
    PROVE  AgreeAt(t)'
<1>1. /\ UNCHANGED <<tender, booked, created, snaps, queue, misled>>
      /\ tasks[t].pc = "failed" /\ PassOn(t)
  BY PutBack, PutFailedOK DEF PutFailed, screenVars
<1>2. tasks'[t].pc = "item"
  BY <1>1, PassOnFields
<1>3. tasks[t].pc \notin BusyPlaces /\ tasks'[t].pc \notin {"saveAnswer", "saveItem", "complete"}
  BY <1>1, <1>2 DEF BusyPlaces
<1> QED BY <1>1, <1>3, AgreeIdly

\* createOrder and addPayment report success.
LEMMA ReturnAgree ==
    ASSUME KeptInv, TypesInv, NEW t \in Tasks, AgreeAt(t), SaveAnswer(t) \/ Enqueue(t)
    PROVE  AgreeAt(t)'
<1>0. /\ TaskOK(tasks[t]) /\ TaskTypes(tasks[t]) /\ Fresh(tasks[t]) /\ DOMAIN tasks = Tasks
      /\ queue \in Seq(Items)
      /\ UNCHANGED <<serverVars, tender>> /\ UNCHANGED <<booked, created>>
      /\ tasks[t].pc \in {"saveAnswer", "queueOrder", "queuePay"}
  BY DEF KeptInv, KeptTypes, TypesInv, AgreeAt, SaveAnswer, Enqueue, serverVars
<1>1. PICK received : Return(t, received)
  BY DEF SaveAnswer, Enqueue
<1>2. tasks'[t].pc = "idle"
  BY <1>0, <1>1 DEF Return, IdleTask
<1>3. Fresh(tasks[t])'
  BY <1>2 DEF Fresh
<1> PICK one : one = tasks[t].order
  OBVIOUS
<1>4. one \in OrderNos /\ \A o \in OrderNos : Busy(tasks[t], o) => o = one
  BY <1>0 DEF TaskOK, Place, Busy
<1>5. CASE SaveAnswer(t)
  <2>1. tasks[t].pc = "saveAnswer" /\ queue' = queue
    BY <1>5 DEF SaveAnswer
  <2>2. one \in created /\ tasks[t].received = Received(one)
    BY <1>0, <2>1 DEF TaskTypes, PlaceOK, Fresh
  <2> PICK snap : snap = Snap("synced", Received(one))
    OBVIOUS
  <2>3. snaps' = [snaps EXCEPT ![one] = snap]
    BY <1>5, <2>2 DEF SaveAnswer
  <2>4. \A o \in misled : o # one => o \in misled'
    BY <1>5 DEF SaveAnswer
  <2> QED BY <1>0, <1>3, <1>4, <2>1, <2>2, <2>3, <2>4, WrittenAgree
<1>6. CASE Enqueue(t)
  <2> PICK entry : entry = IF tasks[t].pc = "queueOrder" THEN OrderItem(tasks[t].order)
                                                         ELSE PaymentItem(tasks[t].payment)
    OBVIOUS
  <2>1. /\ queue' = Append(queue, entry) /\ tasks[t].pc \in {"queueOrder", "queuePay"}
        /\ UNCHANGED <<snaps, misled>>
    BY <1>6 DEF Enqueue
  <2>2. entry.order = one
    <3>1. CASE tasks[t].pc = "queueOrder"
      BY <3>1 DEF OrderItem
    <3>2. CASE tasks[t].pc = "queuePay"
      <4>1. tasks[t].op = "pay"
        BY <1>0, <3>2 DEF TaskOK, Place
      <4> QED BY <1>0, <3>2, <4>1 DEF TaskTypes, FreshOK, PaymentItem
    <3> QED BY <2>1, <3>1, <3>2
  <2>3. entry \in ToSet(queue') /\ ToSet(queue) \subseteq ToSet(queue')
    <3>1. /\ \A i \in DOMAIN queue : i \in DOMAIN queue' /\ queue'[i] = queue[i]
          /\ Len(queue) + 1 \in DOMAIN queue' /\ queue'[Len(queue) + 1] = entry
      BY <1>0, <2>1
    <3> QED BY <3>1 DEF ToSet
  <2>4. Waits(one)'
    BY <2>2, <2>3 DEF Waits
  <2>5. /\ \A item \in ToSet(queue) : item.order # one => item \in ToSet(queue')
        /\ \A o \in OrderNos : TotalAt(tender', booked', o) = TotalAt(tender, booked, o)
        /\ created \subseteq created'
    BY <1>0, <2>3
  <2> QED BY <1>3, <1>4, <2>1, <2>4, <2>5, AgreeStep
<1> QED BY <1>5, <1>6

\* Where no task is at work, any of them may begin.
LEMMA AgreeOfIdle ==
    ASSUME KeptInv, AgreeInv, world.exclusive, crashes = 0, NEW t \in Tasks, MayStart(t)
    PROVE  AgreeAt(t)
<1>1. PICK u \in Tasks : AgreeAt(u)
  BY DEF AgreeInv
<1>2. tasks[t].pc = "idle" /\ tasks[u].pc = "idle"
  BY DEF MayStart
<1>3. \A o \in OrderNos : ~Busy(tasks[u], o)
  BY <1>2 DEF Busy, BusyPlaces
<1>4. Fresh(tasks[t])
  BY <1>2 DEF Fresh
<1> QED BY <1>1, <1>3, <1>4 DEF AgreeAt

\* The beginning of a flush by OfflineSyncService.
LEMMA SyncAgree ==
    ASSUME KeptInv, AgreeInv, world.exclusive, crashes = 0,
           NEW s \in Syncers, SyncStart(s) \/ (SyncEnter(s) /\ AgreeAt(s))
    PROVE  AgreeAt(s)'
<1>0. /\ s \in Tasks /\ DOMAIN tasks = Tasks
      /\ UNCHANGED <<tender, booked, created, queue, snaps, misled>>
  BY DEF SyncStart, SyncEnter, Tasks, KeptInv, KeptTypes, serverVars, localVars, screenVars
<1>1. CASE SyncStart(s)
  <2>1. AgreeAt(s) /\ tasks[s].pc = "idle"
    BY <1>0, <1>1, AgreeOfIdle DEF SyncStart, MayStart
  <2>2. tasks'[s].pc = "check"
    BY <1>0, <1>1 DEF SyncStart, IdleTask
  <2> QED BY <1>0, <2>1, <2>2, AgreeIdly DEF BusyPlaces
<1>2. CASE SyncEnter(s) /\ AgreeAt(s)
  <2>1. tasks[s].pc = "check" /\ tasks'[s].pc \in {"flush", "idle"}
    BY <1>0, <1>2, GotoFields DEF SyncEnter
  <2> QED BY <1>0, <1>2, <2>1, AgreeIdly DEF BusyPlaces
<1> QED BY <1>1, <1>2

\* The cashier begins an order or takes a payment, of which nothing is booked yet.
LEMMA CashierAgree ==
    ASSUME KeptInv, TypesInv, TypesInv', AgreeInv, world.exclusive, crashes = 0,
           CheckoutStart \/ PayStart
    PROVE  AgreeAt(Till)'
<1>0. /\ Till \in Tasks /\ DOMAIN tasks = Tasks
      /\ UNCHANGED <<booked, created, queue, snaps, misled>>
      /\ booked \in [Payments -> Nat] /\ current \in OrderNos \cup {NoOrder}
  BY DEF Tasks, KeptInv, KeptTypes, CheckoutStart, PayStart, serverVars, localVars
<1>1. AgreeAt(Till) /\ tasks[Till].pc = "idle"
  BY <1>0, AgreeOfIdle DEF CheckoutStart, PayStart, MayStart
<1>2. tasks'[Till].pc \in {"flush", "localOrder", "lookup"}
  <2>1. CASE CheckoutStart
    <3>1. PICK o \in OrderNos :
            tasks' = [tasks EXCEPT ![Till] =
                [IdleTask EXCEPT !.op = "create", !.order = o,
                                 !.pc = IF online THEN "flush" ELSE "localOrder"]]
      BY <2>1 DEF CheckoutStart
    <3> QED BY <1>0, <3>1 DEF IdleTask
  <2>2. CASE PayStart
    <3>1. PICK p \in Payments :
            tasks' = [tasks EXCEPT ![Till] =
                [IdleTask EXCEPT !.op = "pay", !.order = current, !.payment = p,
                                 !.pc = IF online THEN "flush" ELSE "lookup"]]
      BY <2>2 DEF PayStart
    <3> QED BY <1>0, <3>1 DEF IdleTask
  <2> QED BY <2>1, <2>2
<1>3. Fresh(tasks[Till])' /\ \A o \in OrderNos : ~Busy(tasks[Till], o)
  BY <1>1, <1>2 DEF Fresh, Busy, BusyPlaces
<1>4. \A o \in OrderNos : TotalAt(tender', booked', o) = TotalAt(tender, booked, o)
  <2>1. CASE CheckoutStart
    BY <1>0, <2>1 DEF CheckoutStart
  <2>2. CASE PayStart
    <3>1. PICK p \in Payments, amount \in Amounts :
            /\ tender[p].order = NoOrder
            /\ tender' = [tender EXCEPT ![p] = [order |-> current, amount |-> amount]]
      BY <2>2 DEF PayStart
    <3>2. /\ tender \in TenderType /\ IsFiniteSet(HandedIn(tender))
          /\ tender' \in TenderType /\ IsFiniteSet(HandedIn(tender'))
          /\ booked[p] = 0
      BY <3>1 DEF TypesInv, ScreenOK, Handed, HandedIn
    <3>3. \A r \in Payments : r # p => tender'[r] = tender[r]
      BY <3>1, <3>2 DEF TenderType
    <3>4. ASSUME NEW o \in OrderNos
          PROVE  TotalAt(tender', booked, o) = TotalAt(tender, booked, o)
      <4> PICK old, more : old = tender /\ more = tender'
        OBVIOUS
      <4>1. /\ old \in TenderType /\ IsFiniteSet(HandedIn(old))
            /\ more \in TenderType /\ IsFiniteSet(HandedIn(more))
            /\ old[p].order = NoOrder /\ \A r \in Payments : r # p => more[r] = old[r]
        BY <3>1, <3>2, <3>3
      <4>2. TotalAt(more, booked, o) = TotalAt(old, booked, o)
        BY <1>0, <3>2, <4>1, TotalOfOneMore
      <4> QED BY <4>2
    <3> QED BY <1>0, <3>4
  <2> QED BY <2>1, <2>2
<1> PICK one : one = NoOrder
  OBVIOUS
<1>5. one \notin OrderNos
  BY ClientAssumption
<1> QED BY <1>0, <1>1, <1>3, <1>4, <1>5, AgreeStep

\* The network.
LEMMA NetworkAgree ==
    ASSUME KeptInv, NEW t \in Tasks, AgreeAt(t), GoOnline \/ GoOffline \/ UNCHANGED vars
    PROVE  AgreeAt(t)'
<1>0. UNCHANGED <<tender, booked, created, queue, snaps, tasks, misled>>
  BY DEF GoOnline, GoOffline, vars, serverVars, localVars, screenVars
<1>1. Fresh(tasks[t])'
  <2>1. \A o : Received(o)' = Received(o)
    BY <1>0, ReceivedIs
  <2>2. \A o : Agreed(o)' <=> Agreed(o)
    BY <1>0, <2>1 DEF Agreed, Snap
  <2> QED BY <1>0, <2>1, <2>2 DEF AgreeAt, Fresh
<1> QED BY <1>0, <1>1, AgreeQuiet

\* Every step keeps the local database and the server in agreement.
LEMMA NextAgree ==
    /\ KeptInv /\ KeptInv' /\ TypesInv /\ TypesInv' /\ SoloInv /\ SoloInv' /\ AgreeInv
    /\ [Next]_vars
    => AgreeInv'
<1> SUFFICES ASSUME KeptInv, KeptInv', TypesInv, TypesInv', SoloInv, SoloInv', AgreeInv,
                    [Next]_vars, world'.exclusive, crashes' = 0
             PROVE  \E t \in Tasks : OthersIdle(t)' /\ AgreeAt(t)'
  BY DEF AgreeInv
<1>0. world.exclusive /\ world' = world
  BY BoundsCount
<1>1. crashes = 0
  <2>1. crashes' = crashes \/ crashes' = crashes + 1
    BY DEF Next, Go, SyncStart, SyncEnter, CheckoutStart, PayStart, Flush, EndOfItems, SkipItem,
           Answered, Refused, PutFailed, NotSent, SaveItem, CompleteItem, SaveAnswer, LocalOrder,
           Lookup, ReadLocal, LocalPay, Enqueue, Fault, GoOnline, GoOffline, Crash, vars, bounds
  <2>2. crashes \in Nat
    BY DEF SoloInv
  <2> QED BY <2>1, <2>2
<1>2. ASSUME NEW t \in Tasks, AgreeAt(t)' , OthersIdle(t)'
      PROVE  \E u \in Tasks : OthersIdle(u)' /\ AgreeAt(u)'
  BY <1>2
<1>3. ASSUME NEW t \in Tasks, SoloAt(t), tasks[t].pc # "idle" PROVE AgreeAt(t)
  <2>1. PICK u \in Tasks : OthersIdle(u) /\ AgreeAt(u)
    BY <1>0, <1>1 DEF AgreeInv
  <2>2. u = t
    BY <1>3, <2>1 DEF OthersIdle
  <2> QED BY <2>1, <2>2
<1>4. CASE \E s \in Syncers : SyncStart(s) \/ SyncEnter(s)
  <2>1. PICK s \in Syncers : SyncStart(s) \/ SyncEnter(s)
    BY <1>4
  <2>2. s \in Tasks /\ SoloAt(s)'
    BY <1>0, <2>1, SyncSolo DEF Tasks
  <2>3. SyncEnter(s) => AgreeAt(s)
    <3>1. SyncEnter(s) => tasks[s].pc # "idle"
      BY DEF SyncEnter
    <3> QED BY <1>0, <1>3, <2>2, <3>1, SoloOf
  <2>4. AgreeAt(s)'
    BY <1>0, <1>1, <2>1, <2>3, SyncAgree
  <2> QED BY <2>2, <2>4 DEF SoloAt
<1>5. CASE CheckoutStart \/ PayStart
  <2>1. Till \in Tasks /\ SoloAt(Till)'
    BY <1>0, <1>5, CheckoutSolo, PaySolo DEF Tasks
  <2>2. AgreeAt(Till)'
    BY <1>0, <1>1, <1>5, CashierAgree
  <2> QED BY <2>1, <2>2 DEF SoloAt
<1>6. ASSUME NEW t \in Tasks, Go(t) \/ Fault(t)
      PROVE  \E u \in Tasks : OthersIdle(u)' /\ AgreeAt(u)'
  <2>1. tasks[t].pc # "idle"
    BY <1>6 DEF Go, Flush, EndOfItems, SkipItem, AtItem, Answered, Effect, PostsOrder, PostsPayment,
                Refused, PutFailed, NotSent, Fault, SaveItem, CompleteItem, SaveAnswer, LocalOrder,
                Lookup, ReadLocal, LocalPay, Enqueue
  <2>2. SoloAt(t)
    BY <1>0, <2>1, SoloOf
  <2>3. AgreeAt(t)
    BY <1>3, <2>1, <2>2
  <2>4. SoloAt(t)'
    BY <1>6, <2>2, FlushSolo, RequestSolo, PutFailedSolo, SnapshotSolo, CompleteSolo, ReturnSolo
       DEF Go
  <2>5. AgreeAt(t)'
    BY <1>6, <2>2, <2>3, FlushAgree, AnsweredAgree, UnansweredAgree, PutFailedAgree, SnapshotAgree,
       CompleteAgree, ReturnAgree DEF Go
  <2> QED BY <2>4, <2>5 DEF SoloAt
<1>7. CASE GoOnline \/ GoOffline \/ UNCHANGED vars
  <2>1. PICK t \in Tasks : OthersIdle(t) /\ AgreeAt(t)
    BY <1>0, <1>1 DEF AgreeInv
  <2>2. tasks' = tasks
    BY <1>7 DEF GoOnline, GoOffline, vars
  <2>3. OthersIdle(t)'
    BY <2>1, <2>2 DEF OthersIdle
  <2> QED BY <1>7, <2>1, <2>3, NetworkAgree
<1>8. CASE Crash
  <2>1. crashes' = crashes + 1
    BY <1>8 DEF Crash
  <2> QED BY <1>1, <2>1
<1> QED BY <1>4, <1>5, <1>6, <1>7, <1>8 DEF Next

\* At the start there is no order.
LEMMA InitAgree == Init => AgreeInv
<1> SUFFICES ASSUME Init PROVE AgreeInv
  OBVIOUS
<1>1. Till \in Tasks /\ \A t \in Tasks : tasks[t].pc = "idle"
  BY DEF Init, IdleTask, Tasks
<1>2. \A o \in OrderNos : ~Known(o)
  BY DEF Init, Known
<1>3. OthersIdle(Till) /\ AgreeAt(Till)
  BY <1>1, <1>2 DEF OthersIdle, AgreeAt, Fresh
<1> QED BY <1>1, <1>3 DEF AgreeInv

\* Nothing is in hand when no task runs.
LEMMA AgreeImplied == KeptInv /\ AgreeInv => AgreeOnceFlushed
<1> SUFFICES ASSUME KeptInv, AgreeInv, world.exclusive, crashes = 0,
                    \A t \in Tasks : tasks[t].pc \in {"idle", "check"},
                    NEW o \in OrderNos \ misled, snaps[o] # NoSnap,
                    \A n \in DOMAIN queue : queue[n].order # o
             PROVE  o \in created /\ snaps[o] = Snap("synced", Received(o))
  BY DEF AgreeOnceFlushed
<1>1. PICK t \in Tasks : AgreeAt(t)
  BY DEF AgreeInv
<1>2. ~Busy(tasks[t], o)
  BY DEF Busy, BusyPlaces
<1>3. ~Waits(o)
  BY DEF Waits, ToSet
<1> QED BY <1>1, <1>2, <1>3 DEF AgreeAt, Known, Agreed

\* Once nothing of an order waits in the queue and no task runs, the local snapshot shows
\* what the server has booked, as long as no two tasks overlap, the app is not killed, and
\* the cashier was not told of an error for a payment that the server has booked
\* (saveOrderSnapshot, markSyncQueueCompleted, _queueOfflinePayment).
THEOREM ClientAgreesOnceFlushed == Spec => []AgreeOnceFlushed
<1>1. KeptInv /\ TypesInv /\ SoloInv /\ AgreeInv /\ [Next]_vars
          => (KeptInv /\ TypesInv /\ SoloInv /\ AgreeInv)'
  BY NextKeeps, NextTypes, NextSolo, NextAgree
<1> QED BY <1>1, InitKept, InitTypes, InitSolo, InitAgree, AgreeImplied, PTL DEF Spec
=============================================================================
