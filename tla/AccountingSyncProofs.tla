------------------------ MODULE AccountingSyncProofs ------------------------
(***************************************************************************)
(* Theorems about AccountingSync for any number of orders, overlapping     *)
(* requests, workers, tries, faults and losses, checked by TLAPS.          *)
(*                                                                         *)
(* A webhook carries what a worker has read of the order some time ago.    *)
(* It stays true because the net amount of an order never changes and its  *)
(* row is never removed, so SyncInv follows the body from the read through *)
(* the queues to the accounting system.                                    *)
(*                                                                         *)
(* That an order is delivered once rests on OnceInv: what is queued for it *)
(* is in one place at a time (Redis, the backlog, a worker, the accounting *)
(* system), and nowhere while its payment is still being settled.          *)
(***************************************************************************)
EXTENDS AccountingSync, OrdersProofs

Body == [status : Status, total : Int]

WorkerState ==
    [pc : {"idle", "read", "enqueue", "post", "update"}, job : Job \cup {NoJob}, body : Body]

\* The body tells of an order that was PAID, and of payments that cover o.
Vouches(body, o) == body.status = "paid" /\ body.total >= orders[o].net

\* A job is for an order that exists, and a webhook has a body that vouches for it.
SoundJob(job) ==
    /\ orders[job.order].status # "absent"
    /\ job.kind = "webhook" => Vouches(job.body, job.order)

\* What a worker's local variables still guarantee.
SoundState(q) ==
    /\ q.pc = "idle" => q = IdleWorker
    /\ q.pc # "idle" => q.job \in Job /\ SoundJob(q.job)
    /\ q.pc \in {"read", "enqueue"} => q.job.kind = "sync"
    /\ q.pc \in {"post", "update"} => q.job.kind = "webhook"
    /\ q.pc = "enqueue" => Vouches(q.body, q.job.order)
    /\ q.pc = "update" => delivered[q.job.order] # <<>>

WorkersSound ==
    /\ workers \in [Workers -> WorkerState]
    /\ \A w \in Workers : SoundState(workers[w])

BacklogSound == \A job \in BagToSet(backlog) : job \in Job /\ SoundJob(job)

DeadTyped == deadJobs \subseteq {job \in Job : job.tries = MaxTries}

\* What has been received for an order vouches for it, and its flag for a delivery.
SoundReceipts(o) ==
    /\ \A n \in 1 .. Len(delivered[o]) : Vouches(delivered[o][n], o)
    /\ delivered[o] # <<>> => orders[o].status # "absent"
    /\ orders[o].synced => delivered[o] # <<>>

ReceiptsSound ==
    /\ delivered \in [OrderIds -> Seq(Body)]
    /\ \A o \in OrderIds : SoundReceipts(o)

SyncInv ==
    /\ TypeInv
    /\ CoverInv
    /\ WorkersSound
    /\ BacklogSound
    /\ DeadTyped
    /\ ReceiptsSound

\* The types that the invariant implies.
LEMMA SyncInvTyped == SyncInv => SyncTypeOK
<1> SUFFICES ASSUME SyncInv PROVE SyncTypeOK
  OBVIOUS
<1>1. ASSUME NEW w \in Workers
      PROVE  CASE workers[w].pc = "idle" -> workers[w] = IdleWorker
               [] workers[w].pc \in {"read", "enqueue"} ->
                     workers[w].job \in Job /\ workers[w].job.kind = "sync"
               [] OTHER -> /\ workers[w].pc \in {"post", "update"}
                           /\ workers[w].job \in Job /\ workers[w].job.kind = "webhook"
  <2>1. SoundState(workers[w])
    BY DEF SyncInv, WorkersSound
  <2>2. workers[w].pc \in {"idle", "read", "enqueue", "post", "update"}
    BY DEF SyncInv, WorkersSound, WorkerState
  <2> QED BY <2>1, <2>2 DEF SoundState
<1> QED BY <1>1 DEF SyncInv, SyncTypeOK, TypeInv, BacklogSound, DeadTyped

\* The invariant holds initially.
LEMMA SyncInitInv == SyncInit => SyncInv
<1> SUFFICES ASSUME SyncInit PROVE SyncInv
  OBVIOUS
<1>1. TypeInv /\ CoverInv
  BY InitTypeInv, InitCoverInv DEF SyncInit
<1>2. IdleWorker \in WorkerState /\ SoundState(IdleWorker)
  BY DEF IdleWorker, WorkerState, NoBody, Body, Status, SoundState
<1>3. WorkersSound
  BY <1>2 DEF SyncInit, WorkersSound
<1>4. BacklogSound /\ DeadTyped
  BY DEF SyncInit, BacklogSound, DeadTyped, EmptyBag, SetToBag, BagToSet
<1>5. ReceiptsSound
  BY DEF SyncInit, Init, NoRow, ReceiptsSound, SoundReceipts
<1> QED BY <1>1, <1>3, <1>4, <1>5 DEF SyncInv

-----------------------------------------------------------------------------
(* What survives a step: whatever depends on the orders table only through *)
(* the existence of a row and its net amount.                              *)

\* An order that has been delivered stays delivered.
DeliveriesStay ==
    \A o \in OrderIds : delivered[o] # <<>> => delivered'[o] # <<>>

\* No step but the two of a worker sets a flag.
FlagsStay == \A o \in OrderIds : orders'[o].synced => orders[o].synced

\* A job that is sound stays so.
LEMMA JobLasts ==
    ASSUME OrdersStay, NEW job \in Job, SoundJob(job) PROVE SoundJob(job)'
<1>1. job.order \in OrderIds
  BY DEF Job
<1> QED BY <1>1 DEF SoundJob, Vouches, OrdersStay

\* So do a worker's local variables, while the worker does nothing.
LEMMA StateLasts ==
    ASSUME OrdersStay, DeliveriesStay, NEW q \in WorkerState, SoundState(q)
    PROVE  SoundState(q)'
<1>1. CASE q.pc = "idle"
  BY <1>1 DEF SoundState
<1>2. CASE q.pc # "idle"
  <2>1. q.job \in Job /\ SoundJob(q.job) /\ q.job.order \in OrderIds
    BY <1>2 DEF SoundState, Job
  <2>2. SoundJob(q.job)'
    BY <2>1, JobLasts
  <2>3. q.pc = "enqueue" => Vouches(q.body, q.job.order)'
    BY <2>1 DEF SoundState, SoundJob, OrdersStay, Vouches
  <2>4. q.pc = "update" => delivered'[q.job.order] # <<>>
    BY <2>1 DEF SoundState, DeliveriesStay
  <2> QED BY <1>2, <2>1, <2>2, <2>3, <2>4 DEF SoundState
<1> QED BY <1>1, <1>2

\* The workers are sound after a step of one of them that leaves it sound.
LEMMA WorkerStep ==
    ASSUME WorkersSound, OrdersStay, DeliveriesStay,
           NEW w \in Workers, NEW q \in WorkerState, SoundState(q)',
           workers' = [workers EXCEPT ![w] = q]
    PROVE  WorkersSound'
<1>1. workers' \in [Workers -> WorkerState]
  BY DEF WorkersSound
<1>2. ASSUME NEW v \in Workers PROVE SoundState(workers[v])'
  <2>1. CASE v = w
    <3>1. workers'[v] = q
      BY <2>1 DEF WorkersSound
    <3> QED BY <3>1 DEF SoundState, SoundJob, Vouches
  <2>2. CASE v # w
    <3>1. workers'[v] = workers[v] /\ workers[v] \in WorkerState
      BY <2>2 DEF WorkersSound
    <3>2. PICK p \in WorkerState : p = workers[v] /\ SoundState(p)'
      BY <3>1, StateLasts DEF WorkersSound
    <3> QED BY <3>1, <3>2 DEF SoundState, SoundJob, Vouches
  <2> QED BY <2>1, <2>2
<1> QED BY <1>1, <1>2 DEF WorkersSound

\* The workers are sound after a step of none of them.
LEMMA WorkersLast ==
    ASSUME WorkersSound, OrdersStay, DeliveriesStay, UNCHANGED workers
    PROVE  WorkersSound'
<1>1. ASSUME NEW v \in Workers PROVE SoundState(workers[v])'
  <2>1. PICK p \in WorkerState : p = workers[v] /\ SoundState(p)'
    BY StateLasts DEF WorkersSound
  <2> QED BY <2>1 DEF SoundState, SoundJob, Vouches
<1> QED BY <1>1 DEF WorkersSound

\* A worker that has let go of its job is sound.
LEMMA ReleaseSound ==
    ASSUME WorkersSound, OrdersStay, DeliveriesStay, NEW w \in Workers, Release(w)
    PROVE  WorkersSound'
<1>1. IdleWorker \in WorkerState
  BY DEF IdleWorker, WorkerState, NoBody, Body, Status
<1>2. SoundState(IdleWorker)'
  BY DEF IdleWorker, SoundState
<1> QED BY <1>1, <1>2, WorkerStep DEF Release

\* Jobs that wait stay sound, whether some are taken or not.
LEMMA BacklogLasts ==
    ASSUME BacklogSound, OrdersStay, BagToSet(backlog)' \subseteq BagToSet(backlog)
    PROVE  BacklogSound'
  BY JobLasts DEF BacklogSound

\* Receipts and flags are sound after a step that touches neither.
LEMMA ReceiptsLast ==
    ASSUME ReceiptsSound, OrdersStay, FlagsStay, UNCHANGED delivered
    PROVE  ReceiptsSound'
<1>1. ASSUME NEW o \in OrderIds PROVE SoundReceipts(o)'
  <2>1. SoundReceipts(o)
    BY DEF ReceiptsSound
  <2> QED BY <2>1 DEF SoundReceipts, Vouches, OrdersStay, FlagsStay
<1> QED BY <1>1 DEF ReceiptsSound

-----------------------------------------------------------------------------
(* The orders table under the steps of Orders and of the workers.          *)

\* No step of the order handlers sets a flag.
LEMMA NextFlagsStay == TypeInv /\ [Next]_ordersVars => FlagsStay
<1> SUFFICES ASSUME TypeInv, [Next]_ordersVars, NEW o \in OrderIds, orders'[o].synced
             PROVE  orders[o].synced
  BY DEF FlagsStay
<1>1. orders \in [OrderIds -> Row]
  BY DEF TypeInv, TypeOK
<1>2. CASE orders' = orders
  BY <1>2
<1>3. CASE \E r \in Requests : CreateInsert(r)
  <2>1. PICK r \in Requests, p \in OrderIds :
          orders' = [orders EXCEPT ![p] = NewRow(requests[r].key, requests[r].cart)]
    BY <1>3 DEF CreateInsert
  <2>2. o # p
    BY <1>1, <2>1 DEF NewRow
  <2> QED BY <1>1, <2>1, <2>2
<1>4. CASE \E r \in Requests : PaySave(r)
  BY <1>1, <1>4 DEF PaySave, Row
<1>5. CASE \E r \in Requests : PayMark(r) \/ VoidMark(r)
  BY <1>1, <1>5 DEF PayMark, VoidMark, Row
<1> QED
  BY <1>2, <1>3, <1>4, <1>5
     DEF Next, Arrive, Handle, StartCreate, StartPay, StartVoid, CreateFound, CreateNotFound,
         CreateConflict, PayRead, PayEnqueue, FindRecipes, MoveStock, VoidRead, Reload,
         PublishRead, Publish, Abort, CreateRecipe, ordersVars

\* A step of the order handlers, or of none of them.
LEMMA OrdersSide ==
    ASSUME Amounts \subseteq Nat, TypeInv, CoverInv, [Next]_ordersVars
    PROVE  TypeInv' /\ CoverInv' /\ OrdersStay /\ FlagsStay
  BY NextTypeInv, NextCoverInv, NextFlagsStay

\* A step of a worker that takes a job from the ready list.
LEMMA JobTaken ==
    ASSUME TypeInv, CoverInv, NEW o \in OrderIds, jobs[o] > 0,
           jobs' = [jobs EXCEPT ![o] = @ - 1],
           UNCHANGED <<orders, used, recipes, display, requests, aborts>>
    PROVE  TypeInv' /\ CoverInv' /\ OrdersStay /\ FlagsStay /\ orders[o].status # "absent"
<1>1. jobs \in [OrderIds -> Nat]
  BY DEF TypeInv, TypeOK
<1>2. jobs' \in [OrderIds -> Nat] /\ \A p \in OrderIds : jobs'[p] > 0 => jobs[p] > 0
  BY <1>1
<1>3. TypeInv'
  BY <1>2 DEF TypeInv, TypeOK, TargetExists
<1>4. \A p \in OrderIds : Effect(p)' => Effect(p)
  BY <1>2 DEF Effect
<1>5. CoverInv'
  BY <1>4 DEF CoverInv, HandlerCovered, EffectExplained, Covered
<1>6. orders[o].status # "absent"
  BY DEF CoverInv, EffectExplained, Effect
<1> QED BY <1>3, <1>5, <1>6 DEF OrdersStay, FlagsStay

\* A step of a worker that flags an order.
LEMMA FlagSet ==
    ASSUME TypeInv, CoverInv, NEW o \in OrderIds,
           orders' = [orders EXCEPT ![o].synced = TRUE],
           UNCHANGED <<used, recipes, jobs, display, requests, aborts>>
    PROVE  /\ TypeInv' /\ CoverInv' /\ OrdersStay
           /\ \A p \in OrderIds : p # o => orders'[p] = orders[p]
<1> DEFINE row == [orders[o] EXCEPT !.synced = TRUE]
<1>1. orders \in [OrderIds -> Row] /\ orders[o] \in Row
  BY DEF TypeInv, TypeOK
<1>2. /\ row \in Row
      /\ row.status = orders[o].status /\ row.items = orders[o].items
      /\ row.net = orders[o].net /\ row.key = orders[o].key
      /\ row.received = orders[o].received
  BY <1>1 DEF Row
<1>3. orders' = [orders EXCEPT ![o] = row]
  OBVIOUS
<1> HIDE DEF row
<1>4. /\ orders' \in [OrderIds -> Row]
      /\ \A p \in OrderIds : p # o => orders'[p] = orders[p]
      /\ \A p \in OrderIds : /\ orders'[p].status = orders[p].status
                             /\ orders'[p].items = orders[p].items
                             /\ orders'[p].net = orders[p].net
                             /\ orders'[p].key = orders[p].key
                             /\ orders'[p].received = orders[p].received
  BY <1>1, <1>2, <1>3
<1>5. OrdersStay
  BY <1>4 DEF OrdersStay
<1>6. TypeOK'
  BY <1>4 DEF TypeInv, TypeOK
<1>7. ASSUME NEW r \in Requests PROVE TargetExists(r)' /\ HandlerCovered(r)'
  <2>1. /\ requests[r] \in Request /\ requests'[r] = requests[r]
        /\ TargetExists(r) /\ HandlerCovered(r)
    BY DEF TypeInv, TypeOK, CoverInv
  <2>2. requests[r].order \in OrderIds \cup {NoOrder}
    BY <2>1 DEF Request
  <2>3. TargetExists(r)'
    BY <1>4, <2>1, <2>2 DEF TargetExists
  <2>4. CASE requests[r].pc \in {"save", "mark", "stock"}
    <3>1. requests[r].order \in OrderIds
      BY <2>1, <2>2, <2>4 DEF TargetExists
    <3> QED BY <1>4, <2>1, <2>3, <3>1 DEF HandlerCovered, Covered
  <2>5. CASE requests[r].pc \notin {"save", "mark", "stock"}
    BY <2>1, <2>3, <2>5 DEF HandlerCovered
  <2> QED BY <2>3, <2>4, <2>5
<1>8. \A p \in OrderIds : EffectExplained(p)'
  BY <1>4 DEF CoverInv, EffectExplained, Effect, Covered
<1> QED BY <1>4, <1>5, <1>6, <1>7, <1>8 DEF TypeInv, CoverInv

-----------------------------------------------------------------------------
(* The bag of the jobs that wait.                                          *)

\* What is in a bag after something has been added to it.
LEMMA BagAdded ==
    ASSUME NEW bag, NEW S PROVE BagToSet(bag (+) SetToBag(S)) = BagToSet(bag) \cup S
  BY DEF BagToSet, SetToBag, (+)

\* Nothing new is in a bag after something has been taken out of it.
LEMMA BagTaken ==
    ASSUME NEW bag, NEW S PROVE BagToSet(bag (-) SetToBag(S)) \subseteq BagToSet(bag)
  BY DEF BagToSet, SetToBag, (-)

\* A new job with its body is sound.
LEMMA NewJobSound ==
    ASSUME NEW o \in OrderIds, orders[o].status # "absent"
    PROVE  /\ SyncJob(o) \in Job /\ SoundJob(SyncJob(o))
           /\ \A body \in Body : Vouches(body, o) =>
                  WebhookJob(o, body) \in Job /\ SoundJob(WebhookJob(o, body))
  BY AccountingAssumption
     DEF SyncJob, WebhookJob, Job, NoBody, Body, Status, SoundJob

\* A failed job is sound where it ends: with the others, for another try, or dead.
LEMMA TriedAgain ==
    ASSUME DeadTyped, OrdersStay, NEW job \in Job, SoundJob(job), NEW rest,
           \A other \in BagToSet(rest) : other \in Job /\ SoundJob(other),
           TryAgain(job, rest)
    PROVE  BacklogSound' /\ DeadTyped'
<1> DEFINE again == [job EXCEPT !.tries = @ + 1]
<1>1. CASE job.tries < MaxTries
  <2>1. /\ again \in Job /\ again.order = job.order
        /\ again.kind = job.kind /\ again.body = job.body
    BY <1>1, AccountingAssumption DEF Job
  <2>2. SoundJob(again)
    BY <2>1 DEF SoundJob
  <2>3. backlog' = rest (+) SetToBag({again}) /\ deadJobs' = deadJobs
    BY <1>1 DEF TryAgain
  <2> HIDE DEF again
  <2>4. \A other \in BagToSet(backlog') : other \in Job /\ SoundJob(other)
    BY <2>1, <2>2, <2>3, BagAdded
  <2>5. BacklogSound'
    BY <2>4, JobLasts DEF BacklogSound, BagToSet
  <2> QED BY <2>3, <2>5 DEF DeadTyped
<1>2. CASE ~(job.tries < MaxTries)
  <2>1. job.tries = MaxTries
    BY <1>2, AccountingAssumption DEF Job
  <2>2. backlog' = rest /\ deadJobs' = deadJobs \cup {job}
    BY <1>2 DEF TryAgain
  <2>3. BacklogSound'
    BY <2>2, JobLasts DEF BacklogSound, BagToSet
  <2> QED BY <2>1, <2>2, <2>3 DEF DeadTyped
<1> QED BY <1>1, <1>2

\* A body that has arrived for an order that exists leaves the receipts sound.
LEMMA ReceiptAdded ==
    ASSUME ReceiptsSound, NEW o \in OrderIds, NEW body \in Body,
           orders[o].status # "absent", Vouches(body, o),
           delivered' = [delivered EXCEPT ![o] = Append(@, body)], UNCHANGED orders
    PROVE  ReceiptsSound' /\ DeliveriesStay /\ delivered'[o] # <<>>
<1>1. delivered[o] \in Seq(Body) /\ SoundReceipts(o)
  BY DEF ReceiptsSound
<1>2. /\ Append(delivered[o], body) \in Seq(Body)
      /\ Append(delivered[o], body) # <<>>
      /\ \A n \in 1 .. Len(Append(delivered[o], body)) : Vouches(Append(delivered[o], body)[n], o)
  <2>1. /\ Append(delivered[o], body) \in Seq(Body)
        /\ Len(Append(delivered[o], body)) = Len(delivered[o]) + 1
        /\ Append(delivered[o], body)[Len(delivered[o]) + 1] = body
        /\ \A n \in 1 .. Len(delivered[o]) :
              Append(delivered[o], body)[n] = delivered[o][n]
        /\ Append(delivered[o], body) # <<>>
    BY <1>1, AppendProperties
  <2>2. Len(delivered[o]) \in Nat
    BY <1>1
  <2>3. \A n \in 1 .. Len(delivered[o]) : Vouches(delivered[o][n], o)
    BY <1>1 DEF SoundReceipts
  <2> QED BY <2>1, <2>2, <2>3
<1>3. /\ delivered'[o] = Append(delivered[o], body)
      /\ \A p \in OrderIds : p # o => delivered'[p] = delivered[p]
      /\ delivered' \in [OrderIds -> Seq(Body)]
  BY <1>2 DEF ReceiptsSound
<1>4. ASSUME NEW p \in OrderIds PROVE SoundReceipts(p)'
  <2>1. CASE p = o
    BY <1>2, <1>3, <2>1 DEF SoundReceipts, Vouches
  <2>2. CASE p # o
    BY <1>3, <2>2 DEF ReceiptsSound, SoundReceipts, Vouches
  <2> QED BY <2>1, <2>2
<1> QED BY <1>2, <1>3, <1>4 DEF ReceiptsSound, DeliveriesStay

-----------------------------------------------------------------------------
(* The steps of the workers.                                               *)

\* What a worker that is not idle has in hand, and where its webhook would go.
LEMMA JobInHand ==
    ASSUME SyncInv, NEW w \in Workers, workers[w].pc # "idle"
    PROVE  /\ workers[w] \in WorkerState /\ SoundState(workers[w])
           /\ workers[w].job \in Job /\ SoundJob(workers[w].job)
           /\ workers[w].job.order \in OrderIds
           /\ orders[workers[w].job.order].status # "absent"
           /\ workers[w].body \in Body /\ workers[w].job.body \in Body
  BY DEF SyncInv, WorkersSound, SoundState, SoundJob, WorkerState, Job, Body

\* The backlog with the webhook that a worker is about to push.
LEMMA WebhookSound ==
    ASSUME SyncInv, NEW w \in Workers, workers[w].pc = "enqueue"
    PROVE  \A job \in BagToSet(WithWebhook(w)) : job \in Job /\ SoundJob(job)
<1> DEFINE new == WebhookJob(workers[w].job.order, workers[w].body)
<1>1. new \in Job /\ SoundJob(new)
  BY JobInHand, NewJobSound DEF SoundState
<1>2. BagToSet(WithWebhook(w)) = BagToSet(backlog) \cup {new}
  BY BagAdded DEF WithWebhook
<1> HIDE DEF new
<1> QED BY <1>1, <1>2 DEF SyncInv, BacklogSound

\* The receipts once the webhook of a worker has arrived.
LEMMA DeliverySound ==
    ASSUME SyncInv, NEW w \in Workers, workers[w].pc = "post",
           delivered' = WithDelivery(w), UNCHANGED orders
    PROVE  ReceiptsSound' /\ DeliveriesStay /\ delivered'[workers[w].job.order] # <<>>
<1>1. Vouches(workers[w].job.body, workers[w].job.order)
  BY JobInHand DEF SoundState, SoundJob
<1>2. workers[w].job.body \in Body /\ workers[w].job.order \in OrderIds
      /\ orders[workers[w].job.order].status # "absent"
  BY JobInHand
<1> QED BY <1>1, <1>2, ReceiptAdded DEF WithDelivery, SyncInv

\* The tables once a worker has flagged its order.
LEMMA FlagSound ==
    ASSUME SyncInv, NEW w \in Workers, workers[w].pc = "update", orders' = WithFlag(w),
           UNCHANGED <<used, recipes, jobs, display, requests, aborts, delivered>>
    PROVE  TypeInv' /\ CoverInv' /\ OrdersStay /\ ReceiptsSound'
<1> DEFINE o == workers[w].job.order
<1>1. o \in OrderIds /\ delivered[o] # <<>>
  BY JobInHand DEF SoundState
<1>2. orders' = [orders EXCEPT ![o].synced = TRUE]
  BY DEF WithFlag
<1> HIDE DEF o
<1>3. /\ TypeInv' /\ CoverInv' /\ OrdersStay
      /\ \A p \in OrderIds : p # o => orders'[p] = orders[p]
  BY <1>1, <1>2, FlagSet DEF SyncInv
<1>4. ASSUME NEW p \in OrderIds PROVE SoundReceipts(p)'
  <2>1. SoundReceipts(p)
    BY DEF SyncInv, ReceiptsSound
  <2> QED BY <1>1, <1>3, <2>1 DEF SoundReceipts, Vouches, OrdersStay
<1> QED BY <1>3, <1>4 DEF SyncInv, ReceiptsSound

\* A worker has come as far as pc with a job.
LEMMA WorkerGoesOn ==
    ASSUME WorkersSound, OrdersStay, DeliveriesStay, NEW w \in Workers,
           NEW job \in Job, NEW body \in Body, SoundJob(job),
           NEW pc \in {"read", "enqueue", "post", "update"},
           pc \in {"read", "enqueue"} <=> job.kind = "sync",
           pc = "enqueue" => Vouches(body, job.order),
           pc = "update" => delivered'[job.order] # <<>>,
           workers' = [workers EXCEPT ![w] = [pc |-> pc, job |-> job, body |-> body]]
    PROVE  WorkersSound'
<1> DEFINE q == [pc |-> pc, job |-> job, body |-> body]
<1>1. q \in WorkerState /\ q.pc = pc /\ q.job = job /\ q.body = body
  BY DEF WorkerState
<1>2. SoundJob(job)' /\ job.kind \in {"sync", "webhook"} /\ job.order \in OrderIds
  BY JobLasts DEF Job
<1>3. pc = "enqueue" => Vouches(body, job.order)'
  BY <1>2 DEF SoundJob, Vouches, OrdersStay
<1>4. workers' = [workers EXCEPT ![w] = q]
  OBVIOUS
<1> HIDE DEF q
<1>5. SoundState(q)'
  BY <1>1, <1>2, <1>3 DEF SoundState
<1> QED BY <1>1, <1>4, <1>5, WorkerStep

\* A worker has taken a job.
LEMMA HoldsSound ==
    ASSUME WorkersSound, OrdersStay, DeliveriesStay, NEW w \in Workers,
           NEW job \in Job, SoundJob(job), Holds(w, job)
    PROVE  WorkersSound'
<1>1. NoBody \in Body /\ job.kind \in {"sync", "webhook"}
  BY DEF NoBody, Body, Status, Job
<1> DEFINE pc == IF job.kind = "sync" THEN "read" ELSE "post"
<1>2. pc \in {"read", "post"} /\ (pc = "read" <=> job.kind = "sync")
  OBVIOUS
<1>3. workers' = [workers EXCEPT ![w] = [pc |-> pc, job |-> job, body |-> NoBody]]
  BY DEF Holds
<1> HIDE DEF pc
<1> QED BY <1>1, <1>2, <1>3, WorkerGoesOn

-----------------------------------------------------------------------------
\* Every step of the composition keeps the invariant.
LEMMA SyncNextInv ==
    ASSUME Amounts \subseteq Nat, SyncInv, [SyncNext]_vars PROVE SyncInv'
<1> USE DEF SyncInv
<1>1. ASSUME UNCHANGED ordersVars
      PROVE  TypeInv' /\ CoverInv' /\ OrdersStay /\ FlagsStay
  BY <1>1, OrdersSide
<1>2. ASSUME UNCHANGED delivered PROVE DeliveriesStay
  BY <1>2 DEF DeliveriesStay
<1>3. ASSUME UNCHANGED deadJobs PROVE DeadTyped'
  BY <1>3 DEF DeadTyped
<1>4. ASSUME UNCHANGED backlog, OrdersStay PROVE BacklogSound'
  BY <1>4, BacklogLasts
<1>5. CASE Next /\ UNCHANGED syncVars
  <2>1. TypeInv' /\ CoverInv' /\ OrdersStay /\ FlagsStay
    BY <1>5, OrdersSide
  <2> QED BY <1>2, <1>3, <1>4, <1>5, <2>1, WorkersLast, ReceiptsLast DEF syncVars
<1>6. CASE SyncReceipt
  <2>1. TypeInv' /\ CoverInv' /\ OrdersStay /\ FlagsStay
    BY <1>1, <1>6 DEF SyncReceipt
  <2>2. PICK o \in OrderIds : /\ orders[o].status # "absent"
                              /\ backlog' = backlog (+) SetToBag({SyncJob(o)})
    BY <1>6 DEF SyncReceipt
  <2>3. \A job \in BagToSet(backlog') : job \in Job /\ SoundJob(job)
    BY <2>2, BagAdded, NewJobSound DEF BacklogSound
  <2>4. BacklogSound'
    BY <2>1, <2>3, JobLasts DEF BacklogSound, BagToSet
  <2> QED BY <1>2, <1>3, <1>6, <2>1, <2>4, WorkersLast, ReceiptsLast DEF SyncReceipt
<1>7. ASSUME NEW w \in Workers, TakeNew(w) PROVE SyncInv'
  <2>1. PICK o \in OrderIds : /\ jobs[o] > 0 /\ jobs' = [jobs EXCEPT ![o] = @ - 1]
                              /\ Holds(w, SyncJob(o))
    BY <1>7 DEF TakeNew
  <2>2. TypeInv' /\ CoverInv' /\ OrdersStay /\ FlagsStay /\ orders[o].status # "absent"
    BY <1>7, <2>1, JobTaken DEF TakeNew
  <2>3. DeliveriesStay /\ DeadTyped' /\ BacklogSound'
    BY <1>2, <1>3, <1>4, <1>7, <2>2 DEF TakeNew
  <2>4. WorkersSound'
    BY <2>1, <2>2, <2>3, NewJobSound, HoldsSound
  <2> QED BY <1>7, <2>2, <2>3, <2>4, ReceiptsLast DEF TakeNew
<1>8. ASSUME NEW w \in Workers, TakeBacklog(w) PROVE SyncInv'
  <2>1. TypeInv' /\ CoverInv' /\ OrdersStay /\ FlagsStay
    BY <1>1, <1>8 DEF TakeBacklog
  <2>2. PICK job \in BagToSet(backlog) :
          backlog' = backlog (-) SetToBag({job}) /\ Holds(w, job)
    BY <1>8 DEF TakeBacklog
  <2>3. job \in Job /\ SoundJob(job)
    BY <2>2 DEF BacklogSound
  <2>4. BagToSet(backlog)' \subseteq BagToSet(backlog)
    BY <2>2, BagTaken DEF BagToSet
  <2>5. DeliveriesStay /\ DeadTyped' /\ BacklogSound'
    BY <1>2, <1>3, <1>8, <2>1, <2>4, BacklogLasts DEF TakeBacklog
  <2>6. WorkersSound'
    BY <2>1, <2>2, <2>3, <2>5, HoldsSound
  <2> QED BY <1>8, <2>1, <2>5, <2>6, ReceiptsLast DEF TakeBacklog
<1>9. ASSUME NEW w \in Workers, ReadOrder(w) PROVE SyncInv'
  <2>1. TypeInv' /\ CoverInv' /\ OrdersStay /\ FlagsStay
    BY <1>1, <1>9 DEF ReadOrder
  <2>2. DeliveriesStay /\ DeadTyped' /\ BacklogSound'
    BY <1>2, <1>3, <1>4, <1>9, <2>1 DEF ReadOrder
  <2> DEFINE o == workers[w].job.order
             body == [status |-> orders[o].status, total |-> orders[o].received]
  <2>3. CASE Release(w)
    BY <1>9, <2>1, <2>2, <2>3, ReleaseSound, ReceiptsLast DEF ReadOrder
  <2>4. CASE ~Release(w)
    <3>1. /\ IsToSync(o)
          /\ workers' = [workers EXCEPT ![w] =
                          [pc |-> "enqueue", job |-> workers[w].job, body |-> body]]
      BY <1>9, <2>4 DEF ReadOrder
    <3>2. /\ workers[w].job \in Job /\ SoundJob(workers[w].job) /\ o \in OrderIds
          /\ workers[w].job.kind = "sync" /\ workers[w] \in WorkerState
      BY <1>9, JobInHand DEF ReadOrder, SoundState
    <3>3. orders[o] \in Row
      BY <3>2 DEF TypeInv, TypeOK
    <3>4. body \in Body
      BY <3>3 DEF Body, Row
    <3>5. Vouches(body, o)
      BY <3>1, <3>2 DEF IsToSync, CoverInv, EffectExplained, Effect, Covered, Vouches
    <3> HIDE DEF body
    <3>6. WorkersSound'
      BY <2>1, <2>2, <3>1, <3>2, <3>4, <3>5, WorkerGoesOn
    <3> QED BY <1>9, <2>1, <2>2, <3>6, ReceiptsLast DEF ReadOrder
  <2> QED BY <2>3, <2>4
<1>10. ASSUME NEW w \in Workers, EnqueueWebhook(w) PROVE SyncInv'
  <2>1. TypeInv' /\ CoverInv' /\ OrdersStay /\ FlagsStay
    BY <1>1, <1>10 DEF EnqueueWebhook
  <2>2. \A job \in BagToSet(backlog') : job \in Job /\ SoundJob(job)
    BY <1>10, WebhookSound DEF EnqueueWebhook
  <2>3. BacklogSound'
    BY <2>1, <2>2, JobLasts DEF BacklogSound, BagToSet
  <2> QED BY <1>2, <1>3, <1>10, <2>1, <2>3, ReleaseSound, ReceiptsLast DEF EnqueueWebhook
<1>11. ASSUME NEW w \in Workers, PostWebhook(w) PROVE SyncInv'
  <2>1. TypeInv' /\ CoverInv' /\ OrdersStay
    BY <1>1, <1>11 DEF PostWebhook
  <2>2. ReceiptsSound' /\ DeliveriesStay /\ delivered'[workers[w].job.order] # <<>>
    BY <1>11, DeliverySound DEF PostWebhook, ordersVars
  <2>3. /\ workers[w].job \in Job /\ SoundJob(workers[w].job)
        /\ workers[w].job.kind = "webhook"
        /\ workers[w] \in WorkerState /\ workers[w].body \in Body
    BY <1>11, JobInHand DEF PostWebhook, SoundState
  <2>4. workers' = [workers EXCEPT ![w] =
            [pc |-> "update", job |-> workers[w].job, body |-> workers[w].body]]
    <3>1. [workers[w] EXCEPT !.pc = "update"]
            = [pc |-> "update", job |-> workers[w].job, body |-> workers[w].body]
      BY <2>3 DEF WorkerState
    <3> QED BY <1>11, <3>1 DEF PostWebhook
  <2>5. WorkersSound'
    BY <2>1, <2>2, <2>3, <2>4, WorkerGoesOn
  <2> QED BY <1>3, <1>4, <1>11, <2>1, <2>2, <2>5 DEF PostWebhook
<1>12. ASSUME NEW w \in Workers, MarkSynced(w) PROVE SyncInv'
  <2>1. TypeInv' /\ CoverInv' /\ OrdersStay /\ ReceiptsSound'
    BY <1>12, FlagSound DEF MarkSynced
  <2> QED BY <1>2, <1>3, <1>4, <1>12, <2>1, ReleaseSound DEF MarkSynced
<1>13. ASSUME NEW w \in Workers, workers[w].pc # "idle", OrdersStay, TryAgain(workers[w].job, backlog)
       PROVE  BacklogSound' /\ DeadTyped'
  BY <1>13, JobInHand, TriedAgain DEF BacklogSound
<1>14. ASSUME NEW w \in Workers, PostRejected(w) PROVE SyncInv'
  <2>1. TypeInv' /\ CoverInv' /\ OrdersStay /\ FlagsStay
    BY <1>1, <1>14 DEF PostRejected
  <2>2. BacklogSound' /\ DeadTyped'
    BY <1>13, <1>14, <2>1 DEF PostRejected, AfterBadAnswer
  <2> QED BY <1>2, <1>14, <2>1, <2>2, ReleaseSound, ReceiptsLast DEF PostRejected, AfterBadAnswer
<1>15. ASSUME NEW w \in Workers, Throw(w) PROVE SyncInv'
  <2>1. CASE TryAgain(workers[w].job, backlog) /\ UNCHANGED <<delivered, orders>>
    <3>1. TypeInv' /\ CoverInv' /\ OrdersStay /\ FlagsStay
      BY <1>1, <1>15, <2>1 DEF Throw, ordersVars
    <3>2. BacklogSound' /\ DeadTyped'
      BY <1>13, <1>15, <2>1, <3>1 DEF Throw
    <3> QED BY <1>2, <1>15, <2>1, <3>1, <3>2, ReleaseSound, ReceiptsLast DEF Throw
  <2>2. CASE /\ workers[w].pc = "enqueue"
             /\ TryAgain(workers[w].job, WithWebhook(w))
             /\ UNCHANGED <<delivered, orders>>
    <3>1. TypeInv' /\ CoverInv' /\ OrdersStay /\ FlagsStay
      BY <1>1, <1>15, <2>2 DEF Throw, ordersVars
    <3>2. BacklogSound' /\ DeadTyped'
      BY <2>2, <3>1, JobInHand, WebhookSound, TriedAgain
    <3> QED BY <1>2, <1>15, <2>2, <3>1, <3>2, ReleaseSound, ReceiptsLast DEF Throw
  <2>3. CASE /\ workers[w].pc = "post"
             /\ TryAgain(workers[w].job, backlog)
             /\ delivered' = WithDelivery(w)
             /\ UNCHANGED orders
    <3>1. TypeInv' /\ CoverInv' /\ OrdersStay
      BY <1>1, <1>15, <2>3 DEF Throw, ordersVars
    <3>2. BacklogSound' /\ DeadTyped'
      BY <1>13, <1>15, <2>3, <3>1 DEF Throw
    <3>3. ReceiptsSound' /\ DeliveriesStay
      BY <2>3, DeliverySound
    <3> QED BY <1>15, <3>1, <3>2, <3>3, ReleaseSound DEF Throw
  <2>4. CASE /\ workers[w].pc = "update"
             /\ TryAgain(workers[w].job, backlog)
             /\ orders' = WithFlag(w)
             /\ UNCHANGED delivered
    <3>1. TypeInv' /\ CoverInv' /\ OrdersStay /\ ReceiptsSound'
      BY <1>15, <2>4, FlagSound DEF Throw
    <3>2. BacklogSound' /\ DeadTyped'
      BY <1>13, <1>15, <2>4, <3>1 DEF Throw
    <3> QED BY <1>2, <1>15, <2>4, <3>1, <3>2, ReleaseSound DEF Throw
  <2> QED BY <1>15, <2>1, <2>2, <2>3, <2>4 DEF Throw
<1>16. ASSUME NEW w \in Workers, LoseJob(w) PROVE SyncInv'
  <2>1. TypeInv' /\ CoverInv' /\ OrdersStay /\ FlagsStay
    BY <1>1, <1>16 DEF LoseJob
  <2> QED BY <1>2, <1>3, <1>4, <1>16, <2>1, ReleaseSound, ReceiptsLast DEF LoseJob
<1>17. CASE UNCHANGED vars
  <2>1. TypeInv' /\ CoverInv' /\ OrdersStay /\ FlagsStay
    BY <1>1, <1>17 DEF vars
  <2> QED BY <1>2, <1>3, <1>4, <1>17, <2>1, WorkersLast, ReceiptsLast DEF vars, syncVars
<1> QED
  BY <1>5, <1>6, <1>7, <1>8, <1>9, <1>10, <1>11, <1>12, <1>14, <1>15, <1>16, <1>17
     DEF SyncNext, Take, Run

\* The invariant holds throughout, as long as no amount is negative.
LEMMA SyncInvHolds ==
    ASSUME Amounts \subseteq Nat PROVE SyncSpec => []SyncInv
<1>1. SyncInv /\ [SyncNext]_vars => SyncInv'
  BY SyncNextInv
<1> QED BY <1>1, SyncInitInv, PTL DEF SyncSpec

\* Queues, workers and dead letters keep their types: no job is tried more than MaxTries
\* times, and none is buried before.
THEOREM SyncTypesHold ==
    ASSUME Amounts \subseteq Nat PROVE SyncSpec => []SyncTypeOK
  BY SyncInvHolds, SyncInvTyped, PTL

\* An order is flagged as synced only after a delivery, whatever fails or dies on the way
\* and however requests overlap (WebhookRetryService.handleJob).
THEOREM SyncFollowsDelivery ==
    ASSUME Amounts \subseteq Nat PROVE SyncSpec => []SyncedIsDelivered
<1>1. SyncInv => SyncedIsDelivered
  BY DEF SyncInv, ReceiptsSound, SoundReceipts, SyncedIsDelivered
<1> QED BY <1>1, SyncInvHolds, PTL

\* The accounting system receives only bodies of orders that were PAID and covered when
\* they were read, however long the webhook waited, was retried, or was queued by hand.
THEOREM SyncDeliversPaid ==
    ASSUME Amounts \subseteq Nat PROVE SyncSpec => []DeliveredIsPaid
<1>1. SyncInv => DeliveredIsPaid
  BY DEF SyncInv, ReceiptsSound, SoundReceipts, Vouches, DeliveredIsPaid
<1> QED BY <1>1, SyncInvHolds, PTL

-----------------------------------------------------------------------------
(* One delivery: while clients take turns, no call fails and nothing is    *)
(* queued by hand, there is one thing for each order, from its settlement  *)
(* to its receipt, that can still lead to a delivery, and it is in one     *)
(* place at a time.                                                        *)

\* Nothing of o has been queued yet: it is pending, or its payment is being settled.
Fresh(o) == orders[o].status \in {"absent", "pending"} \/ Settling(o)

\* Worker w has a job of o in hand that has not been delivered.
Carries(w, o) == workers[w].pc \in {"read", "enqueue", "post"} /\ workers[w].job.order = o

\* What has been queued for o is in one place, as is what has come of it.
Once(o) ==
    /\ Len(delivered[o]) <= 1
    /\ delivered[o] # <<>> => jobs[o] = 0 /\ ~Fresh(o)
    /\ \A w \in Workers : Carries(w, o) =>
          /\ delivered[o] = <<>> /\ jobs[o] = 0 /\ ~Fresh(o)
          /\ \A v \in Workers : Carries(v, o) => v = w
    /\ \A job \in BagToSet(backlog) : job.order = o =>
          /\ delivered[o] = <<>> /\ jobs[o] = 0 /\ ~Fresh(o)
          /\ \A w \in Workers : ~Carries(w, o)
          /\ backlog[job] = 1
          /\ \A other \in BagToSet(backlog) : other.order = o => other = job

\* No call has failed so far, and none has been made by hand.
Undisturbed == faults = 0 /\ manual = 0

OnceInv ==
    /\ faults \in Nat /\ manual \in Nat
    /\ SerialInv
    /\ Undisturbed => \A o \in Serial : Once(o)

\* What is fresh has nothing queued.
LEMMA FreshIsFree ==
    ASSUME TypeInv, SerialInv, NEW o \in Serial, Fresh(o) PROVE jobs[o] = 0
<1>1. o \in OrderIds /\ Blank(o) /\ BookFits(o)
  BY OrdersAssumption DEF SerialInv
<1>2. CASE orders[o].status \in {"absent", "pending"}
  BY <1>1, <1>2 DEF Blank, BookFits
<1>3. CASE Settling(o)
  <2>1. PICK r \in Requests : /\ requests[r].op = "pay" /\ requests[r].order = o
                              /\ requests[r].pc \in {"mark", "stock"}
    BY <1>3 DEF Settling
  <2>2. HandlerFits(r)
    BY DEF SerialInv
  <2> QED BY <1>1, <1>2, <2>1, <2>2 DEF HandlerFits
<1> QED BY <1>2, <1>3 DEF Fresh

\* What a step of the order handlers does to an order on which clients take turns: it
\* queues the order's one job when the order stops being fresh, or nothing of the kind.
QueuesOnce(o) ==
    \/ jobs'[o] = jobs[o] /\ (Fresh(o)' => Fresh(o))
    \/ jobs'[o] = 1 /\ Fresh(o) /\ ~Fresh(o)'

\* A step of r that leaves jobs and the status of o alone makes o fresh only by settling it.
LEMMA QueuesNothing ==
    ASSUME TypeInv, SerialInv, NEW r \in Requests, Alone(r), NEW o \in Serial,
           orders'[o].status \in {"absent", "pending"} => orders[o].status \in {"absent", "pending"},
           jobs'[o] = jobs[o],
           (/\ requests'[r].op = "pay" /\ requests'[r].order = o
            /\ requests'[r].pc \in {"mark", "stock"}) => Fresh(o)
    PROVE  QueuesOnce(o)
<1>1. Settling(o)' => Fresh(o)
  BY DEF Settling, Alone, Fresh
<1>2. orders'[o].status \in {"absent", "pending"} => Fresh(o)
  BY DEF Fresh
<1> QED BY <1>1, <1>2 DEF Fresh, QueuesOnce

\* Every step of the order handlers does one or the other.
LEMMA NextQueuesOnce ==
    ASSUME TypeInv, SerialInv, [Next]_ordersVars, NEW o \in Serial
    PROVE  QueuesOnce(o)
<1>1. TypeOK /\ o \in OrderIds /\ orders[o] \in Row
  BY OrdersAssumption DEF TypeInv, TypeOK
<1>2. \A r \in Requests : HandlerFits(r) /\ TargetExists(r) /\ requests[r] \in Request
  BY <1>1, RequestTyped DEF TypeInv, SerialInv
<1>3. ASSUME NEW r \in Requests, StartCreate(r) PROVE QueuesOnce(o)
  BY <1>1, <1>3, StartCreateEffect, QueuesNothing
<1>4. ASSUME NEW r \in Requests, StartPay(r) PROVE QueuesOnce(o)
  BY <1>1, <1>4, StartPayEffect, QueuesNothing
<1>5. ASSUME NEW r \in Requests, StartVoid(r) PROVE QueuesOnce(o)
  BY <1>1, <1>5, StartVoidEffect, QueuesNothing
<1>6. ASSUME NEW r \in Requests, CreateFound(r) PROVE QueuesOnce(o)
  BY <1>1, <1>6, CreateFoundEffect, QueuesNothing
<1>7. ASSUME NEW r \in Requests, CreateNotFound(r) PROVE QueuesOnce(o)
  BY <1>1, <1>7, CreateNotFoundEffect, QueuesNothing DEF Moves
<1>8. ASSUME NEW r \in Requests, CreateInsert(r) PROVE QueuesOnce(o)
  <2>1. /\ Alone(r) /\ requests'[r].pc = "view" /\ jobs' = jobs
        /\ orders[requests'[r].order].status = "absent"
        /\ orders' = [orders EXCEPT ![requests'[r].order] =
                         NewRow(requests[r].key, requests[r].cart)]
    BY <1>1, <1>8, CreateInsertEffect
  <2>2. orders'[o].status = orders[o].status \/ orders[o].status = "absent"
    BY <2>1
  <2> QED BY <2>1, <2>2, QueuesNothing
<1>9. ASSUME NEW r \in Requests, CreateConflict(r) PROVE QueuesOnce(o)
  BY <1>1, <1>9, CreateConflictEffect, QueuesNothing DEF Moves
<1>10. ASSUME NEW r \in Requests, PayRead(r) PROVE QueuesOnce(o)
  BY <1>1, <1>10, PayReadEffect, QueuesNothing
<1>11. ASSUME NEW r \in Requests, PaySave(r) PROVE QueuesOnce(o)
  <2>1. /\ Alone(r) /\ requests[r].pc = "save" /\ jobs' = jobs
        /\ requests'[r].order = requests[r].order
        /\ orders' = [orders EXCEPT ![requests[r].order].received = @ + requests[r].amount]
    BY <1>1, <1>11, PaySaveEffect DEF Moves
  <2>2. orders'[o].status = orders[o].status
    BY <1>1, <2>1 DEF TypeOK, Row
  <2>3. requests[r].order = o => Fresh(o)
    BY <1>2, <2>1 DEF HandlerFits, Fresh
  <2> QED BY <2>1, <2>2, <2>3, QueuesNothing
<1>12. ASSUME NEW r \in Requests, PayMark(r) PROVE QueuesOnce(o)
  <2>1. /\ Alone(r) /\ requests[r].pc = "mark" /\ jobs' = jobs
        /\ requests'[r].order = requests[r].order
        /\ orders' = [orders EXCEPT ![requests[r].order].status = "paid"]
    BY <1>1, <1>12, PayMarkEffect DEF Moves
  <2>2. orders'[o].status = orders[o].status \/ orders'[o].status = "paid"
    BY <1>1, <2>1 DEF TypeOK, Row
  <2>3. requests[r].order = o => Fresh(o)
    BY <1>2, <2>1 DEF HandlerFits, Fresh
  <2> QED BY <2>1, <2>2, <2>3, QueuesNothing
<1>13. ASSUME NEW r \in Requests, PayEnqueue(r) PROVE QueuesOnce(o)
  <2>1. /\ Moves(r, "stock", "reload") /\ requests[r].op = "pay"
        /\ jobs' = [jobs EXCEPT ![requests[r].order] = @ + 1]
        /\ orders' = orders
    BY <1>1, <1>13, PayEnqueueEffect
  <2>2. CASE requests[r].order = o
    <3>1. jobs[o] = 0 /\ orders[o].status = "paid"
      BY <1>2, <2>1, <2>2 DEF HandlerFits, Moves
    <3>2. jobs'[o] = 1
      BY <1>1, <2>1, <2>2, <3>1 DEF TypeOK
    <3>3. Fresh(o)
      BY <2>1, <2>2 DEF Fresh, Settling, Moves
    <3>4. ~Settling(o)'
      <4>1. ASSUME NEW s \in Requests, requests'[s].op = "pay", requests'[s].order = o,
                   requests'[s].pc \in {"mark", "stock"}
            PROVE  FALSE
        <5>1. s # r /\ requests'[s] = requests[s]
          BY <2>1, <4>1 DEF Moves, Alone
        <5>2. Active(r) /\ Active(s)
          BY <2>1, <4>1, <5>1 DEF Active, Moves
        <5> QED BY <2>2, <4>1, <5>1, <5>2 DEF SerialInv, OneAtATime
      <4> QED BY <4>1 DEF Settling
    <3> QED BY <2>1, <3>1, <3>2, <3>3, <3>4 DEF QueuesOnce, Fresh
  <2>3. CASE requests[r].order # o
    <3>1. jobs'[o] = jobs[o]
      BY <2>1, <2>3
    <3> QED BY <2>1, <3>1, QueuesNothing DEF Moves
  <2> QED BY <2>2, <2>3
<1>14. ASSUME NEW r \in Requests, FindRecipes(r) PROVE QueuesOnce(o)
  BY <1>1, <1>14, FindRecipesEffect, QueuesNothing DEF Moves, SameRequest, Fresh, Settling
<1>15. ASSUME NEW r \in Requests, MoveStock(r) PROVE QueuesOnce(o)
  <2>1. Moves(r, "stock", "stock") /\ UNCHANGED <<orders, jobs>>
    BY <1>1, <1>15, MoveStockEffect
  <2> QED BY <2>1, QueuesNothing DEF Moves, SameRequest, Fresh, Settling
<1>16. ASSUME NEW r \in Requests, VoidRead(r) PROVE QueuesOnce(o)
  BY <1>1, <1>2, <1>16, VoidReadEffect, QueuesNothing DEF TargetExists, SameRequest
<1>17. ASSUME NEW r \in Requests, VoidMark(r) PROVE QueuesOnce(o)
  <2>1. /\ Alone(r) /\ requests'[r].pc = "reload" /\ jobs' = jobs
        /\ orders' = [orders EXCEPT ![requests[r].order].status = "void"]
    BY <1>1, <1>17, VoidMarkEffect DEF Moves
  <2>2. orders'[o].status = orders[o].status \/ orders'[o].status = "void"
    BY <1>1, <2>1 DEF TypeOK, Row
  <2> QED BY <2>1, <2>2, QueuesNothing
<1>18. ASSUME NEW r \in Requests, Reload(r) PROVE QueuesOnce(o)
  BY <1>1, <1>18, ReloadEffect, QueuesNothing DEF Moves
<1>19. ASSUME NEW r \in Requests, PublishRead(r) PROVE QueuesOnce(o)
  BY <1>1, <1>19, PublishReadEffect, QueuesNothing DEF Moves
<1>20. ASSUME NEW r \in Requests, Publish(r) PROVE QueuesOnce(o)
  BY <1>1, <1>20, PublishEffect, QueuesNothing DEF Moves
<1>21. ASSUME NEW r \in Requests, Abort(r) PROVE QueuesOnce(o)
  BY <1>1, <1>21, AbortEffect, QueuesNothing
<1>22. ASSUME UNCHANGED <<orders, requests, jobs>> PROVE QueuesOnce(o)
  BY <1>22 DEF QueuesOnce, Fresh, Settling
<1>23. CreateRecipe \/ UNCHANGED ordersVars => UNCHANGED <<orders, requests, jobs>>
  BY DEF CreateRecipe, ordersVars
<1> QED
  BY <1>3, <1>4, <1>5, <1>6, <1>7, <1>8, <1>9, <1>10, <1>11, <1>12, <1>13, <1>14, <1>15,
     <1>16, <1>17, <1>18, <1>19, <1>20, <1>21, <1>22, <1>23
     DEF Next, Arrive, Handle

-----------------------------------------------------------------------------
\* A worker that takes a job from the ready list leaves the order handlers as they are.
LEMMA JobTakenSerial ==
    ASSUME TypeInv, SerialInv, NEW o \in OrderIds, jobs[o] > 0,
           jobs' = [jobs EXCEPT ![o] = @ - 1],
           UNCHANGED <<orders, used, recipes, display, requests, aborts>>
    PROVE  SerialInv'
<1>1. jobs \in [OrderIds -> Nat]
  BY DEF TypeInv, TypeOK
<1>2. \A p \in OrderIds : /\ jobs'[p] \in Nat /\ jobs'[p] <= jobs[p]
                          /\ jobs[p] = 0 => jobs'[p] = 0
  BY <1>1
<1>3. OneAtATime'
  BY DEF SerialInv, OneAtATime, Active
<1>4. ASSUME NEW r \in Requests PROVE RequestFits(r)' /\ HandlerFits(r)'
  <2>1. RequestFits(r) /\ HandlerFits(r)
    BY DEF SerialInv
  <2>2. RequestFits(r)'
    BY <2>1 DEF RequestFits, RowsOf
  <2>3. HandlerFits(r)'
    BY <1>2, <2>1, OrdersAssumption DEF HandlerFits
  <2> QED BY <2>2, <2>3
<1>5. ASSUME NEW p \in OrderIds PROVE Blank(p)' /\ BookFits(p)'
  <2>1. Blank(p) /\ BookFits(p) /\ jobs[p] \in Nat
    BY <1>1 DEF SerialInv
  <2> QED BY <1>2, <2>1 DEF Blank, BookFits, NoRow, NoStock
<1> QED BY <1>3, <1>4, <1>5 DEF SerialInv

\* So does one that flags an order.
LEMMA FlagSetSerial ==
    ASSUME TypeInv, SerialInv, NEW o \in OrderIds, orders[o].status # "absent",
           orders' = [orders EXCEPT ![o].synced = TRUE],
           UNCHANGED <<used, recipes, jobs, display, requests, aborts>>
    PROVE  /\ SerialInv'
           /\ \A p \in OrderIds : orders'[p].status = orders[p].status
<1> DEFINE row == [orders[o] EXCEPT !.synced = TRUE]
<1>1. orders \in [OrderIds -> Row] /\ orders[o] \in Row
  BY DEF TypeInv, TypeOK
<1>2. /\ row.status = orders[o].status /\ row.items = orders[o].items
      /\ row.net = orders[o].net /\ row.received = orders[o].received
  BY <1>1 DEF Row
<1>3. orders' = [orders EXCEPT ![o] = row]
  OBVIOUS
<1> HIDE DEF row
<1>4. /\ \A p \in OrderIds : p # o => orders'[p] = orders[p]
      /\ \A p \in OrderIds : /\ orders'[p].status = orders[p].status
                             /\ orders'[p].items = orders[p].items
                             /\ orders'[p].net = orders[p].net
                             /\ orders'[p].received = orders[p].received
  BY <1>1, <1>2, <1>3
<1>5. OneAtATime'
  BY DEF SerialInv, OneAtATime, Active
<1>6. ASSUME NEW r \in Requests PROVE RequestFits(r)' /\ HandlerFits(r)'
  <2>1. RequestFits(r) /\ HandlerFits(r) /\ requests'[r] = requests[r]
        /\ TargetExists(r) /\ requests[r] \in Request
    BY RequestTyped DEF SerialInv, TypeInv
  <2>2. requests[r].order \in OrderIds \cup {NoOrder}
    BY <2>1 DEF Request
  <2>3. requests[r].pc = "stock" =>
           orders'[requests[r].order].items = orders[requests[r].order].items
    BY <1>4, <2>1, <2>2 DEF TargetExists
  <2>4. RequestFits(r)'
    BY <2>1, <2>3 DEF RequestFits, RowsOf
  <2>5. HandlerFits(r)'
    BY <1>4, <2>1, <2>2, OrdersAssumption DEF HandlerFits
  <2> QED BY <2>4, <2>5
<1>7. ASSUME NEW p \in OrderIds PROVE Blank(p)' /\ BookFits(p)'
  <2>1. Blank(p) /\ BookFits(p)
    BY DEF SerialInv
  <2> QED BY <1>4, <2>1 DEF Blank, BookFits, NoRow, NoStock
<1> QED BY <1>4, <1>5, <1>6, <1>7 DEF SerialInv

-----------------------------------------------------------------------------
(* What is queued for an order moves from one place to the next.           *)

\* The jobs of o that wait are those that waited.
SameJobs(o) ==
    \A job \in BagToSet(backlog)' : job.order = o =>
        job \in BagToSet(backlog) /\ backlog'[job] = backlog[job]

\* No worker but w gets a job of o in hand.
OnlyCarrier(w, o) ==
    \A v \in Workers : Carries(v, o)' => v = w \/ Carries(v, o)

\* Nothing moves, or something is lost.
LEMMA OnceLasts ==
    ASSUME NEW o, Once(o), jobs'[o] = jobs[o], Fresh(o)' => Fresh(o),
           delivered'[o] = delivered[o], SameJobs(o),
           \A v \in Workers : Carries(v, o)' => Carries(v, o)
    PROVE  Once(o)'
<1>1. Len(delivered[o])' <= 1 /\ (delivered'[o] # <<>> => jobs'[o] = 0 /\ ~Fresh(o)')
  BY DEF Once
<1>2. ASSUME NEW w \in Workers, Carries(w, o)'
      PROVE  /\ delivered'[o] = <<>> /\ jobs'[o] = 0 /\ ~Fresh(o)'
             /\ \A v \in Workers : Carries(v, o)' => v = w
  BY <1>2 DEF Once
<1>3. ASSUME NEW job \in BagToSet(backlog)', job.order = o
      PROVE  /\ delivered'[o] = <<>> /\ jobs'[o] = 0 /\ ~Fresh(o)'
             /\ \A w \in Workers : ~Carries(w, o)'
             /\ backlog'[job] = 1
             /\ \A other \in BagToSet(backlog)' : other.order = o => other = job
  BY <1>3 DEF Once, SameJobs
<1> QED BY <1>1, <1>2, <1>3 DEF Once

\* The payment queues the job.
LEMMA OnceQueued ==
    ASSUME NEW o, Once(o), Fresh(o), ~Fresh(o)',
           UNCHANGED <<backlog, workers, delivered>>
    PROVE  Once(o)'
<1>1. delivered[o] = <<>> /\ Len(delivered[o]) <= 1
  BY DEF Once
<1>2. \A w \in Workers : ~Carries(w, o)'
  BY DEF Once, Carries
<1>3. \A job \in BagToSet(backlog)' : job.order # o
  BY DEF Once, BagToSet
<1> QED BY <1>1, <1>2, <1>3 DEF Once

\* A worker takes it.
LEMMA OnceTaken ==
    ASSUME NEW o, NEW w \in Workers, Once(o), jobs[o] # 0, jobs'[o] = 0, ~Fresh(o)',
           UNCHANGED <<backlog, delivered>>, OnlyCarrier(w, o)
    PROVE  Once(o)'
<1>1. delivered[o] = <<>> /\ Len(delivered[o]) <= 1
  BY DEF Once
<1>2. \A v \in Workers : Carries(v, o)' => v = w
  BY DEF Once, OnlyCarrier
<1>3. \A job \in BagToSet(backlog)' : job.order # o
  BY DEF Once, BagToSet
<1> QED BY <1>1, <1>2, <1>3 DEF Once

\* A worker takes the webhook.
LEMMA OnceFetched ==
    ASSUME NEW o, NEW w \in Workers, Once(o), NEW job \in BagToSet(backlog), job.order = o,
           UNCHANGED <<delivered, jobs>>, Fresh(o)' => Fresh(o), OnlyCarrier(w, o),
           \A other \in BagToSet(backlog)' : other.order # o
    PROVE  Once(o)'
<1>1. delivered[o] = <<>> /\ Len(delivered[o]) <= 1 /\ jobs[o] = 0 /\ ~Fresh(o)
  BY DEF Once
<1>2. \A v \in Workers : Carries(v, o)' => v = w
  BY DEF Once, OnlyCarrier
<1> QED BY <1>1, <1>2 DEF Once

\* A worker queues the webhook.
LEMMA OncePushed ==
    ASSUME NEW o, NEW w \in Workers, Once(o), Carries(w, o), NEW new,
           UNCHANGED <<delivered, jobs>>, Fresh(o)' => Fresh(o),
           \A v \in Workers : Carries(v, o)' => v # w /\ Carries(v, o),
           \A job \in BagToSet(backlog)' :
               job.order = o => job \in BagToSet(backlog) \/ (job = new /\ backlog'[job] = 1)
    PROVE  Once(o)'
<1>1. delivered[o] = <<>> /\ Len(delivered[o]) <= 1 /\ jobs[o] = 0 /\ ~Fresh(o)
  BY DEF Once
<1>2. \A v \in Workers : ~Carries(v, o)'
  BY DEF Once
<1>3. \A job \in BagToSet(backlog)' : job.order = o => job = new /\ backlog'[job] = 1
  BY DEF Once
<1> QED BY <1>1, <1>2, <1>3 DEF Once

\* The accounting system receives it.
LEMMA OnceDelivered ==
    ASSUME NEW o, NEW w \in Workers, Once(o), Carries(w, o), Len(delivered'[o]) <= 1,
           jobs' = jobs, Fresh(o)' => Fresh(o), SameJobs(o),
           \A v \in Workers : Carries(v, o)' => v # w /\ Carries(v, o)
    PROVE  Once(o)'
<1>1. jobs[o] = 0 /\ ~Fresh(o)
  BY DEF Once
<1>2. \A v \in Workers : ~Carries(v, o)'
  BY DEF Once
<1>3. \A job \in BagToSet(backlog)' : job.order # o
  BY DEF Once, SameJobs
<1> QED BY <1>1, <1>2, <1>3 DEF Once

\* What the workers carry after a step of one of them.
LEMMA CarriersStay ==
    ASSUME WorkersSound, NEW w \in Workers, NEW q,
           workers' = [workers EXCEPT ![w] = q], NEW o
    PROVE  /\ \A v \in Workers : v # w => (Carries(v, o)' <=> Carries(v, o))
           /\ Carries(w, o)' <=> q.pc \in {"read", "enqueue", "post"} /\ q.job.order = o
  BY DEF WorkersSound, Carries

\* What they carry after one of them has let go.
LEMMA CarrierGone ==
    ASSUME WorkersSound, NEW w \in Workers, Release(w), NEW o
    PROVE  \A v \in Workers : Carries(v, o)' => v # w /\ Carries(v, o)
<1>1. workers' = [workers EXCEPT ![w] = IdleWorker] /\ IdleWorker.pc = "idle"
  BY DEF Release, IdleWorker
<1> QED BY <1>1, CarriersStay

\* An order stays fresh, or not, as long as its status and the requests stay.
LEMMA FreshSame ==
    ASSUME NEW o, UNCHANGED requests, orders'[o].status = orders[o].status
    PROVE  Fresh(o)' <=> Fresh(o)
  BY DEF Fresh, Settling

\* No step but a failure or a call by hand gives an order a second chance of delivery.
LEMMA OnceStep ==
    ASSUME SyncInv, SerialInv, [SyncNext]_vars, faults \in Nat, manual \in Nat,
           UNCHANGED <<faults, manual>>, NEW o \in Serial, Once(o)
    PROVE  Once(o)'
<1>1. /\ TypeInv /\ WorkersSound /\ o \in OrderIds
      /\ jobs \in [OrderIds -> Nat] /\ delivered \in [OrderIds -> Seq(Body)]
  BY OrdersAssumption DEF SyncInv, TypeInv, TypeOK, ReceiptsSound
<1>2. ASSUME UNCHANGED backlog PROVE SameJobs(o)
  BY <1>2 DEF SameJobs, BagToSet
<1>3. ASSUME UNCHANGED workers PROVE \A v \in Workers : Carries(v, o)' => Carries(v, o)
  BY <1>3 DEF Carries
<1>4. ASSUME UNCHANGED ordersVars PROVE jobs'[o] = jobs[o] /\ (Fresh(o)' <=> Fresh(o))
  BY <1>4, FreshSame DEF ordersVars
<1>5. CASE Next /\ UNCHANGED syncVars
  <2>1. QueuesOnce(o)
    BY <1>1, <1>5, NextQueuesOnce
  <2>2. CASE jobs'[o] = jobs[o] /\ (Fresh(o)' => Fresh(o))
    BY <1>2, <1>3, <1>5, <2>2, OnceLasts DEF syncVars
  <2>3. CASE jobs'[o] = 1 /\ Fresh(o) /\ ~Fresh(o)'
    BY <1>5, <2>3, OnceQueued DEF syncVars
  <2> QED BY <2>1, <2>2, <2>3 DEF QueuesOnce
<1>6. CASE UNCHANGED vars
  BY <1>2, <1>3, <1>4, <1>6, OnceLasts DEF vars, syncVars
<1>7. ASSUME NEW w \in Workers, TakeNew(w) PROVE Once(o)'
  <2>1. PICK p \in OrderIds : /\ jobs[p] > 0 /\ jobs' = [jobs EXCEPT ![p] = @ - 1]
                              /\ Holds(w, SyncJob(p))
    BY <1>7 DEF TakeNew
  <2>2. /\ UNCHANGED <<orders, requests, backlog, delivered>>
        /\ Fresh(o)' <=> Fresh(o)
    BY <1>7, FreshSame DEF TakeNew
  <2>3. PICK q : workers' = [workers EXCEPT ![w] = q] /\ q.pc = "read" /\ q.job.order = p
    <3> DEFINE taken == [pc |-> "read", job |-> SyncJob(p), body |-> NoBody]
    <3>1. /\ workers' = [workers EXCEPT ![w] = taken]
          /\ taken.pc = "read" /\ taken.job.order = p
      BY <2>1 DEF Holds, SyncJob
    <3> HIDE DEF taken
    <3> QED BY <3>1
  <2>4. /\ \A v \in Workers : v # w => (Carries(v, o)' <=> Carries(v, o))
        /\ Carries(w, o)' <=> p = o
    BY <1>1, <2>3, CarriersStay
  <2>5. CASE p = o
    <3>1. BookFits(o) /\ jobs[o] \in Nat
      BY <1>1 DEF SerialInv
    <3>2. jobs[o] = 1 /\ jobs'[o] = 0
      BY <1>1, <2>1, <2>5, <3>1 DEF BookFits
    <3>3. ~Fresh(o)'
      BY <1>1, <2>2, <3>2, FreshIsFree
    <3>4. OnlyCarrier(w, o)
      BY <2>4 DEF OnlyCarrier
    <3> QED BY <2>2, <3>2, <3>3, <3>4, OnceTaken
  <2>6. CASE p # o
    <3>1. jobs'[o] = jobs[o]
      BY <1>1, <2>1, <2>6
    <3> QED BY <1>2, <2>2, <2>4, <2>6, <3>1, OnceLasts
  <2> QED BY <2>5, <2>6
<1>8. ASSUME NEW w \in Workers, TakeBacklog(w) PROVE Once(o)'
  <2>1. PICK job \in BagToSet(backlog) :
          backlog' = backlog (-) SetToBag({job}) /\ Holds(w, job)
    BY <1>8 DEF TakeBacklog
  <2>2. /\ UNCHANGED <<delivered, jobs>> /\ jobs'[o] = jobs[o]
        /\ Fresh(o)' <=> Fresh(o)
    BY <1>4, <1>8 DEF TakeBacklog, ordersVars
  <2> PICK q : q = [pc |-> IF job.kind = "sync" THEN "read" ELSE "post",
                    job |-> job, body |-> NoBody]
    OBVIOUS
  <2>3. workers' = [workers EXCEPT ![w] = q] /\ q.job = job
    BY <2>1 DEF Holds
  <2>4. /\ \A v \in Workers : v # w => (Carries(v, o)' <=> Carries(v, o))
        /\ Carries(w, o)' => job.order = o
    BY <1>1, <2>3, CarriersStay
  <2>5. \A x \in BagToSet(backlog)' : /\ x \in BagToSet(backlog)
                                      /\ x # job => backlog'[x] = backlog[x]
                                      /\ x = job => backlog[x] # 1
    <3>1. \A x \in BagToSet(backlog') : /\ x \in BagToSet(backlog)
                                        /\ x # job => backlog'[x] = backlog[x]
                                        /\ x = job => backlog[x] # 1
      BY <2>1 DEF BagToSet, SetToBag, (-)
    <3> QED BY <3>1 DEF BagToSet
  <2>6. CASE job.order = o
    <3>1. OnlyCarrier(w, o)
      BY <2>4 DEF OnlyCarrier
    <3>2. \A other \in BagToSet(backlog)' : other.order # o
      BY <2>5, <2>6 DEF Once
    <3> QED BY <2>2, <2>6, <3>1, <3>2, OnceFetched
  <2>7. CASE job.order # o
    <3>1. SameJobs(o)
      BY <2>5, <2>7 DEF SameJobs
    <3> QED BY <2>2, <2>4, <2>7, <3>1, OnceLasts
  <2> QED BY <2>6, <2>7
<1>9. ASSUME NEW w \in Workers, ReadOrder(w) PROVE Once(o)'
  <2>1. /\ UNCHANGED delivered /\ SameJobs(o) /\ jobs'[o] = jobs[o]
        /\ Fresh(o)' <=> Fresh(o)
    BY <1>2, <1>4, <1>9 DEF ReadOrder
  <2>2. CASE Release(w)
    BY <1>1, <2>1, <2>2, CarrierGone, OnceLasts
  <2>3. CASE ~Release(w)
    <3>1. PICK q : /\ workers' = [workers EXCEPT ![w] = q]
                   /\ q.job = workers[w].job
      BY <1>9, <2>3 DEF ReadOrder
    <3>2. \A v \in Workers : Carries(v, o)' => Carries(v, o)
      BY <1>1, <1>9, <3>1, CarriersStay DEF ReadOrder, Carries
    <3> QED BY <2>1, <3>2, OnceLasts
  <2> QED BY <2>2, <2>3
<1>10. ASSUME NEW w \in Workers, EnqueueWebhook(w) PROVE Once(o)'
  <2>1. /\ UNCHANGED <<delivered, jobs>> /\ jobs'[o] = jobs[o]
        /\ Fresh(o)' <=> Fresh(o)
    BY <1>4, <1>10 DEF EnqueueWebhook, ordersVars
  <2>2. \A v \in Workers : Carries(v, o)' => v # w /\ Carries(v, o)
    BY <1>1, <1>10, CarrierGone DEF EnqueueWebhook
  <2>3. PICK new : new = WebhookJob(workers[w].job.order, workers[w].body)
    OBVIOUS
  <2>4. /\ backlog' = backlog (+) SetToBag({new}) /\ new.order = workers[w].job.order
        /\ workers[w].pc = "enqueue"
    BY <1>10, <2>3 DEF EnqueueWebhook, WithWebhook, WebhookJob
  <2>5. \A x \in BagToSet(backlog)' :
           \/ x # new /\ x \in BagToSet(backlog) /\ backlog'[x] = backlog[x] + 0
           \/ x = new /\ (x \in BagToSet(backlog) \/ backlog'[x] = 1)
    <3>1. \A x \in BagToSet(backlog') :
             /\ x # new => x \in BagToSet(backlog) /\ backlog'[x] = backlog[x] + 0
             /\ x \notin BagToSet(backlog) => x = new /\ backlog'[x] = 1
      BY <2>4 DEF BagToSet, SetToBag, (+)
    <3> QED BY <3>1 DEF BagToSet
  <2>6. CASE new.order = o
    <3>1. Carries(w, o)
      BY <2>4, <2>6 DEF Carries
    <3>2. \A job \in BagToSet(backlog)' :
             job.order = o => job \in BagToSet(backlog) \/ (job = new /\ backlog'[job] = 1)
      BY <2>5
    <3> QED BY <2>1, <2>2, <3>1, <3>2, OncePushed
  <2>7. CASE new.order # o
    <3>1. SameJobs(o)
      BY <2>5, <2>7 DEF SameJobs, Once
    <3> QED BY <2>1, <2>2, <3>1, OnceLasts
  <2> QED BY <2>6, <2>7
<1>11. ASSUME NEW w \in Workers, PostWebhook(w) PROVE Once(o)'
  <2>1. /\ SameJobs(o) /\ jobs' = jobs /\ jobs'[o] = jobs[o]
        /\ Fresh(o)' <=> Fresh(o)
    BY <1>2, <1>4, <1>11 DEF PostWebhook, ordersVars
  <2>2. PICK q : workers' = [workers EXCEPT ![w] = q] /\ q.pc = "update"
    <3>1. [workers[w] EXCEPT !.pc = "update"].pc = "update"
      BY <1>1 DEF WorkersSound, WorkerState
    <3> QED BY <1>11, <3>1 DEF PostWebhook
  <2>3. \A v \in Workers : Carries(v, o)' => v # w /\ Carries(v, o)
    BY <1>1, <2>2, CarriersStay
  <2>4. PICK p, body : /\ p = workers[w].job.order
                       /\ delivered' = [delivered EXCEPT ![p] = Append(@, body)]
    BY <1>11 DEF PostWebhook, WithDelivery
  <2>5. CASE p = o
    <3>1. Carries(w, o)
      BY <1>11, <2>4, <2>5 DEF PostWebhook, Carries
    <3>2. delivered[o] = <<>>
      BY <3>1 DEF Once
    <3>3. delivered'[o] = Append(<<>>, body)
      BY <1>1, <2>4, <2>5, <3>2
    <3>4. Len(delivered'[o]) <= 1
      BY <3>3
    <3> QED BY <2>1, <2>3, <3>1, <3>4, OnceDelivered
  <2>6. CASE p # o
    <3>1. delivered'[o] = delivered[o]
      BY <1>1, <2>4, <2>6
    <3> QED BY <2>1, <2>3, <3>1, OnceLasts
  <2> QED BY <2>5, <2>6
<1>12. ASSUME NEW w \in Workers, MarkSynced(w) PROVE Once(o)'
  <2>1. PICK p \in OrderIds : /\ p = workers[w].job.order /\ orders[p].status # "absent"
                              /\ orders' = [orders EXCEPT ![p].synced = TRUE]
    BY <1>12, JobInHand DEF MarkSynced, WithFlag
  <2>2. UNCHANGED <<used, recipes, jobs, display, requests, aborts, delivered, backlog>>
    BY <1>12 DEF MarkSynced
  <2>3. Fresh(o)' <=> Fresh(o)
    BY <1>1, <2>1, <2>2, FlagSetSerial, FreshSame
  <2>4. \A v \in Workers : Carries(v, o)' => Carries(v, o)
    BY <1>1, <1>12, CarrierGone DEF MarkSynced
  <2> QED BY <1>2, <2>2, <2>3, <2>4, OnceLasts
<1>13. ASSUME NEW w \in Workers, LoseJob(w) PROVE Once(o)'
  BY <1>1, <1>2, <1>4, <1>13, CarrierGone, OnceLasts DEF LoseJob
<1>14. \A w \in Workers : ~SyncReceipt /\ ~PostRejected(w) /\ ~Throw(w)
  BY DEF SyncReceipt, PostRejected, Throw
<1>15. ~SyncReceipt
  BY DEF SyncReceipt
<1> QED
  BY <1>5, <1>6, <1>7, <1>8, <1>9, <1>10, <1>11, <1>12, <1>13, <1>14, <1>15
     DEF SyncNext, Take, Run

\* Every step keeps the invariant.
LEMMA NextOnceInv ==
    ASSUME SyncInv, OnceInv, [SyncNext]_vars PROVE OnceInv'
<1>1. TypeInv /\ SerialInv /\ faults \in Nat /\ manual \in Nat
  BY DEF SyncInv, OnceInv
<1>2. /\ faults' = faults \/ faults' = faults + 1
      /\ manual' = manual \/ manual' = manual + 1
  BY DEF SyncNext, syncVars, vars, SyncReceipt, Take, TakeNew, TakeBacklog, Run, ReadOrder,
         EnqueueWebhook, PostWebhook, MarkSynced, PostRejected, Throw, LoseJob
<1>3. faults' \in Nat /\ manual' \in Nat
  BY <1>1, <1>2
<1>4. ASSUME Undisturbed' PROVE Undisturbed /\ UNCHANGED <<faults, manual>>
  BY <1>1, <1>2, <1>4 DEF Undisturbed
<1>5. ASSUME Undisturbed', NEW o \in Serial PROVE Once(o)'
  BY <1>1, <1>4, <1>5, OnceStep DEF OnceInv
<1>6. SerialInv'
  <2>1. CASE [Next]_ordersVars
    BY <1>1, <2>1, NextSerialInv
  <2>2. ASSUME NEW w \in Workers, TakeNew(w) PROVE SerialInv'
    BY <1>1, <2>2, JobTakenSerial DEF TakeNew
  <2>3. ASSUME NEW w \in Workers, workers[w].pc = "update", orders' = WithFlag(w),
               UNCHANGED <<used, recipes, jobs, display, requests, aborts>>
        PROVE  SerialInv'
    <3>1. PICK p \in OrderIds : /\ p = workers[w].job.order /\ orders[p].status # "absent"
                                /\ orders' = [orders EXCEPT ![p].synced = TRUE]
      BY <2>3, JobInHand DEF WithFlag
    <3> QED BY <1>1, <2>3, <3>1, FlagSetSerial
  <2>4. ASSUME NEW w \in Workers, MarkSynced(w) PROVE SerialInv'
    BY <2>3, <2>4 DEF MarkSynced
  <2>5. ASSUME NEW w \in Workers, Throw(w) PROVE SerialInv'
    BY <2>1, <2>3, <2>5 DEF Throw, ordersVars
  <2>6. ASSUME NEW w \in Workers,
               \/ TakeBacklog(w) \/ ReadOrder(w) \/ EnqueueWebhook(w) \/ PostWebhook(w)
               \/ PostRejected(w) \/ LoseJob(w)
        PROVE  SerialInv'
    BY <2>1, <2>6 DEF TakeBacklog, ReadOrder, EnqueueWebhook, PostWebhook, PostRejected, LoseJob
  <2>7. CASE SyncReceipt \/ UNCHANGED vars
    BY <2>1, <2>7 DEF SyncReceipt, vars
  <2> QED BY <2>1, <2>2, <2>4, <2>5, <2>6, <2>7 DEF SyncNext, Take, Run
<1> QED BY <1>3, <1>5, <1>6 DEF OnceInv

\* The invariant holds initially.
LEMMA InitOnceInv == SyncInit => OnceInv
<1> SUFFICES ASSUME SyncInit PROVE OnceInv
  OBVIOUS
<1>1. SerialInv
  BY InitSerialInv DEF SyncInit
<1>2. ASSUME NEW o \in Serial PROVE Once(o)
  <2>1. o \in OrderIds /\ delivered[o] = <<>> /\ Len(delivered[o]) <= 1
    BY OrdersAssumption DEF SyncInit
  <2>2. \A w \in Workers : ~Carries(w, o)
    BY DEF SyncInit, IdleWorker, Carries
  <2>3. BagToSet(backlog) = {}
    BY DEF SyncInit, EmptyBag, SetToBag, BagToSet
  <2> QED BY <2>1, <2>2, <2>3 DEF Once
<1>3. faults \in Nat /\ manual \in Nat
  BY DEF SyncInit
<1> QED BY <1>1, <1>2, <1>3 DEF OnceInv

\* While clients take turns, no call fails and nothing is queued by hand, the accounting
\* system receives an order once, however the workers and the handlers interleave
\* (addPayment queues one job, and every handler passes it on before it lets go of it).
THEOREM SyncDeliversOnce ==
    ASSUME Amounts \subseteq Nat PROVE SyncSpec => []DeliveredOnce
<1>1. SyncInv /\ [SyncNext]_vars => SyncInv'
  BY SyncNextInv
<1>2. SyncInv /\ OnceInv /\ [SyncNext]_vars => OnceInv'
  BY NextOnceInv
<1>3. OnceInv => DeliveredOnce
  BY DEF OnceInv, Undisturbed, Once, DeliveredOnce
<1> QED BY <1>1, <1>2, <1>3, SyncInitInv, InitOnceInv, PTL DEF SyncSpec
=============================================================================
