--------------------------- MODULE AccountingSync ---------------------------
(***************************************************************************)
(* How a paid order reaches the accounting system: the order-sync job that *)
(* addPayment() or POST /accounting/sync-receipt queues, the webhook job   *)
(* that OrderSyncQueueService.handleJob() makes of it, its delivery by     *)
(* WebhookRetryService.handleJob(), and the sync_status_acc flag that      *)
(* voidOrder() consults.  Composes Orders with the queues as JobBoard      *)
(* describes them: a job is run by one worker at a time, at most MaxTries  *)
(* times, and may be lost.                                                 *)
(***************************************************************************)
EXTENDS Orders, Bags

CONSTANTS
    Workers,    \* backend processes that drain the queues
    NoJob,      \* a worker without a job
    MaxTries,   \* maxAttempts of both kinds of job
    MaxFaults,  \* bound: handlers that throw
    MaxLosses,  \* bound: processes that die with a job
    MaxManual   \* bound: calls of POST /accounting/sync-receipt

ASSUME AccountingAssumption ==
    /\ MaxTries \in Nat \ {0}
    /\ {MaxFaults, MaxLosses, MaxManual} \subseteq Nat

VARIABLES
    backlog,   \* bag of the jobs that wait for a worker, beyond those in `jobs`
    deadJobs,  \* jobs whose last try has failed
    workers,   \* program counter and job of each worker
    delivered, \* per order: the bodies the accounting system has received
    faults,    \* handlers that have thrown so far
    losses,    \* jobs that have died with a process so far
    manual     \* calls of sync-receipt so far

syncVars == <<backlog, deadJobs, workers, delivered, faults, losses, manual>>
vars == <<ordersVars, syncVars>>

\* The body of a webhook, as far as it depends on the payments of the order.
NoBody == [status |-> "absent", total |-> 0]

SyncJob(o) == [kind |-> "sync", order |-> o, tries |-> 1, body |-> NoBody]
WebhookJob(o, body) == [kind |-> "webhook", order |-> o, tries |-> 1, body |-> body]

IdleWorker == [pc |-> "idle", job |-> NoJob, body |-> NoBody]

SyncInit ==
    /\ Init
    /\ backlog = EmptyBag
    /\ deadJobs = {}
    /\ workers = [w \in Workers |-> IdleWorker]
    /\ delivered = [o \in OrderIds |-> <<>>]
    /\ faults = 0 /\ losses = 0 /\ manual = 0

-----------------------------------------------------------------------------
\* AccountingService.syncReceipt(): any order that exists may be queued by hand.
SyncReceipt ==
    /\ manual < MaxManual
    /\ \E o \in OrderIds : /\ orders[o].status # "absent"
                           /\ backlog' = backlog (+) SetToBag({SyncJob(o)})
    /\ manual' = manual + 1
    /\ UNCHANGED <<deadJobs, workers, delivered, faults, losses, ordersVars>>

Holds(w, job) == workers' = [workers EXCEPT ![w] =
    [pc |-> IF job.kind = "sync" THEN "read" ELSE "post", job |-> job, body |-> NoBody]]

\* The worker takes a job that a payment has queued ...
TakeNew(w) ==
    /\ workers[w].pc = "idle"
    /\ \E o \in OrderIds : /\ jobs[o] > 0
                           /\ jobs' = [jobs EXCEPT ![o] = @ - 1]
                           /\ Holds(w, SyncJob(o))
    /\ UNCHANGED <<orders, used, recipes, display, requests, aborts>>
    /\ UNCHANGED <<backlog, deadJobs, delivered, faults, losses, manual>>

\* ... or a webhook, a job queued by hand, or one that has failed before and is due.
TakeBacklog(w) ==
    /\ workers[w].pc = "idle"
    /\ \E job \in BagToSet(backlog) : /\ backlog' = backlog (-) SetToBag({job})
                                      /\ Holds(w, job)
    /\ UNCHANGED <<deadJobs, delivered, faults, losses, manual, ordersVars>>

Release(w) == workers' = [workers EXCEPT ![w] = IdleWorker]

IsToSync_Unpaid(o) == ~orders[o].synced

\* OrderSyncQueueService.handleJob(): orders it does not skip.
IsToSync(o) == orders[o].status = "paid" /\ ~orders[o].synced

\* It reads the order, and skips it or builds the body of the webhook.
ReadOrder(w) ==
    /\ workers[w].pc = "read"
    /\ LET o == workers[w].job.order
       IN  \/ ~IsToSync(o) /\ Release(w)
           \/ /\ IsToSync(o)
              /\ workers' = [workers EXCEPT ![w] =
                     [pc |-> "enqueue", job |-> @.job,
                      body |-> [status |-> orders[o].status, total |-> orders[o].received]]]
    /\ UNCHANGED <<backlog, deadJobs, delivered, faults, losses, manual, ordersVars>>

\* What the webhook queue holds once w's webhook has been pushed.
WithWebhook(w) ==
    backlog (+) SetToBag({WebhookJob(workers[w].job.order, workers[w].body)})

EnqueueWebhook(w) ==
    /\ workers[w].pc = "enqueue"
    /\ backlog' = WithWebhook(w)
    /\ Release(w)
    /\ UNCHANGED <<deadJobs, delivered, faults, losses, manual, ordersVars>>

\* What the accounting system has received once w's webhook has arrived.
WithDelivery(w) ==
    [delivered EXCEPT ![workers[w].job.order] = Append(@, workers[w].job.body)]

\* WebhookRetryService.handleJob(): the POST is answered with a 2xx status ...
PostWebhook(w) ==
    /\ workers[w].pc = "post"
    /\ delivered' = WithDelivery(w)
    /\ workers' = [workers EXCEPT ![w].pc = "update"]
    /\ UNCHANGED <<backlog, deadJobs, faults, losses, manual, ordersVars>>

\* The orders table once w's order is flagged.
WithFlag(w) == [orders EXCEPT ![workers[w].job.order].synced = TRUE]

\* ... and update(orderId, { sync_status_acc: true }), whatever the order is by now.
MarkSynced(w) ==
    /\ workers[w].pc = "update"
    /\ orders' = WithFlag(w)
    /\ Release(w)
    /\ UNCHANGED <<used, recipes, jobs, display, requests, aborts>>
    /\ UNCHANGED <<backlog, deadJobs, delivered, faults, losses, manual>>

\* Whether a failed job is tried again (queue bag `rest` is what else waits).
TryAgain_OneFewer(job, rest) ==
    IF job.tries + 1 < MaxTries
    THEN backlog' = rest (+) SetToBag({[job EXCEPT !.tries = @ + 1]}) /\ UNCHANGED deadJobs
    ELSE backlog' = rest /\ deadJobs' = deadJobs \cup {job}

TryAgain_NoRetry(job, rest) == backlog' = rest /\ UNCHANGED deadJobs

TryAgain(job, rest) ==
    IF job.tries < MaxTries
    THEN backlog' = rest (+) SetToBag({[job EXCEPT !.tries = @ + 1]}) /\ UNCHANGED deadJobs
    ELSE backlog' = rest /\ deadJobs' = deadJobs \cup {job}

AfterBadAnswer_Ignored(w) ==
    /\ workers' = [workers EXCEPT ![w].pc = "update"]
    /\ UNCHANGED <<backlog, deadJobs>>

\* !response.ok: the handler throws, and the worker reschedules the job.
AfterBadAnswer(w) == TryAgain(workers[w].job, backlog) /\ Release(w)

\* The accounting system answers with an error; it has not taken the receipt.
PostRejected(w) ==
    /\ workers[w].pc = "post"
    /\ faults < MaxFaults
    /\ faults' = faults + 1
    /\ AfterBadAnswer(w)
    /\ UNCHANGED <<delivered, losses, manual, ordersVars>>

\* An await of the handler rejects: what it asked for may have been done or not.
Throw(w) ==
    /\ workers[w].pc # "idle"
    /\ faults < MaxFaults
    /\ faults' = faults + 1
    /\ \/ TryAgain(workers[w].job, backlog) /\ UNCHANGED <<delivered, orders>>
       \/ /\ workers[w].pc = "enqueue"
          /\ TryAgain(workers[w].job, WithWebhook(w))
          /\ UNCHANGED <<delivered, orders>>
       \/ /\ workers[w].pc = "post"
          /\ TryAgain(workers[w].job, backlog)
          /\ delivered' = WithDelivery(w)
          /\ UNCHANGED orders
       \/ /\ workers[w].pc = "update"
          /\ TryAgain(workers[w].job, backlog)
          /\ orders' = WithFlag(w)
          /\ UNCHANGED delivered
    /\ Release(w)
    /\ UNCHANGED <<used, recipes, jobs, display, requests, aborts, losses, manual>>

\* The process dies, and the job it had popped with it.
LoseJob(w) ==
    /\ workers[w].pc # "idle"
    /\ losses < MaxLosses
    /\ losses' = losses + 1
    /\ Release(w)
    /\ UNCHANGED <<backlog, deadJobs, delivered, faults, manual, ordersVars>>

-----------------------------------------------------------------------------
Take(w) == TakeNew(w) \/ TakeBacklog(w)

Run(w) == ReadOrder(w) \/ EnqueueWebhook(w) \/ PostWebhook(w) \/ MarkSynced(w)

SyncNext ==
    \/ Next /\ UNCHANGED syncVars
    \/ SyncReceipt
    \/ \E w \in Workers : Take(w) \/ Run(w) \/ PostRejected(w) \/ Throw(w) \/ LoseJob(w)

SyncSpec == SyncInit /\ [][SyncNext]_vars

\* Handlers go on, and the workers drain the queues for ever (setInterval).
FairSyncSpec ==
    /\ SyncSpec
    /\ \A r \in Requests : WF_vars(Handle(r) /\ UNCHANGED syncVars)
    /\ \A w \in Workers : WF_vars(Take(w)) /\ WF_vars(Run(w))

-----------------------------------------------------------------------------
(* Properties.                                                             *)

Job == [kind : {"sync", "webhook"}, order : OrderIds, tries : 1 .. MaxTries,
        body : [status : Status, total : Int]]

\* Jobs are tried at most MaxTries times, a worker is at a step of its own kind of
\* job, and only an exhausted job is a dead letter.
SyncTypeOK ==
    /\ TypeOK
    /\ BagToSet(backlog) \subseteq Job
    /\ deadJobs \subseteq {job \in Job : job.tries = MaxTries}
    /\ \A w \in Workers :
          CASE workers[w].pc = "idle" -> workers[w] = IdleWorker
            [] workers[w].pc \in {"read", "enqueue"} -> workers[w].job \in Job /\ workers[w].job.kind = "sync"
            [] OTHER -> /\ workers[w].pc \in {"post", "update"}
                        /\ workers[w].job \in Job /\ workers[w].job.kind = "webhook"

\* An order is flagged as synced only if the accounting system has it, whatever
\* delivery fails (webhook-retry.service.ts throws unless response.ok).
SyncedIsDelivered ==
    \A o \in OrderIds : orders[o].synced => delivered[o] # <<>>

\* Whatever is queued by hand and however payments, voids and jobs interleave,
\* the accounting system receives only orders that are PAID in the body and
\* covered by the payments in the body (handleJob skips orders that are not PAID).
DeliveredIsPaid ==
    \A o \in OrderIds : \A n \in 1 .. Len(delivered[o]) :
        delivered[o][n].status = "paid" /\ delivered[o][n].total >= orders[o].net

\* While no call fails and clients take turns, an order is delivered once, if no one
\* queues it by hand.
DeliveredOnce ==
    (faults = 0 /\ manual = 0) => \A o \in Serial : Len(delivered[o]) <= 1

\* A job of the order is a dead letter.
Exhausted(o) == \E job \in deadJobs : job.order = o

\* A paid order reaches the accounting system, unless it is voided or its jobs
\* have exhausted their tries (addPayment queues the sync: orders.service.spec.ts,
\* 'marks an order paid, deducts stock, enqueues sync, and returns change').
PaidOrderIsSynced ==
    \A o \in OrderIds :
        (orders[o].status = "paid") ~> (orders[o].synced \/ orders[o].status = "void" \/ Exhausted(o))

\* An order the accounting system has booked is not void (voidOrder: 'Cannot void
\* order after accounting sync completed').
SyncedIsNotVoid ==
    \A o \in OrderIds : ~(orders[o].status = "void" /\ orders[o].synced)
=============================================================================
