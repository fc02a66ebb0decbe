# Verification of Project_POS

TLA+ models of the parts of Project_POS that are hard to test: the order life
cycle of the NestJS backend, the Redis job queues under it, the synchronisation
of paid orders with the accounting system, the arithmetic of totals, the gateway of
the customer displays, and the offline queue and the session of the Flutter till. TLC
checks the models on small instances; TLAPS proves the most important facts for
every value of the constants. Paths below are relative to `src/`.

## 1. Inventory of the system

| Component | Code | State it keeps | Operations | Talks to |
|---|---|---|---|---|
| Order life cycle | `backend/src/orders` | tables `orders`, `order_items`, `payments` | create, addPayment, voidOrder, reads | inventory, job queue, customer display |
| Inventory | `backend/src/inventory` | tables `ingredients` (stock_qty), `recipes` | deductStock, restoreStock, createRecipe, createIngredient, low-stock list | called by orders |
| Job queues | `backend/src/queue` (`redis-queue.service`, `queue.worker`, `redis-socket.transport`) | per queue: a ready list, a delayed sorted set, a dead-letter list; in memory: timer, `isDraining` | enqueue, releaseDueJobs, poll, reschedule, drainQueues | Redis over one socket per command |
| Accounting sync | `order-sync-queue.service`, `webhook-retry.service`, `backend/src/accounting` | column `sync_status_acc`; jobs | enqueuePaidOrderSync, syncReceipt, two job handlers | both queues, the accounting system over HTTP |
| Order totals | `orders.service.ts` (create and its helpers), till side in `order_service.dart` | none | discount, VAT, net amount, check of the client's totals | `VAT_RATE` |
| Customer display gateway | `backend/src/cfd` | sockets per branch, frame buffers, latest snapshot per branch | upgrade, decode, publish, broadcast, unregister | order life cycle, display clients |
| Offline client | `frontend/lib/services/order_service.dart`, `local/local_database_service.dart`, `offline_sync_service.dart` | Isar collections: orders, payments, sync queue | createOrder, addPayment, syncPendingQueue, retry timer | the backend API, the connectivity stream |
| Client session | `frontend/lib/services/auth_service.dart`, `session/` | tokens in secure storage and in the API client | login, restore, refresh, logout | the auth API |
| Checkout screens | `frontend/lib/providers`, `frontend/lib/screens` | cart, current order, submission flags | add to cart, check out, pay, print | offline client, printer |
| Receipt printing | `frontend/lib/services/printer*` | printer settings, one connection | connect, print, test | printer |
| Server authentication | `backend/src/auth`, `common/guards` | users table | login, refresh, profile, role and API-key checks | guards every controller |
| Products, branches, CRM | `backend/src/products`, `branches`, `crm` | plain tables | CRUD, stubs | orders read prices |

Which behaviours are hard, and what makes each component correct:

* **Order life cycle.** Node runs one handler at a time but every `await` lets
  another request in, and neither addPayment nor voidOrder is a transaction or
  takes a lock. Status and totals are read, awaited over, and then acted upon. A
  failure after the status has become PAID leaves the rest undone. Correct means:
  one order per `order_no`; effects of settlement only on covered orders, once;
  a void is final and gives back what was drawn; refusals tell the truth.
* **Job queues.** A job is moved by separate Redis commands, each of which can
  time out *and* be executed; workers of several processes share the lists; a
  process may die between two commands. Correct means: a job is in one place, is
  tried `maxAttempts` times and no more, and does not get stuck.
* **Accounting sync.** The order is read by one job, posted by another and
  flagged by an unconditional update, while voids and manual syncs go on. Correct
  means: flagged implies delivered, delivered implies paid, paid leads to synced.
* **Totals.** Two programs compute the same total (the till when it is offline,
  the server on flush); rounding and optional fields are where they could differ.
* **Offline client.** One queue is flushed by createOrder, addPayment, getOrders and
  a timer, with no lock between them; entries are sent, saved and deleted in separate
  steps; local rows are read, awaited over and overwritten; the app may be killed and
  an answer lost at any await. Correct means: what the cashier was told is done is
  never lost, reaches the server, is booked once, and the till's own view ends up
  equal to the server's.
* **Customer display gateway.** Frames arrive in chunks cut anywhere, a connection may
  end in the middle of one, break, or stay half open, and four structures (sockets per
  branch, branch per socket, buffer per socket, listeners) are kept in step by hand.
  Correct means: they agree with each other and with the connections; every display
  shows the latest snapshot of its branch; pings are answered, goodbyes heard.
* **Client session.** Several requests may meet an expired token at once, and each
  recovers by itself; the store is read and written key by key; the app may be killed
  in between, and the user may sign out, or another in, while a recovery or another login
  is under way.
  Correct means: tokens, store and screen belong to one user; a logout is final; the
  till does not sign a user out by itself.
* **Checkout, printing.** A cart edited during submission, a printer that is gone.
  Planned, see below.

## 2. Plan

Order of work, most important first:

1. *(done)* `Orders`, with `Ledger` as its abstract specification and
   `OrdersSerial` for the refinement.
2. *(done)* `JobQueue`, with `JobBoard` as its abstract specification.
3. *(done)* `AccountingSync`, which composes `Orders` with what `JobBoard` promises.
4. *(done)* `OrderTotals`.
5. *(done)* `OfflineClient`: OrderService, LocalDatabaseService (orders, payments,
   sync queue) and OfflineSyncService, against a server that behaves as `Ledger`.
   Open: an abstract outbox that it refines when its tasks do not overlap.
6. *(done)* `WebSocketFrame` and `CfdGateway`: upgrades, chunks, frames, broadcast,
   ends and errors of connections.
7. *(done)* `ClientSession`: restore, login, recovery and logout on the client, with
   the server's login, refresh, profile and token guard.
8. `Checkout`: cart and order providers, the payment screen and auto-print.
9. `RedisReply`: the parser of `redis-socket.transport` as an operator, checked
   against a reference definition.

Theorems to come: the outbox refinement, once it is modelled, and the theorems of the
modules that are.

## 3. Modules

| Module | What it is |
|---|---|
| `Orders` | OrdersService and the InventoryService calls it makes, one action per awaited statement |
| `Ledger` | the order API with atomic operations (abstract) |
| `OrdersSerial` | what `Orders` guarantees on orders on which clients take turns: refinement mapping to `Ledger` and properties that need that assumption |
| `JobQueue` | Redis lists, command failures, workers and their drains; refinement mapping to `JobBoard` |
| `JobBoard` | what the queues promise (abstract) |
| `AccountingSync` | `Orders` + sync and webhook jobs over the promise of `JobBoard` |
| `OrderTotals` | totals of the server and of the till |
| `WebSocketFrame` | the two directions of the frame header, as operators |
| `CfdGateway` | the connections, buffers and snapshots of the customer displays |
| `ClientSession` | the till's session: store, tokens, recovery of refused requests, screen; and what the server does with tokens |
| `OfflineClient` | the till's offline queue, its flushes and its local snapshots, over what `Ledger` promises |
| `MCOrders`, `MCJobQueue`, `MCAccountingSync`, `MCOrderTotals`, `MCOfflineClient`, `MCCfdGateway`, `MCClientSession` | constants of the instances TLC checks |
| `FoldTheorems` | induction over numbers and finite sets, and what the folds of the community modules compute |
| `OrdersProofs`, `AccountingSyncProofs`, `OrderTotalsProofs`, `JobQueueProofs`, `OfflineClientProofs`, `CfdGatewayProofs`, `ClientSessionProofs` | theorems and proofs |

### How `Orders` corresponds to the code

A request is a record with the program counter and local variables of its
handler. `pc` names the await it returns from next:

    create      lookup -> insert -> view -> publish -> done
    addPayment  payRead -> save [-> mark -> stock*] -> reload -> view -> publish -> done
    voidOrder   voidRead -> stock* -> reload -> done

`stock*` is the loop over the items: `FindRecipes` is the query of
deductStock/restoreStock for one item, `MoveStock` one UPDATE. `seen` is the sum of
payments read by findOne and `Settles` decides from it, not from the table, exactly
like `newTotalPaid`. Status updates are unconditional, as in the code. `Abort` lets
any await reject or the process die; no other step of that handler follows.

Abstractions: the rows of `payments` are kept as their sum per order; amounts are
satang; `stock_qty`, which is only changed by relative updates, is represented by
what each order has drawn (`used`); a create request carries its cart already
priced (pricing is `OrderTotals`); the recipes of a product are visited in any
order, as the query has none; one branch. `jobs` counts the sync jobs pushed for
an order. The customer display is the gateway's `latestSnapshots`.

### How `JobQueue` corresponds to the code

One action per Redis command of releaseDueJobs, poll and reschedule, and one for
the handler, which succeeds or throws. A worker's `pc` is the command it awaits;
`idle` is `isDraining = false`. A command that fails (`Fails`) is either gone or
becomes a *stray* command that `Straggler` may execute at any later time: the
transport rejects on its timeout although the bytes are on their way. A socket that
Redis closes without an answer emits neither `timeout` nor `error`; under `MayHang`
the await then never returns (`hung`). A rejected reschedule escapes from
processQueue and drainQueues as an unhandled rejection and ends the process
(`Die`). Which delayed jobs are due is a set that only grows until they are taken;
the back-off delays themselves are not modelled. Job ids are fresh per enqueue, and
JSON texts of different attempts differ, so an entry is the pair of job and attempt.

### How `AccountingSync` corresponds to the code

The two job handlers, split at their awaits, on top of `Orders`. Waiting, delayed
and popped jobs are one bag (`backlog`) plus the counters `jobs` of `Orders`: that a
job is run by one worker at a time, at most `MaxTries` times, and may be lost, is
what `JobBoard` says and `queue_faults` checks of `JobQueue`. The body of a webhook
keeps the status and the sum of payments that were read. A handler may throw at any of
its awaits, with what it asked for done or not. `ACCOUNTING_SYNC_URL` is
assumed to be configured (otherwise the job is skipped and nothing is ever sent).

### How `OrderTotals` corresponds to the code

`Outcomes(dto, setting)` is the set of answers create() may give: floating point
decides which satang an exact half becomes, so both are allowed, except at 7 %,
where an exhaustive computation over all totals up to 20 000.00 baht shows both
programs round halves up. Money is whole satang, except for what a client sends with
any number of decimals, its totals and its flat discount: these are in hundredths of a satang
(`Fine`). assertAmountMatch rounds a claim before it compares it, so one of 10.0149 passes
where 10.00 is stored. The tolerance of one satang is compared in floating point
as well, so a difference of exactly one satang may pass or be refused. Together, stored
totals are within a satang and a half of the client's.

### How `OfflineClient` corresponds to the code

A *task* is a chain of Dart awaits: `Till` runs createOrder and addPayment, one at a
time, and each of `Syncers` runs syncNowIfOnline (started by the poll timer, by a
change of connectivity or by sign-in; the flush that getOrders starts behaves
alike). `pc` names the await that returns next:

    sync    check -> FLUSH -> idle
    create  FLUSH -> postOrder -> saveAnswer
            or, offline:  localOrder -> queueOrder
    pay     FLUSH -> lookup -> postPay -> saveAnswer
            or, offline or unknown to the server:  readLocal -> localPay -> queuePay
    FLUSH = flush -> (item -> saveItem -> complete)* -> flush ...

`left` is the list that getPendingSyncQueue returned, so an entry in it may have been
sent and deleted by another task; `progress` decides whether the loop of
syncPendingQueue goes round once more. A snapshot (`snaps`) is the local order with
the sum of its payments; state `local` is the unsyncedMarker. LocalPay writes the
state that ReadLocal read. `shown` collects what the cashier was told is done, which
is what the properties are about.

A request (`Answered`, `Refused`, `NotSent`, `Fault`) is one step, with its effect at
the server: between the two the server's own handlers are what `Orders` models, and
`Ledger` is what they promise for requests that take turns. `Fault` adds the four ways in
which a request goes wrong: the server has acted and its answer is lost; the server has acted,
fails afterwards and answers 5xx (addPayment throws once the payment is saved,
`orders.service.ts:160-173`), which addPayment of the till rethrows without queueing anything;
the request does not arrive; or it is answered with an error at once. `misled` is
history: the orders of which the cashier was told that a payment failed that is booked. After
an error answer in a flush, markSyncQueueFailed reads the entry and then puts it back
(`failed`, `PutFailed`), although another task may have deleted it in between.

`world` fixes, in Init, the conditions under which
properties are stated: `exclusive` says that tasks do not overlap; `validates` that
the server is the repository's, whose ValidationPipe and CreatePaymentDto insist on
an `order_id` that the till does not send, rather than the fake server of
`order_service_test.dart`, which takes the payment; `refuses` are orders that the server
will never create, as a product or the branch does not exist there or the till is not
signed in (404, a foreign key, 401).

Abstractions: an await that nothing observable depends on is merged with the
neighbouring step (isOnline with the read after it, the remote id with the POST, the
reads of _queueOfflinePayment with each other); `status` and `retryCount` of queue
entries are left out, because pending and failed entries are read alike and nothing
acts on the count; local transactions do not fail; all orders have the same net
amount; the product cache and stop() are not modelled, and a token that expires is the
subject of `ClientSession`.

### How `CfdGateway` corresponds to the code

No handler of the gateway awaits anything, so there is one action per event that Node
delivers: `Upgrade*` (the 'upgrade' of the HTTP server, three ways), `Data`, `End`,
`Reset` ('error' and 'close' of a socket), and `PublishCartState` for a publication.
`Connect`, `Send` and `HangUp` are the display's side. `clients`, `socketBranches`,
`socketBuffers` and `latestSnapshots` are the service's maps; `listening` are the
sockets with the listeners of registerClient.

What TCP delivers is cut into chunks at `Cuts`: in every frame after the first byte,
inside the extended length, before the mask, before the last byte and at the end. A
buffer always holds the last bytes that arrived, so it is how many they are, and a
payload is where it starts in what the display has sent: a pong that echoed the wrong
bytes would have the wrong number. Headers are real bytes, made by `DisplayHeader` and
read by `Decode`. A snapshot is its number in the order of publication.

`phase` says what the model has to know of the connection: a socket whose upgrade is not
for the gateway stays `unanswered`; one that the display has ended stays `halfOpen`, as
the HTTP server allows half-open sockets and `End` only unregisters it. An error of a
socket to which no listener is attached is unhandled and ends the process (`Reset`,
second case); the service is started again with empty maps.

### How `ClientSession` corresponds to the code

A task is a chain of Dart awaits: `Ui` runs restoreSession, login and logout, each of
`Rivals` a login or logout that is begun while the Ui is busy, and each of `Calls` a request of
the app. `at` names
what it awaits, `todo` the keys of the store that are still to be accessed,
`recovering` that it is inside refreshAccessToken, `retried` that the request has been
sent again:

    restore  reading -> [asking refresh -> writing] -> asking me -> writing -> idle
    login    asking -> writing -> idle
    logout   clearing -> idle
    call     asking -> idle
    401      ... -> reading -> asking refresh -> writing -> asking again -> ...
             any failure of the refresh: clearing -> idle, the request has failed

`Serve` is the backend: createAuthResponse gives out a new pair of tokens, whose number
stands for both; the refresh token and `is_active` are checked by refresh and profile,
the expiry of the access token by the JWT guard. `kept` is the session object that
refreshCurrentUser holds over its await and writes back. `boot`, `left`, `clash` and
`torn` are history: they change nothing and state the conditions of the properties.

The screens do not keep logins and logouts apart. The sign-in button is off while one is
under way, but Enter in the password field calls `_login()` all the same
(`login_screen.dart:105`), and the button that signs out is never off. So a rival may sign in
while the LoginScreen is up, busy or not; it is still up while it loads the catalog for a
user who has signed in (`entering`, until `Enter`). A rival may sign out while a screen with
that button is. Once two have overlapped, either may have navigated last and any screen may be
up (`astray`).

Any access token may expire at any time (`Expire`), also the one a request is about to be
sent again with after its recovery (`Awaits`). That is counted as a fault: a life of an hour
would outlast the retry, but with the `JWT_EXPIRATION=3600` of `.env.example` the setting
reaches the JWT library as a string (`auth.module.ts:20`), which it reads as milliseconds, so
that a token lives for 3.6 seconds and a slow retry meets an expired one.

Abstractions: passwords are right or wrong (`ServeLogin`); the till's clock may judge a
token expired or not at a restore; a store that throws, stored JSON that is malformed,
and roles are not modelled.

## 4. What the runs check

| Run | Shows | Instance |
|---|---|---|
| `orders` | TypeOK, CreateIsIdempotent, EffectsOnlyWhenCovered, NoPaymentAfterSettlement, VoidIsFinal, SettledAtMostOnce and ReturnsAreExplained on both orders; on the calm one the handlers implement `Ledger`, and QuiescentConsistency, DisplayIsCurrent, RejectionIsTruthful | 4 requests that take turns on each of 2 orders, one of them calm, 1 order_no, a cart of two lines of net 2, amounts 1 and 2, 2 aborts, a recipe row added meanwhile |
| `queue_faults` | TypeOK, DeadAfterAllAttempts, LossesAreExplained, NothingStuck; `JobQueue` implements `JobBoard` | 2 workers, 2 jobs, 2 attempts, 1 failing command (executed later, hanging, or gone), 1 crash |
| `sync_safety` | SyncedIsDelivered, DeliveredIsPaid, DeliveredOnce | 3 requests, overlapping freely on one order and taking turns on another, 2 workers, 1 failing handler, 1 lost job, 1 manual sync |
| `sync_reached` | SyncTypeOK, PaidOrderIsSynced, CoveredOrderSettles | 3 requests that overlap freely on one order, 1 worker, 2 tries, 1 failing handler, no abort, no loss, no manual sync |
| `till_offline` | ClientTypeOK, ShownIsKept, RebookingIsExplained, AgreeOnceFlushed, PaymentArrivesAlone, TillReturns | 1 order, 2 payments of 1 or 2 against a net of 2, 1 background flusher, 1 loss of connectivity, 1 fault of four kinds, 1 kill, all eight worlds |
| `totals` | DiscountWithinTotal, ClientTotalsHonoured, TillAgreesWithServer | every combination of discount fields, claims up to 2 satang off, also by parts of a satang, one- and two-line carts, 7 settings |
| `display` | CfdTypeOK, RegistriesAgree, ShowsLatest, PongsMatchPings, GoodbyeIsFinal | 2 displays, 2 branches, 2 frames (ping of 125 bytes, text of 126, text of 65 536, close), 2 publications, 1 broken connection or end of the process |
| `session` | SessionTypeOK, OneUserAtATime, LogoutIsFinal, SignedOutForAReason | 2 users, 2 calls at a time, 1 rival, 2 sign-ins, 2 access tokens that expire, 2 faults (a lost answer, a token that expires under a retry, a refresh token that expires, a user deactivated, or a kill); followed after a clash only while no call has been made |

Runs that TLC is expected to refute, each a disagreement between the code and what
the repository says of it (details under `findings` in `PROJECT.json`):

| Run | Claim | What happens |
|---|---|---|
| `pay_race` | 'Order is already fully paid' protects from a second settlement | two overlapping payments settle twice |
| `void_sync_race` | 'Cannot void order after accounting sync completed' | an order is VOID and booked |
| `paid_not_queued` | a payment 'enqueues sync' | PAID, never queued, and the retry is refused |
| `till_payment_refused` | 'syncPendingQueue flushes queued local order and payment' | the server refuses every payment of the till with 400; a queued one is sent again and again for ever |

Some properties hold only under a condition that a run's instance grants, and the
code breaks them without it. Changing the instance shows it:

| Property | Holds when | Otherwise |
|---|---|---|
| VoidIsFinal, NoPaymentAfterSettlement, SettledAtMostOnce, ReturnsAreExplained | requests on the order take turns | `Serial = {}`, `Calm = {}`: a payment in flight turns a void order PAID; two full payments settle twice (`pay_race`) |
| RejectionIsTruthful | the order is calm and its net amount is positive | two overlapping halves cover an order that stays pending and is refused as paid; with `Carts <- MCFreeCart` an order of net 0 can never leave pending |
| QuiescentConsistency (void part) | the order is calm: no handler of it dies, recipes stay | on the other order of `orders` a void returns stock that an aborted payment never drew, and what a recipe row added meanwhile says; ReturnsAreExplained bounds how much |
| CoveredOrderSettles | one of the payments knew of all the others and its handler does not die (`DecidedOnAll`, the property's excuse) | two overlapping halves each compute newTotalPaid from what they read before either was saved: neither settles, and the covered order stays pending. A handler that dies between save and mark leaves it so too |
| DeliveredOnce | no handler fails, nothing is queued by hand, requests take turns | a POST whose answer is lost is posted again; two jobs of an order deliver twice |
| NothingStuck | some worker is not hung | `MayHang`: a worker whose socket was closed without an answer never drains again |
| LossesAreExplained | counts the losses, does not exclude them | a failing reschedule, a crash between RPOP and the end of the handler, or between ZREM and LPUSH, loses the job |
| RebookingIsExplained, AgreeOnceFlushed | tasks of the till do not overlap (`world.exclusive`, a hypothesis of the property) | a background flush and the cashier's task send the same queued payment twice, or the one overwrites the snapshot of the other |
| AgreeOnceFlushed | besides, the app is not killed, and no payment that was booked was answered with an error (`misled`) | the till queues nothing for a payment that was answered 500; its snapshot lacks the payment until another answer for the order is saved, and hides the server's order in getOrders |
| PaymentArrivesAlone | tasks do not overlap, and the server creates the order and takes the till's payments | PaymentArrives with `Worlds <- MCOverlap` fails without any fault: a payment read the local order, the flush synced the order meanwhile, and the write puts the unsyncedMarker back. No entry will ever clear it, so the queued payment is passed over in every flush |
| TillReturns | the queue holds no order and no payment that is refused for good (`Poisoned`) | syncPendingQueue counts a refusal as progress and loops; createOrder and addPayment, which await it, never return. It takes no overlap: an order taken offline with a product that the server no longer has, or an online payment that overtakes a smaller queued one, which is then refused |
| OneUserAtATime, SignedOutForAReason | neither a recovery nor another signing in or out overlaps with signing in or out (`~clash`), and no login was killed between two keys of the store (`~torn`) | a refresh in flight during a logout and a login writes the old user's session over the new one, or its failure clears the new one; two logins of different users, by Enter in the password field, show the one over the keys of the other; half a login leaves the tokens of one user with the name of another |
| SignedOutForAReason | besides, no fault since the start, of which an access token that expires under a retry is one | a restore or recovery whose new pair expires before it is used (3.6 seconds with `.env.example`) signs the user out although nothing was lost |
| LogoutIsFinal | neither a recovery nor a second login or logout overlaps (`~clash`) | the answer of the refresh, or of the second login, is written into the store that the logout has cleared |
| TillAgreesWithServer | VAT_RATE says 7 % or is left out, and no line is priced below nothing (`PricesNatural`, which DiscountWithinTotal needs too) | the till's 0.07 and the receipt's label 'VAT 7%' are constants; a negative total the server refuses, as any discount exceeds it, and the till does not |

**Bounds.** Two overlapping handlers produce every race of this code, because a
handler acts on one order; three or four requests add the create before them and a
retry after; in the till, a race needs one flusher beside the cashier. Amounts 1 and 2 against a net of 2 give no, partial, exact and excess
payment. One failing command is enough for a straggler, a hung worker or a lost job,
and a crash on top of it for two losses; two attempts give a first, a retry and a
dead letter. Two displays on two branches meet in every map of the gateway, and two
frames let a chunk end in the one and begin the next; the lengths are the boundaries of
the header's three forms. Two calls recover at once, beside the Ui; two users and two
sign-ins give a change of user, one after the other or, with the one rival, at once; of two
faults one may be a kill and the other meet the session it restores. Once something has
clashed, no property of `session` but the type says anything, so the constraint `Explored`
follows such a till no further when it has made a call.
`MaxAborts`, `MaxFaults`, `MaxCrashes`, `MaxDrops`, `MaxLosses`, `MaxManual`,
`MaxFrames`, `MaxPublishes`, `MaxCalls`, `MaxSignIns` and `MaxExpiries` are the only counters
bounded by hand; each is a guard of its action (`MaxFaults` of each kind of fault).
Symmetry is used over requests, workers, sockets, branches, users and calls, never in a
run with a liveness property. Deadlock checking is off because an instance ends when its
requests are answered and its faults are spent.

**Clients that take turns** (`Serial`, `Calm`). The till waits for the answer before it
sends the next request for an order, so a `Serial` order describes normal use with one
till per order; it is an assumption about clients, not something the server enforces;
the table above and the run `pay_race` show what happens without it. A `Calm` order is
one of these whose handlers do not die, and while which exists nobody edits the recipes;
the orders around it do as they like.

**Fairness.** `FairSpec` of `Orders`: a handler whose statement has been answered
goes on (weak fairness of each handler's steps; aborts, arrivals and edits of
recipes are not fair). `FairSpec` of `JobQueue`: the interval timer fires, awaits
return, delays elapse, and the process manager restarts a dead process; strays and
enqueues are not fair, and a worker that hangs has no step left, which
NothingStuck allows for. `FairSyncSpec`: handlers of the API go on, and workers take and
run jobs. `FairSpec` of `OfflineClient`: connectivity returns, the 30 s poll timer keeps
starting flushes, and a task that has begun goes on; the cashier, faults, kills and
losses of connectivity are not fair. Weak fairness suffices since no step of one actor disables another's for
good.

## 5. What is proved

| Theorem | Statement | Assumes |
|---|---|---|
| `OrdersTypeOK` | `Spec => []TypeOK` | the constants' assumption only |
| `OrdersEffects` | `Spec => []EffectsOnlyWhenCovered` | `Amounts \subseteq Nat` |
| `OrdersCreateIsIdempotent` | `Spec => []CreateIsIdempotent` | nothing more |
| `OrdersVoidIsFinal` | `Spec => VoidIsFinal` | `Serial = OrderIds` |
| `OrdersNoPaymentAfterSettlement` | `Spec => NoPaymentAfterSettlement` | `Serial = OrderIds` |
| `OrdersSettledAtMostOnce` | `Spec => []SettledAtMostOnce` | `Serial = OrderIds` |
| `OrdersReturnsAreExplained` | `Spec => []ReturnsAreExplained` | `Serial = OrderIds` |
| `OrdersRejectionIsTruthful` | `Spec => []RejectionIsTruthful` | `NothingIsFree` |
| `OrdersQuiescentConsistency` | `Spec => []QuiescentConsistency` | `NothingIsFree` |
| `OrdersDisplayIsCurrent` | `Spec => []DisplayIsCurrent` | nothing more |
| `OrdersImplementsLedger` | `Spec => ImplementsLedger` | nothing more |
| `SyncTypesHold` | `SyncSpec => []SyncTypeOK` | `Amounts \subseteq Nat` |
| `SyncFollowsDelivery` | `SyncSpec => []SyncedIsDelivered` | `Amounts \subseteq Nat` |
| `SyncDeliversPaid` | `SyncSpec => []DeliveredIsPaid` | `Amounts \subseteq Nat` |
| `SyncDeliversOnce` | `SyncSpec => []DeliveredOnce` | `Amounts \subseteq Nat` |
| `QueueTypes` | `Spec => []TypeOK` | `JobQueueAssumption` |
| `QueueDeadAfterAllAttempts` | `Spec => []DeadAfterAllAttempts` | `JobQueueAssumption` |
| `QueueLossesAreExplained` | `Spec => []LossesAreExplained` | `JobQueueAssumption` |
| `QueueImplementsJobBoard` | `Spec => ImplementsJobBoard` | `JobQueueAssumption` |
| `HeaderRoundTrip` | what `Header` writes, `Decode` reads | an opcode below 16 |
| `DrainSound` | what the loop `Drain` answers and keeps, for every chunk | it begins where a frame begins |
| `CfdRegistriesAgree` | `Spec => []RegistriesAgree` | nothing more |
| `CfdTypes` | `Spec => []CfdTypeOK` | `CfdAssumption` |
| `CfdShowsLatest` | `Spec => []ShowsLatest` | `CfdAssumption` |
| `CfdPongsMatchPings` | `Spec => []PongsMatchPings` | `CfdAssumption` |
| `CfdGoodbyeIsFinal` | `Spec => []GoodbyeIsFinal` | `CfdAssumption` |
| `ClientSessionTypeOK` | `Spec => []SessionTypeOK` | `SessionAssumption` |
| `ClientLogoutIsFinal` | `Spec => []LogoutIsFinal` | `SessionAssumption` |
| `ClientOneUserAtATime` | `Spec => []OneUserAtATime` | `SessionAssumption` |
| `ClientSignedOutForAReason` | `Spec => []SignedOutForAReason` | `SessionAssumption` |
| `DiscountBounds` | a discount is between 0 and the total | a natural total |
| `ClientShownIsKept` | `Spec => []ShownIsKept` | `ClientAssumption` |
| `ClientTypes` | `Spec => []ClientTypeOK` | `ClientAssumption` |
| `ClientRebookingIsExplained` | `Spec => []RebookingIsExplained` | `ClientAssumption` |
| `ClientAgreesOnceFlushed` | `Spec => []AgreeOnceFlushed` | `ClientAssumption` |
| `TotalsDiscountWithinTotal` | `Spec => []DiscountWithinTotal` | `OrderTotalsAssumption` |
| `TotalsAreTheClients` | `Spec => []ClientTotalsHonoured` | `OrderTotalsAssumption` |
| `TillIsRight` | `Spec => []TillAgreesWithServer` | `OrderTotalsAssumption` |
| `InductionOnSubsets`, `SumIsUnique` | what the proofs about sums rest on | finite sets |

Those of `Orders` hold for any number of requests, orders, keys, carts, recipes and
amounts and any number of aborts, the first three for overlapping requests as well.
`Serial = OrderIds` says that the requests on *every* order take turns, because these
four properties speak of every order; the others speak of calm orders and let all
others overlap, die and be edited. `NothingIsFree` says that every cart has a positive
net amount: an order of net 0 is covered before it is paid, stays pending and refuses
every payment (the row RejectionIsTruthful of the table above), so both properties are
false without it. That `InitialRecipes` is finite is part of `OrdersAssumption`: a sum
over the rows of a table has a value because a table has finitely many rows.
Those of `OrderTotals` hold for all lines, prices, claims and settings; those of `AccountingSync` besides for any number of workers, tries,
faults, losses and manual syncs; those of `JobQueue` for any number of queues, jobs,
workers, attempts, failing commands and crashes; those of `CfdGateway` for any number of
displays, branches, publications and faults, and for frames of any opcode and length; those of `ClientSession` for any number of users, calls, rivals,
sign-ins, expiries and faults; those of `OfflineClient` for any number of orders, payments
and background flushers, and of faults, kills and losses of connectivity, in any worlds (`ShownIsKept`
whether tasks overlap or not; the properties of bookings and of agreement are about tasks
that take turns, as they say themselves).

* **Type correctness** is not inductive alone: that an UPDATE names an existing row,
  or `MoveStock` an existing item, rests on what the handler read before its await.
  `TargetExists` adds it: a request has an order wherever the code dereferences one,
  that order has a row, and while recipe rows are pending the item index is valid.
  `OrdersStay` says that a step never removes an order or changes its items, price
  or key, which is why other handlers are undisturbed.
* **Effects only when covered.** `CoverInv` records, per handler, what its earlier
  reads still guarantee: what `seen` says is at most what the table holds (payments
  only accumulate, hence the hypothesis on amounts, which CreatePaymentDto does not
  impose), and a handler at `mark` or in the stock loop has an order that is covered.
  So although the decision is made from stale totals, it errs only on the side of
  not settling.
* **Idempotent creates.** `KeyInv`: two rows never share a key, and the answer of a
  finished create names a row with its key. The lookup is not needed for it, the
  UNIQUE constraint is: `KeyIsFree` is evaluated in the same step as the insert.
* **What accounting is told.** `SyncInv` follows a body from the read to the accounting
  system: what `ReadOrder` builds is of a PAID order, hence covered (`CoverInv`), and a
  net amount never changes and a row is never removed (`OrdersStay`), so the body still
  vouches for the order in the hands of the worker, in the backlog after any number of
  tries, and among the receipts, whatever happens to the order meanwhile. A worker at
  `update` has delivered, so the flag follows a delivery.
* **An order is delivered once.** `OnceInv` keeps `SerialInv` through the workers' steps
  and adds `Once`: what is queued for an order is a job on the ready list, a webhook that
  waits (one copy), a job in one worker's hand or a receipt, never two of these, and
  none of them while the order is `Fresh` (pending, or its payment still being settled).
  A step of the handlers queues the order's one job as it stops being fresh
  (`QueuesOnce`), which rests on turns being taken; a step of a worker moves it on.
  What fails or is queued by hand is excluded by the property itself (`Undisturbed`).
* **A job is in one place.** `QueueInv` of `JobQueueProofs` says of every entry which
  kind of place holds it: a ready list, the sorted set, a worker that moves or runs it, a
  stray command that will put it somewhere, the dead letters. Within a kind it is held
  once (`Sole`), and the kinds exclude each other (`OneKind`). This is inductive only
  together with what ties an entry to its job (`Board`): a finished job is nowhere, and
  the number on an entry is how often its job has been run. Every action is first shown
  to be one of seven moves of one entry (stays, accepts, passes, loses, takes, finishes,
  reschedules), and the invariant is proved for the moves. *Dead after all attempts*
  follows from the count; *losses are explained* from a budget: the jobs that are nowhere
  are at most the faults and crashes less the commands still stray, as such a command may
  yet remove an entry and cost a job.
* **`JobQueue` implements `JobBoard`.** The same token steps are the moves of the board:
  a step that stays or passes within the same square is a stutter, and each of the others
  is one action of the board. That no two workers run a job is thereby proved and not
  assumed by `AccountingSync`, which composes with what the board promises.
* **Registries of the gateway.** `CfdInv` is `RegistriesAgree` with the types of the maps.
  Every handler changes all four structures or none: `Unregister` and `Register` are the
  only operations, and a chunk that closes the connection stores no buffer.
* **Frame headers.** `HeaderRoundTrip` splits on the three forms of the length and is
  arithmetic of bytes. `MaskedRoundTrip` is its counterpart for the headers that displays
  write, and says besides that nothing is decoded as long as a byte of the frame is missing.
* **What the loop over a chunk computes.** `Drain` is a recursive function on the bytes of
  the chunk, and each turn goes further (`DecodeMoves`), so by induction
  such a function exists (`LoopExists`) and a turn is what its definition says
  (`DrainTurns`). Frames lie one behind the other (`StartsInOrder`) and the bytes where a
  frame starts are those of its header (`HeaderIsThere`), so a turn begun there reads this frame
  or finds it incomplete. `DrainSound` then goes backwards over the frames by another
  induction: the pongs are those of the complete pings before the first close frame,
  in order; a close frame is answered exactly if it is complete; otherwise what is held
  begins where a frame begins, which is the hypothesis for the next chunk.
* **The conversation with a display.** `TalkInv` says for every connection that the pongs
  written so far echo exactly the pings among the first `received` bytes and that nothing
  follows a close frame, and for an open one that its buffer begins where a frame begins
  and none before it was a close frame (`Attends`), and that the last snapshot written is
  the latest of its branch. *Pongs match pings* and *shows latest* are among its parts; *goodbye is
  final* follows as a close frame that is complete ends before the buffer begins. A chunk joins what
  it adds to what was said before (`ChunkJoins`): the pings that are complete now were
  complete before or lie behind the beginning of the buffer (`AnswerableSplits`). That a
  broadcast reaches all open displays of a branch, and no other, is `RegistriesAgree`.
* **A logout is final.** `SessionInv`: only the Ui, a rival and a recovery ever write the store.
  A rival that runs sets `clash`, so until then there is none (`LogoutInv`). After a logout the
  Ui is idle until someone signs in, which resets `left`; a recovery
  that overlaps with the logout sets `clash`; and one that begins later reads no session
  and can only clear. That the store is empty when the logout returns is followed key by
  key (`HasCleared`). `TasksOK` says which job may stand at which await and what it
  holds there.
* **One user at a time.** `UserInv` gives the till an owner: the screen's user when one is
  signed in, else whoever's session is in the store. Every pair of tokens in hand (by a
  task, in the store, as bearer) was issued to that owner, which is stable because a pair
  never changes its user and a refresh issues to the user of the old one. Only a login
  changes the owner, key by key; what it has written so far and what it has yet to
  write are of the new user (`LoginOf`), and nobody else writes meanwhile. All of this holds
  until something clashes, and nothing but `SessionInv` afterwards (`UserOrClash`).
* **Signed out for a reason.** `ReasonInv` adds that nothing in flight will fail: a
  session that is read, given or written is whole, and a start or a recovery that has
  begun is `Sound`, i.e. has found its keys or been answered with a session. That the
  retry after a recovery is not refused again rests on the pair it was given, which has not
  expired as long as there has been no fault since the start of the app (`FreshInv`): an
  expiry under a retry is one. Like `UserInv` it holds until something clashes
  (`ReasonOrClash`).
* **What is shown is kept.** `KeptInv` of `OfflineClientProofs`: a task at `complete` or
  `saveAnswer`, which is about to delete an entry or to report success, has a subject
  that the server has already acted on (`Vouched`); orders and bookings are never
  undone, so this survives whatever other tasks do meanwhile. Entries are otherwise
  only appended, and an offline call reports success in the step that queues its
  entry. `Tendered` says that a payment in hand or shown has been handed over for an
  order already, so a later payment does not change what its entry looks like.
* **Types of the till's database.** `TypesInv` adds what the types rest on: an order or a
  payment that a task has still to queue is neither in the queue yet nor in the hands of a
  flush, which may put an entry back after a failure (an entry is never queued twice), an
  entry keeps the order it was made for although tenders change, and
  what is marked as synced the server has (`PlaceOK`, `SnapsOK`).
* **A payment is booked again for a reason.** `SoloInv`: where tasks take turns one of them
  is at work. Each payment costs what it has been booked for beyond once, plus one while it is at
  risk: booked, but without a good answer in anyone's hands and so still queued or about to
  be. The costs of all payments together are at most the faults and kills so far
  (`FoldTheorems`: a sum grows by one when one member does), because a cost rises only
  when an answer is lost, an error is answered for what was booked, or the task that holds the
  answer is killed; sending a payment at risk turns
  the risk into the repeat that was paid for.
* **Agreement once flushed.** `AgreeInv`: each order the till knows waits in the queue, is
  in the hands of the one task at work, is locally as the server has it, or is `misled`; and an
  answer that is being saved is still what the server has, as nobody else changed it
  meanwhile. With an empty queue, idle tasks and nobody misled only the third case is left.
* **Serial orders.** `SerialInv` is `OneAtATime` and what follows from it: a handler on a
  serial order still finds the row as it read it (`HandlerFits`: at `save` the order is
  pending, not covered, and `seen` is what the table says; in the stock loop of a payment
  it is PAID and no job is queued), and before it is settled nothing is drawn or queued
  (`BookFits`). An abort only removes a handler, so the invariant survives any number of
  them. That a void is final and that nothing is paid after settlement are then
  properties of the single step.
* **Stock.** What an order needs of an ingredient is a sum over the pairs of one of its
  lines and one recipe row (`Whole`), and what a handler has moved, standing at a line with
  some rows to go, is the same sum over the pairs it has visited (`Gone`). `StockInv`
  relates the two to `used`: a payment in the stock loop has drawn `Gone` (or less, when
  rows were added under it), a void has returned it, and without a handler the order has
  drawn all or nothing, up to `Debt(o)` times the whole (`Near`). `Debt` is the number
  of aborts, plus one once the recipes were edited, and 0 for a calm order. So
  SettledAtMostOnce and ReturnsAreExplained are its two bounds, and for calm orders, where
  the debt is 0, it gives the equations of QuiescentConsistency.
* **Calm orders.** `CalmInv`: a calm order that is covered but pending has a handler at
  `mark`, a paid one without a job has a handler in the stock loop, and an order for
  which a payment was refused as 'already paid' has left pending.
  `DisplayInv`: if the display shows another status than the row, a handler that has
  still to publish the order exists.
* **The handlers implement `Ledger`.** The mapping lets an order become paid when the
  covering payment is saved and void when it is marked. Of the 20 kinds of step three
  change the mapped entry (`CreateInsert`, `PaySave`, `VoidMark`) and `CreateRecipe` edits
  the ledger's recipes; for each of the others `LedgerEntry` is shown to stay. For
  `PayEnqueue`, `VoidRead` and `VoidMark`, where the entry stops or begins to be read from
  the table, this takes the equations of `StockInv`. Other handlers never touch the
  entry, which is why requests on other orders may do as they like.
* **Sums.** The folds of the community modules are CHOOSE-defined recursive functions, and
  the library's induction rules take an operator, which cannot be instantiated here.
  `FoldTheorems` therefore derives induction with the hypothesis as a *set*
  (`InductionOnNaturals`, `InductionOnSubsets`, from the least element of a well-founded
  relation), shows that the function behind a fold exists, and that it does not depend
  on the order in which members are picked (`SumIsUnique`). Adding, taking away and
  splitting off members are corollaries.
* **Totals.** `RoundedBounds` shows that rounding cannot leave an interval with
  whole ends, whichever way ties go. The client's claims are rounded before they are
  compared, so half a satang comes on top of the tolerance of one. `TotalIsSum` says what the fold over the lines is;
  `TillIsRight` then compares two sums over the same lines term by term, and the
  rounding of 7 % on either side. Prices are not negative in it (`PricesNatural`, a
  hypothesis of the property, since no DTO refuses a negative price).

Only model-checked: the liveness properties NothingStuck, PaidOrderIsSynced,
CoveredOrderSettles, PaymentArrivesAlone and TillReturns (fairness and ENABLED are out of
the prover's reach). Every invariant, action property and refinement that a passing run
checks is also proved.

## 6. Not modelled

The guards for roles and API keys (stateless tests of one request), CRUD of products,
branches and members, the seed, Isar's generated code, and layout and wording of screens
and receipts, the printed label 'VAT 7%' among them: no state that the properties relate.
The RESP parser of the Redis transport and the checkout screens are planned (section 2);
the printer has one connection and one user. `createIngredient` and the list of low stock do not
interact with orders. The columns' precision (`decimal(10,2)`) is not reached by the
amounts of the instances.

Met on the way and not stated as properties, because no document of the repository says
otherwise: the gateway leaves the socket of an upgrade that is not its own unanswered
(`cfd.gateway.service.ts:223`) and a display's half-closed socket open (`:205`); unregisterClient
removes all listeners of a socket that may still be open (`:304`), and a socket that is
not registered never had one, so its error ends the process, as `Reset` has it; the result of write() is ignored, so a display that does not read
is buffered for without limit (`:324`); a request recovered by `ApiClient` is sent again
under whichever token is then in use (`api_client.dart:68`).

## 7. Running

    tlc -workers 2 -config orders.cfg MCOrders
    tlapm OrdersProofs.tla

A run named in section 4 has a `.cfg` of that name; its module is `MCOrders`
(`orders`, `pay_race`), `MCJobQueue` (`queue_faults`), `MCAccountingSync`
(`sync_*`, `void_sync_race`, `paid_not_queued`), `MCOfflineClient` (`till_*`),
`MCCfdGateway` (`display`), `MCClientSession` (`session`) or `MCOrderTotals` (`totals`).
