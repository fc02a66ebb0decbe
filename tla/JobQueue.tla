------------------------------ MODULE JobQueue ------------------------------
(***************************************************************************)
(* The job queues of the backend: RedisQueueService (enqueue, poll,        *)
(* releaseDueJobs, reschedule), the command transport under it and the     *)
(* QueueWorkerService that drains the queues every second.  What a handler *)
(* does with a job is modelled in AccountingSync; here it succeeds or      *)
(* throws.                                                                 *)
(*                                                                         *)
(* Every Redis command is one action: the code awaits each of them, and    *)
(* another worker process may run its own in between.  A command may fail: *)
(* sendCommand rejects on a socket error or after its timeout, and what    *)
(* was written to the socket may still reach Redis.  So a failed command   *)
(* is either gone or a stray one that Redis executes later.  A socket      *)
(* that Redis closes without an answer is worse: nothing listens for       *)
(* 'close', the timer dies with the socket, and the await never returns.   *)
(***************************************************************************)
EXTENDS Naturals, Sequences, FiniteSets

CONSTANTS
    Queues,        \* queue names
    QueueOrder,    \* the order in which drainQueues() visits them
    Jobs,          \* job ids
    QueueOf,       \* the queue each job is put on
    Workers,       \* backend processes, each with its QueueWorkerService
    NoEntry,       \* a worker that holds no job
    MaxAttempts,   \* maxAttempts of every job
    BatchLimit,    \* jobs processQueue() takes from a queue in one drain
    ReleaseLimit,  \* delayed jobs releaseDueJobs() moves in one poll
    MayHang,       \* TRUE: Redis may close a socket without an answer
    MaxFaults,     \* bound: commands that fail
    MaxCrashes     \* bound: processes that die by themselves

\* A job as it is stored: the JSON text differs from one attempt to the next.
Entry == [job : Jobs, attempt : 0 .. MaxAttempts]

ASSUME JobQueueAssumption ==
    /\ QueueOrder \in Seq(Queues) \ {<<>>}
    /\ QueueOf \in [Jobs -> Queues]
    /\ NoEntry \notin Entry
    /\ MaxAttempts \in Nat \ {0}
    /\ BatchLimit \in Nat \ {0}
    /\ ReleaseLimit \in Nat \ {0}
    /\ MayHang \in BOOLEAN
    /\ {MaxFaults, MaxCrashes} \subseteq Nat

VARIABLES
    ready,    \* per queue, the list pos:queue:ready (head first)
    delayed,  \* the sorted sets pos:queue:delayed, as entries
    due,      \* the delayed entries whose time has come
    dead,     \* the lists pos:queue:dead
    stray,    \* failed commands that Redis may still execute
    workers,  \* program counter and local variables of each worker
    enqueued, \* jobs for which enqueue() has been called
    runs,     \* how often the handler has been called with each job
    finished, \* jobs whose handler has returned
    faults,   \* commands that have failed
    crashes   \* processes that have died by themselves

redis == <<ready, delayed, due, dead>>
history == <<enqueued, runs, finished>>
queueVars == <<redis, stray, workers, history, faults, crashes>>

\* Where a worker stands: the command or handler it awaits, "idle" between
\* drains (isDraining is false), "hung" on an answer that never comes.
Pc == {"idle", "range", "zrem", "push", "pop", "handle", "reschedule", "hung", "down"}

IdleWorker == [pc |-> "idle", turn |-> 1, processed |-> 0, items |-> {}, entry |-> NoEntry]

InQueue(e, q) == QueueOf[e.job] = q

-----------------------------------------------------------------------------
(* Redis.                                                                  *)

\* What a command does to the lists and sorted sets.
Execute(c) ==
    CASE c.cmd = "LPUSH ready" ->
            /\ ready' = [ready EXCEPT ![QueueOf[c.entry.job]] = <<c.entry>> \o @]
            /\ UNCHANGED <<delayed, due, dead>>
      [] c.cmd = "ZADD delayed" ->
            /\ delayed' = delayed \cup {c.entry}
            /\ UNCHANGED <<ready, due, dead>>
      [] c.cmd = "ZREM delayed" ->
            /\ delayed' = delayed \ {c.entry}
            /\ due' = due \ {c.entry}
            /\ UNCHANGED <<ready, dead>>
      [] c.cmd = "RPOP ready" ->
            /\ ready' = [ready EXCEPT ![c.queue] =
                            IF @ = <<>> THEN @ ELSE SubSeq(@, 1, Len(@) - 1)]
            /\ UNCHANGED <<delayed, due, dead>>
      [] c.cmd = "LPUSH dead" ->
            /\ dead' = dead \cup {c.entry}
            /\ UNCHANGED <<ready, delayed, due>>
      [] OTHER -> UNCHANGED redis      \* ZRANGEBYSCORE

OnEntry(cmd, e) == [cmd |-> cmd, entry |-> e, queue |-> QueueOf[e.job]]
OnQueue(cmd, q) == [cmd |-> cmd, entry |-> NoEntry, queue |-> q]

\* The client gives up on command c.
Fails(c) ==
    /\ faults < MaxFaults
    /\ faults' = faults + 1
    /\ stray' \in {stray, stray \cup {[number |-> faults, command |-> c]}}
    /\ UNCHANGED redis

\* Redis executes a command its client has given up on.
Straggler ==
    \E s \in stray : /\ Execute(s.command)
                     /\ stray' = stray \ {s}
                     /\ UNCHANGED <<workers, history, faults, crashes>>

\* The clock reaches the score of a delayed entry.
ComesDue(e) ==
    /\ e \in delayed \ due
    /\ due' = due \cup {e}
    /\ UNCHANGED <<ready, delayed, dead, stray, workers, history, faults, crashes>>

-----------------------------------------------------------------------------
(* enqueue(), called by the API handlers.  Nobody enqueues a job twice: a  *)
(* retry of the caller gets a fresh id.                                    *)

Enqueue(j) ==
    LET c == OnEntry("LPUSH ready", [job |-> j, attempt |-> 0])
    IN  /\ j \notin enqueued
        /\ enqueued' = enqueued \cup {j}
        /\ \/ Execute(c) /\ UNCHANGED <<stray, faults>>
           \/ Fails(c)
        /\ UNCHANGED <<workers, runs, finished, crashes>>

-----------------------------------------------------------------------------
(* The worker.                                                             *)

Queue(w) == QueueOrder[workers[w].turn]

Set(w, worker) == workers' = [workers EXCEPT ![w] = worker]

\* processQueue() returns: the next queue, or the end of the drain.
LeaveQueue(w) ==
    Set(w, IF workers[w].turn < Len(QueueOrder)
           THEN [IdleWorker EXCEPT !.pc = "range", !.turn = workers[w].turn + 1]
           ELSE IdleWorker)

\* The loop of processQueue() goes on, at most BatchLimit times.
NextJob(w) ==
    IF workers[w].processed + 1 < BatchLimit
    THEN Set(w, [workers[w] EXCEPT !.pc = "range", !.processed = @ + 1,
                                   !.items = {}, !.entry = NoEntry])
    ELSE LeaveQueue(w)

Die(w) == Set(w, [IdleWorker EXCEPT !.pc = "down"])

\* The await of command c by w fails: the code goes on with `onError`, unless the
\* socket was closed without an answer.
Await(w, c, onError) ==
    /\ Fails(c)
    /\ \/ onError
       \/ MayHang /\ Set(w, [workers[w] EXCEPT !.pc = "hung"])

\* The timer fires and isDraining is false.
Tick(w) ==
    /\ workers[w].pc = "idle"
    /\ Set(w, [IdleWorker EXCEPT !.pc = "range"])
    /\ UNCHANGED <<redis, stray, history, faults, crashes>>

DueItems_SkipsOne(q) ==
    LET candidates == {e \in due : InQueue(e, q)}
    IN  {items \in SUBSET candidates :
            /\ Cardinality(items) <= ReleaseLimit
            /\ candidates # {} => items # candidates}

\* What ZRANGEBYSCORE ... LIMIT may return: due entries of the queue, as many as
\* the limit allows.
DueItems(q) ==
    LET candidates == {e \in due : InQueue(e, q)}
    IN  {items \in SUBSET candidates :
            /\ Cardinality(items) <= ReleaseLimit
            /\ Cardinality(items) < ReleaseLimit => items = candidates}

\* releaseDueJobs(): the due entries ...
FindDue(w) ==
    /\ workers[w].pc = "range"
    /\ \/ /\ \E items \in DueItems(Queue(w)) :
                Set(w, [workers[w] EXCEPT !.pc = IF items = {} THEN "pop" ELSE "zrem",
                                          !.items = items])
          /\ UNCHANGED <<redis, stray, faults>>
       \/ Await(w, OnQueue("ZRANGEBYSCORE", Queue(w)), LeaveQueue(w))
    /\ UNCHANGED <<history, crashes>>

\* The loop over the due entries goes on with those that are left.
Released(w, left) ==
    Set(w, [workers[w] EXCEPT !.pc = IF left = {} THEN "pop" ELSE "zrem",
                              !.items = left, !.entry = NoEntry])

IsRemoved_Ignored(e) == TRUE

\* The answer of ZREM: whether this worker removed the entry.
IsRemoved(e) == e \in delayed

\* ... each is taken out of the sorted set ...
Zrem(w) ==
    /\ workers[w].pc = "zrem"
    /\ \E e \in workers[w].items :
          LET c == OnEntry("ZREM delayed", e)
              left == workers[w].items \ {e}
          IN  \/ /\ Execute(c)
                 /\ IF IsRemoved(e)
                    THEN Set(w, [workers[w] EXCEPT !.pc = "push", !.items = left,
                                                   !.entry = e])
                    ELSE Released(w, left)
                 /\ UNCHANGED <<stray, faults>>
              \/ Await(w, c, LeaveQueue(w))
    /\ UNCHANGED <<history, crashes>>

\* ... and pushed on the ready list by the worker that removed it.
Push(w) ==
    LET c == OnEntry("LPUSH ready", workers[w].entry)
    IN  /\ workers[w].pc = "push"
        /\ \/ /\ Execute(c)
              /\ Released(w, workers[w].items)
              /\ UNCHANGED <<stray, faults>>
           \/ Await(w, c, LeaveQueue(w))
        /\ UNCHANGED <<history, crashes>>

\* poll(): the oldest ready job, which Redis forgets as it answers.
Pop(w) ==
    LET q == Queue(w)
        c == OnQueue("RPOP ready", q)
    IN  /\ workers[w].pc = "pop"
        /\ \/ /\ ready[q] = <<>>
              /\ LeaveQueue(w)
              /\ UNCHANGED <<redis, stray, runs, faults>>
           \/ /\ ready[q] # <<>>
              /\ LET e == ready[q][Len(ready[q])]
                 IN  /\ Set(w, [workers[w] EXCEPT !.pc = "handle", !.entry = e])
                     /\ runs' = [runs EXCEPT ![e.job] = @ + 1]
              /\ Execute(c)
              /\ UNCHANGED <<stray, faults>>
           \/ Await(w, c, LeaveQueue(w)) /\ UNCHANGED runs
        /\ UNCHANGED <<enqueued, finished, crashes>>

Handle_NotRescheduled(w) ==
    /\ workers[w].pc = "handle"
    /\ \E returned \in {{}, {workers[w].entry.job}} : finished' = finished \cup returned
    /\ NextJob(w)
    /\ UNCHANGED <<redis, stray, enqueued, runs, faults, crashes>>

\* The handler returns, or throws.
Handle(w) ==
    /\ workers[w].pc = "handle"
    /\ \/ /\ finished' = finished \cup {workers[w].entry.job}
          /\ NextJob(w)
       \/ /\ Set(w, [workers[w] EXCEPT !.pc = "reschedule"])
          /\ UNCHANGED finished
    /\ UNCHANGED <<redis, stray, enqueued, runs, faults, crashes>>

RescheduleCommand_OneMore(e) ==
    LET next == [e EXCEPT !.attempt = @ + 1]
    IN  OnEntry(IF next.attempt > MaxAttempts THEN "LPUSH dead" ELSE "ZADD delayed", next)

RescheduleCommand_SameAttempt(e) == OnEntry("ZADD delayed", e)

\* reschedule(): the next attempt after a delay, or the dead letters.
RescheduleCommand(e) ==
    LET next == [e EXCEPT !.attempt = @ + 1]
    IN  OnEntry(IF next.attempt >= MaxAttempts THEN "LPUSH dead" ELSE "ZADD delayed", next)

\* A reschedule that fails is caught nowhere: drainQueues() rejects, and the
\* unhandled rejection ends the process.
Reschedule(w) ==
    LET c == RescheduleCommand(workers[w].entry)
    IN  /\ workers[w].pc = "reschedule"
        /\ \/ Execute(c) /\ NextJob(w) /\ UNCHANGED <<stray, faults>>
           \/ Await(w, c, Die(w))
        /\ UNCHANGED <<history, crashes>>

\* The process dies by itself, or is stopped in the middle of a drain.
Crash(w) ==
    /\ workers[w].pc \notin {"idle", "down"}
    /\ crashes < MaxCrashes
    /\ crashes' = crashes + 1
    /\ Die(w)
    /\ UNCHANGED <<redis, stray, history, faults>>

\* onModuleInit() of the restarted process: it drains at once.
Restart(w) ==
    /\ workers[w].pc = "down"
    /\ Set(w, [IdleWorker EXCEPT !.pc = "range"])
    /\ UNCHANGED <<redis, stray, history, faults, crashes>>

-----------------------------------------------------------------------------
Init ==
    /\ ready = [q \in Queues |-> <<>>]
    /\ delayed = {} /\ due = {} /\ dead = {} /\ stray = {}
    /\ workers = [w \in Workers |-> IdleWorker]
    /\ enqueued = {} /\ finished = {}
    /\ runs = [j \in Jobs |-> 0]
    /\ faults = 0 /\ crashes = 0

Work(w) ==
    \/ Tick(w) \/ FindDue(w) \/ Zrem(w) \/ Push(w) \/ Pop(w)
    \/ Handle(w) \/ Reschedule(w) \/ Restart(w)

Next ==
    \/ \E j \in Jobs : Enqueue(j)
    \/ \E w \in Workers : Work(w) \/ Crash(w)
    \/ \E e \in Entry : ComesDue(e)
    \/ Straggler

Spec == Init /\ [][Next]_queueVars

\* The interval timer keeps firing, awaits return, time passes, and a process
\* that died is started again.  Nothing obliges a stray command to be executed.
FairSpec ==
    /\ Spec
    /\ \A w \in Workers : WF_queueVars(Work(w))
    /\ \A e \in Entry : WF_queueVars(ComesDue(e))

-----------------------------------------------------------------------------
(* Properties.                                                             *)

Command == [cmd : {"LPUSH ready", "ZADD delayed", "ZREM delayed", "RPOP ready",
                   "LPUSH dead", "ZRANGEBYSCORE"},
            entry : Entry \cup {NoEntry}, queue : Queues]

\* Lists hold entries of their own queue, counters stay in range, and a worker
\* holds an entry exactly while it is between two commands about it.
TypeOK ==
    /\ ready \in [Queues -> Seq(Entry)]
    /\ \A q \in Queues : \A n \in 1 .. Len(ready[q]) : InQueue(ready[q][n], q)
    /\ due \subseteq delayed /\ delayed \subseteq Entry /\ dead \subseteq Entry
    /\ stray \subseteq [number : 0 .. MaxFaults, command : Command]
    /\ workers \in [Workers -> [pc : Pc, turn : 1 .. Len(QueueOrder),
                                processed : 0 .. BatchLimit - 1,
                                items : SUBSET Entry, entry : Entry \cup {NoEntry}]]
    /\ \A w \in Workers :
          /\ workers[w].pc \in {"push", "handle", "reschedule"} => workers[w].entry # NoEntry
          /\ workers[w].pc \in {"idle", "range", "zrem", "pop", "down"} => workers[w].entry = NoEntry
    /\ enqueued \subseteq Jobs /\ finished \subseteq enqueued
    /\ runs \in [Jobs -> Nat]
    /\ faults \in 0 .. MaxFaults /\ crashes \in 0 .. MaxCrashes

\* The places where job j is, each with its kind.
Places(j) ==
    {<<"ready", n>> : n \in {n \in 1 .. Len(ready[QueueOf[j]]) : ready[QueueOf[j]][n].job = j}}
    \cup {<<"delayed", e>> : e \in {e \in delayed : e.job = j}}
    \cup {<<"dead", e>> : e \in {e \in dead : e.job = j}}
    \cup {<<"moving", w>> : w \in {w \in Workers : /\ workers[w].pc = "push"
                                                   /\ workers[w].entry.job = j}}
    \cup {<<"running", w>> : w \in {w \in Workers : /\ workers[w].pc \in {"handle", "reschedule"}
                                                    /\ workers[w].entry.job = j}}
    \cup {<<"stray", s>> : s \in {s \in stray :
              /\ s.command.cmd \in {"LPUSH ready", "ZADD delayed", "LPUSH dead"}
              /\ s.command.entry.job = j}}

IsIn(j, kinds) == \E place \in Places(j) : place[1] \in kinds

\* A job becomes a dead letter only after the handler has failed maxAttempts times,
\* and is never tried more often than that (reschedule()).
DeadAfterAllAttempts ==
    \A j \in Jobs : /\ runs[j] <= MaxAttempts
                    /\ IsIn(j, {"dead"}) => runs[j] = MaxAttempts

\* The job waits in Redis or in the hands of a worker that is not hung.
Pending(j) == IsIn(j, {"ready", "delayed", "moving", "running"})

\* No job is stuck: what is in a queue or with a worker is eventually finished,
\* dead or lost, through failing handlers, failing commands and crashes, as long as
\* one worker is not hung (drainQueues() resets isDraining in its finally block).
NothingStuck ==
    \A j \in Jobs : Pending(j) ~> (~Pending(j) \/ \A w \in Workers : workers[w].pc = "hung")

\* Every job that was accepted and is in no place any more is accounted for by a
\* command that failed or a process that died, each of which loses one job at most:
\* a failed handler alone never loses one (queue.worker.spec.ts, 'reschedules failed
\* jobs'), although releaseDueJobs() and poll() take jobs out before they put them back.
LossesAreExplained ==
    Cardinality({j \in enqueued \ finished : Places(j) = {}}) <= faults + crashes

\* Where the board of JobBoard shows job j: a job in two places, or finished and still in
\* one, is on none of its squares.
PlaceOf(j) ==
    CASE Cardinality(Places(j)) > (IF j \in finished THEN 0 ELSE 1) -> "twice"
      [] j \notin enqueued -> "new"
      [] j \in finished -> "done"
      [] IsIn(j, {"running"}) -> "running"
      [] IsIn(j, {"ready", "delayed", "moving"}) -> "waiting"
      [] IsIn(j, {"dead"}) -> "dead"
      [] IsIn(j, {"stray"}) ->
            IF \E s \in stray : s.command.cmd = "LPUSH dead" /\ s.command.entry.job = j
            THEN "dead" ELSE "waiting"
      [] OTHER -> "lost"

B == INSTANCE JobBoard WITH place <- [j \in Jobs |-> PlaceOf(j)], tries <- runs

\* The Redis commands of the workers, in any interleaving and with any failures,
\* amount to the atomic moves of the board: in particular no job is ever in two places,
\* so two workers cannot both release or both run it (poll() relies on RPOP,
\* releaseDueJobs() on the answer of ZREM), and no timed-out command or crash doubles it.
ImplementsJobBoard == B!Spec
=============================================================================
