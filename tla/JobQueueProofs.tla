--------------------------- MODULE JobQueueProofs ---------------------------
(***************************************************************************)
(* Theorems about JobQueue for any queues, jobs, workers, limits and       *)
(* numbers of failing commands and crashes, checked by TLAPS.              *)
(*                                                                         *)
(* A stored job is an entry.  Held(k, e) says that entry e is held by the  *)
(* kind of place k; every step of the queues is shown to move one entry    *)
(* from one kind of place to another (TokenStep), and what the theorems    *)
(* say of jobs follows from those moves alone.                             *)
(***************************************************************************)
EXTENDS JobQueue, FiniteSetTheorems, SequenceTheorems, TLAPS

-----------------------------------------------------------------------------
(* Types.                                                                  *)

Worker == [pc : Pc, turn : 1 .. Len(QueueOrder), processed : 0 .. BatchLimit - 1,
           items : SUBSET Entry, entry : Entry \cup {NoEntry}]

\* What TypeOK says of one worker.
WorkerOK(q) ==
    /\ q \in Worker
    /\ q.pc \in {"push", "handle", "reschedule"} => q.entry # NoEntry
    /\ q.pc \in {"idle", "range", "zrem", "pop", "down"} => q.entry = NoEntry

\* TypeOK in the parts that actions change separately.
ReadyOK ==
    /\ ready \in [Queues -> Seq(Entry)]
    /\ \A q \in Queues : \A n \in 1 .. Len(ready[q]) : InQueue(ready[q][n], q)

StoreOK == ReadyOK /\ due \subseteq delayed /\ delayed \subseteq Entry /\ dead \subseteq Entry

StrayOK == stray \subseteq [number : 0 .. MaxFaults, command : Command] /\ faults \in 0 .. MaxFaults

WorkersOK == workers \in [Workers -> Worker] /\ \A w \in Workers : WorkerOK(workers[w])

HistoryOK ==
    /\ enqueued \subseteq Jobs /\ finished \subseteq enqueued
    /\ runs \in [Jobs -> Nat]

CountersOK == crashes \in 0 .. MaxCrashes

\* The parts are the whole.
LEMMA TypeParts == TypeOK <=> StoreOK /\ StrayOK /\ WorkersOK /\ HistoryOK /\ CountersOK
  BY DEF TypeOK, StoreOK, ReadyOK, StrayOK, WorkersOK, WorkerOK, Worker, HistoryOK, CountersOK

\* The members of Entry.
LEMMA EntryFields ==
  ASSUME NEW e \in Entry
  PROVE  e.job \in Jobs /\ e.attempt \in 0 .. MaxAttempts /\ QueueOf[e.job] \in Queues
         /\ e # NoEntry
  BY JobQueueAssumption DEF Entry

\* A command about an entry or a queue is a Command.
LEMMA CommandTypes ==
  /\ \A e \in Entry : \A cmd \in {"LPUSH ready", "ZADD delayed", "ZREM delayed", "LPUSH dead"} :
        OnEntry(cmd, e) \in Command
  /\ \A q \in Queues : \A cmd \in {"RPOP ready", "ZRANGEBYSCORE"} : OnQueue(cmd, q) \in Command
  BY EntryFields DEF OnEntry, OnQueue, Command

\* The queue a worker is at.
LEMMA QueueType ==
  ASSUME WorkersOK, NEW w \in Workers
  PROVE  Queue(w) \in Queues
  BY JobQueueAssumption DEF WorkersOK, WorkerOK, Worker, Queue

\* The first entry of an idle worker.
LEMMA IdleOK == WorkerOK(IdleWorker) /\ WorkerOK([IdleWorker EXCEPT !.pc = "range"])
                /\ WorkerOK([IdleWorker EXCEPT !.pc = "down"])
  BY JobQueueAssumption DEF IdleWorker, WorkerOK, Worker, Pc

\* A worker that is given sound local variables leaves the others sound.
LEMMA SetOK ==
  ASSUME WorkersOK, NEW w \in Workers, NEW q, WorkerOK(q), Set(w, q)
  PROVE  WorkersOK'
  BY DEF WorkersOK, Set, WorkerOK

\* The worker goes on to the next queue.
LEMMA LeaveQueueOK ==
  ASSUME WorkersOK, NEW w \in Workers, LeaveQueue(w)
  PROVE  WorkersOK'
<1> DEFINE next == [IdleWorker EXCEPT !.pc = "range", !.turn = workers[w].turn + 1]
<1>1. CASE workers[w].turn < Len(QueueOrder)
  <2>1. workers[w].turn + 1 \in 1 .. Len(QueueOrder) /\ 0 \in 0 .. BatchLimit - 1
    BY <1>1, JobQueueAssumption DEF WorkersOK, WorkerOK, Worker
  <2>2. WorkerOK(next)
    BY <2>1 DEF IdleWorker, WorkerOK, Worker, Pc
  <2>3. QED BY <1>1, <2>2, SetOK DEF LeaveQueue
<1>2. CASE ~(workers[w].turn < Len(QueueOrder))
  BY <1>2, SetOK, IdleOK DEF LeaveQueue
<1>3. QED BY <1>1, <1>2

\* The worker goes on with the queue, or to the next.
LEMMA NextJobOK ==
  ASSUME WorkersOK, NEW w \in Workers, NextJob(w)
  PROVE  WorkersOK'
<1> DEFINE next == [workers[w] EXCEPT !.pc = "range", !.processed = @ + 1,
                                   !.items = {}, !.entry = NoEntry]
<1>1. CASE workers[w].processed + 1 < BatchLimit
  <2>1. workers[w].processed + 1 \in 0 .. BatchLimit - 1
    BY <1>1, JobQueueAssumption DEF WorkersOK, WorkerOK, Worker
  <2>2. WorkerOK(next)
    BY <2>1 DEF WorkersOK, WorkerOK, Worker, Pc
  <2>3. QED BY <1>1, <2>2, SetOK DEF NextJob
<1>2. CASE ~(workers[w].processed + 1 < BatchLimit)
  BY <1>2, LeaveQueueOK DEF NextJob
<1>3. QED BY <1>1, <1>2

\* The worker goes on with the due entries that are left.
LEMMA ReleasedOK ==
  ASSUME WorkersOK, NEW w \in Workers, NEW left \in SUBSET Entry, Released(w, left)
  PROVE  WorkersOK'
<1> DEFINE next == [workers[w] EXCEPT !.pc = IF left = {} THEN "pop" ELSE "zrem",
                              !.items = left, !.entry = NoEntry]
<1>1. WorkerOK(next)
  BY JobQueueAssumption DEF WorkersOK, WorkerOK, Worker, Pc
<1>2. QED BY <1>1, SetOK DEF Released

\* The commands that carry an entry.
EntryCommands == {"LPUSH ready", "ZADD delayed", "ZREM delayed", "LPUSH dead"}

\* A command that reaches Redis late is numbered by the fault that delayed it, and
\* carries an entry if its kind needs one.
StraySound ==
    \A s \in stray : /\ s.number < faults
                     /\ s.command.cmd \in EntryCommands => s.command.entry \in Entry

TypeInv == TypeOK /\ StraySound

\* A position after the first has a predecessor.
LEMMA Predecessor ==
  ASSUME NEW k \in Nat, NEW n \in 1 .. k + 1, n # 1
  PROVE  n - 1 \in 1 .. k /\ (n - 1) + 1 = n
  OBVIOUS

\* A position before the last has a successor.
LEMMA Successor ==
  ASSUME NEW k \in Nat, NEW n \in 1 .. k
  PROVE  n + 1 \in 1 .. k + 1 /\ n + 1 # 1
  OBVIOUS

\* A list with an entry more has a first position.
LEMMA FirstPosition ==
  ASSUME NEW k \in Nat
  PROVE  1 \in 1 .. k + 1
  OBVIOUS

\* The positions of a list and of the list without its last entry.
LEMMA Shorter ==
  ASSUME NEW k \in Nat \ {0}
  PROVE  /\ 1 \in 1 .. k /\ k \in 1 .. k /\ k - 1 \in Nat
         /\ \A n \in 1 .. k - 1 : n \in 1 .. k /\ n # k
         /\ \A n \in 1 .. k : n \in 1 .. k - 1 \/ n = k
  OBVIOUS

\* A list with an entry pushed on its left.
LEMMA Prepended ==
  ASSUME NEW s \in Seq(Entry), NEW e \in Entry
  PROVE  /\ <<e>> \o s \in Seq(Entry)
         /\ Len(s) \in Nat /\ Len(<<e>> \o s) = Len(s) + 1
         /\ (<<e>> \o s)[1] = e
         /\ \A n \in 1 .. Len(s) : (<<e>> \o s)[n + 1] = s[n]
  OBVIOUS

\* A list without its rightmost entry.
LEMMA Popped ==
  ASSUME NEW s \in Seq(Entry), s # <<>>
  PROVE  /\ SubSeq(s, 1, Len(s) - 1) \in Seq(Entry)
         /\ Len(SubSeq(s, 1, Len(s) - 1)) = Len(s) - 1
         /\ \A n \in 1 .. Len(s) - 1 : n \in 1 .. Len(s) /\ SubSeq(s, 1, Len(s) - 1)[n] = s[n]
         /\ Len(s) \in 1 .. Len(s) /\ s[Len(s)] \in Entry
<1>1. Len(s) \in Nat \ {0} /\ Len(s) \in 1 .. Len(s)
  BY EmptySeq
<1>2. s[Len(s)] \in Entry
  BY <1>1, ElementOfSeq
<1>3. \A i \in 1 .. Len(s) - 1 : i \in 1 .. Len(s) /\ s[i] \in Entry
  BY <1>1, ElementOfSeq
<1>4. SubSeq(s, 1, Len(s) - 1) \in Seq(Entry)
  BY <1>1, <1>3
<1>5. Len(SubSeq(s, 1, Len(s) - 1)) = Len(s) - 1
  <2>1. \A k \in Nat \ {0} : /\ k - 1 \in Int
                             /\ (IF 1 <= k - 1 THEN (k - 1) - 1 + 1 ELSE 0) = k - 1
    OBVIOUS
  <2>2. Len(s) - 1 \in Int
    BY <1>1, <2>1
  <2>3. Len(SubSeq(s, 1, Len(s) - 1)) = IF 1 <= Len(s) - 1 THEN (Len(s) - 1) - 1 + 1 ELSE 0
    BY <1>3, <2>2, SubSeqProperties
  <2>4. QED BY <1>1, <2>1, <2>3
<1>6. \A n \in 1 .. Len(s) - 1 : SubSeq(s, 1, Len(s) - 1)[n] = s[n]
  <2>1. Len(s) - 1 \in 0 .. Len(s)
    BY <1>1
  <2>2. SubSeq(s, 1, Len(s) - 1) = Restrict(s, 1 .. Len(s) - 1)
    BY <2>1, SubSeqRestrict
  <2>3. QED BY <2>2 DEF Restrict
<1>7. QED BY <1>1, <1>2, <1>3, <1>4, <1>5, <1>6

\* LPUSH on a ready list keeps the types.
LEMMA PushTyped ==
  ASSUME StoreOK, NEW e \in Entry, NEW c, c.cmd = "LPUSH ready", c.entry = e, Execute(c)
  PROVE  StoreOK'
<1> DEFINE q == QueueOf[e.job]
           s == ready[q]
<1>1. q \in Queues /\ s \in Seq(Entry) /\ InQueue(e, q)
  BY EntryFields DEF StoreOK, ReadyOK, InQueue
<1>2. ready' = [ready EXCEPT ![q] = <<e>> \o s] /\ UNCHANGED <<delayed, due, dead>>
  BY DEF Execute
<1>3. ready'[q] = <<e>> \o s /\ \A p \in Queues \ {q} : ready'[p] = ready[p]
  BY <1>1, <1>2 DEF StoreOK, ReadyOK
<1>4. \A n \in 1 .. Len(<<e>> \o s) : InQueue((<<e>> \o s)[n], q)
  <2>1. SUFFICES ASSUME NEW n \in 1 .. Len(<<e>> \o s) PROVE InQueue((<<e>> \o s)[n], q)
    OBVIOUS
  <2>2. CASE n = 1
    BY <1>1, <2>2, Prepended
  <2>3. CASE n # 1
    <3>1. Len(s) \in Nat /\ Len(<<e>> \o s) = Len(s) + 1
      BY <1>1, Prepended
    <3>2. n - 1 \in 1 .. Len(s) /\ (n - 1) + 1 = n
      <4>1. n \in 1 .. Len(s) + 1
        BY <2>1, <3>1
      <4>2. QED BY <2>3, <3>1, <4>1, Predecessor
    <3>3. (<<e>> \o s)[(n - 1) + 1] = s[n - 1]
      BY <1>1, <3>2, Prepended
    <3>4. InQueue(s[n - 1], q)
      BY <1>1, <3>2 DEF StoreOK, ReadyOK
    <3>5. QED BY <3>2, <3>3, <3>4
  <2>4. QED BY <2>2, <2>3
<1>5. ready' \in [Queues -> Seq(Entry)]
  BY <1>1, <1>2, Prepended DEF StoreOK, ReadyOK
<1>6. \A p \in Queues : \A n \in 1 .. Len(ready'[p]) : InQueue(ready'[p][n], p)
  BY <1>3, <1>4 DEF StoreOK, ReadyOK
<1>7. ReadyOK'
  BY <1>5, <1>6 DEF ReadyOK, InQueue
<1>8. QED BY <1>2, <1>7 DEF StoreOK

\* RPOP of a ready list keeps the types.
LEMMA PopTyped ==
  ASSUME StoreOK, NEW q \in Queues, NEW c, c.cmd = "RPOP ready", c.queue = q, Execute(c)
  PROVE  StoreOK'
<1> DEFINE s == ready[q]
<1>1. s \in Seq(Entry)
  BY DEF StoreOK, ReadyOK
<1>2. ready' = [ready EXCEPT ![q] = IF s = <<>> THEN s ELSE SubSeq(s, 1, Len(s) - 1)]
      /\ UNCHANGED <<delayed, due, dead>>
  BY DEF Execute
<1>3. CASE s = <<>>
  <2>1. ready' = ready
    BY <1>2, <1>3 DEF StoreOK, ReadyOK
  <2>2. QED BY <1>2, <2>1 DEF StoreOK, ReadyOK, InQueue
<1>4. CASE s # <<>>
  <2>1. ready'[q] = SubSeq(s, 1, Len(s) - 1) /\ \A p \in Queues \ {q} : ready'[p] = ready[p]
    BY <1>2, <1>4 DEF StoreOK, ReadyOK
  <2>2. ready' \in [Queues -> Seq(Entry)]
    BY <1>1, <1>2, <1>4, Popped DEF StoreOK, ReadyOK
  <2>3. \A n \in 1 .. Len(s) - 1 : n \in 1 .. Len(s) /\ SubSeq(s, 1, Len(s) - 1)[n] = s[n]
    BY <1>1, <1>4, Popped
  <2>4. \A n \in 1 .. Len(SubSeq(s, 1, Len(s) - 1)) : InQueue(SubSeq(s, 1, Len(s) - 1)[n], q)
    BY <1>1, <1>4, <2>3, Popped DEF StoreOK, ReadyOK
  <2>5. \A p \in Queues : \A n \in 1 .. Len(ready'[p]) : InQueue(ready'[p][n], p)
    BY <2>1, <2>4 DEF StoreOK, ReadyOK
  <2>6. ReadyOK'
    BY <2>2, <2>5 DEF ReadyOK, InQueue
  <2>7. QED BY <1>2, <2>6 DEF StoreOK
<1>5. QED BY <1>3, <1>4

\* The other commands keep the types.
LEMMA ExecuteTyped ==
  ASSUME StoreOK, NEW c \in Command, c.cmd \in EntryCommands => c.entry \in Entry, Execute(c)
  PROVE  StoreOK'
<1>1. c.queue \in Queues /\ c.cmd \in EntryCommands \cup {"RPOP ready", "ZRANGEBYSCORE"}
  BY DEF Command, EntryCommands
<1>2. CASE c.cmd = "LPUSH ready"
  BY <1>2, PushTyped DEF EntryCommands
<1>3. CASE c.cmd = "RPOP ready"
  BY <1>1, <1>3, PopTyped
<1>4. CASE c.cmd = "ZADD delayed"
  <2>1. UNCHANGED <<ready, due, dead>> /\ delayed' = delayed \cup {c.entry} /\ c.entry \in Entry
    BY <1>4 DEF Execute, EntryCommands
  <2>2. QED BY <2>1 DEF StoreOK, ReadyOK, InQueue
<1>5. CASE c.cmd = "ZREM delayed"
  <2>1. UNCHANGED <<ready, dead>> /\ delayed' = delayed \ {c.entry} /\ due' = due \ {c.entry}
    BY <1>5 DEF Execute
  <2>2. QED BY <2>1 DEF StoreOK, ReadyOK, InQueue
<1>6. CASE c.cmd = "LPUSH dead"
  <2>1. UNCHANGED <<ready, delayed, due>> /\ dead' = dead \cup {c.entry} /\ c.entry \in Entry
    BY <1>6 DEF Execute, EntryCommands
  <2>2. QED BY <2>1 DEF StoreOK, ReadyOK, InQueue
<1>7. CASE c.cmd = "ZRANGEBYSCORE"
  BY <1>7 DEF Execute, redis, StoreOK, ReadyOK, InQueue
<1>8. QED BY <1>1, <1>2, <1>3, <1>4, <1>5, <1>6, <1>7 DEF EntryCommands

\* A command that fails keeps the types.
LEMMA FailsTyped ==
  ASSUME StoreOK, StrayOK, StraySound, NEW c \in Command,
         c.cmd \in EntryCommands => c.entry \in Entry, Fails(c)
  PROVE  StoreOK' /\ StrayOK' /\ StraySound'
<1> DEFINE new == [number |-> faults, command |-> c]
<1>1. StoreOK'
  BY DEF Fails, redis, StoreOK, ReadyOK, InQueue
<1>2. faults' = faults + 1 /\ faults' \in 0 .. MaxFaults /\ faults \in 0 .. MaxFaults
  BY JobQueueAssumption DEF Fails, StrayOK
<1>3. new \in [number : 0 .. MaxFaults, command : Command] /\ new.number = faults /\ new.command = c
  BY <1>2
<1>4. stray' \subseteq stray \cup {new}
  BY DEF Fails
<1>5. StrayOK'
  BY <1>2, <1>3, <1>4 DEF StrayOK
<1>6. \A s \in stray : s.number \in 0 .. MaxFaults
  BY DEF StrayOK
<1>7. StraySound'
  BY <1>2, <1>3, <1>4, <1>6 DEF StraySound
<1>8. QED BY <1>1, <1>5, <1>7

\* The parts of TypeInv.
LEMMA TypeInvParts ==
  TypeInv <=> StoreOK /\ StrayOK /\ StraySound /\ WorkersOK /\ HistoryOK /\ CountersOK
  BY TypeParts DEF TypeInv

\* The next state has the types if its parts have.
LEMMA TypeInvPartsPrimed ==
  TypeInv' <=> StoreOK' /\ StrayOK' /\ StraySound' /\ WorkersOK' /\ HistoryOK' /\ CountersOK'
  BY TypeInvParts, PTL

\* What the actions leave alone keeps its types.
LEMMA Unmoved ==
  /\ StoreOK /\ UNCHANGED redis => StoreOK'
  /\ StrayOK /\ StraySound /\ UNCHANGED <<stray, faults>> => StrayOK' /\ StraySound'
  /\ WorkersOK /\ UNCHANGED workers => WorkersOK'
  /\ HistoryOK /\ UNCHANGED history => HistoryOK'
  /\ CountersOK /\ UNCHANGED crashes => CountersOK'
  BY DEF StoreOK, ReadyOK, InQueue, redis, StrayOK, StraySound, WorkersOK, WorkerOK,
         HistoryOK, history, CountersOK

\* A worker that dies, or hangs on a command, is well-typed.
LEMMA StoppedOK ==
  ASSUME WorkersOK, NEW w \in Workers
  PROVE  /\ Die(w) => WorkersOK'
         /\ Set(w, [workers[w] EXCEPT !.pc = "hung"]) => WorkersOK'
<1>1. WorkerOK([workers[w] EXCEPT !.pc = "hung"])
  BY DEF WorkersOK, WorkerOK, Worker, Pc
<1>2. QED BY <1>1, IdleOK, SetOK DEF Die

\* enqueue().
LEMMA EnqueueTyped ==
  ASSUME TypeInv, NEW j \in Jobs, Enqueue(j)
  PROVE  TypeInv'
<1> USE TypeInvParts
<1> DEFINE e == [job |-> j, attempt |-> 0]
           c == OnEntry("LPUSH ready", e)
<1>1. e \in Entry /\ c \in Command /\ c.cmd = "LPUSH ready" /\ c.entry = e
  <2>1. e \in Entry
    BY JobQueueAssumption DEF Entry
  <2>2. QED BY <2>1, CommandTypes DEF OnEntry
<1>2. StoreOK' /\ StrayOK' /\ StraySound'
  <2>1. CASE Execute(c) /\ UNCHANGED <<stray, faults>>
    BY <1>1, <2>1, ExecuteTyped, Unmoved
  <2>2. CASE Fails(c)
    BY <1>1, <2>2, FailsTyped
  <2>3. QED BY <2>1, <2>2 DEF Enqueue
<1>3. HistoryOK'
  BY DEF Enqueue, HistoryOK
<1>4. WorkersOK' /\ CountersOK'
  BY Unmoved DEF Enqueue
<1>5. QED BY <1>2, <1>3, <1>4, TypeInvPartsPrimed

\* The timer fires, or the process starts again.
LEMMA TickTyped ==
  ASSUME TypeInv, NEW w \in Workers, Tick(w) \/ Restart(w)
  PROVE  TypeInv'
<1> USE TypeInvParts
<1>1. WorkersOK'
  BY IdleOK, SetOK DEF Tick, Restart
<1>2. QED BY <1>1, Unmoved, TypeInvPartsPrimed DEF Tick, Restart

\* releaseDueJobs() reads the due entries.
LEMMA RangeTyped ==
  ASSUME TypeInv, NEW w \in Workers, FindDue(w)
  PROVE  TypeInv'
<1> USE TypeInvParts
<1> DEFINE c == OnQueue("ZRANGEBYSCORE", Queue(w))
<1>1. c \in Command /\ c.cmd \notin EntryCommands
  BY CommandTypes, QueueType DEF OnQueue, EntryCommands
<1>2. HistoryOK' /\ CountersOK'
  <2>1. UNCHANGED <<history, crashes>>
    BY DEF FindDue
  <2>2. QED BY <2>1, Unmoved
<1>3. CASE Await(w, c, LeaveQueue(w))
  <2>1. StoreOK' /\ StrayOK' /\ StraySound'
    BY <1>1, <1>3, FailsTyped DEF Await
  <2>2. WorkersOK'
    BY <1>3, LeaveQueueOK, StoppedOK DEF Await
  <2>3. QED BY <1>2, <2>1, <2>2, TypeInvPartsPrimed
<1>4. ASSUME NEW items \in DueItems(Queue(w)), UNCHANGED <<redis, stray, faults>>,
             Set(w, [workers[w] EXCEPT !.pc = IF items = {} THEN "pop" ELSE "zrem",
                                       !.items = items])
      PROVE  TypeInv'
  <2>1. items \in SUBSET Entry
    BY <1>4 DEF DueItems, StoreOK
  <2>2. workers[w] \in Worker /\ workers[w].entry = NoEntry
    BY DEF FindDue, WorkersOK, WorkerOK
  <2>3. WorkerOK([workers[w] EXCEPT !.pc = IF items = {} THEN "pop" ELSE "zrem", !.items = items])
    <3>1. (IF items = {} THEN "pop" ELSE "zrem") \in {"pop", "zrem"}
      OBVIOUS
    <3>2. QED BY <2>1, <2>2, <3>1 DEF WorkerOK, Worker, Pc
  <2>4. WorkersOK'
    BY <1>4, <2>3, SetOK
  <2>5. StoreOK' /\ StrayOK' /\ StraySound'
    BY <1>4, Unmoved
  <2>6. QED BY <1>2, <2>4, <2>5, TypeInvPartsPrimed
<1>5. QED BY <1>3, <1>4 DEF FindDue

\* ... takes one of them out of the sorted set ...
LEMMA ZremTyped ==
  ASSUME TypeInv, NEW w \in Workers, Zrem(w)
  PROVE  TypeInv'
<1> USE TypeInvParts
<1>1. workers[w] \in Worker /\ workers[w].items \subseteq Entry
  BY DEF WorkersOK, WorkerOK, Worker
<1>2. HistoryOK' /\ CountersOK'
  BY Unmoved DEF Zrem
<1>3. PICK e \in workers[w].items :
          LET c == OnEntry("ZREM delayed", e)
              left == workers[w].items \ {e}
          IN  \/ /\ Execute(c)
                 /\ IF IsRemoved(e)
                    THEN Set(w, [workers[w] EXCEPT !.pc = "push", !.items = left,
                                                   !.entry = e])
                    ELSE Released(w, left)
                 /\ UNCHANGED <<stray, faults>>
              \/ Await(w, c, LeaveQueue(w))
  BY DEF Zrem
<1> DEFINE c == OnEntry("ZREM delayed", e)
           left == workers[w].items \ {e}
<1>4. c \in Command /\ c.entry \in Entry /\ left \in SUBSET Entry /\ e \in Entry
  BY <1>1, CommandTypes DEF OnEntry
<1>5. CASE Await(w, c, LeaveQueue(w))
  <2>1. StoreOK' /\ StrayOK' /\ StraySound'
    BY <1>4, <1>5, FailsTyped DEF Await
  <2>2. WorkersOK'
    BY <1>5, LeaveQueueOK, StoppedOK DEF Await
  <2>3. QED BY <1>2, <2>1, <2>2, TypeInvPartsPrimed
<1>6. CASE Execute(c) /\ UNCHANGED <<stray, faults>> /\ ~Await(w, c, LeaveQueue(w))
  <2>1. StoreOK'
    BY <1>4, <1>6, ExecuteTyped
  <2>2. WorkerOK([workers[w] EXCEPT !.pc = "push", !.items = left, !.entry = e])
    BY <1>1, <1>4, EntryFields DEF WorkerOK, Worker, Pc
  <2>3. WorkersOK'
    BY <1>3, <1>4, <1>6, <2>2, SetOK, ReleasedOK
  <2>4. QED BY <1>2, <1>6, <2>1, <2>3, Unmoved, TypeInvPartsPrimed
<1>7. QED BY <1>3, <1>5, <1>6

\* ... and pushes it on the ready list.
LEMMA PushStepTyped ==
  ASSUME TypeInv, NEW w \in Workers, Push(w)
  PROVE  TypeInv'
<1> USE TypeInvParts
<1> DEFINE e == workers[w].entry
           c == OnEntry("LPUSH ready", e)
<1>1. e \in Entry /\ workers[w].items \in SUBSET Entry
  BY DEF Push, WorkersOK, WorkerOK, Worker
<1>2. c \in Command /\ c.entry \in Entry
  BY <1>1, CommandTypes DEF OnEntry
<1>3. HistoryOK' /\ CountersOK'
  BY Unmoved DEF Push
<1>4. CASE Await(w, c, LeaveQueue(w))
  <2>1. StoreOK' /\ StrayOK' /\ StraySound'
    BY <1>2, <1>4, FailsTyped DEF Await
  <2>2. WorkersOK'
    BY <1>4, LeaveQueueOK, StoppedOK DEF Await
  <2>3. QED BY <1>3, <2>1, <2>2, TypeInvPartsPrimed
<1>5. CASE Execute(c) /\ Released(w, workers[w].items) /\ UNCHANGED <<stray, faults>>
  BY <1>1, <1>2, <1>3, <1>5, ExecuteTyped, ReleasedOK, Unmoved, TypeInvPartsPrimed
<1>6. QED BY <1>4, <1>5 DEF Push

\* poll(): the oldest ready job.
LEMMA PopTypedStep ==
  ASSUME TypeInv, NEW w \in Workers, Pop(w)
  PROVE  TypeInv'
<1> USE TypeInvParts
<1> DEFINE q == Queue(w)
           c == OnQueue("RPOP ready", q)
           e == ready[q][Len(ready[q])]
<1>1. q \in Queues /\ c \in Command /\ c.cmd = "RPOP ready" /\ c.queue = q
      /\ c.cmd \notin EntryCommands
  BY QueueType, CommandTypes DEF OnQueue, EntryCommands
<1>2. CountersOK' /\ UNCHANGED <<enqueued, finished>>
  <2>1. UNCHANGED <<enqueued, finished, crashes>>
    BY DEF Pop
  <2>2. QED BY <2>1, Unmoved
<1>3. CASE Await(w, c, LeaveQueue(w)) /\ UNCHANGED runs
  <2>1. StoreOK' /\ StrayOK' /\ StraySound'
    BY <1>1, <1>3, FailsTyped DEF Await
  <2>2. WorkersOK'
    BY <1>3, LeaveQueueOK, StoppedOK DEF Await
  <2>3. HistoryOK'
    BY <1>2, <1>3, Unmoved DEF history
  <2>4. QED BY <1>2, <2>1, <2>2, <2>3, TypeInvPartsPrimed
<1>4. CASE ready[q] = <<>> /\ LeaveQueue(w) /\ UNCHANGED <<redis, stray, runs, faults>>
  <2>1. HistoryOK'
    BY <1>2, <1>4, Unmoved DEF history
  <2>2. QED BY <1>2, <1>4, <2>1, LeaveQueueOK, Unmoved, TypeInvPartsPrimed
<1>5. CASE /\ ready[q] # <<>> /\ Execute(c) /\ UNCHANGED <<stray, faults>>
           /\ Set(w, [workers[w] EXCEPT !.pc = "handle", !.entry = e])
           /\ runs' = [runs EXCEPT ![e.job] = @ + 1]
  <2>1. e \in Entry
    BY <1>1, <1>5, Popped DEF StoreOK, ReadyOK
  <2>2. StoreOK'
    BY <1>1, <1>5, ExecuteTyped
  <2>3. WorkerOK([workers[w] EXCEPT !.pc = "handle", !.entry = e])
    <3>1. workers[w] \in Worker /\ e # NoEntry
      BY <2>1, EntryFields DEF WorkersOK, WorkerOK
    <3>2. QED BY <2>1, <3>1 DEF WorkerOK, Worker, Pc
  <2>4. WorkersOK'
    BY <1>5, <2>3, SetOK
  <2>5. HistoryOK'
    <3>1. e.job \in Jobs
      BY <2>1, EntryFields
    <3>2. \A j \in Jobs : [runs EXCEPT ![j] = @ + 1] \in [Jobs -> Nat]
      BY DEF HistoryOK
    <3>3. runs' \in [Jobs -> Nat]
      BY <1>5, <3>1, <3>2
    <3>4. QED BY <1>2, <3>3 DEF HistoryOK
  <2>6. QED BY <1>2, <1>5, <2>2, <2>4, <2>5, Unmoved, TypeInvPartsPrimed
<1>6. QED BY <1>3, <1>4, <1>5 DEF Pop

\* The handler returns or throws.  Only a job that was accepted is handled.
LEMMA HandleTyped ==
  ASSUME TypeInv, NEW w \in Workers, Handle(w), workers[w].entry.job \in enqueued
  PROVE  TypeInv'
<1> USE TypeInvParts
<1>1. WorkersOK'
  <2>1. workers[w] \in Worker /\ WorkerOK(workers[w])
    BY DEF WorkersOK, WorkerOK
  <2>2. WorkerOK([workers[w] EXCEPT !.pc = "reschedule"])
    BY <2>1 DEF Handle, WorkerOK, Worker, Pc
  <2>3. QED BY <2>2, SetOK, NextJobOK DEF Handle
<1>2. HistoryOK'
  BY DEF Handle, HistoryOK
<1>3. UNCHANGED <<redis, stray, faults, crashes>>
  BY DEF Handle
<1>4. QED BY <1>1, <1>2, <1>3, Unmoved, TypeInvPartsPrimed

\* The entry of the next attempt.
LEMMA NextEntry ==
  ASSUME NEW e \in Entry, e.attempt < MaxAttempts
  PROVE  LET next == [e EXCEPT !.attempt = @ + 1]
         IN  /\ next \in Entry /\ next.job = e.job /\ next.attempt = e.attempt + 1
             /\ RescheduleCommand(e).entry = next
             /\ RescheduleCommand(e).cmd = IF next.attempt = MaxAttempts THEN "LPUSH dead"
                                           ELSE "ZADD delayed"
             /\ RescheduleCommand(e) \in Command
<1> DEFINE next == [e EXCEPT !.attempt = @ + 1]
<1>1. e.attempt \in Nat /\ MaxAttempts \in Nat
  BY JobQueueAssumption DEF Entry
<1>2. next \in Entry /\ next.job = e.job /\ next.attempt = e.attempt + 1
  BY <1>1 DEF Entry
<1>3. next.attempt >= MaxAttempts <=> next.attempt = MaxAttempts
  BY <1>1, <1>2
<1> DEFINE cmd == IF next.attempt = MaxAttempts THEN "LPUSH dead" ELSE "ZADD delayed"
<1>4. RescheduleCommand(e) = OnEntry(cmd, next)
  BY <1>3 DEF RescheduleCommand
<1>5. cmd \in {"LPUSH ready", "ZADD delayed", "ZREM delayed", "LPUSH dead"}
  OBVIOUS
<1>6. OnEntry(cmd, next).entry = next /\ OnEntry(cmd, next).cmd = cmd /\ OnEntry(cmd, next) \in Command
  <2> HIDE DEF next, cmd
  <2>1. QED BY <1>2, <1>5, CommandTypes DEF OnEntry
<1>7. QED BY <1>2, <1>4, <1>6

\* reschedule().
LEMMA RescheduleTyped ==
  ASSUME TypeInv, NEW w \in Workers, Reschedule(w), workers[w].entry.attempt < MaxAttempts
  PROVE  TypeInv'
<1> USE TypeInvParts
<1> DEFINE c == RescheduleCommand(workers[w].entry)
<1>1. workers[w].entry \in Entry
  BY DEF Reschedule, WorkersOK, WorkerOK, Worker
<1>2. c \in Command /\ c.entry \in Entry
  BY <1>1, NextEntry
<1>3. HistoryOK' /\ CountersOK'
  BY Unmoved DEF Reschedule
<1>4. CASE Await(w, c, Die(w))
  <2>1. StoreOK' /\ StrayOK' /\ StraySound'
    BY <1>2, <1>4, FailsTyped DEF Await
  <2>2. WorkersOK'
    BY <1>4, StoppedOK DEF Await
  <2>3. QED BY <1>3, <2>1, <2>2, TypeInvPartsPrimed
<1>5. CASE Execute(c) /\ NextJob(w) /\ UNCHANGED <<stray, faults>>
  BY <1>2, <1>3, <1>5, ExecuteTyped, NextJobOK, Unmoved, TypeInvPartsPrimed
<1>6. QED BY <1>4, <1>5 DEF Reschedule

\* A process dies by itself.
LEMMA CrashTyped ==
  ASSUME TypeInv, NEW w \in Workers, Crash(w)
  PROVE  TypeInv'
<1> USE TypeInvParts
<1>1. CountersOK'
  BY JobQueueAssumption DEF Crash, CountersOK
<1>2. WorkersOK'
  BY StoppedOK DEF Crash
<1>3. UNCHANGED <<redis, stray, history, faults>>
  BY DEF Crash
<1>4. QED BY <1>1, <1>2, <1>3, Unmoved, TypeInvPartsPrimed

\* The clock reaches the score of an entry.
LEMMA ComesDueTyped ==
  ASSUME TypeInv, NEW e \in Entry, ComesDue(e)
  PROVE  TypeInv'
<1> USE TypeInvParts
<1>1. StoreOK'
  BY DEF ComesDue, StoreOK, ReadyOK, InQueue
<1>2. UNCHANGED <<stray, workers, history, faults, crashes>>
  BY DEF ComesDue
<1>3. QED BY <1>1, <1>2, Unmoved, TypeInvPartsPrimed

\* Redis executes a command its client has given up on.
LEMMA StragglerTyped ==
  ASSUME TypeInv, Straggler
  PROVE  TypeInv'
<1> USE TypeInvParts
<1>1. PICK s \in stray : Execute(s.command) /\ stray' = stray \ {s}
                        /\ UNCHANGED <<workers, history, faults, crashes>>
  BY DEF Straggler
<1>2. s.command \in Command /\ (s.command.cmd \in EntryCommands => s.command.entry \in Entry)
  BY DEF StrayOK, StraySound
<1>3. StoreOK'
  BY <1>1, <1>2, ExecuteTyped
<1>4. StrayOK' /\ StraySound'
  BY <1>1 DEF StrayOK, StraySound
<1>5. QED BY <1>1, <1>3, <1>4, Unmoved, TypeInvPartsPrimed

-----------------------------------------------------------------------------
(* Places.                                                                 *)

\* The kinds of place an entry can be held by: the ready list, the sorted set, a worker
\* that moves it, a late command that puts it on either, a worker that handles it, the
\* dead letters, and a late command that puts it there.
WaitingKind == {"ready", "delayed", "moving", "late"}
DeadKind == {"dead", "buried"}
Kind == WaitingKind \cup {"running"} \cup DeadKind

HoldingPc == {"push", "handle", "reschedule"}
PuttingCommands == {"LPUSH ready", "ZADD delayed", "LPUSH dead"}

Listed(e) ==
    \E n \in 1 .. Len(ready[QueueOf[e.job]]) : ready[QueueOf[e.job]][n] = e

InHands(pcs, e) == \E w \in Workers : workers[w].pc \in pcs /\ workers[w].entry = e

Sent(cmds, e) == \E s \in stray : s.command.cmd \in cmds /\ s.command.entry = e

\* Entry e is held by the kind of place k.
Held(k, e) ==
    \/ k = "ready" /\ Listed(e)
    \/ k = "delayed" /\ e \in delayed
    \/ k = "dead" /\ e \in dead
    \/ k = "moving" /\ InHands({"push"}, e)
    \/ k = "running" /\ InHands({"handle", "reschedule"}, e)
    \/ k = "late" /\ Sent({"LPUSH ready", "ZADD delayed"}, e)
    \/ k = "buried" /\ Sent({"LPUSH dead"}, e)

\* Within a kind, a job is in one place.
SoleInList == \A q \in Queues : \A m, n \in 1 .. Len(ready[q]) :
                 ready[q][m].job = ready[q][n].job => m = n

SoleInHands == \A v, w \in Workers :
                 (/\ workers[v].pc \in HoldingPc /\ workers[w].pc \in HoldingPc
                  /\ workers[v].entry.job = workers[w].entry.job) => v = w

SoleSent == \A s, t \in stray :
                 (/\ s.command.cmd \in PuttingCommands /\ t.command.cmd \in PuttingCommands
                  /\ s.command.entry.job = t.command.entry.job) => s = t

Sole == SoleInList /\ SoleInHands /\ SoleSent

\* The kinds exclude each other: a job has one entry, held by one kind of place.
OneKind == \A k, l \in Kind : \A e, f \in Entry :
              (Held(k, e) /\ Held(l, f) /\ e.job = f.job) => k = l /\ e = f

\* Only a job that was accepted and is not finished is held.
OnlyOpen == \A k \in Kind : \A e \in Entry : Held(k, e) => e.job \in enqueued \ finished

\* The number of the attempt on an entry is the number of runs of its job so far.
CountOK(k, attempt, tries) ==
    /\ k \in WaitingKind => tries = attempt /\ attempt < MaxAttempts
    /\ k = "running" => tries = attempt + 1 /\ attempt < MaxAttempts
    /\ k \in DeadKind => tries = MaxAttempts

Counted == \A k \in Kind : \A e \in Entry : Held(k, e) => CountOK(k, e.attempt, runs[e.job])

RunsBounded == \A j \in Jobs : /\ runs[j] <= MaxAttempts
                               /\ j \notin enqueued => runs[j] = 0

Board == OneKind /\ OnlyOpen /\ Counted /\ RunsBounded

\* A fault or a crash that no loss is charged to yet: a late command may still cost one.
Spare == faults + crashes - Cardinality(stray)

\* No place holds an entry of job j.
Absent(j) == \A k \in Kind : \A e \in Entry : Held(k, e) => e.job # j

\* The jobs that are in no place and not finished.
Gone == {j \in enqueued \ finished : Absent(j)}

Finite == IsFiniteSet(enqueued) /\ IsFiniteSet(stray)

Budget == Cardinality(Gone) <= Spare

QueueInv == TypeInv /\ Sole /\ Board /\ Finite

-----------------------------------------------------------------------------
(* Moves of an entry from one kind of place to another.                    *)

\* Of the entries held by kind k, e leaves if it moves from there, and f arrives if it
\* moves there.
Part(k, from, e, to, f) ==
    \A g \in Entry : Held(k, g)' <=> \/ k = to /\ g = f
                                     \/ Held(k, g) /\ ~(k = from /\ g = e)

StoreParts(from, e, to, f) ==
    Part("ready", from, e, to, f) /\ Part("delayed", from, e, to, f) /\ Part("dead", from, e, to, f)

HandParts(from, e, to, f) == Part("moving", from, e, to, f) /\ Part("running", from, e, to, f)

StrayParts(from, e, to, f) == Part("late", from, e, to, f) /\ Part("buried", from, e, to, f)

\* Entry e leaves the kind `from`, f arrives at the kind `to`, nothing else moves.
Moved(from, e, to, f) == \A k \in Kind : Part(k, from, e, to, f)

\* The kinds are those of the three parts.
LEMMA MovedParts ==
  ASSUME NEW from, NEW e, NEW to, NEW f,
         StoreParts(from, e, to, f), HandParts(from, e, to, f), StrayParts(from, e, to, f)
  PROVE  Moved(from, e, to, f)
  BY Zenon DEF Moved, StoreParts, HandParts, StrayParts, Kind, WaitingKind, DeadKind

\* What Held means for each kind.
LEMMA HeldKinds ==
  ASSUME NEW e
  PROVE  /\ Held("ready", e) <=> Listed(e)
         /\ Held("delayed", e) <=> e \in delayed
         /\ Held("dead", e) <=> e \in dead
         /\ Held("moving", e) <=> InHands({"push"}, e)
         /\ Held("running", e) <=> InHands({"handle", "reschedule"}, e)
         /\ Held("late", e) <=> Sent({"LPUSH ready", "ZADD delayed"}, e)
         /\ Held("buried", e) <=> Sent({"LPUSH dead"}, e)
  BY DEF Held

\* ... and in the next state.
LEMMA HeldKindsPrimed ==
  ASSUME NEW e
  PROVE  /\ Held("ready", e)' <=> Listed(e)'
         /\ Held("delayed", e)' <=> e \in delayed'
         /\ Held("dead", e)' <=> e \in dead'
         /\ Held("moving", e)' <=> InHands({"push"}, e)'
         /\ Held("running", e)' <=> InHands({"handle", "reschedule"}, e)'
         /\ Held("late", e)' <=> Sent({"LPUSH ready", "ZADD delayed"}, e)'
         /\ Held("buried", e)' <=> Sent({"LPUSH dead"}, e)'
  BY DEF Held

\* What no action touches does not move.
LEMMA StillParts ==
  ASSUME NEW from, NEW e, NEW to, NEW f
  PROVE  /\ UNCHANGED ready /\ from # "ready" /\ to # "ready" => Part("ready", from, e, to, f)
         /\ UNCHANGED delayed /\ from # "delayed" /\ to # "delayed" => Part("delayed", from, e, to, f)
         /\ UNCHANGED dead /\ from # "dead" /\ to # "dead" => Part("dead", from, e, to, f)
         /\ UNCHANGED workers /\ from \notin {"moving", "running"} /\ to \notin {"moving", "running"}
                => HandParts(from, e, to, f)
         /\ UNCHANGED stray /\ from \notin {"late", "buried"} /\ to \notin {"late", "buried"}
                => StrayParts(from, e, to, f)
<1> USE HeldKinds, HeldKindsPrimed DEF Part
<1>1. UNCHANGED ready /\ from # "ready" /\ to # "ready" => Part("ready", from, e, to, f)
  BY DEF Listed
<1>2. UNCHANGED delayed /\ from # "delayed" /\ to # "delayed" => Part("delayed", from, e, to, f)
  OBVIOUS
<1>3. UNCHANGED dead /\ from # "dead" /\ to # "dead" => Part("dead", from, e, to, f)
  OBVIOUS
<1>4. UNCHANGED workers /\ from \notin {"moving", "running"} /\ to \notin {"moving", "running"}
      => HandParts(from, e, to, f)
  <2>1. UNCHANGED workers => \A pcs, g : InHands(pcs, g)' <=> InHands(pcs, g)
    BY DEF InHands
  <2>2. QED BY <2>1 DEF HandParts
<1>5. UNCHANGED stray /\ from \notin {"late", "buried"} /\ to \notin {"late", "buried"}
      => StrayParts(from, e, to, f)
  <2>1. UNCHANGED stray => \A cmds, g : Sent(cmds, g)' <=> Sent(cmds, g)
    BY DEF Sent
  <2>2. QED BY <2>1 DEF StrayParts
<1>6. QED BY <1>1, <1>2, <1>3, <1>4, <1>5

StoreKind == {"ready", "delayed", "dead"}
HandKind == {"moving", "running"}
StrayKind == {"late", "buried"}

\* LPUSH of an entry whose job is not on the list: the entry is listed, and still sole.
LEMMA PushLists ==
  ASSUME StoreOK, SoleInList, NEW e \in Entry, NEW c, c.cmd = "LPUSH ready", c.entry = e,
         Execute(c), \A g \in Entry : Listed(g) => g.job # e.job
  PROVE  SoleInList' /\ \A g \in Entry : Listed(g)' <=> g = e \/ Listed(g)
<1> DEFINE q == QueueOf[e.job]
           s == ready[q]
           t == <<e>> \o s
<1>1. q \in Queues /\ s \in Seq(Entry)
  BY EntryFields DEF StoreOK, ReadyOK
<1>2. ready'[q] = t /\ \A p \in Queues \ {q} : ready'[p] = ready[p]
  BY <1>1 DEF Execute, StoreOK, ReadyOK
<1>3. /\ Len(s) \in Nat /\ Len(t) = Len(s) + 1 /\ t[1] = e
      /\ \A n \in 1 .. Len(s) : n + 1 \in 1 .. Len(t) /\ t[n + 1] = s[n] /\ s[n] \in Entry
  <2>1. /\ Len(s) \in Nat /\ Len(t) = Len(s) + 1 /\ t[1] = e
        /\ \A n \in 1 .. Len(s) : t[n + 1] = s[n]
    BY <1>1, Prepended
  <2>2. \A n \in 1 .. Len(s) : s[n] \in Entry
    BY <1>1, ElementOfSeq
  <2>3. \A n \in 1 .. Len(s) : n + 1 \in 1 .. Len(s) + 1
    BY <2>1, Successor
  <2>4. QED BY <2>1, <2>2, <2>3
<1>4. \A n \in 1 .. Len(s) : s[n].job # e.job
  <2>1. SUFFICES ASSUME NEW n \in 1 .. Len(s), s[n].job = e.job PROVE FALSE
    OBVIOUS
  <2>2. s[n] \in Entry /\ QueueOf[s[n].job] = q
    BY <1>3, <2>1
  <2>3. Listed(s[n])
    BY <2>2 DEF Listed
  <2>4. QED BY <2>1, <2>2, <2>3
<1> HIDE DEF s, t, q
<1>5. 1 \in 1 .. Len(t) /\ \A n \in 1 .. Len(t) : n = 1 \/ \E m \in 1 .. Len(s) : n = m + 1 /\ t[n] = s[m]
  <2>1. 1 \in 1 .. Len(t)
    BY <1>3, FirstPosition
  <2>2. ASSUME NEW n \in 1 .. Len(t), n # 1 PROVE \E m \in 1 .. Len(s) : n = m + 1 /\ t[n] = s[m]
    <3>1. n - 1 \in 1 .. Len(s) /\ (n - 1) + 1 = n
      BY <1>3, <2>2, Predecessor
    <3>2. QED BY <1>3, <3>1
  <2>3. QED BY <2>1, <2>2
<1>6. \A m, n \in 1 .. Len(s) : s[m].job = s[n].job => m = n
  BY <1>1 DEF SoleInList, s
<1>7. \A m, n \in 1 .. Len(t) : t[m].job = t[n].job => m = n
  <2>1. SUFFICES ASSUME NEW m \in 1 .. Len(t), NEW n \in 1 .. Len(t), t[m].job = t[n].job
                 PROVE  m = n
    OBVIOUS
  <2>2. ASSUME NEW i \in 1 .. Len(t), i # 1 PROVE t[i].job # t[1].job
    <3>1. PICK k \in 1 .. Len(s) : t[i] = s[k]
      BY <1>5, <2>2
    <3>2. t[i].job = s[k].job /\ t[1].job = e.job
      BY <1>3, <3>1
    <3>3. QED BY <1>4, <3>2
  <2>3. CASE m = 1 \/ n = 1
    BY <2>1, <2>2, <2>3
  <2>4. CASE m # 1 /\ n # 1
    <3>1. PICK i \in 1 .. Len(s) : m = i + 1 /\ t[m] = s[i]
      BY <1>5, <2>4
    <3>2. PICK j \in 1 .. Len(s) : n = j + 1 /\ t[n] = s[j]
      BY <1>5, <2>4
    <3>3. i = j
      BY <1>6, <2>1, <3>1, <3>2
    <3>4. QED BY <3>1, <3>2, <3>3
  <2>5. QED BY <2>3, <2>4
<1>8. SoleInList'
  BY <1>2, <1>7 DEF SoleInList
<1>9. ASSUME NEW g \in Entry PROVE Listed(g)' <=> g = e \/ Listed(g)
  <2>1. QueueOf[g.job] \in Queues
    BY EntryFields
  <2>2. CASE QueueOf[g.job] # q
    <3>1. Listed(g)' <=> Listed(g)
      BY <1>2, <2>1, <2>2 DEF Listed
    <3>2. QED BY <2>2, <3>1 DEF q
  <2>3. CASE QueueOf[g.job] = q
    <3>1. Listed(g)' <=> \E n \in 1 .. Len(t) : t[n] = g
      BY <1>2, <2>3 DEF Listed
    <3>2. Listed(g) <=> \E n \in 1 .. Len(s) : s[n] = g
      BY <2>3 DEF Listed, s
    <3>3. ASSUME Listed(g)' PROVE g = e \/ Listed(g)
      <4>1. PICK n \in 1 .. Len(t) : t[n] = g
        BY <3>1, <3>3
      <4>2. QED BY <1>3, <1>5, <3>2, <4>1
    <3>4. ASSUME g = e \/ Listed(g) PROVE Listed(g)'
      BY <1>3, <1>5, <3>1, <3>2, <3>4
    <3>5. QED BY <3>3, <3>4
  <2>4. QED BY <2>2, <2>3
<1>10. QED BY <1>8, <1>9

\* RPOP of a list: its last entry is no longer listed.
LEMMA PopLists ==
  ASSUME StoreOK, SoleInList, NEW q \in Queues, NEW c, c.cmd = "RPOP ready", c.queue = q,
         Execute(c), ready[q] # <<>>
  PROVE  LET e == ready[q][Len(ready[q])]
         IN  /\ e \in Entry /\ Listed(e) /\ SoleInList'
             /\ \A g \in Entry : Listed(g)' <=> Listed(g) /\ g # e
<1> DEFINE s == ready[q]
           e == s[Len(s)]
           t == SubSeq(s, 1, Len(s) - 1)
<1>1. s \in Seq(Entry)
  BY DEF StoreOK, ReadyOK
<1>2. /\ Len(s) \in Nat \ {0} /\ Len(t) = Len(s) - 1 /\ e \in Entry /\ Len(s) \in 1 .. Len(s)
      /\ \A n \in 1 .. Len(s) - 1 : n \in 1 .. Len(s) /\ t[n] = s[n]
  <2>1. Len(s) \in Nat \ {0}
    BY <1>1, EmptySeq
  <2>2. /\ Len(t) = Len(s) - 1 /\ e \in Entry /\ Len(s) \in 1 .. Len(s)
        /\ \A n \in 1 .. Len(s) - 1 : n \in 1 .. Len(s) /\ t[n] = s[n]
    BY <1>1, Popped
  <2>3. QED BY <2>1, <2>2
<1>3. ready'[q] = t /\ \A p \in Queues \ {q} : ready'[p] = ready[p]
  BY DEF Execute, StoreOK, ReadyOK
<1>4. QueueOf[e.job] = q /\ Listed(e)
  <2>1. QueueOf[e.job] = q
    BY <1>2 DEF StoreOK, ReadyOK, InQueue
  <2>2. QED BY <1>2, <2>1 DEF Listed
<1>5. \A m, n \in 1 .. Len(s) : s[m].job = s[n].job => m = n
  BY DEF SoleInList
<1> HIDE DEF s, e, t
<1>6. /\ \A n \in 1 .. Len(t) : n \in 1 .. Len(s) /\ n # Len(s) /\ t[n] = s[n]
      /\ \A n \in 1 .. Len(s) : n \in 1 .. Len(t) \/ n = Len(s)
  BY <1>2, Shorter
<1>10. \A m, n \in 1 .. Len(t) : t[m].job = t[n].job => m = n
  BY <1>5, <1>6
<1>7. SoleInList'
  <2>1. \A p \in Queues : \A m, n \in 1 .. Len(ready'[p]) :
            ready'[p][m].job = ready'[p][n].job => m = n
    <3>1. SUFFICES ASSUME NEW p \in Queues PROVE \A m, n \in 1 .. Len(ready'[p]) :
                              ready'[p][m].job = ready'[p][n].job => m = n
      OBVIOUS
    <3>2. CASE p = q
      BY <1>3, <1>10, <3>2
    <3>3. CASE p # q
      BY <1>3, <3>3 DEF SoleInList
    <3>4. QED BY <3>2, <3>3
  <2>2. QED BY <2>1 DEF SoleInList
<1>8. ASSUME NEW g \in Entry PROVE Listed(g)' <=> Listed(g) /\ g # e
  <2>1. QueueOf[g.job] \in Queues
    BY EntryFields
  <2>2. CASE QueueOf[g.job] # q
    BY <1>3, <1>4, <2>1, <2>2 DEF Listed
  <2>3. CASE QueueOf[g.job] = q
    <3>1. Listed(g)' <=> \E n \in 1 .. Len(t) : t[n] = g
      BY <1>3, <2>3 DEF Listed
    <3>2. Listed(g) <=> \E n \in 1 .. Len(s) : s[n] = g
      BY <2>3 DEF Listed, s
    <3>3. \A n \in 1 .. Len(t) : s[n] # e
      BY <1>2, <1>5, <1>6 DEF e
    <3>4. QED BY <1>6, <3>1, <3>2, <3>3 DEF e
  <2>4. QED BY <2>2, <2>3
<1>9. QED BY <1>2, <1>4, <1>7, <1>8 DEF e, s

\* A command that puts an entry on a list or set of Redis puts it there.
LEMMA PutParts ==
  ASSUME StoreOK, SoleInList, NEW f \in Entry, NEW c, c.entry = f, Execute(c),
         NEW from, NEW e, NEW to, from \notin StoreKind,
         \/ c.cmd = "LPUSH ready" /\ to = "ready"
         \/ c.cmd = "ZADD delayed" /\ to = "delayed"
         \/ c.cmd = "LPUSH dead" /\ to = "dead",
         \A g \in Entry : Listed(g) => g.job # f.job
  PROVE  StoreParts(from, e, to, f) /\ SoleInList'
<1> USE DEF StoreKind, StoreParts
<1>1. CASE c.cmd = "LPUSH ready" /\ to = "ready"
  <2>1. UNCHANGED <<delayed, dead>>
    BY <1>1 DEF Execute
  <2>2. SoleInList' /\ \A g \in Entry : Listed(g)' <=> g = f \/ Listed(g)
    BY <1>1, PushLists
  <2>3. Part("ready", from, e, to, f)
    BY <1>1, <2>2, HeldKinds, HeldKindsPrimed DEF Part
  <2>4. QED BY <1>1, <2>1, <2>2, <2>3, StillParts
<1>2. CASE c.cmd = "ZADD delayed" /\ to = "delayed"
  <2>1. UNCHANGED <<ready, dead>> /\ delayed' = delayed \cup {f}
    BY <1>2 DEF Execute
  <2>2. Part("delayed", from, e, to, f)
    BY <1>2, <2>1, HeldKinds, HeldKindsPrimed DEF Part
  <2>3. QED BY <1>2, <2>1, <2>2, StillParts DEF SoleInList
<1>3. CASE c.cmd = "LPUSH dead" /\ to = "dead"
  <2>1. UNCHANGED <<ready, delayed>> /\ dead' = dead \cup {f}
    BY <1>3 DEF Execute
  <2>2. Part("dead", from, e, to, f)
    BY <1>3, <2>1, HeldKinds, HeldKindsPrimed DEF Part
  <2>3. QED BY <1>3, <2>1, <2>2, StillParts DEF SoleInList
<1>4. QED BY <1>1, <1>2, <1>3

\* ZREM takes the entry from the sorted set, if it is there.
LEMMA ZremParts ==
  ASSUME SoleInList, NEW e \in Entry, NEW c, c.cmd = "ZREM delayed", c.entry = e, Execute(c),
         NEW from, NEW to, NEW f, to \notin StoreKind,
         \/ from = "delayed"
         \/ from \notin StoreKind /\ e \notin delayed
  PROVE  StoreParts(from, e, to, f) /\ SoleInList'
<1>1. UNCHANGED <<ready, dead>> /\ delayed' = delayed \ {e}
  BY DEF Execute
<1>2. Part("delayed", from, e, to, f)
  BY <1>1, HeldKinds, HeldKindsPrimed DEF Part, StoreKind
<1>3. QED BY <1>1, <1>2, StillParts DEF SoleInList, StoreParts, StoreKind

\* RPOP takes the last entry from the ready list, if there is one.
LEMMA PopParts ==
  ASSUME StoreOK, SoleInList, NEW q \in Queues, NEW c, c.cmd = "RPOP ready", c.queue = q,
         Execute(c), NEW from, NEW e, NEW to, NEW f, to \notin StoreKind,
         \/ from = "ready" /\ ready[q] # <<>> /\ e = ready[q][Len(ready[q])]
         \/ from \notin StoreKind /\ ready[q] = <<>>
  PROVE  StoreParts(from, e, to, f) /\ SoleInList'
<1>1. UNCHANGED <<delayed, dead>>
  BY DEF Execute
<1>2. CASE from = "ready" /\ ready[q] # <<>> /\ e = ready[q][Len(ready[q])]
  <2>1. SoleInList' /\ \A g \in Entry : Listed(g)' <=> Listed(g) /\ g # e
    BY <1>2, PopLists
  <2>2. Part("ready", from, e, to, f)
    BY <1>2, <2>1, HeldKinds, HeldKindsPrimed DEF Part, StoreKind
  <2>3. QED BY <1>1, <1>2, <2>1, <2>2, StillParts DEF StoreParts, StoreKind
<1>3. CASE from \notin StoreKind /\ ready[q] = <<>>
  <2>1. UNCHANGED ready
    BY <1>3 DEF Execute, StoreOK, ReadyOK
  <2>2. QED BY <1>1, <1>3, <2>1, StillParts DEF StoreParts, StoreKind, SoleInList
<1>4. QED BY <1>2, <1>3

\* Redis as it was.
LEMMA StillStore ==
  ASSUME SoleInList, UNCHANGED redis, NEW from, NEW e, NEW to, NEW f,
         from \notin StoreKind, to \notin StoreKind
  PROVE  StoreParts(from, e, to, f) /\ SoleInList'
  BY StillParts DEF StoreParts, StoreKind, redis, SoleInList

\* The local variables of a worker become q: what it held leaves, what q holds arrives.
LEMMA SetParts ==
  ASSUME WorkersOK, SoleInHands, NEW w \in Workers, NEW q, Set(w, q),
         NEW from, NEW e, NEW to, NEW f,
         workers[w].pc = "push" <=> from = "moving",
         workers[w].pc \in {"handle", "reschedule"} <=> from = "running",
         from \in HandKind => e = workers[w].entry,
         q.pc = "push" <=> to = "moving",
         q.pc \in {"handle", "reschedule"} <=> to = "running",
         to \in HandKind => f = q.entry,
         to \in HandKind => \A v \in Workers \ {w} :
                               workers[v].pc \in HoldingPc => workers[v].entry.job # f.job
  PROVE  HandParts(from, e, to, f) /\ SoleInHands'
<1>1. workers'[w] = q /\ \A v \in Workers \ {w} : workers'[v] = workers[v]
  BY DEF Set, WorkersOK
<1>2. \A pcs, g : InHands(pcs, g)' <=>
          \/ q.pc \in pcs /\ q.entry = g
          \/ \E v \in Workers \ {w} : workers[v].pc \in pcs /\ workers[v].entry = g
  BY <1>1 DEF InHands
<1>3. \A pcs, g : InHands(pcs, g) <=>
          \/ workers[w].pc \in pcs /\ workers[w].entry = g
          \/ \E v \in Workers \ {w} : workers[v].pc \in pcs /\ workers[v].entry = g
  BY DEF InHands
<1>4. \A v \in Workers \ {w} : workers[v].pc \in HoldingPc /\ workers[w].pc \in HoldingPc
          => workers[v].entry # workers[w].entry
  BY DEF SoleInHands
<1>5. Part("moving", from, e, to, f)
  <2>1. SUFFICES ASSUME NEW g \in Entry
                 PROVE  Held("moving", g)' <=>
                            \/ "moving" = to /\ g = f
                            \/ Held("moving", g) /\ ~("moving" = from /\ g = e)
    BY DEF Part
  <2>2. /\ Held("moving", g) <=> InHands({"push"}, g)
        /\ Held("moving", g)' <=> InHands({"push"}, g)'
    BY HeldKinds, HeldKindsPrimed
  <2>3. /\ q.pc \in {"push"} /\ q.entry = g <=> "moving" = to /\ g = f
        /\ workers[w].pc \in {"push"} /\ workers[w].entry = g <=> "moving" = from /\ g = e
    BY DEF HandKind
  <2>4. ASSUME NEW v \in Workers \ {w}, workers[v].pc \in {"push"}, workers[v].entry = g
        PROVE  ~("moving" = from /\ g = e)
    BY <1>4, <2>3, <2>4 DEF HoldingPc
  <2>5. InHands({"push"}, g)' <=>
            \/ "moving" = to /\ g = f
            \/ InHands({"push"}, g) /\ ~("moving" = from /\ g = e)
    BY <1>2, <1>3, <2>3, <2>4
  <2>6. QED BY <2>2, <2>5
<1>6. Part("running", from, e, to, f)
  <2>1. SUFFICES ASSUME NEW g \in Entry
                 PROVE  Held("running", g)' <=>
                            \/ "running" = to /\ g = f
                            \/ Held("running", g) /\ ~("running" = from /\ g = e)
    BY DEF Part
  <2>2. /\ Held("running", g) <=> InHands({"handle", "reschedule"}, g)
        /\ Held("running", g)' <=> InHands({"handle", "reschedule"}, g)'
    BY HeldKinds, HeldKindsPrimed
  <2>3. /\ q.pc \in {"handle", "reschedule"} /\ q.entry = g <=> "running" = to /\ g = f
        /\ workers[w].pc \in {"handle", "reschedule"} /\ workers[w].entry = g <=> "running" = from /\ g = e
    BY DEF HandKind
  <2>4. ASSUME NEW v \in Workers \ {w}, workers[v].pc \in {"handle", "reschedule"}, workers[v].entry = g
        PROVE  ~("running" = from /\ g = e)
    BY <1>4, <2>3, <2>4 DEF HoldingPc
  <2>5. InHands({"handle", "reschedule"}, g)' <=>
            \/ "running" = to /\ g = f
            \/ InHands({"handle", "reschedule"}, g) /\ ~("running" = from /\ g = e)
    BY <1>2, <1>3, <2>3, <2>4
  <2>6. QED BY <2>2, <2>5
<1>7. SoleInHands'
  <2>1. q.pc \in HoldingPc => to \in HandKind
    BY DEF HoldingPc, HandKind
  <2>2. \A v \in Workers \ {w} : workers[v].pc \in HoldingPc /\ q.pc \in HoldingPc
            => workers[v].entry.job # q.entry.job
    BY <2>1
  <2>3. QED BY <1>1, <2>2 DEF SoleInHands
<1>8. QED BY <1>5, <1>6, <1>7 DEF HandParts

\* The workers as they were.
LEMMA StillHands ==
  ASSUME SoleInHands, UNCHANGED workers, NEW from, NEW e, NEW to, NEW f,
         from \notin HandKind, to \notin HandKind
  PROVE  HandParts(from, e, to, f) /\ SoleInHands'
  BY StillParts DEF HandKind, SoleInHands

\* The late commands as they were.
LEMMA StillStray ==
  ASSUME SoleSent, IsFiniteSet(stray), UNCHANGED stray, NEW from, NEW e, NEW to, NEW f,
         from \notin StrayKind, to \notin StrayKind
  PROVE  StrayParts(from, e, to, f) /\ SoleSent' /\ IsFiniteSet(stray')
  BY StillParts DEF StrayKind, SoleSent

\* The counters are numbers.
LEMMA SpareTypes ==
  ASSUME StrayOK, CountersOK, IsFiniteSet(stray)
  PROVE  faults \in Nat /\ crashes \in Nat /\ Cardinality(stray) \in Nat /\ Spare \in Int
<1>1. faults \in Nat /\ crashes \in Nat
  BY JobQueueAssumption DEF StrayOK, CountersOK
<1>2. Cardinality(stray) \in Nat
  BY FS_CardinalityType
<1>3. QED BY <1>1, <1>2 DEF Spare

\* What is charged to a command that fails: nothing if it may still reach Redis.
LEMMA FailsSpare ==
  ASSUME StrayOK, StraySound, CountersOK, IsFiniteSet(stray), NEW c, Fails(c), UNCHANGED crashes
  PROVE  /\ IsFiniteSet(stray')
         /\ \/ stray' = stray /\ Spare' = Spare + 1
            \/ /\ stray' = stray \cup {[number |-> faults, command |-> c]}
               /\ Spare' = Spare
<1> DEFINE new == [number |-> faults, command |-> c]
<1>1. faults \in Nat /\ crashes \in Nat /\ Cardinality(stray) \in Nat
  BY SpareTypes
<1>2. faults' = faults + 1 /\ (stray' = stray \/ stray' = stray \cup {new})
  BY DEF Fails
<1>3. new \notin stray
  BY <1>1 DEF StraySound
<1>4. IsFiniteSet(stray \cup {new}) /\ Cardinality(stray \cup {new}) = Cardinality(stray) + 1
  BY <1>3, FS_AddElement
<1> HIDE DEF new
<1>5. CASE stray' = stray
  BY <1>1, <1>2, <1>5 DEF Spare
<1>6. CASE stray' = stray \cup {new}
  <2>1. Cardinality(stray') = Cardinality(stray) + 1 /\ IsFiniteSet(stray')
    BY <1>4, <1>6
  <2>2. Spare' = Spare
    BY <1>1, <1>2, <2>1 DEF Spare
  <2>3. QED BY <1>6, <2>1, <2>2 DEF new
<1>7. QED BY <1>2, <1>5, <1>6

\* A command that was to put an entry somewhere fails: the entry is late, or nowhere.
LEMMA FailedPut ==
  ASSUME StrayOK, StraySound, CountersOK, SoleSent, IsFiniteSet(stray),
         NEW f \in Entry, NEW c, c.entry = f, Fails(c), UNCHANGED crashes,
         NEW late, \/ c.cmd \in {"LPUSH ready", "ZADD delayed"} /\ late = "late"
                   \/ c.cmd = "LPUSH dead" /\ late = "buried",
         NEW from, NEW e, from \notin StrayKind,
         \A s \in stray : s.command.cmd \in PuttingCommands => s.command.entry.job # f.job
  PROVE  /\ SoleSent' /\ IsFiniteSet(stray')
         /\ \/ Spare' = Spare + 1 /\ StrayParts(from, e, "nowhere", f)
            \/ Spare' = Spare /\ StrayParts(from, e, late, f)
<1> DEFINE new == [number |-> faults, command |-> c]
<1>1. IsFiniteSet(stray')
  BY FailsSpare
<1>2. CASE stray' = stray /\ Spare' = Spare + 1
  BY <1>1, <1>2, StillStray DEF StrayKind
<1>3. CASE stray' = stray \cup {new} /\ Spare' = Spare
  <2>1. new.command = c
    OBVIOUS
  <2> HIDE DEF new
  <2>2. SoleSent'
    BY <1>3, <2>1 DEF SoleSent
  <2>3. \A cmds, g : Sent(cmds, g)' <=> Sent(cmds, g) \/ (c.cmd \in cmds /\ f = g)
    BY <1>3, <2>1 DEF Sent
  <2>4. Part("late", from, e, late, f)
    BY <2>3, HeldKinds, HeldKindsPrimed DEF Part, StrayKind
  <2>5. Part("buried", from, e, late, f)
    BY <2>3, HeldKinds, HeldKindsPrimed DEF Part, StrayKind
  <2>6. QED BY <1>1, <1>3, <2>2, <2>4, <2>5 DEF StrayParts
<1>4. QED BY <1>2, <1>3, FailsSpare

\* Another command fails: no entry moves, whether or not it will still reach Redis.
LEMMA FailedOther ==
  ASSUME StrayOK, StraySound, CountersOK, SoleSent, IsFiniteSet(stray),
         NEW c, c.cmd \notin PuttingCommands, Fails(c), UNCHANGED crashes,
         NEW from, NEW e, NEW to, NEW f, from \notin StrayKind, to \notin StrayKind
  PROVE  SoleSent' /\ IsFiniteSet(stray') /\ Spare' >= Spare /\ StrayParts(from, e, to, f)
<1> DEFINE new == [number |-> faults, command |-> c]
<1>1. IsFiniteSet(stray') /\ Spare \in Int
  BY FailsSpare, SpareTypes
<1>2. CASE stray' = stray /\ Spare' = Spare + 1
  BY <1>1, <1>2, StillStray
<1>3. CASE stray' = stray \cup {new} /\ Spare' = Spare
  <2>1. new.command = c
    OBVIOUS
  <2> HIDE DEF new
  <2>2. SoleSent'
    BY <1>3, <2>1 DEF SoleSent
  <2>3. \A g : /\ Sent({"LPUSH ready", "ZADD delayed"}, g)' <=> Sent({"LPUSH ready", "ZADD delayed"}, g)
               /\ Sent({"LPUSH dead"}, g)' <=> Sent({"LPUSH dead"}, g)
    BY <1>3, <2>1 DEF Sent, PuttingCommands
  <2>4. StrayParts(from, e, to, f)
    BY <2>3, HeldKinds, HeldKindsPrimed DEF StrayParts, Part, StrayKind
  <2>5. QED BY <1>1, <1>3, <2>2, <2>4
<1>4. QED BY <1>2, <1>3, FailsSpare

\* A late command that is executed leaves the fault that delayed it to be charged.
LEMMA LateSpare ==
  ASSUME StrayOK, CountersOK, IsFiniteSet(stray), UNCHANGED <<faults, crashes>>,
         NEW s \in stray, stray' = stray \ {s}
  PROVE  Spare' = Spare + 1
<1>1. Cardinality(stray') = Cardinality(stray) - 1
  BY FS_RemoveElement
<1>2. faults \in Nat /\ crashes \in Nat /\ Cardinality(stray) \in Nat
  BY SpareTypes
<1>3. QED BY <1>1, <1>2 DEF Spare

\* A late command is executed: if it puts an entry somewhere, the entry is no longer late.
LEMMA LateParts ==
  ASSUME StrayOK, CountersOK, SoleSent, IsFiniteSet(stray), NEW s \in stray,
         stray' = stray \ {s}, UNCHANGED <<faults, crashes>>,
         NEW from, NEW e, NEW to, NEW f, to \notin StrayKind,
         \/ /\ s.command.cmd \in {"LPUSH ready", "ZADD delayed"}
            /\ from = "late" /\ e = s.command.entry
         \/ s.command.cmd = "LPUSH dead" /\ from = "buried" /\ e = s.command.entry
         \/ s.command.cmd \notin PuttingCommands /\ from \notin StrayKind
  PROVE  SoleSent' /\ IsFiniteSet(stray') /\ Spare' = Spare + 1 /\ StrayParts(from, e, to, f)
<1>1. IsFiniteSet(stray') /\ Cardinality(stray') = Cardinality(stray) - 1
  BY FS_RemoveElement
<1>2. Spare' = Spare + 1
  BY LateSpare
<1>3. SoleSent'
  BY DEF SoleSent
<1>4. Part("late", from, e, to, f)
  <2>1. ASSUME NEW g \in Entry
        PROVE  Sent({"LPUSH ready", "ZADD delayed"}, g)' <=>
                   /\ Sent({"LPUSH ready", "ZADD delayed"}, g)
                   /\ ~(from = "late" /\ g = e)
    BY DEF Sent, SoleSent, PuttingCommands, StrayKind
  <2>2. QED BY <2>1, HeldKinds, HeldKindsPrimed DEF Part, StrayKind
<1>5. Part("buried", from, e, to, f)
  <2>1. ASSUME NEW g \in Entry
        PROVE  Sent({"LPUSH dead"}, g)' <=>
                   /\ Sent({"LPUSH dead"}, g)
                   /\ ~(from = "buried" /\ g = e)
    BY DEF Sent, SoleSent, PuttingCommands, StrayKind
  <2>2. QED BY <2>1, HeldKinds, HeldKindsPrimed DEF Part, StrayKind
<1>6. QED BY <1>1, <1>2, <1>3, <1>4, <1>5 DEF StrayParts

\* What workers and late commands hold is held by a kind of place.
LEMMA HoldersHold ==
  ASSUME TypeInv
  PROVE  /\ \A v \in Workers : workers[v].pc \in HoldingPc =>
               /\ workers[v].entry \in Entry
               /\ \/ workers[v].pc = "push" /\ Held("moving", workers[v].entry)
                  \/ workers[v].pc # "push" /\ Held("running", workers[v].entry)
         /\ \A s \in stray : s.command.cmd \in PuttingCommands =>
               /\ s.command.entry \in Entry
               /\ \/ s.command.cmd # "LPUSH dead" /\ Held("late", s.command.entry)
                  \/ s.command.cmd = "LPUSH dead" /\ Held("buried", s.command.entry)
<1>1. ASSUME NEW v \in Workers, workers[v].pc \in HoldingPc
      PROVE  /\ workers[v].entry \in Entry
             /\ \/ workers[v].pc = "push" /\ Held("moving", workers[v].entry)
                \/ workers[v].pc # "push" /\ Held("running", workers[v].entry)
  <2>1. workers[v].entry \in Entry
    BY <1>1, TypeInvParts DEF WorkersOK, WorkerOK, Worker, HoldingPc
  <2>2. QED BY <1>1, <2>1, HeldKinds DEF InHands, HoldingPc
<1>2. ASSUME NEW s \in stray, s.command.cmd \in PuttingCommands
      PROVE  /\ s.command.entry \in Entry
             /\ \/ s.command.cmd # "LPUSH dead" /\ Held("late", s.command.entry)
                \/ s.command.cmd = "LPUSH dead" /\ Held("buried", s.command.entry)
  <2>1. s.command.entry \in Entry
    BY <1>2 DEF TypeInv, StraySound, PuttingCommands, EntryCommands
  <2>2. QED BY <1>2, <2>1, HeldKinds DEF Sent, PuttingCommands
<1>3. QED BY <1>1, <1>2

\* A job that is absent is nowhere.
LEMMA AbsentNowhere ==
  ASSUME TypeInv, NEW j, Absent(j)
  PROVE  /\ \A g \in Entry : Listed(g) => g.job # j
         /\ \A v \in Workers : workers[v].pc \in HoldingPc => workers[v].entry.job # j
         /\ \A s \in stray : s.command.cmd \in PuttingCommands => s.command.entry.job # j
  BY HoldersHold, HeldKinds DEF Absent, Kind, WaitingKind, DeadKind

\* A job that is in one kind of place is in no other.
LEMMA NowhereElse ==
  ASSUME TypeInv, OneKind, NEW k \in Kind, NEW e \in Entry, Held(k, e)
  PROVE  /\ k # "ready" => \A g \in Entry : Listed(g) => g.job # e.job
         /\ k \notin HandKind =>
               \A v \in Workers : workers[v].pc \in HoldingPc => workers[v].entry.job # e.job
         /\ k \notin StrayKind =>
               \A s \in stray : s.command.cmd \in PuttingCommands => s.command.entry.job # e.job
<1>1. \A l \in Kind : \A g \in Entry : Held(l, g) /\ l # k => g.job # e.job
  BY DEF OneKind
<1>2. {"ready", "moving", "running", "late", "buried"} \subseteq Kind
  BY DEF Kind, WaitingKind, DeadKind
<1>3. k # "ready" => \A g \in Entry : Listed(g) => g.job # e.job
  BY <1>1, <1>2, HeldKinds
<1>4. k \notin HandKind =>
         \A v \in Workers : workers[v].pc \in HoldingPc => workers[v].entry.job # e.job
  BY <1>1, <1>2, HoldersHold DEF HandKind
<1>5. k \notin StrayKind =>
         \A s \in stray : s.command.cmd \in PuttingCommands => s.command.entry.job # e.job
  BY <1>1, <1>2, HoldersHold DEF StrayKind
<1>6. QED BY <1>3, <1>4, <1>5

\* A worker that holds a job is the only one.
LEMMA OnlyHolder ==
  ASSUME SoleInHands, NEW w \in Workers, workers[w].pc \in HoldingPc
  PROVE  \A v \in Workers \ {w} :
            workers[v].pc \in HoldingPc => workers[v].entry.job # workers[w].entry.job
  BY DEF SoleInHands

-----------------------------------------------------------------------------
(* Steps of the queues as moves of an entry.                               *)

NoCharge == Spare' >= Spare
Charged == Spare' >= Spare + 1

\* Nothing moves.
Stays ==
    /\ \A k \in Kind : \A g \in Entry : Held(k, g)' <=> Held(k, g)
    /\ UNCHANGED history /\ NoCharge

\* Job j is accepted: its first entry is ready or late, or lost at once.
Accepts(j) ==
    /\ j \notin enqueued /\ enqueued' = enqueued \cup {j} /\ UNCHANGED <<runs, finished>>
    /\ \E to \in {"ready", "late", "nowhere"} :
          /\ Moved("nowhere", NoEntry, to, [job |-> j, attempt |-> 0])
          /\ NoCharge /\ (to = "nowhere" => Charged)

\* Entry e goes from one waiting place to another, or a dead letter arrives.
Passes(e) ==
    /\ \E from, to \in Kind :
          /\ \/ from \in WaitingKind /\ to \in WaitingKind
             \/ from = "buried" /\ to = "dead"
          /\ Held(from, e) /\ Moved(from, e, to, e)
    /\ UNCHANGED history /\ NoCharge

\* Entry e is lost.
Loses(e) ==
    /\ \E from \in WaitingKind \cup {"running"} : Held(from, e) /\ Moved(from, e, "nowhere", e)
    /\ UNCHANGED history /\ Charged

\* A worker takes entry e and calls the handler.
Takes(e) ==
    /\ Held("ready", e) /\ Moved("ready", e, "running", e)
    /\ runs' = [runs EXCEPT ![e.job] = @ + 1] /\ UNCHANGED <<enqueued, finished>> /\ NoCharge

\* The handler returns.
Finishes(e) ==
    /\ Held("running", e) /\ Moved("running", e, "nowhere", e)
    /\ finished' = finished \cup {e.job} /\ UNCHANGED <<enqueued, runs>> /\ NoCharge

\* The handler has thrown: the next attempt f waits, or is dead.
Reschedules(e, f) ==
    /\ Held("running", e)
    /\ f.job = e.job /\ f.attempt = e.attempt + 1
    /\ \E to \in {"delayed", "late", "dead", "buried"} :
          /\ Moved("running", e, to, f)
          /\ to \in DeadKind <=> f.attempt = MaxAttempts
    /\ UNCHANGED history /\ NoCharge

TokenStep ==
    \/ Stays
    \/ \E j \in Jobs : Accepts(j)
    \/ \E e \in Entry : Passes(e) \/ Loses(e) \/ Takes(e) \/ Finishes(e)
    \/ \E e, f \in Entry : Reschedules(e, f)

\* What a step that moves entries keeps, besides the types.
Kept == Sole' /\ IsFiniteSet(stray')

\* A worker that goes on to a job or a queue, hangs or dies holds no entry any more.
LEMMA LetsGo ==
  ASSUME WorkersOK, NEW w \in Workers
  PROVE  /\ LeaveQueue(w) => \E q : Set(w, q) /\ q.pc \notin HoldingPc
         /\ NextJob(w) => \E q : Set(w, q) /\ q.pc \notin HoldingPc
         /\ \A left : Released(w, left) => \E q : Set(w, q) /\ q.pc \notin HoldingPc
         /\ Die(w) => \E q : Set(w, q) /\ q.pc \notin HoldingPc
         /\ Set(w, [workers[w] EXCEPT !.pc = "hung"]) => \E q : Set(w, q) /\ q.pc \notin HoldingPc
<1>1. workers[w] \in Worker
  BY DEF WorkersOK
<1>2. LeaveQueue(w) => \E q : Set(w, q) /\ q.pc \notin HoldingPc
  <2>1. /\ [IdleWorker EXCEPT !.pc = "range", !.turn = workers[w].turn + 1].pc = "range"
        /\ IdleWorker.pc = "idle"
    BY DEF IdleWorker
  <2>2. QED BY <2>1 DEF LeaveQueue, HoldingPc
<1>3. NextJob(w) => \E q : Set(w, q) /\ q.pc \notin HoldingPc
  <2>1. [workers[w] EXCEPT !.pc = "range", !.processed = @ + 1, !.items = {}, !.entry = NoEntry].pc = "range"
    BY <1>1 DEF Worker
  <2>2. QED BY <1>2, <2>1 DEF NextJob, HoldingPc
<1>4. ASSUME NEW left, Released(w, left) PROVE \E q : Set(w, q) /\ q.pc \notin HoldingPc
  <2>1. [workers[w] EXCEPT !.pc = IF left = {} THEN "pop" ELSE "zrem",
                           !.items = left, !.entry = NoEntry].pc \in {"pop", "zrem"}
    BY <1>1 DEF Worker
  <2>2. QED BY <1>4, <2>1 DEF Released, HoldingPc
<1>5. Die(w) => \E q : Set(w, q) /\ q.pc \notin HoldingPc
  BY DEF Die, IdleWorker, HoldingPc
<1>6. Set(w, [workers[w] EXCEPT !.pc = "hung"]) => \E q : Set(w, q) /\ q.pc \notin HoldingPc
  <2>1. [workers[w] EXCEPT !.pc = "hung"].pc = "hung"
    BY <1>1 DEF Worker
  <2>2. QED BY <2>1 DEF HoldingPc
<1>7. QED BY <1>2, <1>3, <1>4, <1>5, <1>6

\* ... and what it held leaves its hands.
LEMMA LetsGoParts ==
  ASSUME WorkersOK, SoleInHands, NEW w \in Workers,
         \E q : Set(w, q) /\ q.pc \notin HoldingPc,
         NEW from, NEW e, NEW to, NEW f,
         workers[w].pc = "push" <=> from = "moving",
         workers[w].pc \in {"handle", "reschedule"} <=> from = "running",
         from \in HandKind => e = workers[w].entry,
         to \notin HandKind
  PROVE  HandParts(from, e, to, f) /\ SoleInHands'
<1>1. PICK q : Set(w, q) /\ q.pc \notin HoldingPc
  OBVIOUS
<1>2. ~(q.pc = "push") /\ q.pc \notin {"handle", "reschedule"} /\ ~(to = "moving") /\ ~(to = "running")
  BY <1>1 DEF HoldingPc, HandKind
<1>3. QED BY <1>1, <1>2, SetParts

\* A worker that held nothing moves or handles entry f.
LEMMA PicksUpParts ==
  ASSUME WorkersOK, SoleInHands, NEW w \in Workers, workers[w].pc \notin HoldingPc,
         NEW q, Set(w, q), NEW from, NEW e, NEW to, NEW f, from \notin HandKind, f = q.entry,
         \/ q.pc = "push" /\ to = "moving"
         \/ q.pc = "handle" /\ to = "running",
         \A v \in Workers : workers[v].pc \in HoldingPc => workers[v].entry.job # f.job
  PROVE  HandParts(from, e, to, f) /\ SoleInHands'
<1>1. /\ workers[w].pc = "push" <=> from = "moving"
      /\ workers[w].pc \in {"handle", "reschedule"} <=> from = "running"
  BY DEF HandKind, HoldingPc
<1>2. /\ q.pc = "push" <=> to = "moving"
      /\ q.pc \in {"handle", "reschedule"} <=> to = "running"
  OBVIOUS
<1>3. \A v \in Workers \ {w} : workers[v].pc \in HoldingPc => workers[v].entry.job # f.job
  OBVIOUS
<1>4. QED BY <1>1, <1>2, <1>3, SetParts

\* A worker that handles an entry keeps it.
LEMMA KeepsParts ==
  ASSUME WorkersOK, SoleInHands, NEW w \in Workers, workers[w].pc = "handle",
         NEW q, Set(w, q), q.pc = "reschedule", q.entry = workers[w].entry
  PROVE  HandParts("running", workers[w].entry, "running", workers[w].entry) /\ SoleInHands'
<1>1. ASSUME NEW k, k = "running"
      PROVE  HandParts(k, workers[w].entry, k, workers[w].entry) /\ SoleInHands'
  <2>1. \A v \in Workers \ {w} : workers[v].pc \in HoldingPc => workers[v].entry.job # q.entry.job
    BY OnlyHolder DEF HoldingPc
  <2>2. /\ workers[w].pc = "push" <=> k = "moving"
        /\ workers[w].pc \in {"handle", "reschedule"} <=> k = "running"
        /\ q.pc = "push" <=> k = "moving"
        /\ q.pc \in {"handle", "reschedule"} <=> k = "running"
    BY <1>1
  <2>3. QED BY <2>1, <2>2, SetParts
<1>2. QED BY <1>1

\* Nothing moves if the parts are still.
LEMMA StaysParts ==
  ASSUME StoreParts("nowhere", NoEntry, "nowhere", NoEntry),
         HandParts("nowhere", NoEntry, "nowhere", NoEntry),
         StrayParts("nowhere", NoEntry, "nowhere", NoEntry),
         UNCHANGED history, NoCharge
  PROVE  TokenStep
<1>1. Moved("nowhere", NoEntry, "nowhere", NoEntry)
  BY MovedParts
<1>2. \A k \in Kind : k # "nowhere"
  BY DEF Kind, WaitingKind, DeadKind
<1>3. \A k \in Kind : \A g \in Entry : Held(k, g)' <=> Held(k, g)
  BY <1>1, <1>2 DEF Moved, Part
<1>4. QED BY <1>3 DEF TokenStep, Stays

\* Where no entry is.
LEMMA NowhereKinds ==
  "nowhere" \notin StoreKind /\ "nowhere" \notin HandKind /\ "nowhere" \notin StrayKind
  BY DEF StoreKind, HandKind, StrayKind

\* A counter that nothing is charged to.
LEMMA SpareStill ==
  ASSUME TypeInv, IsFiniteSet(stray), UNCHANGED <<stray, faults, crashes>>
  PROVE  NoCharge
<1>1. Spare \in Int
  BY SpareTypes, TypeInvParts
<1>2. Spare' = Spare
  BY DEF Spare
<1>3. QED BY <1>1, <1>2 DEF NoCharge

\* The parts of QueueInv.
LEMMA QueueInvParts ==
  ASSUME QueueInv
  PROVE  /\ TypeInv /\ StoreOK /\ StrayOK /\ StraySound /\ WorkersOK /\ HistoryOK /\ CountersOK
         /\ SoleInList /\ SoleInHands /\ SoleSent
         /\ OneKind /\ OnlyOpen /\ Counted /\ RunsBounded
         /\ IsFiniteSet(enqueued) /\ IsFiniteSet(stray) /\ Spare \in Int
  BY TypeInvParts, SpareTypes DEF QueueInv, Sole, Board, Finite

\* The parts that a step keeps.
LEMMA KeptParts ==
  ASSUME SoleInList', SoleInHands', SoleSent', IsFiniteSet(stray')
  PROVE  Kept
  BY DEF Kept, Sole

\* enqueue(): the first entry of the job is ready, late or lost.
LEMMA EnqueueMoves ==
  ASSUME QueueInv, NEW j \in Jobs, Enqueue(j)
  PROVE  TokenStep /\ Kept
<1> USE QueueInvParts
<1> DEFINE e == [job |-> j, attempt |-> 0]
           c == OnEntry("LPUSH ready", e)
<1>1. e \in Entry /\ e.job = j /\ c.cmd = "LPUSH ready" /\ c.entry = e
  <2>1. e \in Entry /\ e.job = j
    BY JobQueueAssumption DEF Entry
  <2>2. QED BY <2>1 DEF OnEntry
<1>2. /\ j \notin enqueued /\ enqueued' = enqueued \cup {j} /\ UNCHANGED <<workers, runs, finished, crashes>>
      /\ (Execute(c) /\ UNCHANGED <<stray, faults>>) \/ Fails(c)
  BY DEF Enqueue
<1> HIDE DEF e, c
<1>3. Absent(j)
  BY <1>2 DEF OnlyOpen, Absent
<1>4. /\ \A g \in Entry : Listed(g) => g.job # e.job
      /\ \A s \in stray : s.command.cmd \in PuttingCommands => s.command.entry.job # e.job
  BY <1>1, <1>3, AbsentNowhere
<1>5. \A to \in {"ready", "late", "nowhere"} :
          HandParts("nowhere", NoEntry, to, e) /\ SoleInHands'
  BY <1>2, StillHands, NowhereKinds DEF HandKind
<1>6. CASE Execute(c) /\ UNCHANGED <<stray, faults>>
  <2>1. StoreParts("nowhere", NoEntry, "ready", e) /\ SoleInList'
    BY <1>1, <1>4, <1>6, PutParts, NowhereKinds
  <2>2. StrayParts("nowhere", NoEntry, "ready", e) /\ SoleSent' /\ IsFiniteSet(stray')
    BY <1>6, StillStray, NowhereKinds DEF StrayKind
  <2>3. NoCharge
    BY <1>2, <1>6, SpareStill
  <2>4. Moved("nowhere", NoEntry, "ready", e)
    BY <1>5, <2>1, <2>2, MovedParts
  <2>5. Accepts(j)
    BY <1>2, <2>3, <2>4 DEF Accepts, e
  <2>6. QED BY <1>5, <2>1, <2>2, <2>5, KeptParts DEF TokenStep
<1>7. CASE Fails(c)
  <2>1. \A to \in {"late", "nowhere"} : StoreParts("nowhere", NoEntry, to, e) /\ SoleInList'
    BY <1>7, StillStore, NowhereKinds DEF StoreKind, Fails
  <2>2. /\ SoleSent' /\ IsFiniteSet(stray')
        /\ \/ Spare' = Spare + 1 /\ StrayParts("nowhere", NoEntry, "nowhere", e)
           \/ Spare' = Spare /\ StrayParts("nowhere", NoEntry, "late", e)
    BY <1>1, <1>2, <1>4, <1>7, FailedPut, NowhereKinds
  <2>3. CASE Spare' = Spare + 1 /\ StrayParts("nowhere", NoEntry, "nowhere", e)
    <3>1. Moved("nowhere", NoEntry, "nowhere", e)
      BY <1>5, <2>1, <2>3, MovedParts
    <3>2. NoCharge /\ Charged
      BY <2>3 DEF NoCharge, Charged
    <3>3. Accepts(j)
      BY <1>2, <3>1, <3>2 DEF Accepts, e
    <3>4. QED BY <1>5, <2>1, <2>2, <3>3, KeptParts DEF TokenStep
  <2>4. CASE Spare' = Spare /\ StrayParts("nowhere", NoEntry, "late", e)
    <3>1. Moved("nowhere", NoEntry, "late", e)
      BY <1>5, <2>1, <2>4, MovedParts
    <3>2. NoCharge
      BY <2>4 DEF NoCharge
    <3>3. Accepts(j)
      BY <1>2, <3>1, <3>2 DEF Accepts, e
    <3>4. QED BY <1>5, <2>1, <2>2, <3>3, KeptParts DEF TokenStep
  <2>5. QED BY <2>2, <2>3, <2>4
<1>8. QED BY <1>2, <1>6, <1>7

\* A command that moves no entry fails: nothing moves.
LEMMA OtherFails ==
  ASSUME QueueInv, NEW w \in Workers, workers[w].pc \notin HoldingPc,
         NEW c, c.cmd \notin PuttingCommands, Await(w, c, LeaveQueue(w)),
         UNCHANGED <<history, crashes>>
  PROVE  TokenStep /\ Kept
<1> USE QueueInvParts
<1>1. Fails(c) /\ \E q : Set(w, q) /\ q.pc \notin HoldingPc
  BY LetsGo DEF Await
<1>2. HandParts("nowhere", NoEntry, "nowhere", NoEntry) /\ SoleInHands'
  BY <1>1, LetsGoParts, NowhereKinds DEF HoldingPc, HandKind
<1>3. StoreParts("nowhere", NoEntry, "nowhere", NoEntry) /\ SoleInList'
  BY <1>1, StillStore, NowhereKinds DEF Fails
<1>4. /\ SoleSent' /\ IsFiniteSet(stray') /\ Spare' >= Spare
      /\ StrayParts("nowhere", NoEntry, "nowhere", NoEntry)
  BY <1>1, FailedOther, NowhereKinds
<1>5. QED BY <1>2, <1>3, <1>4, StaysParts, KeptParts DEF NoCharge

\* A worker goes on, and holds no entry before and after: nothing moves.
LEMMA GoesOn ==
  ASSUME QueueInv, NEW w \in Workers, workers[w].pc \notin HoldingPc,
         \E q : Set(w, q) /\ q.pc \notin HoldingPc,
         UNCHANGED <<redis, stray, history, faults, crashes>>
  PROVE  TokenStep /\ Kept
<1> USE QueueInvParts
<1>1. HandParts("nowhere", NoEntry, "nowhere", NoEntry) /\ SoleInHands'
  BY LetsGoParts, NowhereKinds DEF HoldingPc, HandKind
<1>2. StoreParts("nowhere", NoEntry, "nowhere", NoEntry) /\ SoleInList'
  BY StillStore, NowhereKinds
<1>3. StrayParts("nowhere", NoEntry, "nowhere", NoEntry) /\ SoleSent' /\ IsFiniteSet(stray')
  BY StillStray, NowhereKinds
<1>4. NoCharge
  BY SpareStill
<1>5. QED BY <1>1, <1>2, <1>3, <1>4, StaysParts, KeptParts

\* The timer fires, or the process starts again.
LEMMA TickMoves ==
  ASSUME QueueInv, NEW w \in Workers, Tick(w) \/ Restart(w)
  PROVE  TokenStep /\ Kept
<1>1. workers[w].pc \notin HoldingPc /\ Set(w, [IdleWorker EXCEPT !.pc = "range"])
      /\ UNCHANGED <<redis, stray, history, faults, crashes>>
  BY DEF Tick, Restart, HoldingPc
<1>2. [IdleWorker EXCEPT !.pc = "range"].pc \notin HoldingPc
  BY DEF IdleWorker, HoldingPc
<1>3. QED BY <1>1, <1>2, GoesOn

\* releaseDueJobs() reads the due entries.
LEMMA FindDueMoves ==
  ASSUME QueueInv, NEW w \in Workers, FindDue(w)
  PROVE  TokenStep /\ Kept
<1> DEFINE c == OnQueue("ZRANGEBYSCORE", Queue(w))
<1>1. workers[w].pc \notin HoldingPc /\ c.cmd \notin PuttingCommands /\ UNCHANGED <<history, crashes>>
  BY DEF FindDue, HoldingPc, OnQueue, PuttingCommands
<1>2. CASE Await(w, c, LeaveQueue(w))
  BY <1>1, <1>2, OtherFails
<1>3. ASSUME NEW items \in DueItems(Queue(w)), UNCHANGED <<redis, stray, faults>>,
             Set(w, [workers[w] EXCEPT !.pc = IF items = {} THEN "pop" ELSE "zrem",
                                       !.items = items])
      PROVE  TokenStep /\ Kept
  <2>1. [workers[w] EXCEPT !.pc = IF items = {} THEN "pop" ELSE "zrem", !.items = items].pc
            \in {"pop", "zrem"}
    BY QueueInvParts DEF WorkersOK, Worker
  <2>2. [workers[w] EXCEPT !.pc = IF items = {} THEN "pop" ELSE "zrem", !.items = items].pc
            \notin HoldingPc
    BY <2>1 DEF HoldingPc
  <2>3. QED BY <1>1, <1>3, <2>2, GoesOn
<1>4. QED BY <1>2, <1>3 DEF FindDue

\* The worker that removes a due entry moves it; another one finds it gone.
LEMMA ZremMoves ==
  ASSUME QueueInv, NEW w \in Workers, Zrem(w)
  PROVE  TokenStep /\ Kept
<1> USE QueueInvParts
<1>1. workers[w] \in Worker /\ workers[w].items \subseteq Entry /\ workers[w].pc \notin HoldingPc
  BY DEF Zrem, WorkersOK, WorkerOK, Worker, HoldingPc
<1>2. UNCHANGED <<history, crashes>>
  BY DEF Zrem
<1>3. PICK e \in workers[w].items :
          LET c == OnEntry("ZREM delayed", e)
              left == workers[w].items \ {e}
          IN  \/ /\ Execute(c)
                 /\ IF IsRemoved(e)
                    THEN Set(w, [workers[w] EXCEPT !.pc = "push", !.items = left,
                                                   !.entry = e])
                    ELSE Released(w, left)
                 /\ UNCHANGED <<stray, faults>>
              \/ Await(w, c, LeaveQueue(w))
  BY DEF Zrem
<1> DEFINE c == OnEntry("ZREM delayed", e)
           left == workers[w].items \ {e}
           q == [workers[w] EXCEPT !.pc = "push", !.items = left, !.entry = e]
<1>4. e \in Entry /\ c.cmd = "ZREM delayed" /\ c.entry = e /\ c.cmd \notin PuttingCommands
  BY <1>1 DEF OnEntry, PuttingCommands
<1>5. CASE Await(w, c, LeaveQueue(w))
  BY <1>1, <1>2, <1>4, <1>5, OtherFails
<1>6. CASE Execute(c) /\ UNCHANGED <<stray, faults>> /\ e \in delayed /\ Set(w, q)
  <2>1. Held("delayed", e) /\ "delayed" \in Kind
    BY <1>4, <1>6, HeldKinds DEF Kind, WaitingKind
  <2>2. \A v \in Workers : workers[v].pc \in HoldingPc => workers[v].entry.job # e.job
    BY <1>4, <2>1, NowhereElse DEF HandKind
  <2>3. q.pc = "push" /\ q.entry = e
    BY <1>1 DEF Worker
  <2>4. StoreParts("delayed", e, "moving", e) /\ SoleInList'
    BY <1>4, <1>6, ZremParts DEF StoreKind
  <2>5. HandParts("delayed", e, "moving", e) /\ SoleInHands'
    <3>1. "delayed" \notin HandKind
      BY DEF HandKind
    <3>2. Set(w, q) /\ workers[w].pc \notin HoldingPc
      BY <1>1, <1>6
    <3> HIDE DEF q
    <3>3. e = q.entry /\ q.pc = "push"
      BY <2>3
    <3>4. QED BY <2>2, <3>1, <3>2, <3>3, PicksUpParts
  <2>6. StrayParts("delayed", e, "moving", e) /\ SoleSent' /\ IsFiniteSet(stray')
    <3>1. "delayed" \notin StrayKind /\ "moving" \notin StrayKind
      BY DEF StrayKind
    <3>2. QED BY <1>6, <3>1, StillStray
  <2>7. Moved("delayed", e, "moving", e)
    BY <2>4, <2>5, <2>6, MovedParts
  <2>8. NoCharge
    BY <1>2, <1>6, SpareStill
  <2>9. Passes(e)
    BY <1>2, <2>1, <2>7, <2>8 DEF Passes, Kind, WaitingKind
  <2>10. QED BY <1>4, <2>4, <2>5, <2>6, <2>9, KeptParts DEF TokenStep
<1>7. CASE Execute(c) /\ UNCHANGED <<stray, faults>> /\ e \notin delayed /\ Released(w, left)
  <2>1. StoreParts("nowhere", NoEntry, "nowhere", NoEntry) /\ SoleInList'
    <3>1. UNCHANGED <<ready, dead>> /\ delayed' = delayed
      BY <1>4, <1>7 DEF Execute
    <3>2. QED BY <3>1, StillParts, NowhereKinds DEF StoreParts, StoreKind, SoleInList
  <2>2. HandParts("nowhere", NoEntry, "nowhere", NoEntry) /\ SoleInHands'
    <3>1. \E p : Set(w, p) /\ p.pc \notin HoldingPc
      BY <1>7, LetsGo
    <3>2. QED BY <1>1, <3>1, LetsGoParts, NowhereKinds DEF HoldingPc, HandKind
  <2>3. StrayParts("nowhere", NoEntry, "nowhere", NoEntry) /\ SoleSent' /\ IsFiniteSet(stray')
    BY <1>7, StillStray, NowhereKinds
  <2>4. NoCharge
    BY <1>2, <1>7, SpareStill
  <2>5. QED BY <1>2, <2>1, <2>2, <2>3, <2>4, StaysParts, KeptParts
<1>8. QED BY <1>3, <1>5, <1>6, <1>7 DEF IsRemoved

\* A fault charges itself, or nothing.
LEMMA Charges ==
  ASSUME Spare \in Int
  PROVE  /\ Spare' = Spare + 1 => Charged /\ NoCharge
         /\ Spare' = Spare => NoCharge
  BY DEF Charged, NoCharge

\* Where the entry of worker w is, where command c puts one, and where it is if c is late.
HeldBy(w) == IF workers[w].pc = "push" THEN "moving" ELSE "running"
TargetOf(c) == IF c.cmd = "LPUSH ready" THEN "ready"
               ELSE IF c.cmd = "ZADD delayed" THEN "delayed" ELSE "dead"
LateOf(c) == IF c.cmd = "LPUSH dead" THEN "buried" ELSE "late"

\* A command that puts an entry a worker holds somewhere: it gets there, or is late, or lost.
LEMMA PutMoves ==
  ASSUME QueueInv, NEW w \in Workers, NEW e, e = workers[w].entry,
         workers[w].pc \in HoldingPc,
         NEW c, NEW f \in Entry, c.entry = f, f.job = e.job, c.cmd \in PuttingCommands,
         \E q : Set(w, q) /\ q.pc \notin HoldingPc,
         UNCHANGED <<history, crashes>>,
         (Execute(c) /\ UNCHANGED <<stray, faults>>) \/ Fails(c)
  PROVE  /\ e \in Entry /\ Held(HeldBy(w), e) /\ Kept
         /\ \/ Moved(HeldBy(w), e, TargetOf(c), f) /\ NoCharge
            \/ Moved(HeldBy(w), e, LateOf(c), f) /\ NoCharge
            \/ Moved(HeldBy(w), e, "nowhere", f) /\ Charged
<1> USE QueueInvParts
<1> DEFINE held == HeldBy(w)
           to == TargetOf(c)
           late == LateOf(c)
<1>8. /\ workers[w].pc = "push" <=> held = "moving"
      /\ workers[w].pc \in {"handle", "reschedule"} <=> held = "running"
      /\ held \in HandKind
  BY DEF HeldBy, HoldingPc, HandKind
<1>9. /\ \/ c.cmd = "LPUSH ready" /\ to = "ready"
         \/ c.cmd = "ZADD delayed" /\ to = "delayed"
         \/ c.cmd = "LPUSH dead" /\ to = "dead"
      /\ \/ c.cmd \in {"LPUSH ready", "ZADD delayed"} /\ late = "late"
         \/ c.cmd = "LPUSH dead" /\ late = "buried"
      /\ to \in StoreKind /\ late \in StrayKind
  BY DEF TargetOf, LateOf, PuttingCommands, StoreKind, StrayKind
<1> HIDE DEF held, to, late
<1>1. e \in Entry /\ Held(held, e) /\ held \in Kind
  BY <1>8, HoldersHold DEF HoldingPc, HandKind, Kind, WaitingKind
<1>2. held \notin StoreKind /\ held \notin StrayKind /\ held # "ready"
  BY <1>8 DEF HandKind, StoreKind, StrayKind
<1>3. /\ \A g \in Entry : Listed(g) => g.job # f.job
      /\ \A s \in stray : s.command.cmd \in PuttingCommands => s.command.entry.job # f.job
  BY <1>1, <1>2, NowhereElse
<1>4. \A k \in {to, late, "nowhere"} : HandParts(held, e, k, f) /\ SoleInHands'
  <2>1. \A k \in {to, late, "nowhere"} : k \notin HandKind
    BY <1>9 DEF HandKind, StoreKind, StrayKind
  <2>2. QED BY <1>8, <2>1, LetsGoParts
<1>10. SoleInHands'
  BY <1>4
<1>5. CASE Execute(c) /\ UNCHANGED <<stray, faults>>
  <2>1. StoreParts(held, e, to, f) /\ SoleInList'
    BY <1>2, <1>3, <1>5, <1>9, PutParts
  <2>2. StrayParts(held, e, to, f) /\ SoleSent' /\ IsFiniteSet(stray')
    <3>1. to \notin StrayKind
      BY <1>9 DEF StoreKind, StrayKind
    <3>2. QED BY <1>2, <1>5, <3>1, StillStray
  <2>3. NoCharge
    BY <1>5, SpareStill
  <2>4. HandParts(held, e, to, f)
    BY <1>4
  <2>5. Moved(held, e, to, f)
    BY <2>1, <2>2, <2>4, MovedParts
  <2>6. Kept
    BY <1>10, <2>1, <2>2, KeptParts
  <2>7. QED BY <1>1, <2>3, <2>5, <2>6 DEF held, to, late
<1>6. CASE Fails(c)
  <2>1. \A k \in {late, "nowhere"} : StoreParts(held, e, k, f) /\ SoleInList'
    <3>1. \A k \in {late, "nowhere"} : k \notin StoreKind
      BY <1>9 DEF StoreKind, StrayKind
    <3>2. UNCHANGED redis
      BY <1>6 DEF Fails
    <3>3. QED BY <1>2, <3>1, <3>2, StillStore
  <2>2. /\ SoleSent' /\ IsFiniteSet(stray')
        /\ \/ Spare' = Spare + 1 /\ StrayParts(held, e, "nowhere", f)
           \/ Spare' = Spare /\ StrayParts(held, e, late, f)
    BY <1>2, <1>3, <1>6, <1>9, FailedPut
  <2>3. Kept
    BY <1>10, <2>1, <2>2, KeptParts
  <2>4. CASE Spare' = Spare + 1 /\ StrayParts(held, e, "nowhere", f)
    <3>1. HandParts(held, e, "nowhere", f) /\ StoreParts(held, e, "nowhere", f)
      BY <1>4, <2>1
    <3>2. Moved(held, e, "nowhere", f)
      BY <2>4, <3>1, MovedParts
    <3>3. Charged
      BY <2>4, Charges
    <3>4. QED BY <1>1, <2>3, <3>2, <3>3 DEF held, to, late
  <2>5. CASE Spare' = Spare /\ StrayParts(held, e, late, f)
    <3>1. HandParts(held, e, late, f) /\ StoreParts(held, e, late, f)
      BY <1>4, <2>1
    <3>2. Moved(held, e, late, f)
      BY <2>5, <3>1, MovedParts
    <3>3. NoCharge
      BY <2>5, Charges
    <3>4. QED BY <1>1, <2>3, <3>2, <3>3 DEF held, to, late
  <2>6. QED BY <2>2, <2>4, <2>5
<1>7. QED BY <1>5, <1>6 DEF held, to, late

\* The worker puts the entry it moves on the ready list.
LEMMA PushMoves ==
  ASSUME QueueInv, NEW w \in Workers, Push(w)
  PROVE  TokenStep /\ Kept
<1> DEFINE e == workers[w].entry
           c == OnEntry("LPUSH ready", e)
<1>1. workers[w].pc = "push" /\ UNCHANGED <<history, crashes>>
  BY DEF Push
<1>2. e \in Entry /\ Held("moving", e)
  BY <1>1, QueueInvParts, HoldersHold DEF HoldingPc
<1>3. c.entry = e /\ c.cmd = "LPUSH ready"
  BY DEF OnEntry
<1>4. /\ \E q : Set(w, q) /\ q.pc \notin HoldingPc
      /\ (Execute(c) /\ UNCHANGED <<stray, faults>>) \/ Fails(c)
  BY QueueInvParts, LetsGo DEF Push, Await
<1> HIDE DEF c, e
<1>5. /\ Kept
      /\ \/ Moved("moving", e, "ready", e) /\ NoCharge
         \/ Moved("moving", e, "late", e) /\ NoCharge
         \/ Moved("moving", e, "nowhere", e) /\ Charged
  <2>1. HeldBy(w) = "moving" /\ TargetOf(c) = "ready" /\ LateOf(c) = "late"
    BY <1>1, <1>3 DEF HeldBy, TargetOf, LateOf
  <2>2. e = workers[w].entry /\ workers[w].pc \in HoldingPc /\ c.cmd \in PuttingCommands
    BY <1>1, <1>3 DEF e, HoldingPc, PuttingCommands
  <2>3. QED BY <1>1, <1>2, <1>3, <1>4, <2>1, <2>2, PutMoves
<1>6. {"moving", "ready", "late"} \subseteq WaitingKind /\ {"moving", "ready", "late"} \subseteq Kind
  BY DEF Kind, WaitingKind
<1>7. Passes(e) \/ Loses(e)
  BY <1>1, <1>2, <1>5, <1>6 DEF Passes, Loses
<1>8. QED BY <1>2, <1>5, <1>7 DEF TokenStep

\* poll(): the worker takes the oldest entry of the list.
LEMMA PopMoves ==
  ASSUME QueueInv, NEW w \in Workers, Pop(w)
  PROVE  TokenStep /\ Kept
<1> USE QueueInvParts
<1> DEFINE p == Queue(w)
           c == OnQueue("RPOP ready", p)
           e == ready[p][Len(ready[p])]
           q == [workers[w] EXCEPT !.pc = "handle", !.entry = e]
<1>1. /\ workers[w] \in Worker /\ workers[w].pc \notin HoldingPc /\ p \in Queues
      /\ c.cmd = "RPOP ready" /\ c.cmd \notin PuttingCommands /\ c.queue = p
  BY QueueType DEF Pop, WorkersOK, HoldingPc, OnQueue, PuttingCommands
<1>2. UNCHANGED <<enqueued, finished, crashes>>
  BY DEF Pop
<1>3. CASE ready[p] = <<>> /\ LeaveQueue(w) /\ UNCHANGED <<redis, stray, runs, faults>>
  <2>1. \E r : Set(w, r) /\ r.pc \notin HoldingPc
    BY <1>3, LetsGo
  <2>2. UNCHANGED <<redis, stray, history, faults, crashes>>
    BY <1>2, <1>3 DEF history
  <2>3. QED BY <1>1, <2>1, <2>2, GoesOn
<1>4. CASE Await(w, c, LeaveQueue(w)) /\ UNCHANGED runs
  <2>1. UNCHANGED <<history, crashes>>
    BY <1>2, <1>4 DEF history
  <2>2. QED BY <1>1, <1>4, <2>1, OtherFails
<1>5. CASE /\ ready[p] # <<>> /\ Set(w, q) /\ runs' = [runs EXCEPT ![e.job] = @ + 1]
           /\ Execute(c) /\ UNCHANGED <<stray, faults>>
  <2>1. e \in Entry /\ Held("ready", e) /\ "ready" \in Kind
    BY <1>1, <1>5, PopLists, HeldKinds DEF Kind, WaitingKind
  <2>2. Set(w, q) /\ q.pc = "handle" /\ e = q.entry
    BY <1>1, <1>5, <2>1 DEF Worker
  <2>3. StoreParts("ready", e, "running", e) /\ SoleInList'
    BY <1>1, <1>5, PopParts DEF StoreKind
  <2>4. UNCHANGED stray /\ NoCharge /\ runs' = [runs EXCEPT ![e.job] = @ + 1]
    BY <1>2, <1>5, SpareStill
  <2> HIDE DEF e, q
  <2>5. HandParts("ready", e, "running", e) /\ SoleInHands'
    <3>1. "ready" \notin HandKind
      BY DEF HandKind
    <3>2. \A v \in Workers : workers[v].pc \in HoldingPc => workers[v].entry.job # e.job
      BY <2>1, <3>1, NowhereElse
    <3>3. QED BY <1>1, <2>2, <3>1, <3>2, PicksUpParts
  <2>6. StrayParts("ready", e, "running", e) /\ SoleSent' /\ IsFiniteSet(stray')
    <3>1. "ready" \notin StrayKind /\ "running" \notin StrayKind
      BY DEF StrayKind
    <3>2. QED BY <2>4, <3>1, StillStray
  <2>7. Moved("ready", e, "running", e)
    BY <2>3, <2>5, <2>6, MovedParts
  <2>8. Takes(e)
    BY <1>2, <2>1, <2>4, <2>7 DEF Takes
  <2>9. QED BY <2>1, <2>3, <2>5, <2>6, <2>8, KeptParts DEF TokenStep
<1>6. QED BY <1>3, <1>4, <1>5 DEF Pop

\* The handler returns, or throws.
LEMMA HandleMoves ==
  ASSUME QueueInv, NEW w \in Workers, Handle(w)
  PROVE  TokenStep /\ Kept
<1> USE QueueInvParts
<1> DEFINE e == workers[w].entry
           q == [workers[w] EXCEPT !.pc = "reschedule"]
<1>1. /\ workers[w].pc = "handle" /\ workers[w].pc \in HoldingPc /\ workers[w] \in Worker
      /\ UNCHANGED <<redis, stray, enqueued, runs, faults, crashes>>
  BY DEF Handle, HoldingPc, WorkersOK
<1>2. e \in Entry /\ Held("running", e)
  BY <1>1, HoldersHold
<1>3. \A to : to \notin StoreKind =>
          StoreParts("running", e, to, e) /\ SoleInList'
  BY <1>1, StillStore DEF StoreKind
<1>4. \A to : to \notin StrayKind =>
          StrayParts("running", e, to, e) /\ SoleSent' /\ IsFiniteSet(stray')
  BY <1>1, StillStray DEF StrayKind
<1>5. NoCharge
  BY <1>1, SpareStill
<1>6. "running" \notin StoreKind /\ "running" \notin StrayKind
  BY DEF StoreKind, StrayKind
<1>7. CASE finished' = finished \cup {e.job} /\ NextJob(w)
  <2>1. HandParts("running", e, "nowhere", e) /\ SoleInHands'
    <3>1. \E r : Set(w, r) /\ r.pc \notin HoldingPc
      BY <1>7, LetsGo
    <3>2. ~(workers[w].pc = "push") /\ workers[w].pc \in {"handle", "reschedule"}
      BY <1>1
    <3> HIDE DEF e
    <3>3. QED BY <3>1, <3>2, LetsGoParts, NowhereKinds DEF e
  <2>2. Moved("running", e, "nowhere", e)
    BY <1>3, <1>4, <2>1, NowhereKinds, MovedParts
  <2>3. Finishes(e)
    BY <1>1, <1>2, <1>5, <1>7, <2>2 DEF Finishes
  <2>4. Kept
    BY <1>3, <1>4, <2>1, NowhereKinds, KeptParts
  <2>5. QED BY <1>2, <2>3, <2>4 DEF TokenStep
<1>8. CASE Set(w, q) /\ UNCHANGED finished
  <2>1. q.pc = "reschedule" /\ q.entry = e
    BY <1>1 DEF Worker
  <2>2. HandParts("running", e, "running", e) /\ SoleInHands'
    <3>1. Set(w, q) /\ q.entry = workers[w].entry
      BY <1>8, <2>1
    <3> HIDE DEF q
    <3>2. QED BY <1>1, <2>1, <3>1, KeepsParts
  <2>3. Moved("running", e, "running", e)
    BY <1>3, <1>4, <1>6, <2>2, MovedParts
  <2>4. \A k \in Kind : \A g \in Entry : Held(k, g)' <=> Held(k, g)
    BY <1>2, <2>3, Zenon DEF Moved, Part
  <2>5. UNCHANGED history
    BY <1>1, <1>8 DEF history
  <2>6. Kept
    BY <1>3, <1>4, <1>6, <2>2, KeptParts
  <2>7. QED BY <1>5, <2>4, <2>5, <2>6 DEF TokenStep, Stays
<1>9. QED BY <1>7, <1>8 DEF Handle

\* The next attempt waits or is a dead letter, or the job is lost with the process.
LEMMA RescheduleMoves ==
  ASSUME QueueInv, NEW w \in Workers, Reschedule(w)
  PROVE  TokenStep /\ Kept
<1> DEFINE e == workers[w].entry
           c == RescheduleCommand(e)
           f == [e EXCEPT !.attempt = @ + 1]
<1>1. workers[w].pc = "reschedule" /\ workers[w].pc \in HoldingPc /\ UNCHANGED <<history, crashes>>
  BY DEF Reschedule, HoldingPc
<1>2. e \in Entry /\ Held("running", e)
  BY <1>1, QueueInvParts, HoldersHold
<1>3. e.attempt < MaxAttempts
  BY <1>2, QueueInvParts DEF Counted, CountOK, Kind
<1>4. /\ f \in Entry /\ f.job = e.job /\ f.attempt = e.attempt + 1 /\ c.entry = f
      /\ c.cmd = IF f.attempt = MaxAttempts THEN "LPUSH dead" ELSE "ZADD delayed"
  BY <1>2, <1>3, NextEntry
<1>5. /\ \E q : Set(w, q) /\ q.pc \notin HoldingPc
      /\ (Execute(c) /\ UNCHANGED <<stray, faults>>) \/ Fails(c)
  BY QueueInvParts, LetsGo DEF Reschedule, Await
<1>6. e = workers[w].entry
  OBVIOUS
<1> HIDE DEF e, c, f
<1>7. HeldBy(w) = "running"
  BY <1>1 DEF HeldBy
<1>8. /\ TargetOf(c) \in {"delayed", "dead"} /\ LateOf(c) \in {"late", "buried"}
      /\ TargetOf(c) \in DeadKind <=> f.attempt = MaxAttempts
      /\ LateOf(c) \in DeadKind <=> f.attempt = MaxAttempts
  BY <1>4 DEF TargetOf, LateOf, DeadKind
<1>9. /\ Kept
      /\ \/ Moved("running", e, TargetOf(c), f) /\ NoCharge
         \/ Moved("running", e, LateOf(c), f) /\ NoCharge
         \/ Moved("running", e, "nowhere", f) /\ Charged
  <2>1. c.cmd \in PuttingCommands
    BY <1>4 DEF PuttingCommands
  <2>2. QED BY <1>1, <1>4, <1>5, <1>6, <1>7, <2>1, PutMoves
<1>10. CASE Moved("running", e, TargetOf(c), f) /\ NoCharge
  <2>1. Reschedules(e, f)
    BY <1>1, <1>2, <1>4, <1>8, <1>10 DEF Reschedules
  <2>2. QED BY <1>2, <1>4, <1>9, <2>1 DEF TokenStep
<1>11. CASE Moved("running", e, LateOf(c), f) /\ NoCharge
  <2>1. Reschedules(e, f)
    BY <1>1, <1>2, <1>4, <1>8, <1>11 DEF Reschedules
  <2>2. QED BY <1>2, <1>4, <1>9, <2>1 DEF TokenStep
<1>12. CASE Moved("running", e, "nowhere", f) /\ Charged
  <2>1. \A k \in Kind : k # "nowhere"
    BY DEF Kind, WaitingKind, DeadKind
  <2>2. Moved("running", e, "nowhere", e)
    BY <1>12, <2>1 DEF Moved, Part
  <2>3. Loses(e)
    BY <1>1, <1>2, <1>12, <2>2 DEF Loses
  <2>4. QED BY <1>2, <1>9, <2>3 DEF TokenStep
<1>13. QED BY <1>9, <1>10, <1>11, <1>12

\* A process dies: what it held is lost.
LEMMA CrashMoves ==
  ASSUME QueueInv, NEW w \in Workers, Crash(w)
  PROVE  TokenStep /\ Kept
<1> USE QueueInvParts
<1> DEFINE e == workers[w].entry
           held == HeldBy(w)
<1>1. /\ crashes' = crashes + 1 /\ UNCHANGED <<redis, stray, history, faults>>
      /\ \E q : Set(w, q) /\ q.pc \notin HoldingPc
  BY LetsGo DEF Crash
<1>2. Charged /\ NoCharge
  <2>1. crashes \in Nat /\ faults \in Nat /\ Cardinality(stray) \in Nat
    BY SpareTypes
  <2>2. Spare' = Spare + 1
    BY <1>1, <2>1 DEF Spare
  <2>3. QED BY <2>2, Charges
<1>3. CASE workers[w].pc \in HoldingPc
  <2>1. /\ workers[w].pc = "push" <=> held = "moving"
        /\ workers[w].pc \in {"handle", "reschedule"} <=> held = "running"
        /\ held \in {"moving", "running"}
    BY <1>3 DEF HeldBy, HoldingPc
  <2> HIDE DEF held
  <2>2. e \in Entry /\ Held(held, e)
    BY <1>3, <2>1, HoldersHold
  <2>3. StoreParts(held, e, "nowhere", e) /\ SoleInList'
    <3>1. held \notin StoreKind
      BY <2>1 DEF StoreKind
    <3>2. QED BY <1>1, <3>1, StillStore, NowhereKinds
  <2>4. HandParts(held, e, "nowhere", e) /\ SoleInHands'
    BY <1>1, <2>1, LetsGoParts, NowhereKinds
  <2>5. StrayParts(held, e, "nowhere", e) /\ SoleSent' /\ IsFiniteSet(stray')
    <3>1. held \notin StrayKind
      BY <2>1 DEF StrayKind
    <3>2. QED BY <1>1, <3>1, StillStray, NowhereKinds
  <2>8. Moved(held, e, "nowhere", e)
    BY <2>3, <2>4, <2>5, MovedParts
  <2>6. Loses(e)
    BY <1>1, <1>2, <2>1, <2>2, <2>8 DEF Loses, WaitingKind
  <2>7. QED BY <2>2, <2>3, <2>4, <2>5, <2>6, KeptParts DEF TokenStep
<1>4. CASE workers[w].pc \notin HoldingPc
  <2>1. HandParts("nowhere", NoEntry, "nowhere", NoEntry) /\ SoleInHands'
    BY <1>1, <1>4, LetsGoParts, NowhereKinds DEF HoldingPc, HandKind
  <2>2. StoreParts("nowhere", NoEntry, "nowhere", NoEntry) /\ SoleInList'
    BY <1>1, StillStore, NowhereKinds
  <2>3. StrayParts("nowhere", NoEntry, "nowhere", NoEntry) /\ SoleSent' /\ IsFiniteSet(stray')
    BY <1>1, StillStray, NowhereKinds
  <2>4. QED BY <1>1, <1>2, <2>1, <2>2, <2>3, StaysParts, KeptParts
<1>5. QED BY <1>3, <1>4

\* The clock reaches the score of an entry.
LEMMA ComesDueMoves ==
  ASSUME QueueInv, NEW e \in Entry, ComesDue(e)
  PROVE  TokenStep /\ Kept
<1> USE QueueInvParts
<1>1. UNCHANGED <<ready, delayed, dead, stray, workers, history, faults, crashes>>
  BY DEF ComesDue
<1>2. StoreParts("nowhere", NoEntry, "nowhere", NoEntry) /\ SoleInList'
  BY <1>1, StillParts DEF StoreParts, SoleInList
<1>3. HandParts("nowhere", NoEntry, "nowhere", NoEntry) /\ SoleInHands'
  BY <1>1, StillHands, NowhereKinds
<1>4. StrayParts("nowhere", NoEntry, "nowhere", NoEntry) /\ SoleSent' /\ IsFiniteSet(stray')
  BY <1>1, StillStray, NowhereKinds
<1>5. NoCharge
  BY <1>1, SpareStill
<1>6. QED BY <1>1, <1>2, <1>3, <1>4, <1>5, StaysParts, KeptParts

\* A step that changes nothing.
LEMMA NothingMoves ==
  ASSUME QueueInv, UNCHANGED queueVars
  PROVE  TokenStep /\ Kept
<1> USE QueueInvParts
<1>1. UNCHANGED <<redis, stray, workers, history, faults, crashes>>
  BY DEF queueVars
<1>2. StoreParts("nowhere", NoEntry, "nowhere", NoEntry) /\ SoleInList'
  BY <1>1, StillStore, NowhereKinds
<1>3. HandParts("nowhere", NoEntry, "nowhere", NoEntry) /\ SoleInHands'
  BY <1>1, StillHands, NowhereKinds
<1>4. StrayParts("nowhere", NoEntry, "nowhere", NoEntry) /\ SoleSent' /\ IsFiniteSet(stray')
  BY <1>1, StillStray, NowhereKinds
<1>5. NoCharge
  BY <1>1, SpareStill
<1>6. QED BY <1>1, <1>2, <1>3, <1>4, <1>5, StaysParts, KeptParts

\* A late command that puts an entry somewhere does so in the end.
LEMMA LatePutMoves ==
  ASSUME QueueInv, NEW s \in stray, s.command.cmd \in PuttingCommands,
         Execute(s.command), stray' = stray \ {s},
         UNCHANGED <<workers, history, faults, crashes>>
  PROVE  TokenStep /\ Kept
<1> USE QueueInvParts
<1> DEFINE c == s.command
           e == c.entry
           from == LateOf(c)
           to == TargetOf(c)
<1>1. /\ \/ c.cmd = "LPUSH ready" /\ to = "ready"
         \/ c.cmd = "ZADD delayed" /\ to = "delayed"
         \/ c.cmd = "LPUSH dead" /\ to = "dead"
      /\ \/ c.cmd \in {"LPUSH ready", "ZADD delayed"} /\ from = "late"
         \/ c.cmd = "LPUSH dead" /\ from = "buried"
      /\ from \in StrayKind /\ to \in StoreKind
      /\ from \in Kind /\ to \in Kind
      /\ \/ from \in WaitingKind /\ to \in WaitingKind
         \/ from = "buried" /\ to = "dead"
  BY DEF TargetOf, LateOf, PuttingCommands, StoreKind, StrayKind, Kind, WaitingKind, DeadKind
<1> HIDE DEF from, to
<1>2. e \in Entry /\ Held(from, e)
  BY <1>1, HoldersHold
<1>3. /\ from \notin StoreKind /\ from \notin HandKind /\ from # "ready"
      /\ to \notin HandKind /\ to \notin StrayKind
  BY <1>1 DEF StoreKind, StrayKind, HandKind
<1>4. \A g \in Entry : Listed(g) => g.job # e.job
  BY <1>1, <1>2, <1>3, NowhereElse
<1>5. StoreParts(from, e, to, e) /\ SoleInList'
  BY <1>1, <1>2, <1>3, <1>4, PutParts
<1>6. HandParts(from, e, to, e) /\ SoleInHands'
  BY <1>3, StillHands
<1>7. SoleSent' /\ IsFiniteSet(stray') /\ Spare' = Spare + 1 /\ StrayParts(from, e, to, e)
  BY <1>1, <1>3, LateParts
<1>8. Moved(from, e, to, e)
  BY <1>5, <1>6, <1>7, MovedParts
<1>9. NoCharge
  BY <1>7, Charges
<1>10. Passes(e)
  BY <1>1, <1>2, <1>8, <1>9 DEF Passes
<1>11. QED BY <1>2, <1>5, <1>6, <1>7, <1>10, KeptParts DEF TokenStep

\* A late command that takes an entry away loses it, if it is still there: nobody reads
\* the answer.
LEMMA LateTakeMoves ==
  ASSUME QueueInv, NEW s \in stray, s.command.cmd \notin PuttingCommands,
         Execute(s.command), stray' = stray \ {s},
         UNCHANGED <<workers, history, faults, crashes>>
  PROVE  TokenStep /\ Kept
<1> USE QueueInvParts
<1> DEFINE c == s.command
<1>1. \A from, e : from \in StoreKind \cup {"nowhere"} =>
          /\ HandParts(from, e, "nowhere", e) /\ SoleInHands'
          /\ SoleSent' /\ IsFiniteSet(stray') /\ Spare' = Spare + 1
          /\ StrayParts(from, e, "nowhere", e)
  <2>1. \A from : from \in StoreKind \cup {"nowhere"} => from \notin HandKind /\ from \notin StrayKind
    BY DEF StoreKind, HandKind, StrayKind
  <2>2. \A from, e : from \in StoreKind \cup {"nowhere"} =>
            HandParts(from, e, "nowhere", e) /\ SoleInHands'
    BY <2>1, StillHands, NowhereKinds
  <2>3. \A from, e : from \in StoreKind \cup {"nowhere"} =>
            /\ SoleSent' /\ IsFiniteSet(stray') /\ Spare' = Spare + 1
            /\ StrayParts(from, e, "nowhere", e)
    BY <2>1, LateParts, NowhereKinds
  <2>4. QED BY <2>2, <2>3
<1>2. Charged /\ NoCharge
  BY <1>1, Charges
<1>3. ASSUME NEW from \in {"ready", "delayed"}, NEW e \in Entry, Held(from, e),
             StoreParts(from, e, "nowhere", e), SoleInList'
      PROVE  TokenStep /\ Kept
  <2>1. from \in StoreKind \cup {"nowhere"} /\ from \in WaitingKind
    BY <1>3 DEF StoreKind, WaitingKind
  <2>2. Moved(from, e, "nowhere", e)
    BY <1>1, <1>3, <2>1, MovedParts
  <2>3. Loses(e)
    BY <1>2, <1>3, <2>1, <2>2 DEF Loses
  <2>4. QED BY <1>1, <1>3, <2>1, <2>3, KeptParts DEF TokenStep
<1>4. ASSUME StoreParts("nowhere", NoEntry, "nowhere", NoEntry), SoleInList'
      PROVE  TokenStep /\ Kept
  BY <1>1, <1>2, <1>4, StaysParts, KeptParts
<1>5. CASE c.cmd = "ZREM delayed"
  <2>1. c.entry \in Entry
    BY <1>5 DEF StraySound, EntryCommands
  <2>2. CASE c.entry \in delayed
    <3>1. Held("delayed", c.entry)
      BY <2>2, HeldKinds
    <3>2. StoreParts("delayed", c.entry, "nowhere", c.entry) /\ SoleInList'
      BY <1>5, <2>1, ZremParts, NowhereKinds
    <3>3. QED BY <1>3, <2>1, <3>1, <3>2
  <2>3. CASE c.entry \notin delayed
    <3>1. UNCHANGED <<ready, dead>> /\ delayed' = delayed
      BY <1>5, <2>3 DEF Execute
    <3>2. StoreParts("nowhere", NoEntry, "nowhere", NoEntry) /\ SoleInList'
      BY <3>1, StillParts DEF StoreParts, SoleInList
    <3>3. QED BY <1>4, <3>2
  <2>4. QED BY <2>2, <2>3
<1>6. CASE c.cmd = "RPOP ready"
  <2>1. c.queue \in Queues
    BY DEF StrayOK, Command
  <2>2. CASE ready[c.queue] # <<>>
    <3> DEFINE e == ready[c.queue][Len(ready[c.queue])]
    <3>1. e \in Entry /\ Held("ready", e)
      BY <1>6, <2>1, <2>2, PopLists, HeldKinds
    <3>2. StoreParts("ready", e, "nowhere", e) /\ SoleInList'
      BY <1>6, <2>1, <2>2, PopParts, NowhereKinds
    <3>3. QED BY <1>3, <3>1, <3>2
  <2>3. CASE ready[c.queue] = <<>>
    <3>1. StoreParts("nowhere", NoEntry, "nowhere", NoEntry) /\ SoleInList'
      BY <1>6, <2>1, <2>3, PopParts, NowhereKinds
    <3>2. QED BY <1>4, <3>1
  <2>4. QED BY <2>2, <2>3
<1>7. CASE c.cmd = "ZRANGEBYSCORE"
  <2>1. UNCHANGED redis
    BY <1>7 DEF Execute
  <2>2. StoreParts("nowhere", NoEntry, "nowhere", NoEntry) /\ SoleInList'
    BY <2>1, StillStore, NowhereKinds
  <2>3. QED BY <1>4, <2>2
<1>8. QED BY <1>5, <1>6, <1>7 DEF StrayOK, Command, PuttingCommands

\* Redis executes a command its client has given up on.
LEMMA StragglerMoves ==
  ASSUME QueueInv, Straggler
  PROVE  TokenStep /\ Kept
  BY LatePutMoves, LateTakeMoves DEF Straggler

\* Every step of the queues moves one entry at most.
LEMMA StepMoves ==
  ASSUME QueueInv, [Next]_queueVars
  PROVE  TokenStep /\ Kept
  BY EnqueueMoves, TickMoves, FindDueMoves, ZremMoves, PushMoves, PopMoves, HandleMoves,
     RescheduleMoves, CrashMoves, ComesDueMoves, StragglerMoves, NothingMoves DEF Next, Work
-----------------------------------------------------------------------------
(* What the moves preserve.                                                *)

\* Among the entries of a job, e alone is held, by the kind `from`, if at all.
Alone(from, e, j) == \A k \in Kind : \A g \in Entry : Held(k, g) /\ g.job = j => k = from /\ g = e

\* An entry that is held is alone; so is what is nowhere.
LEMMA HeldAlone ==
  ASSUME OneKind
  PROVE  /\ \A from \in Kind : \A e \in Entry : Held(from, e) => Alone(from, e, e.job)
         /\ \A from, e, j : Absent(j) => Alone(from, e, j)
  BY DEF OneKind, Alone, Absent

\* After a move from e to f, f alone is held for its job, and nothing moved for the others.
LEMMA AfterMove ==
  ASSUME NEW from, NEW e, NEW to, NEW f, Moved(from, e, to, f), Alone(from, e, f.job),
         from \in Kind => e.job = f.job
  PROVE  \A k \in Kind : \A g \in Entry :
            Held(k, g)' <=> IF g.job = f.job THEN k = to /\ g = f ELSE Held(k, g)
<1>1. SUFFICES ASSUME NEW k \in Kind, NEW g \in Entry
               PROVE  Held(k, g)' <=> IF g.job = f.job THEN k = to /\ g = f ELSE Held(k, g)
  OBVIOUS
<1>2. Held(k, g)' <=> \/ k = to /\ g = f
                      \/ Held(k, g) /\ ~(k = from /\ g = e)
  BY DEF Moved, Part
<1>3. CASE g.job = f.job
  BY <1>2, <1>3 DEF Alone
<1>4. CASE g.job # f.job
  BY <1>2, <1>4
<1>5. QED BY <1>3, <1>4

\* What a move leaves of the board.
LEMMA MovedBoard ==
  ASSUME OneKind, OnlyOpen, Counted, NEW from, NEW e, NEW to, NEW f,
         Moved(from, e, to, f), Alone(from, e, f.job), from \in Kind => e.job = f.job,
         to \in Kind => /\ f.job \in enqueued' \ finished'
                        /\ CountOK(to, f.attempt, runs'[f.job]),
         \A j \in Jobs \ {f.job} : /\ runs'[j] = runs[j]
                                   /\ j \in enqueued \ finished => j \in enqueued' \ finished'
  PROVE  OneKind' /\ OnlyOpen' /\ Counted'
<1>1. \A k \in Kind : \A g \in Entry :
          Held(k, g)' <=> IF g.job = f.job THEN k = to /\ g = f ELSE Held(k, g)
  BY AfterMove
<1>2. OneKind'
  <2>1. \A k, l \in Kind : \A g, h \in Entry :
            Held(k, g)' /\ Held(l, h)' /\ g.job = h.job => k = l /\ g = h
    BY <1>1 DEF OneKind
  <2>2. QED BY <2>1 DEF OneKind
<1>3. OnlyOpen'
  <2>1. \A k \in Kind : \A g \in Entry : Held(k, g)' => g.job \in enqueued' \ finished'
    BY <1>1, EntryFields DEF OnlyOpen
  <2>2. QED BY <2>1 DEF OnlyOpen
<1>4. Counted'
  <2>1. \A k \in Kind : \A g \in Entry : Held(k, g)' => CountOK(k, g.attempt, runs'[g.job])
    BY <1>1, EntryFields DEF Counted
  <2>2. QED BY <2>1 DEF Counted
<1>5. QED BY <1>2, <1>3, <1>4

\* Nothing moves.
LEMMA StaysBoard ==
  ASSUME Board, Stays
  PROVE  Board'
<1>1. \A k \in Kind : \A g \in Entry : Held(k, g)' <=> Held(k, g)
  BY DEF Stays
<1>2. UNCHANGED history
  BY DEF Stays
<1>3. OneKind'
  <2>1. \A k, l \in Kind : \A g, h \in Entry :
            Held(k, g)' /\ Held(l, h)' /\ g.job = h.job => k = l /\ g = h
    BY <1>1 DEF Board, OneKind
  <2>2. QED BY <2>1 DEF OneKind
<1>4. OnlyOpen'
  <2>1. \A k \in Kind : \A g \in Entry : Held(k, g)' => g.job \in enqueued' \ finished'
    BY <1>1, <1>2 DEF Board, OnlyOpen, history
  <2>2. QED BY <2>1 DEF OnlyOpen
<1>5. Counted'
  <2>1. \A k \in Kind : \A g \in Entry : Held(k, g)' => CountOK(k, g.attempt, runs'[g.job])
    BY <1>1, <1>2 DEF Board, Counted, history
  <2>2. QED BY <2>1 DEF Counted
<1>6. RunsBounded'
  BY <1>2 DEF Board, RunsBounded, history
<1>7. QED BY <1>3, <1>4, <1>5, <1>6 DEF Board

\* The job of an accepted entry is new.
LEMMA AcceptsBoard ==
  ASSUME HistoryOK, Board, NEW j \in Jobs, Accepts(j)
  PROVE  Board'
<1> USE DEF Board
<1> DEFINE f == [job |-> j, attempt |-> 0]
<1>1. PICK to \in {"ready", "late", "nowhere"} : Moved("nowhere", NoEntry, to, f)
  BY DEF Accepts
<1>2. /\ j \notin enqueued /\ enqueued' = enqueued \cup {j} /\ UNCHANGED <<runs, finished>>
      /\ f.job = j /\ f.attempt = 0
  BY DEF Accepts
<1> HIDE DEF f
<1>3. j \notin finished /\ runs[j] = 0
  BY <1>2 DEF HistoryOK, RunsBounded
<1>4. Alone("nowhere", NoEntry, f.job)
  BY <1>2, HeldAlone DEF OnlyOpen, Absent
<1>5. to \in Kind => CountOK(to, f.attempt, runs'[f.job])
  BY <1>2, <1>3, JobQueueAssumption DEF CountOK, WaitingKind, DeadKind
<1>6. "nowhere" \notin Kind
  BY DEF Kind, WaitingKind, DeadKind
<1>7. OneKind' /\ OnlyOpen' /\ Counted'
  BY <1>1, <1>2, <1>3, <1>4, <1>5, <1>6, MovedBoard
<1>8. RunsBounded'
  BY <1>2 DEF RunsBounded
<1>9. QED BY <1>7, <1>8

\* An entry moves on unchanged, or is lost.
LEMMA PassesBoard ==
  ASSUME Board, NEW e \in Entry, Passes(e) \/ Loses(e)
  PROVE  Board'
<1> USE DEF Board
<1>1. PICK from \in Kind, to \in Kind \cup {"nowhere"} :
          /\ Held(from, e) /\ Moved(from, e, to, e)
          /\ \/ from \in WaitingKind /\ to \in WaitingKind
             \/ from = "buried" /\ to = "dead"
             \/ to = "nowhere"
  BY DEF Passes, Loses, Kind
<1>2. UNCHANGED history
  BY DEF Passes, Loses
<1>3. Alone(from, e, e.job)
  BY <1>1, HeldAlone
<1>4. e.job \in enqueued \ finished /\ CountOK(from, e.attempt, runs[e.job])
  BY <1>1 DEF OnlyOpen, Counted
<1>5. to \in Kind => CountOK(to, e.attempt, runs[e.job])
  BY <1>1, <1>4 DEF CountOK, Kind, WaitingKind, DeadKind
<1>6. enqueued' = enqueued /\ finished' = finished /\ runs' = runs
  BY <1>2 DEF history
<1>7. OneKind' /\ OnlyOpen' /\ Counted'
  BY <1>1, <1>3, <1>4, <1>5, <1>6, MovedBoard
<1>8. RunsBounded'
  BY <1>6 DEF RunsBounded
<1>9. QED BY <1>7, <1>8

\* A worker takes an entry: one more run.
LEMMA TakesBoard ==
  ASSUME HistoryOK, Board, NEW e \in Entry, Takes(e)
  PROVE  Board'
<1> USE DEF Board
<1>1. /\ Held("ready", e) /\ Moved("ready", e, "running", e)
      /\ runs' = [runs EXCEPT ![e.job] = @ + 1]
      /\ enqueued' = enqueued /\ finished' = finished
  BY DEF Takes
<1>2. "ready" \in Kind /\ "ready" \in WaitingKind /\ "running" \notin WaitingKind /\ "running" \notin DeadKind
  BY DEF Kind, WaitingKind, DeadKind
<1>3. Alone("ready", e, e.job)
  BY <1>1, <1>2, HeldAlone
<1>4. e.job \in enqueued \ finished /\ CountOK("ready", e.attempt, runs[e.job])
  BY <1>1, <1>2 DEF OnlyOpen, Counted
<1>5. e.job \in Jobs /\ runs'[e.job] = runs[e.job] + 1 /\ \A j \in Jobs \ {e.job} : runs'[j] = runs[j]
  BY <1>1, EntryFields DEF HistoryOK
<1>6. runs[e.job] = e.attempt /\ e.attempt < MaxAttempts
  BY <1>2, <1>4 DEF CountOK
<1>7. CountOK("running", e.attempt, runs'[e.job])
  BY <1>2, <1>5, <1>6 DEF CountOK
<1>8. OneKind' /\ OnlyOpen' /\ Counted'
  BY <1>1, <1>3, <1>4, <1>5, <1>7, MovedBoard
<1>9. RunsBounded'
  <2>1. e.attempt + 1 <= MaxAttempts
    BY <1>6, EntryFields, JobQueueAssumption
  <2>2. \A j \in Jobs : runs'[j] <= MaxAttempts /\ (j \notin enqueued' => runs'[j] = 0)
    BY <1>1, <1>4, <1>5, <1>6, <2>1 DEF RunsBounded
  <2>3. QED BY <2>2 DEF RunsBounded
<1>10. QED BY <1>8, <1>9

\* A handler returns: its job is over.
LEMMA FinishesBoard ==
  ASSUME Board, NEW e \in Entry, Finishes(e)
  PROVE  Board'
<1> USE DEF Board
<1>1. /\ Held("running", e) /\ Moved("running", e, "nowhere", e)
      /\ finished' = finished \cup {e.job} /\ runs' = runs /\ enqueued' = enqueued
  BY DEF Finishes
<1>2. "running" \in Kind /\ "nowhere" \notin Kind
  BY DEF Kind, WaitingKind, DeadKind
<1>3. Alone("running", e, e.job)
  BY <1>1, <1>2, HeldAlone
<1>4. OneKind' /\ OnlyOpen' /\ Counted'
  BY <1>1, <1>2, <1>3, MovedBoard
<1>5. RunsBounded'
  BY <1>1 DEF RunsBounded
<1>6. QED BY <1>4, <1>5

\* A handler has thrown: the next attempt.
LEMMA ReschedulesBoard ==
  ASSUME Board, NEW e \in Entry, NEW f \in Entry, Reschedules(e, f)
  PROVE  Board'
<1> USE DEF Board
<1>1. /\ Held("running", e) /\ f.job = e.job /\ f.attempt = e.attempt + 1
      /\ enqueued' = enqueued /\ finished' = finished /\ runs' = runs
  BY DEF Reschedules, history
<1>2. PICK to \in {"delayed", "late", "dead", "buried"} :
          Moved("running", e, to, f) /\ (to \in DeadKind <=> f.attempt = MaxAttempts)
  BY DEF Reschedules
<1>3. "running" \in Kind /\ "running" \notin WaitingKind /\ "running" \notin DeadKind
  BY DEF Kind, WaitingKind, DeadKind
<1>4. Alone("running", e, f.job)
  BY <1>1, <1>3, HeldAlone
<1>5. e.job \in enqueued \ finished /\ CountOK("running", e.attempt, runs[e.job])
  BY <1>1, <1>3 DEF OnlyOpen, Counted
<1>6. runs[f.job] = f.attempt
  BY <1>1, <1>3, <1>5 DEF CountOK
<1>7. f.attempt <= MaxAttempts /\ f.attempt \in Nat /\ MaxAttempts \in Nat
  BY EntryFields, JobQueueAssumption
<1>8. CountOK(to, f.attempt, runs[f.job])
  <2>1. to \in WaitingKind => to \notin DeadKind
    BY DEF WaitingKind, DeadKind
  <2>2. to # "running"
    BY <1>2
  <2>3. f.attempt # MaxAttempts => f.attempt < MaxAttempts
    BY <1>7
  <2>4. QED BY <1>2, <1>6, <2>1, <2>2, <2>3 DEF CountOK
<1>9. OneKind' /\ OnlyOpen' /\ Counted'
  BY <1>1, <1>2, <1>4, <1>5, <1>8, MovedBoard
<1>10. RunsBounded'
  BY <1>1 DEF RunsBounded
<1>11. QED BY <1>9, <1>10

\* A move leaves the board sound.
LEMMA TokenBoard ==
  ASSUME QueueInv, TokenStep
  PROVE  Board' /\ IsFiniteSet(enqueued')
<1>1. HistoryOK /\ Board /\ IsFiniteSet(enqueued)
  BY QueueInvParts DEF QueueInv
<1>2. Board'
  BY <1>1, StaysBoard, AcceptsBoard, PassesBoard, TakesBoard, FinishesBoard, ReschedulesBoard
     DEF TokenStep
<1>3. IsFiniteSet(enqueued')
  <2>1. enqueued' = enqueued \/ \E j : enqueued' = enqueued \cup {j}
    BY DEF TokenStep, Stays, Accepts, Passes, Loses, Takes, Finishes, Reschedules, history
  <2>2. QED BY <1>1, <2>1, FS_AddElement
<1>4. QED BY <1>2, <1>3

\* Every action keeps the types: a handler is only called with an accepted job, and only
\* an attempt short of the last one is tried again.
LEMMA StepTyped ==
  ASSUME QueueInv, [Next]_queueVars
  PROVE  TypeInv'
<1> USE QueueInvParts
<1>1. ASSUME NEW w \in Workers, workers[w].pc \in {"handle", "reschedule"}
      PROVE  workers[w].entry.job \in enqueued /\ workers[w].entry.attempt < MaxAttempts
  <2>1. workers[w].entry \in Entry /\ Held("running", workers[w].entry) /\ "running" \in Kind
    BY <1>1, HoldersHold DEF HoldingPc, Kind
  <2>2. QED BY <2>1 DEF OnlyOpen, Counted, CountOK
<1>2. ASSUME NEW w \in Workers, Handle(w) PROVE TypeInv'
  BY <1>1, <1>2, HandleTyped DEF Handle
<1>3. ASSUME NEW w \in Workers, Reschedule(w) PROVE TypeInv'
  BY <1>1, <1>3, RescheduleTyped DEF Reschedule
<1>4. CASE UNCHANGED queueVars
  BY <1>4, Unmoved, TypeInvPartsPrimed DEF queueVars, redis, history
<1>5. QED
  BY <1>2, <1>3, <1>4, EnqueueTyped, TickTyped, RangeTyped, ZremTyped, PushStepTyped,
     PopTypedStep, CrashTyped, ComesDueTyped, StragglerTyped DEF Next, Work
\* At the start nothing is queued.
LEMMA InitQueueInv == Init => QueueInv
<1> SUFFICES ASSUME Init PROVE QueueInv
  OBVIOUS
<1> USE DEF Init
<1>1. TypeInv
  <2>1. StoreOK
    <3>1. ready \in [Queues -> Seq(Entry)]
      OBVIOUS
    <3>2. \A q \in Queues : Len(ready[q]) = 0
      OBVIOUS
    <3>3. QED BY <3>1, <3>2 DEF StoreOK, ReadyOK
  <2>2. StrayOK /\ StraySound /\ CountersOK
    BY JobQueueAssumption DEF StrayOK, StraySound, CountersOK
  <2>3. WorkersOK
    BY IdleOK DEF WorkersOK, WorkerOK
  <2>4. HistoryOK
    BY DEF HistoryOK
  <2>5. QED BY <2>1, <2>2, <2>3, <2>4, TypeInvParts
<1>2. Sole
  <2>1. SoleInList
    BY DEF SoleInList
  <2>2. SoleInHands
    BY DEF SoleInHands, IdleWorker, HoldingPc
  <2>3. SoleSent
    BY DEF SoleSent
  <2>4. QED BY <2>1, <2>2, <2>3 DEF Sole
<1>3. \A k \in Kind : \A e \in Entry : ~Held(k, e)
  <2>1. \A e \in Entry : ~Listed(e)
    BY EntryFields DEF Listed
  <2>2. \A pcs, e : "idle" \notin pcs => ~InHands(pcs, e)
    BY DEF InHands, IdleWorker
  <2>3. \A cmds, e : ~Sent(cmds, e)
    BY DEF Sent
  <2>4. QED BY <2>1, <2>2, <2>3 DEF Held
<1>4. Board
  <2>1. OneKind /\ OnlyOpen /\ Counted
    BY <1>3 DEF OneKind, OnlyOpen, Counted
  <2>2. RunsBounded
    BY JobQueueAssumption DEF RunsBounded
  <2>3. QED BY <2>1, <2>2 DEF Board
<1>5. Finite
  BY FS_EmptySet DEF Finite
<1>6. QED BY <1>1, <1>2, <1>4, <1>5 DEF QueueInv

\* QueueInv is inductive.
LEMMA NextQueueInv ==
  ASSUME QueueInv, [Next]_queueVars
  PROVE  QueueInv'
<1>1. TypeInv'
  BY StepTyped
<1>2. Sole' /\ IsFiniteSet(stray')
  BY StepMoves DEF Kept
<1>3. Board' /\ IsFiniteSet(enqueued')
  BY StepMoves, TokenBoard
<1>4. QED BY <1>1, <1>2, <1>3 DEF QueueInv, Finite

\* Every reachable state is sound.
LEMMA SpecQueueInv == Spec => []QueueInv
  BY InitQueueInv, NextQueueInv, PTL DEF Spec

-----------------------------------------------------------------------------
(* The properties.                                                         *)

\* TypeOK: the lists hold entries of their own queue, counters stay in range, and a worker
\* holds an entry exactly while it is between two commands about it.
THEOREM QueueTypes == Spec => []TypeOK
<1>1. QueueInv => TypeOK
  BY QueueInvParts, TypeParts
<1>2. QED BY <1>1, SpecQueueInv, PTL

\* What a step costs: a job that is gone after it was gone before, or is charged for.
LEMMA GoneStep ==
  ASSUME QueueInv, TokenStep
  PROVE  \/ Gone' \subseteq Gone /\ NoCharge
         \/ \E j : Gone' \subseteq Gone \cup {j} /\ Charged
<1> USE QueueInvParts
<1>1. CASE Stays
  <2>1. \A j : Absent(j)' <=> Absent(j)
    BY <1>1 DEF Stays, Absent
  <2>2. UNCHANGED history /\ NoCharge
    BY <1>1 DEF Stays
  <2>3. QED BY <2>1, <2>2 DEF Gone, history
<1>2. ASSUME NEW from, NEW e, NEW to, NEW f, Moved(from, e, to, f), Alone(from, e, f.job),
             f.job = e.job \/ from \notin Kind
      PROVE  \A j : j # f.job => (Absent(j)' <=> Absent(j))
  <2>1. \A k \in Kind : \A g \in Entry :
            Held(k, g)' <=> IF g.job = f.job THEN k = to /\ g = f ELSE Held(k, g)
    BY <1>2, AfterMove
  <2>2. QED BY <2>1 DEF Absent
<1>3. ASSUME NEW from, NEW e, NEW to \in Kind, NEW f \in Entry, Moved(from, e, to, f)
      PROVE  ~Absent(f.job)'
  BY <1>3 DEF Moved, Part, Absent
<1>4. "nowhere" \notin Kind /\ {"ready", "running", "delayed", "late", "dead", "buried"} \subseteq Kind
      /\ WaitingKind \subseteq Kind
  BY DEF Kind, WaitingKind, DeadKind
<1>5. ASSUME NEW j \in Jobs, Accepts(j)
      PROVE  \/ Gone' \subseteq Gone /\ NoCharge
             \/ Gone' \subseteq Gone \cup {j} /\ Charged
  <2> DEFINE f == [job |-> j, attempt |-> 0]
  <2>1. PICK to \in {"ready", "late", "nowhere"} :
            /\ Moved("nowhere", NoEntry, to, f)
            /\ NoCharge /\ (to = "nowhere" => Charged)
    BY <1>5 DEF Accepts
  <2>2. /\ j \notin enqueued /\ enqueued' = enqueued \cup {j} /\ finished' = finished
        /\ f \in Entry /\ f.job = j
    BY <1>5, JobQueueAssumption DEF Accepts, Entry
  <2> HIDE DEF f
  <2>3. Alone("nowhere", NoEntry, f.job)
    BY <2>2, HeldAlone DEF OnlyOpen, Absent
  <2>4. \A i : i # j => (Absent(i)' <=> Absent(i))
    BY <1>2, <1>4, <2>1, <2>2, <2>3
  <2>5. Gone' \subseteq Gone \cup {j}
    BY <2>2, <2>4 DEF Gone
  <2>6. CASE to # "nowhere"
    <3>1. ~Absent(j)'
      BY <1>3, <1>4, <2>1, <2>2, <2>6
    <3>2. QED BY <2>1, <2>5, <3>1 DEF Gone
  <2>7. CASE to = "nowhere"
    BY <2>1, <2>5, <2>7
  <2>8. QED BY <2>6, <2>7
<1>6. ASSUME NEW e \in Entry, NEW from \in Kind, Held(from, e), NEW to, NEW f \in Entry,
             f.job = e.job, Moved(from, e, to, f),
             enqueued' = enqueued, finished \subseteq finished'
      PROVE  /\ Gone' \subseteq Gone \cup {e.job}
             /\ to \in Kind => Gone' \subseteq Gone
             /\ e.job \in finished' => Gone' \subseteq Gone
  <2>1. Alone(from, e, f.job)
    BY <1>6, HeldAlone
  <2>2. \A i : i # e.job => (Absent(i)' <=> Absent(i))
    BY <1>2, <1>6, <2>1
  <2>3. Gone' \subseteq Gone \cup {e.job}
    BY <1>6, <2>2 DEF Gone
  <2>4. to \in Kind => ~Absent(e.job)'
    BY <1>3, <1>6
  <2>5. QED BY <2>3, <2>4 DEF Gone
<1>7. ASSUME NEW e \in Entry, Passes(e) \/ Takes(e) \/ Finishes(e)
      PROVE  Gone' \subseteq Gone /\ NoCharge
  <2>1. CASE Passes(e)
    BY <1>4, <1>6, <2>1 DEF Passes, history
  <2>2. CASE Takes(e)
    BY <1>4, <1>6, <2>2 DEF Takes
  <2>3. CASE Finishes(e)
    BY <1>4, <1>6, <2>3 DEF Finishes
  <2>4. QED BY <1>7, <2>1, <2>2, <2>3
<1>8. ASSUME NEW e \in Entry, Loses(e)
      PROVE  Gone' \subseteq Gone \cup {e.job} /\ Charged
  BY <1>4, <1>6, <1>8 DEF Loses, history
<1>9. ASSUME NEW e \in Entry, NEW f \in Entry, Reschedules(e, f)
      PROVE  Gone' \subseteq Gone /\ NoCharge
  BY <1>4, <1>6, <1>9 DEF Reschedules, history
<1>10. QED BY <1>1, <1>5, <1>7, <1>8, <1>9 DEF TokenStep

\* A set of jobs that grows by one at most.
LEMMA OneMore ==
  ASSUME NEW S, IsFiniteSet(S), NEW T, NEW j, T \subseteq S \cup {j}
  PROVE  Cardinality(T) \in Nat /\ Cardinality(S) \in Nat /\ Cardinality(T) <= Cardinality(S) + 1
<1>1. /\ IsFiniteSet(S \cup {j}) /\ Cardinality(S) \in Nat
      /\ Cardinality(S \cup {j}) <= Cardinality(S) + 1
  <2>1. IsFiniteSet(S \cup {j})
    BY FS_AddElement
  <2>2. Cardinality(S) \in Nat
    BY FS_CardinalityType
  <2>3. Cardinality(S \cup {j}) = Cardinality(S) \/ Cardinality(S \cup {j}) = Cardinality(S) + 1
    BY FS_AddElement
  <2>4. QED BY <2>1, <2>2, <2>3
<1>2. IsFiniteSet(T) /\ Cardinality(T) <= Cardinality(S \cup {j})
  BY <1>1, FS_Subset
<1>3. Cardinality(T) \in Nat /\ Cardinality(S \cup {j}) \in Nat
  BY <1>1, <1>2, FS_CardinalityType
<1>4. QED BY <1>1, <1>2, <1>3

\* The budget is a number.
LEMMA SpareType == QueueInv => Spare \in Int
  BY QueueInvParts

\* Faults and crashes pay for the jobs that are gone.
LEMMA BudgetStep ==
  ASSUME QueueInv, QueueInv', TokenStep, Budget
  PROVE  Budget'
<1>1. IsFiniteSet(Gone) /\ Cardinality(Gone) \in Nat
  <2>1. Gone \subseteq enqueued /\ IsFiniteSet(enqueued)
    BY QueueInvParts DEF Gone
  <2>2. QED BY <2>1, FS_Subset, FS_CardinalityType
<1>2. Spare \in Int /\ Spare' \in Int
  <2>1. (QueueInv => Spare \in Int)'
    BY SpareType, PTL
  <2>2. QED BY <2>1, SpareType
<1>3. CASE Gone' \subseteq Gone /\ NoCharge
  <2>1. Cardinality(Gone') <= Cardinality(Gone) /\ Cardinality(Gone') \in Nat
    BY <1>1, <1>3, FS_Subset, FS_CardinalityType
  <2>2. QED BY <1>1, <1>2, <1>3, <2>1 DEF Budget, NoCharge
<1>4. ASSUME NEW j, Gone' \subseteq Gone \cup {j}, Charged PROVE Budget'
  <2>1. Cardinality(Gone') <= Cardinality(Gone) + 1 /\ Cardinality(Gone') \in Nat
    BY <1>1, <1>4, OneMore
  <2>2. QED BY <1>1, <1>2, <1>4, <2>1 DEF Budget, Charged
<1>5. QED BY <1>3, <1>4, GoneStep

\* The budget is never overdrawn.
LEMMA SpecBudget == Spec => []Budget
<1>1. Init => Budget
  <2>1. Init => Gone = {} /\ stray = {} /\ faults = 0 /\ crashes = 0
    BY DEF Init, Gone
  <2>2. Cardinality({}) = 0
    BY FS_EmptySet
  <2>3. QED BY <2>1, <2>2 DEF Budget, Spare
<1>2. QueueInv /\ QueueInv' /\ Budget /\ [Next]_queueVars => Budget'
  BY StepMoves, BudgetStep
<1>3. QED BY <1>1, <1>2, SpecQueueInv, PTL DEF Spec
\* Place p is of kind k and holds entry e.
At(p, k, e) ==
    \/ /\ k = "ready"
       /\ \E n \in 1 .. Len(ready[QueueOf[e.job]]) :
             ready[QueueOf[e.job]][n] = e /\ p = <<"ready", n>>
    \/ k = "delayed" /\ e \in delayed /\ p = <<"delayed", e>>
    \/ k = "dead" /\ e \in dead /\ p = <<"dead", e>>
    \/ /\ k = "moving"
       /\ \E w \in Workers : workers[w].pc = "push" /\ workers[w].entry = e /\ p = <<"moving", w>>
    \/ /\ k = "running"
       /\ \E w \in Workers : /\ workers[w].pc \in {"handle", "reschedule"} /\ workers[w].entry = e
                             /\ p = <<"running", w>>
    \/ /\ k = "late"
       /\ \E s \in stray : /\ s.command.cmd \in {"LPUSH ready", "ZADD delayed"}
                           /\ s.command.entry = e /\ p = <<"stray", s>>
    \/ /\ k = "buried"
       /\ \E s \in stray : /\ s.command.cmd = "LPUSH dead" /\ s.command.entry = e
                           /\ p = <<"stray", s>>

\* The kind a place has in Places.
Tag(k) == IF k \in {"late", "buried"} THEN "stray" ELSE k

\* The places of a job are the places of its entries.
LEMMA PlacesAt ==
  ASSUME TypeInv, NEW j \in Jobs, NEW p
  PROVE  p \in Places(j) <=> \E k \in Kind : \E e \in Entry : e.job = j /\ At(p, k, e)
<1> USE TypeInvParts
<1>1. ASSUME NEW k \in Kind, NEW e \in Entry, e.job = j, At(p, k, e) PROVE p \in Places(j)
  BY <1>1 DEF At, Places
<1>2. ASSUME p \in Places(j)
      PROVE  \E k \in {"ready", "delayed", "dead", "moving", "running", "late", "buried"} :
                \E e \in Entry : e.job = j /\ At(p, k, e)
  <2>1. CASE \E n \in 1 .. Len(ready[QueueOf[j]]) :
                ready[QueueOf[j]][n].job = j /\ p = <<"ready", n>>
    <3>1. PICK n \in 1 .. Len(ready[QueueOf[j]]) :
              ready[QueueOf[j]][n].job = j /\ p = <<"ready", n>>
      BY <2>1
    <3>2. QueueOf[j] \in Queues /\ ready[QueueOf[j]] \in Seq(Entry)
      BY JobQueueAssumption DEF StoreOK, ReadyOK
    <3>3. ready[QueueOf[j]][n] \in Entry
      BY <3>2, ElementOfSeq
    <3>4. At(p, "ready", ready[QueueOf[j]][n])
      BY <3>1 DEF At
    <3>5. QED BY <3>1, <3>3, <3>4
  <2>2. CASE \E e \in delayed : e.job = j /\ p = <<"delayed", e>>
    BY <2>2 DEF At, StoreOK
  <2>3. CASE \E e \in dead : e.job = j /\ p = <<"dead", e>>
    BY <2>3 DEF At, StoreOK
  <2>4. CASE \E w \in Workers : workers[w].pc = "push" /\ workers[w].entry.job = j /\ p = <<"moving", w>>
    BY <2>4, HoldersHold DEF At, HoldingPc
  <2>5. CASE \E w \in Workers : /\ workers[w].pc \in {"handle", "reschedule"}
                                /\ workers[w].entry.job = j /\ p = <<"running", w>>
    BY <2>5, HoldersHold DEF At, HoldingPc
  <2>6. CASE \E s \in stray : /\ s.command.cmd \in {"LPUSH ready", "ZADD delayed", "LPUSH dead"}
                              /\ s.command.entry.job = j /\ p = <<"stray", s>>
    BY <2>6, HoldersHold DEF At, PuttingCommands
  <2>7. QED BY <1>2, <2>1, <2>2, <2>3, <2>4, <2>5, <2>6 DEF Places
<1>3. {"ready", "delayed", "dead", "moving", "running", "late", "buried"} \subseteq Kind
  BY DEF Kind, WaitingKind, DeadKind
<1>4. QED BY <1>1, <1>2, <1>3

\* An entry has a place of its kind where it is held, and one only.
LEMMA OnePlace ==
  ASSUME Sole, NEW k \in Kind, NEW e \in Entry
  PROVE  /\ Held(k, e) <=> \E p : At(p, k, e)
         /\ \A p, q : At(p, k, e) /\ At(q, k, e) => p = q
         /\ \A p : At(p, k, e) => p[1] = Tag(k)
<1>1. Held(k, e) <=> \E p : At(p, k, e)
  BY DEF Held, At, Listed, InHands, Sent
<1>2. ASSUME NEW p, NEW q, At(p, k, e), At(q, k, e) PROVE p = q /\ p[1] = Tag(k)
  <2>1. CASE k = "ready"
    <3>1. At(p, "ready", e) /\ At(q, "ready", e)
      BY <1>2, <2>1
    <3>2. QueueOf[e.job] \in Queues
      BY EntryFields
    <3>3. p = q /\ p[1] = "ready"
      BY <3>1, <3>2 DEF At, Sole, SoleInList
    <3>4. QED BY <2>1, <3>3 DEF Tag
  <2>2. CASE k = "delayed"
    <3>1. At(p, "delayed", e) /\ At(q, "delayed", e)
      BY <1>2, <2>2
    <3>2. p = q /\ p[1] = "delayed"
      BY <3>1 DEF At
    <3>3. QED BY <2>2, <3>2 DEF Tag
  <2>3. CASE k = "dead"
    <3>1. At(p, "dead", e) /\ At(q, "dead", e)
      BY <1>2, <2>3
    <3>2. p = q /\ p[1] = "dead"
      BY <3>1 DEF At
    <3>3. QED BY <2>3, <3>2 DEF Tag
  <2>4. CASE k = "moving"
    <3>1. At(p, "moving", e) /\ At(q, "moving", e)
      BY <1>2, <2>4
    <3>2. p = q /\ p[1] = "moving"
      BY <3>1 DEF At, Sole, SoleInHands, HoldingPc
    <3>3. QED BY <2>4, <3>2 DEF Tag
  <2>5. CASE k = "running"
    <3>1. At(p, "running", e) /\ At(q, "running", e)
      BY <1>2, <2>5
    <3>2. p = q /\ p[1] = "running"
      BY <3>1 DEF At, Sole, SoleInHands, HoldingPc
    <3>3. QED BY <2>5, <3>2 DEF Tag
  <2>6. CASE k = "late"
    <3>1. At(p, "late", e) /\ At(q, "late", e)
      BY <1>2, <2>6
    <3>2. PICK s \in stray : /\ s.command.cmd \in {"LPUSH ready", "ZADD delayed"} /\ s.command.entry = e
                             /\ p = <<"stray", s>>
      BY <3>1 DEF At
    <3>3. PICK r \in stray : /\ r.command.cmd \in {"LPUSH ready", "ZADD delayed"} /\ r.command.entry = e
                             /\ q = <<"stray", r>>
      BY <3>1 DEF At
    <3>4. s = r
      BY <3>2, <3>3 DEF Sole, SoleSent, PuttingCommands
    <3>5. p[1] = "stray"
      BY <3>2
    <3>6. QED BY <2>6, <3>2, <3>3, <3>4, <3>5 DEF Tag
  <2>7. CASE k = "buried"
    <3>1. At(p, "buried", e) /\ At(q, "buried", e)
      BY <1>2, <2>7
    <3>2. PICK s \in stray : /\ s.command.cmd \in {"LPUSH dead"} /\ s.command.entry = e
                             /\ p = <<"stray", s>>
      BY <3>1 DEF At
    <3>3. PICK r \in stray : /\ r.command.cmd \in {"LPUSH dead"} /\ r.command.entry = e
                             /\ q = <<"stray", r>>
      BY <3>1 DEF At
    <3>4. s = r
      BY <3>2, <3>3 DEF Sole, SoleSent, PuttingCommands
    <3>5. p[1] = "stray"
      BY <3>2
    <3>6. QED BY <2>7, <3>2, <3>3, <3>4, <3>5 DEF Tag
  <2>8. QED BY <2>1, <2>2, <2>3, <2>4, <2>5, <2>6, <2>7 DEF Kind, WaitingKind, DeadKind
<1>3. QED BY <1>1, <1>2

\* Some entry of job j is held by the kind k.
InKind(j, k) == \E e \in Entry : e.job = j /\ Held(k, e)

\* A job is in one place, if anywhere.
LEMMA JobPlaces ==
  ASSUME QueueInv, NEW j \in Jobs
  PROVE  /\ Places(j) = {} <=> Absent(j)
         /\ Cardinality(Places(j)) = IF Absent(j) THEN 0 ELSE 1
         /\ \A kinds : IsIn(j, kinds) <=> \E k \in Kind : Tag(k) \in kinds /\ InKind(j, k)
<1> USE QueueInvParts
<1>1. Sole
  BY DEF QueueInv
<1>2. \A p : p \in Places(j) <=> \E k \in Kind : \E e \in Entry : e.job = j /\ At(p, k, e)
  BY PlacesAt
<1>3. \A k \in Kind : \A e \in Entry : Held(k, e) <=> \E p : At(p, k, e)
  BY <1>1, OnePlace
<1>4. Places(j) = {} <=> Absent(j)
  BY <1>2, <1>3 DEF Absent
<1>5. ASSUME NEW p \in Places(j), NEW q \in Places(j) PROVE p = q
  <2>1. PICK k \in Kind, e \in Entry : e.job = j /\ At(p, k, e)
    BY <1>2
  <2>2. PICK l \in Kind, f \in Entry : f.job = j /\ At(q, l, f)
    BY <1>2
  <2>3. k = l /\ e = f
    BY <1>3, <2>1, <2>2 DEF OneKind
  <2>4. QED BY <1>1, <2>1, <2>2, <2>3, OnePlace
<1>6. Cardinality(Places(j)) = IF Absent(j) THEN 0 ELSE 1
  <2>1. CASE Absent(j)
    BY <1>4, <2>1, FS_EmptySet
  <2>2. CASE ~Absent(j)
    <3>1. PICK p : p \in Places(j)
      BY <1>4, <2>2
    <3>2. Places(j) = {p}
      BY <1>5, <3>1
    <3>3. QED BY <2>2, <3>2, FS_Singleton
  <2>3. QED BY <2>1, <2>2
<1>7. \A kinds : IsIn(j, kinds) <=> \E k \in Kind : Tag(k) \in kinds /\ InKind(j, k)
  <2>1. \A p, k : \A e \in Entry : k \in Kind /\ At(p, k, e) => p[1] = Tag(k)
    BY <1>1, OnePlace
  <2>2. QED BY <1>2, <1>3, <2>1 DEF IsIn, InKind
<1>8. QED BY <1>4, <1>6, <1>7

\* DeadAfterAllAttempts: a job is a dead letter only after its handler has failed
\* maxAttempts times, and is never run more often (reschedule()).
THEOREM QueueDeadAfterAllAttempts == Spec => []DeadAfterAllAttempts
<1>1. ASSUME QueueInv PROVE DeadAfterAllAttempts
  <2>1. SUFFICES ASSUME NEW j \in Jobs
                 PROVE  runs[j] <= MaxAttempts /\ (IsIn(j, {"dead"}) => runs[j] = MaxAttempts)
    BY DEF DeadAfterAllAttempts
  <2>2. runs[j] <= MaxAttempts
    BY <1>1, QueueInvParts DEF RunsBounded
  <2>3. ASSUME IsIn(j, {"dead"}) PROVE runs[j] = MaxAttempts
    <3>1. PICK k \in Kind, e \in Entry : Tag(k) \in {"dead"} /\ e.job = j /\ Held(k, e)
      BY <1>1, <2>3, JobPlaces DEF InKind
    <3>2. k \in DeadKind
      BY <3>1 DEF Tag, DeadKind
    <3>3. QED BY <1>1, <3>1, <3>2, QueueInvParts DEF Counted, CountOK
  <2>4. QED BY <2>2, <2>3
<1>2. QED BY <1>1, SpecQueueInv, PTL

\* LossesAreExplained: every accepted job that is in no place any more is accounted for
\* by a failed command or a crash, each of which loses one job at most.
THEOREM QueueLossesAreExplained == Spec => []LossesAreExplained
<1>1. ASSUME QueueInv, Budget PROVE LossesAreExplained
  <2>1. {j \in enqueued \ finished : Places(j) = {}} = Gone
    <3>1. \A j \in enqueued : j \in Jobs
      BY <1>1, QueueInvParts DEF HistoryOK
    <3>2. QED BY <1>1, <3>1, JobPlaces DEF Gone
  <2>2. faults \in Nat /\ crashes \in Nat /\ Cardinality(stray) \in Nat
    BY <1>1, QueueInvParts, SpareTypes
  <2>3. Cardinality(Gone) \in Nat
    <3>1. Gone \subseteq enqueued
      BY DEF Gone
    <3>2. QED BY <1>1, <3>1, QueueInvParts, FS_Subset, FS_CardinalityType
  <2>4. Cardinality(Gone) <= faults + crashes
    BY <1>1, <2>2, <2>3 DEF Budget, Spare
  <2>5. QED BY <2>1, <2>4 DEF LossesAreExplained
<1>2. QED BY <1>1, SpecQueueInv, SpecBudget, PTL
-----------------------------------------------------------------------------
(* The refinement of JobBoard.                                             *)

\* The square of a job on the board, in terms of what is held.
Square(j) ==
    IF j \notin enqueued THEN "new"
    ELSE IF j \in finished THEN "done"
    ELSE IF InKind(j, "running") THEN "running"
    ELSE IF \E k \in WaitingKind : InKind(j, k) THEN "waiting"
    ELSE IF \E k \in DeadKind : InKind(j, k) THEN "dead" ELSE "lost"

\* PlaceOf shows that square: no job is in two places.
LEMMA PlaceIsSquare == QueueInv => \A j \in Jobs : PlaceOf(j) = Square(j)
<1> SUFFICES ASSUME QueueInv, NEW j \in Jobs PROVE PlaceOf(j) = Square(j)
  OBVIOUS
<1> USE QueueInvParts
<1>1. ~(Cardinality(Places(j)) > (IF j \in finished THEN 0 ELSE 1))
  <2>1. j \in finished => Absent(j)
    BY DEF OnlyOpen, Absent
  <2>2. Cardinality(Places(j)) = IF Absent(j) THEN 0 ELSE 1
    BY JobPlaces
  <2>3. QED BY <2>1, <2>2
<1>2. \A kinds : IsIn(j, kinds) <=> \E k \in Kind : Tag(k) \in kinds /\ InKind(j, k)
  BY JobPlaces
<1>3. IsIn(j, {"running"}) <=> InKind(j, "running")
  BY <1>2 DEF Tag, Kind, WaitingKind, DeadKind
<1>4. IsIn(j, {"ready", "delayed", "moving"})
      <=> InKind(j, "ready") \/ InKind(j, "delayed") \/ InKind(j, "moving")
  BY <1>2 DEF Tag, Kind, WaitingKind, DeadKind
<1>5. IsIn(j, {"dead"}) <=> InKind(j, "dead")
  BY <1>2 DEF Tag, Kind, WaitingKind, DeadKind
<1>6. IsIn(j, {"stray"}) <=> InKind(j, "late") \/ InKind(j, "buried")
  BY <1>2 DEF Tag, Kind, WaitingKind, DeadKind
<1>7. (\E s \in stray : s.command.cmd = "LPUSH dead" /\ s.command.entry.job = j)
      <=> InKind(j, "buried")
  <2>1. \A e : Held("buried", e) <=> Sent({"LPUSH dead"}, e)
    BY HeldKinds
  <2>2. \A s \in stray : s.command.cmd = "LPUSH dead" => s.command.entry \in Entry
    BY HoldersHold DEF PuttingCommands
  <2>3. QED BY <2>1, <2>2 DEF InKind, Sent
<1>8. \A k, l \in Kind : InKind(j, k) /\ InKind(j, l) => k = l
  BY DEF InKind, OneKind
<1>9. (\E k \in WaitingKind : InKind(j, k))
      <=> InKind(j, "ready") \/ InKind(j, "delayed") \/ InKind(j, "moving") \/ InKind(j, "late")
  BY DEF WaitingKind
<1>10. (\E k \in DeadKind : InKind(j, k)) <=> InKind(j, "dead") \/ InKind(j, "buried")
  BY DEF DeadKind
<1>11. {"running", "dead", "late", "buried"} \subseteq Kind
  BY DEF Kind, WaitingKind, DeadKind
<1>12. \A k \in Kind : InKind(j, k) => j \in enqueued /\ j \notin finished
  BY DEF OnlyOpen, InKind
<1>13. finished \subseteq enqueued
  BY DEF HistoryOK
<1>14. ASSUME NEW k \in Kind, InKind(j, k) PROVE PlaceOf(j) = Square(j)
  <2>1. \A l \in {"running", "ready", "delayed", "moving", "late", "dead", "buried"} :
            InKind(j, l) <=> k = l
    BY <1>8, <1>14 DEF Kind, WaitingKind, DeadKind
  <2>2. j \in enqueued /\ j \notin finished
    BY <1>12, <1>14
  <2>3. k \in {"running", "ready", "delayed", "moving", "late", "dead", "buried"}
    BY DEF Kind, WaitingKind, DeadKind
  <2>4. Square(j) = IF k = "running" THEN "running"
                    ELSE IF k \in WaitingKind THEN "waiting" ELSE "dead"
    BY <1>9, <1>10, <2>1, <2>2, <2>3 DEF Square, WaitingKind
  <2>5. CASE k = "running"
    <3>1. /\ IsIn(j, {"running"}) /\ ~IsIn(j, {"ready", "delayed", "moving"})
          /\ ~IsIn(j, {"dead"}) /\ ~IsIn(j, {"stray"})
      BY <1>3, <1>4, <1>5, <1>6, <2>1, <2>5
    <3>2. PlaceOf(j) = "running"
      BY <1>1, <2>2, <3>1 DEF PlaceOf
    <3>3. QED BY <2>4, <2>5, <3>2
  <2>6. CASE k \in {"ready", "delayed", "moving"}
    <3>1. /\ ~IsIn(j, {"running"}) /\ IsIn(j, {"ready", "delayed", "moving"})
          /\ ~IsIn(j, {"dead"}) /\ ~IsIn(j, {"stray"})
      BY <1>3, <1>4, <1>5, <1>6, <2>1, <2>6
    <3>2. PlaceOf(j) = "waiting"
      BY <1>1, <2>2, <3>1 DEF PlaceOf
    <3>3. QED BY <2>4, <2>6, <3>2 DEF WaitingKind
  <2>7. CASE k = "dead"
    <3>1. /\ ~IsIn(j, {"running"}) /\ ~IsIn(j, {"ready", "delayed", "moving"})
          /\ IsIn(j, {"dead"}) /\ ~IsIn(j, {"stray"})
      BY <1>3, <1>4, <1>5, <1>6, <2>1, <2>7
    <3>2. PlaceOf(j) = "dead"
      BY <1>1, <2>2, <3>1 DEF PlaceOf
    <3>3. QED BY <2>4, <2>7, <3>2 DEF WaitingKind
  <2>8. CASE k \in {"late", "buried"}
    <3>1. /\ ~IsIn(j, {"running"}) /\ ~IsIn(j, {"ready", "delayed", "moving"})
          /\ ~IsIn(j, {"dead"}) /\ IsIn(j, {"stray"})
      BY <1>3, <1>4, <1>5, <1>6, <2>1, <2>8
    <3>2. (\E s \in stray : s.command.cmd = "LPUSH dead" /\ s.command.entry.job = j) <=> k = "buried"
      BY <1>7, <2>1
    <3>3. PlaceOf(j) = IF k = "buried" THEN "dead" ELSE "waiting"
      BY <1>1, <2>2, <3>1, <3>2 DEF PlaceOf
    <3>4. QED BY <2>4, <2>8, <3>3 DEF WaitingKind
  <2>9. QED BY <2>3, <2>5, <2>6, <2>7, <2>8
<1>15. ASSUME \A k \in Kind : ~InKind(j, k) PROVE PlaceOf(j) = Square(j)
  <2>1. /\ ~IsIn(j, {"running"}) /\ ~IsIn(j, {"ready", "delayed", "moving"})
        /\ ~IsIn(j, {"dead"}) /\ ~IsIn(j, {"stray"})
    BY <1>2, <1>15
  <2>2. Square(j) = IF j \notin enqueued THEN "new" ELSE IF j \in finished THEN "done" ELSE "lost"
    BY <1>15 DEF Square, Kind
  <2>3. CASE j \notin enqueued
    BY <1>1, <1>13, <2>1, <2>2, <2>3 DEF PlaceOf
  <2>4. CASE j \in finished
    BY <1>1, <1>13, <2>1, <2>2, <2>4 DEF PlaceOf
  <2>5. CASE j \in enqueued /\ j \notin finished
    BY <1>1, <2>1, <2>2, <2>5 DEF PlaceOf
  <2>6. QED BY <2>3, <2>4, <2>5
<1>16. QED BY <1>14, <1>15

\* ... in the next state too.
LEMMA PlaceIsSquarePrimed == QueueInv' => \A j \in Jobs : PlaceOf(j)' = Square(j)'
<1>1. (QueueInv => \A j \in Jobs : PlaceOf(j) = Square(j))'
  BY PlaceIsSquare, PTL
<1>2. QED BY <1>1

\* The square of the jobs that kind k holds.
SquareOf(k) == IF k = "running" THEN "running" ELSE IF k \in WaitingKind THEN "waiting" ELSE "dead"

\* A job is on the square of the kind that holds it.
LEMMA HeldSquare ==
  QueueInv => \A k \in Kind : \A e \in Entry : Held(k, e) => Square(e.job) = SquareOf(k)
<1> SUFFICES ASSUME QueueInv, NEW k \in Kind, NEW e \in Entry, Held(k, e)
             PROVE  Square(e.job) = SquareOf(k)
  OBVIOUS
<1>1. e.job \in enqueued \ finished
  BY QueueInvParts DEF OnlyOpen
<1>2. \A l \in Kind : InKind(e.job, l) <=> l = k
  BY QueueInvParts DEF OneKind, InKind
<1>3. QED BY <1>1, <1>2 DEF Square, SquareOf, Kind, WaitingKind, DeadKind

\* ... in the next state too.
LEMMA HeldSquarePrimed ==
  QueueInv' => \A k \in Kind : \A e \in Entry : Held(k, e)' => Square(e.job)' = SquareOf(k)
<1>1. (QueueInv => \A k \in Kind : \A e \in Entry : Held(k, e) => Square(e.job) = SquareOf(k))'
  BY HeldSquare, PTL
<1>2. QED BY <1>1
\* A job that is not held is new, done or lost.
LEMMA NotHeldSquare ==
  ASSUME NEW j, \A k \in Kind : ~InKind(j, k)
  PROVE  Square(j) = IF j \notin enqueued THEN "new" ELSE IF j \in finished THEN "done" ELSE "lost"
  BY DEF Square, Kind

\* ... in the next state too.
LEMMA NotHeldSquarePrimed ==
  ASSUME NEW j, \A k \in Kind : ~InKind(j, k)'
  PROVE  Square(j)' = IF j \notin enqueued' THEN "new" ELSE IF j \in finished' THEN "done" ELSE "lost"
  BY DEF Square, Kind

\* A move changes the square of its job only.
LEMMA MovedSquares ==
  ASSUME NEW from, NEW e, NEW to, NEW f \in Entry, Moved(from, e, to, f), Alone(from, e, f.job),
         from \in Kind => e.job = f.job,
         \A j \in Jobs \ {f.job} : /\ j \in enqueued' <=> j \in enqueued
                                   /\ j \in finished' <=> j \in finished
  PROVE  /\ \A j \in Jobs \ {f.job} : Square(j)' = Square(j)
         /\ to \in Kind => Held(to, f)'
         /\ to \notin Kind => \A k \in Kind : ~InKind(f.job, k)'
<1>1. \A k \in Kind : \A g \in Entry :
          Held(k, g)' <=> IF g.job = f.job THEN k = to /\ g = f ELSE Held(k, g)
  BY AfterMove
<1>2. ASSUME NEW j \in Jobs \ {f.job} PROVE Square(j)' = Square(j)
  <2>1. \A k \in Kind : InKind(j, k)' <=> InKind(j, k)
    BY <1>1 DEF InKind
  <2>2. "running" \in Kind /\ WaitingKind \subseteq Kind /\ DeadKind \subseteq Kind
    BY DEF Kind
  <2>3. (\E k \in WaitingKind : InKind(j, k)') <=> (\E k \in WaitingKind : InKind(j, k))
    BY <2>1, <2>2
  <2>4. (\E k \in DeadKind : InKind(j, k)') <=> (\E k \in DeadKind : InKind(j, k))
    BY <2>1, <2>2
  <2>5. QED BY <2>1, <2>2, <2>3, <2>4 DEF Square
<1>3. to \in Kind => Held(to, f)'
  BY <1>1
<1>4. to \notin Kind => \A k \in Kind : ~InKind(f.job, k)'
  BY <1>1 DEF InKind
<1>5. QED BY <1>2, <1>3, <1>4

\* The board in the next state, when the square of one job changes.
LEMMA BoardChanges ==
  ASSUME QueueInv, QueueInv', NEW j \in Jobs, NEW from, NEW to, Square(j) = from, Square(j)' = to,
         \A i \in Jobs \ {j} : Square(i)' = Square(i)
  PROVE  B!Move(j, from, to)
<1>1. \A i \in Jobs : PlaceOf(i) = Square(i) /\ PlaceOf(i)' = Square(i)'
  BY PlaceIsSquare, PlaceIsSquarePrimed
<1>2. [i \in Jobs |-> PlaceOf(i)][j] = from
  BY <1>1
<1>3. [i \in Jobs |-> PlaceOf(i)'] = [[i \in Jobs |-> PlaceOf(i)] EXCEPT ![j] = to]
  BY <1>1
<1>4. QED BY <1>2, <1>3 DEF B!Move

\* ... and when none does.
LEMMA BoardStays ==
  ASSUME QueueInv, QueueInv', \A i \in Jobs : Square(i)' = Square(i), UNCHANGED runs
  PROVE  UNCHANGED <<[i \in Jobs |-> PlaceOf(i)], runs>>
<1>1. \A i \in Jobs : PlaceOf(i) = Square(i) /\ PlaceOf(i)' = Square(i)'
  BY PlaceIsSquare, PlaceIsSquarePrimed
<1>2. [i \in Jobs |-> PlaceOf(i)'] = [i \in Jobs |-> PlaceOf(i)]
  BY <1>1
<1>3. QED BY <1>2

\* Every move of an entry is a move on the board, or changes nothing there.
LEMMA BoardStep ==
  ASSUME QueueInv, QueueInv', TokenStep
  PROVE  B!Next \/ UNCHANGED <<[i \in Jobs |-> PlaceOf(i)], runs>>
<1> USE QueueInvParts
<1>1. CASE Stays
  <2>1. \A k \in Kind : \A g \in Entry : Held(k, g)' <=> Held(k, g)
    BY <1>1 DEF Stays
  <2>2. enqueued' = enqueued /\ finished' = finished /\ runs' = runs
    BY <1>1 DEF Stays, history
  <2>3. ASSUME NEW j \in Jobs PROVE Square(j)' = Square(j)
    <3>1. \A k \in Kind : InKind(j, k)' <=> InKind(j, k)
      BY <2>1 DEF InKind
    <3>2. "running" \in Kind /\ WaitingKind \subseteq Kind /\ DeadKind \subseteq Kind
      BY DEF Kind
    <3>3. (\E k \in WaitingKind : InKind(j, k)') <=> (\E k \in WaitingKind : InKind(j, k))
      BY <3>1, <3>2
    <3>4. (\E k \in DeadKind : InKind(j, k)') <=> (\E k \in DeadKind : InKind(j, k))
      BY <3>1, <3>2
    <3>5. QED BY <2>2, <3>1, <3>2, <3>3, <3>4 DEF Square
  <2>4. QED BY <2>2, <2>3, BoardStays
<1>2. ASSUME NEW j \in Jobs, Accepts(j) PROVE B!Next
  <2> DEFINE f == [job |-> j, attempt |-> 0]
  <2>1. PICK to \in {"ready", "late", "nowhere"} : Moved("nowhere", NoEntry, to, f)
    BY <1>2 DEF Accepts
  <2>2. /\ j \notin enqueued /\ enqueued' = enqueued \cup {j}
        /\ finished' = finished /\ runs' = runs
        /\ f \in Entry /\ f.job = j
    BY <1>2, JobQueueAssumption DEF Accepts, Entry
  <2> HIDE DEF f
  <2>3. Alone("nowhere", NoEntry, f.job) /\ \A k \in Kind : ~InKind(j, k)
    BY <2>2, HeldAlone DEF OnlyOpen, Absent, InKind
  <2>4. "nowhere" \notin Kind /\ {"ready", "late"} \subseteq Kind
    BY DEF Kind, WaitingKind, DeadKind
  <2>5. /\ \A i \in Jobs \ {j} : Square(i)' = Square(i)
        /\ to \in Kind => Held(to, f)'
        /\ to \notin Kind => \A k \in Kind : ~InKind(j, k)'
    BY <2>1, <2>2, <2>3, <2>4, MovedSquares
  <2>6. Square(j) = "new"
    BY <2>2, <2>3, NotHeldSquare
  <2>7. CASE to \in Kind
    <3>1. Square(j)' = "waiting"
      <4>1. SquareOf(to) = "waiting"
        BY <2>1, <2>4, <2>7 DEF SquareOf, WaitingKind
      <4>2. Held(to, f)'
        BY <2>5, <2>7
      <4>3. Square(f.job)' = SquareOf(to)
        BY <2>2, <2>7, <4>2, HeldSquarePrimed
      <4>4. QED BY <2>2, <4>1, <4>3
    <3>2. B!Move(j, "new", "waiting")
      BY <2>5, <2>6, <3>1, BoardChanges
    <3>3. QED BY <2>2, <3>2 DEF B!Next, B!Accept
  <2>8. CASE to \notin Kind
    <3>1. Square(j)' = "lost"
      <4>1. j \in enqueued' /\ j \notin finished'
        BY <2>2 DEF HistoryOK
      <4>2. QED BY <2>5, <2>8, <4>1, NotHeldSquarePrimed
    <3>2. B!Move(j, "new", "lost")
      BY <2>5, <2>6, <3>1, BoardChanges
    <3>3. QED BY <2>2, <3>2 DEF B!Next, B!Lose
  <2>9. QED BY <2>7, <2>8
<1>3. ASSUME NEW e \in Entry, NEW from \in Kind, Held(from, e), NEW to, NEW f \in Entry,
             f.job = e.job, Moved(from, e, to, f), enqueued' = enqueued,
             finished' = finished \/ finished' = finished \cup {e.job}
      PROVE  /\ e.job \in Jobs /\ e.job \in enqueued' /\ Square(e.job) = SquareOf(from)
             /\ \A i \in Jobs \ {e.job} : Square(i)' = Square(i)
             /\ to \in Kind => Square(e.job)' = SquareOf(to)
             /\ to \notin Kind => Square(e.job)' = IF e.job \in finished' THEN "done" ELSE "lost"
             /\ e.job \notin finished
  <2>1. Alone(from, e, f.job)
    BY <1>3, HeldAlone
  <2>2. /\ \A i \in Jobs \ {f.job} : Square(i)' = Square(i)
        /\ to \in Kind => Held(to, f)'
        /\ to \notin Kind => \A k \in Kind : ~InKind(f.job, k)'
    BY <1>3, <2>1, MovedSquares
  <2>3. e.job \in Jobs /\ e.job \in enqueued' /\ Square(e.job) = SquareOf(from) /\ e.job \notin finished
    BY <1>3, EntryFields, HeldSquare DEF OnlyOpen
  <2>4. to \in Kind => Square(e.job)' = SquareOf(to)
    BY <1>3, <2>2, HeldSquarePrimed
  <2>5. to \notin Kind => Square(e.job)' = IF e.job \in finished' THEN "done" ELSE "lost"
    BY <1>3, <2>2, <2>3, NotHeldSquarePrimed
  <2>6. QED BY <1>3, <2>2, <2>3, <2>4, <2>5
<1>4. "nowhere" \notin Kind /\ {"ready", "running", "delayed", "late", "dead", "buried"} \subseteq Kind
      /\ WaitingKind \subseteq Kind
  BY DEF Kind, WaitingKind, DeadKind
<1>5. ASSUME NEW e \in Entry, Passes(e) PROVE UNCHANGED <<[i \in Jobs |-> PlaceOf(i)], runs>>
  <2>1. PICK from \in Kind, to \in Kind :
            /\ Held(from, e) /\ Moved(from, e, to, e)
            /\ \/ from \in WaitingKind /\ to \in WaitingKind
               \/ from = "buried" /\ to = "dead"
    BY <1>5 DEF Passes
  <2>2. enqueued' = enqueued /\ finished' = finished /\ runs' = runs
    BY <1>5 DEF Passes, history
  <2>3. /\ Square(e.job) = SquareOf(from) /\ Square(e.job)' = SquareOf(to)
        /\ \A i \in Jobs \ {e.job} : Square(i)' = Square(i)
    BY <1>3, <2>1, <2>2
  <2>4. SquareOf(from) = SquareOf(to)
    BY <2>1 DEF SquareOf, WaitingKind
  <2>5. QED BY <2>2, <2>3, <2>4, BoardStays
<1>6. ASSUME NEW e \in Entry, Loses(e) PROVE B!Next
  <2>1. PICK from \in WaitingKind \cup {"running"} : Held(from, e) /\ Moved(from, e, "nowhere", e)
    BY <1>6 DEF Loses
  <2>2. enqueued' = enqueued /\ finished' = finished /\ runs' = runs
    BY <1>6 DEF Loses, history
  <2>3. /\ e.job \in Jobs /\ Square(e.job) = SquareOf(from) /\ Square(e.job)' = "lost"
        /\ \A i \in Jobs \ {e.job} : Square(i)' = Square(i)
    BY <1>3, <1>4, <2>1, <2>2
  <2>4. SquareOf(from) \in {"waiting", "running"}
    BY <2>1 DEF SquareOf
  <2>5. B!Move(e.job, SquareOf(from), "lost")
    BY <2>3, BoardChanges
  <2>6. B!Lose(e.job)
    BY <2>2, <2>4, <2>5 DEF B!Lose
  <2>7. QED BY <2>3, <2>6 DEF B!Next
<1>7. ASSUME NEW e \in Entry, Takes(e) PROVE B!Next
  <2>1. /\ Held("ready", e) /\ Moved("ready", e, "running", e)
        /\ runs' = [runs EXCEPT ![e.job] = @ + 1] /\ enqueued' = enqueued /\ finished' = finished
    BY <1>7 DEF Takes
  <2>2. /\ e.job \in Jobs /\ Square(e.job) = SquareOf("ready") /\ Square(e.job)' = SquareOf("running")
        /\ \A i \in Jobs \ {e.job} : Square(i)' = Square(i)
    BY <1>3, <1>4, <2>1
  <2>3. SquareOf("ready") = "waiting" /\ SquareOf("running") = "running"
    BY DEF SquareOf, WaitingKind
  <2>4. B!Move(e.job, "waiting", "running")
    BY <2>2, <2>3, BoardChanges
  <2>5. runs[e.job] < MaxAttempts
    BY <1>4, <2>1 DEF Counted, CountOK, WaitingKind
  <2>6. QED BY <2>1, <2>2, <2>4, <2>5 DEF B!Next, B!Take
<1>8. ASSUME NEW e \in Entry, Finishes(e) PROVE B!Next
  <2>1. /\ Held("running", e) /\ Moved("running", e, "nowhere", e)
        /\ runs' = runs /\ enqueued' = enqueued /\ finished' = finished \cup {e.job}
    BY <1>8 DEF Finishes
  <2>2. /\ e.job \in Jobs /\ Square(e.job) = SquareOf("running") /\ Square(e.job)' = "done"
        /\ \A i \in Jobs \ {e.job} : Square(i)' = Square(i)
    BY <1>3, <1>4, <2>1
  <2>3. SquareOf("running") = "running"
    BY DEF SquareOf
  <2>4. B!Move(e.job, "running", "done")
    BY <2>2, <2>3, BoardChanges
  <2>5. QED BY <2>1, <2>2, <2>4 DEF B!Next, B!Finish
<1>9. ASSUME NEW e \in Entry, NEW f \in Entry, Reschedules(e, f) PROVE B!Next
  <2>1. /\ Held("running", e) /\ f.job = e.job /\ f.attempt = e.attempt + 1
        /\ enqueued' = enqueued /\ finished' = finished /\ runs' = runs
    BY <1>9 DEF Reschedules, history
  <2>2. PICK to \in {"delayed", "late", "dead", "buried"} :
            Moved("running", e, to, f) /\ (to \in DeadKind <=> f.attempt = MaxAttempts)
    BY <1>9 DEF Reschedules
  <2>3. /\ e.job \in Jobs /\ Square(e.job) = SquareOf("running") /\ Square(e.job)' = SquareOf(to)
        /\ \A i \in Jobs \ {e.job} : Square(i)' = Square(i)
    BY <1>3, <1>4, <2>1, <2>2
  <2>4. SquareOf("running") = "running" /\ SquareOf(to) = IF to \in DeadKind THEN "dead" ELSE "waiting"
    BY <2>2 DEF SquareOf, WaitingKind, DeadKind
  <2>5. runs[e.job] = f.attempt /\ runs[e.job] <= MaxAttempts
    BY <1>4, <2>1, <2>3 DEF Counted, CountOK, RunsBounded
  <2>6. B!Move(e.job, "running", SquareOf(to))
    BY <2>3, <2>4, BoardChanges
  <2>7. CASE to \in DeadKind
    <3>1. B!Bury(e.job)
      BY <2>1, <2>2, <2>4, <2>5, <2>6, <2>7 DEF B!Bury
    <3>2. QED BY <2>3, <3>1 DEF B!Next
  <2>8. CASE to \notin DeadKind
    <3>1. runs[e.job] < MaxAttempts
      <4>1. f.attempt \in Nat /\ MaxAttempts \in Nat /\ f.attempt # MaxAttempts
        BY <2>2, <2>8, EntryFields, JobQueueAssumption
      <4>2. QED BY <2>5, <4>1
    <3>2. B!Retry(e.job)
      BY <2>1, <2>4, <2>6, <2>8, <3>1 DEF B!Retry
    <3>3. QED BY <2>3, <3>2 DEF B!Next
  <2>9. QED BY <2>7, <2>8
<1>10. QED BY <1>1, <1>2, <1>5, <1>6, <1>7, <1>8, <1>9 DEF TokenStep

\* ImplementsJobBoard: the Redis commands of any number of workers, in any interleaving and
\* with any failures, amount to the atomic moves of the board; in particular no job is ever
\* in two places, so no two workers run it (poll(), releaseDueJobs()).
THEOREM QueueImplementsJobBoard == Spec => ImplementsJobBoard
<1>1. Init => B!Init
  <2>1. SUFFICES ASSUME Init PROVE B!Init
    OBVIOUS
  <2>2. QueueInv
    BY <2>1, InitQueueInv
  <2>3. ASSUME NEW j \in Jobs PROVE PlaceOf(j) = "new"
    <3>1. PlaceOf(j) = Square(j)
      BY <2>2, PlaceIsSquare
    <3>2. QED BY <2>1, <3>1 DEF Init, Square
  <2>4. QED BY <2>1, <2>3 DEF Init, B!Init
<1>2. QueueInv /\ QueueInv' /\ [Next]_queueVars
      => [B!Next]_<<[j \in Jobs |-> PlaceOf(j)], runs>>
  BY StepMoves, BoardStep
<1>3. Spec => B!Init
  BY <1>1, PTL DEF Spec
<1>4. Spec => [][B!Next]_<<[j \in Jobs |-> PlaceOf(j)], runs>>
  BY <1>2, SpecQueueInv, PTL DEF Spec
<1>5. Spec => B!Spec
  BY <1>3, <1>4, PTL DEF B!Spec
<1>6. QED BY <1>5 DEF ImplementsJobBoard
=============================================================================
