------------------------ MODULE ClientSessionProofs -------------------------
(***************************************************************************)
(* Theorems about ClientSession for any number of users, of requests under *)
(* way, of tokens that expire and of faults: three arguments, each built   *)
(* on the one before.                                                      *)
(*                                                                         *)
(* A logout stays one (SessionInv): only a recovery, the Ui or a rival     *)
(* writes to the store, a recovery that begins after the logout reads no   *)
(* session, and a rival, or a recovery that began before, has clashed.     *)
(*                                                                         *)
(* The till is one user's (UserInv): every token in hand was issued to the *)
(* user who is signed in, and only a login brings those of another.        *)
(*                                                                         *)
(* Nobody is signed out without a reason (ReasonInv): what is read, given  *)
(* or written is a whole session, and no recovery that has begun can fail. *)
(*                                                                         *)
(* The last two hold until something clashes, which it does for ever.      *)
(***************************************************************************)
EXTENDS ClientSession, FiniteSetTheorems, TLAPS

\* What each kind of task may be doing.
RoleOK(t, q) ==
    /\ t \in UiTasks => q.job # "call" /\ (q.recovering => q.job = "me")
    /\ t \notin UiTasks => /\ q.job \in {"none", "call"}
                           /\ q.recovering => q.job = "call"
                           /\ q.at \in {"reading", "writing", "clearing"} => q.recovering
    /\ q.job = "none" => q.at = "idle"
    /\ q.job = "logout" => q.at = "clearing"

\* What a task has in hand when its next step needs it.
InHand(q) ==
    /\ q.todo # <<>> <=> q.at \in {"reading", "writing", "clearing"}
    /\ q.job = "login" => q.user \in Users
    /\ q.at = "writing" \/ (q.at = "answered" /\ q.answer = "ok") => q.held.user \in Users
    /\ q.at = "asking" /\ Route(q) = "refresh" => q.held.refresh # 0

TasksOK == \A t \in Tasks : RoleOK(t, tasks[t]) /\ InHand(tasks[t])

\* How far a logout has got with the store.
HasCleared(todo) ==
    \/ todo = Keys
    \/ todo = <<"refresh", "user">> /\ store.token = 0
    \/ todo = <<"user">> /\ store.token = 0 /\ store.refresh = 0

\* A request that is recovered finds nothing.
FindsNothing(q) == \/ q.at = "reading" /\ q.held = NoSession
                   \/ q.at = "clearing"

LogoutInv ==
    ~clash =>
        /\ ~astray /\ \A r \in Rivals : tasks[r] = Idle
        /\ tasks[Ui] = Idle \/ \A c \in Calls : ~tasks[c].recovering
        /\ tasks[Ui].job = "logout" => HasCleared(tasks[Ui].todo)
        /\ left => /\ auth.status = "unauthenticated" /\ tasks[Ui].job = "none"
                   /\ store = NoSession /\ bearer = 0
                   /\ \A c \in Calls : tasks[c].recovering => FindsNothing(tasks[c])

SessionInv == SessionTypeOK /\ TasksOK /\ LogoutInv

\* What every step does with the flags.
Flagged ==
    /\ astray' = (auth'.status # "unknown" /\ (astray \/ Overlap'))
    /\ clash' = (clash \/ Clashing')

-----------------------------------------------------------------------------
\* One key after the other.
LEMMA TodoStep ==
    ASSUME NEW todo \in Todos, todo # <<>>
    PROVE  /\ Tail(todo) \in Todos
           /\ Head(todo) \in {"token", "refresh", "user"}
           /\ todo = Keys => Head(todo) = "token" /\ Tail(todo) = <<"refresh", "user">>
           /\ todo = <<"refresh", "user">> => Head(todo) = "refresh" /\ Tail(todo) = <<"user">>
           /\ todo = <<"user">> => Head(todo) = "user" /\ Tail(todo) = <<>>
<1>1. CASE todo = Keys
  BY <1>1 DEF Todos, Keys
<1>2. CASE todo = <<"refresh", "user">>
  BY <1>2 DEF Todos, Keys
<1>3. CASE todo = <<"user">>
  BY <1>3 DEF Todos, Keys
<1> QED BY <1>1, <1>2, <1>3 DEF Todos

\* There are keys to access.
LEMMA KeysNotEmpty == Keys \in Todos /\ Keys # <<>>
  BY DEF Keys, Todos

\* A task and no session are of their types, and an idle task is in order.
LEMMA IdleOK ==
    ASSUME NEW t \in Tasks, issued \in Seq(Users)
    PROVE  NoSession \in Session /\ Idle \in Task /\ RoleOK(t, Idle) /\ InHand(Idle)
<1>1. Len(issued) \in Nat
  OBVIOUS
<1>2. NoSession \in Session
  BY <1>1 DEF NoSession, Session, Pair
<1>3. Idle \in Task
  BY <1>1, <1>2 DEF Idle, Task, Pair, Todos
<1>4. RoleOK(t, Idle) /\ InHand(Idle)
  BY DEF RoleOK, InHand, Idle, Route
<1> QED BY <1>2, <1>3, <1>4

-----------------------------------------------------------------------------
AuthOK ==
    /\ auth \in [status : {"unknown", "unauthenticated", "authenticated"},
                 user : Users \cup {NoUser}, entering : BOOLEAN]
    /\ auth.status = "authenticated" <=> auth.user # NoUser

\* A step of one task, with the backend as it was.
LEMMA TaskStep ==
    ASSUME SessionTypeOK, TasksOK, NEW t \in Tasks, NEW q \in Task,
           Set(t, q), RoleOK(t, q), InHand(q),
           store' \in Session, bearer' \in Pair, AuthOK',
           {flushing', left', astray', clash'} \subseteq BOOLEAN,
           calls' \in 0 .. MaxCalls, signIns' \in 0 .. MaxSignIns, faults' \in 0 .. MaxFaults,
           UNCHANGED <<backend, boot, torn>>
    PROVE  SessionTypeOK' /\ TasksOK'
<1>1. issued' = issued /\ Pair' = Pair /\ Session' = Session /\ Task' = Task
  BY DEF backend, Pair, Session, Task
<1>2. tasks' \in [Tasks -> Task] /\ \A u \in Tasks : tasks'[u] = IF u = t THEN q ELSE tasks[u]
  BY DEF Set, SessionTypeOK
<1>3. TasksOK'
  BY <1>2 DEF TasksOK, RoleOK, InHand, Route
<1>4. \A u \in Tasks : tasks'[u].todo # <<>>
                            <=> tasks'[u].at \in {"reading", "writing", "clearing"}
  BY <1>3 DEF TasksOK, InHand
<1>5. SessionTypeOK'
  BY <1>1, <1>2, <1>4 DEF SessionTypeOK, AuthOK, backend
<1> QED BY <1>3, <1>5

\* Whether there has been a clash is a Boolean, and if there has been none the sign ins
\* and outs have not overlapped.
LEMMA ClashIsBoolean ==
    ASSUME SessionInv, Flagged
    PROVE  /\ clash' \in BOOLEAN /\ astray' \in BOOLEAN
           /\ ~clash' => /\ ~clash /\ ~astray' /\ \A r \in Rivals : tasks'[r] = Idle
                         /\ tasks'[Ui] = Idle \/ \A c \in Calls : ~tasks'[c].recovering
  BY DEF Flagged, SessionInv, LogoutInv, Clashing, Overlap

\* As long as there is no clash a task that is at work is the Ui's or a request.
LEMMA NoRival ==
    ASSUME SessionInv, NEW t \in Tasks, tasks[t].at # "idle"
    PROVE  /\ ~clash /\ t \in UiTasks => t = Ui
           /\ t \notin UiTasks => t \in Calls
  BY DEF SessionInv, LogoutInv, UiTasks, Tasks, Idle

\* A step of one task that leaves the store alone, and the token if it matters.
LEMMA LogoutFrame ==
    ASSUME SessionInv, NEW t \in Tasks, NEW q, Set(t, q), Flagged,
           UNCHANGED store, left' /\ ~clash => left /\ auth'.status = "unauthenticated",
           t = Ui => (left' /\ ~clash => q.job = "none") /\ (q.job = "logout" => q.todo = Keys),
           t # Ui /\ left' /\ ~clash /\ q.recovering => FindsNothing(q),
           left' /\ ~clash => bearer' = 0
    PROVE  LogoutInv'
<1>1. Ui \in Tasks /\ Calls \subseteq Tasks /\ Ui \notin Calls
  BY SessionAssumption DEF Tasks, UiTasks, Ui
<1>2. \A u \in Tasks : tasks'[u] = IF u = t THEN q ELSE tasks[u]
  BY DEF Set, SessionInv, SessionTypeOK
<1> SUFFICES ASSUME ~clash' PROVE LogoutInv'
  BY DEF LogoutInv
<1>3. /\ ~clash /\ ~astray' /\ \A r \in Rivals : tasks'[r] = Idle
      /\ tasks'[Ui] = Idle \/ \A c \in Calls : ~tasks'[c].recovering
  BY ClashIsBoolean
<1>4. left' => auth'.status = "unauthenticated" /\ tasks'[Ui].job = "none"
  BY <1>1, <1>2, <1>3 DEF SessionInv, LogoutInv
<1>5. tasks'[Ui].job = "logout" => HasCleared(tasks[Ui].todo)'
  BY <1>1, <1>2, <1>3 DEF SessionInv, LogoutInv, HasCleared
<1>6. ASSUME left'
      PROVE  /\ store' = NoSession /\ bearer' = 0
             /\ \A c \in Calls : tasks'[c].recovering => FindsNothing(tasks'[c])
  BY <1>1, <1>2, <1>3, <1>6 DEF SessionInv, LogoutInv
<1> QED BY <1>3, <1>4, <1>5, <1>6 DEF LogoutInv, FindsNothing

\* What becomes of a task.
LEMMA Forms ==
    ASSUME NEW task \in Task, NEW session \in Session, NEW pair \in Pair,
           NEW answer \in {"ok", "unauthorized", "lost"}, issued \in Seq(Users)
    PROVE  /\ Clearing(task) \in Task /\ Writing(task, session) \in Task
           /\ Asking(task, pair) \in Task /\ Asking(task, 0) \in Task
           /\ Reading(task) \in Task /\ Answered(task, answer, session) \in Task
<1>1. 0 \in Pair /\ NoSession \in Session /\ Keys \in Todos
  BY IdleOK, KeysNotEmpty DEF Pair, NoSession, Session, Tasks
<1> QED BY <1>1 DEF Clearing, Writing, Asking, Reading, Answered, Task

\* The task of a step, and the types it starts from.
LEMMA Given ==
    ASSUME SessionInv, NEW t \in Tasks
    PROVE  /\ tasks[t] \in Task /\ RoleOK(t, tasks[t]) /\ InHand(tasks[t])
           /\ issued \in Seq(Users) /\ Len(issued) \in Nat /\ 0 \in Pair
           /\ store \in Session /\ bearer \in Pair /\ AuthOK
           /\ flushing \in BOOLEAN /\ left \in BOOLEAN /\ clash \in BOOLEAN
           /\ auth.entering \in BOOLEAN
           /\ calls \in 0 .. MaxCalls /\ signIns \in 0 .. MaxSignIns /\ faults \in 0 .. MaxFaults
           /\ MaxCalls \in Nat /\ MaxSignIns \in Nat /\ MaxFaults \in Nat
           /\ NoUser \notin Users
<1>1. issued \in Seq(Users) /\ Len(issued) \in Nat
  BY DEF SessionInv, SessionTypeOK
<1> QED BY <1>1, SessionAssumption DEF SessionInv, SessionTypeOK, TasksOK, AuthOK, Pair

\* The user signs in.
LEMMA LoginKeeps ==
    ASSUME SessionInv, NEW t \in UiTasks, NEW u \in Users, Login(t, u), Flagged
    PROVE  SessionInv'
<1> DEFINE q == Asking([Idle EXCEPT !.job = "login", !.user = u], 0)
<1>1. t \in Tasks
  BY DEF Tasks
<1>2. q \in Task /\ RoleOK(t, q) /\ InHand(q)
  BY <1>1, IdleOK, Given DEF Asking, Idle, Task, Todos, RoleOK, InHand, Route
<1>3. SessionTypeOK' /\ TasksOK'
  <2>1. Set(t, q) /\ signIns' \in 0 .. MaxSignIns
    BY <1>1, Given DEF Login
  <2>2. UNCHANGED <<store, bearer, auth, flushing, boot, torn, backend, calls, faults>>
    BY DEF Login
  <2>3. AuthOK' /\ left' \in BOOLEAN
    BY <1>1, <2>2, Given DEF AuthOK, Login
  <2> HIDE DEF q
  <2> QED BY <1>1, <1>2, <2>1, <2>2, <2>3, Given, ClashIsBoolean, TaskStep DEF SessionInv
<1>4. LogoutInv'
  <2>1. Set(t, q) /\ ~left' /\ UNCHANGED store /\ q.job = "login"
    BY DEF Login, Asking, Idle
  <2> HIDE DEF q
  <2> QED BY <1>1, <2>1, LogoutFrame
<1> QED BY <1>3, <1>4 DEF SessionInv

\* The user signs out.
LEMMA LogoutKeeps ==
    ASSUME SessionInv, NEW t \in UiTasks, Logout(t), Flagged
    PROVE  SessionInv'
<1> DEFINE q == Clearing([Idle EXCEPT !.job = "logout"])
<1>1. t \in Tasks
  BY DEF Tasks
<1>2. q \in Task /\ RoleOK(t, q) /\ InHand(q)
  BY <1>1, IdleOK, Given, KeysNotEmpty
     DEF Clearing, Idle, Task, Todos, RoleOK, InHand, Route
<1>0. /\ Set(t, q)
      /\ UNCHANGED <<store, bearer, auth, flushing, boot, left, torn, backend, counters>>
  BY DEF Logout
<1>3. SessionTypeOK' /\ TasksOK'
  <2>1. AuthOK'
    BY <1>0, <1>1, Given DEF AuthOK
  <2> HIDE DEF q
  <2> QED BY <1>0, <1>1, <1>2, <2>1, Given, ClashIsBoolean, TaskStep DEF SessionInv, counters
<1>4. LogoutInv'
  <2>1. q.job = "logout" /\ q.todo = Keys /\ ~q.recovering
    BY DEF Clearing, Idle
  <2>2. left /\ ~clash => auth.status = "unauthenticated" /\ bearer = 0
    BY DEF SessionInv, LogoutInv
  <2>3. left => clash
    BY <2>2 DEF Logout, MayLogOut, SessionInv, LogoutInv
  <2> HIDE DEF q
  <2> QED BY <1>0, <1>1, <2>1, <2>2, <2>3, LogoutFrame
<1> QED BY <1>3, <1>4 DEF SessionInv

\* LoginScreen makes way, and nothing else happens.
LEMMA EnterKeeps ==
    ASSUME SessionInv, Enter, Flagged
    PROVE  SessionInv'
<1>1. /\ UNCHANGED <<store, bearer, tasks, flushing, boot, left, torn, backend, counters>>
      /\ Pair' = Pair /\ Session' = Session /\ Task' = Task
  BY DEF Enter, backend, Pair, Session, Task
<1>2. AuthOK' /\ auth'.status = auth.status
  BY DEF Enter, SessionInv, SessionTypeOK, AuthOK
<1>3. TasksOK'
  BY <1>1 DEF SessionInv, TasksOK, RoleOK, InHand, Route
<1>4. SessionTypeOK'
  BY <1>1, <1>2, ClashIsBoolean DEF SessionInv, SessionTypeOK, AuthOK, backend, counters
<1>5. LogoutInv'
  BY <1>1, <1>2, ClashIsBoolean DEF SessionInv, LogoutInv, HasCleared, FindsNothing
<1> QED BY <1>3, <1>4, <1>5 DEF SessionInv

\* A request starts.
LEMMA StartCallKeeps ==
    ASSUME SessionInv, NEW c \in Calls, StartCall(c), Flagged
    PROVE  SessionInv'
<1> DEFINE q == Asking([Idle EXCEPT !.job = "call"], bearer)
<1>1. c \in Tasks /\ c # Ui /\ c \notin UiTasks
  BY SessionAssumption DEF Tasks, UiTasks, Ui
<1>2. q \in Task /\ RoleOK(c, q) /\ InHand(q)
  BY <1>1, IdleOK, Given DEF Asking, Idle, Task, Todos, RoleOK, InHand, Route
<1>0. /\ Set(c, q)
      /\ UNCHANGED <<store, bearer, auth, flushing, boot, left, torn, backend, signIns, faults>>
  BY DEF StartCall
<1>3. SessionTypeOK' /\ TasksOK'
  <2>1. AuthOK' /\ calls' \in 0 .. MaxCalls
    BY <1>0, <1>1, Given DEF AuthOK, StartCall
  <2> HIDE DEF q
  <2> QED BY <1>0, <1>1, <1>2, <2>1, Given, ClashIsBoolean, TaskStep DEF SessionInv
<1>4. LogoutInv'
  <2>1. ~q.recovering
    BY DEF Asking, Idle
  <2>2. left /\ ~clash => auth'.status = "unauthenticated"
    BY <1>0 DEF SessionInv, LogoutInv
  <2>3. left' /\ ~clash => bearer' = 0
    BY <1>0 DEF SessionInv, LogoutInv
  <2> HIDE DEF q
  <2> QED BY <1>0, <1>1, <2>1, <2>2, <2>3, LogoutFrame
<1> QED BY <1>3, <1>4 DEF SessionInv

-----------------------------------------------------------------------------
\* A task that has read the next key.
Read(t) == [tasks[t] EXCEPT !.todo = Tail(@), !.held[Head(tasks[t].todo)] =
                                                  store[Head(tasks[t].todo)]]

\* A task that has read one more key is of its type, and has only that key more.
LEMMA ReadTask ==
    ASSUME SessionInv, NEW t \in Tasks, tasks[t].at = "reading"
    PROVE  /\ Read(t) \in Task
           /\ \A field \in {"job", "at", "recovering", "retried", "kept", "bearer", "answer",
                             "user"} : Read(t)[field] = tasks[t][field]
           /\ store = NoSession /\ tasks[t].held = NoSession => Read(t).held = NoSession
<1> DEFINE key == Head(tasks[t].todo)
           held == [tasks[t].held EXCEPT ![key] = store[key]]
<1>1. tasks[t] \in Task /\ store \in Session /\ tasks[t].todo # <<>>
  BY Given DEF InHand
<1>2. key \in {"token", "refresh", "user"} /\ Tail(tasks[t].todo) \in Todos
  BY <1>1, TodoStep DEF Task
<1>3. held \in Session
  <2>1. CASE key = "token"
    BY <1>1, <2>1 DEF Session, Task
  <2>2. CASE key = "refresh"
    BY <1>1, <2>2 DEF Session, Task
  <2>3. CASE key = "user"
    BY <1>1, <2>3 DEF Session, Task
  <2> QED BY <1>2, <2>1, <2>2, <2>3
<1>4. Read(t) = [tasks[t] EXCEPT !.todo = Tail(tasks[t].todo), !.held = held]
  BY <1>1 DEF Read, Task
<1>5. store = NoSession /\ tasks[t].held = NoSession => held = NoSession
  BY <1>2 DEF NoSession
<1> HIDE DEF held, key
<1> QED BY <1>1, <1>2, <1>3, <1>4, <1>5 DEF Task

\* A task reads a key of the store.
LEMMA ReadKeyKeeps ==
    ASSUME SessionInv, NEW t \in Tasks, ReadKey(t), Flagged
    PROVE  SessionInv'
<1> DEFINE task == Read(t)
<1>1. /\ tasks[t].at = "reading"
      /\ IF task.todo # <<>> THEN Set(t, task) /\ UNCHANGED <<bearer, auth, flushing>>
         ELSE AfterRead(t, task)
      /\ UNCHANGED <<store, boot, left, torn, backend, counters>>
  BY DEF ReadKey, Read
<1>2. /\ task \in Task
      /\ task.job = tasks[t].job /\ task.at = "reading" /\ task.user = tasks[t].user
      /\ task.recovering = tasks[t].recovering /\ task.answer = tasks[t].answer
      /\ store = NoSession /\ tasks[t].held = NoSession => task.held = NoSession
  BY <1>1, ReadTask
<1>3. RoleOK(t, tasks[t]) /\ InHand(tasks[t]) /\ tasks[t] \in Task
  BY Given
<1>4. /\ store' \in Session /\ left' = left /\ left' \in BOOLEAN /\ store' = store
      /\ calls' \in 0 .. MaxCalls /\ signIns' \in 0 .. MaxSignIns /\ faults' \in 0 .. MaxFaults
      /\ UNCHANGED <<backend, boot, torn>>
  BY <1>1, Given DEF counters
<1>5. left /\ ~clash => auth.status = "unauthenticated" /\ tasks[Ui].job = "none"
  BY DEF SessionInv, LogoutInv
<1>6. t \notin UiTasks /\ left /\ ~clash /\ task.recovering =>
          task.held = NoSession /\ ~IsRead(task.held)
  <2> SUFFICES ASSUME t \notin UiTasks, left, ~clash, task.recovering
               PROVE  task.held = NoSession /\ ~IsRead(task.held)
    OBVIOUS
  <2>1. t \in Calls /\ tasks[t].recovering
    BY <1>1, <1>2, <1>3, NoRival DEF RoleOK
  <2>2. store = NoSession /\ tasks[t].held = NoSession
    BY <1>1, <2>1 DEF SessionInv, LogoutInv, FindsNothing
  <2> QED BY <1>2, <2>2 DEF IsRead, NoSession
<1>7. ASSUME NEW q \in Task, Set(t, q), RoleOK(t, q), InHand(q), bearer' \in Pair, AuthOK',
             flushing' \in BOOLEAN, left /\ ~clash => auth'.status = "unauthenticated",
             t \in UiTasks => q.job # "logout",
             t \notin UiTasks /\ left /\ ~clash /\ q.recovering => FindsNothing(q),
             left /\ ~clash => bearer' = 0
      PROVE  SessionInv'
  <2>1. SessionTypeOK' /\ TasksOK'
    BY <1>4, <1>7, Given, ClashIsBoolean, TaskStep DEF SessionInv
  <2>2. /\ t \in UiTasks /\ ~clash => ~left /\ t = Ui
        /\ t = Ui => t \in UiTasks
    BY <1>1, <1>3, <1>5, NoRival DEF RoleOK, UiTasks
  <2>3. LogoutInv'
    BY <1>4, <1>7, <2>2, LogoutFrame
  <2> QED BY <2>1, <2>3 DEF SessionInv
<1>8. left /\ ~clash => bearer = 0
  BY DEF SessionInv, LogoutInv
<1>9. UNCHANGED <<bearer, auth, flushing>> =>
          /\ bearer' \in Pair /\ AuthOK' /\ flushing' \in BOOLEAN
          /\ left /\ ~clash => auth'.status = "unauthenticated" /\ bearer' = 0
  BY <1>5, <1>8, Given DEF AuthOK
<1>10. task.job # "logout"
  BY <1>1, <1>2, <1>3 DEF RoleOK
<1> HIDE DEF task
<1>11. CASE task.todo # <<>>
  <2>1. RoleOK(t, task) /\ InHand(task)
    BY <1>1, <1>2, <1>3, <1>11 DEF RoleOK, InHand
  <2>2. t \notin UiTasks /\ left /\ ~clash /\ task.recovering => FindsNothing(task)
    BY <1>2, <1>6 DEF FindsNothing
  <2> QED BY <1>1, <1>2, <1>7, <1>9, <1>10, <1>11, <2>1, <2>2
<1>12. CASE task.todo = <<>> /\ task.recovering
  <2> DEFINE q == IF IsRead(task.held) THEN Refreshing(task) ELSE Clearing(task)
  <2>1. Set(t, q) /\ UNCHANGED <<bearer, auth, flushing>>
    BY <1>1, <1>12 DEF AfterRead
  <2>2. q \in Task
    BY <1>2, Given, Forms DEF Refreshing
  <2>3. RoleOK(t, q) /\ InHand(q)
    BY <1>2, <1>3, <1>12, KeysNotEmpty
       DEF RoleOK, InHand, Refreshing, Clearing, Asking, Task, Route
  <2>4. t \notin UiTasks /\ left /\ ~clash => FindsNothing(q)
    BY <1>2, <1>6, <1>12 DEF Clearing, FindsNothing, Task
  <2>5. q.job # "logout"
    BY <1>2, <1>10 DEF Refreshing, Clearing, Asking, Task
  <2> HIDE DEF q
  <2> QED BY <1>7, <1>9, <2>1, <2>2, <2>3, <2>4, <2>5
<1>13. CASE task.todo = <<>> /\ ~task.recovering
  <2>0. t \in UiTasks /\ (left => clash)
    BY <1>1, <1>2, <1>3, <1>5, <1>13, NoRival DEF RoleOK
  <2>1. CASE bearer' = 0 /\ GiveUp(t)
    <3>1. Set(t, Idle) /\ auth' = [auth EXCEPT !.status = "unauthenticated", !.user = NoUser]
          /\ flushing' = flushing
      BY <2>0, <2>1 DEF GiveUp, SignOut
    <3>2. AuthOK' /\ auth'.status = "unauthenticated"
      BY <3>1, Given DEF AuthOK
    <3>3. Idle \in Task /\ RoleOK(t, Idle) /\ InHand(Idle) /\ Idle.job = "none"
      BY IdleOK, Given DEF Idle
    <3> QED BY <1>7, <2>0, <2>1, <3>1, <3>2, <3>3, Given
  <2>2. CASE Set(t, Refreshing(task)) /\ UNCHANGED <<bearer, auth, flushing>>
    <3>1. Refreshing(task) \in Task
      BY <1>2, Given, Forms DEF Refreshing
    <3>2. RoleOK(t, Refreshing(task)) /\ InHand(Refreshing(task)) /\ Refreshing(task).job # "logout"
      BY <1>1, <1>2, <1>3, <1>10, <1>13, <2>0, KeysNotEmpty
         DEF RoleOK, InHand, Refreshing, Clearing, Asking, Task, Route
    <3> QED BY <1>7, <1>9, <2>0, <2>2, <3>1, <3>2
  <2>3. CASE /\ bearer' = task.held.token
             /\ Set(t, Asking([task EXCEPT !.job = "me", !.kept = task.held], task.held.token))
             /\ UNCHANGED <<auth, flushing>>
    <3> DEFINE q == Asking([task EXCEPT !.job = "me", !.kept = task.held], task.held.token)
    <3>1. bearer' \in Pair /\ q \in Task /\ AuthOK'
      BY <1>2, <2>3, Given DEF Asking, Task, Session, AuthOK
    <3>2. RoleOK(t, q) /\ InHand(q) /\ q.job = "me"
      BY <1>2, <1>3, <1>13, <2>0 DEF RoleOK, InHand, Asking, Task, Route
    <3>3. Set(t, q) /\ flushing' = flushing
      BY <2>3
    <3> HIDE DEF q
    <3> QED BY <1>7, <2>0, <3>1, <3>2, <3>3, Given
  <2> QED BY <1>1, <1>13, <2>1, <2>2, <2>3 DEF AfterRead
<1> QED BY <1>11, <1>12, <1>13, <1>2 DEF Task

-----------------------------------------------------------------------------
\* The store after an access to one key.
LEMMA StoreStep ==
    ASSUME store \in Session, NEW session \in Session, NEW key \in {"token", "refresh", "user"},
           store' = [store EXCEPT ![key] = session[key]]
    PROVE  store' \in Session
<1>1. CASE key = "token"
  BY <1>1 DEF Session
<1>2. CASE key = "refresh"
  BY <1>2 DEF Session
<1>3. CASE key = "user"
  BY <1>3 DEF Session
<1> QED BY <1>1, <1>2, <1>3

\* A task that has written, or cleared, the next key.
OneKeyLess(t) == [tasks[t] EXCEPT !.todo = Tail(@)]

\* A task with one key less to access is of its type, and otherwise the same.
LEMMA OneKeyLessTask ==
    ASSUME SessionInv, NEW t \in Tasks, tasks[t].todo # <<>>
    PROVE  /\ Head(tasks[t].todo) \in {"token", "refresh", "user"}
           /\ OneKeyLess(t) \in Task /\ OneKeyLess(t).todo = Tail(tasks[t].todo)
           /\ \A field \in {"job", "at", "recovering", "retried", "held", "kept", "bearer",
                             "answer", "user"} : OneKeyLess(t)[field] = tasks[t][field]
<1>1. tasks[t] \in Task
  BY Given
<1>2. Head(tasks[t].todo) \in {"token", "refresh", "user"} /\ Tail(tasks[t].todo) \in Todos
  BY <1>1, TodoStep DEF Task
<1> QED BY <1>1, <1>2 DEF OneKeyLess, Task

\* A task writes a key of the store.
LEMMA WriteKeyKeeps ==
    ASSUME SessionInv, NEW t \in Tasks, WriteKey(t), Flagged
    PROVE  SessionInv'
<1> DEFINE task == OneKeyLess(t)
           key == Head(tasks[t].todo)
<1>1. /\ tasks[t].at = "writing"
      /\ store' = [store EXCEPT ![key] = tasks[t].held[key]]
      /\ IF task.todo # <<>> THEN Set(t, task) /\ UNCHANGED <<bearer, auth, flushing>>
         ELSE AfterWrite(t, task)
      /\ UNCHANGED <<boot, left, torn, backend, counters>>
  <2>1. tasks[t].todo # <<>> /\ tasks[t] \in Task /\ tasks[t].at = "writing"
    BY Given DEF WriteKey, InHand
  <2>2. task.held = tasks[t].held
    BY <2>1, OneKeyLessTask
  <2> QED BY <2>2 DEF WriteKey, OneKeyLess
<1>2. tasks[t] \in Task /\ RoleOK(t, tasks[t]) /\ InHand(tasks[t])
  BY Given
<1>3. /\ task \in Task /\ key \in {"token", "refresh", "user"}
      /\ task.job = tasks[t].job /\ task.at = "writing" /\ task.user = tasks[t].user
      /\ task.recovering = tasks[t].recovering /\ task.held = tasks[t].held
  BY <1>1, <1>2, OneKeyLessTask DEF InHand
<1>4. /\ store' \in Session /\ left' = left /\ left' \in BOOLEAN
      /\ calls' \in 0 .. MaxCalls /\ signIns' \in 0 .. MaxSignIns /\ faults' \in 0 .. MaxFaults
      /\ UNCHANGED <<backend, boot, torn>>
  BY <1>1, <1>2, <1>3, Given, StoreStep DEF counters, Task
<1>5. left /\ ~clash => auth.status = "unauthenticated" /\ tasks[Ui].job = "none"
  BY DEF SessionInv, LogoutInv
<1>6. t \in UiTasks /\ ~clash => ~left /\ t = Ui
  BY <1>1, <1>2, <1>5, NoRival DEF RoleOK
<1>7. t \notin UiTasks => tasks[t].recovering /\ t \in Calls
  BY <1>1, <1>2, NoRival DEF RoleOK
<1>8. left => clash
  BY <1>1, <1>6, <1>7 DEF SessionInv, LogoutInv, FindsNothing
<1>9. ~clash => t = Ui \/ tasks[Ui] = Idle
  BY <1>6, <1>7 DEF SessionInv, LogoutInv
<1>10. ASSUME NEW q \in Task, Set(t, q), RoleOK(t, q), InHand(q), bearer' \in Pair, AuthOK',
              flushing' \in BOOLEAN, q.job # "logout"
       PROVE  SessionInv'
  <2>1. SessionTypeOK' /\ TasksOK'
    BY <1>4, <1>10, Given, ClashIsBoolean, TaskStep DEF SessionInv
  <2>2. Ui \in Tasks /\ \A u \in Tasks : tasks'[u] = IF u = t THEN q ELSE tasks[u]
    BY <1>10 DEF Set, Tasks, UiTasks, SessionInv, SessionTypeOK
  <2>3. ~clash' => tasks'[Ui].job # "logout"
    BY <1>9, <1>10, <2>2, ClashIsBoolean DEF Idle
  <2>4. ~clash' => ~left'
    BY <1>4, <1>8, ClashIsBoolean
  <2> QED BY <2>1, <2>3, <2>4, ClashIsBoolean DEF SessionInv, LogoutInv
<1>11. task.held \in Session /\ task.held.token \in Pair /\ task.held.user \in Users
  BY <1>1, <1>2, <1>3 DEF Task, Session, InHand
<1>12. task.job # "logout"
  BY <1>1, <1>2, <1>3 DEF RoleOK
<1>13. UNCHANGED auth => AuthOK'
  BY Given DEF AuthOK
<1>14. flushing \in BOOLEAN /\ bearer \in Pair
  BY Given
<1> HIDE DEF task, key
<1>15. CASE task.todo # <<>>
  <2>1. RoleOK(t, task) /\ InHand(task)
    BY <1>1, <1>2, <1>3, <1>15 DEF RoleOK, InHand
  <2> QED BY <1>1, <1>3, <1>10, <1>12, <1>13, <1>14, <1>15, <2>1
<1>16. CASE task.todo = <<>>
  <2>1. bearer' = task.held.token
    BY <1>1, <1>16 DEF AfterWrite
  <2>2. CASE /\ task.recovering
             /\ Set(t, Asking([task EXCEPT !.recovering = FALSE, !.retried = TRUE], bearer'))
             /\ UNCHANGED <<auth, flushing>>
    <3> DEFINE q == Asking([task EXCEPT !.recovering = FALSE, !.retried = TRUE], bearer')
    <3>1. q \in Task
      BY <1>3, <1>11, <2>1 DEF Asking, Task
    <3>2. RoleOK(t, q) /\ InHand(q) /\ q.job # "logout"
      BY <1>1, <1>2, <1>3, <1>12, <1>16, <2>2 DEF RoleOK, InHand, Asking, Task, Route
    <3>3. Set(t, q)
      BY <2>2
    <3> HIDE DEF q
    <3> QED BY <1>10, <1>11, <1>13, <1>14, <2>1, <2>2, <3>1, <3>2, <3>3
  <2>3. CASE /\ ~task.recovering /\ task.job = "restore"
             /\ Set(t, Asking([task EXCEPT !.job = "me", !.kept = task.held], bearer'))
             /\ UNCHANGED <<auth, flushing>>
    <3> DEFINE q == Asking([task EXCEPT !.job = "me", !.kept = task.held], bearer')
    <3>1. q \in Task
      BY <1>3, <1>11, <2>1 DEF Asking, Task
    <3>2. RoleOK(t, q) /\ InHand(q) /\ q.job # "logout"
      BY <1>1, <1>2, <1>3, <1>12, <1>16, <2>3 DEF RoleOK, InHand, Asking, Task, Route
    <3>3. Set(t, q)
      BY <2>3
    <3> HIDE DEF q
    <3> QED BY <1>10, <1>11, <1>13, <1>14, <2>1, <2>3, <3>1, <3>2, <3>3
  <2>4. CASE /\ ~task.recovering /\ task.job \in {"login", "me"}
             /\ Set(t, Idle)
             /\ SignIn(task)
    <3>2. flushing' \in BOOLEAN /\ AuthOK'
      BY <1>11, <2>4, Given DEF SignIn, AuthOK
    <3>3. Idle \in Task /\ RoleOK(t, Idle) /\ InHand(Idle) /\ Idle.job = "none"
      BY IdleOK, Given DEF Idle
    <3> QED BY <1>10, <1>11, <2>1, <2>4, <3>2, <3>3
  <2> QED BY <1>1, <1>16, <2>2, <2>3, <2>4 DEF AfterWrite
<1> QED BY <1>15, <1>16

\* A task clears a key of the store.
LEMMA ClearKeyKeeps ==
    ASSUME SessionInv, NEW t \in Tasks, ClearKey(t), Flagged
    PROVE  SessionInv'
<1> DEFINE task == OneKeyLess(t)
           key == Head(tasks[t].todo)
<1>1. /\ tasks[t].at = "clearing"
      /\ store' = [store EXCEPT ![key] = NoSession[key]]
      /\ IF task.todo # <<>> THEN Set(t, task) /\ UNCHANGED <<bearer, auth, flushing, left>>
         ELSE AfterClear(t, task)
      /\ UNCHANGED <<boot, torn, backend, counters>>
  BY DEF ClearKey, OneKeyLess
<1>2. tasks[t] \in Task /\ RoleOK(t, tasks[t]) /\ InHand(tasks[t])
  BY Given
<1>3. /\ task \in Task /\ key \in {"token", "refresh", "user"}
      /\ task.job = tasks[t].job /\ task.at = "clearing" /\ task.user = tasks[t].user
      /\ task.recovering = tasks[t].recovering /\ task.todo = Tail(tasks[t].todo)
  BY <1>1, <1>2, OneKeyLessTask DEF InHand
<1>4. /\ store' \in Session
      /\ calls' \in 0 .. MaxCalls /\ signIns' \in 0 .. MaxSignIns /\ faults' \in 0 .. MaxFaults
      /\ UNCHANGED <<backend, boot, torn>>
  BY <1>1, <1>3, Given, IdleOK, StoreStep DEF counters
<1>5. left /\ ~clash => auth.status = "unauthenticated" /\ tasks[Ui].job = "none"
  BY DEF SessionInv, LogoutInv
<1>6. t \in UiTasks /\ ~clash => ~left /\ t = Ui
  BY <1>1, <1>2, <1>5, NoRival DEF RoleOK
<1>7. t \notin UiTasks => task.recovering /\ t \in Calls /\ task.job = "call"
  BY <1>1, <1>2, <1>3, NoRival DEF RoleOK
<1>8. ~clash => t = Ui \/ tasks[Ui] = Idle
  BY <1>3, <1>6, <1>7 DEF SessionInv, LogoutInv
<1>9. left /\ ~clash => store' = NoSession
  BY <1>1, <1>3 DEF SessionInv, LogoutInv, NoSession
<1>10. Ui \in Tasks /\ Calls \subseteq Tasks /\ Ui \notin Calls
  BY SessionAssumption DEF Tasks, UiTasks, Ui
<1>11. tasks[t].todo \in Todos /\ tasks[t].todo # <<>>
  BY <1>1, <1>2 DEF InHand, Task
<1>12. \A q : Set(t, q) => \A u \in Tasks : tasks'[u] = IF u = t THEN q ELSE tasks[u]
  BY DEF Set, SessionInv, SessionTypeOK
<1>13. ~clash' => /\ ~clash /\ ~astray' /\ \A r \in Rivals : tasks'[r] = Idle
                  /\ tasks'[Ui] = Idle \/ \A c \in Calls : ~tasks'[c].recovering
  BY ClashIsBoolean
<1>14. flushing \in BOOLEAN /\ bearer \in Pair /\ AuthOK /\ left \in BOOLEAN /\ 0 \in Pair
  BY Given
\* A logout has cleared one key more.
<1>15. ~clash /\ t = Ui /\ task.job = "logout" =>
          \/ task.todo = <<"refresh", "user">> /\ store'.token = 0
          \/ task.todo = <<"user">> /\ store'.token = 0 /\ store'.refresh = 0
          \/ task.todo = <<>> /\ store' = NoSession
  <2> SUFFICES ASSUME ~clash, t = Ui, task.job = "logout"
               PROVE  \/ task.todo = <<"refresh", "user">> /\ store'.token = 0
                      \/ task.todo = <<"user">> /\ store'.token = 0 /\ store'.refresh = 0
                      \/ task.todo = <<>> /\ store' = NoSession
    OBVIOUS
  <2> HIDE DEF task, key
  <2>1. HasCleared(tasks[t].todo)
    BY <1>3 DEF SessionInv, LogoutInv
  <2>2. store \in Session
    BY Given
  <2>3. CASE tasks[t].todo = Keys
    <3>1. key = "token" /\ task.todo = <<"refresh", "user">>
      BY <1>3, <1>11, <2>3, TodoStep DEF key
    <3> QED BY <1>1, <2>2, <3>1 DEF Session, NoSession
  <2>4. CASE tasks[t].todo = <<"refresh", "user">> /\ store.token = 0
    <3>1. key = "refresh" /\ task.todo = <<"user">>
      BY <1>3, <1>11, <2>4, TodoStep DEF key
    <3> QED BY <1>1, <2>2, <2>4, <3>1 DEF Session, NoSession
  <2>5. CASE tasks[t].todo = <<"user">> /\ store.token = 0 /\ store.refresh = 0
    <3>1. key = "user" /\ task.todo = <<>>
      BY <1>3, <1>11, <2>5, TodoStep DEF key
    <3> QED BY <1>1, <2>2, <2>5, <3>1 DEF Session, NoSession
  <2> QED BY <2>1, <2>3, <2>4, <2>5 DEF HasCleared
<1> HIDE DEF task, key
<1>16. CASE task.todo # <<>>
  <2>1. RoleOK(t, task) /\ InHand(task)
    BY <1>1, <1>2, <1>3, <1>16 DEF RoleOK, InHand
  <2>2. Set(t, task) /\ UNCHANGED <<bearer, auth, flushing, left>>
    BY <1>1, <1>16
  <2>3. SessionTypeOK' /\ TasksOK'
    <3>1. AuthOK'
      BY <1>14, <2>2 DEF AuthOK
    <3> QED BY <1>3, <1>4, <1>14, <2>1, <2>2, <3>1, ClashIsBoolean, TaskStep DEF SessionInv
  <2>4. left' /\ ~clash' => auth'.status = "unauthenticated" /\ tasks'[Ui].job = "none"
    BY <1>5, <1>6, <1>10, <1>12, <1>13, <2>2 DEF UiTasks
  <2>5. ~clash' /\ tasks'[Ui].job = "logout" => HasCleared(tasks[Ui].todo)'
    BY <1>8, <1>10, <1>12, <1>15, <1>16, <2>2, ClashIsBoolean DEF HasCleared, Idle
  <2>6. ASSUME left', ~clash'
        PROVE  /\ store' = NoSession /\ bearer' = 0
               /\ \A c \in Calls : tasks'[c].recovering => FindsNothing(tasks'[c])
    <3>1. left /\ ~clash
      BY <2>2, <2>6, ClashIsBoolean
    <3>2. bearer' = 0 /\ \A c \in Calls : tasks[c].recovering => FindsNothing(tasks[c])
      BY <2>2, <3>1 DEF SessionInv, LogoutInv
    <3>3. FindsNothing(task)
      BY <1>3 DEF FindsNothing
    <3> QED BY <1>9, <1>10, <1>12, <2>2, <3>1, <3>2, <3>3
  <2>7. LogoutInv'
    BY <1>13, <2>4, <2>5, <2>6 DEF LogoutInv, FindsNothing
  <2> QED BY <2>3, <2>7 DEF SessionInv
<1>17. CASE task.todo = <<>>
  <2>1. /\ bearer' = 0 /\ Set(t, Idle)
        /\ IF t \in UiTasks THEN SignOut ELSE UNCHANGED <<auth, flushing>>
        /\ left' = (left \/ task.job = "logout")
    BY <1>1, <1>17 DEF AfterClear, GiveUp
  <2>2. Idle \in Task /\ RoleOK(t, Idle) /\ InHand(Idle) /\ Idle.job = "none" /\ ~Idle.recovering
    BY IdleOK, Given DEF Idle
  <2>3. AuthOK' /\ flushing' \in BOOLEAN /\ left' \in BOOLEAN
    BY <1>14, <2>1 DEF AuthOK, SignOut
  <2>4. SessionTypeOK' /\ TasksOK'
    BY <1>4, <1>14, <2>1, <2>2, <2>3, ClashIsBoolean, TaskStep DEF SessionInv
  <2>5. left' /\ ~clash' => auth'.status = "unauthenticated" /\ tasks'[Ui].job = "none"
    <3>1. CASE t = Ui
      BY <1>10, <1>12, <1>14, <2>1, <2>2, <3>1 DEF SignOut, AuthOK, UiTasks
    <3>2. CASE t \notin UiTasks
      BY <1>5, <1>7, <1>10, <1>12, <1>13, <2>1, <3>2 DEF UiTasks
    <3> QED BY <1>6, <1>13, <3>1, <3>2
  <2>6. ~clash' /\ tasks'[Ui].job = "logout" => HasCleared(tasks[Ui].todo)'
    BY <1>8, <1>10, <1>12, <2>1, <2>2, ClashIsBoolean
  <2>7. ASSUME left', ~clash'
        PROVE  /\ store' = NoSession /\ bearer' = 0
               /\ \A c \in Calls : tasks'[c].recovering => FindsNothing(tasks'[c])
    <3>1. ~clash
      BY <2>7, ClashIsBoolean
    <3>2. CASE left
      BY <1>9, <1>10, <1>12, <2>1, <2>2, <3>1, <3>2 DEF SessionInv, LogoutInv
    <3>3. CASE ~left
      <4>1. t = Ui /\ task.job = "logout" /\ tasks[Ui] # Idle
        BY <1>2, <1>3, <1>6, <1>7, <3>1, <2>1, <2>2, <2>7, <3>3
      <4>2. \A c \in Calls : ~tasks[c].recovering
        BY <3>1, <4>1 DEF SessionInv, LogoutInv
      <4>3. store' = NoSession
        BY <1>15, <1>17, <3>1, <4>1
      <4> QED BY <1>10, <1>12, <2>1, <4>1, <4>2, <4>3
    <3> QED BY <3>2, <3>3
  <2>8. LogoutInv'
    BY <1>13, <2>5, <2>6, <2>7 DEF LogoutInv, FindsNothing
  <2> QED BY <2>4, <2>8 DEF SessionInv
<1> QED BY <1>16, <1>17

-----------------------------------------------------------------------------
\* A task that waits for an answer, or has one, goes on without the store.
LEMMA QuietStep ==
    ASSUME SessionInv, NEW t \in Tasks, NEW q \in Task, Flagged,
           tasks[t].at \in {"asking", "answered"},
           Set(t, q), RoleOK(t, q), InHand(q), q.job # "logout",
           UNCHANGED <<store, bearer, left, boot, torn, backend, calls, signIns>>,
           AuthOK', flushing' \in BOOLEAN, faults' \in 0 .. MaxFaults,
           left /\ ~clash => auth'.status = "unauthenticated",
           ~tasks[t].recovering /\ q.recovering => FindsNothing(q)
    PROVE  SessionInv'
<1>1. SessionTypeOK' /\ TasksOK'
  BY Given, ClashIsBoolean, TaskStep DEF SessionInv
<1>2. t = Ui /\ ~clash => ~left
  BY Given DEF SessionInv, LogoutInv, RoleOK, UiTasks
<1>3. left /\ ~clash => bearer = 0 /\ (t # Ui => ~tasks[t].recovering)
  BY NoRival DEF SessionInv, LogoutInv, FindsNothing
<1>4. LogoutInv'
  BY <1>2, <1>3, LogoutFrame
<1> QED BY <1>1, <1>4 DEF SessionInv

\* The screen stays as it was.
LEMMA SameScreen ==
    ASSUME SessionInv, UNCHANGED <<auth, flushing>>
    PROVE  /\ AuthOK' /\ flushing' \in BOOLEAN
           /\ left /\ ~clash => auth'.status = "unauthenticated"
<1>1. Ui \in Tasks
  BY DEF Tasks, UiTasks
<1> QED BY <1>1, Given DEF AuthOK, SessionInv, LogoutInv

\* A task that has been answered.
LEMMA AnsweredTask ==
    ASSUME SessionInv, NEW t \in Tasks, tasks[t].at = "asking",
           NEW answer \in {"ok", "unauthorized", "lost"}, NEW session \in Session,
           answer = "ok" => session.user \in Users
    PROVE  LET q == Answered(tasks[t], answer, session)
           IN  /\ q \in Task /\ RoleOK(t, q) /\ InHand(q) /\ q.job # "logout"
               /\ q.recovering = tasks[t].recovering
<1>1. tasks[t] \in Task /\ RoleOK(t, tasks[t]) /\ InHand(tasks[t])
  BY Given
<1>2. Answered(tasks[t], answer, session) \in Task
  BY <1>1, Given, Forms
<1> QED BY <1>1, <1>2 DEF Answered, RoleOK, InHand, Task, Route

\* A new pair of tokens is on its way to a task.
LEMMA IssueKeeps ==
    ASSUME SessionInv, NEW t \in Tasks, NEW u \in Users, tasks[t].at = "asking",
           Issue(t, u), Flagged,
           UNCHANGED <<store, bearer, auth, flushing, boot, left, torn, expired, lapsed,
                       inactive, counters>>
    PROVE  SessionInv'
<1> DEFINE pair == Len(issued) + 1
           session == [token |-> pair, refresh |-> pair, user |-> u]
           q == Answered(tasks[t], "ok", session)
<1>1. issued \in Seq(Users) /\ Len(issued) \in Nat /\ tasks[t] \in Task
      /\ RoleOK(t, tasks[t]) /\ InHand(tasks[t])
  BY Given
<1>2. issued' \in Seq(Users) /\ Len(issued') = pair /\ Set(t, q)
  BY <1>1 DEF Issue
<1>3. Pair \subseteq Pair' /\ pair \in Pair' /\ 0 \in Pair'
  BY <1>1, <1>2 DEF Pair
<1>4. Session \subseteq Session' /\ session \in Session'
  BY <1>3 DEF Session
<1>5. Task \subseteq Task'
  BY <1>3, <1>4 DEF Task
<1> HIDE DEF pair, session
<1>6. q \in Task'
  BY <1>1, <1>3, <1>4, <1>5 DEF Answered, Task
<1>7. RoleOK(t, q) /\ InHand(q) /\ q.job # "logout" /\ q.recovering = tasks[t].recovering
  BY <1>1 DEF Answered, RoleOK, InHand, Task, Route, session
<1> HIDE DEF q
<1>8. tasks' \in [Tasks -> Task'] /\ \A v \in Tasks : tasks'[v] = IF v = t THEN q ELSE tasks[v]
  BY <1>2, <1>5, <1>6 DEF Set, SessionInv, SessionTypeOK
<1>9. TasksOK'
  BY <1>7, <1>8 DEF SessionInv, TasksOK, RoleOK, InHand, Route
<1>10. SessionTypeOK'
  <2>1. \A v \in Tasks : tasks'[v].todo # <<>>
                              <=> tasks'[v].at \in {"reading", "writing", "clearing"}
    BY <1>9 DEF TasksOK, InHand
  <2>2. expired' \subseteq 1 .. Len(issued')
    BY <1>1, <1>2 DEF SessionInv, SessionTypeOK, pair
  <2>3. store' \in Session' /\ bearer' \in Pair'
    BY <1>3, <1>4 DEF SessionInv, SessionTypeOK
  <2>4. {flushing', left', astray', clash', torn'} \subseteq BOOLEAN
    BY Given, ClashIsBoolean DEF SessionInv, SessionTypeOK
  <2> QED BY <1>2, <1>8, <2>1, <2>2, <2>3, <2>4 DEF SessionInv, SessionTypeOK, counters
<1>11. LogoutInv'
  <2>1. left /\ ~clash => auth.status = "unauthenticated" /\ tasks[Ui].job = "none"
    BY DEF SessionInv, LogoutInv
  <2>2. left /\ ~clash => bearer = 0 /\ (t # Ui => ~tasks[t].recovering)
    BY NoRival DEF SessionInv, LogoutInv, FindsNothing
  <2>3. t = Ui /\ ~clash => ~left
    BY <1>1, <2>1 DEF RoleOK, UiTasks
  <2> QED BY <1>2, <1>7, <2>1, <2>2, <2>3, LogoutFrame
<1> QED BY <1>9, <1>10, <1>11 DEF SessionInv

\* The backend refuses a request.
LEMMA RefuseKeeps ==
    ASSUME SessionInv, NEW t \in Tasks, tasks[t].at = "asking",
           Refuse(t), Flagged,
           UNCHANGED <<store, bearer, auth, flushing, boot, left, torn, expired, lapsed,
                       inactive, counters>>
    PROVE  SessionInv'
<1> DEFINE q == Answered(tasks[t], "unauthorized", NoSession)
<1>1. NoSession \in Session
  BY IdleOK, Given
<1>2. /\ q \in Task /\ RoleOK(t, q) /\ InHand(q) /\ q.job # "logout"
      /\ q.recovering = tasks[t].recovering
  BY <1>1, AnsweredTask
<1>3. Set(t, q) /\ UNCHANGED backend
  BY DEF Refuse, backend
<1> HIDE DEF q
<1> QED BY <1>2, <1>3, QuietStep, SameScreen, Given DEF counters

\* The backend serves a request.
LEMMA ServeKeeps ==
    ASSUME SessionInv, NEW t \in Tasks, Serve(t), Flagged
    PROVE  SessionInv'
<1>1. /\ tasks[t].at = "asking"
      /\ UNCHANGED <<store, bearer, auth, flushing, boot, left, torn, expired, lapsed,
                     inactive, counters>>
  BY DEF Serve
<1>2. tasks[t] \in Task /\ RoleOK(t, tasks[t]) /\ InHand(tasks[t]) /\ issued \in Seq(Users)
  BY Given
<1>3. \A pair \in Pair : pair # 0 => issued[pair] \in Users
  BY <1>2 DEF Pair
<1>4. CASE Refuse(t)
  BY <1>1, <1>4, RefuseKeeps
<1>5. ASSUME NEW u \in Users, Issue(t, u) PROVE SessionInv'
  BY <1>1, <1>5, IssueKeeps
<1>6. CASE Route(tasks[t]) = "login" /\ ServeLogin(t)
  <2>1. tasks[t].job = "login"
    BY <1>6 DEF Route
  <2> QED BY <1>2, <1>4, <1>5, <1>6, <2>1 DEF ServeLogin, InHand
<1>7. CASE Route(tasks[t]) = "refresh" /\ ServeRefresh(t)
  <2>1. issued[tasks[t].held.refresh] \in Users
    BY <1>1, <1>2, <1>3, <1>7 DEF InHand, Task, Session
  <2> QED BY <1>4, <1>5, <1>7, <2>1 DEF ServeRefresh
<1>8. CASE Route(tasks[t]) = "me" /\ ServeMe(t)
  <2>1. CASE PassesGuard(tasks[t].bearer) /\ ~Refuse(t)
    <3> DEFINE session == [tasks[t].kept EXCEPT !.user = issued[tasks[t].bearer]]
               q == Answered(tasks[t], "ok", session)
    <3>1. issued[tasks[t].bearer] \in Users
      BY <1>2, <1>3, <2>1 DEF PassesGuard, Task
    <3>2. session \in Session /\ session.user \in Users
      BY <1>2, <3>1 DEF Task, Session
    <3>3. /\ q \in Task /\ RoleOK(t, q) /\ InHand(q) /\ q.job # "logout"
          /\ q.recovering = tasks[t].recovering
      BY <1>1, <3>2, AnsweredTask
    <3>4. Set(t, q) /\ UNCHANGED backend
      BY <1>1, <1>8, <2>1 DEF ServeMe, backend
    <3> HIDE DEF q, session
    <3> QED BY <1>1, <3>3, <3>4, QuietStep, SameScreen, Given DEF counters
  <2> QED BY <1>4, <1>8, <2>1 DEF ServeMe
<1>9. CASE Route(tasks[t]) = "call" /\ ServeCall(t)
  <2>1. CASE Set(t, Idle) /\ UNCHANGED issued
    <3>1. Idle \in Task /\ RoleOK(t, Idle) /\ InHand(Idle) /\ Idle.job = "none" /\ ~Idle.recovering
      BY IdleOK, Given DEF Idle
    <3>2. UNCHANGED backend
      BY <1>1, <2>1 DEF backend
    <3> QED BY <1>1, <2>1, <3>1, <3>2, QuietStep, SameScreen, Given DEF counters
  <2> QED BY <1>4, <1>9, <2>1 DEF ServeCall
<1> QED BY <1>6, <1>7, <1>8, <1>9 DEF Serve

\* A request or its answer is lost.
LEMMA LoseKeeps ==
    ASSUME SessionInv, NEW t \in Tasks, Lose(t), Flagged
    PROVE  SessionInv'
<1> DEFINE q == IF Route(tasks[t]) = "call" THEN Idle
                ELSE Answered(tasks[t], "lost", NoSession)
<1>1. /\ tasks[t].at = "asking" /\ Set(t, q)
      /\ UNCHANGED <<store, bearer, auth, flushing, boot, left, torn, backend, calls, signIns>>
  BY DEF Lose
<1>2. faults' \in 0 .. MaxFaults
  BY Given DEF Lose
<1>3. Idle \in Task /\ RoleOK(t, Idle) /\ InHand(Idle) /\ Idle.job = "none" /\ ~Idle.recovering
      /\ NoSession \in Session
  BY IdleOK, Given DEF Idle
<1>4. /\ q \in Task /\ RoleOK(t, q) /\ InHand(q) /\ q.job # "logout"
      /\ q.recovering => tasks[t].recovering
  BY <1>1, <1>3, AnsweredTask
<1> HIDE DEF q
<1> QED BY <1>1, <1>2, <1>4, QuietStep, SameScreen

\* A task receives its answer.
LEMMA ReceiveKeeps ==
    ASSUME SessionInv, NEW t \in Tasks, Receive(t), Flagged
    PROVE  SessionInv'
<1> DEFINE task == [tasks[t] EXCEPT !.answer = "none"]
           ok == tasks[t].answer = "ok"
<1>1. /\ tasks[t].at = "answered"
      /\ UNCHANGED <<store, bearer, boot, left, torn, backend, counters>>
  BY DEF Receive
<1>2. tasks[t] \in Task /\ RoleOK(t, tasks[t]) /\ InHand(tasks[t]) /\ issued \in Seq(Users)
      /\ 0 \in Pair /\ faults \in 0 .. MaxFaults /\ left \in BOOLEAN
  BY Given
<1>3. /\ task \in Task /\ task.held \in Session /\ Route(task) = Route(tasks[t])
      /\ task.job = tasks[t].job /\ task.recovering = tasks[t].recovering
      /\ task.user = tasks[t].user /\ task.held = tasks[t].held /\ task.answer = "none"
      /\ task.todo = <<>>
  BY <1>1, <1>2 DEF Task, Route, InHand
<1>4. Idle \in Task /\ RoleOK(t, Idle) /\ InHand(Idle) /\ Idle.job = "none" /\ ~Idle.recovering
  BY <1>2, IdleOK DEF Idle
<1>5. ASSUME NEW q \in Task, Set(t, q), RoleOK(t, q), InHand(q), q.job # "logout",
             UNCHANGED <<auth, flushing>>,
             ~tasks[t].recovering /\ q.recovering => FindsNothing(q)
      PROVE  SessionInv'
  <2>1. faults' \in 0 .. MaxFaults /\ UNCHANGED <<calls, signIns>>
    BY <1>1, <1>2 DEF counters
  <2> QED BY <1>1, <1>5, <2>1, QuietStep, SameScreen
<1>6. CASE /\ Set(t, Writing(task, task.held)) /\ ok
           /\ Route(task) \in {"refresh", "login", "me"}
           /\ UNCHANGED <<auth, flushing>>
  <2> DEFINE q == Writing(task, task.held)
  <2>1. q \in Task
    BY <1>2, <1>3, Forms
  <2>2. RoleOK(t, q) /\ InHand(q) /\ q.job # "logout" /\ q.recovering = tasks[t].recovering
    BY <1>1, <1>2, <1>3, <1>6, KeysNotEmpty DEF Writing, RoleOK, InHand, Task, Route
  <2> QED BY <1>5, <1>6, <2>1, <2>2
<1>7. CASE Set(t, Clearing(task)) /\ Route(task) = "refresh" /\ UNCHANGED <<auth, flushing>>
  <2> DEFINE q == Clearing(task)
  <2>1. q \in Task
    BY <1>2, <1>3, Forms
  <2>2. RoleOK(t, q) /\ InHand(q) /\ q.job # "logout" /\ q.recovering = tasks[t].recovering
    BY <1>1, <1>2, <1>3, <1>7, KeysNotEmpty DEF Clearing, RoleOK, InHand, Task, Route
  <2> QED BY <1>5, <1>7, <2>1, <2>2
<1>8. CASE /\ Set(t, Reading([task EXCEPT !.recovering = TRUE]))
           /\ Route(task) \in {"me", "call"}
           /\ UNCHANGED <<auth, flushing>>
  <2> DEFINE q == Reading([task EXCEPT !.recovering = TRUE])
  <2>1. [task EXCEPT !.recovering = TRUE] \in Task
    BY <1>3 DEF Task
  <2>2. q \in Task
    BY <1>2, <1>3, <2>1, Forms
  <2>3. RoleOK(t, q) /\ InHand(q) /\ q.job # "logout" /\ FindsNothing(q)
    BY <1>1, <1>2, <1>3, <1>8, KeysNotEmpty
       DEF Reading, RoleOK, InHand, FindsNothing, Task, Route
  <2> QED BY <1>5, <1>8, <2>2, <2>3
<1>9. CASE GiveUp(t) /\ Route(task) \in {"login", "me"}
  <2>1. t \in UiTasks
    BY <1>2, <1>3, <1>9 DEF RoleOK, Route
  <2>2. /\ Set(t, Idle) /\ flushing' = flushing
        /\ auth' = [auth EXCEPT !.status = "unauthenticated", !.user = NoUser]
    BY <1>9, <2>1 DEF GiveUp, SignOut
  <2>3. AuthOK' /\ flushing' \in BOOLEAN /\ auth'.status = "unauthenticated"
    BY <2>2, Given DEF AuthOK
  <2> QED BY <1>1, <1>2, <1>4, <2>2, <2>3, QuietStep DEF counters
<1>10. CASE Set(t, Idle) /\ UNCHANGED <<auth, flushing>>
  BY <1>4, <1>5, <1>10
<1> QED BY <1>6, <1>7, <1>8, <1>9, <1>10 DEF Receive

-----------------------------------------------------------------------------
\* Time, and changes at the backend, leave the till alone.
LEMMA BackendKeeps ==
    ASSUME SessionInv, UNCHANGED <<till, issued, calls, signIns>>, faults' \in 0 .. MaxFaults,
           lapsed' \subseteq expired', expired' \subseteq 1 .. Len(issued),
           inactive' \subseteq Users, Flagged
    PROVE  SessionInv'
<1>1. /\ Pair' = Pair /\ Session' = Session /\ Task' = Task
      /\ UNCHANGED <<store, bearer, auth, tasks, flushing, boot, left, torn, issued>>
  BY DEF Pair, Session, Task, till
<1>2. TasksOK'
  BY <1>1 DEF SessionInv, TasksOK, RoleOK, InHand, Route
<1>3. SessionTypeOK'
  BY <1>1, ClashIsBoolean DEF SessionInv, SessionTypeOK
<1>4. LogoutInv'
  <2> QED BY <1>1, ClashIsBoolean DEF SessionInv, LogoutInv, HasCleared, FindsNothing
<1> QED BY <1>2, <1>3, <1>4 DEF SessionInv

\* One fault more at most.
LEMMA FaultCounted ==
    ASSUME SessionTypeOK, faults' = faults \/ (faults < MaxFaults /\ faults' = faults + 1)
    PROVE  faults' \in 0 .. MaxFaults
<1>1. MaxFaults \in Nat /\ faults \in 0 .. MaxFaults
  BY SessionAssumption DEF SessionTypeOK
<1> QED BY <1>1

\* A token expires.
LEMMA ExpireKeeps ==
    ASSUME SessionInv, NEW pair \in 1 .. Len(issued), Expire(pair) \/ Lapse(pair),
           Flagged
    PROVE  SessionInv'
<1>1. /\ UNCHANGED <<till, issued, inactive, calls, signIns>>
      /\ expired' \subseteq 1 .. Len(issued) /\ lapsed' \subseteq expired'
  BY DEF Expire, Lapse, counters, SessionInv, SessionTypeOK
<1>2. faults' \in 0 .. MaxFaults
  <2>1. faults' = faults \/ (faults < MaxFaults /\ faults' = faults + 1)
    BY DEF Expire, Lapse, counters
  <2> QED BY <2>1, FaultCounted DEF SessionInv
<1>3. inactive' \subseteq Users
  BY <1>1 DEF SessionInv, SessionTypeOK
<1> QED BY <1>1, <1>2, <1>3, BackendKeeps

\* A user is deactivated.
LEMMA DeactivateKeeps ==
    ASSUME SessionInv, NEW u \in Users, Deactivate(u), Flagged
    PROVE  SessionInv'
<1>1. /\ UNCHANGED <<till, issued, expired, lapsed, calls, signIns>>
      /\ inactive' \subseteq Users
      /\ expired' \subseteq 1 .. Len(issued) /\ lapsed' \subseteq expired'
  BY DEF Deactivate, SessionInv, SessionTypeOK
<1>2. faults' \in 0 .. MaxFaults
  BY FaultCounted DEF Deactivate, SessionInv
<1> QED BY <1>1, <1>2, BackendKeeps

\* The tasks after a start.
LEMMA BootOK ==
    ASSUME issued \in Seq(Users)
    PROVE  /\ Boot \in [Tasks -> Task]
           /\ \A t \in Tasks : RoleOK(t, Boot[t]) /\ InHand(Boot[t])
           /\ Ui \in Tasks /\ Boot[Ui].job = "restore"
           /\ \A t \in Calls \cup Rivals : Boot[t] = Idle /\ ~Boot[t].recovering
<1>1. /\ Ui \in Tasks /\ Calls \subseteq Tasks /\ Rivals \subseteq Tasks
      /\ Ui \notin Calls \cup Rivals
  BY SessionAssumption DEF Tasks, UiTasks, Ui
<1> DEFINE q == Reading([Idle EXCEPT !.job = "restore"])
<1>2. Idle \in Task /\ NoSession \in Session
  BY <1>1, IdleOK
<1>6. ASSUME NEW t \in Tasks PROVE RoleOK(t, Idle) /\ InHand(Idle)
  BY IdleOK
<1>3. [Idle EXCEPT !.job = "restore"] \in Task
  BY <1>2 DEF Task
<1>4. q \in Task
  BY <1>2, <1>3, Forms, IdleOK DEF Task
<1>5. RoleOK(Ui, q) /\ InHand(q) /\ q.job = "restore"
  BY KeysNotEmpty DEF Reading, Idle, RoleOK, InHand, Route, UiTasks
<1> QED BY <1>1, <1>2, <1>4, <1>5, <1>6 DEF Boot, Idle

\* The app is killed and started again.
LEMMA KillKeeps ==
    ASSUME SessionInv, Kill, Flagged
    PROVE  SessionInv'
<1>1. /\ issued' = issued /\ Pair' = Pair /\ Session' = Session /\ Task' = Task
      /\ UNCHANGED <<store, backend, calls, signIns>>
      /\ bearer' = 0 /\ tasks' = Boot
      /\ auth' = [status |-> "unknown", user |-> NoUser, entering |-> FALSE]
      /\ flushing' = FALSE /\ left' = FALSE
  BY DEF Kill, backend, Pair, Session, Task
<1>2. Ui \in Tasks
  BY DEF Tasks, UiTasks
<1>3. issued \in Seq(Users) /\ 0 \in Pair /\ store \in Session /\ signIns \in 0 .. MaxSignIns
  BY <1>2, Given
<1>4. /\ Boot \in [Tasks -> Task] /\ \A t \in Tasks : RoleOK(t, Boot[t]) /\ InHand(Boot[t])
      /\ Boot[Ui].job = "restore"
      /\ \A t \in Calls \cup Rivals : Boot[t] = Idle /\ ~Boot[t].recovering
  BY <1>3, BootOK
<1>5. TasksOK'
  BY <1>1, <1>4 DEF TasksOK, RoleOK, InHand, Route
<1>6. faults' \in 0 .. MaxFaults /\ torn' \in BOOLEAN
  BY <1>2, Given DEF Kill
<1>7. boot' \in [user : Users \cup {NoUser}, faults : 0 .. MaxFaults, signIns : 0 .. MaxSignIns]
  BY <1>3, <1>6 DEF Kill, Session
<1>8. SessionTypeOK'
  <2>1. \A t \in Tasks : tasks'[t].todo # <<>>
                              <=> tasks'[t].at \in {"reading", "writing", "clearing"}
    BY <1>1, <1>4 DEF InHand
  <2>2. clash' \in BOOLEAN /\ astray' \in BOOLEAN
    BY ClashIsBoolean
  <2> QED BY <1>1, <1>3, <1>4, <1>6, <1>7, <2>1, <2>2 DEF SessionInv, SessionTypeOK, backend
<1>9. LogoutInv'
  BY <1>1, <1>4, ClashIsBoolean DEF LogoutInv
<1> QED BY <1>5, <1>8, <1>9 DEF SessionInv

-----------------------------------------------------------------------------
\* The invariant holds when the app is first started.
LEMMA InitSessionInv == Init => SessionInv
<1> SUFFICES ASSUME Init PROVE SessionInv
  OBVIOUS
<1>1. issued \in Seq(Users) /\ Ui \in Tasks /\ Len(issued) = 0
  BY DEF Init, Tasks, UiTasks
<1>2. /\ Boot \in [Tasks -> Task] /\ \A t \in Tasks : RoleOK(t, Boot[t]) /\ InHand(Boot[t])
      /\ Boot[Ui].job = "restore"
      /\ \A t \in Calls \cup Rivals : Boot[t] = Idle /\ ~Boot[t].recovering
      /\ NoSession \in Session /\ 0 \in Pair
  BY <1>1, BootOK, IdleOK DEF Pair
<1>3. TasksOK
  BY <1>2 DEF Init, TasksOK
<1>4. \A t \in Tasks : tasks[t].todo # <<>>
                            <=> tasks[t].at \in {"reading", "writing", "clearing"}
  BY <1>3 DEF TasksOK, InHand
<1>5. SessionTypeOK
  <2>1. MaxCalls \in Nat /\ MaxSignIns \in Nat /\ MaxFaults \in Nat
    BY SessionAssumption
  <2>2. /\ calls \in 0 .. MaxCalls /\ signIns \in 0 .. MaxSignIns /\ faults \in 0 .. MaxFaults
        /\ boot \in [user : Users \cup {NoUser}, faults : 0 .. MaxFaults,
                     signIns : 0 .. MaxSignIns]
    BY <2>1 DEF Init
  <2>3. /\ store \in Session /\ bearer \in Pair /\ tasks \in [Tasks -> Task]
        /\ lapsed \subseteq expired /\ expired \subseteq 1 .. Len(issued)
        /\ inactive \subseteq Users /\ {flushing, left, astray, clash, torn} \subseteq BOOLEAN
    BY <1>2 DEF Init
  <2>4. /\ auth \in [status : {"unknown", "unauthenticated", "authenticated"},
                     user : Users \cup {NoUser}, entering : BOOLEAN]
        /\ auth.status = "authenticated" <=> auth.user # NoUser
    BY DEF Init
  <2> QED BY <1>1, <1>4, <2>2, <2>3, <2>4 DEF SessionTypeOK
<1>6. LogoutInv
  BY <1>2 DEF Init, LogoutInv
<1> QED BY <1>3, <1>5, <1>6 DEF SessionInv

\* Every step keeps the invariant.
LEMMA NextSessionInv == SessionInv /\ [Next]_sessionVars => SessionInv'
<1> SUFFICES ASSUME SessionInv, [Next]_sessionVars PROVE SessionInv'
  OBVIOUS
<1>1. CASE UNCHANGED sessionVars
  <2>1. /\ UNCHANGED <<store, bearer, auth, tasks, flushing, boot, left, torn, issued,
                       expired, lapsed, inactive, astray, clash, calls, signIns, faults>>
        /\ Pair' = Pair /\ Session' = Session /\ Task' = Task
    BY <1>1 DEF sessionVars, till, backend, counters, Pair, Session, Task
  <2>2. SessionTypeOK'
    BY <2>1 DEF SessionInv, SessionTypeOK
  <2>3. TasksOK'
    BY <2>1 DEF SessionInv, TasksOK, RoleOK, InHand, Route
  <2>4. LogoutInv'
    BY <2>1 DEF SessionInv, LogoutInv, HasCleared, FindsNothing
  <2> QED BY <2>2, <2>3, <2>4 DEF SessionInv
<1>2. CASE Next
  <2>1. Step /\ Flagged
    BY <1>2 DEF Next, Flagged
  <2>2. ASSUME NEW t \in Tasks, Run(t) \/ Serve(t) \/ Lose(t) PROVE SessionInv'
    BY <2>1, <2>2, ReadKeyKeeps, WriteKeyKeeps, ClearKeyKeeps, ReceiveKeeps, ServeKeeps,
       LoseKeeps DEF Run
  <2>3. ASSUME NEW t \in UiTasks, NEW u \in Users, Login(t, u) PROVE SessionInv'
    BY <2>1, <2>3, LoginKeeps
  <2>8. ASSUME NEW u \in Users, Deactivate(u) PROVE SessionInv'
    BY <2>1, <2>8, DeactivateKeeps
  <2>9. ASSUME NEW t \in UiTasks, Logout(t) PROVE SessionInv'
    BY <2>1, <2>9, LogoutKeeps
  <2>4. ASSUME NEW c \in Calls, StartCall(c) PROVE SessionInv'
    BY <2>1, <2>4, StartCallKeeps
  <2>5. ASSUME NEW pair \in 1 .. Len(issued), Expire(pair) \/ Lapse(pair) PROVE SessionInv'
    BY <2>1, <2>5, ExpireKeeps
  <2>6. CASE Enter
    BY <2>1, <2>6, EnterKeeps
  <2>7. CASE Kill
    BY <2>1, <2>7, KillKeeps
  <2> QED BY <2>1, <2>2, <2>3, <2>4, <2>5, <2>6, <2>7, <2>8, <2>9 DEF Step
<1> QED BY <1>1, <1>2

\* The store, the tasks and the tokens have their types in every state, for any numbers of
\* users and requests (AuthService, ApiClient, SecureAuthSessionStore).
THEOREM ClientSessionTypeOK == Spec => []SessionTypeOK
<1>1. SessionInv => SessionTypeOK
  BY DEF SessionInv
<1> QED BY <1>1, InitSessionInv, NextSessionInv, PTL DEF Spec

\* Whatever requests are under way when logout() returns, and whatever expires, fails or
\* is killed: as long as no recovery and no other signing in or out has overlapped with
\* signing in or out, the store and the ApiClient stay empty until someone signs in.
THEOREM ClientLogoutIsFinal == Spec => []LogoutIsFinal
<1>1. SessionInv => LogoutIsFinal
  BY DEF SessionInv, LogoutInv, LogoutIsFinal
<1> QED BY <1>1, InitSessionInv, NextSessionInv, PTL DEF Spec

-----------------------------------------------------------------------------
(* One user at a time.  What makes it inductive: whatever a task has in    *)
(* hand, or is given, is of the user of the store that it read, so a whole *)
(* start of the app, and everything while a user is signed in, is of one   *)
(* user; only a login brings another, and it replaces all three keys       *)
(* before anyone else can touch them.                                      *)

\* The pair was issued to the user; there is none for NoUser.
PairOf(pair, user) == pair # 0 => issued[pair] = user

SessionOf(session, user) ==
    /\ PairOf(session.token, user) /\ PairOf(session.refresh, user)
    /\ session.user \in {user, NoUser}

\* What a task that starts the app, or recovers a request, may yet bring into the store.
TaskOf(q, user) ==
    IF q.job \in {"restore", "me"}
    THEN SessionOf(q.held, user) /\ SessionOf(q.kept, user) /\ PairOf(q.bearer, user)
    ELSE q.recovering => SessionOf(q.held, user)

TillOf(user) == SessionOf(store, user) /\ PairOf(bearer, user)

\* What the Ui does in each state of the screen.
ScreenInv ==
    /\ auth.status = "unknown" <=> tasks[Ui].job \in {"restore", "me"}
    /\ auth.status = "unknown" => ~flushing
    /\ auth.status = "authenticated" => flushing /\ tasks[Ui].job \in {"none", "logout"}
    /\ tasks[Ui].job = "logout" => auth.status = "authenticated"
    /\ tasks[Ui].job = "login" => tasks[Ui].at \in {"asking", "answered", "writing"}
    /\ ~flushing => \A c \in Calls : tasks[c] = Idle

\* A login has written the keys that are no longer to do.
HasWritten(q) ==
    /\ q.todo # Keys => store.token = q.held.token
    /\ q.todo = <<"user">> => store.refresh = q.held.refresh

LoginOf(q) ==
    /\ q.job = "login" /\ q.at \in {"answered", "writing"} => SessionOf(q.held, q.held.user)
    /\ q.job = "login" /\ q.at = "writing" => HasWritten(q)

\* While the app starts everything is of one user, while it is used of the user signed in,
\* and between the two no one's or some one's session is in the store.
OneOwner ==
    /\ auth.status = "unknown" =>
          \E user \in Users \cup {NoUser} : TillOf(user) /\ TaskOf(tasks[Ui], user)
    /\ flushing /\ tasks[Ui].at # "writing" =>
          TillOf(auth.user) /\ \A c \in Calls : TaskOf(tasks[c], auth.user)
    /\ auth.status = "unauthenticated" /\ (tasks[Ui].at = "writing" => tasks[Ui].todo = Keys) =>
          \E user \in Users \cup {NoUser} : SessionOf(store, user)
    /\ LoginOf(tasks[Ui])

\* As long as nothing has clashed.
UserInv == SessionInv /\ ScreenInv /\ (~clash /\ ~torn => OneOwner)

\* Pairs are only ever added.
Grows == issued' = issued \/ \E u \in Users : issued' = Append(issued, u)

\* A pair stays its owner's.
LEMMA PairStays ==
    ASSUME issued \in Seq(Users), Grows, NEW pair \in Pair, NEW user
    PROVE  PairOf(pair, user)' <=> PairOf(pair, user)
<1>1. pair # 0 => issued'[pair] = issued[pair]
  BY DEF Grows, Pair
<1> QED BY <1>1 DEF PairOf

\* So does a session,
LEMMA SessionStays ==
    ASSUME issued \in Seq(Users), Grows, NEW session \in Session, NEW user
    PROVE  SessionOf(session, user)' <=> SessionOf(session, user)
<1>1. session.token \in Pair /\ session.refresh \in Pair
  BY DEF Session
<1>2. PairOf(session.token, user)' <=> PairOf(session.token, user)
  BY <1>1, PairStays
<1>3. PairOf(session.refresh, user)' <=> PairOf(session.refresh, user)
  BY <1>1, PairStays
<1> QED BY <1>2, <1>3 DEF SessionOf

\* and what a task has in hand.
LEMMA TaskStays ==
    ASSUME issued \in Seq(Users), Grows, NEW q \in Task, NEW user
    PROVE  TaskOf(q, user)' <=> TaskOf(q, user)
<1>1. q.held \in Session /\ q.kept \in Session /\ q.bearer \in Pair
  BY DEF Task
<1>2. SessionOf(q.held, user)' <=> SessionOf(q.held, user)
  BY <1>1, SessionStays
<1>3. SessionOf(q.kept, user)' <=> SessionOf(q.kept, user)
  BY <1>1, SessionStays
<1>4. PairOf(q.bearer, user)' <=> PairOf(q.bearer, user)
  BY <1>1, PairStays
<1> QED BY <1>2, <1>3, <1>4 DEF TaskOf

\* No session is anyone's.
LEMMA NothingIsOf ==
    ASSUME NEW user
    PROVE  SessionOf(NoSession, user) /\ PairOf(0, user) /\ TaskOf(Idle, user)
  BY DEF SessionOf, PairOf, TaskOf, NoSession, Idle

\* A session of which one more key was taken from another of the same user is that user's.
LEMMA OneKeyOf ==
    ASSUME NEW session \in Session, NEW other \in Session, NEW user,
           NEW key \in {"token", "refresh", "user"},
           SessionOf(session, user), SessionOf(other, user)
    PROVE  SessionOf([session EXCEPT ![key] = other[key]], user)
<1>1. CASE key = "token"
  BY <1>1 DEF SessionOf, Session
<1>2. CASE key = "refresh"
  BY <1>2 DEF SessionOf, Session
<1>3. CASE key = "user"
  BY <1>3 DEF SessionOf, Session
<1> QED BY <1>1, <1>2, <1>3

\* A step of one task that issues no tokens, seen from one user.
LEMMA MovesFrame ==
    ASSUME SessionInv, NEW t \in Tasks, NEW q, Set(t, q), UNCHANGED issued, NEW user,
           TaskOf(q, user), SessionOf(store', user), PairOf(bearer', user)
    PROVE  TillOf(user)' /\ TaskOf(tasks[t], user)'
<1>1. tasks'[t] = q
  BY DEF Set, SessionInv, SessionTypeOK
<1> QED BY <1>1 DEF TillOf, TaskOf, SessionOf, PairOf

\* A task that has the store in its hand carries the session of one user.
LEMMA HeldOf ==
    ASSUME SessionInv, NEW t \in Tasks, NEW user, TaskOf(tasks[t], user),
           tasks[t].at \in {"reading", "writing"}, tasks[t].job # "login"
    PROVE  SessionOf(tasks[t].held, user)
<1>1. /\ RoleOK(t, tasks[t])
      /\ tasks[t].job \in {"none", "restore", "me", "login", "logout", "call"}
  BY Given DEF Task
<1>2. tasks[t].job \in {"restore", "me"} \/ tasks[t].recovering
  BY <1>1 DEF RoleOK
<1> QED BY <1>2 DEF TaskOf

\* A task reads a key.
LEMMA ReadMoves ==
    ASSUME SessionInv, NEW t \in Tasks, ReadKey(t), tasks[t].job # "login", NEW user,
           TillOf(user), TaskOf(tasks[t], user)
    PROVE  TillOf(user)' /\ TaskOf(tasks[t], user)'
<1> DEFINE task == Read(t)
<1>1. /\ tasks[t].at = "reading"
      /\ IF task.todo # <<>> THEN Set(t, task) /\ UNCHANGED <<bearer, auth, flushing>>
         ELSE AfterRead(t, task)
      /\ UNCHANGED <<store, issued>>
  BY DEF ReadKey, Read, backend
<1>2. /\ task \in Task
      /\ \A field \in {"job", "at", "recovering", "retried", "kept", "bearer", "answer",
                        "user"} : task[field] = tasks[t][field]
  BY <1>1, ReadTask
<1>3. tasks[t] \in Task /\ store \in Session /\ tasks[t].todo # <<>>
  BY <1>1, Given DEF InHand
<1>4. SessionOf(task.held, user)
  <2>1. tasks[t].held \in Session /\ Head(tasks[t].todo) \in {"token", "refresh", "user"}
    BY <1>3, TodoStep DEF Task
  <2>2. task.held = [tasks[t].held EXCEPT ![Head(tasks[t].todo)] = store[Head(tasks[t].todo)]]
    BY <1>3 DEF Read, Task
  <2>3. SessionOf(tasks[t].held, user) /\ SessionOf(store, user)
    BY <1>1, HeldOf DEF TillOf
  <2>4. SessionOf([tasks[t].held EXCEPT ![Head(tasks[t].todo)] =
                                              store[Head(tasks[t].todo)]], user)
    BY <1>3, <2>1, <2>3, OneKeyOf
  <2> HIDE DEF task
  <2> QED BY <2>2, <2>4
<1>5. TaskOf(task, user)
  BY <1>2, <1>4 DEF TaskOf
<1>6. SessionOf(store', user) /\ PairOf(bearer, user)
  BY <1>1 DEF TillOf
<1>7. PairOf(task.held.token, user) /\ PairOf(0, user)
  BY <1>4 DEF SessionOf, PairOf
<1> HIDE DEF task
<1>8. ASSUME NEW q, Set(t, q), TaskOf(q, user), PairOf(bearer', user)
      PROVE  TillOf(user)' /\ TaskOf(tasks[t], user)'
  BY <1>1, <1>6, <1>8, MovesFrame
<1>9. TaskOf(Clearing(task), user) /\ TaskOf(Refreshing(task), user)
  BY <1>2, <1>5, <1>7 DEF Clearing, Refreshing, Asking, TaskOf, Task
<1>10. TaskOf(Asking([task EXCEPT !.job = "me", !.kept = task.held], task.held.token), user)
  BY <1>2, <1>4, <1>7 DEF Asking, TaskOf, Task
<1>11. CASE task.todo # <<>>
  BY <1>1, <1>5, <1>6, <1>8, <1>11
<1>12. CASE task.todo = <<>>
  <2>1. CASE Set(t, Clearing(task)) /\ UNCHANGED bearer
    BY <1>6, <1>8, <1>9, <2>1
  <2>2. CASE Set(t, Refreshing(task)) /\ UNCHANGED bearer
    BY <1>6, <1>8, <1>9, <2>2
  <2>3. CASE Set(t, Idle) /\ bearer' = 0
    BY <1>7, <1>8, <2>3, NothingIsOf
  <2>4. CASE /\ bearer' = task.held.token
             /\ Set(t, Asking([task EXCEPT !.job = "me", !.kept = task.held], task.held.token))
    BY <1>7, <1>8, <1>10, <2>4
  <2> QED BY <1>1, <1>12, <2>1, <2>2, <2>3, <2>4 DEF AfterRead, GiveUp, UiTasks
<1> QED BY <1>11, <1>12

\* A task writes a key.
LEMMA WriteMoves ==
    ASSUME SessionInv, NEW t \in Tasks, WriteKey(t), tasks[t].job # "login", NEW user,
           TillOf(user), TaskOf(tasks[t], user)
    PROVE  TillOf(user)' /\ TaskOf(tasks[t], user)'
<1> DEFINE task == OneKeyLess(t)
           key == Head(tasks[t].todo)
<1>1. /\ tasks[t].at = "writing"
      /\ store' = [store EXCEPT ![key] = tasks[t].held[key]]
      /\ IF task.todo # <<>> THEN Set(t, task) /\ UNCHANGED <<bearer, auth, flushing>>
         ELSE AfterWrite(t, task)
      /\ UNCHANGED issued
  <2>1. tasks[t].todo # <<>> /\ tasks[t] \in Task /\ tasks[t].at = "writing"
    BY Given DEF WriteKey, InHand
  <2>2. task.held = tasks[t].held
    BY <2>1, OneKeyLessTask
  <2> QED BY <2>2 DEF WriteKey, OneKeyLess, backend
<1>2. tasks[t] \in Task /\ store \in Session /\ InHand(tasks[t])
  BY Given
<1>3. /\ task \in Task /\ key \in {"token", "refresh", "user"}
      /\ \A field \in {"job", "at", "recovering", "retried", "held", "kept", "bearer",
                        "answer", "user"} : task[field] = tasks[t][field]
  BY <1>1, <1>2, OneKeyLessTask DEF InHand
<1>4. SessionOf(tasks[t].held, user) /\ SessionOf(store, user) /\ tasks[t].held \in Session
  BY <1>1, <1>2, HeldOf DEF TillOf, Task
<1>5. SessionOf(store', user)
  <2>1. SessionOf([store EXCEPT ![key] = tasks[t].held[key]], user)
    BY <1>2, <1>3, <1>4, OneKeyOf
  <2> HIDE DEF key
  <2> QED BY <1>1, <2>1
<1>6. TaskOf(task, user) /\ PairOf(bearer, user)
  BY <1>3, <1>4 DEF TaskOf, TillOf
<1>7. PairOf(task.held.token, user) /\ SessionOf(task.held, user)
  BY <1>3, <1>4 DEF SessionOf
<1> HIDE DEF task, key
<1>8. ASSUME NEW q, Set(t, q), TaskOf(q, user), PairOf(bearer', user)
      PROVE  TillOf(user)' /\ TaskOf(tasks[t], user)'
  BY <1>1, <1>5, <1>8, MovesFrame
<1>9. CASE task.todo # <<>>
  BY <1>1, <1>6, <1>8, <1>9
<1>10. CASE task.todo = <<>>
  <2>1. bearer' = task.held.token /\ PairOf(bearer', user)
    BY <1>1, <1>7, <1>10 DEF AfterWrite
  <2>2. CASE Set(t, Asking([task EXCEPT !.recovering = FALSE, !.retried = TRUE], bearer'))
    <3>1. TaskOf(Asking([task EXCEPT !.recovering = FALSE, !.retried = TRUE], bearer'), user)
      BY <1>3, <1>6, <2>1 DEF Asking, TaskOf, Task
    <3> QED BY <1>8, <2>1, <2>2, <3>1
  <2>3. CASE Set(t, Asking([task EXCEPT !.job = "me", !.kept = task.held], bearer'))
    <3>1. TaskOf(Asking([task EXCEPT !.job = "me", !.kept = task.held], bearer'), user)
      BY <1>3, <1>7, <2>1 DEF Asking, TaskOf, Task
    <3> QED BY <1>8, <2>1, <2>3, <3>1
  <2>4. CASE Set(t, Idle)
    BY <1>8, <2>1, <2>4, NothingIsOf
  <2> QED BY <1>1, <1>10, <2>2, <2>3, <2>4 DEF AfterWrite
<1> QED BY <1>9, <1>10

\* A task clears a key.
LEMMA ClearMoves ==
    ASSUME SessionInv, NEW t \in Tasks, ClearKey(t), NEW user,
           TillOf(user), TaskOf(tasks[t], user)
    PROVE  TillOf(user)' /\ TaskOf(tasks[t], user)'
<1> DEFINE task == OneKeyLess(t)
           key == Head(tasks[t].todo)
<1>1. /\ tasks[t].at = "clearing"
      /\ store' = [store EXCEPT ![key] = NoSession[key]]
      /\ IF task.todo # <<>> THEN Set(t, task) /\ UNCHANGED <<bearer, auth, flushing, left>>
         ELSE AfterClear(t, task)
      /\ UNCHANGED issued
  BY DEF ClearKey, OneKeyLess, backend
<1>2. tasks[t] \in Task /\ store \in Session /\ InHand(tasks[t]) /\ NoSession \in Session
  BY Given, IdleOK
<1>3. /\ task \in Task /\ key \in {"token", "refresh", "user"}
      /\ \A field \in {"job", "at", "recovering", "retried", "held", "kept", "bearer",
                        "answer", "user"} : task[field] = tasks[t][field]
  BY <1>1, <1>2, OneKeyLessTask DEF InHand
<1>4. SessionOf(store', user)
  <2>1. SessionOf([store EXCEPT ![key] = NoSession[key]], user)
    BY <1>2, <1>3, OneKeyOf, NothingIsOf DEF TillOf
  <2> HIDE DEF key
  <2> QED BY <1>1, <2>1
<1>5. TaskOf(task, user) /\ PairOf(bearer, user)
  BY <1>3 DEF TaskOf, TillOf
<1> HIDE DEF task, key
<1>6. ASSUME NEW q, Set(t, q), TaskOf(q, user), PairOf(bearer', user)
      PROVE  TillOf(user)' /\ TaskOf(tasks[t], user)'
  BY <1>1, <1>4, <1>6, MovesFrame
<1>7. CASE task.todo # <<>>
  BY <1>1, <1>5, <1>6, <1>7
<1>8. CASE task.todo = <<>>
  <2>1. bearer' = 0 /\ Set(t, Idle)
    BY <1>1, <1>8 DEF AfterClear, GiveUp, UiTasks
  <2> QED BY <1>6, <2>1, NothingIsOf
<1> QED BY <1>7, <1>8

\* A task receives its answer.
LEMMA ReceiveMoves ==
    ASSUME SessionInv, NEW t \in Tasks, Receive(t), NEW user,
           TillOf(user), TaskOf(tasks[t], user)
    PROVE  TillOf(user)' /\ TaskOf(tasks[t], user)'
<1> DEFINE task == [tasks[t] EXCEPT !.answer = "none"]
<1>1. UNCHANGED <<store, bearer, issued>> /\ SessionOf(store', user) /\ PairOf(bearer', user)
  BY DEF Receive, backend, TillOf
<1>2. tasks[t] \in Task
  BY Given
<1>3. ASSUME NEW q, Set(t, q), TaskOf(q, user)
      PROVE  TillOf(user)' /\ TaskOf(tasks[t], user)'
  BY <1>1, <1>3, MovesFrame
<1>4. CASE Set(t, Writing(task, task.held))
  <2>1. TaskOf(Writing(task, task.held), user)
    BY <1>2 DEF Writing, TaskOf, Task
  <2> QED BY <1>3, <1>4, <2>1
<1>5. CASE Set(t, Clearing(task))
  <2>1. TaskOf(Clearing(task), user)
    BY <1>2 DEF Clearing, TaskOf, Task
  <2> QED BY <1>3, <1>5, <2>1
<1>6. CASE Set(t, Reading([task EXCEPT !.recovering = TRUE]))
  <2>1. TaskOf(Reading([task EXCEPT !.recovering = TRUE]), user)
    BY <1>2, NothingIsOf DEF Reading, TaskOf, Task
  <2> QED BY <1>3, <1>6, <2>1
<1>7. CASE Set(t, Idle)
  BY <1>3, <1>7, NothingIsOf
<1> QED BY <1>4, <1>5, <1>6, <1>7 DEF Receive, GiveUp

\* What a task is answered.
LEMMA AnsweredOf ==
    ASSUME NEW q \in Task, NEW answer, NEW session, NEW user, TaskOf(q, user),
           SessionOf(session, user)
    PROVE  TaskOf(Answered(q, answer, session), user)
  BY NothingIsOf DEF Answered, TaskOf, Task

\* The backend serves the request of a task that does not sign in: for a pair it gives
\* another of the same user.
LEMMA ServeMoves ==
    ASSUME SessionInv, NEW t \in Tasks, Serve(t), tasks[t].job # "login", NEW user,
           TillOf(user), TaskOf(tasks[t], user)
    PROVE  TillOf(user)' /\ TaskOf(tasks[t], user)'
<1>1. tasks[t].at = "asking" /\ UNCHANGED <<store, bearer>>
  BY DEF Serve
<1>2. /\ tasks[t] \in Task /\ RoleOK(t, tasks[t]) /\ InHand(tasks[t]) /\ issued \in Seq(Users)
      /\ store \in Session /\ bearer \in Pair
  BY Given
<1>3. CASE Refuse(t)
  <2>1. TaskOf(Answered(tasks[t], "unauthorized", NoSession), user)
    BY <1>2, AnsweredOf, NothingIsOf
  <2> QED BY <1>1, <1>3, <2>1, MovesFrame DEF Refuse, TillOf
<1>4. ASSUME Route(tasks[t]) = "refresh", Issue(t, issued[tasks[t].held.refresh])
      PROVE  TillOf(user)' /\ TaskOf(tasks[t], user)'
  <2> DEFINE pair == Len(issued) + 1
             session == [token |-> pair, refresh |-> pair, user |-> user]
             q == Answered(tasks[t], "ok", session)
  <2>1. issued[tasks[t].held.refresh] = user /\ user \in Users
    <3>1. SessionOf(tasks[t].held, user)
      <4>1. tasks[t].recovering \/ tasks[t].job = "restore"
        BY <1>2, <1>4 DEF Route, Task
      <4> QED BY <4>1 DEF TaskOf
    <3>2. tasks[t].held.refresh \in 1 .. Len(issued)
      BY <1>1, <1>2, <1>4 DEF InHand, Task, Session, Pair
    <3> QED BY <1>2, <3>1, <3>2 DEF SessionOf, PairOf
  <2>2. issued' = Append(issued, user) /\ tasks'[t] = q
    BY <1>4, <2>1 DEF Issue, Set, SessionInv, SessionTypeOK
  <2>3. Grows /\ issued'[pair] = user
    BY <1>2, <2>1, <2>2 DEF Grows
  <2>4. TillOf(user)'
    <3>1. (SessionOf(store, user) /\ PairOf(bearer, user))'
      BY <1>1, <1>2, <2>3, PairStays, SessionStays DEF TillOf
    <3> QED BY <3>1 DEF TillOf
  <2>5. TaskOf(tasks[t], user)'
    <3>1. q.held = session /\ q.bearer = 0 /\ q.kept = tasks[t].kept /\ q.job = tasks[t].job
      BY <1>2 DEF Answered, Task
    <3>2. SessionOf(tasks[t].held, user)'
      BY <2>2, <2>3, <3>1 DEF SessionOf, PairOf
    <3>3. tasks[t].job \in {"restore", "me"} => SessionOf(tasks[t].kept, user)'
      <4>1. PICK kept : kept = tasks[t].kept
        OBVIOUS
      <4>2. kept \in Session /\ (tasks[t].job \in {"restore", "me"} => SessionOf(kept, user))
        BY <1>2, <4>1 DEF TaskOf, Task
      <4>3. SessionOf(kept, user)' <=> SessionOf(kept, user)
        BY <1>2, <2>3, <4>2, SessionStays
      <4>4. tasks'[t].kept = kept
        BY <2>2, <3>1, <4>1
      <4> QED BY <4>2, <4>3, <4>4 DEF SessionOf, PairOf
    <3> QED BY <2>2, <3>1, <3>2, <3>3 DEF TaskOf, PairOf
  <2> QED BY <2>4, <2>5
<1>5. CASE Route(tasks[t]) = "me" /\ ServeMe(t) /\ ~Refuse(t)
  <2> DEFINE session == [tasks[t].kept EXCEPT !.user = issued[tasks[t].bearer]]
  <2>1. Set(t, Answered(tasks[t], "ok", session)) /\ UNCHANGED issued /\ tasks[t].bearer # 0
    BY <1>5 DEF ServeMe, PassesGuard
  <2>2. SessionOf(tasks[t].kept, user) /\ issued[tasks[t].bearer] = user
    BY <1>5, <2>1 DEF TaskOf, Route, PairOf
  <2>3. SessionOf(session, user)
    BY <1>2, <2>2 DEF SessionOf, Task, Session
  <2> HIDE DEF session
  <2>4. TaskOf(Answered(tasks[t], "ok", session), user)
    BY <1>2, <2>3, AnsweredOf
  <2> QED BY <1>1, <2>1, <2>4, MovesFrame DEF TillOf
<1>6. CASE Set(t, Idle) /\ UNCHANGED issued
  BY <1>1, <1>6, NothingIsOf, MovesFrame DEF TillOf
<1>7. Route(tasks[t]) # "login"
  BY DEF Route
<1> QED BY <1>3, <1>4, <1>5, <1>6, <1>7 DEF Serve, ServeRefresh, ServeMe, ServeCall

\* The request of a task, or its answer, is lost.
LEMMA LoseMoves ==
    ASSUME SessionInv, NEW t \in Tasks, Lose(t), NEW user,
           TillOf(user), TaskOf(tasks[t], user)
    PROVE  TillOf(user)' /\ TaskOf(tasks[t], user)'
<1>1. /\ Set(t, IF Route(tasks[t]) = "call" THEN Idle ELSE Answered(tasks[t], "lost", NoSession))
      /\ UNCHANGED <<store, bearer, issued>>
  BY DEF Lose, backend
<1>2. TaskOf(Answered(tasks[t], "lost", NoSession), user) /\ TaskOf(Idle, user)
  BY Given, AnsweredOf, NothingIsOf
<1> QED BY <1>1, <1>2, MovesFrame DEF TillOf

\* A task that does not sign in keeps to the user of the store.
LEMMA TaskMoves ==
    ASSUME SessionInv, NEW t \in Tasks, Run(t) \/ Serve(t) \/ Lose(t), tasks[t].job # "login",
           NEW user, TillOf(user), TaskOf(tasks[t], user)
    PROVE  TillOf(user)' /\ TaskOf(tasks[t], user)'
  BY ReadMoves, WriteMoves, ClearMoves, ReceiveMoves, ServeMoves, LoseMoves DEF Run

-----------------------------------------------------------------------------
\* What a step of a task leaves alone.
LEMMA TaskEffects ==
    ASSUME SessionInv, NEW t \in Tasks, Run(t) \/ Serve(t) \/ Lose(t)
    PROVE  /\ Grows /\ torn' = torn /\ tasks[t].at # "idle"
           /\ \A u \in Tasks : u # t => tasks'[u] = tasks[u]
           /\ t \notin UiTasks => /\ UNCHANGED <<auth, flushing>>
                                  /\ ~tasks[t].recovering => UNCHANGED <<store, issued>>
<1>1. /\ tasks[t] \in Task /\ RoleOK(t, tasks[t]) /\ InHand(tasks[t]) /\ issued \in Seq(Users)
      /\ \A q : Set(t, q) => \A u \in Tasks : u # t => tasks'[u] = tasks[u]
  BY Given DEF Set, SessionInv, SessionTypeOK
<1>2. CASE ReadKey(t)
  <2>1. /\ tasks[t].at = "reading" /\ UNCHANGED <<issued, torn, store>>
        /\ (\E q : Set(t, q)) /\ (t \notin UiTasks => UNCHANGED <<auth, flushing>>)
    BY <1>1, <1>2 DEF ReadKey, AfterRead, GiveUp, backend
  <2> QED BY <1>1, <2>1 DEF Grows
<1>3. CASE WriteKey(t)
  <2>1. /\ tasks[t].at = "writing" /\ UNCHANGED <<issued, torn>>
        /\ \E q : Set(t, q)
    BY <1>3 DEF WriteKey, AfterWrite, backend
  <2>2. t \notin UiTasks => tasks[t].recovering /\ tasks[t].job = "call"
    BY <1>1, <2>1 DEF RoleOK
  <2>3. t \notin UiTasks => UNCHANGED <<auth, flushing>>
    <3>1. OneKeyLess(t).job = tasks[t].job
      BY <1>1 DEF OneKeyLess, Task
    <3> QED BY <1>3, <2>2, <3>1 DEF WriteKey, AfterWrite, OneKeyLess
  <2> QED BY <1>1, <2>1, <2>2, <2>3 DEF Grows
<1>4. CASE ClearKey(t)
  <2>1. /\ tasks[t].at = "clearing" /\ UNCHANGED <<issued, torn>>
        /\ (\E q : Set(t, q)) /\ (t \notin UiTasks => UNCHANGED <<auth, flushing>>)
    BY <1>4 DEF ClearKey, AfterClear, GiveUp, backend
  <2>2. t \notin UiTasks => tasks[t].recovering
    BY <1>1, <2>1 DEF RoleOK
  <2> QED BY <1>1, <2>1, <2>2 DEF Grows
<1>5. CASE Receive(t)
  <2>1. /\ tasks[t].at = "answered" /\ UNCHANGED <<issued, torn, store>>
        /\ (\E q : Set(t, q)) /\ (t \notin UiTasks => UNCHANGED <<auth, flushing>>)
    BY <1>5 DEF Receive, GiveUp, backend
  <2> QED BY <1>1, <2>1 DEF Grows
<1>6. CASE Lose(t)
  <2>1. /\ tasks[t].at = "asking" /\ UNCHANGED <<issued, torn, store, auth, flushing>>
        /\ \E q : Set(t, q)
    BY <1>6 DEF Lose, backend
  <2> QED BY <1>1, <2>1 DEF Grows
<1>7. CASE Serve(t)
  <2>1. tasks[t].at = "asking" /\ UNCHANGED <<torn, store, auth, flushing>>
    BY <1>7 DEF Serve
  <2>2. CASE Refuse(t) \/ (UNCHANGED issued /\ \E q : Set(t, q))
    BY <1>1, <2>1, <2>2 DEF Refuse, Grows
  <2>3. ASSUME NEW u \in Users, Issue(t, u), tasks[t].recovering \/ t \in UiTasks
        PROVE  /\ Grows /\ (\E q : Set(t, q))
               /\ t \notin UiTasks => (~tasks[t].recovering => UNCHANGED <<store, issued>>)
    BY <2>3 DEF Issue, Grows
  <2>4. CASE Route(tasks[t]) = "login" /\ ServeLogin(t)
    <3>1. tasks[t].job = "login" /\ t \in UiTasks /\ tasks[t].user \in Users
      BY <1>1, <2>4 DEF Route, RoleOK, InHand
    <3> QED BY <1>1, <2>1, <2>2, <2>3, <2>4, <3>1 DEF ServeLogin
  <2>5. CASE Route(tasks[t]) = "refresh" /\ ServeRefresh(t)
    <3>1. issued[tasks[t].held.refresh] \in Users
      BY <1>1, <2>1, <2>5 DEF InHand, Task, Session, Pair
    <3>2. tasks[t].recovering \/ t \in UiTasks
      BY <1>1, <2>5 DEF Route, RoleOK
    <3> QED BY <1>1, <2>1, <2>2, <2>3, <2>5, <3>1, <3>2 DEF ServeRefresh
  <2>6. CASE Route(tasks[t]) = "me" /\ ServeMe(t)
    BY <2>2, <2>6 DEF ServeMe
  <2>7. CASE Route(tasks[t]) = "call" /\ ServeCall(t)
    BY <2>2, <2>7 DEF ServeCall
  <2> QED BY <1>7, <2>4, <2>5, <2>6, <2>7 DEF Serve
<1> QED BY <1>2, <1>3, <1>4, <1>5, <1>6, <1>7 DEF Run

\* While a request does not recover, it brings nothing.
LEMMA CallOf ==
    ASSUME SessionInv, NEW c \in Calls, ~tasks[c].recovering, NEW user
    PROVE  TaskOf(tasks[c], user)
<1>1. c \in Tasks /\ c \notin UiTasks
  BY SessionAssumption DEF Tasks, UiTasks, Ui
<1> QED BY <1>1, Given DEF TaskOf, RoleOK

\* A step of a request keeps the till to the user who is signed in.
LEMMA CallKeepsUser ==
    ASSUME UserInv, SessionInv', NEW c \in Calls, Run(c) \/ Serve(c) \/ Lose(c),
           Flagged, ~clash'
    PROVE  UserInv'
<1>1. c \in Tasks /\ c \notin UiTasks /\ Ui \in Tasks /\ Calls \subseteq Tasks /\ Ui \notin Calls
  BY SessionAssumption DEF Tasks, UiTasks, Ui
<1>2. /\ Grows /\ torn' = torn /\ tasks[c].at # "idle"
      /\ tasks'[Ui] = tasks[Ui] /\ \A d \in Calls : d # c => tasks'[d] = tasks[d]
      /\ auth' = auth /\ flushing' = flushing
      /\ ~tasks[c].recovering => store' = store /\ issued' = issued
  BY <1>1, TaskEffects DEF UserInv
<1>3. /\ flushing /\ auth.status # "unknown" /\ tasks[c].job # "login"
      /\ tasks[Ui] \in Task /\ issued \in Seq(Users) /\ SessionInv
  BY <1>1, <1>2, Given DEF UserInv, ScreenInv, Idle, RoleOK
<1>4. ScreenInv'
  BY <1>2, <1>3 DEF UserInv, ScreenInv
<1>5. ASSUME ~clash', ~torn' PROVE OneOwner'
  <2>1. ~clash /\ OneOwner
    BY <1>2, <1>5, ClashIsBoolean DEF UserInv
  <2>2. ASSUME tasks[Ui].at # "writing"
        PROVE  (TillOf(auth.user) /\ \A d \in Calls : TaskOf(tasks[d], auth.user))'
    <3>1. PICK user : user = auth.user
      OBVIOUS
    <3>2. TillOf(user) /\ \A d \in Calls : TaskOf(tasks[d], user)
      BY <1>3, <2>1, <2>2, <3>1 DEF OneOwner
    <3>3. TillOf(user)' /\ TaskOf(tasks[c], user)'
      BY <1>1, <1>3, <3>2, TaskMoves
    <3>4. ASSUME NEW d \in Calls, d # c PROVE TaskOf(tasks[d], user)'
      <4>1. PICK q : q = tasks[d]
        OBVIOUS
      <4>2. q \in Task /\ TaskOf(q, user) /\ tasks'[d] = q
        BY <1>1, <1>2, <1>3, <3>2, <3>4, <4>1, Given
      <4>3. TaskOf(q, user)'
        BY <1>2, <1>3, <4>2, TaskStays
      <4> QED BY <4>2, <4>3 DEF TaskOf, SessionOf, PairOf
    <3> QED BY <1>2, <3>1, <3>3, <3>4
            DEF TillOf, TaskOf, SessionOf, PairOf
  <2>3. LoginOf(tasks[Ui])'
    <3>1. tasks[Ui].at = "writing" => store' = store /\ issued' = issued
      BY <1>1, <1>2, <1>3, <2>1 DEF SessionInv, LogoutInv, Idle
    <3>2. PICK held : held = tasks[Ui].held
      OBVIOUS
    <3>3. held \in Session /\ tasks'[Ui].held = held
      BY <1>2, <1>3, <3>2 DEF Task
    <3>4. SessionOf(held, held.user)' <=> SessionOf(held, held.user)
      BY <1>2, <1>3, <3>3, SessionStays
    <3> QED BY <1>2, <2>1, <3>1, <3>2, <3>3, <3>4
            DEF OneOwner, LoginOf, HasWritten, SessionOf, PairOf
  <2>4. ASSUME auth'.status = "unauthenticated",
               tasks'[Ui].at = "writing" => tasks'[Ui].todo = Keys
        PROVE  (\E user \in Users \cup {NoUser} : SessionOf(store, user))'
    <3>1. CASE tasks[Ui].at # "writing"
      <4>1. auth'.user \in Users \cup {NoUser} /\ TillOf(auth.user)'
        BY <2>2, <3>1, Given DEF SessionInv, SessionTypeOK
      <4> QED BY <4>1 DEF TillOf
    <3>2. CASE tasks[Ui].at = "writing"
      <4>1. \E user \in Users \cup {NoUser} : SessionOf(store, user)
        BY <1>2, <2>1, <2>4 DEF OneOwner
      <4>2. store' = store /\ issued' = issued
        BY <1>1, <1>2, <1>3, <2>1, <3>2 DEF SessionInv, LogoutInv, Idle
      <4> QED BY <4>1, <4>2 DEF SessionOf, PairOf
    <3> QED BY <3>1, <3>2
  <2> QED BY <1>2, <1>3, <2>2, <2>3, <2>4 DEF OneOwner
<1> QED BY <1>4, <1>5 DEF UserInv

-----------------------------------------------------------------------------
\* The app, while it starts, goes on, shows the login screen, or signs in the user whose
\* session it has just written.
LEMMA StartEffects ==
    ASSUME SessionInv, Run(Ui) \/ Serve(Ui) \/ Lose(Ui), tasks[Ui].job \in {"restore", "me"}
    PROVE  \/ UNCHANGED <<auth, flushing>> /\ tasks'[Ui].job \in {"restore", "me"}
           \/ tasks'[Ui] = Idle /\ SignOut
           \/ /\ tasks'[Ui] = Idle /\ flushing'
              /\ auth'.status = "authenticated" /\ auth'.user = tasks[Ui].held.user
              /\ tasks[Ui].held.user \in Users /\ tasks[Ui].at = "writing" /\ issued' = issued
<1>1. /\ Ui \in Tasks /\ tasks[Ui] \in Task /\ RoleOK(Ui, tasks[Ui]) /\ InHand(tasks[Ui])
      /\ \A q : Set(Ui, q) => tasks'[Ui] = q
  BY Given DEF Set, Tasks, UiTasks, SessionInv, SessionTypeOK
<1>2. CASE ReadKey(Ui)
  <2> DEFINE task == Read(Ui)
  <2>1. /\ tasks[Ui].at = "reading"
        /\ IF task.todo # <<>> THEN Set(Ui, task) /\ UNCHANGED <<bearer, auth, flushing>>
           ELSE AfterRead(Ui, task)
    BY <1>2 DEF ReadKey, Read
  <2>2. task \in Task /\ task.job = tasks[Ui].job
    BY <1>1, <2>1, ReadTask
  <2> HIDE DEF task
  <2>3. CASE Set(Ui, task) /\ UNCHANGED <<bearer, auth, flushing>>
    BY <1>1, <2>2, <2>3
  <2>4. CASE AfterRead(Ui, task)
    <3>1. Clearing(task).job = task.job /\ Refreshing(task).job = task.job
      BY <2>2 DEF Clearing, Refreshing, Asking, Task
    <3>2. Asking([task EXCEPT !.job = "me", !.kept = task.held], task.held.token).job = "me"
      BY <2>2 DEF Asking, Task
    <3> QED BY <1>1, <2>2, <2>4, <3>1, <3>2 DEF AfterRead, GiveUp, UiTasks
  <2> QED BY <2>1, <2>3, <2>4
<1>3. CASE WriteKey(Ui)
  <2> DEFINE task == OneKeyLess(Ui)
  <2>1. /\ tasks[Ui].at = "writing" /\ issued' = issued
        /\ IF task.todo # <<>> THEN Set(Ui, task) /\ UNCHANGED <<bearer, auth, flushing>>
           ELSE AfterWrite(Ui, task)
    BY <1>3 DEF WriteKey, OneKeyLess, backend
  <2>2. task \in Task /\ task.job = tasks[Ui].job /\ task.held = tasks[Ui].held
    BY <1>1, <2>1, OneKeyLessTask DEF InHand
  <2>3. tasks[Ui].held.user \in Users
    BY <1>1, <2>1 DEF InHand
  <2> HIDE DEF task
  <2>4. CASE Set(Ui, task) /\ UNCHANGED <<bearer, auth, flushing>>
    BY <1>1, <2>2, <2>4
  <2>5. CASE AfterWrite(Ui, task)
    <3>1. Asking([task EXCEPT !.recovering = FALSE, !.retried = TRUE], bearer').job = task.job
      BY <2>2 DEF Asking, Task
    <3>2. Asking([task EXCEPT !.job = "me", !.kept = task.held], bearer').job = "me"
      BY <2>2 DEF Asking, Task
    <3> QED BY <1>1, <2>1, <2>2, <2>3, <2>5, <3>1, <3>2 DEF AfterWrite, SignIn
  <2> QED BY <2>1, <2>4, <2>5
<1>4. CASE ClearKey(Ui)
  <2> DEFINE task == OneKeyLess(Ui)
  <2>1. /\ tasks[Ui].at = "clearing"
        /\ IF task.todo # <<>> THEN Set(Ui, task) /\ UNCHANGED <<bearer, auth, flushing, left>>
           ELSE AfterClear(Ui, task)
    BY <1>4 DEF ClearKey, OneKeyLess
  <2>2. task \in Task /\ task.job = tasks[Ui].job
    BY <1>1, <2>1, OneKeyLessTask DEF InHand
  <2> HIDE DEF task
  <2> QED BY <1>1, <2>1, <2>2 DEF AfterClear, GiveUp, UiTasks
<1>5. CASE Receive(Ui)
  <2> DEFINE task == [tasks[Ui] EXCEPT !.answer = "none"]
  <2>1. /\ task \in Task /\ task.job = tasks[Ui].job
        /\ [task EXCEPT !.recovering = TRUE] \in Task
        /\ [task EXCEPT !.recovering = TRUE].job = task.job
    BY <1>1 DEF Task
  <2>2. \/ UNCHANGED <<auth, flushing>> /\ Set(Ui, Writing(task, task.held))
        \/ UNCHANGED <<auth, flushing>> /\ Set(Ui, Clearing(task))
        \/ UNCHANGED <<auth, flushing>> /\ Set(Ui, Reading([task EXCEPT !.recovering = TRUE]))
        \/ GiveUp(Ui)
        \/ Route(task) = "call"
    BY <1>5 DEF Receive
  <2>3. Route(task) # "call"
    BY <2>1 DEF Route
  <2>4. /\ Writing(task, task.held).job = task.job /\ Clearing(task).job = task.job
        /\ Reading([task EXCEPT !.recovering = TRUE]).job = task.job
    BY <2>1 DEF Writing, Clearing, Reading, Task
  <2> HIDE DEF task
  <2> QED BY <1>1, <2>1, <2>2, <2>3, <2>4 DEF GiveUp, UiTasks
<1>6. \A answer, session : Answered(tasks[Ui], answer, session).job = tasks[Ui].job
  BY <1>1 DEF Answered, Task
<1>7. Route(tasks[Ui]) \notin {"call", "login"}
  BY DEF Route
<1>8. CASE Serve(Ui)
  <2>1. UNCHANGED <<auth, flushing>>
        /\ \E answer, session : Set(Ui, Answered(tasks[Ui], answer, session))
    BY <1>7, <1>8 DEF Serve, ServeRefresh, ServeMe, Issue, Refuse
  <2> QED BY <1>1, <1>6, <2>1
<1>9. CASE Lose(Ui)
  BY <1>1, <1>6, <1>7, <1>9 DEF Lose
<1> QED BY <1>2, <1>3, <1>4, <1>5, <1>8, <1>9 DEF Run

\* While the app starts, a step of it keeps to the user whose session was stored.
LEMMA StartKeepsUser ==
    ASSUME UserInv, SessionInv', Run(Ui) \/ Serve(Ui) \/ Lose(Ui),
           tasks[Ui].job \in {"restore", "me"}, Flagged, ~clash'
    PROVE  UserInv'
<1>1. Ui \in Tasks /\ Calls \subseteq Tasks /\ Ui \notin Calls
  BY SessionAssumption DEF Tasks, UiTasks, Ui
<1>2. /\ torn' = torn /\ \A c \in Calls : tasks'[c] = tasks[c]
      /\ SessionInv /\ auth.status = "unknown" /\ ~flushing
      /\ \A c \in Calls : tasks[c] = Idle
  BY <1>1, TaskEffects DEF UserInv, ScreenInv
<1>3. tasks[Ui].job # "login" /\ tasks[Ui].job # "logout"
  OBVIOUS
<1>4. ASSUME ~clash', ~torn'
      PROVE  \E user \in Users \cup {NoUser} :
                 /\ (TillOf(user) /\ TaskOf(tasks[Ui], user))'
                 /\ tasks[Ui].at = "writing" => SessionOf(tasks[Ui].held, user)
  <2>1. PICK user \in Users \cup {NoUser} : TillOf(user) /\ TaskOf(tasks[Ui], user)
    BY <1>2, <1>4, ClashIsBoolean DEF UserInv, OneOwner
  <2>2. (TillOf(user) /\ TaskOf(tasks[Ui], user))'
    BY <1>1, <1>2, <1>3, <2>1, TaskMoves
  <2> QED BY <1>1, <1>2, <1>3, <2>1, <2>2, HeldOf
<1>5. CASE UNCHANGED <<auth, flushing>> /\ tasks'[Ui].job \in {"restore", "me"}
  <2>1. ScreenInv'
    BY <1>2, <1>5 DEF ScreenInv
  <2>2. ASSUME ~clash', ~torn' PROVE OneOwner'
    BY <1>2, <1>4, <1>5, <2>2 DEF OneOwner, LoginOf
  <2> QED BY <2>1, <2>2 DEF UserInv
<1>6. CASE tasks'[Ui] = Idle /\ SignOut
  <2>1. auth'.status = "unauthenticated" /\ flushing' = flushing
    BY <1>6 DEF SignOut, SessionInv, SessionTypeOK, UserInv
  <2>2. (LoginOf(tasks[Ui]) /\ tasks[Ui].job = "none" /\ tasks[Ui].at = "idle")'
    BY <1>6 DEF LoginOf, Idle
  <2>3. ScreenInv'
    BY <1>2, <2>1, <2>2 DEF ScreenInv
  <2>4. ASSUME ~clash', ~torn' PROVE OneOwner'
    BY <1>2, <1>4, <2>1, <2>2, <2>4 DEF OneOwner, TillOf
  <2> QED BY <2>3, <2>4 DEF UserInv
<1>7. CASE /\ tasks'[Ui] = Idle /\ flushing'
           /\ auth'.status = "authenticated" /\ auth'.user = tasks[Ui].held.user
           /\ tasks[Ui].held.user \in Users /\ tasks[Ui].at = "writing"
  <2>2. (LoginOf(tasks[Ui]) /\ tasks[Ui].job = "none" /\ tasks[Ui].at = "idle")'
    BY <1>7 DEF LoginOf, Idle
  <2>3. ScreenInv'
    BY <1>7, <2>2 DEF ScreenInv
  <2>4. ASSUME ~clash', ~torn' PROVE OneOwner'
    <3>1. PICK user \in Users \cup {NoUser} :
                 /\ (TillOf(user) /\ TaskOf(tasks[Ui], user))'
                 /\ SessionOf(tasks[Ui].held, user)
      BY <1>4, <1>7, <2>4
    <3>2. auth'.user = user
      BY <1>7, <3>1, SessionAssumption DEF SessionOf
    <3>3. (TillOf(auth.user))'
      BY <3>1, <3>2 DEF TillOf, SessionOf, PairOf
    <3>4. \A c \in Calls : TaskOf(tasks[c], auth.user)'
      BY <1>2 DEF TaskOf, Idle
    <3> QED BY <1>7, <2>2, <3>3, <3>4 DEF OneOwner
  <2> QED BY <2>3, <2>4 DEF UserInv
<1> QED BY <1>2, <1>5, <1>6, <1>7, StartEffects

-----------------------------------------------------------------------------
\* Until a login writes, the till stays as it was.
LEMMA BeforeWriting ==
    ASSUME UserInv, SessionInv', NEW q, Set(Ui, q), q.job \in {"none", "login"},
           q.job = "login" => \/ q.at \in {"asking", "answered"}
                              \/ q.at = "writing" /\ q.todo = Keys,
           q.job = "none" => q.at = "idle",
           Grows, UNCHANGED <<store, bearer, auth, flushing, torn>>,
           auth.status = "unauthenticated", tasks[Ui].at # "writing",
           ~clash' => ~clash, LoginOf(tasks[Ui])'
    PROVE  UserInv'
<1>1. /\ Ui \in Tasks /\ Calls \subseteq Tasks /\ Ui \notin Calls
      /\ issued \in Seq(Users) /\ store \in Session /\ bearer \in Pair
  BY SessionAssumption, Given DEF Tasks, UiTasks, Ui, UserInv
<1>2. tasks'[Ui] = q /\ \A c \in Calls : tasks'[c] = tasks[c]
  BY <1>1 DEF Set, UserInv, SessionInv, SessionTypeOK
<1>3. ScreenInv'
  BY <1>2 DEF UserInv, ScreenInv
<1>4. ASSUME ~clash', ~torn' PROVE OneOwner'
  <2>1. OneOwner
    BY <1>4 DEF UserInv
  <2>2. ASSUME flushing
        PROVE  (TillOf(auth.user) /\ \A c \in Calls : TaskOf(tasks[c], auth.user))'
    <3>1. PICK user : user = auth.user
      OBVIOUS
    <3>2. TillOf(user) /\ \A c \in Calls : TaskOf(tasks[c], user)
      BY <2>1, <2>2, <3>1 DEF OneOwner
    <3>3. TillOf(user)'
      <4>1. (SessionOf(store, user) /\ PairOf(bearer, user))'
        BY <1>1, <3>2, PairStays, SessionStays DEF TillOf
      <4> QED BY <4>1 DEF TillOf
    <3>4. ASSUME NEW c \in Calls PROVE TaskOf(tasks[c], user)'
      <4>1. PICK r : r = tasks[c]
        OBVIOUS
      <4>2. r \in Task /\ TaskOf(r, user) /\ tasks'[c] = r
        BY <1>1, <1>2, <3>2, <4>1, Given DEF UserInv
      <4>3. TaskOf(r, user)'
        BY <1>1, <4>2, TaskStays
      <4> QED BY <4>2, <4>3 DEF TaskOf, SessionOf, PairOf
    <3> QED BY <3>1, <3>3, <3>4 DEF TillOf, TaskOf, SessionOf, PairOf
  <2>3. (\E user \in Users \cup {NoUser} : SessionOf(store, user))'
    <3>1. PICK user \in Users \cup {NoUser} : SessionOf(store, user)
      BY <2>1 DEF OneOwner
    <3>2. SessionOf(store, user)'
      BY <1>1, <3>1, SessionStays
    <3> QED BY <3>2
  <2> QED BY <1>2, <2>2, <2>3 DEF OneOwner
<1> QED BY <1>3, <1>4 DEF UserInv

\* The user starts to sign in.
LEMMA LoginStartsUser ==
    ASSUME UserInv, SessionInv', NEW u \in Users, Login(Ui, u), Flagged, ~clash'
    PROVE  UserInv'
<1> DEFINE q == Asking([Idle EXCEPT !.job = "login", !.user = u], 0)
<1>1. /\ Set(Ui, q) /\ UNCHANGED <<store, bearer, auth, flushing, torn, issued>>
      /\ auth.status = "unauthenticated" /\ tasks[Ui].at # "writing"
  BY ClashIsBoolean DEF Login, Free, MayLogIn, backend, Idle, UserInv, SessionInv, LogoutInv
<1>2. q.job = "login" /\ q.at = "asking"
  BY DEF Asking, Idle
<1>3. LoginOf(tasks[Ui])'
  <2>1. tasks'[Ui] = q
    BY <1>1 DEF Set, UserInv, SessionInv, SessionTypeOK, Tasks, UiTasks
  <2> QED BY <1>2, <2>1 DEF LoginOf
<1> HIDE DEF q
<1> QED BY <1>1, <1>2, <1>3, BeforeWriting, ClashIsBoolean DEF Grows, UserInv

\* A login is answered, and goes on or ends.
LEMMA LoginAnsweredUser ==
    ASSUME UserInv, SessionInv', Receive(Ui) \/ Serve(Ui) \/ Lose(Ui), tasks[Ui].job = "login",
           Flagged, ~clash'
    PROVE  UserInv'
<1>1. /\ Ui \in Tasks /\ tasks[Ui] \in Task /\ RoleOK(Ui, tasks[Ui]) /\ InHand(tasks[Ui])
      /\ issued \in Seq(Users)
      /\ \A q : Set(Ui, q) => tasks'[Ui] = q
  BY Given DEF UserInv, Set, Tasks, UiTasks, SessionInv, SessionTypeOK
<1>2. auth.status = "unauthenticated" /\ auth.user = NoUser
  <2>1. auth.status = "unauthenticated"
    BY DEF UserInv, ScreenInv, SessionInv, SessionTypeOK
  <2> QED BY <2>1 DEF UserInv, SessionInv, SessionTypeOK
<1>3. Route(tasks[Ui]) = "login"
  BY <1>1 DEF RoleOK, Route
<1>4. Grows /\ torn' = torn
  BY <1>1, TaskEffects DEF UserInv, Run
<1>5. ASSUME NEW answer, NEW session, SessionOf(session, session.user)',
             Set(Ui, Answered(tasks[Ui], answer, session)), tasks[Ui].at = "asking",
             UNCHANGED <<store, bearer, auth, flushing>>
      PROVE  UserInv'
  <2> DEFINE q == Answered(tasks[Ui], answer, session)
  <2>1. q.job = "login" /\ q.at = "answered" /\ q.held = session
    BY <1>1 DEF Answered, Task
  <2>2. LoginOf(tasks[Ui])'
    BY <1>1, <1>5, <2>1 DEF LoginOf, SessionOf, PairOf
  <2> HIDE DEF q
  <2> QED BY <1>2, <1>4, <1>5, <2>1, <2>2, BeforeWriting, ClashIsBoolean
         DEF q, UserInv
<1>6. CASE Receive(Ui)
  <2> DEFINE task == [tasks[Ui] EXCEPT !.answer = "none"]
             q == Writing(task, task.held)
  <2>1. /\ task \in Task /\ task.job = "login" /\ task.recovering = tasks[Ui].recovering
        /\ task.held = tasks[Ui].held /\ Route(task) = "login"
    BY <1>1, <1>3 DEF Task, Route
  <2>2. tasks[Ui].at = "answered" /\ UNCHANGED <<store, bearer, issued>>
    BY <1>6 DEF Receive, backend
  <2>3. \/ Set(Ui, q) /\ UNCHANGED <<auth, flushing>>
        \/ GiveUp(Ui)
    BY <1>6, <2>1 DEF Receive
  <2>4. CASE Set(Ui, q) /\ UNCHANGED <<auth, flushing>> /\ ~clash /\ ~torn
    <3>1. q.job = "login" /\ q.at = "writing" /\ q.todo = Keys /\ q.held = tasks[Ui].held
      BY <2>1 DEF Writing, Task
    <3>2. SessionOf(tasks[Ui].held, tasks[Ui].held.user)
      BY <2>2, <2>4 DEF UserInv, OneOwner, LoginOf
    <3>3. LoginOf(tasks[Ui])'
      BY <1>1, <2>2, <2>4, <3>1, <3>2, KeysNotEmpty
         DEF LoginOf, HasWritten, SessionOf, PairOf, Keys
    <3> HIDE DEF q
    <3> QED BY <1>2, <1>4, <2>2, <2>4, <3>1, <3>3, BeforeWriting, ClashIsBoolean
  <2>5. CASE Set(Ui, q) /\ UNCHANGED <<auth, flushing>> /\ (clash \/ torn)
    <3>1. q.job = "login" /\ q.at = "writing"
      BY <2>1 DEF Writing, Task
    <3>2. tasks'[Ui] = q /\ \A c \in Calls : tasks'[c] = tasks[c]
      BY <1>1, <2>5, SessionAssumption
         DEF Set, Tasks, UiTasks, Ui, UserInv, SessionInv, SessionTypeOK
    <3> HIDE DEF q
    <3>3. ScreenInv'
      BY <1>2, <2>5, <3>1, <3>2 DEF UserInv, ScreenInv
    <3> QED BY <1>4, <2>5, <3>3, ClashIsBoolean DEF UserInv
  <2>6. CASE GiveUp(Ui)
    <3>1. Set(Ui, Idle) /\ flushing' = flushing
          /\ auth' = [auth EXCEPT !.status = "unauthenticated", !.user = NoUser]
      BY <2>6 DEF GiveUp, SignOut, UiTasks
    <3>2. auth' = auth
      BY <1>2, <3>1 DEF UserInv, SessionInv, SessionTypeOK
    <3>3. LoginOf(tasks[Ui])' /\ Idle.job = "none" /\ Idle.at = "idle"
      BY <1>1, <3>1 DEF LoginOf, Idle
    <3> QED BY <1>2, <1>4, <2>2, <3>1, <3>2, <3>3, BeforeWriting, ClashIsBoolean DEF UserInv
  <2> QED BY <2>3, <2>4, <2>5, <2>6
<1>7. SessionOf(NoSession, NoSession.user)'
  BY DEF SessionOf, PairOf, NoSession
<1>8. CASE Serve(Ui)
  <2>1. tasks[Ui].at = "asking" /\ ServeLogin(Ui)
        /\ UNCHANGED <<store, bearer, auth, flushing>>
    BY <1>3, <1>8 DEF Serve
  <2>2. CASE Refuse(Ui)
    BY <1>5, <1>7, <2>1, <2>2 DEF Refuse
  <2>3. CASE Issue(Ui, tasks[Ui].user)
    <3>1. PICK user : user = tasks[Ui].user
      OBVIOUS
    <3>2. PICK pair : pair = Len(issued) + 1
      OBVIOUS
    <3> DEFINE session == [token |-> pair, refresh |-> pair, user |-> user]
    <3>3. issued' = Append(issued, user) /\ Set(Ui, Answered(tasks[Ui], "ok", session))
      BY <2>3, <3>1, <3>2 DEF Issue
    <3>4. user \in Users
      BY <1>1, <3>1 DEF InHand
    <3>5. SessionOf(session, session.user)'
      BY <1>1, <3>2, <3>3, <3>4 DEF SessionOf, PairOf
    <3> HIDE DEF session
    <3> QED BY <1>5, <2>1, <3>3, <3>5
  <2> QED BY <2>1, <2>2, <2>3 DEF ServeLogin
<1>9. CASE Lose(Ui)
  <2>1. tasks[Ui].at = "asking" /\ Set(Ui, Answered(tasks[Ui], "lost", NoSession))
        /\ UNCHANGED <<store, bearer, auth, flushing>>
    BY <1>3, <1>9 DEF Lose
  <2> QED BY <1>5, <1>7, <2>1
<1> QED BY <1>6, <1>8, <1>9

\* The keys of a login that are no longer to do are those of the session in hand.
LEMMA LoginWrites ==
    ASSUME UserInv, ~clash, ~torn, WriteKey(Ui), tasks[Ui].job = "login"
    PROVE  LET held == tasks[Ui].held
               task == OneKeyLess(Ui)
           IN  /\ SessionOf(held, held.user)
               /\ \/ task.todo = <<"refresh", "user">> /\ store'.token = held.token
                  \/ /\ task.todo = <<"user">>
                     /\ store'.token = held.token /\ store'.refresh = held.refresh
                  \/ task.todo = <<>> /\ store' = held
<1> DEFINE task == OneKeyLess(Ui)
           key == Head(tasks[Ui].todo)
           held == tasks[Ui].held
<1>1. /\ Ui \in Tasks /\ tasks[Ui] \in Task /\ InHand(tasks[Ui])
      /\ store \in Session /\ held \in Session /\ tasks[Ui].at = "writing"
  BY Given DEF UserInv, Tasks, UiTasks, Task, WriteKey
<1>2. tasks[Ui].todo \in Todos /\ tasks[Ui].todo # <<>>
  BY <1>1 DEF InHand, Task
<1>3. task.todo = Tail(tasks[Ui].todo) /\ task.held = held
  BY <1>1, <1>2, OneKeyLessTask DEF UserInv
<1>4. store' = [store EXCEPT ![key] = held[key]]
  BY <1>3 DEF WriteKey, OneKeyLess
<1>5. SessionOf(held, held.user) /\ HasWritten(tasks[Ui])
  BY <1>1 DEF UserInv, OneOwner, LoginOf
<1> HIDE DEF task, held
<1>6. CASE tasks[Ui].todo = Keys
  <2>1. key = "token" /\ task.todo = <<"refresh", "user">>
    BY <1>2, <1>3, <1>6, TodoStep
  <2> QED BY <1>1, <1>4, <1>5, <2>1 DEF Session, task, held
<1>7. CASE tasks[Ui].todo = <<"refresh", "user">>
  <2>1. key = "refresh" /\ task.todo = <<"user">> /\ store.token = held.token
    BY <1>2, <1>3, <1>5, <1>7, TodoStep DEF HasWritten, Keys, held
  <2> QED BY <1>1, <1>4, <1>5, <2>1 DEF Session, task, held
<1>8. CASE tasks[Ui].todo = <<"user">>
  <2>1. /\ key = "user" /\ task.todo = <<>>
        /\ store.token = held.token /\ store.refresh = held.refresh
    BY <1>2, <1>3, <1>5, <1>8, TodoStep DEF HasWritten, Keys, held
  <2> QED BY <1>1, <1>4, <1>5, <2>1 DEF Session, task, held
<1> QED BY <1>2, <1>6, <1>7, <1>8 DEF Todos, task, held

\* A login writes a key, and with the last one the user is signed in.
LEMMA LoginWritesUser ==
    ASSUME UserInv, SessionInv', WriteKey(Ui), tasks[Ui].job = "login",
           Flagged, ~clash'
    PROVE  UserInv'
<1> DEFINE task == OneKeyLess(Ui)
           key == Head(tasks[Ui].todo)
           held == tasks[Ui].held
<1>1. /\ Ui \in Tasks /\ tasks[Ui] \in Task /\ RoleOK(Ui, tasks[Ui]) /\ InHand(tasks[Ui])
      /\ store \in Session /\ held \in Session
      /\ \A q : Set(Ui, q) => tasks'[Ui] = q
  BY Given DEF UserInv, Set, Tasks, UiTasks, Task, SessionInv, SessionTypeOK
<1>2. Calls \subseteq Tasks /\ Ui \notin Calls
  BY SessionAssumption DEF Tasks, UiTasks, Ui
<1>3. /\ tasks[Ui].at = "writing" /\ torn' = torn /\ issued' = issued
      /\ \A c \in Calls : tasks'[c] = tasks[c]
  BY <1>1, <1>2, TaskEffects DEF UserInv, WriteKey, Run, backend
<1>4. /\ task \in Task /\ task.todo = Tail(tasks[Ui].todo)
      /\ task.job = "login" /\ task.at = "writing" /\ task.held = held
      /\ ~task.recovering
  BY <1>1, <1>3, OneKeyLessTask DEF UserInv, InHand, RoleOK
<1>5. /\ store' = [store EXCEPT ![key] = held[key]]
      /\ IF task.todo # <<>> THEN Set(Ui, task) /\ UNCHANGED <<bearer, auth, flushing>>
         ELSE AfterWrite(Ui, task)
  BY <1>4 DEF WriteKey, OneKeyLess
<1>6. tasks[Ui].todo \in Todos /\ tasks[Ui].todo # <<>> /\ held.user \in Users
  BY <1>1, <1>3 DEF InHand, Task
<1>7. ASSUME ~clash, ~torn
      PROVE  /\ SessionOf(held, held.user)
             /\ \/ task.todo = <<"refresh", "user">> /\ store'.token = held.token
                \/ /\ task.todo = <<"user">>
                   /\ store'.token = held.token /\ store'.refresh = held.refresh
                \/ task.todo = <<>> /\ store' = held
  BY <1>7, LoginWrites
<1>8. ~clash' => ~clash /\ \A c \in Calls : ~tasks[c].recovering
  BY <1>3, ClashIsBoolean DEF UserInv, SessionInv, LogoutInv, Idle
<1>9. auth.status = "unauthenticated"
  BY <1>1 DEF UserInv, ScreenInv, SessionInv, SessionTypeOK
<1> HIDE DEF task, held, key
<1>10. CASE task.todo # <<>>
  <2>1. tasks'[Ui] = task /\ UNCHANGED <<bearer, auth, flushing>>
    BY <1>1, <1>5, <1>10
  <2>2. ScreenInv'
    BY <1>3, <1>4, <1>9, <2>1 DEF UserInv, ScreenInv
  <2>3. ASSUME ~clash', ~torn' PROVE OneOwner'
    <3>1. /\ SessionOf(held, held.user)
          /\ \/ task.todo = <<"refresh", "user">> /\ store'.token = held.token
             \/ /\ task.todo = <<"user">>
                /\ store'.token = held.token /\ store'.refresh = held.refresh
      BY <1>3, <1>7, <1>8, <1>10, <2>3
    <3>2. LoginOf(tasks[Ui])'
      BY <1>3, <1>4, <2>1, <3>1 DEF LoginOf, HasWritten, SessionOf, PairOf
    <3>3. tasks'[Ui].todo # Keys
      BY <2>1, <3>1 DEF Keys
    <3> QED BY <1>4, <1>9, <2>1, <3>2, <3>3 DEF OneOwner
  <2> QED BY <2>2, <2>3 DEF UserInv
<1>11. CASE task.todo = <<>>
  <2>0. bearer' = task.held.token /\ Set(Ui, Idle) /\ SignIn(task)
    BY <1>4, <1>5, <1>11 DEF AfterWrite
  <2>1. /\ tasks'[Ui] = Idle /\ bearer' = held.token /\ flushing' = TRUE
        /\ auth'.status = "authenticated" /\ auth'.user = held.user
    BY <1>1, <1>4, <2>0 DEF SignIn
  <2>2. (LoginOf(tasks[Ui]) /\ tasks[Ui].job = "none" /\ tasks[Ui].at = "idle")'
    BY <2>1 DEF LoginOf, Idle
  <2>3. ScreenInv'
    BY <2>1, <2>2 DEF ScreenInv
  <2>4. ASSUME ~clash', ~torn' PROVE OneOwner'
    <3>1. SessionOf(held, held.user) /\ store' = held
      BY <1>3, <1>7, <1>8, <1>11, <2>4
    <3>2. (TillOf(auth.user))'
      BY <1>3, <2>1, <3>1 DEF TillOf, SessionOf, PairOf
    <3>3. ASSUME NEW c \in Calls PROVE TaskOf(tasks[c], auth.user)'
      <4>1. ~tasks'[c].recovering /\ tasks'[c].job \notin {"restore", "me"}
        BY <1>2, <1>3, <1>8, <2>4, <3>3, Given, SessionAssumption
           DEF UserInv, RoleOK, UiTasks, Ui
      <4> QED BY <4>1 DEF TaskOf
    <3> QED BY <2>1, <2>2, <3>2, <3>3 DEF OneOwner
  <2> QED BY <2>3, <2>4 DEF UserInv
<1> QED BY <1>10, <1>11

-----------------------------------------------------------------------------
\* The user starts to sign out.
LEMMA LogoutStartsUser ==
    ASSUME UserInv, SessionInv', Logout(Ui), Flagged, ~clash'
    PROVE  UserInv'
<1> DEFINE q == Clearing([Idle EXCEPT !.job = "logout"])
<1>1. /\ Set(Ui, q) /\ UNCHANGED <<store, bearer, auth, flushing, torn, issued>>
      /\ auth.status = "authenticated" /\ tasks[Ui].at = "idle"
  BY ClashIsBoolean
     DEF Logout, Free, MayLogOut, backend, Idle, UserInv, SessionInv, LogoutInv
<1>2. q.job = "logout" /\ q.at = "clearing"
  BY DEF Clearing, Idle
<1>3. tasks'[Ui] = q /\ \A c \in Calls : tasks'[c] = tasks[c]
  BY <1>1, SessionAssumption DEF Set, Tasks, UiTasks, Ui, UserInv, SessionInv, SessionTypeOK
<1> HIDE DEF q
<1>4. ScreenInv'
  BY <1>1, <1>2, <1>3 DEF UserInv, ScreenInv
<1>5. ASSUME ~clash', ~torn' PROVE OneOwner'
  <2>1. TillOf(auth.user) /\ \A c \in Calls : TaskOf(tasks[c], auth.user)
    BY <1>1, <1>5, ClashIsBoolean DEF UserInv, ScreenInv, OneOwner
  <2> QED BY <1>1, <1>2, <1>3, <2>1 DEF OneOwner, LoginOf, TillOf, TaskOf, SessionOf, PairOf
<1> QED BY <1>4, <1>5 DEF UserInv

\* A logout clears a key, and with the last one nobody's session is left.
LEMMA LogoutClearsUser ==
    ASSUME UserInv, SessionInv', Run(Ui) \/ Serve(Ui) \/ Lose(Ui), tasks[Ui].job = "logout",
           Flagged, ~clash'
    PROVE  UserInv'
<1> DEFINE task == OneKeyLess(Ui)
<1>1. /\ Ui \in Tasks /\ tasks[Ui] \in Task /\ RoleOK(Ui, tasks[Ui]) /\ InHand(tasks[Ui])
      /\ \A q : Set(Ui, q) => tasks'[Ui] = q
  BY Given DEF UserInv, Set, Tasks, UiTasks, SessionInv, SessionTypeOK
<1>2. Calls \subseteq Tasks /\ Ui \notin Calls
  BY SessionAssumption DEF Tasks, UiTasks, Ui
<1>3. tasks[Ui].at = "clearing" /\ ClearKey(Ui)
  BY <1>1 DEF RoleOK, Run, ReadKey, WriteKey, Receive, Serve, Lose
<1>4. /\ torn' = torn /\ issued' = issued /\ \A c \in Calls : tasks'[c] = tasks[c]
  BY <1>1, <1>2, <1>3, TaskEffects DEF UserInv, ClearKey, Run, backend
<1>5. task \in Task /\ task.job = "logout" /\ task.at = "clearing" /\ ~task.recovering
  BY <1>1, <1>3, OneKeyLessTask DEF UserInv, InHand, RoleOK
<1>6. IF task.todo # <<>> THEN Set(Ui, task) /\ UNCHANGED <<bearer, auth, flushing, left>>
      ELSE AfterClear(Ui, task)
  BY <1>3 DEF ClearKey, OneKeyLess
<1>7. auth.status = "authenticated" /\ flushing
  BY DEF UserInv, ScreenInv
<1>8. ~clash' => ~clash /\ \A c \in Calls : ~tasks[c].recovering
  BY <1>3, ClashIsBoolean DEF UserInv, SessionInv, LogoutInv, Idle
<1>9. ASSUME NEW user, ~clash' PROVE \A c \in Calls : TaskOf(tasks[c], user)'
  BY <1>2, <1>4, <1>8, <1>9, Given, SessionAssumption
     DEF TaskOf, UserInv, RoleOK, UiTasks, Ui
<1> HIDE DEF task
<1>10. CASE task.todo # <<>>
  <2>1. tasks'[Ui] = task /\ UNCHANGED <<bearer, auth, flushing>>
    BY <1>1, <1>6, <1>10
  <2>2. ScreenInv'
    BY <1>4, <1>5, <1>7, <2>1 DEF UserInv, ScreenInv
  <2>3. ASSUME ~clash', ~torn' PROVE OneOwner'
    <3>1. PICK user : user = auth.user
      OBVIOUS
    <3>2. TillOf(user)
      BY <1>3, <1>4, <1>7, <1>8, <2>3, <3>1 DEF UserInv, OneOwner
    <3>3. TaskOf(tasks[Ui], user)
      BY <1>1 DEF TaskOf, RoleOK
    <3>4. TillOf(user)' /\ \A c \in Calls : TaskOf(tasks[c], user)'
      BY <1>1, <1>3, <1>9, <2>3, <3>2, <3>3, TaskMoves DEF UserInv, Run
    <3> QED BY <1>5, <1>7, <2>1, <3>1, <3>4
            DEF OneOwner, LoginOf, TillOf, TaskOf, SessionOf, PairOf
  <2> QED BY <2>2, <2>3 DEF UserInv
<1>11. CASE task.todo = <<>>
  <2>1. /\ tasks'[Ui] = Idle /\ bearer' = 0 /\ flushing' = flushing /\ left'
        /\ auth'.status = "unauthenticated" /\ auth'.user = NoUser
    BY <1>1, <1>5, <1>6, <1>11
       DEF AfterClear, GiveUp, SignOut, UiTasks, UserInv, SessionInv, SessionTypeOK
  <2>2. (LoginOf(tasks[Ui]) /\ tasks[Ui].job = "none" /\ tasks[Ui].at = "idle")'
    BY <2>1 DEF LoginOf, Idle
  <2>3. ScreenInv'
    BY <1>4, <1>7, <2>1, <2>2 DEF ScreenInv
  <2>4. ASSUME ~clash', ~torn' PROVE OneOwner'
    <3>1. store' = NoSession
      BY <2>1, <2>4 DEF SessionInv, LogoutInv
    <3>2. (TillOf(auth.user))' /\ (SessionOf(store, NoUser))'
      BY <2>1, <3>1 DEF TillOf, SessionOf, PairOf, NoSession
    <3>3. \A c \in Calls : TaskOf(tasks[c], auth.user)'
      <4>1. PICK user : user = auth'.user
        OBVIOUS
      <4>2. \A c \in Calls : TaskOf(tasks[c], user)'
        BY <1>9, <2>4
      <4> QED BY <4>1, <4>2 DEF TaskOf, SessionOf, PairOf
    <3> QED BY <2>1, <2>2, <3>2, <3>3 DEF OneOwner
  <2> QED BY <2>3, <2>4 DEF UserInv
<1> QED BY <1>10, <1>11

-----------------------------------------------------------------------------
\* A request starts.
LEMMA StartCallUser ==
    ASSUME UserInv, SessionInv', NEW c \in Calls, StartCall(c), Flagged, ~clash'
    PROVE  UserInv'
<1> DEFINE q == Asking([Idle EXCEPT !.job = "call"], bearer)
<1>1. Ui \in Tasks /\ Calls \subseteq Tasks /\ Ui \notin Calls
  BY SessionAssumption DEF Tasks, UiTasks, Ui
<1>2. /\ flushing /\ Set(c, q) /\ UNCHANGED <<store, bearer, auth, flushing, torn, issued>>
  BY DEF StartCall, backend
<1>3. q.job = "call" /\ ~q.recovering
  BY DEF Asking, Idle
<1>4. \A t \in Tasks : tasks'[t] = IF t = c THEN q ELSE tasks[t]
  BY <1>1, <1>2 DEF Set, UserInv, SessionInv, SessionTypeOK
<1> HIDE DEF q
<1>5. ScreenInv'
  BY <1>1, <1>2, <1>4 DEF UserInv, ScreenInv
<1>6. ASSUME ~clash', ~torn' PROVE OneOwner'
  <2>1. OneOwner
    BY <1>2, <1>6, ClashIsBoolean DEF UserInv
  <2>2. \A d \in Calls : TaskOf(tasks[d], auth.user) => TaskOf(tasks[d], auth.user)'
    BY <1>1, <1>2, <1>3, <1>4 DEF TaskOf, SessionOf, PairOf
  <2>3. TaskOf(tasks[c], auth.user)'
    BY <1>1, <1>3, <1>4 DEF TaskOf
  <2>4. tasks'[Ui] = tasks[Ui] /\ auth.status # "unknown"
    BY <1>1, <1>2, <1>4 DEF UserInv, ScreenInv
  <2> QED BY <1>1, <1>2, <1>4, <2>1, <2>2, <2>3, <2>4
          DEF OneOwner, LoginOf, HasWritten, TillOf, TaskOf, SessionOf, PairOf
<1> QED BY <1>5, <1>6 DEF UserInv

\* Where the till and the pairs stay, the till stays whose it is.
LEMMA SameTill ==
    ASSUME UserInv, SessionInv', UNCHANGED <<till, issued>>, ~clash' => ~clash
    PROVE  UserInv'
<1>1. UNCHANGED <<store, bearer, auth, tasks, flushing, torn, issued>>
  BY DEF till
<1>2. ScreenInv'
  BY <1>1 DEF UserInv, ScreenInv
<1>3. ASSUME ~clash', ~torn' PROVE OneOwner'
  BY <1>1, <1>3 DEF UserInv, OneOwner, LoginOf, HasWritten, TillOf, TaskOf, SessionOf, PairOf
<1> QED BY <1>2, <1>3 DEF UserInv

\* LoginScreen makes way, and the till stays whose it is.
LEMMA EnterUser ==
    ASSUME UserInv, SessionInv', Enter, ~clash' => ~clash
    PROVE  UserInv'
<1>1. /\ UNCHANGED <<store, bearer, tasks, flushing, torn, issued>>
      /\ auth'.status = auth.status /\ auth'.user = auth.user
  BY DEF Enter, backend, UserInv, SessionInv, SessionTypeOK
<1>2. ScreenInv'
  BY <1>1 DEF UserInv, ScreenInv
<1>3. ASSUME ~clash', ~torn' PROVE OneOwner'
  BY <1>1, <1>3 DEF UserInv, OneOwner, LoginOf, HasWritten, TillOf, TaskOf, SessionOf, PairOf
<1> QED BY <1>2, <1>3 DEF UserInv

\* The app has just been started.
Started ==
    /\ tasks = Boot /\ bearer = 0 /\ ~flushing
    /\ auth = [status |-> "unknown", user |-> NoUser, entering |-> FALSE]

StartedFor == \E user \in Users \cup {NoUser} : SessionOf(store, user)

\* After a start the till has no token in hand, and one user's session, or none, in store.
LEMMA BootUser == Started => ScreenInv /\ (StartedFor => OneOwner)
<1> SUFFICES ASSUME Started PROVE ScreenInv /\ (StartedFor => OneOwner)
  OBVIOUS
<1> DEFINE q == Reading([Idle EXCEPT !.job = "restore"])
<1>1. tasks[Ui] = q /\ \A c \in Calls : tasks[c] = Idle
  BY SessionAssumption DEF Started, Boot, Tasks, UiTasks, Ui
<1>2. /\ q.job = "restore" /\ q.held = NoSession /\ q.kept = NoSession /\ q.bearer = 0
  BY DEF Reading, Idle
<1> HIDE DEF q
<1>3. ScreenInv
  BY <1>1, <1>2 DEF Started, ScreenInv
<1>4. ASSUME NEW user \in Users \cup {NoUser}, SessionOf(store, user) PROVE OneOwner
  <2>1. TillOf(user) /\ TaskOf(q, user)
    BY <1>2, <1>4, NothingIsOf DEF Started, TillOf, TaskOf
  <2> QED BY <1>1, <1>2, <2>1 DEF Started, OneOwner, LoginOf
<1> QED BY <1>3, <1>4 DEF StartedFor

\* So it is after a step that starts the app.
LEMMA BootUserNext == (Started => ScreenInv /\ (StartedFor => OneOwner))'
  BY BootUser, PTL

\* The app is killed and started again: unless half a login was written, the store is of
\* one user.
LEMMA KillKeepsUser ==
    ASSUME UserInv, SessionInv', Kill, Flagged, ~clash'
    PROVE  UserInv'
<1>1. /\ tasks' = Boot /\ bearer' = 0 /\ flushing' = FALSE /\ UNCHANGED <<store, issued>>
      /\ auth' = [status |-> "unknown", user |-> NoUser, entering |-> FALSE]
      /\ ~torn' => ~torn /\ ~(/\ tasks[Ui].job = "login" /\ tasks[Ui].at = "writing"
                             /\ tasks[Ui].todo # Keys)
  BY DEF Kill, backend, UiTasks
<1>2. Ui \in Tasks /\ tasks[Ui] \in Task /\ RoleOK(Ui, tasks[Ui])
      /\ auth.user \in Users \cup {NoUser}
      /\ auth.status \in {"unknown", "unauthenticated", "authenticated"}
      /\ tasks[Ui].job \in {"none", "restore", "me", "login", "logout", "call"}
  BY Given DEF UserInv, Tasks, UiTasks, SessionInv, SessionTypeOK, Task
<1>3. ASSUME ~clash', ~torn'
      PROVE  \E user \in Users \cup {NoUser} : SessionOf(store, user)
  <2>1. /\ OneOwner /\ ScreenInv
        /\ ~(tasks[Ui].job = "login" /\ tasks[Ui].at = "writing" /\ tasks[Ui].todo # Keys)
    BY <1>1, <1>3, ClashIsBoolean DEF UserInv
  <2>2. CASE auth.status = "unknown"
    BY <2>1, <2>2 DEF OneOwner, TillOf
  <2>3. CASE auth.status = "authenticated"
    <3>1. flushing /\ tasks[Ui].at # "writing"
      BY <1>2, <2>1, <2>3 DEF ScreenInv, RoleOK
    <3> QED BY <1>2, <2>1, <3>1 DEF OneOwner, TillOf
  <2>4. CASE auth.status = "unauthenticated"
    <3>1. tasks[Ui].at = "writing" => tasks[Ui].todo = Keys
      BY <1>2, <2>1, <2>4 DEF ScreenInv, RoleOK, UiTasks
    <3> QED BY <2>1, <2>4, <3>1 DEF OneOwner
  <2> QED BY <1>2, <2>2, <2>3, <2>4
<1>4. ASSUME ~clash', ~torn' PROVE StartedFor'
  BY <1>1, <1>3, <1>4 DEF StartedFor, SessionOf, PairOf
<1>5. Started'
  BY <1>1 DEF Started, Boot, Tasks, UiTasks, Reading, Idle
<1> QED BY <1>4, <1>5, BootUserNext DEF UserInv

-----------------------------------------------------------------------------
\* When the app is first started no one's session is in the store.
LEMMA InitUserInv == Init => UserInv
<1> SUFFICES ASSUME Init PROVE UserInv
  OBVIOUS
<1>1. SessionInv /\ Started
  BY InitSessionInv DEF Init, Started
<1>2. StartedFor
  BY NothingIsOf DEF Init, StartedFor
<1> QED BY <1>1, <1>2, BootUser DEF UserInv

\* Until something clashes, no signing in or out is under way beside the Ui's.
LEMMA NoRivalSteps ==
    ASSUME SessionInv, Flagged, ~clash', NEW r \in Rivals,
           \/ Run(r) \/ Serve(r) \/ Lose(r) \/ Logout(r)
           \/ \E u \in Users : Login(r, u)
    PROVE  FALSE
<1>1. /\ tasks[r] = Idle /\ tasks'[r] = Idle /\ r \in Tasks
      /\ \A q : Set(r, q) => tasks'[r] = q
  BY ClashIsBoolean DEF SessionInv, LogoutInv, Tasks, UiTasks, SessionTypeOK, Set
<1>2. tasks[r].at = "idle" /\ Idle.job = "none"
  BY <1>1 DEF Idle
<1>3. ASSUME NEW u \in Users, Login(r, u) PROVE FALSE
  <2> DEFINE q == Asking([Idle EXCEPT !.job = "login", !.user = u], 0)
  <2>1. Set(r, q) /\ q.job = "login"
    BY <1>3 DEF Login, Asking, Idle
  <2> HIDE DEF q
  <2> QED BY <1>1, <1>2, <2>1
<1>4. ASSUME Logout(r) PROVE FALSE
  <2> DEFINE q == Clearing([Idle EXCEPT !.job = "logout"])
  <2>1. Set(r, q) /\ q.job = "logout"
    BY <1>4 DEF Logout, Clearing, Idle
  <2> HIDE DEF q
  <2> QED BY <1>1, <1>2, <2>1
<1> QED BY <1>1, <1>2, <1>3, <1>4, TaskEffects

\* Until something clashes, every step keeps the till to one user.
LEMMA StepUserInv ==
    ASSUME UserInv, [Next]_sessionVars, ~clash'
    PROVE  UserInv'
<1>1. SessionInv'
  BY NextSessionInv DEF UserInv
<1>2. CASE UNCHANGED sessionVars
  <2>1. UNCHANGED <<till, issued, clash>>
    BY <1>2 DEF sessionVars, backend
  <2> QED BY <1>1, <2>1, SameTill
<1>3. CASE Next
  <2>1. Step /\ Flagged
    BY <1>3 DEF Next, Flagged
  <2>0. ~clash /\ SessionInv /\ \A t \in UiTasks : t = Ui \/ t \in Rivals
    BY <2>1, ClashIsBoolean DEF UserInv, UiTasks
  <2>2. CASE Run(Ui) \/ Serve(Ui) \/ Lose(Ui)
    <3>1. /\ RoleOK(Ui, tasks[Ui]) /\ tasks[Ui].at # "idle"
          /\ tasks[Ui].job \in {"none", "restore", "me", "login", "logout", "call"}
      BY <2>2, TaskEffects, Given DEF UserInv, Tasks, UiTasks, Task
    <3>2. tasks[Ui].job \in {"restore", "me", "login", "logout"}
      BY <3>1 DEF RoleOK, UiTasks
    <3>3. CASE tasks[Ui].job = "login"
      <4>1. ~ReadKey(Ui) /\ ~ClearKey(Ui)
        BY <3>3 DEF UserInv, ScreenInv, ReadKey, ClearKey
      <4> QED BY <1>1, <2>1, <2>2, <3>3, <4>1, LoginAnsweredUser, LoginWritesUser DEF Run
    <3> QED BY <1>1, <2>1, <2>2, <3>2, <3>3, StartKeepsUser, LogoutClearsUser
  <2>3. ASSUME NEW c \in Calls, Run(c) \/ Serve(c) \/ Lose(c) PROVE UserInv'
    BY <1>1, <2>1, <2>3, CallKeepsUser
  <2>4. ASSUME NEW r \in Rivals,
               \/ Run(r) \/ Serve(r) \/ Lose(r) \/ Logout(r)
               \/ \E u \in Users : Login(r, u)
        PROVE  FALSE
    BY <2>0, <2>1, <2>4, NoRivalSteps
  <2>6. ASSUME NEW u \in Users, Login(Ui, u) \/ Deactivate(u) PROVE UserInv'
    BY <1>1, <2>1, <2>6, LoginStartsUser, SameTill, ClashIsBoolean, <2>0 DEF Deactivate
  <2>7. ASSUME NEW c \in Calls, StartCall(c) PROVE UserInv'
    BY <1>1, <2>1, <2>7, StartCallUser
  <2>8. ASSUME NEW pair \in 1 .. Len(issued), Expire(pair) \/ Lapse(pair) PROVE UserInv'
    BY <1>1, <2>0, <2>8, SameTill DEF Expire, Lapse
  <2>9. CASE Logout(Ui)
    BY <1>1, <2>1, <2>9, LogoutStartsUser
  <2>10. CASE Kill
    BY <1>1, <2>1, <2>10, KillKeepsUser
  <2>11. CASE Enter
    BY <1>1, <2>0, <2>11, EnterUser
  <2> QED BY <2>0, <2>1, <2>2, <2>3, <2>4, <2>6, <2>7, <2>8, <2>9, <2>10, <2>11
          DEF Step, Tasks
<1> QED BY <1>2, <1>3

\* What holds in every state.
UserOrClash == SessionInv /\ (~clash => UserInv)

\* A clash is for ever, and until then every step keeps the till to one user.
LEMMA NextUserInv == UserOrClash /\ [Next]_sessionVars => UserOrClash'
<1> SUFFICES ASSUME UserOrClash, [Next]_sessionVars PROVE UserOrClash'
  OBVIOUS
<1>1. SessionInv'
  BY NextSessionInv DEF UserOrClash
<1>2. ~clash' => ~clash
  BY DEF Next, sessionVars
<1> QED BY <1>1, <1>2, StepUserInv DEF UserOrClash

\* A session of one user has one owner at most.
LEMMA OwnersOf ==
    ASSUME NEW session, NEW user, SessionOf(session, user)
    PROVE  Owners(session) \subseteq {user}
  BY DEF SessionOf, PairOf, Owners

\* In every state the till is one user's.
LEMMA UserInvMeansOne == UserOrClash => OneUserAtATime
<1> SUFFICES ASSUME UserInv, ~clash, ~torn
             PROVE  /\ tasks[Ui].at # "writing" => Cardinality(Owners(store)) <= 1
                    /\ auth.status = "authenticated" =>
                          Owners(store) \cup {issued[n] : n \in {bearer} \ {0}} \subseteq {auth.user}
  BY DEF OneUserAtATime, UserOrClash
<1>1. OneOwner /\ ScreenInv /\ Ui \in Tasks
  BY DEF UserInv, Tasks, UiTasks
<1>2. /\ auth.status \in {"unknown", "unauthenticated", "authenticated"}
      /\ RoleOK(Ui, tasks[Ui])
  BY <1>1, Given DEF UserInv, SessionInv, SessionTypeOK
<1>3. auth.status = "authenticated" => flushing /\ tasks[Ui].at # "writing"
  BY <1>1, <1>2 DEF ScreenInv, RoleOK
<1>4. ASSUME tasks[Ui].at # "writing" PROVE Cardinality(Owners(store)) <= 1
  <2>1. PICK user : SessionOf(store, user)
    BY <1>1, <1>2, <1>3, <1>4 DEF OneOwner, TillOf
  <2>2. Owners(store) = {} \/ Owners(store) = {user}
    BY <2>1, OwnersOf
  <2>3. Cardinality(Owners(store)) = 0 \/ Cardinality(Owners(store)) = 1
    BY <2>2, FS_EmptySet, FS_Singleton
  <2> QED BY <2>3
<1>5. ASSUME auth.status = "authenticated"
      PROVE  Owners(store) \cup {issued[n] : n \in {bearer} \ {0}} \subseteq {auth.user}
  <2>1. SessionOf(store, auth.user) /\ PairOf(bearer, auth.user)
    BY <1>1, <1>3, <1>5 DEF OneOwner, TillOf
  <2>2. Owners(store) \subseteq {auth.user}
    BY <2>1, OwnersOf
  <2> QED BY <2>1, <2>2 DEF PairOf
<1> QED BY <1>4, <1>5

\* However many requests, restarts, refreshes, changes of user and faults there are: unless
\* a recovery or another signing in or out overlapped with signing in or out, or a kill
\* tore a login, the store is of one user, and of a user who is signed in the screen, the
\* token and the store are.
THEOREM ClientOneUserAtATime == Spec => []OneUserAtATime
<1>1. Init => UserOrClash
  BY InitUserInv DEF UserOrClash, UserInv
<1> QED BY <1>1, NextUserInv, UserInvMeansOne, PTL DEF Spec

-----------------------------------------------------------------------------
(* Signed out for a reason.  What makes it inductive: until something is   *)
(* lost, expires for good or is deactivated, a session that is read, given *)
(* or written is whole, a recovery that has begun cannot fail, and the     *)
(* pair that a recovery was given is good for the request it was for.      *)

\* All three keys.
Whole(session) == session.token # 0 /\ session.refresh # 0 /\ session.user # NoUser

\* The keys that are no longer to do have been read, and were there.
HasRead(q) ==
    /\ q.todo # Keys => q.held.token # 0
    /\ q.todo = <<"user">> => q.held.refresh # 0

\* A start, or a recovery, that is not going to fail.
Healthy(q) ==
    /\ q.at # "clearing"
    /\ q.at = "reading" => HasRead(q)
    /\ q.at = "asking" /\ Route(q) = "me" => q.bearer # 0
    /\ q.at = "answered" => \/ q.answer = "ok" /\ Whole(q.held)
                            \/ Route(q) = "me" /\ MayRecover(q)
    /\ q.at = "writing" => Whole(q.held)
    /\ q.job = "me" => Whole(q.kept)

Sound(q) == q.job \in {"restore", "me"} \/ q.recovering => Healthy(q)

\* The pair that a recovery was given has not expired when the request is sent again: that
\* it may is a fault.
Fresh(q) ==
    /\ q.recovering /\ q.at \in {"answered", "writing"} => q.held.token \notin expired
    /\ q.retried /\ q.at = "asking" => q.bearer \notin expired
    /\ q.retried => ~q.recovering /\ q.job # "restore" /\ q.at \notin {"reading", "clearing"}
    /\ q.at = "reading" /\ ~q.recovering => q.job = "restore"

\* Nothing has happened that may end a session.
Undisturbed == faults = boot.faults /\ lapsed = {} /\ inactive = {} /\ ~clash /\ ~torn

\* There was a session, or has been a login, since the app was started.
HasSession == boot.user # NoUser \/ signIns > boot.signIns

LoginGiven(q) ==
    q.at = "writing" \/ (q.at = "answered" /\ q.answer = "ok") => Whole(q.held)

Kept ==
    /\ auth.status = "unknown" => signIns = boot.signIns
    /\ auth.status = "unknown" /\ boot.user # NoUser => Whole(store) /\ Sound(tasks[Ui])
    /\ auth.status = "authenticated" /\ tasks[Ui] = Idle /\ HasSession =>
          Whole(store) /\ bearer # 0 /\ \A c \in Calls : Sound(tasks[c])
    /\ auth.status = "unauthenticated" /\ signIns = boot.signIns /\ ~left =>
          boot.user = NoUser
    /\ tasks[Ui].job = "login" => signIns > boot.signIns /\ LoginGiven(tasks[Ui])

AllFresh == \A t \in Tasks : Fresh(tasks[t])

FreshInv == faults = boot.faults => AllFresh

\* As long as nothing has clashed.
ReasonInv ==
    /\ UserInv /\ FreshInv
    /\ boot.faults <= faults /\ boot.signIns <= signIns
    /\ Undisturbed => Kept

-----------------------------------------------------------------------------
\* An idle task waits for nothing.
LEMMA IdleIsFresh == Fresh(Idle) /\ Sound(Idle)
  BY DEF Fresh, Sound, Idle

\* No token, and the next one to be issued, have not expired.
LEMMA NotExpired ==
    ASSUME SessionInv
    PROVE  0 \notin expired /\ Len(issued) + 1 \notin expired /\ Len(issued) \in Nat
<1>1. expired \subseteq 1 .. Len(issued) /\ Len(issued) \in Nat
  BY DEF SessionInv, SessionTypeOK
<1> QED BY <1>1

\* A step of one task keeps the others' pairs.
LEMMA FreshFrame ==
    ASSUME SessionInv, AllFresh, NEW t \in Tasks, NEW q, Set(t, q), UNCHANGED expired, Fresh(q)
    PROVE  AllFresh'
<1>1. \A u \in Tasks : tasks'[u] = IF u = t THEN q ELSE tasks[u]
  BY DEF Set, SessionInv, SessionTypeOK
<1> QED BY <1>1 DEF AllFresh, Fresh

\* A task that reads, writes or clears keeps its pair.
LEMMA StoreFresh ==
    ASSUME SessionInv, AllFresh, NEW t \in Tasks, ReadKey(t) \/ WriteKey(t) \/ ClearKey(t)
    PROVE  AllFresh'
<1>1. /\ tasks[t] \in Task /\ RoleOK(t, tasks[t]) /\ InHand(tasks[t]) /\ Fresh(tasks[t])
      /\ tasks[t].at \in {"reading", "writing", "clearing"}
  BY Given DEF AllFresh, ReadKey, WriteKey, ClearKey
<1>2. UNCHANGED expired
  BY DEF ReadKey, WriteKey, ClearKey, backend
<1>3. ASSUME NEW q, Set(t, q), Fresh(q) PROVE AllFresh'
  BY <1>2, <1>3, FreshFrame
<1>4. CASE Set(t, Idle)
  BY <1>3, <1>4, IdleIsFresh
<1>5. CASE ReadKey(t)
  <2> DEFINE task == Read(t)
  <2>1. /\ tasks[t].at = "reading"
        /\ IF task.todo # <<>> THEN Set(t, task) /\ UNCHANGED <<bearer, auth, flushing>>
           ELSE AfterRead(t, task)
    BY <1>5 DEF ReadKey, Read
  <2>2. /\ task \in Task
        /\ \A field \in {"job", "at", "recovering", "retried", "kept", "bearer", "answer",
                          "user"} : task[field] = tasks[t][field]
    BY <2>1, ReadTask
  <2>3. ~task.retried /\ Fresh(task)
    BY <1>1, <2>1, <2>2 DEF Fresh
  <2> HIDE DEF task
  <2>4. Fresh(Clearing(task)) /\ Fresh(Refreshing(task))
    BY <2>2, <2>3 DEF Fresh, Clearing, Refreshing, Asking, Task
  <2>5. ~task.recovering =>
          Fresh(Asking([task EXCEPT !.job = "me", !.kept = task.held], task.held.token))
    BY <2>2, <2>3 DEF Fresh, Asking, Task
  <2> QED BY <1>3, <1>4, <2>1, <2>3, <2>4, <2>5 DEF AfterRead, GiveUp
<1>6. CASE WriteKey(t)
  <2> DEFINE task == OneKeyLess(t)
  <2>1. /\ tasks[t].at = "writing"
        /\ IF task.todo # <<>> THEN Set(t, task) /\ UNCHANGED <<bearer, auth, flushing>>
           ELSE AfterWrite(t, task)
    BY <1>6 DEF WriteKey, OneKeyLess
  <2>2. /\ task \in Task
        /\ \A field \in {"job", "at", "recovering", "retried", "held", "kept", "bearer",
                          "answer", "user"} : task[field] = tasks[t][field]
    BY <1>1, <2>1, OneKeyLessTask DEF InHand
  <2>3. Fresh(task) /\ task.at = "writing"
    BY <1>1, <2>1, <2>2 DEF Fresh
  <2> HIDE DEF task
  <2>4. ASSUME bearer' = task.held.token, task.recovering
        PROVE  Fresh(Asking([task EXCEPT !.recovering = FALSE, !.retried = TRUE], bearer'))
    <3>1. task.held.token \notin expired /\ task.job # "restore"
      BY <1>1, <2>2, <2>3, <2>4 DEF Fresh, RoleOK
    <3> QED BY <2>2, <2>4, <3>1 DEF Fresh, Asking, Task
  <2>5. ASSUME ~task.recovering, task.job = "restore"
        PROVE  Fresh(Asking([task EXCEPT !.job = "me", !.kept = task.held], bearer'))
    BY <2>2, <2>3, <2>5 DEF Fresh, Asking, Task
  <2>6. CASE Set(t, task)
    BY <1>3, <2>3, <2>6
  <2>7. CASE AfterWrite(t, task)
    BY <1>3, <1>4, <2>4, <2>5, <2>7 DEF AfterWrite
  <2> QED BY <2>1, <2>6, <2>7
<1>7. CASE ClearKey(t)
  <2> DEFINE task == OneKeyLess(t)
  <2>1. /\ tasks[t].at = "clearing"
        /\ IF task.todo # <<>> THEN Set(t, task) /\ UNCHANGED <<bearer, auth, flushing, left>>
           ELSE AfterClear(t, task)
    BY <1>7 DEF ClearKey, OneKeyLess
  <2>2. /\ task \in Task
        /\ \A field \in {"job", "at", "recovering", "retried", "held", "kept", "bearer",
                          "answer", "user"} : task[field] = tasks[t][field]
    BY <1>1, <2>1, OneKeyLessTask DEF InHand
  <2>3. Fresh(task)
    BY <1>1, <2>1, <2>2 DEF Fresh
  <2> HIDE DEF task
  <2> QED BY <1>3, <1>4, <2>1, <2>3 DEF AfterClear, GiveUp, UiTasks
<1> QED BY <1>5, <1>6, <1>7

\* A task that is answered, or receives its answer, keeps its pair, or is given a new one.
LEMMA RequestFresh ==
    ASSUME SessionInv, AllFresh, NEW t \in Tasks, Receive(t) \/ Serve(t) \/ Lose(t)
    PROVE  AllFresh'
<1>1. /\ tasks[t] \in Task /\ RoleOK(t, tasks[t]) /\ InHand(tasks[t]) /\ Fresh(tasks[t])
      /\ tasks[t].at \in {"asking", "answered"}
  BY Given DEF AllFresh, Receive, Serve, Lose
<1>2. UNCHANGED expired
  BY DEF Receive, Serve, Lose, backend
<1>3. ASSUME NEW q, Set(t, q), Fresh(q) PROVE AllFresh'
  BY <1>2, <1>3, FreshFrame
<1>4. CASE Set(t, Idle)
  BY <1>3, <1>4, IdleIsFresh
<1>5. ASSUME NEW answer, NEW session, session.token \notin expired \/ ~tasks[t].recovering
      PROVE  Fresh(Answered(tasks[t], answer, session))
  BY <1>1, <1>5 DEF Answered, Fresh, Task
<1>6. NoSession.token \notin expired /\ Len(issued) + 1 \notin expired
  BY NotExpired DEF NoSession
<1>7. CASE Receive(t)
  <2> DEFINE task == [tasks[t] EXCEPT !.answer = "none"]
  <2>0. tasks[t].at = "answered"
    BY <1>7 DEF Receive
  <2>1. Fresh(Writing(task, task.held))
    BY <1>1, <2>0 DEF Writing, Fresh, Task
  <2>2. ~tasks[t].retried => Fresh(Clearing(task))
    BY <1>1 DEF Clearing, Fresh, Task
  <2>3. Route(task) = "refresh" => ~tasks[t].retried
    BY <1>1 DEF Route, Fresh, Task
  <2>4. MayRecover(tasks[t]) => Fresh(Reading([task EXCEPT !.recovering = TRUE]))
    BY <1>1, <2>0 DEF MayRecover, Reading, Fresh, Task
  <2> HIDE DEF task
  <2>5. \/ Set(t, Writing(task, task.held))
        \/ Route(task) = "refresh" /\ Set(t, Clearing(task))
        \/ MayRecover(tasks[t]) /\ Set(t, Reading([task EXCEPT !.recovering = TRUE]))
        \/ Set(t, Idle)
    BY <1>7 DEF Receive, GiveUp, task
  <2> QED BY <1>3, <1>4, <2>1, <2>2, <2>3, <2>4, <2>5
<1>8. CASE Refuse(t)
  BY <1>3, <1>5, <1>6, <1>8 DEF Refuse
<1>9. ASSUME NEW u, Issue(t, u) PROVE AllFresh'
  BY <1>3, <1>5, <1>6, <1>9 DEF Issue
<1>10. CASE Serve(t)
  <2>1. CASE Route(tasks[t]) = "me" /\ ServeMe(t) /\ ~Refuse(t)
    <3>1. ~tasks[t].recovering
      BY <2>1 DEF Route
    <3> QED BY <1>3, <1>5, <2>1, <3>1 DEF ServeMe
  <2> QED BY <1>4, <1>8, <1>9, <1>10, <2>1 DEF Serve, ServeLogin, ServeRefresh, ServeMe, ServeCall
<1>11. CASE Lose(t)
  BY <1>3, <1>4, <1>5, <1>6, <1>11 DEF Lose
<1> QED BY <1>7, <1>10, <1>11

\* What a step of a task leaves alone besides.
LEMMA TaskCounts ==
    ASSUME NEW t \in Tasks, Run(t) \/ Serve(t) \/ Lose(t)
    PROVE  /\ UNCHANGED <<boot, lapsed, inactive, signIns>>
           /\ Run(t) \/ Serve(t) => UNCHANGED faults
           /\ Lose(t) => faults' = faults + 1
           /\ ~ClearKey(t) => UNCHANGED left
           /\ ClearKey(t) => left' = left \/ left' = (left \/ OneKeyLess(t).job = "logout")
<1>1. Serve(t) => UNCHANGED <<boot, lapsed, inactive, signIns, faults, left>>
  BY DEF Serve, counters
<1>2. Lose(t) => UNCHANGED <<boot, lapsed, inactive, signIns, left>> /\ faults' = faults + 1
  BY DEF Lose, backend
<1>3. ReadKey(t) => UNCHANGED <<boot, lapsed, inactive, signIns, faults, left>>
  BY DEF ReadKey, backend, counters
<1>4. WriteKey(t) => UNCHANGED <<boot, lapsed, inactive, signIns, faults, left>>
  BY DEF WriteKey, backend, counters
<1>5. Receive(t) => UNCHANGED <<boot, lapsed, inactive, signIns, faults, left>>
  BY DEF Receive, backend, counters
<1>6. ClearKey(t) => UNCHANGED <<boot, lapsed, inactive, signIns, faults>>
  BY DEF ClearKey, backend, counters
<1>7. ClearKey(t) => left' = left \/ left' = (left \/ OneKeyLess(t).job = "logout")
  BY DEF ClearKey, AfterClear, OneKeyLess
<1>8. Run(t) => ReadKey(t) \/ WriteKey(t) \/ ClearKey(t) \/ Receive(t)
  BY DEF Run
<1>9. /\ UNCHANGED <<boot, lapsed, inactive, signIns>>
      /\ Run(t) \/ Serve(t) => UNCHANGED faults
  BY <1>1, <1>2, <1>3, <1>4, <1>5, <1>6, <1>8
<1>10. ~ClearKey(t) => UNCHANGED left
  BY <1>1, <1>2, <1>3, <1>4, <1>5, <1>8
<1> QED BY <1>2, <1>7, <1>9, <1>10

\* Every step keeps the pairs that recoveries were given, unless one expires.
LEMMA StepFresh ==
    ASSUME SessionInv, FreshInv, boot.faults <= faults, Step
    PROVE  FreshInv'
<1>1. Ui \in Tasks /\ UiTasks \subseteq Tasks /\ Calls \subseteq Tasks
  BY DEF Tasks, UiTasks
<1>0. boot.faults \in Nat /\ faults \in Nat
  BY SessionAssumption DEF SessionInv, SessionTypeOK
<1> SUFFICES ASSUME faults' = boot'.faults PROVE AllFresh'
  BY DEF FreshInv
<1>2. ASSUME UNCHANGED <<boot, tasks, expired>>, faults' = faults PROVE AllFresh'
  BY <1>2 DEF FreshInv, AllFresh, Fresh
<1>11. ASSUME UNCHANGED boot, faults' = faults + 1 PROVE FALSE
  BY <1>0, <1>11
<1>12. ASSUME UNCHANGED <<boot, faults, expired>>, NEW t \in Tasks, NEW q, Set(t, q), Fresh(q)
       PROVE  AllFresh'
  BY <1>12, FreshFrame DEF FreshInv
<1>3. ASSUME NEW t \in Tasks, Run(t) \/ Serve(t) \/ Lose(t) PROVE AllFresh'
  <2>1. UNCHANGED boot /\ (Run(t) \/ Serve(t) => UNCHANGED faults)
        /\ (Lose(t) => faults' = faults + 1)
    BY <1>3, TaskCounts
  <2> QED BY <1>3, <1>11, <2>1, StoreFresh, RequestFresh DEF Run, FreshInv
<1>4. ASSUME NEW t \in UiTasks, NEW u \in Users, Login(t, u) PROVE AllFresh'
  <2> DEFINE q == Asking([Idle EXCEPT !.job = "login", !.user = u], 0)
  <2>1. Fresh(q)
    BY DEF Fresh, Asking, Idle
  <2>2. Set(t, q) /\ UNCHANGED <<boot, faults, expired>>
    BY <1>4 DEF Login, backend
  <2> HIDE DEF q
  <2> QED BY <1>1, <1>12, <2>1, <2>2
<1>5. ASSUME NEW u \in Users, Deactivate(u) PROVE FALSE
  BY <1>11, <1>5 DEF Deactivate, till
<1>6. ASSUME NEW c \in Calls, StartCall(c) PROVE AllFresh'
  <2> DEFINE q == Asking([Idle EXCEPT !.job = "call"], bearer)
  <2>1. Fresh(q)
    BY DEF Fresh, Asking, Idle
  <2>2. Set(c, q) /\ UNCHANGED <<boot, faults, expired>>
    BY <1>6 DEF StartCall, backend
  <2> HIDE DEF q
  <2> QED BY <1>1, <1>12, <2>1, <2>2
<1>7. ASSUME NEW pair \in 1 .. Len(issued), Expire(pair) PROVE AllFresh'
  <2>1. tasks' = tasks /\ expired' = expired \cup {pair} /\ UNCHANGED boot
    BY <1>7 DEF Expire, till
  <2>2. (\A t \in Tasks : ~Awaits(tasks[t], pair)) /\ UNCHANGED faults
    BY <1>7, <1>11, <2>1 DEF Expire
  <2>3. AllFresh
    BY <2>1, <2>2 DEF FreshInv
  <2> QED BY <2>1, <2>2, <2>3 DEF AllFresh, Fresh, Awaits
<1>8. ASSUME NEW pair \in 1 .. Len(issued), Lapse(pair) PROVE FALSE
  BY <1>11, <1>8 DEF Lapse, till
<1>9. ASSUME NEW t \in UiTasks, Logout(t) PROVE AllFresh'
  <2> DEFINE q == Clearing([Idle EXCEPT !.job = "logout"])
  <2>1. Fresh(q)
    BY DEF Fresh, Clearing, Idle
  <2>2. Set(t, q) /\ UNCHANGED <<boot, faults, expired>>
    BY <1>9 DEF Logout, backend, counters
  <2> HIDE DEF q
  <2> QED BY <1>1, <1>12, <2>1, <2>2
<1>10. CASE Kill
  <2>1. Fresh(Reading([Idle EXCEPT !.job = "restore"]))
    BY DEF Fresh, Reading, Idle
  <2>2. \A t \in Tasks : Fresh(Boot[t])
    BY <2>1, IdleIsFresh DEF Boot
  <2>3. tasks' = Boot /\ expired' = expired
    BY <1>10 DEF Kill, backend
  <2> QED BY <2>2, <2>3 DEF AllFresh, Fresh
<1>13. CASE Enter
  BY <1>2, <1>13 DEF Enter, backend, counters
<1> QED BY <1>3, <1>4, <1>5, <1>6, <1>7, <1>8, <1>9, <1>10, <1>13 DEF Step

-----------------------------------------------------------------------------
\* A whole session of which one key is replaced by that of another is whole.
LEMMA OneKeyWhole ==
    ASSUME NEW session \in Session, NEW other \in Session, Whole(session), Whole(other),
           NEW key \in {"token", "refresh", "user"}
    PROVE  Whole([session EXCEPT ![key] = other[key]])
<1>1. CASE key = "token"
  BY <1>1 DEF Whole, Session
<1>2. CASE key = "refresh"
  BY <1>2 DEF Whole, Session
<1>3. CASE key = "user"
  BY <1>3 DEF Whole, Session
<1> QED BY <1>1, <1>2, <1>3

\* The store is whole, nothing is disturbed, and a task that does not sign in or out is sound.
Sane(t) ==
    /\ Whole(store) /\ lapsed = {} /\ inactive = {} /\ Fresh(tasks[t])
    /\ tasks[t].job \notin {"login", "logout"} /\ Sound(tasks[t])

\* A step of such a task ends nobody's session.
Keeps(t) ==
    /\ Whole(store)' /\ Sound(tasks[t])' /\ (bearer' = bearer \/ bearer' # 0)
    /\ \/ UNCHANGED auth
       \/ tasks'[t] = Idle /\ auth'.status = "authenticated" /\ bearer' # 0

\* A task that leaves the store and the screen alone.
LEMMA KeepsFrame ==
    ASSUME SessionInv, NEW t \in Tasks, Whole(store), NEW q, Set(t, q), Sound(q),
           UNCHANGED <<store, auth>>, bearer' = bearer \/ bearer' # 0
    PROVE  Keeps(t)
<1>1. tasks'[t] = q
  BY DEF Set, SessionInv, SessionTypeOK
<1>2. Sound(tasks[t])'
  BY <1>1 DEF Sound, Healthy, HasRead, Whole, Route, MayRecover
<1> QED BY <1>2 DEF Keeps, Whole

\* It reads a key of the whole store.
LEMMA ReadKeepsWhole ==
    ASSUME SessionInv, NEW t \in Tasks, Sane(t), ReadKey(t)
    PROVE  Keeps(t)
<1> DEFINE task == Read(t)
           key == Head(tasks[t].todo)
<1>1. /\ tasks[t].at = "reading"
      /\ IF task.todo # <<>> THEN Set(t, task) /\ UNCHANGED <<bearer, auth, flushing>>
         ELSE AfterRead(t, task)
      /\ UNCHANGED store
  BY DEF ReadKey, Read
<1>2. /\ task \in Task /\ Whole(store)
      /\ \A field \in {"job", "at", "recovering", "retried", "kept", "bearer", "answer",
                        "user"} : task[field] = tasks[t][field]
  BY <1>1, ReadTask DEF Sane
<1>3. /\ tasks[t] \in Task /\ store \in Session /\ tasks[t].todo \in Todos
      /\ tasks[t].todo # <<>> /\ RoleOK(t, tasks[t])
  BY <1>1, Given DEF InHand, Task
<1>4. /\ tasks[t].job \in {"restore", "me"} \/ tasks[t].recovering
      /\ ~tasks[t].recovering => tasks[t].job = "restore"
  BY <1>1, <1>3 DEF RoleOK, Sane, Fresh
<1>5. Healthy(tasks[t]) /\ HasRead(tasks[t])
  BY <1>1, <1>4 DEF Sane, Sound, Healthy
<1>6. /\ task.todo = Tail(tasks[t].todo)
      /\ task.held = [tasks[t].held EXCEPT ![key] = store[key]]
      /\ tasks[t].held \in Session
  BY <1>3 DEF Read, Task
<1>7. \/ task.todo = <<"refresh", "user">> /\ task.held.token # 0
      \/ task.todo = <<"user">> /\ task.held.token # 0 /\ task.held.refresh # 0
      \/ task.todo = <<>> /\ Whole(task.held)
  <2> HIDE DEF task
  <2>1. CASE tasks[t].todo = Keys
    <3>1. key = "token" /\ task.todo = <<"refresh", "user">>
      BY <1>3, <1>6, <2>1, TodoStep
    <3> QED BY <1>2, <1>6, <3>1 DEF Session, Whole
  <2>2. CASE tasks[t].todo = <<"refresh", "user">>
    <3>1. key = "refresh" /\ task.todo = <<"user">> /\ tasks[t].held.token # 0
      BY <1>3, <1>5, <1>6, <2>2, TodoStep DEF HasRead, Keys
    <3> QED BY <1>2, <1>6, <3>1 DEF Session, Whole
  <2>3. CASE tasks[t].todo = <<"user">>
    <3>1. /\ key = "user" /\ task.todo = <<>>
          /\ tasks[t].held.token # 0 /\ tasks[t].held.refresh # 0
      BY <1>3, <1>5, <1>6, <2>3, TodoStep DEF HasRead, Keys
    <3> QED BY <1>2, <1>6, <3>1 DEF Session, Whole
  <2> QED BY <1>3, <2>1, <2>2, <2>3 DEF Todos
<1>8. ASSUME NEW q, Set(t, q), Sound(q), UNCHANGED auth, bearer' = bearer \/ bearer' # 0
      PROVE  Keeps(t)
  BY <1>1, <1>2, <1>8, KeepsFrame
<1>9. task.job = "me" => Whole(task.kept)
  BY <1>2, <1>5 DEF Healthy
<1> HIDE DEF task, key
<1>10. CASE task.todo # <<>>
  <2>1. HasRead(task)
    BY <1>7, <1>10 DEF HasRead
  <2>2. Sound(task)
    BY <1>1, <1>2, <1>9, <2>1 DEF Sound, Healthy
  <2> QED BY <1>1, <1>8, <1>10, <2>2
<1>11. CASE task.todo = <<>>
  <2>1. Whole(task.held) /\ IsRead(task.held) /\ AfterRead(t, task)
    BY <1>1, <1>7, <1>11 DEF Whole, IsRead
  <2>2. Refreshing(task) = Asking(task, 0)
    BY <2>1 DEF Refreshing, Whole
  <2>3. Sound(Asking(task, 0))
    BY <1>2, <1>4, <1>9 DEF Sound, Healthy, Asking, Task, Route
  <2>4. Sound(Asking([task EXCEPT !.job = "me", !.kept = task.held], task.held.token))
    BY <1>2, <2>1 DEF Sound, Healthy, Asking, Task, Whole
  <2>5. CASE Set(t, Refreshing(task)) /\ UNCHANGED <<bearer, auth, flushing>>
    BY <1>8, <2>2, <2>3, <2>5
  <2>6. CASE /\ bearer' = task.held.token /\ UNCHANGED auth
             /\ Set(t, Asking([task EXCEPT !.job = "me", !.kept = task.held], task.held.token))
    BY <1>8, <2>1, <2>4, <2>6 DEF Whole
  <2> QED BY <2>1, <2>5, <2>6 DEF AfterRead
<1> QED BY <1>10, <1>11

\* It writes a key of a whole session.
LEMMA WriteKeepsWhole ==
    ASSUME SessionInv, NEW t \in Tasks, Sane(t), WriteKey(t)
    PROVE  Keeps(t)
<1> DEFINE task == OneKeyLess(t)
           key == Head(tasks[t].todo)
<1>1. /\ tasks[t].at = "writing" /\ tasks[t] \in Task /\ tasks[t].todo # <<>>
      /\ store \in Session /\ RoleOK(t, tasks[t])
  BY Given DEF WriteKey, InHand
<1>2. /\ task \in Task /\ key \in {"token", "refresh", "user"}
      /\ \A field \in {"job", "at", "recovering", "retried", "held", "kept", "bearer",
                        "answer", "user"} : task[field] = tasks[t][field]
  BY <1>1, OneKeyLessTask
<1>3. /\ store' = [store EXCEPT ![key] = tasks[t].held[key]]
      /\ IF task.todo # <<>> THEN Set(t, task) /\ UNCHANGED <<bearer, auth, flushing>>
         ELSE AfterWrite(t, task)
  BY <1>2 DEF WriteKey, OneKeyLess
<1>4. tasks[t].job \in {"restore", "me"} \/ tasks[t].recovering
  BY <1>1 DEF RoleOK, Sane, Task
<1>5. /\ Healthy(tasks[t]) /\ Whole(tasks[t].held) /\ tasks[t].held \in Session
      /\ tasks[t].job = "me" => Whole(tasks[t].kept)
  BY <1>1, <1>4 DEF Sane, Sound, Healthy, Task
<1>6. Whole(store)'
  <2>1. Whole([store EXCEPT ![key] = tasks[t].held[key]])
    BY <1>1, <1>2, <1>5, OneKeyWhole DEF Sane
  <2> HIDE DEF key
  <2> QED BY <1>3, <2>1 DEF Whole
<1> HIDE DEF task, key
<1>7. ASSUME NEW q, Set(t, q), Sound(q), bearer' = bearer \/ bearer' # 0,
             UNCHANGED auth \/ (q = Idle /\ auth'.status = "authenticated" /\ bearer' # 0)
      PROVE  Keeps(t)
  <2>1. tasks'[t] = q
    BY <1>7 DEF Set, SessionInv, SessionTypeOK
  <2>2. Sound(tasks[t])'
    BY <1>7, <2>1 DEF Sound, Healthy, HasRead, Whole, Route, MayRecover
  <2> QED BY <1>6, <1>7, <2>1, <2>2 DEF Keeps
<1>8. CASE task.todo # <<>>
  <2>1. Sound(task)
    BY <1>1, <1>2, <1>5 DEF Sound, Healthy
  <2> QED BY <1>3, <1>7, <1>8, <2>1
<1>9. CASE task.todo = <<>>
  <2>1. AfterWrite(t, task) /\ bearer' = task.held.token /\ bearer' # 0 /\ Whole(task.held)
    BY <1>2, <1>3, <1>5, <1>9 DEF AfterWrite, Whole
  <2>2. Sound(Asking([task EXCEPT !.recovering = FALSE, !.retried = TRUE], bearer'))
        \/ ~task.recovering
    <3>1. task.recovering => task.job # "restore"
      BY <1>1, <1>2, SessionAssumption DEF RoleOK
    <3> QED BY <1>2, <1>5, <2>1, <3>1 DEF Sound, Healthy, Asking, Task
  <2>3. Sound(Asking([task EXCEPT !.job = "me", !.kept = task.held], bearer'))
    BY <1>2, <2>1 DEF Sound, Healthy, Asking, Task
  <2> QED BY <1>7, <2>1, <2>2, <2>3, IdleIsFresh DEF AfterWrite, SignIn
<1> QED BY <1>8, <1>9

\* It receives an answer that it can go on with.
LEMMA ReceiveKeepsWhole ==
    ASSUME SessionInv, NEW t \in Tasks, Sane(t), Receive(t)
    PROVE  Keeps(t)
<1> DEFINE task == [tasks[t] EXCEPT !.answer = "none"]
           again == [task EXCEPT !.recovering = TRUE]
<1>1. tasks[t].at = "answered" /\ UNCHANGED <<store, bearer>> /\ Whole(store)
  BY DEF Receive, Sane
<1>2. /\ tasks[t] \in Task /\ RoleOK(t, tasks[t])
      /\ tasks[t].job \in {"none", "restore", "me", "login", "logout", "call"}
  BY Given DEF Task
<1>3. /\ task \in Task /\ again \in Task /\ again.recovering /\ again.job = task.job
      /\ again.kept = task.kept
      /\ \A field \in {"job", "at", "todo", "recovering", "retried", "held", "kept", "bearer",
                        "user"} : task[field] = tasks[t][field]
      /\ Route(task) = Route(tasks[t])
  BY <1>2 DEF Task, Route
<1>4. tasks[t].job = "me" => Whole(tasks[t].kept)
  BY DEF Sane, Sound, Healthy
<1>5. Route(tasks[t]) \in {"refresh", "me"} =>
         \/ tasks[t].answer = "ok" /\ Whole(tasks[t].held)
         \/ Route(tasks[t]) = "me" /\ MayRecover(tasks[t])
  <2>1. Route(tasks[t]) \in {"refresh", "me"} =>
          tasks[t].job \in {"restore", "me"} \/ tasks[t].recovering
    BY <1>2 DEF Route
  <2> QED BY <1>1, <2>1 DEF Sane, Sound, Healthy
<1>6. Route(tasks[t]) # "login"
  BY <1>2 DEF Route, Sane
<1>7. ASSUME NEW q, Set(t, q), Sound(q), UNCHANGED auth PROVE Keeps(t)
  BY <1>1, <1>7, KeepsFrame
<1> HIDE DEF task
<1>8. Whole(task.held) => Sound(Writing(task, task.held))
  BY <1>3, <1>4 DEF Sound, Healthy, Writing, Task
<1> HIDE DEF again
<1>9. Sound(Reading(again))
  BY <1>3, <1>4 DEF Sound, Healthy, HasRead, Reading, Task, Keys
<1>10. \/ /\ UNCHANGED auth
          /\ \/ Set(t, Writing(task, task.held)) /\ tasks[t].answer = "ok"
                /\ Route(task) \in {"refresh", "login", "me"}
             \/ Set(t, Reading(again))
             \/ Set(t, Idle)
       \/ Route(task) = "refresh" /\ tasks[t].answer # "ok"
       \/ Route(task) \in {"login", "me"} /\ tasks[t].answer # "ok"
          /\ (Route(task) = "me" => ~MayRecover(tasks[t]))
  BY DEF Receive, task, again
<1> QED BY <1>3, <1>5, <1>6, <1>7, <1>8, <1>9, <1>10, IdleIsFresh DEF MayRecover

\* It is answered well, or can recover.
LEMMA ServeKeepsWhole ==
    ASSUME SessionInv, NEW t \in Tasks, Sane(t), Serve(t)
    PROVE  Keeps(t)
<1>1. tasks[t].at = "asking" /\ UNCHANGED <<store, bearer, auth>> /\ Whole(store)
  BY DEF Serve, Sane
<1>2. /\ tasks[t] \in Task /\ RoleOK(t, tasks[t]) /\ InHand(tasks[t]) /\ issued \in Seq(Users)
      /\ Len(issued) \in Nat /\ NoUser \notin Users
      /\ tasks[t].job \in {"none", "restore", "me", "login", "logout", "call"}
  BY Given DEF Task
<1>3. tasks[t].job = "me" => Whole(tasks[t].kept)
  BY DEF Sane, Sound, Healthy
<1>4. ASSUME NEW q, Set(t, q), Sound(q) PROVE Keeps(t)
  BY <1>1, <1>4, KeepsFrame
<1>5. \A answer, session : Whole(session) /\ answer = "ok" =>
          Sound(Answered(tasks[t], answer, session))
  BY <1>2, <1>3 DEF Sound, Healthy, Answered, Task
<1>6. CASE Route(tasks[t]) = "refresh" /\ ServeRefresh(t)
  <2> DEFINE u == issued[tasks[t].held.refresh]
             pair == Len(issued) + 1
             session == [token |-> pair, refresh |-> pair, user |-> u]
  <2>1. u \in Users
    BY <1>1, <1>2, <1>6 DEF InHand, Task, Session, Pair
  <2>2. Set(t, Answered(tasks[t], "ok", session))
    BY <1>6 DEF ServeRefresh, Issue, Sane
  <2>3. Whole(session)
    BY <1>2, <2>1 DEF Whole
  <2> HIDE DEF session
  <2> QED BY <1>4, <1>5, <2>2, <2>3
<1>7. CASE Route(tasks[t]) = "me" /\ ServeMe(t)
  <2>1. tasks[t].job = "me" /\ ~tasks[t].recovering
    BY <1>2, <1>7 DEF Route
  <2>2. tasks[t].bearer # 0
    BY <1>1, <1>7, <2>1 DEF Sane, Sound, Healthy
  <2>3. CASE PassesGuard(tasks[t].bearer)
    <3> DEFINE session == [tasks[t].kept EXCEPT !.user = issued[tasks[t].bearer]]
    <3>1. issued[tasks[t].bearer] \in Users
      BY <1>2, <2>2 DEF Task, Pair
    <3>2. Whole(session)
      BY <1>2, <1>3, <2>1, <3>1 DEF Whole, Task, Session
    <3>3. Set(t, Answered(tasks[t], "ok", session))
      BY <1>7, <2>3 DEF ServeMe, Sane
    <3> HIDE DEF session
    <3> QED BY <1>4, <1>5, <3>2, <3>3
  <2>4. CASE ~PassesGuard(tasks[t].bearer)
    <3>1. ~tasks[t].retried
      BY <1>1, <2>2, <2>4 DEF PassesGuard, Sane, Fresh
    <3>2. Set(t, Answered(tasks[t], "unauthorized", NoSession))
      BY <1>7, <2>4 DEF ServeMe, Refuse
    <3>3. Sound(Answered(tasks[t], "unauthorized", NoSession))
      BY <1>2, <1>3, <2>1, <3>1 DEF Sound, Healthy, Answered, Task, Route, MayRecover
    <3> QED BY <1>4, <3>2, <3>3
  <2> QED BY <2>3, <2>4
<1>8. CASE Route(tasks[t]) = "call" /\ ServeCall(t)
  <2>1. tasks[t].job = "call" /\ ~tasks[t].recovering
    BY <1>2, <1>8 DEF Route
  <2>2. Sound(Answered(tasks[t], "unauthorized", NoSession))
    BY <1>2, <2>1 DEF Sound, Answered, Task
  <2> QED BY <1>4, <1>8, <2>2, IdleIsFresh DEF ServeCall, Refuse
<1>9. Route(tasks[t]) # "login"
  BY <1>2 DEF Route, Sane
<1> QED BY <1>6, <1>7, <1>8, <1>9 DEF Serve

\* A start or a recovery that is sound does not clear the store, so no step of it ends a
\* session.
LEMMA StepKeepsWhole ==
    ASSUME SessionInv, NEW t \in Tasks, Sane(t), Run(t) \/ Serve(t)
    PROVE  Keeps(t)
<1>1. /\ RoleOK(t, tasks[t])
      /\ tasks[t].job \in {"none", "restore", "me", "login", "logout", "call"}
  BY Given DEF Task
<1>2. ~ClearKey(t)
  BY <1>1 DEF ClearKey, Sane, Sound, Healthy, RoleOK
<1> QED BY <1>2, ReadKeepsWhole, WriteKeepsWhole, ReceiveKeepsWhole, ServeKeepsWhole DEF Run

-----------------------------------------------------------------------------
\* A step that is not a start of the app adds to what may disturb, and what has begun.
LEMMA Later ==
    ASSUME ReasonInv, SessionInv', UNCHANGED boot, ~clash' => ~clash, torn' = torn,
           lapsed \subseteq lapsed', inactive \subseteq inactive',
           faults' = faults \/ faults' = faults + 1, signIns' = signIns \/ signIns' = signIns + 1
    PROVE  /\ boot'.faults <= faults' /\ boot'.signIns <= signIns'
           /\ Undisturbed' => Undisturbed /\ Kept /\ faults' = faults
<1>1. boot.faults \in Nat /\ faults \in Nat /\ boot.signIns \in Nat /\ signIns \in Nat
  BY SessionAssumption DEF ReasonInv, UserInv, SessionInv, SessionTypeOK
<1>2. boot'.faults = boot.faults /\ boot'.signIns = boot.signIns
  OBVIOUS
<1>3. boot.faults <= faults /\ boot.signIns <= signIns
  BY DEF ReasonInv
<1> QED BY <1>1, <1>2, <1>3 DEF Undisturbed, ReasonInv

\* What is common to the steps of tasks.
LEMMA TaskLater ==
    ASSUME ReasonInv, SessionInv', FreshInv', UserInv', NEW t \in Tasks,
           Run(t) \/ Serve(t) \/ Lose(t), Flagged, ~clash',
           Undisturbed' /\ Undisturbed /\ Kept /\ (Run(t) \/ Serve(t)) => Kept'
    PROVE  ReasonInv'
<1>1. torn' = torn
  BY TaskEffects DEF ReasonInv, UserInv
<1>2. /\ boot'.faults <= faults' /\ boot'.signIns <= signIns'
      /\ Undisturbed' => Undisturbed /\ Kept /\ faults' = faults
  BY <1>1, TaskCounts, Later, ClashIsBoolean DEF ReasonInv, UserInv
<1>3. Lose(t) => faults' # faults
  <2>1. faults \in Nat
    BY SessionAssumption DEF ReasonInv, UserInv, SessionInv, SessionTypeOK
  <2> QED BY <2>1, TaskCounts
<1> QED BY <1>2, <1>3 DEF ReasonInv

\* A session that was stored is restored.
LEMMA StartReason ==
    ASSUME ReasonInv, SessionInv', FreshInv', UserInv', Flagged, ~clash',
           Run(Ui) \/ Serve(Ui) \/ Lose(Ui), tasks[Ui].job \in {"restore", "me"}
    PROVE  ReasonInv'
<1>1. Ui \in Tasks /\ Calls \subseteq Tasks /\ Ui \notin Calls /\ SessionInv
  BY SessionAssumption DEF Tasks, UiTasks, Ui, ReasonInv, UserInv
<1>2. /\ auth.status = "unknown" /\ \A c \in Calls : tasks'[c] = Idle
      /\ boot' = boot /\ signIns' = signIns /\ tasks[Ui].job \notin {"login", "logout"}
  BY <1>1, TaskEffects, TaskCounts DEF ReasonInv, UserInv, ScreenInv
<1>3. ASSUME Undisturbed, Kept, Run(Ui) \/ Serve(Ui), Undisturbed' PROVE Kept'
  <2>1. signIns' = boot'.signIns
    BY <1>2, <1>3 DEF Kept
  <2>2. boot.user # NoUser => Keeps(Ui)
    <3>1. boot.user # NoUser => Sane(Ui)
      BY <1>1, <1>2, <1>3 DEF Kept, Sane, Undisturbed, ReasonInv, FreshInv, AllFresh
    <3> QED BY <1>1, <1>3, <3>1, StepKeepsWhole
  <2>3. CASE UNCHANGED <<auth, flushing>> /\ tasks'[Ui].job \in {"restore", "me"}
    BY <1>2, <2>1, <2>2, <2>3 DEF Kept, Keeps
  <2>4. CASE tasks'[Ui] = Idle /\ SignOut
    <3>1. auth'.status = "unauthenticated"
      BY <1>1, <2>4 DEF SignOut, SessionInv, SessionTypeOK
    <3>2. boot.user = NoUser
      BY <1>2, <2>2, <3>1 DEF Keeps
    <3> QED BY <1>2, <2>4, <3>1, <3>2 DEF Kept, Idle
  <2>5. CASE /\ tasks'[Ui] = Idle /\ flushing'
             /\ auth'.status = "authenticated" /\ auth'.user = tasks[Ui].held.user
    <3>1. auth'.status = "authenticated"
      BY <2>5
    <3>2. HasSession' => boot.user # NoUser
      <4>1. signIns' \in Nat /\ boot'.user = boot.user
        BY <1>2, SessionAssumption DEF SessionInv, SessionTypeOK
      <4> QED BY <2>1, <4>1 DEF HasSession
    <3>3. boot.user # NoUser => Whole(store)' /\ bearer' # 0
      BY <1>2, <2>2, <3>1 DEF Keeps
    <3>4. \A c \in Calls : Sound(tasks[c])'
      BY <1>2 DEF Sound, Idle
    <3> QED BY <2>5, <3>1, <3>2, <3>3, <3>4 DEF Kept, Idle
  <2> QED BY <1>1, <1>3, <2>3, <2>4, <2>5, StartEffects
<1> QED BY <1>1, <1>3, TaskLater

\* A request ends nobody's session.
LEMMA CallReason ==
    ASSUME ReasonInv, SessionInv', FreshInv', UserInv', Flagged, ~clash',
           NEW c \in Calls, Run(c) \/ Serve(c) \/ Lose(c)
    PROVE  ReasonInv'
<1>1. c \in Tasks /\ Ui \in Tasks /\ Calls \subseteq Tasks /\ Ui \notin Calls /\ SessionInv
      /\ c # Ui /\ c \notin UiTasks
  BY SessionAssumption DEF Tasks, UiTasks, Ui, ReasonInv, UserInv
<1>2. /\ auth' = auth /\ tasks'[Ui] = tasks[Ui] /\ tasks[c].at # "idle"
      /\ \A d \in Calls : d # c => tasks'[d] = tasks[d]
      /\ boot' = boot /\ signIns' = signIns
  BY <1>1, TaskEffects, TaskCounts
<1>3. tasks[c] \in Task /\ RoleOK(c, tasks[c]) /\ auth.status # "unknown"
  BY <1>1, <1>2, Given DEF ReasonInv, UserInv, ScreenInv, Idle
<1>4. ~left' => ~left
  <2>1. left \in BOOLEAN
    BY <1>1, Given
  <2> QED BY <1>1, <2>1, TaskCounts
<1>5. ASSUME Undisturbed, Kept, Run(c) \/ Serve(c) PROVE Kept'
  <2>1. ASSUME auth.status = "authenticated", tasks[Ui] = Idle, HasSession
        PROVE  Whole(store)' /\ bearer' # 0 /\ \A d \in Calls : Sound(tasks[d])'
    <3>1. Sane(c) /\ bearer # 0
      BY <1>1, <1>3, <1>5, <2>1 DEF Kept, Sane, Undisturbed, ReasonInv, FreshInv,
             AllFresh, RoleOK
    <3>2. Keeps(c)
      BY <1>1, <1>5, <3>1, StepKeepsWhole
    <3>3. ASSUME NEW d \in Calls, d # c PROVE Sound(tasks[d])'
      BY <1>2, <1>5, <2>1, <3>3
         DEF Kept, Sound, Healthy, HasRead, Whole, Route, MayRecover
    <3> QED BY <3>1, <3>2, <3>3 DEF Keeps
  <2>2. HasSession' <=> HasSession
    BY <1>2 DEF HasSession
  <2>3. LoginGiven(tasks[Ui])' <=> LoginGiven(tasks[Ui])
    BY <1>2 DEF LoginGiven, Whole
  <2> QED BY <1>2, <1>3, <1>4, <1>5, <2>1, <2>2, <2>3 DEF Kept
<1> QED BY <1>1, <1>5, TaskLater

-----------------------------------------------------------------------------
\* A login brings a whole session, or leaves the till signed out.
LEMMA LoginReason ==
    ASSUME ReasonInv, SessionInv', FreshInv', UserInv', Flagged, ~clash',
           Run(Ui) \/ Serve(Ui) \/ Lose(Ui), tasks[Ui].job = "login"
    PROVE  ReasonInv'
<1> DEFINE held == tasks[Ui].held
<1>1. /\ Ui \in Tasks /\ Calls \subseteq Tasks /\ Ui \notin Calls /\ SessionInv /\ UserInv
  BY SessionAssumption DEF Tasks, UiTasks, Ui, ReasonInv, UserInv
<1>2. /\ tasks[Ui] \in Task /\ RoleOK(Ui, tasks[Ui]) /\ InHand(tasks[Ui])
      /\ Len(issued) \in Nat /\ NoUser \notin Users
      /\ tasks[Ui].at \in {"asking", "answered", "writing"}
      /\ \A q : Set(Ui, q) => tasks'[Ui] = q
  BY <1>1, Given DEF UserInv, ScreenInv, Set, SessionInv, SessionTypeOK
<1>3. auth.status = "unauthenticated" /\ Route(tasks[Ui]) = "login"
  BY <1>1, <1>2 DEF UserInv, ScreenInv, SessionInv, SessionTypeOK, RoleOK, Route
<1>4. boot' = boot /\ signIns' = signIns /\ \A c \in Calls : tasks'[c] = tasks[c]
  BY <1>1, TaskEffects, TaskCounts
<1>5. ASSUME Kept PROVE signIns # boot.signIns /\ signIns > boot.signIns /\ LoginGiven(tasks[Ui])
  <2>1. signIns \in Nat /\ boot.signIns \in Nat
    BY <1>1, SessionAssumption DEF SessionInv, SessionTypeOK
  <2> QED BY <1>5, <2>1 DEF Kept
<1>6. ASSUME Undisturbed, Kept, Run(Ui) \/ Serve(Ui), Undisturbed' PROVE Kept'
  <2>1. ASSUME auth'.status = "unauthenticated", LoginGiven(tasks[Ui])' PROVE Kept'
    BY <1>4, <1>5, <1>6, <2>1 DEF Kept
  <2>2. LoginGiven(Idle)
    BY DEF LoginGiven, Idle
  <2>3. ASSUME NEW q, tasks'[Ui] = q, LoginGiven(q) PROVE LoginGiven(tasks[Ui])'
    BY <2>3 DEF LoginGiven, Whole
  <2>4. CASE Receive(Ui)
    <3> DEFINE task == [tasks[Ui] EXCEPT !.answer = "none"]
               q == Writing(task, task.held)
    <3>1. Route(task) = "login" /\ task \in Task /\ task.held = held
      BY <1>2, <1>3 DEF Task, Route
    <3>2. \/ Set(Ui, q) /\ UNCHANGED auth /\ tasks[Ui].answer = "ok" /\ tasks[Ui].at = "answered"
          \/ GiveUp(Ui)
      BY <2>4, <3>1 DEF Receive
    <3>3. tasks[Ui].answer = "ok" /\ tasks[Ui].at = "answered" => LoginGiven(q)
      BY <1>5, <1>6, <3>1 DEF LoginGiven, Writing, Task
    <3> HIDE DEF q
    <3>4. CASE GiveUp(Ui)
      <4>1. tasks'[Ui] = Idle /\ auth'.status = "unauthenticated"
        BY <1>1, <1>2, <3>4 DEF GiveUp, SignOut, UiTasks, SessionInv, SessionTypeOK
      <4> QED BY <2>1, <2>2, <2>3, <4>1
    <3> QED BY <1>2, <1>3, <2>1, <2>3, <3>2, <3>3, <3>4
  <2>5. CASE Serve(Ui)
    <3>1. ServeLogin(Ui) /\ UNCHANGED auth
      BY <1>3, <2>5 DEF Serve
    <3>2. CASE Refuse(Ui)
      <4>1. LoginGiven(Answered(tasks[Ui], "unauthorized", NoSession))
        BY <1>2 DEF LoginGiven, Answered, Task
      <4> QED BY <1>2, <1>3, <2>1, <2>3, <3>1, <3>2, <4>1 DEF Refuse
    <3>3. CASE Issue(Ui, tasks[Ui].user)
      <4> DEFINE pair == Len(issued) + 1
                 session == [token |-> pair, refresh |-> pair, user |-> tasks[Ui].user]
      <4>1. Whole(session)
        BY <1>2 DEF Whole, InHand
      <4>2. Set(Ui, Answered(tasks[Ui], "ok", session))
        BY <3>3 DEF Issue
      <4> HIDE DEF session
      <4>3. LoginGiven(Answered(tasks[Ui], "ok", session))
        BY <1>2, <4>1 DEF LoginGiven, Answered, Task
      <4> QED BY <1>2, <1>3, <2>1, <2>3, <3>1, <4>2, <4>3
    <3> QED BY <3>1, <3>2, <3>3 DEF ServeLogin
  <2>6. CASE WriteKey(Ui)
    <3> DEFINE task == OneKeyLess(Ui)
    <3>1. tasks[Ui].at = "writing" /\ tasks[Ui].todo # <<>> /\ Whole(held)
      BY <1>2, <1>5, <1>6, <2>6 DEF WriteKey, InHand, LoginGiven
    <3>2. /\ task \in Task /\ task.held = held /\ task.job = "login" /\ ~task.recovering
          /\ task.at = "writing"
      BY <1>1, <1>2, <3>1, OneKeyLessTask DEF RoleOK
    <3>3. IF task.todo # <<>> THEN Set(Ui, task) /\ UNCHANGED <<bearer, auth, flushing>>
          ELSE AfterWrite(Ui, task)
      BY <2>6 DEF WriteKey, OneKeyLess
    <3>4. task.todo = <<>> => store' = held
      BY <1>1, <1>6, <2>6, LoginWrites DEF Undisturbed
    <3> HIDE DEF task, held
    <3>5. CASE task.todo # <<>>
      BY <1>2, <1>3, <2>1, <2>3, <3>1, <3>2, <3>3, <3>5 DEF LoginGiven
    <3>6. CASE task.todo = <<>>
      <4>0. bearer' = task.held.token /\ Set(Ui, Idle) /\ SignIn(task)
        BY <3>2, <3>3, <3>6 DEF AfterWrite
      <4>1. /\ bearer' = held.token /\ tasks'[Ui] = Idle /\ auth'.status = "authenticated"
        BY <1>2, <3>2, <4>0 DEF SignIn
      <4>2. Whole(store)' /\ bearer' # 0
        BY <3>1, <3>4, <3>6, <4>1 DEF Whole
      <4>3. ASSUME NEW c \in Calls PROVE Sound(tasks[c])'
        <5>1. ~tasks[c].recovering
          BY <1>1, <1>6, <3>1 DEF Undisturbed, SessionInv, LogoutInv, Idle
        <5>2. tasks[c].job \notin {"restore", "me"}
          BY <1>1, Given, SessionAssumption DEF RoleOK, UiTasks, Ui
        <5> QED BY <1>4, <5>1, <5>2 DEF Sound
      <4> QED BY <4>1, <4>2, <4>3 DEF Kept, Idle
    <3> QED BY <3>5, <3>6
  <2>7. ~ReadKey(Ui) /\ ~ClearKey(Ui)
    BY <1>2 DEF ReadKey, ClearKey
  <2> QED BY <1>6, <2>4, <2>5, <2>6, <2>7 DEF Run
<1> QED BY <1>1, <1>6, TaskLater

\* A logout signs the till out, which is a reason.
LEMMA LogoutReason ==
    ASSUME ReasonInv, SessionInv', FreshInv', UserInv', Flagged, ~clash',
           Run(Ui) \/ Serve(Ui) \/ Lose(Ui), tasks[Ui].job = "logout"
    PROVE  ReasonInv'
<1> DEFINE task == OneKeyLess(Ui)
<1>1. /\ Ui \in Tasks /\ SessionInv /\ tasks[Ui] \in Task /\ RoleOK(Ui, tasks[Ui])
      /\ InHand(tasks[Ui]) /\ \A q : Set(Ui, q) => tasks'[Ui] = q
  BY Given DEF ReasonInv, UserInv, Set, Tasks, UiTasks, SessionInv, SessionTypeOK
<1>2. tasks[Ui].at = "clearing" /\ ClearKey(Ui) /\ auth.status = "authenticated"
  BY <1>1 DEF RoleOK, Run, ReadKey, WriteKey, Receive, Serve, Lose, ReasonInv, UserInv, ScreenInv
<1>3. task \in Task /\ task.job = "logout" /\ task.at = "clearing"
  BY <1>1, <1>2, OneKeyLessTask DEF InHand
<1>4. IF task.todo # <<>> THEN Set(Ui, task) /\ UNCHANGED <<bearer, auth, flushing, left>>
      ELSE AfterClear(Ui, task)
  BY <1>2 DEF ClearKey, OneKeyLess
<1> HIDE DEF task
<1>5. CASE task.todo # <<>>
  <2>1. tasks'[Ui] = task /\ auth' = auth
    BY <1>1, <1>4, <1>5
  <2>2. Kept'
    BY <1>2, <1>3, <2>1 DEF Kept, Idle
  <2> QED BY <1>1, <2>2, TaskLater
<1>6. CASE task.todo = <<>>
  <2>1. Set(Ui, Idle) /\ SignOut /\ left' = (left \/ task.job = "logout")
    BY <1>4, <1>6 DEF AfterClear, GiveUp, UiTasks
  <2>2. tasks'[Ui] = Idle /\ auth'.status = "unauthenticated"
    BY <1>1, <2>1 DEF SignOut, SessionInv, SessionTypeOK
  <2>3. left' = TRUE
    BY <1>3, <2>1
  <2>4. Kept'
    BY <2>2, <2>3 DEF Kept, Idle
  <2> QED BY <1>1, <2>4, TaskLater
<1> QED BY <1>5, <1>6

-----------------------------------------------------------------------------
\* A login that begins is counted.
LEMMA LoginStartsReason ==
    ASSUME ReasonInv, SessionInv', FreshInv', UserInv', Flagged, ~clash',
           NEW u \in Users, Login(Ui, u)
    PROVE  ReasonInv'
<1> DEFINE q == Asking([Idle EXCEPT !.job = "login", !.user = u], 0)
<1>1. /\ UNCHANGED <<boot, torn, lapsed, inactive, faults, auth>> /\ signIns' = signIns + 1
      /\ tasks' = [tasks EXCEPT ![Ui] = q] /\ auth.status = "unauthenticated"
  BY ClashIsBoolean
     DEF Login, Free, Set, backend, MayLogIn, ReasonInv, UserInv, SessionInv, LogoutInv
<1>2. /\ tasks'[Ui] = q /\ q.job = "login" /\ q.at = "asking"
      /\ boot.signIns \in Nat /\ signIns \in Nat /\ boot.signIns <= signIns
  BY <1>1, SessionAssumption DEF ReasonInv, UserInv, SessionInv, SessionTypeOK,
                             Tasks, UiTasks, Asking, Idle
<1> HIDE DEF q
<1>3. /\ boot'.faults <= faults' /\ boot'.signIns <= signIns'
      /\ Undisturbed' => Undisturbed /\ Kept /\ faults' = faults
  BY <1>1, Later, ClashIsBoolean DEF ReasonInv, UserInv
<1>4. boot'.signIns < signIns' /\ boot'.signIns # signIns'
  BY <1>1, <1>2
<1>5. Kept'
  BY <1>1, <1>2, <1>4 DEF Kept, LoginGiven
<1> QED BY <1>3, <1>5 DEF ReasonInv

\* A logout that begins is the user's wish.
LEMMA LogoutStartsReason ==
    ASSUME ReasonInv, SessionInv', FreshInv', UserInv', Flagged, ~clash',
           Logout(Ui)
    PROVE  ReasonInv'
<1> DEFINE q == Clearing([Idle EXCEPT !.job = "logout"])
<1>1. /\ UNCHANGED <<boot, torn, lapsed, inactive, faults, signIns, auth>>
      /\ tasks' = [tasks EXCEPT ![Ui] = q] /\ auth.status = "authenticated"
  BY ClashIsBoolean
     DEF Logout, Free, MayLogOut, Set, backend, counters, ReasonInv, UserInv, SessionInv,
         LogoutInv
<1>2. tasks'[Ui] = q /\ q.job = "logout" /\ q # Idle
  BY <1>1 DEF ReasonInv, UserInv, SessionInv, SessionTypeOK, Tasks, UiTasks, Clearing, Idle
<1> HIDE DEF q
<1>3. /\ boot'.faults <= faults' /\ boot'.signIns <= signIns'
      /\ Undisturbed' => Undisturbed /\ Kept /\ faults' = faults
  BY <1>1, Later, ClashIsBoolean DEF ReasonInv, UserInv
<1>4. Kept'
  BY <1>1, <1>2 DEF Kept
<1> QED BY <1>3, <1>4 DEF ReasonInv

\* A request that begins has not been refused yet.
LEMMA StartCallReason ==
    ASSUME ReasonInv, SessionInv', FreshInv', UserInv', Flagged, ~clash',
           NEW c \in Calls, StartCall(c)
    PROVE  ReasonInv'
<1> DEFINE q == Asking([Idle EXCEPT !.job = "call"], bearer)
<1>1. /\ UNCHANGED <<store, bearer, auth, boot, left, torn, lapsed, inactive, faults, signIns>>
      /\ tasks' = [tasks EXCEPT ![c] = q]
  BY DEF StartCall, Set, backend
<1>2. /\ tasks'[c] = q /\ tasks'[Ui] = tasks[Ui]
      /\ \A d \in Calls : d # c => tasks'[d] = tasks[d]
  BY <1>1, SessionAssumption DEF ReasonInv, UserInv, SessionInv, SessionTypeOK, Tasks, UiTasks, Ui
<1>3. Sound(q)
  BY DEF Sound, Asking, Idle
<1> HIDE DEF q
<1>4. /\ boot'.faults <= faults' /\ boot'.signIns <= signIns'
      /\ Undisturbed' => Undisturbed /\ Kept /\ faults' = faults
  BY <1>1, Later, ClashIsBoolean DEF ReasonInv, UserInv
<1>5. ASSUME Kept PROVE Kept'
  <2>1. Sound(tasks[c])'
    BY <1>2, <1>3 DEF Sound, Healthy, HasRead, Whole, Route, MayRecover
  <2>2. ASSUME NEW d \in Calls, d # c, Sound(tasks[d]) PROVE Sound(tasks[d])'
    BY <1>2, <2>2 DEF Sound, Healthy, HasRead, Whole, Route, MayRecover
  <2>3. Sound(tasks[Ui]) => Sound(tasks[Ui])'
    BY <1>2 DEF Sound, Healthy, HasRead, Whole, Route, MayRecover
  <2>4. LoginGiven(tasks[Ui]) => LoginGiven(tasks[Ui])'
    BY <1>2 DEF LoginGiven, Whole
  <2>5. (Whole(store) => Whole(store)') /\ (HasSession' <=> HasSession)
    BY <1>1 DEF Whole, HasSession
  <2> QED BY <1>1, <1>2, <1>5, <2>1, <2>2, <2>3, <2>4, <2>5 DEF Kept
<1> QED BY <1>4, <1>5 DEF ReasonInv

\* Where nothing but the backend moves, the till keeps its session.
LEMMA SameReason ==
    ASSUME ReasonInv, SessionInv', FreshInv', UserInv', UNCHANGED <<till, signIns>>,
           ~clash' => ~clash, lapsed \subseteq lapsed', inactive \subseteq inactive',
           faults' = faults \/ faults' = faults + 1
    PROVE  ReasonInv'
<1>1. UNCHANGED <<store, bearer, auth, tasks, boot, left, torn>>
  BY DEF till
<1>2. /\ boot'.faults <= faults' /\ boot'.signIns <= signIns'
      /\ Undisturbed' => Undisturbed /\ Kept /\ faults' = faults
  BY <1>1, Later
<1>3. Kept => Kept'
  BY <1>1 DEF Kept, Sound, Healthy, HasRead, Whole, Route, MayRecover, LoginGiven, HasSession
<1> QED BY <1>2, <1>3 DEF ReasonInv

\* LoginScreen makes way, and the till keeps its session.
LEMMA EnterReason ==
    ASSUME ReasonInv, SessionInv', FreshInv', UserInv', Enter, ~clash' => ~clash
    PROVE  ReasonInv'
<1>1. /\ UNCHANGED <<store, bearer, tasks, boot, left, torn, lapsed, inactive, faults, signIns>>
      /\ auth'.status = auth.status
  BY DEF Enter, backend, counters, ReasonInv, UserInv, SessionInv, SessionTypeOK
<1>2. /\ boot'.faults <= faults' /\ boot'.signIns <= signIns'
      /\ Undisturbed' => Undisturbed /\ Kept /\ faults' = faults
  BY <1>1, Later
<1>3. Kept => Kept'
  BY <1>1 DEF Kept, Sound, Healthy, HasRead, Whole, Route, MayRecover, LoginGiven, HasSession
<1> QED BY <1>2, <1>3 DEF ReasonInv

\* What is found at the start is what the start restores.
LEMMA KillReason ==
    ASSUME ReasonInv, SessionInv', FreshInv', UserInv', Kill
    PROVE  ReasonInv'
<1> DEFINE q == Reading([Idle EXCEPT !.job = "restore"])
<1>1. /\ UNCHANGED <<store, signIns>> /\ auth'.status = "unknown"
      /\ boot' = [user |-> IF IsRead(store) /\ store.refresh # 0 THEN store.user ELSE NoUser,
                  faults |-> faults', signIns |-> signIns]
      /\ tasks'[Ui] = q
  BY DEF Kill, Boot, Tasks, UiTasks
<1>2. boot'.user # NoUser => Whole(store)'
  BY <1>1 DEF Whole, IsRead
<1>3. q.at = "reading" /\ q.job = "restore" /\ q.todo = Keys /\ Keys # <<"user">>
  BY DEF Reading, Idle, Keys
<1> HIDE DEF q
<1>4. Sound(tasks[Ui])'
  BY <1>1, <1>3 DEF Sound, Healthy, HasRead
<1>5. Kept'
  BY <1>1, <1>2, <1>3, <1>4 DEF Kept
<1>6. faults' \in Nat /\ signIns' \in Nat
  BY SessionAssumption DEF SessionInv, SessionTypeOK
<1> QED BY <1>1, <1>5, <1>6 DEF ReasonInv

-----------------------------------------------------------------------------
\* At the first start there is no session to keep.
LEMMA InitReasonInv == Init => ReasonInv
<1> SUFFICES ASSUME Init PROVE ReasonInv
  OBVIOUS
<1>1. UserInv
  BY InitUserInv
<1> DEFINE q == Reading([Idle EXCEPT !.job = "restore"])
<1>2. /\ \A t \in Tasks : tasks[t] = q \/ tasks[t] = Idle
      /\ tasks[Ui] = q
  BY DEF Init, Boot, Tasks, UiTasks
<1>3. Fresh(q) /\ q.job = "restore"
  BY DEF Fresh, Reading, Idle
<1> HIDE DEF q
<1>4. FreshInv
  BY <1>2, <1>3, IdleIsFresh DEF FreshInv, AllFresh
<1> QED BY <1>1, <1>2, <1>3, <1>4 DEF Init, ReasonInv, Kept

\* Until something clashes, every step has a reason, if it ends a session.
LEMMA StepReasonInv ==
    ASSUME ReasonInv, [Next]_sessionVars, ~clash'
    PROVE  ReasonInv'
<1>1. SessionInv /\ SessionInv' /\ UserInv' /\ UserInv /\ FreshInv /\ boot.faults <= faults
  BY StepUserInv, NextSessionInv DEF ReasonInv, UserInv
<1>2. CASE UNCHANGED sessionVars
  <2>1. UNCHANGED <<till, boot, signIns, clash, lapsed, inactive, faults, tasks, expired>>
    BY <1>2 DEF sessionVars, backend, counters, till
  <2>2. FreshInv'
    BY <1>1, <2>1 DEF FreshInv, AllFresh, Fresh
  <2> QED BY <1>1, <2>1, <2>2, SameReason
<1>3. CASE Next
  <2>1. Step /\ Flagged
    BY <1>3 DEF Next, Flagged
  <2>0. ~clash
    BY <1>1, <2>1, ClashIsBoolean
  <2>2. FreshInv'
    BY <1>1, <2>1, StepFresh
  <2>3. CASE Run(Ui) \/ Serve(Ui) \/ Lose(Ui)
    <3>1. /\ RoleOK(Ui, tasks[Ui]) /\ tasks[Ui].at # "idle"
          /\ tasks[Ui].job \in {"none", "restore", "me", "login", "logout", "call"}
      BY <1>1, <2>3, TaskEffects, Given DEF Tasks, UiTasks, Task
    <3>2. tasks[Ui].job \in {"restore", "me", "login", "logout"}
      BY <3>1 DEF RoleOK, UiTasks
    <3> QED BY <1>1, <2>1, <2>2, <2>3, <3>2, StartReason, LoginReason, LogoutReason
  <2>4. ASSUME NEW c \in Calls, Run(c) \/ Serve(c) \/ Lose(c) PROVE ReasonInv'
    BY <1>1, <2>1, <2>2, <2>4, CallReason
  <2>5. ASSUME NEW u \in Users, Login(Ui, u) PROVE ReasonInv'
    BY <1>1, <2>1, <2>2, <2>5, LoginStartsReason
  <2>6. ASSUME NEW u \in Users, Deactivate(u) PROVE ReasonInv'
    BY <1>1, <2>0, <2>2, <2>6, SameReason DEF Deactivate
  <2>7. ASSUME NEW c \in Calls, StartCall(c) PROVE ReasonInv'
    BY <1>1, <2>1, <2>2, <2>7, StartCallReason
  <2>8. ASSUME NEW pair \in 1 .. Len(issued), Expire(pair) \/ Lapse(pair) PROVE ReasonInv'
    BY <1>1, <2>0, <2>2, <2>8, SameReason DEF Expire, Lapse, counters
  <2>9. CASE Logout(Ui)
    BY <1>1, <2>1, <2>2, <2>9, LogoutStartsReason
  <2>10. CASE Kill
    BY <1>1, <2>2, <2>10, KillReason
  <2>11. CASE Enter
    BY <1>1, <2>0, <2>2, <2>11, EnterReason
  <2>12. ASSUME NEW r \in Rivals,
                \/ Run(r) \/ Serve(r) \/ Lose(r) \/ Logout(r)
                \/ \E u \in Users : Login(r, u)
         PROVE  FALSE
    BY <1>1, <2>1, <2>12, NoRivalSteps
  <2> QED BY <2>1, <2>3, <2>4, <2>5, <2>6, <2>7, <2>8, <2>9, <2>10, <2>11, <2>12
          DEF Step, Tasks, UiTasks
<1> QED BY <1>2, <1>3

\* What holds in every state.
ReasonOrClash == SessionInv /\ (~clash => ReasonInv)

\* A clash is for ever, and until then every step that ends a session has a reason.
LEMMA NextReasonInv == ReasonOrClash /\ [Next]_sessionVars => ReasonOrClash'
<1> SUFFICES ASSUME ReasonOrClash, [Next]_sessionVars PROVE ReasonOrClash'
  OBVIOUS
<1>1. SessionInv'
  BY NextSessionInv DEF ReasonOrClash
<1>2. ~clash' => ~clash
  BY DEF Next, sessionVars
<1> QED BY <1>1, <1>2, StepReasonInv DEF ReasonOrClash

\* A session that is kept is restored and shown.
LEMMA ReasonInvMeansReason == ReasonOrClash => SignedOutForAReason
  BY DEF ReasonOrClash, ReasonInv, Undisturbed, Kept, HasSession, Whole, IsRead, SignedOutForAReason

\* However many users, requests at once and expired tokens there are, a till that has lost
\* nothing, and whose user is active, signs nobody out by itself, unless a request sent
\* again met an expired token, or a recovery or another signing in or out overlapped with
\* signing in or out: a stored session is restored, and who is signed in has a session in
\* the store and a token to send.
THEOREM ClientSignedOutForAReason == Spec => []SignedOutForAReason
<1>1. Init => ReasonOrClash
  BY InitReasonInv DEF ReasonOrClash, ReasonInv, UserInv
<1> QED BY <1>1, NextReasonInv, ReasonInvMeansReason, PTL DEF Spec
=============================================================================
