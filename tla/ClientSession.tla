--------------------------- MODULE ClientSession ---------------------------
(***************************************************************************)
(* The session of a till: AuthService, ApiClient._send(), AuthNotifier and *)
(* the three keys of SecureAuthSessionStore, against the AuthService of    *)
(* the backend and the expiry of its tokens.                               *)
(*                                                                         *)
(* A task is the chain of awaits of the user interface (Ui: restoring,     *)
(* signing in or signing out), of a further signing in or out while it is  *)
(* busy (rivals), or of a request of the app to the API (calls: several at *)
(* a time).  One action per await: an access to one key of the store,      *)
(* which serves them in the order they are asked for; a request served; an *)
(* answer received; each with all that the program does before its next    *)
(* await.                                                                  *)
(*                                                                         *)
(* The access and the refresh token of an answer are one number, their     *)
(* place among the pairs issued; 0 is no token.                            *)
(***************************************************************************)
EXTENDS Integers, FiniteSets, SequencesExt

CONSTANTS
    Users,
    NoUser,
    Calls,       \* the requests that may be under way at a time
    Rivals,      \* the sign ins and outs that may be under way beside the Ui's
    MaxCalls,    \* bound: requests of the app
    MaxSignIns,  \* bound: attempts to sign in
    MaxExpiries, \* bound: access tokens that expire
    MaxFaults    \* bound: requests lost, refresh tokens expired, retries that meet an
                 \* expired token, users deactivated, kills

ASSUME SessionAssumption ==
    /\ NoUser \notin Users
    /\ "ui" \notin Calls \cup Rivals /\ Calls \cap Rivals = {}
    /\ {MaxCalls, MaxSignIns, MaxExpiries, MaxFaults} \subseteq Nat

VARIABLES
    store,      \* the three keys: token, refresh, user
    bearer,     \* ApiClient._token
    auth,       \* AuthNotifier: status, and the user on the screen; entering: LoginScreen
                \* is still up, as it loads the catalog for a user who has signed in
    tasks,
    flushing,   \* OfflineSyncService is started: requests may come at any time
    issued,     \* the backend: the owner of each pair of tokens
    expired,    \* the pairs whose access token has expired
    lapsed,     \* the pairs whose refresh token has expired too
    inactive,   \* users whose is_active is false
    astray,     \* sign ins and outs have overlapped: any screen may be up
    \* history:
    boot,       \* at the start: the user whose session was stored, the faults and sign ins
    left,       \* Logout has returned, and no one has signed in since
    clash,      \* a recovery, or a rival, was under way while the Ui was not idle
    torn,       \* the till was killed between the writes of a login
    calls, signIns, faults

till == <<store, bearer, auth, tasks, flushing, boot, left, torn>>
backend == <<issued, expired, lapsed, inactive>>
counters == <<calls, signIns, faults>>
sessionVars == <<till, backend, astray, clash, counters>>

Ui == "ui"
UiTasks == {Ui} \cup Rivals
Tasks == UiTasks \cup Calls

Keys == <<"token", "refresh", "user">>

NoSession == [token |-> 0, refresh |-> 0, user |-> NoUser]

Idle == [job |-> "none", at |-> "idle", todo |-> <<>>, recovering |-> FALSE,
         retried |-> FALSE, held |-> NoSession, kept |-> NoSession, bearer |-> 0,
         answer |-> "none", user |-> NoUser]

\* A session is read or written key by key, each an await.
Reading(task) == [task EXCEPT !.at = "reading", !.todo = Keys, !.held = NoSession]
Clearing(task) == [task EXCEPT !.at = "clearing", !.todo = Keys]
Writing(task, session) ==
    [task EXCEPT !.at = "writing", !.todo = Keys, !.held = session]

\* _send() puts the token of the moment into the headers; the login and the refresh have
\* no use for it.
Asking(task, token) == [task EXCEPT !.at = "asking", !.bearer = token]

\* The start of the app: AppBootstrapScreen calls AuthNotifier.restoreSession().
Boot == [t \in Tasks |-> IF t = Ui THEN Reading([Idle EXCEPT !.job = "restore"]) ELSE Idle]

Init ==
    /\ store = NoSession
    /\ bearer = 0
    /\ auth = [status |-> "unknown", user |-> NoUser, entering |-> FALSE]
    /\ tasks = Boot
    /\ flushing = FALSE
    /\ issued = <<>> /\ expired = {} /\ lapsed = {} /\ inactive = {}
    /\ boot = [user |-> NoUser, faults |-> 0, signIns |-> 0]
    /\ left = FALSE /\ astray = FALSE /\ clash = FALSE /\ torn = FALSE
    /\ calls = 0 /\ signIns = 0 /\ faults = 0

-----------------------------------------------------------------------------
(* Where the tasks begin and end.                                          *)

Set(t, task) == tasks' = [tasks EXCEPT ![t] = task]

\* The Ui's task, or a rival of it while it is busy or its LoginScreen is.
Free(t) == tasks[t] = Idle /\ (t = Ui <=> tasks[Ui] = Idle /\ ~auth.entering)

MayLogIn_Anytime == auth.status # "unknown"

\* LoginScreen is up.
MayLogIn ==
    \/ auth.status = "unauthenticated" \/ auth.entering
    \/ astray /\ auth.status # "unknown"

\* AuthNotifier.login(): the button is off while it is under way, but Enter in the
\* password field is not.
Login(t, u) ==
    /\ Free(t)
    /\ MayLogIn
    /\ signIns < MaxSignIns
    /\ signIns' = signIns + 1
    /\ Set(t, Asking([Idle EXCEPT !.job = "login", !.user = u], 0))
    /\ left' = FALSE
    /\ UNCHANGED <<store, bearer, auth, flushing, boot, torn, backend,
                   calls, faults>>

\* A screen with a button for it is up: CheckoutScreen or SettingsScreen.
MayLogOut ==
    \/ auth.status = "authenticated" /\ ~auth.entering
    \/ astray /\ auth.status # "unknown"

\* AuthNotifier.logout(): its button is never off.
Logout(t) ==
    /\ Free(t)
    /\ MayLogOut
    /\ Set(t, Clearing([Idle EXCEPT !.job = "logout"]))
    /\ UNCHANGED <<store, bearer, auth, flushing, boot, left, torn, backend, counters>>

\* LoginScreen has loaded the catalog and makes way.
Enter ==
    /\ auth.entering
    /\ auth' = [auth EXCEPT !.entering = FALSE]
    /\ UNCHANGED <<store, bearer, tasks, flushing, boot, left, torn, backend, counters>>

\* A screen or the background flush calls the API.
StartCall(c) ==
    /\ tasks[c] = Idle
    /\ flushing
    /\ calls < MaxCalls
    /\ calls' = calls + 1
    /\ Set(c, Asking([Idle EXCEPT !.job = "call"], bearer))
    /\ UNCHANGED <<store, bearer, auth, flushing, boot, left, torn, backend,
                   signIns, faults>>

\* AuthState after restoreSession(), login() and logout().
SignIn(task) ==
    /\ auth' = [status |-> "authenticated", user |-> task.held.user,
                entering |-> task.job = "login" \/ auth.entering]
    /\ flushing' = TRUE

SignOut_KeepsUser ==
    /\ auth' = [auth EXCEPT !.status = "unauthenticated"]
    /\ UNCHANGED flushing

SignOut ==
    /\ auth' = [auth EXCEPT !.status = "unauthenticated", !.user = NoUser]
    /\ UNCHANGED flushing

\* A task ends without a session: the Ui shows the login screen.
GiveUp(t) ==
    /\ Set(t, Idle)
    /\ IF t \in UiTasks THEN SignOut ELSE UNCHANGED <<auth, flushing>>

-----------------------------------------------------------------------------
(* The store.                                                              *)

\* refreshSession() with the refresh token that was read, if any.
Refreshing(task) == IF task.held.refresh = 0 THEN Clearing(task) ELSE Asking(task, 0)

IsRead(session) == session.token # 0 /\ session.user # NoUser

\* restoreSession() or refreshAccessToken() after SecureAuthSessionStore.read().  Whether
\* the access token has expired is judged by the clock of the till.
AfterRead(t, task) ==
    IF task.recovering
    THEN /\ Set(t, IF IsRead(task.held) THEN Refreshing(task) ELSE Clearing(task))
         /\ UNCHANGED <<bearer, auth, flushing>>
    ELSE \/ /\ ~IsRead(task.held)
            /\ bearer' = 0
            /\ GiveUp(t)
         \/ /\ IsRead(task.held)
            /\ Set(t, Refreshing(task))
            /\ UNCHANGED <<bearer, auth, flushing>>
         \/ /\ IsRead(task.held)
            /\ bearer' = task.held.token
            /\ Set(t, Asking([task EXCEPT !.job = "me", !.kept = task.held], task.held.token))
            /\ UNCHANGED <<auth, flushing>>

ReadKey(t) ==
    LET key == Head(tasks[t].todo)
        task == [tasks[t] EXCEPT !.todo = Tail(@), !.held[key] = store[key]]
    IN  /\ tasks[t].at = "reading"
        /\ IF task.todo # <<>> THEN Set(t, task) /\ UNCHANGED <<bearer, auth, flushing>>
           ELSE AfterRead(t, task)
        /\ UNCHANGED <<store, boot, left, torn, backend, counters>>

\* After saveSession() or the write of login(), the ApiClient has the token of the
\* session written.  A recovery sends its request again, once; a restore goes on to
\* refreshCurrentUser(); and a login or a profile is shown.
AfterWrite(t, task) ==
    /\ bearer' = task.held.token
    /\ \/ /\ task.recovering
          /\ Set(t, Asking([task EXCEPT !.recovering = FALSE, !.retried = TRUE], bearer'))
          /\ UNCHANGED <<auth, flushing>>
       \/ /\ ~task.recovering /\ task.job = "restore"
          /\ Set(t, Asking([task EXCEPT !.job = "me", !.kept = task.held], bearer'))
          /\ UNCHANGED <<auth, flushing>>
       \/ /\ ~task.recovering /\ task.job \in {"login", "me"}
          /\ Set(t, Idle)
          /\ SignIn(task)

WriteKey(t) ==
    LET key == Head(tasks[t].todo)
        task == [tasks[t] EXCEPT !.todo = Tail(@)]
    IN  /\ tasks[t].at = "writing"
        /\ store' = [store EXCEPT ![key] = task.held[key]]
        /\ IF task.todo # <<>> THEN Set(t, task) /\ UNCHANGED <<bearer, auth, flushing>>
           ELSE AfterWrite(t, task)
        /\ UNCHANGED <<boot, left, torn, backend, counters>>

AfterClear_KeepsBearer(t, task) ==
    /\ UNCHANGED bearer
    /\ GiveUp(t)
    /\ left' = (left \/ task.job = "logout")

\* AuthService.logout(): for a recovery, the request has failed with its first answer.
AfterClear(t, task) ==
    /\ bearer' = 0
    /\ GiveUp(t)
    /\ left' = (left \/ task.job = "logout")

ClearKey(t) ==
    LET key == Head(tasks[t].todo)
        task == [tasks[t] EXCEPT !.todo = Tail(@)]
    IN  /\ tasks[t].at = "clearing"
        /\ store' = [store EXCEPT ![key] = NoSession[key]]
        /\ IF task.todo # <<>> THEN Set(t, task) /\ UNCHANGED <<bearer, auth, flushing, left>>
           ELSE AfterClear(t, task)
        /\ UNCHANGED <<boot, torn, backend, counters>>

-----------------------------------------------------------------------------
(* The requests.                                                           *)

\* Which route a task asks.
Route(task) == IF task.recovering \/ task.job = "restore" THEN "refresh" ELSE task.job

\* JwtStrategy, for every route but login and refresh.
PassesGuard(token) == token # 0 /\ token \notin expired

\* The answer to a task: "ok" or "unauthorized", with what the till keeps of it.
Answered(task, answer, session) ==
    [task EXCEPT !.at = "answered", !.answer = answer, !.held = session, !.bearer = 0]

\* createAuthResponse()
Issue(t, u) ==
    LET pair == Len(issued) + 1
    IN  /\ issued' = Append(issued, u)
        /\ Set(t, Answered(tasks[t], "ok", [token |-> pair, refresh |-> pair, user |-> u]))

Refuse(t) ==
    /\ Set(t, Answered(tasks[t], "unauthorized", NoSession))
    /\ UNCHANGED issued

\* AuthService.login() of the backend, with a password that is right or wrong.
ServeLogin(t) ==
    \/ tasks[t].user \notin inactive /\ Issue(t, tasks[t].user)
    \/ Refuse(t)

\* AuthService.refresh()
ServeRefresh(t) ==
    LET token == tasks[t].held.refresh
    IN  IF token \notin lapsed /\ issued[token] \notin inactive THEN Issue(t, issued[token])
        ELSE Refuse(t)

\* AuthService.getProfile(): refreshCurrentUser() puts its user into the session it has.
ServeMe(t) ==
    LET token == tasks[t].bearer
    IN  IF PassesGuard(token) /\ issued[token] \notin inactive
        THEN /\ Set(t, Answered(tasks[t], "ok", [tasks[t].kept EXCEPT !.user = issued[token]]))
             /\ UNCHANGED issued
        ELSE Refuse(t)

\* Any other route asks the guard only; its answer ends the request, unless it is refused.
ServeCall(t) ==
    IF PassesGuard(tasks[t].bearer) THEN Set(t, Idle) /\ UNCHANGED issued ELSE Refuse(t)

Serve(t) ==
    /\ tasks[t].at = "asking"
    /\ \/ Route(tasks[t]) = "login" /\ ServeLogin(t)
       \/ Route(tasks[t]) = "refresh" /\ ServeRefresh(t)
       \/ Route(tasks[t]) = "me" /\ ServeMe(t)
       \/ Route(tasks[t]) = "call" /\ ServeCall(t)
    /\ UNCHANGED <<store, bearer, auth, flushing, boot, left, torn,
                   expired, lapsed, inactive, counters>>

\* The request or its answer is lost: an exception at the till.
Lose(t) ==
    /\ tasks[t].at = "asking"
    /\ faults < MaxFaults
    /\ faults' = faults + 1
    /\ Set(t, IF Route(tasks[t]) = "call" THEN Idle ELSE Answered(tasks[t], "lost", NoSession))
    /\ UNCHANGED <<store, bearer, auth, flushing, boot, left, torn, backend,
                   calls, signIns>>

MayRecover_Never(task) == FALSE

\* _send(): a request that is refused is recovered and sent again once.
MayRecover(task) == task.answer = "unauthorized" /\ ~task.retried

Receive(t) ==
    LET task == [tasks[t] EXCEPT !.answer = "none"]
        ok == tasks[t].answer = "ok"
    IN  /\ tasks[t].at = "answered"
        /\ \/ /\ Route(task) = "refresh"
              /\ Set(t, IF ok THEN Writing(task, task.held) ELSE Clearing(task))
              /\ UNCHANGED <<auth, flushing>>
           \/ /\ Route(task) \in {"login", "me"} /\ ok
              /\ Set(t, Writing(task, task.held))
              /\ UNCHANGED <<auth, flushing>>
           \/ /\ Route(task) \in {"me", "call"} /\ MayRecover(tasks[t])
              /\ Set(t, Reading([task EXCEPT !.recovering = TRUE]))
              /\ UNCHANGED <<auth, flushing>>
           \/ /\ Route(task) \in {"login", "me"} /\ ~ok
              /\ Route(task) = "me" => ~MayRecover(tasks[t])
              /\ GiveUp(t)
           \/ /\ Route(task) = "call" /\ ~MayRecover(tasks[t])
              /\ Set(t, Idle)
              /\ UNCHANGED <<auth, flushing>>
        /\ UNCHANGED <<store, bearer, boot, left, torn, backend, counters>>

-----------------------------------------------------------------------------
(* Time, and faults.                                                       *)

\* A request is sent again with the pair that its recovery was given, and no other.
Awaits(task, pair) ==
    \/ task.recovering /\ task.at \in {"answered", "writing"} /\ task.held.token = pair
    \/ task.retried /\ task.bearer = pair

\* An access token expires: counted as a fault if a request is about to be sent again
\* with it (its life is JWT_EXPIRATION, a number of milliseconds in .env.example).
Expire(pair) ==
    /\ pair \notin expired
    /\ Cardinality(expired) < MaxExpiries
    /\ \/ (\A t \in Tasks : ~Awaits(tasks[t], pair)) /\ UNCHANGED faults
       \/ /\ \E t \in Tasks : Awaits(tasks[t], pair)
          /\ faults < MaxFaults /\ faults' = faults + 1
    /\ expired' = expired \cup {pair}
    /\ UNCHANGED <<till, issued, lapsed, inactive, calls, signIns>>

\* So does its refresh token, later.
Lapse(pair) ==
    /\ pair \in expired \ lapsed
    /\ faults < MaxFaults
    /\ faults' = faults + 1
    /\ lapsed' = lapsed \cup {pair}
    /\ UNCHANGED <<till, issued, expired, inactive, calls, signIns>>

\* Someone clears is_active in the database.
Deactivate(u) ==
    /\ u \notin inactive
    /\ faults < MaxFaults
    /\ faults' = faults + 1
    /\ inactive' = inactive \cup {u}
    /\ UNCHANGED <<till, issued, expired, lapsed, calls, signIns>>

\* The app is killed, or closed, and started again.
Kill ==
    /\ faults < MaxFaults
    /\ faults' = faults + 1
    /\ bearer' = 0
    /\ auth' = [status |-> "unknown", user |-> NoUser, entering |-> FALSE]
    /\ tasks' = Boot
    /\ flushing' = FALSE
    /\ left' = FALSE
    /\ boot' = [user |-> IF IsRead(store) /\ store.refresh # 0 THEN store.user ELSE NoUser,
                faults |-> faults', signIns |-> signIns]
    /\ torn' = (torn \/ \E t \in UiTasks : /\ tasks[t].job = "login" /\ tasks[t].at = "writing"
                                          /\ tasks[t].todo # Keys)
    /\ UNCHANGED <<store, backend, calls, signIns>>

Run(t) == ReadKey(t) \/ WriteKey(t) \/ ClearKey(t) \/ Receive(t)

Step ==
    \/ \E t \in Tasks : Run(t) \/ Serve(t) \/ Lose(t)
    \/ \E t \in UiTasks : Logout(t) \/ \E u \in Users : Login(t, u)
    \/ \E u \in Users : Deactivate(u)
    \/ \E c \in Calls : StartCall(c)
    \/ \E pair \in 1 .. Len(issued) : Expire(pair) \/ Lapse(pair)
    \/ Enter
    \/ Kill

\* A sign in or out that began before another one was over.
Overlap == \E r \in Rivals : tasks[r] # Idle

\* A recovery for a request, while the Ui restores, signs in or signs out.
Clashing == Overlap \/ (tasks[Ui] # Idle /\ \E c \in Calls : tasks[c].recovering)

Next ==
    /\ Step
    /\ astray' = (auth'.status # "unknown" /\ (astray \/ Overlap'))
    /\ clash' = (clash \/ Clashing')

Spec == Init /\ [][Next]_sessionVars

-----------------------------------------------------------------------------
(* Properties.                                                             *)

Pair == 0 .. Len(issued)

Session == [token : Pair, refresh : Pair, user : Users \cup {NoUser}]

\* The keys that are still to be accessed.
Todos == {<<>>, <<"user">>, <<"refresh", "user">>, Keys}

Task == [job : {"none", "restore", "me", "login", "logout", "call"},
         at : {"idle", "reading", "asking", "answered", "writing", "clearing"},
         todo : Todos,
         recovering : BOOLEAN, retried : BOOLEAN,
         held : Session, kept : Session, bearer : Pair,
         answer : {"none", "ok", "unauthorized", "lost"},
         user : Users \cup {NoUser}]

\* The store, the tasks and the backend have their types, and a task is between two
\* keys of the store exactly when it reads, writes or clears it.
SessionTypeOK ==
    /\ store \in Session
    /\ bearer \in Pair
    /\ auth \in [status : {"unknown", "unauthenticated", "authenticated"},
                 user : Users \cup {NoUser}, entering : BOOLEAN]
    /\ auth.status = "authenticated" <=> auth.user # NoUser
    /\ tasks \in [Tasks -> Task]
    /\ \A t \in Tasks : tasks[t].todo # <<>>
                            <=> tasks[t].at \in {"reading", "writing", "clearing"}
    /\ issued \in Seq(Users)
    /\ lapsed \subseteq expired /\ expired \subseteq 1 .. Len(issued)
    /\ inactive \subseteq Users
    /\ {flushing, left, astray, clash, torn} \subseteq BOOLEAN
    /\ boot \in [user : Users \cup {NoUser}, faults : 0 .. MaxFaults,
                signIns : 0 .. MaxSignIns]
    /\ calls \in 0 .. MaxCalls /\ signIns \in 0 .. MaxSignIns /\ faults \in 0 .. MaxFaults

\* Whom the parts of a session belong to.
Owners(session) ==
    {issued[n] : n \in {session.token, session.refresh} \ {0}} \cup ({session.user} \ {NoUser})

\* Through refreshes of several requests at once, restarts, lost answers and changes of
\* user, the three keys of the store are of one user, and the screen, the bearer token
\* and the store of a user who is signed in are of the same one: unless a recovery or
\* another signing in or out overlapped with signing in or out (what the one writes goes
\* over what the other has written), or a kill left half of a login in the store
\* (AuthService, SecureAuthSessionStore.write).
OneUserAtATime ==
    (~clash /\ ~torn) =>
        /\ tasks[Ui].at # "writing" => Cardinality(Owners(store)) <= 1
        /\ auth.status = "authenticated" =>
              Owners(store) \cup {issued[n] : n \in {bearer} \ {0}} \subseteq {auth.user}

\* Once logout() has returned, no token and no user are left at the till, and no request
\* of before brings them back, until someone signs in: unless a recovery or another
\* signing in or out was under way (README.md: "`Logout` clears the session and returns to login").
LogoutIsFinal ==
    (left /\ ~clash) => store = NoSession /\ bearer = 0

\* The till does not sign a user out by itself.  When nothing has been lost, killed,
\* expired for good or deactivated since the start, no request sent again has met an
\* expired token, and no recovery or rival has clashed, a stored session is restored
\* (frontend/README.md: "Session restore runs automatically on app startup"), however
\* old its access token is, and while a user is signed in the store has a session and
\* the ApiClient a token, however many requests meet an expired token at once.
SignedOutForAReason ==
    (faults = boot.faults /\ lapsed = {} /\ inactive = {} /\ ~clash /\ ~torn) =>
        /\ auth.status = "unauthenticated" /\ signIns = boot.signIns /\ ~left =>
              boot.user = NoUser
        /\ /\ auth.status = "authenticated" /\ tasks[Ui] = Idle
           /\ boot.user # NoUser \/ signIns > boot.signIns
           => IsRead(store) /\ store.refresh # 0 /\ bearer # 0
=============================================================================
