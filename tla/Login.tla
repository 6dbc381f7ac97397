------------------------------- MODULE Login -------------------------------
(***************************************************************************)
(* Logging an account in, on the one worker that runs the login.           *)
(*                                                                         *)
(* A user login is a goroutine inside go-tdlib's Authorize loop: it reacts *)
(* to the state TDLib is in, and in the waiting states blocks for a code   *)
(* or a password that an HTTP request puts into a one-slot channel.  The   *)
(* request learns the verdict through a channel it armed before.  A bot    *)
(* login needs no input; its request waits 45 seconds for the goroutine.   *)
(* Deletions abort logins.  Every section under the session's mutex, every *)
(* channel operation, registry statement and TDLib call is its own step.   *)
(*                                                                         *)
(* Source: internal/session/manager.go, internal/session/authorizer.go,    *)
(* internal/store/store.go.  TDLib and go-tdlib are external.              *)
(***************************************************************************)
EXTENDS Integers, FiniteSets

CONSTANTS
    Users,      \* session ids a CreateUser request may get
    Bots,       \* session ids a CreateBot request may get
    PhoneOf,    \* PhoneOf[u]: the phone number u logs in with
    Callers,    \* SubmitCode / SubmitPassword requests, each made at most once
    Deleters,   \* DeleteSession requests, each made at most once
    None,       \* an empty channel, no caller
    Budgets     \* how many creates, other requests and faults there may be: the
                \* alternatives an instance starts from

Kinds    == {"user", "bot", "request", "fault"}
Sessions == Users \cup Bots

ASSUME LoginAssumption ==
    /\ Users \cap Bots = {}
    /\ None \notin Callers
    /\ Budgets \subseteq [Kinds -> Nat]

VARIABLES
    \* the registry and the data volume
    row,       \* row[s]: the status column, or absent / deleted
    dir,       \* the sessions whose database directory exists
    \* TDLib
    td,        \* td[s]: the authorization state of the instance of s
    sends,     \* sends[s]: the login codes Telegram has sent for s
    \* the live session
    held,      \* the sessions in the live map
    status,    \* status[s]: liveSession.status
    cl,        \* cl[s]: a client is stored
    logging,   \* logging[s]: loggingIn
    attempt,   \* attempt[s]: the request whose outcome channel is armed
    slot,      \* slot[s][f]: the request whose value waits in codeCh / passwordCh
    canceled,  \* canceled[s]: the cancel channel is closed
    done,      \* done[s]: loginDone is closed (user), or the bot's result channel
    \* the login goroutine
    go,        \* go[s]: where it stands
    phoneSent, \* phoneSent[s]
    checking,  \* checking[s]: the request whose value TDLib is checking
    \* requests
    req,       \* req[s]: the CreateUser or CreateBot request
    call,      \* call[c]: a submit
    told,      \* told[c]: the verdict in the channel c armed, and of whose value it is
    del,       \* del[d]: a deletion
    \* the environment and history
    asked,     \* asked[s]: the resends operators asked for
    ahead,     \* ahead[c]: whose values were still to be checked when c armed
    abandoned, \* logins whose CreateBot request gave up waiting
    unsaved,   \* logins whose last status write failed
    budget     \* budget[k]: what the environment may still do

vars == <<row, dir, td, sends, held, status, cl, logging, attempt, slot, canceled,
          done, go, phoneSent, checking, req, call, told, del, asked, ahead, abandoned,
          unsaved, budget>>
registry  == <<row, dir>>
tdlib     == <<td, sends>>
memory    == <<held, status, cl, logging>>
channels  == <<attempt, slot, canceled, done>>
goroutine == <<go, phoneSent, checking>>
submits   == <<call, told, ahead>>
history   == <<asked, abandoned, unsaved>>

Fields   == {"code", "password"}
Want     == [f \in Fields |-> IF f = "code" THEN "awaiting_code" ELSE "awaiting_password"]
Waiting  == {"connecting", "awaiting_code", "awaiting_password"}
Statuses == Waiting \cup {"authorized", "error"}
Rows     == Statuses \cup {"absent", "expired", "deleted"}
TdStates == {"none", "params", "phone", "code", "password", "other", "ready", "closing"}
GoSteps  == {"none", "handle", "phoning", "saving", "wait", "checking", "closing",
             "failing", "built", "stored", "reading", "finished"}
ReqSteps == {"none", "checked", "await", "failing", "erring", "saving", "returned"}
NoCall   == [s |-> None, f |-> "code", at |-> "none"]
CallSet  == [s : Sessions, f : Fields, at : {"arm", "push", "verdict", "ended"}]
NoVerdict == [is |-> "none", of |-> None]
Lost      == [is |-> "lost", of |-> None]
Verdicts  == [is : {"none", "accepted", "rejected", "lost"}, of : Callers \cup {None}]
NoDel    == [s |-> None, at |-> "none", awaits |-> FALSE]
DelSet   == [s : Sessions, at : {"await", "close", "drop", "row", "dir", "ended"},
             awaits : BOOLEAN]

TypeOK ==
    /\ row \in [Sessions -> Rows]
    /\ dir \subseteq Sessions
    /\ td \in [Sessions -> TdStates]
    /\ sends \in [Sessions -> Nat]
    /\ held \subseteq Sessions
    /\ status \in [Sessions -> Statuses]
    /\ cl \in [Sessions -> BOOLEAN]
    /\ logging \in [Sessions -> BOOLEAN]
    /\ attempt \in [Sessions -> Callers \cup {None}]
    /\ slot \in [Sessions -> [Fields -> Callers \cup {None}]]
    /\ canceled \in [Sessions -> BOOLEAN]
    /\ done \in [Sessions -> {"open", "ok", "err"}]
    /\ go \in [Sessions -> GoSteps]
    /\ phoneSent \in [Sessions -> BOOLEAN]
    /\ checking \in [Sessions -> Callers \cup {None}]
    /\ req \in [Sessions -> ReqSteps]
    /\ call \in [Callers -> CallSet \cup {NoCall}]
    /\ told \in [Callers -> Verdicts]
    /\ del \in [Deleters -> DelSet \cup {NoDel}]
    /\ asked \in [Sessions -> Nat]
    /\ ahead \in [Callers -> SUBSET Callers]
    /\ abandoned \subseteq Sessions
    /\ unsaved \subseteq Sessions
    /\ budget \in [Kinds -> Nat]

-----------------------------------------------------------------------------
(* Helpers.                                                                *)

Spend(k) ==
    /\ budget[k] > 0
    /\ budget' = [budget EXCEPT ![k] = @ - 1]

Set(f, s, v) == [f EXCEPT ![s] = v]

\* UPDATE session SET status WHERE id: a no-op once the row is gone.
UpdateSessionStatus(s, st) == [row EXCEPT ![s] = IF @ = "deleted" THEN @ ELSE st]

PendingUserLogin(s) ==
    \E t \in Users : PhoneOf[t] = PhoneOf[s] /\ row[t] \in Waiting

\* closeClient, and what go-tdlib does with a client whose handler failed: the
\* instance is told to close, and is gone some time later (TdClosed).
CloseTd(s) == td' = [td EXCEPT ![s] = IF @ = "none" THEN @ ELSE "closing"]

\* The lock section every login goes through when its TDLib client is known.
beginLogin(s) ==
    /\ cl' = Set(cl, s, TRUE)
    /\ logging' = Set(logging, s, TRUE)

\* The INSERT, put(newLiveSession(...)) and the goroutine that runs client.NewClient.
\* SetSessionDBDir and SetSessionOwner, whose errors the code discards, are steps of
\* Ownership: nothing a login does reads db_dir or worker_id.
StartLogin(s) ==
    /\ row' = Set(row, s, "connecting")
    /\ held' = held \cup {s}
    /\ td' = Set(td, s, "params")
    /\ go' = Set(go, s, "handle")

-----------------------------------------------------------------------------
(* Creating a login.                                                       *)

\* CreateUser, first statement.  Nothing keeps another request of the same phone from
\* passing too before this one has inserted its row.
CheckPending(s) ==
    /\ s \in Users /\ req[s] = "none"
    /\ Spend("user")
    /\ \/ PendingUserLogin(s) /\ UNCHANGED req          \* ErrLoginPending
       \/ ~PendingUserLogin(s) /\ req' = Set(req, s, "checked")
    /\ UNCHANGED <<registry, tdlib, memory, channels, goroutine, submits, del, history>>

\* The rest of CreateUser up to the goroutine.  The request then only polls the
\* status (waitLeave) and returns.
CreateUser(s) ==
    /\ s \in Users /\ req[s] = "checked"
    /\ req' = Set(req, s, "returned")
    /\ StartLogin(s)
    /\ UNCHANGED <<dir, sends, status, cl, logging, channels, phoneSent, checking,
                   submits, del, history, budget>>

\* The app, a secret, the proxy or the INSERT fails: no session.
CreateUserFails(s) ==
    /\ s \in Users /\ req[s] = "checked"
    /\ Spend("fault")
    /\ req' = Set(req, s, "none")
    /\ UNCHANGED <<registry, tdlib, memory, channels, goroutine, submits, del, history>>

CreateBot(s) ==
    /\ s \in Bots /\ req[s] = "none"
    /\ Spend("bot")
    /\ req' = Set(req, s, "await")
    /\ StartLogin(s)
    /\ UNCHANGED <<dir, sends, status, cl, logging, channels, phoneSent, checking,
                   submits, del, history>>

\* A bot's request: the goroutine's result, or 45 seconds, whichever is first.
BotResult(s) ==
    /\ req[s] = "await" /\ done[s] # "open"
    /\ req' = Set(req, s, IF done[s] = "ok" THEN "returned" ELSE "failing")
    /\ UNCHANGED <<registry, tdlib, memory, channels, goroutine, submits, del, history, budget>>

BotTimeout(s) ==
    /\ req[s] = "await"
    /\ req' = Set(req, s, "failing")
    /\ abandoned' = abandoned \cup {s}
    /\ UNCHANGED <<registry, tdlib, memory, channels, goroutine, submits, del,
                   asked, unsaved, budget>>

\* failLogin on the request's side: the client is forgotten and the status read in
\* one lock section, the status changed in the next, the registry written last.
BotForgets(s) ==
    /\ req[s] = "failing"
    /\ cl' = Set(cl, s, FALSE)
    /\ logging' = Set(logging, s, FALSE)
    /\ req' = Set(req, s, IF status[s] = "authorized" THEN "returned" ELSE "erring")
    /\ UNCHANGED <<registry, tdlib, held, status, channels, goroutine, submits, del,
                   history, budget>>

BotErrs(s) ==
    /\ req[s] = "erring"
    /\ status' = Set(status, s, "error")
    /\ req' = Set(req, s, IF status[s] = "error" THEN "returned" ELSE "saving")
    /\ UNCHANGED <<registry, tdlib, held, cl, logging, channels, goroutine, submits, del,
                   history, budget>>

BotSaves(s) ==
    /\ req[s] = "saving"
    /\ req' = Set(req, s, "returned")
    /\ \/ /\ row' = UpdateSessionStatus(s, "error")
          /\ unsaved' = unsaved \ {s}
          /\ UNCHANGED budget
       \/ /\ Spend("fault")
          /\ unsaved' = unsaved \cup {s}
          /\ UNCHANGED row
    /\ UNCHANGED <<dir, tdlib, memory, channels, goroutine, submits, del, asked, abandoned>>

-----------------------------------------------------------------------------
(* The login goroutine: go-tdlib's Authorize loop and authHandler.Handle.   *)

\* A handler error: go-tdlib closes the client (external) and NewClient returns
\* the error once the instance is gone.
Fatal(s) ==
    /\ CloseTd(s)
    /\ go' = Set(go, s, "closing")

HandleParams(s) ==
    /\ go[s] = "handle" /\ td[s] = "params"
    /\ td' = Set(td, s, "phone")
    /\ dir' = dir \cup {s}
    /\ UNCHANGED <<row, sends, memory, channels, goroutine, req, submits, del, history, budget>>

HandleToken(s) ==
    /\ s \in Bots /\ go[s] = "handle" /\ td[s] = "phone"
    /\ td' = Set(td, s, "ready")
    /\ UNCHANGED <<registry, sends, memory, channels, goroutine, req, submits, del,
                   history, budget>>

\* Variant of HandlePhone: back at the phone step, ask for another code.
HandlePhoneAgain(s) ==
    /\ s \in Users /\ go[s] = "handle" /\ td[s] = "phone"
    /\ beginLogin(s)
    /\ phoneSent' = Set(phoneSent, s, TRUE)
    /\ go' = Set(go, s, "phoning")
    /\ UNCHANGED <<registry, tdlib, held, status, channels, checking, req, submits, del,
                   history, budget>>

HandlePhone(s) ==
    /\ s \in Users /\ go[s] = "handle" /\ td[s] = "phone"
    /\ \/ /\ ~phoneSent[s]
          /\ beginLogin(s)
          /\ phoneSent' = Set(phoneSent, s, TRUE)
          /\ go' = Set(go, s, "phoning")
          /\ UNCHANGED td
       \/ /\ phoneSent[s]                     \* errLoginRestart
          /\ Fatal(s)
          /\ UNCHANGED <<cl, logging, phoneSent>>
    /\ UNCHANGED <<registry, sends, held, status, channels, checking, req, submits, del,
                   history, budget>>

\* setAuthenticationPhoneNumber answers: Telegram has sent a code, or wants
\* something this server does not support (an email address, a registration).
PhoneAnswered(s) ==
    /\ go[s] = "phoning" /\ td[s] = "phone"
    /\ \/ td' = Set(td, s, "code") /\ sends' = [sends EXCEPT ![s] = @ + 1]
       \/ td' = Set(td, s, "other") /\ UNCHANGED sends
    /\ go' = Set(go, s, "handle")
    /\ UNCHANGED <<registry, memory, channels, phoneSent, checking, req, submits, del,
                   history, budget>>

\* A TDLib request of the handler fails, or the state is not supported.
HandleFails(s) ==
    /\ \/ go[s] = "handle" /\ td[s] \in {"params", "other"}
       \/ go[s] = "handle" /\ td[s] = "phone" /\ s \in Bots
       \/ go[s] = "phoning"
    /\ dir' \in {dir, IF td[s] = "params" THEN dir \cup {s} ELSE dir}
    /\ Fatal(s)
    /\ UNCHANGED <<row, sends, memory, channels, phoneSent, checking, req, submits, del,
                   history, budget>>

\* await, up to the select: the status is mirrored to the registry only when it
\* changes in memory.
HandleAwait(s) ==
    /\ go[s] = "handle" /\ td[s] \in Fields
    /\ beginLogin(s)
    /\ status' = Set(status, s, Want[td[s]])
    /\ go' = Set(go, s, IF status[s] = Want[td[s]] THEN "wait" ELSE "saving")
    /\ UNCHANGED <<registry, tdlib, held, channels, phoneSent, checking, req, submits, del,
                   history, budget>>

\* Where the goroutine goes on after setStatus has mirrored st.
AfterSave(s, st) ==
    IF st \in {"awaiting_code", "awaiting_password"} THEN "wait"
    ELSE IF st = "authorized" /\ s \in Users THEN "reading" ELSE "finished"
Saving(s) == IF s \in Bots THEN "authorized" ELSE status[s]

\* loginDone is closed as the goroutine returns; a bot's result is sent.
EndsWith(s, step, result) ==
    /\ go' = Set(go, s, step)
    /\ done' = IF step = "finished" THEN Set(done, s, result) ELSE done

\* Variant of SaveStatus: a waiting login is known to this process only.
SaveFinalStatus(s) ==
    /\ go[s] = "saving"
    /\ row' = IF Saving(s) \in Waiting THEN row ELSE UpdateSessionStatus(s, Saving(s))
    /\ unsaved' = unsaved \ {s}
    /\ EndsWith(s, AfterSave(s, Saving(s)), IF Saving(s) = "error" THEN "err" ELSE "ok")
    /\ UNCHANGED <<dir, tdlib, memory, attempt, slot, canceled, phoneSent, checking, req,
                   submits, del, asked, abandoned, budget>>

\* persist: UpdateSessionStatus, whose failure is only logged.
SaveStatus(s) ==
    /\ go[s] = "saving"
    /\ \/ /\ row' = UpdateSessionStatus(s, Saving(s))
          /\ unsaved' = unsaved \ {s}
          /\ UNCHANGED budget
       \/ /\ Spend("fault")
          /\ unsaved' = unsaved \cup {s}
          /\ UNCHANGED row
    /\ EndsWith(s, AfterSave(s, Saving(s)), IF Saving(s) = "error" THEN "err" ELSE "ok")
    /\ UNCHANGED <<dir, tdlib, memory, attempt, slot, canceled, phoneSent, checking, req,
                   submits, del, asked, abandoned>>

\* The channel the goroutine waits on is the one of the state it published.
FieldOf(s) == IF status[s] = "awaiting_code" THEN "code" ELSE "password"

TakeValue(s) ==
    /\ go[s] = "wait" /\ slot[s][FieldOf(s)] # None
    /\ checking' = Set(checking, s, slot[s][FieldOf(s)])
    /\ slot' = [slot EXCEPT ![s][FieldOf(s)] = None]
    /\ go' = Set(go, s, "checking")
    /\ UNCHANGED <<registry, tdlib, memory, attempt, canceled, done, phoneSent, req, submits,
                   del, history, budget>>

\* Variant of TakeCancel: only a value wakes the goroutine.
CancelIgnored(s) == FALSE /\ UNCHANGED vars

\* errLoginCanceled.
TakeCancel(s) ==
    /\ go[s] = "wait" /\ canceled[s]
    /\ Fatal(s)
    /\ UNCHANGED <<registry, sends, memory, channels, phoneSent, checking, req, submits, del,
                   history, budget>>

\* Variant of reportAttempt: only a rejection is reported.
reportRejection(s, verdict) ==
    /\ attempt' = Set(attempt, s, None)
    /\ told' = IF attempt[s] = None \/ verdict = "accepted" THEN told
               ELSE Set(told, attempt[s], [is |-> verdict, of |-> checking[s]])

\* reportAttempt: the verdict goes to the channel armed last, whoever's value it is of.
reportAttempt(s, verdict) ==
    /\ attempt' = Set(attempt, s, None)
    /\ told' = IF attempt[s] = None THEN told
               ELSE Set(told, attempt[s], [is |-> verdict, of |-> checking[s]])

\* TDLib's answer to checkAuthenticationCode / checkAuthenticationPassword.  A
\* rejected value leaves the state as it is or, with the code expired, drops the
\* login back to the phone step; an instance being closed rejects everything.
CheckAnswered(s) ==
    /\ go[s] = "checking"
    /\ \/ /\ td[s] \in Fields
          /\ td' \in {Set(td, s, x) : x \in {"password", "ready", "other"} \ {td[s]}}
          /\ reportAttempt(s, "accepted")
       \/ /\ td' \in {Set(td, s, x) : x \in {td[s]} \cup (IF td[s] \in Fields THEN {"phone"} ELSE {})}
          /\ reportAttempt(s, "rejected")
    /\ checking' = Set(checking, s, None)
    /\ go' = Set(go, s, "handle")
    /\ UNCHANGED <<registry, sends, memory, slot, canceled, done, phoneSent, call, ahead, req,
                   del, history, budget>>

\* NewClient returns: the account is ready, or the instance is gone.  How Authorize
\* ends when somebody else closed the client is left open.
NewClientReturns(s) ==
    /\ \/ /\ go[s] = "handle" /\ td[s] = "ready"
          /\ go' = Set(go, s, "built")
       \/ /\ go[s] = "handle" /\ td[s] = "none"
          /\ go' \in {Set(go, s, "built"), Set(go, s, "failing")}
       \/ /\ go[s] = "closing" /\ td[s] = "none"
          /\ go' = Set(go, s, "failing")
    /\ UNCHANGED <<registry, tdlib, memory, channels, phoneSent, checking, req, submits, del,
                   history, budget>>

TdClosed(s) ==
    /\ td[s] = "closing"
    /\ td' = Set(td, s, "none")
    /\ UNCHANGED <<registry, sends, memory, channels, goroutine, req, submits, del,
                   history, budget>>

\* failLogin on the goroutine's side; a bot's goroutine only sends the error.
LoginFails(s) ==
    /\ go[s] = "failing"
    /\ IF s \in Bots
       THEN EndsWith(s, "finished", "err") /\ UNCHANGED <<status, cl, logging>>
       ELSE /\ cl' = Set(cl, s, FALSE)
            /\ logging' = Set(logging, s, FALSE)
            /\ status' = [status EXCEPT ![s] = IF @ = "authorized" THEN @ ELSE "error"]
            /\ EndsWith(s, IF status[s] \in {"authorized", "error"} THEN "finished" ELSE "saving",
                        "err")
    /\ UNCHANGED <<registry, tdlib, held, attempt, slot, canceled, phoneSent, checking, req,
                   submits, del, history, budget>>

\* setClient: its own lock section, then setStatus("authorized").
StoreClient(s) ==
    /\ go[s] = "built"
    /\ cl' = Set(cl, s, TRUE)
    /\ logging' = Set(logging, s, FALSE)
    /\ go' = Set(go, s, "stored")
    /\ UNCHANGED <<registry, tdlib, held, status, channels, phoneSent, checking, req,
                   submits, del, history, budget>>

\* Variant of Declare: authorized as soon as TDLib is ready.
DeclareAtReady(s) ==
    /\ \/ go[s] = "stored"
       \/ go[s] = "handle" /\ td[s] = "ready" /\ status[s] # "authorized"
    /\ status' = Set(status, s, "authorized")
    /\ go' = Set(go, s, IF go[s] = "stored" THEN "saving" ELSE "handle")
    /\ UNCHANGED <<registry, tdlib, held, cl, logging, channels, phoneSent, checking, req,
                   submits, del, history, budget>>

Declare(s) ==
    /\ go[s] = "stored"
    /\ status' = Set(status, s, "authorized")
    /\ go' = Set(go, s, "saving")
    /\ UNCHANGED <<registry, tdlib, held, cl, logging, channels, phoneSent, checking, req,
                   submits, del, history, budget>>

\* readAccount has asked for my_id and is_premium; the goroutine returns.
AccountRead(s) ==
    /\ go[s] = "reading"
    /\ EndsWith(s, "finished", "ok")
    /\ UNCHANGED <<registry, tdlib, memory, attempt, slot, canceled, phoneSent, checking, req,
                   submits, del, history, budget>>

-----------------------------------------------------------------------------
(* SubmitCode, SubmitPassword and ResendCode.                              *)

Ended(c) == call' = [call EXCEPT ![c].at = "ended"]

Submit(c, s, f) ==
    /\ call[c] = NoCall
    /\ s \in held /\ status[s] = Want[f]
    /\ Spend("request")
    /\ call' = [call EXCEPT ![c] = [s |-> s, f |-> f, at |-> "arm"]]
    /\ UNCHANGED <<registry, tdlib, memory, channels, goroutine, req, told, ahead, del, history>>

\* The requests on s whose value TDLib has not answered yet, or that are about to
\* send one.
Unchecked(s) ==
    {d \in Callers : \/ call[d].at = "push" /\ call[d].s = s
                     \/ checking[s] = d \/ \E f \in Fields : slot[s][f] = d}

\* armAttempt: whoever had armed before will not hear the verdict any more.
Arm(c) ==
    /\ call[c].at = "arm"
    /\ LET s == call[c].s
       IN  /\ attempt' = Set(attempt, s, c)
           /\ told' = IF attempt[s] = None THEN told ELSE Set(told, attempt[s], Lost)
           /\ ahead' = Set(ahead, c, Unchecked(s))
    /\ call' = [call EXCEPT ![c].at = "push"]
    /\ UNCHANGED <<registry, tdlib, memory, slot, canceled, done, goroutine, req, del,
                   history, budget>>

\* The non-blocking send into the one-slot channel.
Push(c) ==
    /\ call[c].at = "push"
    /\ LET s == call[c].s
           f == call[c].f
       IN  \/ /\ slot[s][f] = None
              /\ slot' = [slot EXCEPT ![s][f] = c]
              /\ call' = [call EXCEPT ![c].at = "verdict"]
           \/ /\ slot[s][f] # None
              /\ Ended(c)
              /\ UNCHANGED slot
    /\ UNCHANGED <<registry, tdlib, memory, attempt, canceled, done, goroutine, req, told, ahead,
                   del, history, budget>>

\* The verdict is read, or loginWait passes.  (An accepted submit then polls the
\* status with waitLeave before it returns.)
SubmitEnds(c) ==
    /\ call[c].at = "verdict"
    /\ Ended(c)
    /\ UNCHANGED <<registry, tdlib, memory, channels, goroutine, req, told, ahead, del, history,
                   budget>>

\* TDLib resends only in the state that waits for the code.
ResendCode(s) ==
    /\ s \in held /\ status[s] = "awaiting_code" /\ cl[s] /\ td[s] = "code"
    /\ Spend("request")
    /\ sends' = [sends EXCEPT ![s] = @ + 1]
    /\ asked' = [asked EXCEPT ![s] = @ + 1]
    /\ UNCHANGED <<registry, td, memory, channels, goroutine, req, submits, del, abandoned, unsaved>>

-----------------------------------------------------------------------------
(* DeleteSession, and a peer's ExpireStaleLogins.                           *)

At(d, step) == del' = [del EXCEPT ![d].at = step]

abortLogin(s) == s \in Users /\ ~canceled[s] /\ done[s] = "open"

DeleteStart(d, s) ==
    /\ del[d] = NoDel /\ row[s] # "absent"
    /\ Spend("request")
    /\ LET aborts == s \in held /\ abortLogin(s)
       IN  /\ canceled' = IF aborts THEN Set(canceled, s, TRUE) ELSE canceled
           /\ del' = [del EXCEPT ![d] =
                 [s |-> s, awaits |-> aborts,
                  at |-> IF aborts THEN "await" ELSE IF s \in held THEN "close" ELSE "row"]]
    /\ UNCHANGED <<registry, tdlib, memory, attempt, slot, done, goroutine, req, submits,
                   history>>

\* Variant of DeleteAwait: the login is aborted and left to itself.
DeleteUnawaited(d) ==
    /\ del[d].at = "await"
    /\ At(d, "close")
    /\ UNCHANGED <<registry, tdlib, memory, channels, goroutine, req, submits, history, budget>>

\* awaitLogin: until the login has unwound, or 10 seconds have passed.
DeleteAwait(d) ==
    /\ del[d].at = "await"
    /\ \/ done[del[d].s] # "open" /\ At(d, "close") /\ UNCHANGED budget
       \/ Spend("fault") /\ del' = [del EXCEPT ![d].at = "close", ![d].awaits = FALSE]
    /\ UNCHANGED <<registry, tdlib, memory, channels, goroutine, req, submits, history>>

DeleteClose(d) ==
    /\ del[d].at = "close"
    /\ IF cl[del[d].s] THEN CloseTd(del[d].s) ELSE UNCHANGED td
    /\ At(d, "drop")
    /\ UNCHANGED <<registry, sends, memory, channels, goroutine, req, submits, history, budget>>

DeleteDrop(d) ==
    /\ del[d].at = "drop"
    /\ held' = held \ {del[d].s}
    /\ At(d, "row")
    /\ UNCHANGED <<registry, tdlib, status, cl, logging, channels, goroutine, req, submits,
                   history, budget>>

\* The row goes; with a registry error, or the row gone already, that is all.
DeleteRow(d) ==
    /\ del[d].at = "row"
    /\ \/ /\ row[del[d].s] # "deleted"
          /\ row' = Set(row, del[d].s, "deleted")
          /\ At(d, "dir")
          /\ UNCHANGED budget
       \/ /\ row[del[d].s] = "deleted"
          /\ At(d, "ended")
          /\ UNCHANGED <<row, budget>>
       \/ /\ Spend("fault")
          /\ At(d, "ended")
          /\ UNCHANGED row
    /\ UNCHANGED <<dir, tdlib, memory, channels, goroutine, req, submits, history>>

DeleteDir(d) ==
    /\ del[d].at = "dir"
    /\ dir' = dir \ {del[d].s}
    /\ At(d, "ended")
    /\ UNCHANGED <<row, tdlib, memory, channels, goroutine, req, submits, history, budget>>

\* This worker's heartbeat lapsed for a moment and a peer wrote its logins off.
ExpireStaleLogin(s) ==
    /\ row[s] \in Waiting
    /\ Spend("fault")
    /\ row' = Set(row, s, "expired")
    /\ UNCHANGED <<dir, tdlib, memory, channels, goroutine, req, submits, del, history>>

-----------------------------------------------------------------------------
Init ==
    /\ row = [s \in Sessions |-> "absent"]
    /\ dir = {}
    /\ td = [s \in Sessions |-> "none"]
    /\ sends = [s \in Sessions |-> 0]
    /\ held = {}
    /\ status = [s \in Sessions |-> "connecting"]
    /\ cl = [s \in Sessions |-> FALSE]
    /\ logging = [s \in Sessions |-> FALSE]
    /\ attempt = [s \in Sessions |-> None]
    /\ slot = [s \in Sessions |-> [f \in Fields |-> None]]
    /\ canceled = [s \in Sessions |-> FALSE]
    /\ done = [s \in Sessions |-> "open"]
    /\ go = [s \in Sessions |-> "none"]
    /\ phoneSent = [s \in Sessions |-> FALSE]
    /\ checking = [s \in Sessions |-> None]
    /\ req = [s \in Sessions |-> "none"]
    /\ call = [c \in Callers |-> NoCall]
    /\ told = [c \in Callers |-> NoVerdict]
    /\ del = [d \in Deleters |-> NoDel]
    /\ asked = [s \in Sessions |-> 0]
    /\ ahead = [c \in Callers |-> {}]
    /\ abandoned = {}
    /\ unsaved = {}
    /\ budget \in Budgets

Handle(s) == \/ HandleParams(s) \/ HandleToken(s) \/ HandlePhone(s) \/ HandleFails(s)
             \/ HandleAwait(s) \/ TakeValue(s) \/ TakeCancel(s) \/ PhoneAnswered(s)
             \/ CheckAnswered(s)
Finish(s) == \/ NewClientReturns(s) \/ LoginFails(s) \/ StoreClient(s) \/ Declare(s)
             \/ SaveStatus(s) \/ AccountRead(s)
Create(s) == \/ CheckPending(s) \/ CreateUser(s) \/ CreateUserFails(s) \/ CreateBot(s)
BotRequest(s) == \/ BotResult(s) \/ BotTimeout(s) \/ BotForgets(s) \/ BotErrs(s) \/ BotSaves(s)
Deletion(d) == \/ DeleteAwait(d) \/ DeleteClose(d) \/ DeleteDrop(d) \/ DeleteRow(d)
               \/ DeleteDir(d)

Next ==
    \/ \E s \in Sessions : \/ Create(s) \/ BotRequest(s) \/ Handle(s) \/ Finish(s)
                           \/ TdClosed(s) \/ ResendCode(s) \/ ExpireStaleLogin(s)
    \/ \E c \in Callers : \/ \E s \in Sessions, f \in Fields : Submit(c, s, f)
                          \/ Arm(c) \/ Push(c) \/ SubmitEnds(c)
    \/ \E d \in Deleters : Deletion(d) \/ \E s \in Sessions : DeleteStart(d, s)

\* The goroutine runs, TDLib answers it and a close completes; nobody has to
\* submit, delete or retry anything.
Fairness == \A s \in Sessions : WF_vars(Handle(s) \/ Finish(s)) /\ WF_vars(TdClosed(s))

Spec == Init /\ [][Next]_vars /\ Fairness

-----------------------------------------------------------------------------
(* Properties.                                                             *)

\* Every login code Telegram sends was asked for: one by the create, the others by
\* a resend.  A login that TDLib drops back to the phone step (authorizer.go,
\* phoneSent) asks for no second one, however many values were refused before.
EveryCodeAskedFor == \A s \in Sessions : sends[s] <= asked[s] + 1

\* A request that waits for the verdict, whose value is neither in the channel nor
\* being checked, and that no later request disarmed, finds a verdict in its channel:
\* armAttempt comes before the send, so no answer is too early for it.  The verdict is
\* of its own value, or of one that was not answered yet when it armed: a request that
\* overlaps no other learns what Telegram made of its own code or password.
VerdictReachesSubmitter ==
    \A c \in Callers :
        /\ (/\ call[c].at = "verdict"
            /\ slot[call[c].s][call[c].f] # c
            /\ checking[call[c].s] # c) => told[c].is # "none"
        /\ told[c].is \in {"accepted", "rejected"} => told[c].of \in ahead[c] \cup {c}

\* A session that reports authorized has its client stored, so every caller that
\* trusts the status finds one (setClient, and the Ready case of Handle).  The
\* exception is a bot whose request gave up waiting.
AuthorizedHasClient ==
    \A s \in Sessions \ abandoned : status[s] = "authorized" => cl[s] /\ ~logging[s]

\* Between its own writes a user login's row shows the status it has in memory
\* (setStatus), unless the last write failed, a peer expired the row or it is gone.
RowMirrorsStatus ==
    \A s \in Users \ unsaved :
        (go[s] \notin {"none", "saving"} /\ row[s] \notin {"expired", "deleted"})
            => row[s] = status[s]

\* A deletion that aborted the login, and whose wait for it did not run into its 10
\* seconds, removes the directory only when the login has ended and TDLib is gone from
\* it, or was told to go (abortLogin, awaitLogin, closeClient).
AbortedIsGone ==
    \A d \in Deleters :
        (del[d].awaits /\ del[d].at = "dir") => /\ go[del[d].s] = "finished"
                                               /\ td[del[d].s] \in {"none", "closing"}

\* An aborted login always unwinds (await selects on the cancel channel), also when
\* values are submitted and refused meanwhile.
AbortUnwinds == \A s \in Users : canceled[s] ~> done[s] # "open"
=============================================================================
