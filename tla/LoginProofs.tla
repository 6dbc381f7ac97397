---------------------------- MODULE LoginProofs ----------------------------
(***************************************************************************)
(* Proofs about Login: for any number of sessions, phones, submits and     *)
(* deletions, overlapping in any way.                                      *)
(***************************************************************************)
EXTENDS Login, TLAPS

-----------------------------------------------------------------------------
(* Types.                                                                  *)

\* The initial values have their types.
LEMMA TypeStart == Init => TypeOK
  BY LoginAssumption DEF Init, TypeOK, Rows, TdStates, Statuses, Waiting, GoSteps, ReqSteps, Fields,
                         CallSet, DelSet, Verdicts, NoVerdict

\* The budget stays a function to natural numbers.
LEMMA SpendType ==
    ASSUME TypeOK, NEW k \in Kinds, Spend(k)
    PROVE  budget' \in [Kinds -> Nat]
  BY DEF Spend, TypeOK

\* Creating a session, and the request of a bot.
LEMMA CreateType ==
    ASSUME TypeOK, NEW s \in Sessions, Create(s) \/ BotRequest(s)
    PROVE  TypeOK'
<1> USE DEF registry, tdlib, memory, channels, goroutine, submits, history, Set
<1>1. "user" \in Kinds /\ "bot" \in Kinds /\ "fault" \in Kinds /\ "request" \in Kinds
  BY DEF Kinds
<1>2. CASE CheckPending(s)
  <2>1. budget' \in [Kinds -> Nat]
    BY <1>1, <1>2, SpendType DEF CheckPending
  <2>2. QED
    BY <1>2, <2>1 DEF CheckPending, TypeOK, ReqSteps
<1>3. CASE CreateUser(s)
  BY <1>3 DEF CreateUser, StartLogin, TypeOK, ReqSteps, Rows, Statuses, Waiting, TdStates, GoSteps
<1>4. CASE CreateUserFails(s)
  <2>1. budget' \in [Kinds -> Nat]
    BY <1>1, <1>4, SpendType DEF CreateUserFails
  <2>2. QED
    BY <1>4, <2>1 DEF CreateUserFails, TypeOK, ReqSteps
<1>5. CASE CreateBot(s)
  <2>1. budget' \in [Kinds -> Nat]
    BY <1>1, <1>5, SpendType DEF CreateBot
  <2>2. QED
    BY <1>5, <2>1 DEF CreateBot, StartLogin, TypeOK, ReqSteps, Rows, Statuses, Waiting, TdStates, GoSteps
<1>6. CASE BotResult(s)
  BY <1>6 DEF BotResult, TypeOK, ReqSteps
<1>7. CASE BotTimeout(s)
  BY <1>7 DEF BotTimeout, TypeOK, ReqSteps
<1>8. CASE BotForgets(s)
  BY <1>8 DEF BotForgets, TypeOK, ReqSteps
<1>9. CASE BotErrs(s)
  BY <1>9 DEF BotErrs, TypeOK, ReqSteps, Statuses
<1>10. CASE BotSaves(s)
  <2>1. budget' \in [Kinds -> Nat]
    <3>1. budget \in [Kinds -> Nat]
      BY DEF TypeOK
    <3>2. QED
      BY <1>1, <1>10, <3>1, SpendType DEF BotSaves
  <2>2. row' \in [Sessions -> Rows] /\ unsaved' \subseteq Sessions
    BY <1>10 DEF BotSaves, UpdateSessionStatus, TypeOK, Rows, Statuses
  <2>3. QED
    BY <1>10, <2>1, <2>2 DEF BotSaves, TypeOK, ReqSteps
<1>11. QED
  BY <1>2, <1>3, <1>4, <1>5, <1>6, <1>7, <1>8, <1>9, <1>10 DEF Create, BotRequest

\* The goroutine inside Authorize.
LEMMA HandleType ==
    ASSUME TypeOK, NEW s \in Sessions, Handle(s)
    PROVE  TypeOK'
<1> USE DEF registry, tdlib, memory, channels, goroutine, submits, history, Set
<1>1. CASE HandleParams(s) \/ HandleToken(s)
  BY <1>1 DEF HandleParams, HandleToken, TypeOK, TdStates
<1>2. CASE HandlePhone(s)
  BY <1>2 DEF HandlePhone, beginLogin, Fatal, CloseTd, TypeOK, TdStates, GoSteps
<1>3. CASE HandleFails(s)
  <2>1. dir' \subseteq Sessions
    BY <1>3 DEF HandleFails, TypeOK
  <2>2. QED
    BY <1>3, <2>1 DEF HandleFails, Fatal, CloseTd, TypeOK, TdStates, GoSteps
<1>4. CASE HandleAwait(s)
  BY <1>4 DEF HandleAwait, beginLogin, Want, Fields, TypeOK, Statuses, Waiting, GoSteps
<1>5. CASE TakeValue(s)
  <2>1. FieldOf(s) \in Fields
    BY DEF FieldOf, Fields
  <2>2. slot[s] \in [Fields -> Callers \cup {None}]
    BY DEF TypeOK
  <2>3. [slot[s] EXCEPT ![FieldOf(s)] = None] \in [Fields -> Callers \cup {None}]
    BY <2>1, <2>2
  <2>4. slot' \in [Sessions -> [Fields -> Callers \cup {None}]]
    BY <1>5, <2>3 DEF TakeValue, TypeOK
  <2>5. slot[s][FieldOf(s)] \in Callers \cup {None}
    BY <2>1, <2>2
  <2>6. QED
    BY <1>5, <2>4, <2>5 DEF TakeValue, TypeOK, GoSteps
<1>6. CASE TakeCancel(s)
  BY <1>6 DEF TakeCancel, Fatal, CloseTd, TypeOK, TdStates, GoSteps
<1>7. CASE PhoneAnswered(s)
  <2>0. \/ td' = [td EXCEPT ![s] = "code"] /\ sends' = [sends EXCEPT ![s] = @ + 1]
        \/ td' = [td EXCEPT ![s] = "other"] /\ sends' = sends
    BY <1>7, Zenon DEF PhoneAnswered
  <2>1. td' \in [Sessions -> TdStates]
    BY <2>0 DEF TypeOK, TdStates
  <2>2. sends' \in [Sessions -> Nat]
    BY <2>0, SMTT(30) DEF TypeOK
  <2>3. go' \in [Sessions -> GoSteps]
    BY <1>7 DEF PhoneAnswered, TypeOK, GoSteps
  <2>4. QED
    BY <1>7, <2>1, <2>2, <2>3 DEF PhoneAnswered, TypeOK
<1>8. CASE CheckAnswered(s)
  <2>1. td' \in [Sessions -> TdStates]
    <3>1. PICK x \in {"password", "ready", "other", "phone", td[s]} : td' = [td EXCEPT ![s] = x]
      BY <1>8 DEF CheckAnswered
    <3>2. QED
      BY <3>1 DEF TypeOK, TdStates
  <2>2. attempt' \in [Sessions -> Callers \cup {None}]
    BY <1>8 DEF CheckAnswered, reportAttempt, TypeOK
  <2>3. told' \in [Callers -> Verdicts]
    <3>1. PICK v \in {"accepted", "rejected"} : reportAttempt(s, v)
      BY <1>8 DEF CheckAnswered
    <3>2. [is |-> v, of |-> checking[s]] \in Verdicts
      BY DEF TypeOK, Verdicts
    <3>3. QED
      BY <3>1, <3>2 DEF reportAttempt, TypeOK
  <2>4. QED
    BY <1>8, <2>1, <2>2, <2>3 DEF CheckAnswered, TypeOK, GoSteps
<1>9. QED
  BY <1>1, <1>2, <1>3, <1>4, <1>5, <1>6, <1>7, <1>8 DEF Handle

\* Its end.
LEMMA FinishType ==
    ASSUME TypeOK, NEW s \in Sessions, Finish(s)
    PROVE  TypeOK'
<1> USE DEF registry, tdlib, memory, channels, goroutine, submits, history, Set
<1>1. CASE NewClientReturns(s)
  <2>1. go' = [go EXCEPT ![s] = "built"] \/ go' = [go EXCEPT ![s] = "failing"]
    BY <1>1 DEF NewClientReturns
  <2>2. QED
    BY <1>1, <2>1 DEF NewClientReturns, TypeOK, GoSteps
<1>2. CASE LoginFails(s)
  <2>1. go' \in [Sessions -> GoSteps] /\ done' \in [Sessions -> {"open", "ok", "err"}]
    BY <1>2 DEF LoginFails, EndsWith, TypeOK, GoSteps
  <2>2. /\ status' \in [Sessions -> Statuses] /\ cl' \in [Sessions -> BOOLEAN]
        /\ logging' \in [Sessions -> BOOLEAN]
    BY <1>2 DEF LoginFails, TypeOK, Statuses
  <2>3. QED
    BY <1>2, <2>1, <2>2 DEF LoginFails, TypeOK
<1>3. CASE StoreClient(s) \/ Declare(s)
  BY <1>3 DEF StoreClient, Declare, TypeOK, Statuses, GoSteps
<1>4. CASE SaveStatus(s)
  <2>1. Saving(s) \in Statuses
    BY DEF Saving, TypeOK, Statuses
  <2>2. AfterSave(s, Saving(s)) \in GoSteps
    BY DEF AfterSave, GoSteps
  <2>3. go' \in [Sessions -> GoSteps] /\ done' \in [Sessions -> {"open", "ok", "err"}]
    BY <1>4, <2>2 DEF SaveStatus, EndsWith, TypeOK
  <2>4. budget' \in [Kinds -> Nat]
    <3>1. "fault" \in Kinds /\ budget \in [Kinds -> Nat]
      BY DEF Kinds, TypeOK
    <3>2. QED
      BY <1>4, <3>1, SpendType DEF SaveStatus
  <2>5. row' \in [Sessions -> Rows] /\ unsaved' \subseteq Sessions
    BY <1>4, <2>1 DEF SaveStatus, UpdateSessionStatus, TypeOK, Rows
  <2>6. QED
    BY <1>4, <2>3, <2>4, <2>5 DEF SaveStatus, TypeOK
<1>5. CASE AccountRead(s)
  <2>1. go' \in [Sessions -> GoSteps] /\ done' \in [Sessions -> {"open", "ok", "err"}]
    BY <1>5 DEF AccountRead, EndsWith, TypeOK, GoSteps
  <2>2. QED
    BY <1>5, <2>1 DEF AccountRead, TypeOK
<1>6. QED
  BY <1>1, <1>2, <1>3, <1>4, <1>5 DEF Finish

\* Submits and resends.
LEMMA Calling ==
    ASSUME TypeOK, NEW c \in Callers, call[c].at # "none"
    PROVE  /\ call[c] \in CallSet /\ call[c].s \in Sessions /\ call[c].f \in Fields
<1>1. call[c] # NoCall
  BY DEF NoCall
<1>2. call[c] \in CallSet
  BY <1>1 DEF TypeOK
<1>3. QED
  BY <1>2 DEF CallSet

\* A submit that goes to another step keeps its session and field.
LEMMA CallAt ==
    ASSUME TypeOK, NEW c \in Callers, call[c].at # "none",
           NEW st \in {"arm", "push", "verdict", "ended"}, call' = [call EXCEPT ![c].at = st]
    PROVE  /\ call' \in [Callers -> CallSet \cup {NoCall}]
           /\ \A e \in Callers \ {c} : call'[e] = call[e]
           /\ call'[c].at = st /\ call'[c].s = call[c].s /\ call'[c].f = call[c].f
<1> DEFINE r == [call[c] EXCEPT !.at = st]
<1>1. r \in CallSet /\ r.at = st /\ r.s = call[c].s /\ r.f = call[c].f
  BY Calling DEF CallSet
<1>2. call' = [call EXCEPT ![c] = r]
  OBVIOUS
<1> HIDE DEF r
<1>3. QED
  BY <1>1, <1>2 DEF TypeOK

\* The steps of submits keep the types.
LEMMA SubmitType ==
    ASSUME TypeOK, NEW c \in Callers,
           \/ \E s \in Sessions, f \in Fields : Submit(c, s, f)
           \/ Arm(c) \/ Push(c) \/ SubmitEnds(c)
    PROVE  TypeOK'
<1> USE DEF registry, tdlib, memory, channels, goroutine, submits, history, Set
<1>1. ASSUME NEW s \in Sessions, NEW f \in Fields, Submit(c, s, f) PROVE TypeOK'
  <2>1. budget' \in [Kinds -> Nat]
    BY <1>1, SpendType DEF Submit, Kinds
  <2>2. [s |-> s, f |-> f, at |-> "arm"] \in CallSet
    BY DEF CallSet
  <2>3. call' \in [Callers -> CallSet \cup {NoCall}]
    BY <1>1, <2>2 DEF Submit, TypeOK
  <2>4. QED
    BY <1>1, <2>1, <2>3 DEF Submit, TypeOK
<1>2. CASE Arm(c)
  <2>1. call[c].s \in Sessions /\ call' \in [Callers -> CallSet \cup {NoCall}]
    BY <1>2, Calling, CallAt DEF Arm
  <2>2. attempt' \in [Sessions -> Callers \cup {None}]
    BY <1>2, <2>1 DEF Arm, TypeOK
  <2>3. told' \in [Callers -> Verdicts]
    BY <1>2, <2>1 DEF Arm, TypeOK, Lost, Verdicts
  <2>4. ahead' \in [Callers -> SUBSET Callers]
    BY <1>2 DEF Arm, Unchecked, TypeOK
  <2>5. QED
    BY <1>2, <2>1, <2>2, <2>3, <2>4 DEF Arm, TypeOK
<1>3. CASE Push(c)
  <2>1. call[c].s \in Sessions /\ call[c].f \in Fields
    BY <1>3, Calling DEF Push
  <2>2. call' \in [Callers -> CallSet \cup {NoCall}]
    BY <1>3, CallAt DEF Push, Ended
  <2>3. slot' \in [Sessions -> [Fields -> Callers \cup {None}]]
    <3>1. slot[call[c].s] \in [Fields -> Callers \cup {None}]
      BY <2>1 DEF TypeOK
    <3>2. [slot[call[c].s] EXCEPT ![call[c].f] = c] \in [Fields -> Callers \cup {None}]
      BY <2>1, <3>1
    <3>3. QED
      BY <1>3, <3>2 DEF Push, TypeOK
  <2>4. QED
    BY <1>3, <2>2, <2>3 DEF Push, TypeOK
<1>4. CASE SubmitEnds(c)
  <2>1. call' \in [Callers -> CallSet \cup {NoCall}]
    BY <1>4, CallAt DEF SubmitEnds, Ended
  <2>2. QED
    BY <1>4, <2>1 DEF SubmitEnds, TypeOK
<1>5. QED
  BY <1>1, <1>2, <1>3, <1>4

\* Deletions.
LEMMA Deleting ==
    ASSUME TypeOK, NEW d \in Deleters, del[d].at # "none"
    PROVE  del[d] \in DelSet /\ del[d].s \in Sessions /\ del[d].awaits \in BOOLEAN
<1>1. del[d] # NoDel
  BY DEF NoDel
<1>2. del[d] \in DelSet
  BY <1>1 DEF TypeOK
<1>3. QED
  BY <1>2 DEF DelSet

\* A deletion that goes to another step keeps its session and what it knows.
LEMMA DelAt ==
    ASSUME TypeOK, NEW d \in Deleters, del[d].at # "none",
           NEW st \in {"await", "close", "drop", "row", "dir", "ended"}, At(d, st)
    PROVE  /\ del' \in [Deleters -> DelSet \cup {NoDel}]
           /\ \A e \in Deleters \ {d} : del'[e] = del[e]
           /\ del'[d].at = st /\ del'[d].s = del[d].s /\ del'[d].awaits = del[d].awaits
<1> DEFINE r == [del[d] EXCEPT !.at = st]
<1>1. r \in DelSet /\ r.at = st /\ r.s = del[d].s /\ r.awaits = del[d].awaits
  BY Deleting DEF DelSet
<1>2. del' = [del EXCEPT ![d] = r]
  BY DEF At
<1> HIDE DEF r
<1>3. QED
  BY <1>1, <1>2 DEF TypeOK

\* The steps of deletions keep the types.
LEMMA DeleteType ==
    ASSUME TypeOK, NEW d \in Deleters, Deletion(d) \/ \E s \in Sessions : DeleteStart(d, s)
    PROVE  TypeOK'
<1> USE DEF registry, tdlib, memory, channels, goroutine, submits, history, Set
<1>1. ASSUME NEW s \in Sessions, DeleteStart(d, s) PROVE TypeOK'
  <2>1. budget' \in [Kinds -> Nat]
    BY <1>1, SpendType DEF DeleteStart, Kinds
  <2>2. PICK st \in {"await", "close", "row"}, b \in BOOLEAN :
           del' = [del EXCEPT ![d] = [s |-> s, awaits |-> b, at |-> st]]
    BY <1>1 DEF DeleteStart, abortLogin
  <2>3. [s |-> s, awaits |-> b, at |-> st] \in DelSet
    BY DEF DelSet
  <2>4. del' \in [Deleters -> DelSet \cup {NoDel}] /\ canceled' \in [Sessions -> BOOLEAN]
    <3>1. canceled' = canceled \/ canceled' = [canceled EXCEPT ![s] = TRUE]
      BY <1>1 DEF DeleteStart
    <3>2. canceled' \in [Sessions -> BOOLEAN]
      BY <3>1 DEF TypeOK
    <3>3. QED
      BY <2>2, <2>3, <3>2 DEF TypeOK
  <2>5. QED
    BY <1>1, <2>1, <2>4 DEF DeleteStart, TypeOK
<1>2. CASE DeleteAwait(d)
  <2>1. del[d] \in DelSet /\ del[d].at # "none"
    BY <1>2, Deleting DEF DeleteAwait
  <2>2. [del[d] EXCEPT !.at = "close", !.awaits = FALSE] \in DelSet
    BY <2>1 DEF DelSet
  <2>3. \/ At(d, "close")
        \/ del' = [del EXCEPT ![d] = [del[d] EXCEPT !.at = "close", !.awaits = FALSE]]
    BY <1>2 DEF DeleteAwait
  <2>4. del' \in [Deleters -> DelSet \cup {NoDel}]
    BY <2>1, <2>2, <2>3, DelAt DEF TypeOK
  <2>5. budget' \in [Kinds -> Nat]
    <3>1. "fault" \in Kinds /\ budget \in [Kinds -> Nat]
      BY DEF Kinds, TypeOK
    <3>2. QED
      BY <1>2, <3>1, SpendType DEF DeleteAwait
  <2>6. QED
    BY <1>2, <2>4, <2>5 DEF DeleteAwait, TypeOK
<1>3. CASE DeleteClose(d) \/ DeleteDrop(d) \/ DeleteDir(d)
  <2>1. del[d].s \in Sessions /\ del' \in [Deleters -> DelSet \cup {NoDel}]
    BY <1>3, Deleting, DelAt DEF DeleteClose, DeleteDrop, DeleteDir
  <2>2. td' \in [Sessions -> TdStates]
    BY <1>3, <2>1, ZenonT(30) DEF DeleteClose, DeleteDrop, DeleteDir, CloseTd, TypeOK, TdStates
  <2>3. QED
    BY <1>3, <2>1, <2>2 DEF DeleteClose, DeleteDrop, DeleteDir, TypeOK
<1>4. CASE DeleteRow(d)
  <2>1. del[d].s \in Sessions /\ del' \in [Deleters -> DelSet \cup {NoDel}]
    BY <1>4, Deleting, DelAt DEF DeleteRow
  <2>2. row' \in [Sessions -> Rows]
    BY <1>4, <2>1 DEF DeleteRow, TypeOK, Rows
  <2>3. budget' \in [Kinds -> Nat]
    <3>1. "fault" \in Kinds /\ budget \in [Kinds -> Nat]
      BY DEF Kinds, TypeOK
    <3>2. QED
      BY <1>4, <3>1, SpendType DEF DeleteRow
  <2>4. QED
    BY <1>4, <2>1, <2>2, <2>3 DEF DeleteRow, TypeOK
<1>5. QED
  BY <1>1, <1>2, <1>3, <1>4 DEF Deletion

\* Every step keeps the types.
LEMMA TypeStep == TypeOK /\ [Next]_vars => TypeOK'
<1> SUFFICES ASSUME TypeOK, [Next]_vars PROVE TypeOK'
  OBVIOUS
<1> USE DEF registry, tdlib, memory, channels, goroutine, submits, history, Set
<1>1. ASSUME NEW s \in Sessions, TdClosed(s) PROVE TypeOK'
  BY <1>1 DEF TdClosed, TypeOK, TdStates
<1>2. ASSUME NEW s \in Sessions, ResendCode(s) PROVE TypeOK'
  <2>1. budget' \in [Kinds -> Nat]
    BY <1>2, SpendType DEF ResendCode, Kinds
  <2>2. QED
    BY <1>2, <2>1 DEF ResendCode, TypeOK
<1>3. ASSUME NEW s \in Sessions, ExpireStaleLogin(s) PROVE TypeOK'
  <2>1. budget' \in [Kinds -> Nat]
    BY <1>3, SpendType DEF ExpireStaleLogin, Kinds
  <2>2. QED
    BY <1>3, <2>1 DEF ExpireStaleLogin, TypeOK, Rows
<1>4. CASE UNCHANGED vars
  BY <1>4 DEF vars, TypeOK
<1>5. QED
  BY <1>1, <1>2, <1>3, <1>4, CreateType, HandleType, FinishType, SubmitType, DeleteType DEF Next


\* Every variable keeps its type (TypeOK).
THEOREM TypeCorrect == Spec => []TypeOK
<1>1. Init => TypeOK
  BY TypeStart
<1>2. TypeOK /\ [Next]_vars => TypeOK'
  BY TypeStep
<1>3. QED
  BY <1>1, <1>2, PTL DEF Spec

-----------------------------------------------------------------------------
(* The inductive invariant, one session, submit or deletion at a time.     *)

\* Before its create has gone through, a session has no goroutine, and a user's
\* create never takes the steps of a bot's.
StartInv(s) ==
    /\ req[s] \in {"none", "checked"} => /\ go[s] = "none" /\ status[s] = "connecting"
                                         /\ done[s] = "open"
    /\ s \in Users => req[s] \in {"none", "checked", "returned"}

\* While the first request for a code is on its way, no code has been sent.
CodeInv(s) ==
    /\ go[s] = "phoning" => phoneSent[s]
    /\ sends[s] <= asked[s] + (IF phoneSent[s] /\ go[s] # "phoning" THEN 1 ELSE 0)

\* What a user's row says of the goroutine that writes it.
RowInv(s) ==
    s \in Users =>
        /\ row[s] = "absent" => go[s] = "none"
        /\ (s \notin unsaved /\ go[s] \notin {"none", "saving"} /\ row[s] \notin {"expired", "deleted"})
               => row[s] = status[s]

\* The client outlives the status that promises it, and a bot whose goroutine
\* failed is not authorized any more.
ClientInv(s) ==
    /\ s \notin abandoned =>
          /\ go[s] = "stored" => cl[s] /\ ~logging[s]
          /\ status[s] = "authorized" => /\ cl[s] /\ ~logging[s]
                                         /\ go[s] \in {"saving", "reading", "finished"}
          /\ req[s] = "failing" => done[s] = "err"
    /\ (s \in Bots /\ done[s] = "err") => /\ go[s] = "finished"
                                          /\ s \in abandoned \/ status[s] # "authorized"

\* A user login that is past its instance either holds the client or knows the
\* instance gone.
InstanceInv(s) ==
    s \in Users =>
        /\ done[s] # "open" => go[s] = "finished"
        /\ go[s] = "failing" => td[s] = "none"
        /\ (go[s] \in {"stored", "saving", "reading", "finished"} /\ ~cl[s]) => td[s] = "none"

\* A finished login stays finished, and its instance gone or going.
Stays(s) ==
    go[s] = "finished" =>
        /\ go'[s] = "finished"
        /\ td[s] \in {"none", "closing"} => td'[s] \in {"none", "closing"}

\* What a deletion knows that aborted the login and has waited for it.
DeleteInv(d) ==
    /\ del[d].at = "await" => del[d].s \in Users
    /\ del[d].awaits => /\ del[d].at \in {"await", "close", "drop", "row", "dir", "ended"}
                        /\ del[d].s \in Users
                        /\ del[d].at # "await" => go[del[d].s] = "finished"
                        /\ del[d].at \notin {"await", "close"}
                               => td[del[d].s] \in {"none", "closing"}

\* Only a goroutine that checks a value holds one.
CheckInv(s) == go[s] = "checking" <=> checking[s] # None

\* A submit that is armed and has no verdict yet is the one armed last, and its
\* value is in the channel or with TDLib.
SubmitInv(c) ==
    /\ (call[c].at \in {"push", "verdict"} /\ told[c].is = "none") => attempt[call[c].s] = c
    /\ (call[c].at = "verdict" /\ told[c].is = "none") =>
          slot[call[c].s][call[c].f] = c \/ checking[call[c].s] = c

\* A submit has no verdict before it arms; one that it has is of its own value or of
\* one ahead of it.
OwnInv(c) ==
    /\ call[c].at \in {"none", "arm"} => /\ told[c].is = "none"
                                         /\ \A s \in Sessions : attempt[s] # c
    /\ told[c].is \in {"accepted", "rejected"} => told[c].of \in ahead[c] \cup {c}

\* Every value still to be answered is of the submit armed last or was so when it armed.
AheadInv(s) ==
    attempt[s] # None => Unchecked(s) \subseteq ahead[attempt[s]] \cup {attempt[s]}

LoginInv ==
    /\ TypeOK
    /\ \A s \in Sessions : /\ StartInv(s) /\ CodeInv(s) /\ RowInv(s) /\ ClientInv(s)
                           /\ InstanceInv(s) /\ CheckInv(s)
    /\ \A d \in Deleters : DeleteInv(d)
    /\ \A c \in Callers : SubmitInv(c) /\ OwnInv(c)
    /\ \A s \in Sessions : AheadInv(s)


\* Holds at the start.
LEMMA Start == Init => LoginInv
<1> SUFFICES ASSUME Init PROVE LoginInv
  OBVIOUS
<1>1. TypeOK
  BY TypeStart
<1>2. \A s \in Sessions : /\ StartInv(s) /\ CodeInv(s) /\ RowInv(s) /\ ClientInv(s)
                          /\ InstanceInv(s) /\ CheckInv(s)
  BY DEF Init, StartInv, CodeInv, RowInv, ClientInv, InstanceInv, CheckInv
<1>3. \A d \in Deleters : DeleteInv(d)
  BY DEF Init, DeleteInv, NoDel
<1>4. \A c \in Callers : SubmitInv(c) /\ OwnInv(c)
  BY LoginAssumption DEF Init, SubmitInv, OwnInv, NoCall, NoVerdict
<1>5. \A s \in Sessions : AheadInv(s)
  BY DEF Init, AheadInv
<1>6. QED
  BY <1>1, <1>2, <1>3, <1>4, <1>5 DEF LoginInv

\* A create that has not gone through has started nothing, and users and bots take
\* different steps.
LEMMA StartKeeps ==
    ASSUME TypeOK, [Next]_vars, NEW s \in Sessions, StartInv(s)
    PROVE  StartInv(s)'
<1> USE DEF registry, tdlib, memory, channels, goroutine, submits, history, Set
<1>1. ASSUME NEW t \in Sessions, Create(t) PROVE StartInv(s)'
  BY <1>1, LoginAssumption DEF Create, CheckPending, Spend, PendingUserLogin, CreateUser,
        StartLogin, CreateUserFails, CreateBot, TypeOK, StartInv, Sessions
<1>2. ASSUME NEW t \in Sessions, BotRequest(t) PROVE StartInv(s)'
  BY <1>2, LoginAssumption DEF BotRequest, BotResult, BotTimeout, BotForgets, BotErrs, BotSaves,
        UpdateSessionStatus, TypeOK, StartInv, Sessions
<1>3. ASSUME NEW t \in Sessions, Handle(t) PROVE StartInv(s)'
  BY <1>3, LoginAssumption DEF Handle, HandleParams, HandleToken, HandlePhone, beginLogin,
        Fatal, CloseTd, HandleFails, HandleAwait, Want, Fields, TakeValue, TakeCancel,
        PhoneAnswered, CheckAnswered, TypeOK, StartInv, Sessions
<1>4. ASSUME NEW t \in Sessions, Finish(t) PROVE StartInv(s)'
  BY <1>4, LoginAssumption DEF Finish, NewClientReturns, LoginFails, EndsWith, StoreClient,
        Declare, SaveStatus, AfterSave, Saving, UpdateSessionStatus, AccountRead, TypeOK,
        StartInv, Sessions
<1>5. ASSUME NEW t \in Sessions, TdClosed(t) PROVE StartInv(s)'
  BY <1>5, LoginAssumption DEF TdClosed, TypeOK, StartInv, Sessions
<1>6. ASSUME NEW t \in Sessions, ResendCode(t) PROVE StartInv(s)'
  BY <1>6, LoginAssumption DEF ResendCode, TypeOK, StartInv, Sessions
<1>7. ASSUME NEW t \in Sessions, ExpireStaleLogin(t) PROVE StartInv(s)'
  BY <1>7, LoginAssumption DEF ExpireStaleLogin, TypeOK, StartInv, Sessions
<1>8. ASSUME NEW c \in Callers, Arm(c) \/ Push(c) \/ SubmitEnds(c) PROVE StartInv(s)'
  BY <1>8, LoginAssumption DEF Arm, Push, SubmitEnds, TypeOK, StartInv, Sessions
<1>9. ASSUME NEW c \in Callers, NEW t \in Sessions, NEW f \in Fields, Submit(c, t, f) PROVE StartInv(s)'
  BY <1>9, LoginAssumption DEF Submit, TypeOK, StartInv, Sessions
<1>10. ASSUME NEW d \in Deleters, Deletion(d) PROVE StartInv(s)'
  BY <1>10, LoginAssumption DEF Deletion, DeleteAwait, DeleteClose, DeleteDrop, DeleteRow,
        DeleteDir, CloseTd, TypeOK, StartInv, Sessions
<1>11. ASSUME NEW d \in Deleters, NEW t \in Sessions, DeleteStart(d, t) PROVE StartInv(s)'
  BY <1>11, LoginAssumption DEF DeleteStart, TypeOK, StartInv, Sessions
<1>12. CASE UNCHANGED vars
  BY <1>12 DEF vars, StartInv, Sessions
<1>13. QED
  BY <1>1, <1>2, <1>3, <1>4, <1>5, <1>6, <1>7, <1>8, <1>9, <1>10, <1>11, <1>12 DEF Next

\* The phone number is sent to TDLib once.
LEMMA CodeKeeps ==
    ASSUME TypeOK, [Next]_vars, NEW s \in Sessions, CodeInv(s)
    PROVE  CodeInv(s)'
<1> USE DEF registry, tdlib, memory, channels, goroutine, submits, history, Set
<1>1. ASSUME NEW t \in Sessions, Create(t) PROVE CodeInv(s)'
  BY <1>1 DEF Create, CheckPending, Spend, PendingUserLogin, CreateUser, StartLogin,
        CreateUserFails, CreateBot, TypeOK, CodeInv
<1>2. ASSUME NEW t \in Sessions, BotRequest(t) PROVE CodeInv(s)'
  BY <1>2 DEF BotRequest, BotResult, BotTimeout, BotForgets, BotErrs, BotSaves,
        UpdateSessionStatus, TypeOK, CodeInv
<1>3. ASSUME NEW t \in Sessions, HandleParams(t) PROVE CodeInv(s)'
  BY <1>3 DEF HandleParams, TypeOK, CodeInv
<1>4. ASSUME NEW t \in Sessions, HandleToken(t) PROVE CodeInv(s)'
  BY <1>4 DEF HandleToken, TypeOK, CodeInv
<1>5. ASSUME NEW t \in Sessions, HandlePhone(t) PROVE CodeInv(s)'
  BY <1>5 DEF HandlePhone, beginLogin, Fatal, CloseTd, TypeOK, CodeInv
<1>6. ASSUME NEW t \in Sessions, HandleFails(t) PROVE CodeInv(s)'
  BY <1>6 DEF HandleFails, Fatal, CloseTd, TypeOK, CodeInv
<1>7. ASSUME NEW t \in Sessions, HandleAwait(t) PROVE CodeInv(s)'
  BY <1>7 DEF HandleAwait, beginLogin, Want, Fields, TypeOK, CodeInv
<1>8. ASSUME NEW t \in Sessions, TakeValue(t) PROVE CodeInv(s)'
  BY <1>8 DEF TakeValue, TypeOK, CodeInv
<1>9. ASSUME NEW t \in Sessions, TakeCancel(t) PROVE CodeInv(s)'
  BY <1>9 DEF TakeCancel, Fatal, CloseTd, TypeOK, CodeInv
<1>10. ASSUME NEW t \in Sessions, PhoneAnswered(t) PROVE CodeInv(s)'
  BY <1>10 DEF PhoneAnswered, TypeOK, CodeInv
<1>11. ASSUME NEW t \in Sessions, CheckAnswered(t) PROVE CodeInv(s)'
  BY <1>11 DEF CheckAnswered, TypeOK, CodeInv
<1>12. ASSUME NEW t \in Sessions, Finish(t) PROVE CodeInv(s)'
  BY <1>12 DEF Finish, NewClientReturns, LoginFails, EndsWith, StoreClient, Declare, SaveStatus,
        AfterSave, Saving, UpdateSessionStatus, AccountRead, TypeOK, CodeInv
<1>13. ASSUME NEW t \in Sessions, TdClosed(t) PROVE CodeInv(s)'
  BY <1>13 DEF TdClosed, TypeOK, CodeInv
<1>14. ASSUME NEW t \in Sessions, ResendCode(t) PROVE CodeInv(s)'
  BY <1>14 DEF ResendCode, TypeOK, CodeInv
<1>15. ASSUME NEW t \in Sessions, ExpireStaleLogin(t) PROVE CodeInv(s)'
  BY <1>15 DEF ExpireStaleLogin, TypeOK, CodeInv
<1>16. ASSUME NEW c \in Callers, Arm(c) \/ Push(c) \/ SubmitEnds(c) PROVE CodeInv(s)'
  BY <1>16 DEF Arm, Push, SubmitEnds, TypeOK, CodeInv
<1>17. ASSUME NEW c \in Callers, NEW t \in Sessions, NEW f \in Fields, Submit(c, t, f) PROVE CodeInv(s)'
  BY <1>17 DEF Submit, TypeOK, CodeInv
<1>18. ASSUME NEW d \in Deleters, Deletion(d) PROVE CodeInv(s)'
  BY <1>18 DEF Deletion, DeleteAwait, DeleteClose, DeleteDrop, DeleteRow, DeleteDir, CloseTd,
        TypeOK, CodeInv
<1>19. ASSUME NEW d \in Deleters, NEW t \in Sessions, DeleteStart(d, t) PROVE CodeInv(s)'
  BY <1>19 DEF DeleteStart, TypeOK, CodeInv
<1>20. CASE UNCHANGED vars
  BY <1>20 DEF vars, CodeInv
<1>21. QED
  BY <1>1, <1>2, <1>3, <1>4, <1>5, <1>6, <1>7, <1>8, <1>9, <1>10, <1>11, <1>12, <1>13, <1>14,
        <1>15, <1>16, <1>17, <1>18, <1>19, <1>20 DEF Next, Handle

\* What saving a status does to the row of a user login.
LEMMA SaveAt ==
    ASSUME TypeOK, NEW t \in Sessions, SaveStatus(t), NEW s \in Users
    PROVE  /\ status' = status /\ req' = req /\ abandoned' = abandoned
           /\ s # t => /\ row'[s] = row[s] /\ go'[s] = go[s]
                       /\ s \in unsaved' <=> s \in unsaved
           /\ s = t => /\ go[s] = "saving" /\ go'[s] = AfterSave(s, status[s])
                       /\ \/ row'[s] = row[s] /\ s \in unsaved'
                          \/ row'[s] = IF row[s] = "deleted" THEN "deleted" ELSE status[s]
<1>1. s \in Sessions /\ s \notin Bots
  BY LoginAssumption DEF Sessions
<1>2. status' = status /\ req' = req /\ abandoned' = abandoned
  BY DEF SaveStatus, memory
<1>3. go' = [go EXCEPT ![t] = AfterSave(t, Saving(t))]
  BY DEF SaveStatus, EndsWith, Set
<1>4. \/ row' = UpdateSessionStatus(t, Saving(t)) /\ unsaved' = unsaved \ {t}
      \/ row' = row /\ unsaved' = unsaved \cup {t}
  BY DEF SaveStatus
<1>5. CASE s # t
  BY <1>1, <1>2, <1>3, <1>4, <1>5 DEF UpdateSessionStatus, TypeOK
<1>6. CASE s = t
  <2>1. Saving(t) = status[s]
    BY <1>1, <1>6 DEF Saving
  <2>2. go[s] = "saving"
    BY <1>6 DEF SaveStatus
  <2>3. QED
    BY <1>1, <1>2, <1>3, <1>4, <1>6, <2>1, <2>2 DEF UpdateSessionStatus, TypeOK
<1>7. QED
  BY <1>5, <1>6

\* The row of a user login follows its goroutine.
LEMMA RowKeeps ==
    ASSUME TypeOK, [Next]_vars, NEW s \in Sessions, RowInv(s), StartInv(s)
    PROVE  RowInv(s)'
<1> USE DEF registry, tdlib, memory, channels, goroutine, submits, history, Set
<1>1. ASSUME NEW t \in Sessions, Create(t) PROVE RowInv(s)'
  BY <1>1, LoginAssumption DEF Create, CheckPending, Spend, PendingUserLogin, CreateUser,
        StartLogin, CreateUserFails, CreateBot, TypeOK, RowInv, StartInv, Waiting
<1>2. ASSUME NEW t \in Sessions, BotRequest(t) PROVE RowInv(s)'
  BY <1>2, LoginAssumption DEF BotRequest, BotResult, BotTimeout, BotForgets, BotErrs, BotSaves,
        UpdateSessionStatus, TypeOK, RowInv, StartInv, Waiting
<1>3. ASSUME NEW t \in Sessions, HandleParams(t) PROVE RowInv(s)'
  BY <1>3, LoginAssumption DEF HandleParams, TypeOK, RowInv, StartInv, Waiting
<1>4. ASSUME NEW t \in Sessions, HandleToken(t) PROVE RowInv(s)'
  BY <1>4, LoginAssumption DEF HandleToken, TypeOK, RowInv, StartInv, Waiting
<1>5. ASSUME NEW t \in Sessions, HandlePhone(t) PROVE RowInv(s)'
  BY <1>5, LoginAssumption DEF HandlePhone, beginLogin, Fatal, CloseTd, TypeOK, RowInv,
        StartInv, Waiting
<1>6. ASSUME NEW t \in Sessions, HandleFails(t) PROVE RowInv(s)'
  BY <1>6, LoginAssumption DEF HandleFails, Fatal, CloseTd, TypeOK, RowInv, StartInv, Waiting
<1>7. ASSUME NEW t \in Sessions, HandleAwait(t) PROVE RowInv(s)'
  BY <1>7, LoginAssumption DEF HandleAwait, beginLogin, Want, Fields, TypeOK, RowInv, StartInv,
        Waiting
<1>8. ASSUME NEW t \in Sessions, TakeValue(t) PROVE RowInv(s)'
  BY <1>8, LoginAssumption DEF TakeValue, TypeOK, RowInv, StartInv, Waiting
<1>9. ASSUME NEW t \in Sessions, TakeCancel(t) PROVE RowInv(s)'
  BY <1>9, LoginAssumption DEF TakeCancel, Fatal, CloseTd, TypeOK, RowInv, StartInv, Waiting
<1>10. ASSUME NEW t \in Sessions, PhoneAnswered(t) PROVE RowInv(s)'
  BY <1>10, LoginAssumption DEF PhoneAnswered, TypeOK, RowInv, StartInv, Waiting
<1>11. ASSUME NEW t \in Sessions, CheckAnswered(t) PROVE RowInv(s)'
  BY <1>11, LoginAssumption DEF CheckAnswered, TypeOK, RowInv, StartInv, Waiting
<1>12. ASSUME NEW t \in Sessions, NewClientReturns(t) PROVE RowInv(s)'
  BY <1>12, LoginAssumption DEF NewClientReturns, TypeOK, RowInv, StartInv, Waiting
<1>13. ASSUME NEW t \in Sessions, LoginFails(t) PROVE RowInv(s)'
  BY <1>13, LoginAssumption DEF LoginFails, EndsWith, TypeOK, RowInv, StartInv, Waiting
<1>14. ASSUME NEW t \in Sessions, StoreClient(t) PROVE RowInv(s)'
  BY <1>14, LoginAssumption DEF StoreClient, TypeOK, RowInv, StartInv, Waiting
<1>15. ASSUME NEW t \in Sessions, Declare(t) PROVE RowInv(s)'
  BY <1>15, LoginAssumption DEF Declare, TypeOK, RowInv, StartInv, Waiting
<1>16. ASSUME NEW t \in Sessions, SaveStatus(t) PROVE RowInv(s)'
  BY <1>16, SaveAt DEF AfterSave, RowInv, Waiting, TypeOK, Statuses
<1>17. ASSUME NEW t \in Sessions, AccountRead(t) PROVE RowInv(s)'
  BY <1>17, LoginAssumption DEF AccountRead, EndsWith, TypeOK, RowInv, StartInv, Waiting
<1>18. ASSUME NEW t \in Sessions, TdClosed(t) PROVE RowInv(s)'
  BY <1>18, LoginAssumption DEF TdClosed, TypeOK, RowInv, StartInv, Waiting
<1>19. ASSUME NEW t \in Sessions, ResendCode(t) PROVE RowInv(s)'
  BY <1>19, LoginAssumption DEF ResendCode, TypeOK, RowInv, StartInv, Waiting
<1>20. ASSUME NEW t \in Sessions, ExpireStaleLogin(t) PROVE RowInv(s)'
  BY <1>20, LoginAssumption DEF ExpireStaleLogin, TypeOK, RowInv, StartInv, Waiting
<1>21. ASSUME NEW c \in Callers, Arm(c) \/ Push(c) \/ SubmitEnds(c) PROVE RowInv(s)'
  BY <1>21, LoginAssumption DEF Arm, Push, SubmitEnds, TypeOK, RowInv, StartInv, Waiting
<1>22. ASSUME NEW c \in Callers, NEW t \in Sessions, NEW f \in Fields, Submit(c, t, f) PROVE RowInv(s)'
  BY <1>22, LoginAssumption DEF Submit, TypeOK, RowInv, StartInv, Waiting
<1>23. ASSUME NEW d \in Deleters, Deletion(d) PROVE RowInv(s)'
  BY <1>23, LoginAssumption DEF Deletion, DeleteAwait, DeleteClose, DeleteDrop, DeleteRow,
        DeleteDir, CloseTd, TypeOK, RowInv, StartInv, Waiting
<1>24. ASSUME NEW d \in Deleters, NEW t \in Sessions, DeleteStart(d, t) PROVE RowInv(s)'
  BY <1>24, LoginAssumption DEF DeleteStart, TypeOK, RowInv, StartInv, Waiting
<1>25. CASE UNCHANGED vars
  BY <1>25 DEF vars, RowInv, StartInv, Waiting
<1>26. QED
  BY <1>1, <1>2, <1>3, <1>4, <1>5, <1>6, <1>7, <1>8, <1>9, <1>10, <1>11, <1>12, <1>13, <1>14,
        <1>15, <1>16, <1>17, <1>18, <1>19, <1>20, <1>21, <1>22, <1>23, <1>24, <1>25 DEF Next, Handle, Finish

\* Authorized means a stored client.
LEMMA ClientKeeps ==
    ASSUME TypeOK, [Next]_vars, NEW s \in Sessions, ClientInv(s), StartInv(s)
    PROVE  ClientInv(s)'
<1> USE DEF registry, tdlib, memory, channels, goroutine, submits, history, Set
<1>1. ASSUME NEW t \in Sessions, Create(t) PROVE ClientInv(s)'
  BY <1>1, LoginAssumption DEF Create, CheckPending, Spend, PendingUserLogin, CreateUser,
        StartLogin, CreateUserFails, CreateBot, TypeOK, ClientInv, StartInv, Sessions
<1>2. ASSUME NEW t \in Sessions, BotRequest(t) PROVE ClientInv(s)'
  BY <1>2, LoginAssumption DEF BotRequest, BotResult, BotTimeout, BotForgets, BotErrs, BotSaves,
        UpdateSessionStatus, TypeOK, ClientInv, StartInv, Sessions
<1>3. ASSUME NEW t \in Sessions, HandleParams(t) PROVE ClientInv(s)'
  BY <1>3, LoginAssumption DEF HandleParams, TypeOK, ClientInv, StartInv, Sessions
<1>4. ASSUME NEW t \in Sessions, HandleToken(t) PROVE ClientInv(s)'
  BY <1>4, LoginAssumption DEF HandleToken, TypeOK, ClientInv, StartInv, Sessions
<1>5. ASSUME NEW t \in Sessions, HandlePhone(t) PROVE ClientInv(s)'
  BY <1>5, LoginAssumption DEF HandlePhone, beginLogin, Fatal, CloseTd, TypeOK, ClientInv,
        StartInv, Sessions
<1>6. ASSUME NEW t \in Sessions, HandleFails(t) PROVE ClientInv(s)'
  BY <1>6, LoginAssumption DEF HandleFails, Fatal, CloseTd, TypeOK, ClientInv, StartInv,
        Sessions
<1>7. ASSUME NEW t \in Sessions, HandleAwait(t) PROVE ClientInv(s)'
  BY <1>7, LoginAssumption DEF HandleAwait, beginLogin, Want, Fields, TypeOK, ClientInv,
        StartInv, Sessions
<1>8. ASSUME NEW t \in Sessions, TakeValue(t) PROVE ClientInv(s)'
  BY <1>8, LoginAssumption DEF TakeValue, TypeOK, ClientInv, StartInv, Sessions
<1>9. ASSUME NEW t \in Sessions, TakeCancel(t) PROVE ClientInv(s)'
  BY <1>9, LoginAssumption DEF TakeCancel, Fatal, CloseTd, TypeOK, ClientInv, StartInv, Sessions
<1>10. ASSUME NEW t \in Sessions, PhoneAnswered(t) PROVE ClientInv(s)'
  BY <1>10, LoginAssumption DEF PhoneAnswered, TypeOK, ClientInv, StartInv, Sessions
<1>11. ASSUME NEW t \in Sessions, CheckAnswered(t) PROVE ClientInv(s)'
  BY <1>11, LoginAssumption DEF CheckAnswered, TypeOK, ClientInv, StartInv, Sessions
<1>12. ASSUME NEW t \in Sessions, NewClientReturns(t) PROVE ClientInv(s)'
  BY <1>12, LoginAssumption DEF NewClientReturns, TypeOK, ClientInv, StartInv, Sessions
<1>13. ASSUME NEW t \in Sessions, LoginFails(t) PROVE ClientInv(s)'
  BY <1>13, LoginAssumption DEF LoginFails, EndsWith, TypeOK, ClientInv, StartInv, Sessions
<1>14. ASSUME NEW t \in Sessions, StoreClient(t) PROVE ClientInv(s)'
  BY <1>14, LoginAssumption DEF StoreClient, TypeOK, ClientInv, StartInv, Sessions
<1>15. ASSUME NEW t \in Sessions, Declare(t) PROVE ClientInv(s)'
  BY <1>15, LoginAssumption DEF Declare, TypeOK, ClientInv, StartInv, Sessions
<1>16. ASSUME NEW t \in Sessions, SaveStatus(t) PROVE ClientInv(s)'
  BY <1>16, LoginAssumption DEF SaveStatus, EndsWith, AfterSave, Saving, UpdateSessionStatus,
        TypeOK, ClientInv, StartInv, Sessions
<1>17. ASSUME NEW t \in Sessions, AccountRead(t) PROVE ClientInv(s)'
  BY <1>17, LoginAssumption DEF AccountRead, EndsWith, TypeOK, ClientInv, StartInv, Sessions
<1>18. ASSUME NEW t \in Sessions, TdClosed(t) PROVE ClientInv(s)'
  BY <1>18, LoginAssumption DEF TdClosed, TypeOK, ClientInv, StartInv, Sessions
<1>19. ASSUME NEW t \in Sessions, ResendCode(t) PROVE ClientInv(s)'
  BY <1>19, LoginAssumption DEF ResendCode, TypeOK, ClientInv, StartInv, Sessions
<1>20. ASSUME NEW t \in Sessions, ExpireStaleLogin(t) PROVE ClientInv(s)'
  BY <1>20, LoginAssumption DEF ExpireStaleLogin, TypeOK, ClientInv, StartInv, Sessions
<1>21. ASSUME NEW c \in Callers, Arm(c) \/ Push(c) \/ SubmitEnds(c) PROVE ClientInv(s)'
  BY <1>21, LoginAssumption DEF Arm, Push, SubmitEnds, TypeOK, ClientInv, StartInv, Sessions
<1>22. ASSUME NEW c \in Callers, NEW t \in Sessions, NEW f \in Fields, Submit(c, t, f) PROVE ClientInv(s)'
  BY <1>22, LoginAssumption DEF Submit, TypeOK, ClientInv, StartInv, Sessions
<1>23. ASSUME NEW d \in Deleters, Deletion(d) PROVE ClientInv(s)'
  BY <1>23, LoginAssumption DEF Deletion, DeleteAwait, DeleteClose, DeleteDrop, DeleteRow,
        DeleteDir, CloseTd, TypeOK, ClientInv, StartInv, Sessions
<1>24. ASSUME NEW d \in Deleters, NEW t \in Sessions, DeleteStart(d, t) PROVE ClientInv(s)'
  BY <1>24, LoginAssumption DEF DeleteStart, TypeOK, ClientInv, StartInv, Sessions
<1>25. CASE UNCHANGED vars
  BY <1>25 DEF vars, ClientInv, StartInv, Sessions
<1>26. QED
  BY <1>1, <1>2, <1>3, <1>4, <1>5, <1>6, <1>7, <1>8, <1>9, <1>10, <1>11, <1>12, <1>13, <1>14,
        <1>15, <1>16, <1>17, <1>18, <1>19, <1>20, <1>21, <1>22, <1>23, <1>24, <1>25 DEF Next, Handle, Finish

\* A user login past its instance knows what became of it.
LEMMA InstanceKeeps ==
    ASSUME TypeOK, [Next]_vars, NEW s \in Sessions, InstanceInv(s), StartInv(s)
    PROVE  InstanceInv(s)'
<1> USE DEF registry, tdlib, memory, channels, goroutine, submits, history, Set
<1>1. ASSUME NEW t \in Sessions, Create(t) PROVE InstanceInv(s)'
  BY <1>1 DEF Create, CheckPending, Spend, PendingUserLogin, CreateUser, StartLogin,
        CreateUserFails, CreateBot, TypeOK, InstanceInv, StartInv
<1>2. ASSUME NEW t \in Sessions, BotRequest(t) PROVE InstanceInv(s)'
  BY <1>2 DEF BotRequest, BotResult, BotTimeout, BotForgets, BotErrs, BotSaves,
        UpdateSessionStatus, TypeOK, InstanceInv, StartInv
<1>3. ASSUME NEW t \in Sessions, HandleParams(t) PROVE InstanceInv(s)'
  BY <1>3 DEF HandleParams, TypeOK, InstanceInv, StartInv
<1>4. ASSUME NEW t \in Sessions, HandleToken(t) PROVE InstanceInv(s)'
  BY <1>4 DEF HandleToken, TypeOK, InstanceInv, StartInv
<1>5. ASSUME NEW t \in Sessions, HandlePhone(t) PROVE InstanceInv(s)'
  BY <1>5 DEF HandlePhone, beginLogin, Fatal, CloseTd, TypeOK, InstanceInv, StartInv
<1>6. ASSUME NEW t \in Sessions, HandleFails(t) PROVE InstanceInv(s)'
  BY <1>6 DEF HandleFails, Fatal, CloseTd, TypeOK, InstanceInv, StartInv
<1>7. ASSUME NEW t \in Sessions, HandleAwait(t) PROVE InstanceInv(s)'
  BY <1>7 DEF HandleAwait, beginLogin, Want, Fields, TypeOK, InstanceInv, StartInv
<1>8. ASSUME NEW t \in Sessions, TakeValue(t) PROVE InstanceInv(s)'
  BY <1>8 DEF TakeValue, TypeOK, InstanceInv, StartInv
<1>9. ASSUME NEW t \in Sessions, TakeCancel(t) PROVE InstanceInv(s)'
  BY <1>9 DEF TakeCancel, Fatal, CloseTd, TypeOK, InstanceInv, StartInv
<1>10. ASSUME NEW t \in Sessions, PhoneAnswered(t) PROVE InstanceInv(s)'
  BY <1>10 DEF PhoneAnswered, TypeOK, InstanceInv, StartInv
<1>11. ASSUME NEW t \in Sessions, CheckAnswered(t) PROVE InstanceInv(s)'
  BY <1>11 DEF CheckAnswered, TypeOK, InstanceInv, StartInv
<1>12. ASSUME NEW t \in Sessions, NewClientReturns(t) PROVE InstanceInv(s)'
  BY <1>12 DEF NewClientReturns, TypeOK, InstanceInv, StartInv
<1>13. ASSUME NEW t \in Sessions, LoginFails(t) PROVE InstanceInv(s)'
  BY <1>13 DEF LoginFails, EndsWith, TypeOK, InstanceInv, StartInv
<1>14. ASSUME NEW t \in Sessions, StoreClient(t) PROVE InstanceInv(s)'
  BY <1>14 DEF StoreClient, TypeOK, InstanceInv, StartInv
<1>15. ASSUME NEW t \in Sessions, Declare(t) PROVE InstanceInv(s)'
  BY <1>15 DEF Declare, TypeOK, InstanceInv, StartInv
<1>16. ASSUME NEW t \in Sessions, SaveStatus(t) PROVE InstanceInv(s)'
  BY <1>16 DEF SaveStatus, EndsWith, AfterSave, Saving, UpdateSessionStatus, TypeOK,
        InstanceInv, StartInv
<1>17. ASSUME NEW t \in Sessions, AccountRead(t) PROVE InstanceInv(s)'
  BY <1>17 DEF AccountRead, EndsWith, TypeOK, InstanceInv, StartInv
<1>18. ASSUME NEW t \in Sessions, TdClosed(t) PROVE InstanceInv(s)'
  BY <1>18 DEF TdClosed, TypeOK, InstanceInv, StartInv
<1>19. ASSUME NEW t \in Sessions, ResendCode(t) PROVE InstanceInv(s)'
  BY <1>19 DEF ResendCode, TypeOK, InstanceInv, StartInv
<1>20. ASSUME NEW t \in Sessions, ExpireStaleLogin(t) PROVE InstanceInv(s)'
  BY <1>20 DEF ExpireStaleLogin, TypeOK, InstanceInv, StartInv
<1>21. ASSUME NEW c \in Callers, Arm(c) \/ Push(c) \/ SubmitEnds(c) PROVE InstanceInv(s)'
  BY <1>21 DEF Arm, Push, SubmitEnds, TypeOK, InstanceInv, StartInv
<1>22. ASSUME NEW c \in Callers, NEW t \in Sessions, NEW f \in Fields, Submit(c, t, f) PROVE InstanceInv(s)'
  BY <1>22 DEF Submit, TypeOK, InstanceInv, StartInv
<1>23. ASSUME NEW d \in Deleters, Deletion(d) PROVE InstanceInv(s)'
  BY <1>23 DEF Deletion, DeleteAwait, DeleteClose, DeleteDrop, DeleteRow, DeleteDir, CloseTd,
        TypeOK, InstanceInv, StartInv
<1>24. ASSUME NEW d \in Deleters, NEW t \in Sessions, DeleteStart(d, t) PROVE InstanceInv(s)'
  BY <1>24 DEF DeleteStart, TypeOK, InstanceInv, StartInv
<1>25. CASE UNCHANGED vars
  BY <1>25 DEF vars, InstanceInv, StartInv
<1>26. QED
  BY <1>1, <1>2, <1>3, <1>4, <1>5, <1>6, <1>7, <1>8, <1>9, <1>10, <1>11, <1>12, <1>13, <1>14,
        <1>15, <1>16, <1>17, <1>18, <1>19, <1>20, <1>21, <1>22, <1>23, <1>24, <1>25 DEF Next, Handle, Finish

\* Only a goroutine that checks a value holds one.
LEMMA CheckKeeps ==
    ASSUME TypeOK, [Next]_vars, NEW s \in Sessions, CheckInv(s), StartInv(s)
    PROVE  CheckInv(s)'
<1> USE DEF registry, tdlib, memory, channels, goroutine, submits, history, Set
<1>1. ASSUME NEW t \in Sessions, Create(t) PROVE CheckInv(s)'
  BY <1>1 DEF Create, CheckPending, Spend, PendingUserLogin, CreateUser, StartLogin,
        CreateUserFails, CreateBot, TypeOK, CheckInv, StartInv
<1>2. ASSUME NEW t \in Sessions, BotRequest(t) PROVE CheckInv(s)'
  BY <1>2 DEF BotRequest, BotResult, BotTimeout, BotForgets, BotErrs, BotSaves,
        UpdateSessionStatus, TypeOK, CheckInv, StartInv
<1>3. ASSUME NEW t \in Sessions, Handle(t) PROVE CheckInv(s)'
  BY <1>3 DEF Handle, HandleParams, HandleToken, HandlePhone, beginLogin, Fatal, CloseTd,
        HandleFails, HandleAwait, Want, Fields, TakeValue, TakeCancel, PhoneAnswered,
        CheckAnswered, TypeOK, CheckInv, StartInv
<1>4. ASSUME NEW t \in Sessions, Finish(t) PROVE CheckInv(s)'
  BY <1>4 DEF Finish, NewClientReturns, LoginFails, EndsWith, StoreClient, Declare, SaveStatus,
        AfterSave, Saving, UpdateSessionStatus, AccountRead, TypeOK, CheckInv, StartInv
<1>5. ASSUME NEW t \in Sessions, TdClosed(t) PROVE CheckInv(s)'
  BY <1>5 DEF TdClosed, TypeOK, CheckInv, StartInv
<1>6. ASSUME NEW t \in Sessions, ResendCode(t) PROVE CheckInv(s)'
  BY <1>6 DEF ResendCode, TypeOK, CheckInv, StartInv
<1>7. ASSUME NEW t \in Sessions, ExpireStaleLogin(t) PROVE CheckInv(s)'
  BY <1>7 DEF ExpireStaleLogin, TypeOK, CheckInv, StartInv
<1>8. ASSUME NEW c \in Callers, Arm(c) \/ Push(c) \/ SubmitEnds(c) PROVE CheckInv(s)'
  BY <1>8 DEF Arm, Push, SubmitEnds, TypeOK, CheckInv, StartInv
<1>9. ASSUME NEW c \in Callers, NEW t \in Sessions, NEW f \in Fields, Submit(c, t, f) PROVE CheckInv(s)'
  BY <1>9 DEF Submit, TypeOK, CheckInv, StartInv
<1>10. ASSUME NEW d \in Deleters, Deletion(d) PROVE CheckInv(s)'
  BY <1>10 DEF Deletion, DeleteAwait, DeleteClose, DeleteDrop, DeleteRow, DeleteDir, CloseTd,
        TypeOK, CheckInv, StartInv
<1>11. ASSUME NEW d \in Deleters, NEW t \in Sessions, DeleteStart(d, t) PROVE CheckInv(s)'
  BY <1>11 DEF DeleteStart, TypeOK, CheckInv, StartInv
<1>12. CASE UNCHANGED vars
  BY <1>12 DEF vars, CheckInv, StartInv
<1>13. QED
  BY <1>1, <1>2, <1>3, <1>4, <1>5, <1>6, <1>7, <1>8, <1>9, <1>10, <1>11, <1>12 DEF Next

\* Nothing restarts a finished login.
LEMMA FinishedStays ==
    ASSUME TypeOK, [Next]_vars, NEW s \in Users, StartInv(s)
    PROVE  Stays(s)
<1> USE DEF registry, tdlib, memory, channels, goroutine, submits, history, Set
<1>1. ASSUME NEW t \in Sessions, Create(t) PROVE Stays(s)
  BY <1>1 DEF Create, CheckPending, Spend, PendingUserLogin, CreateUser, StartLogin,
        CreateUserFails, CreateBot, TypeOK, Stays, StartInv, Sessions
<1>2. ASSUME NEW t \in Sessions, BotRequest(t) PROVE Stays(s)
  BY <1>2 DEF BotRequest, BotResult, BotTimeout, BotForgets, BotErrs, BotSaves,
        UpdateSessionStatus, TypeOK, Stays, StartInv, Sessions
<1>3. ASSUME NEW t \in Sessions, Handle(t) PROVE Stays(s)
  BY <1>3 DEF Handle, HandleParams, HandleToken, HandlePhone, beginLogin, Fatal, CloseTd,
        HandleFails, HandleAwait, Want, Fields, TakeValue, TakeCancel, PhoneAnswered,
        CheckAnswered, TypeOK, Stays, StartInv, Sessions
<1>4. ASSUME NEW t \in Sessions, Finish(t) PROVE Stays(s)
  BY <1>4 DEF Finish, NewClientReturns, LoginFails, EndsWith, StoreClient, Declare, SaveStatus,
        AfterSave, Saving, UpdateSessionStatus, AccountRead, TypeOK, Stays, StartInv, Sessions
<1>5. ASSUME NEW t \in Sessions, TdClosed(t) PROVE Stays(s)
  BY <1>5 DEF TdClosed, TypeOK, Stays, StartInv, Sessions
<1>6. ASSUME NEW t \in Sessions, ResendCode(t) PROVE Stays(s)
  BY <1>6 DEF ResendCode, TypeOK, Stays, StartInv, Sessions
<1>7. ASSUME NEW t \in Sessions, ExpireStaleLogin(t) PROVE Stays(s)
  BY <1>7 DEF ExpireStaleLogin, TypeOK, Stays, StartInv, Sessions
<1>8. ASSUME NEW c \in Callers, Arm(c) \/ Push(c) \/ SubmitEnds(c) PROVE Stays(s)
  BY <1>8 DEF Arm, Push, SubmitEnds, TypeOK, Stays, StartInv, Sessions
<1>9. ASSUME NEW c \in Callers, NEW t \in Sessions, NEW f \in Fields, Submit(c, t, f) PROVE Stays(s)
  BY <1>9 DEF Submit, TypeOK, Stays, StartInv, Sessions
<1>10. ASSUME NEW d \in Deleters, Deletion(d) PROVE Stays(s)
  BY <1>10 DEF Deletion, DeleteAwait, DeleteClose, DeleteDrop, DeleteRow, DeleteDir, CloseTd,
        TypeOK, Stays, StartInv, Sessions
<1>11. ASSUME NEW d \in Deleters, NEW t \in Sessions, DeleteStart(d, t) PROVE Stays(s)
  BY <1>11 DEF DeleteStart, TypeOK, Stays, StartInv, Sessions
<1>12. CASE UNCHANGED vars
  BY <1>12 DEF vars, Stays, StartInv, Sessions
<1>13. QED
  BY <1>1, <1>2, <1>3, <1>4, <1>5, <1>6, <1>7, <1>8, <1>9, <1>10, <1>11, <1>12 DEF Next

\* Deletions.
LEMMA DeleteKeeps ==
    ASSUME TypeOK, [Next]_vars, NEW d \in Deleters, DeleteInv(d),
           \A s \in Sessions : StartInv(s) /\ InstanceInv(s)
    PROVE  DeleteInv(d)'
<1> USE DEF registry, tdlib, memory, channels, goroutine, submits, history, Set
<1>1. \A s \in Users : s \in Sessions /\ Stays(s)
  BY FinishedStays DEF Sessions
<1>2. CASE del'[d] = del[d]
  BY <1>1, <1>2 DEF DeleteInv, Stays
<1>3. CASE DeleteAwait(d)
  <2>1. del[d].s \in Users /\ del[d].s \in Sessions
    BY <1>1, <1>3 DEF DeleteAwait, DeleteInv
  <2>2. go' = go /\ td' = td
    BY <1>3 DEF DeleteAwait
  <2>3. CASE done[del[d].s] # "open" /\ At(d, "close")
    <3>1. del'[d].at = "close" /\ del'[d].s = del[d].s
      BY <1>3, <2>3, DelAt DEF DeleteAwait
    <3>2. QED
      BY <2>1, <2>2, <2>3, <3>1 DEF DeleteInv, InstanceInv
  <2>4. CASE del' = [del EXCEPT ![d].at = "close", ![d].awaits = FALSE]
    <3> DEFINE r == [del[d] EXCEPT !.at = "close", !.awaits = FALSE]
    <3>1. del[d] \in DelSet /\ del' = [del EXCEPT ![d] = r]
      BY <1>3, <2>4, Deleting DEF DeleteAwait
    <3>2. r.at = "close" /\ ~r.awaits
      BY <3>1 DEF DelSet
    <3> HIDE DEF r
    <3>3. QED
      BY <3>1, <3>2 DEF DeleteInv, TypeOK
  <2>5. QED
    BY <1>3, <2>3, <2>4 DEF DeleteAwait
<1>4. CASE DeleteClose(d)
  <2>1. /\ del[d].s \in Sessions /\ del'[d].at = "drop" /\ del'[d].s = del[d].s
        /\ del'[d].awaits = del[d].awaits /\ del[d].at = "close"
    BY <1>4, Deleting, DelAt DEF DeleteClose
  <2>2. go' = go
    BY <1>4 DEF DeleteClose
  <2>3. del[d].awaits => td'[del[d].s] \in {"none", "closing"}
    BY <1>4, <2>1 DEF DeleteClose, CloseTd, DeleteInv, InstanceInv, TypeOK
  <2>4. QED
    BY <2>1, <2>2, <2>3 DEF DeleteInv
<1>5. CASE DeleteDrop(d) \/ DeleteRow(d) \/ DeleteDir(d)
  <2>1. /\ del'[d].at \in {"row", "dir", "ended"} /\ del'[d].s = del[d].s
        /\ del'[d].awaits = del[d].awaits /\ del[d].at \in {"drop", "row", "dir"}
    <3>1. CASE DeleteDrop(d)
      BY <3>1, DelAt DEF DeleteDrop
    <3>2. CASE DeleteRow(d)
      BY <3>2, DelAt DEF DeleteRow
    <3>3. CASE DeleteDir(d)
      BY <3>3, DelAt DEF DeleteDir
    <3>4. QED
      BY <1>5, <3>1, <3>2, <3>3
  <2>2. go' = go /\ td' = td
    BY <1>5 DEF DeleteDrop, DeleteRow, DeleteDir
  <2>3. QED
    BY <2>1, <2>2 DEF DeleteInv
<1>6. ASSUME NEW s \in Sessions, DeleteStart(d, s) PROVE DeleteInv(d)'
  <2>1. PICK st \in {"await", "close", "row"}, b \in BOOLEAN :
           /\ del' = [del EXCEPT ![d] = [s |-> s, awaits |-> b, at |-> st]]
           /\ st = "await" <=> b
           /\ b => s \in Users
    BY <1>6 DEF DeleteStart, abortLogin
  <2>2. del'[d].s = s /\ del'[d].at = st /\ del'[d].awaits = b
    BY <2>1 DEF TypeOK
  <2>3. QED
    BY <2>1, <2>2 DEF DeleteInv
<1>7. ASSUME NEW e \in Deleters, e # d, Deletion(e) \/ \E s \in Sessions : DeleteStart(e, s)
      PROVE  del'[d] = del[d]
  BY <1>7 DEF Deletion, DeleteAwait, DeleteClose, DeleteDrop, DeleteRow, DeleteDir, DeleteStart, At,
        TypeOK
<1>8. ASSUME NEW s \in Sessions,
             \/ Create(s) \/ BotRequest(s) \/ Handle(s) \/ Finish(s)
             \/ TdClosed(s) \/ ResendCode(s) \/ ExpireStaleLogin(s)
      PROVE  del' = del
  BY <1>8 DEF Create, CheckPending, CreateUser, CreateUserFails, CreateBot,
        BotRequest, BotResult, BotTimeout, BotForgets, BotErrs, BotSaves,
        Handle, HandleParams, HandleToken, HandlePhone, HandleFails, HandleAwait, TakeValue,
        TakeCancel, PhoneAnswered, CheckAnswered, Finish, NewClientReturns, LoginFails,
        StoreClient, Declare, SaveStatus, AccountRead, TdClosed, ResendCode, ExpireStaleLogin
<1>9. ASSUME NEW c \in Callers, \/ \E s \in Sessions, f \in Fields : Submit(c, s, f)
                                \/ Arm(c) \/ Push(c) \/ SubmitEnds(c)
      PROVE  del' = del
  BY <1>9 DEF Submit, Arm, Push, SubmitEnds
<1>10. UNCHANGED vars => del' = del
  BY DEF vars
<1>11. CASE Deletion(d)
  BY <1>3, <1>4, <1>5, <1>11 DEF Deletion
<1>12. QED
  BY <1>2, <1>6, <1>7, <1>8, <1>9, <1>10, <1>11 DEF Next

\* Only submits, and the goroutine that takes and answers their values, touch what
\* submits are about.
LEMMA SubmitFrame ==
    ASSUME TypeOK, [Next]_vars
    PROVE  \/ UNCHANGED <<attempt, slot, checking, call, told, ahead>>
           \/ \E s \in Sessions : TakeValue(s) \/ CheckAnswered(s)
           \/ \E c \in Callers : \/ Arm(c) \/ Push(c) \/ SubmitEnds(c)
                                 \/ \E s \in Sessions, f \in Fields : Submit(c, s, f)
<1> USE DEF registry, tdlib, memory, channels, goroutine, submits, history, Set
<1>1. ASSUME NEW s \in Sessions,
             \/ Create(s) \/ BotRequest(s) \/ Handle(s) \/ Finish(s)
             \/ TdClosed(s) \/ ResendCode(s) \/ ExpireStaleLogin(s),
             ~TakeValue(s), ~CheckAnswered(s)
      PROVE  UNCHANGED <<attempt, slot, checking, call, told, ahead>>
  BY <1>1 DEF Create, CheckPending, CreateUser, CreateUserFails, CreateBot,
        BotRequest, BotResult, BotTimeout, BotForgets, BotErrs, BotSaves,
        Handle, HandleParams, HandleToken, HandlePhone, HandleFails, HandleAwait,
        TakeCancel, PhoneAnswered, Finish, NewClientReturns, LoginFails,
        StoreClient, Declare, SaveStatus, AccountRead, TdClosed, ResendCode, ExpireStaleLogin
<1>2. ASSUME NEW d \in Deleters, Deletion(d) \/ \E s \in Sessions : DeleteStart(d, s)
      PROVE  UNCHANGED <<attempt, slot, checking, call, told, ahead>>
  BY <1>2 DEF Deletion, DeleteAwait, DeleteClose, DeleteDrop, DeleteRow, DeleteDir, DeleteStart
<1>3. UNCHANGED vars => UNCHANGED <<attempt, slot, checking, call, told, ahead>>
  BY DEF vars
<1>4. QED
  BY <1>1, <1>2, <1>3 DEF Next

\* Submits.
LEMMA SubmitKeeps ==
    ASSUME TypeOK, [Next]_vars, NEW c \in Callers, SubmitInv(c), \A s \in Sessions : CheckInv(s)
    PROVE  SubmitInv(c)'
<1> USE DEF registry, tdlib, memory, channels, goroutine, submits, history, Set
<1>1. call[c].at # "none" => call[c].s \in Sessions /\ call[c].f \in Fields
  BY Calling
<1>2. c # None
  BY LoginAssumption
<1>3. CASE UNCHANGED <<attempt, slot, checking, call, told, ahead>>
  BY <1>3 DEF SubmitInv
<1>4. ASSUME NEW s \in Sessions, TakeValue(s) PROVE SubmitInv(c)'
  <2>1. /\ attempt' = attempt /\ call' = call /\ told' = told
        /\ checking[s] = None /\ checking' = [checking EXCEPT ![s] = slot[s][FieldOf(s)]]
        /\ slot' = [slot EXCEPT ![s] = [slot[s] EXCEPT ![FieldOf(s)] = None]]
    BY <1>4 DEF TakeValue, CheckInv
  <2>2. slot[s] \in [Fields -> Callers \cup {None}] /\ FieldOf(s) \in Fields
    BY DEF TypeOK, FieldOf, Fields
  <2>3. QED
    BY <1>1, <1>2, <2>1, <2>2 DEF SubmitInv, TypeOK
<1>5. ASSUME NEW s \in Sessions, CheckAnswered(s) PROVE SubmitInv(c)'
  <2>1. PICK v \in {"accepted", "rejected"} : reportAttempt(s, v)
    BY <1>5 DEF CheckAnswered
  <2>2. slot' = slot /\ call' = call /\ checking' = [checking EXCEPT ![s] = None]
    BY <1>5 DEF CheckAnswered
  <2>3. told'[c].is = "none" => told[c].is = "none" /\ attempt[s] # c
    BY <1>2, <2>1 DEF reportAttempt, TypeOK, Verdicts
  <2>4. \A t \in Sessions : t # s => attempt'[t] = attempt[t] /\ checking'[t] = checking[t]
    BY <2>1, <2>2 DEF reportAttempt, TypeOK
  <2>5. QED
    BY <1>1, <2>2, <2>3, <2>4 DEF SubmitInv
<1>6. ASSUME NEW e \in Callers, Arm(e) PROVE SubmitInv(c)'
  <2>1. call[e].s \in Sessions /\ slot' = slot /\ checking' = checking
    BY <1>6, Calling DEF Arm
  <2>2. /\ \A b \in Callers \ {e} : call'[b] = call[b]
        /\ call'[e].at = "push" /\ call'[e].s = call[e].s
    BY <1>6, CallAt DEF Arm
  <2>3. /\ attempt' = [attempt EXCEPT ![call[e].s] = e]
        /\ told' = IF attempt[call[e].s] = None THEN told
                   ELSE [told EXCEPT ![attempt[call[e].s]] = Lost]
    BY <1>6 DEF Arm
  <2>4. CASE c = e
    BY <2>1, <2>2, <2>3, <2>4 DEF SubmitInv, TypeOK
  <2>5. CASE c # e
    <3>1. told'[c].is = "none" => told[c].is = "none" /\ attempt[call[e].s] # c
      BY <1>2, <2>1, <2>3 DEF TypeOK, Lost
    <3>2. QED
      BY <1>1, <2>1, <2>2, <2>3, <2>5, <3>1 DEF SubmitInv, TypeOK
  <2>6. QED
    BY <2>4, <2>5
<1>7. ASSUME NEW e \in Callers, Push(e) PROVE SubmitInv(c)'
  <2>1. /\ call[e].s \in Sessions /\ call[e].f \in Fields /\ call[e].at = "push"
        /\ attempt' = attempt /\ checking' = checking /\ told' = told
    BY <1>7, Calling DEF Push
  <2>2. slot[call[e].s] \in [Fields -> Callers \cup {None}]
    BY <2>1 DEF TypeOK
  <2>3. CASE slot[call[e].s][call[e].f] = None
    <3>1. /\ slot' = [slot EXCEPT ![call[e].s] = [slot[call[e].s] EXCEPT ![call[e].f] = e]]
          /\ call' = [call EXCEPT ![e].at = "verdict"]
      BY <1>7, <2>3 DEF Push
    <3>2. /\ \A b \in Callers \ {e} : call'[b] = call[b]
          /\ call'[e].at = "verdict" /\ call'[e].s = call[e].s /\ call'[e].f = call[e].f
      BY <2>1, <3>1, CallAt
    <3>3. CASE c = e
      BY <2>1, <2>2, <3>1, <3>2, <3>3 DEF SubmitInv, TypeOK
    <3>4. CASE c # e
      BY <1>1, <1>2, <2>1, <2>2, <2>3, <3>1, <3>2, <3>4 DEF SubmitInv, TypeOK
    <3>5. QED
      BY <3>3, <3>4
  <2>4. CASE slot[call[e].s][call[e].f] # None
    <3>1. slot' = slot /\ call' = [call EXCEPT ![e].at = "ended"]
      BY <1>7, <2>4 DEF Push, Ended
    <3>2. (\A b \in Callers \ {e} : call'[b] = call[b]) /\ call'[e].at = "ended"
      BY <2>1, <3>1, CallAt
    <3>3. QED
      BY <2>1, <3>1, <3>2 DEF SubmitInv
  <2>5. QED
    BY <2>3, <2>4
<1>8. ASSUME NEW e \in Callers, SubmitEnds(e) PROVE SubmitInv(c)'
  <2>1. attempt' = attempt /\ slot' = slot /\ checking' = checking /\ told' = told
    BY <1>8 DEF SubmitEnds
  <2>2. (\A b \in Callers \ {e} : call'[b] = call[b]) /\ call'[e].at = "ended"
    BY <1>8, CallAt DEF SubmitEnds, Ended
  <2>3. QED
    BY <2>1, <2>2 DEF SubmitInv
<1>9. ASSUME NEW e \in Callers, NEW s \in Sessions, NEW f \in Fields, Submit(e, s, f)
      PROVE  SubmitInv(c)'
  <2>1. attempt' = attempt /\ slot' = slot /\ checking' = checking /\ told' = told
    BY <1>9 DEF Submit
  <2>2. (\A b \in Callers \ {e} : call'[b] = call[b]) /\ call'[e].at = "arm"
    BY <1>9 DEF Submit, TypeOK
  <2>3. QED
    BY <2>1, <2>2 DEF SubmitInv
<1>10. QED
  BY <1>3, <1>4, <1>5, <1>6, <1>7, <1>8, <1>9, SubmitFrame

\* What a submit is told is of its own value or of one ahead of it.
LEMMA OwnKeeps ==
    ASSUME TypeOK, [Next]_vars, NEW c \in Callers, OwnInv(c),
           \A s \in Sessions : CheckInv(s) /\ AheadInv(s)
    PROVE  OwnInv(c)'
<1> USE DEF registry, tdlib, memory, channels, goroutine, submits, history, Set
<1>1. c # None
  BY LoginAssumption
<1>2. CASE UNCHANGED <<attempt, slot, checking, call, told, ahead>>
  BY <1>2 DEF OwnInv
<1>3. ASSUME NEW s \in Sessions, TakeValue(s) PROVE OwnInv(c)'
  <2>1. UNCHANGED <<attempt, call, told, ahead>>
    BY <1>3 DEF TakeValue
  <2>2. QED
    BY <2>1 DEF OwnInv
<1>4. ASSUME NEW s \in Sessions, CheckAnswered(s) PROVE OwnInv(c)'
  <2>1. PICK v \in {"accepted", "rejected"} : reportAttempt(s, v)
    BY <1>4 DEF CheckAnswered
  <2>2. UNCHANGED <<call, ahead>> /\ checking[s] \in Callers
    BY <1>4 DEF CheckAnswered, CheckInv, TypeOK
  <2>3. \A t \in Sessions : attempt'[t] # c \/ attempt'[t] = attempt[t]
    BY <1>1, <2>1 DEF reportAttempt, TypeOK
  <2>4. CASE attempt[s] = c
    <3>1. checking[s] \in ahead[c] \cup {c}
      BY <1>1, <2>2, <2>4 DEF AheadInv, Unchecked
    <3>2. told'[c] = [is |-> v, of |-> checking[s]]
      BY <1>1, <2>1, <2>4 DEF reportAttempt, TypeOK
    <3>3. call[c].at \notin {"none", "arm"}
      BY <2>4 DEF OwnInv
    <3>4. QED
      BY <2>2, <3>1, <3>2, <3>3 DEF OwnInv
  <2>5. CASE attempt[s] # c
    <3>1. told'[c] = told[c]
      BY <2>1, <2>5 DEF reportAttempt, TypeOK
    <3>2. QED
      BY <2>2, <2>3, <3>1 DEF OwnInv
  <2>6. QED
    BY <2>4, <2>5
<1>5. ASSUME NEW e \in Callers, Arm(e) PROVE OwnInv(c)'
  <2>1. call[e].s \in Sessions /\ call[e].at = "arm"
    BY <1>5, Calling DEF Arm
  <2>2. /\ \A b \in Callers \ {e} : call'[b] = call[b]
        /\ call'[e].at = "push"
    BY <1>5, CallAt DEF Arm
  <2>3. /\ attempt' = [attempt EXCEPT ![call[e].s] = e]
        /\ told' = IF attempt[call[e].s] = None THEN told
                   ELSE [told EXCEPT ![attempt[call[e].s]] = Lost]
        /\ \A b \in Callers \ {e} : ahead'[b] = ahead[b]
    BY <1>5 DEF Arm, TypeOK
  <2>4. told'[c] = told[c] \/ (told'[c] = Lost /\ attempt[call[e].s] = c)
    BY <2>3 DEF TypeOK
  <2>5. Lost.is = "lost"
    BY DEF Lost
  <2>6. CASE c = e
    <3>1. told[c].is = "none" /\ attempt[call[e].s] # c
      BY <2>1, <2>6 DEF OwnInv
    <3>2. QED
      BY <2>2, <2>4, <2>6, <3>1 DEF OwnInv
  <2>7. CASE c # e
    <3>1. \A t \in Sessions : attempt'[t] = c => attempt[t] = c
      BY <2>1, <2>3, <2>7 DEF TypeOK
    <3>2. call'[c] = call[c] /\ ahead'[c] = ahead[c]
      BY <2>2, <2>3, <2>7
    <3>3. QED
      BY <2>1, <2>4, <2>5, <3>1, <3>2 DEF OwnInv
  <2>8. QED
    BY <2>6, <2>7
<1>6. ASSUME NEW e \in Callers, Push(e) \/ SubmitEnds(e) PROVE OwnInv(c)'
  <2>1. UNCHANGED <<attempt, told, ahead>>
    BY <1>6 DEF Push, SubmitEnds
  <2>2. (\A b \in Callers \ {e} : call'[b] = call[b]) /\ call'[e].at \in {"verdict", "ended"}
    BY <1>6, CallAt DEF Push, SubmitEnds, Ended
  <2>3. QED
    BY <2>1, <2>2 DEF OwnInv
<1>7. ASSUME NEW e \in Callers, NEW s \in Sessions, NEW f \in Fields, Submit(e, s, f)
      PROVE  OwnInv(c)'
  <2>1. UNCHANGED <<attempt, told, ahead>> /\ call[e].at = "none"
    BY <1>7 DEF Submit, NoCall
  <2>2. (\A b \in Callers \ {e} : call'[b] = call[b]) /\ call'[e].at = "arm"
    BY <1>7 DEF Submit, TypeOK
  <2>3. QED
    BY <2>1, <2>2 DEF OwnInv
<1>8. QED
  BY <1>2, <1>3, <1>4, <1>5, <1>6, <1>7, SubmitFrame

\* The values still to be answered.
LEMMA AheadKeeps ==
    ASSUME TypeOK, [Next]_vars, NEW s \in Sessions, AheadInv(s), \A c \in Callers : OwnInv(c)
    PROVE  AheadInv(s)'
<1> USE DEF registry, tdlib, memory, channels, goroutine, submits, history, Set
<1>1. ASSUME attempt'[s] = attempt[s], ahead' = ahead, Unchecked(s)' \subseteq Unchecked(s)
      PROVE  AheadInv(s)'
  BY <1>1 DEF AheadInv
<1>2. CASE UNCHANGED <<attempt, slot, checking, call, told, ahead>>
  BY <1>1, <1>2 DEF Unchecked
<1>3. ASSUME NEW t \in Sessions, TakeValue(t) PROVE AheadInv(s)'
  <2>1. /\ UNCHANGED <<attempt, call, ahead>>
        /\ checking' = [checking EXCEPT ![t] = slot[t][FieldOf(t)]]
        /\ slot' = [slot EXCEPT ![t] = [slot[t] EXCEPT ![FieldOf(t)] = None]]
    BY <1>3 DEF TakeValue
  <2>2. FieldOf(t) \in Fields /\ slot[s] \in [Fields -> Callers \cup {None}] /\ None \notin Callers
    BY LoginAssumption DEF TypeOK, FieldOf, Fields
  <2>3. \A d \in Callers : checking'[s] = d => checking[s] = d \/ \E f \in Fields : slot[s][f] = d
    BY <2>1, <2>2 DEF TypeOK
  <2>4. \A d \in Callers, f \in Fields : slot'[s][f] = d => slot[s][f] = d
    BY <2>1, <2>2 DEF TypeOK
  <2>5. Unchecked(s)' \subseteq Unchecked(s)
    BY <2>1, <2>3, <2>4 DEF Unchecked
  <2>6. QED
    BY <1>1, <2>1, <2>5
<1>4. ASSUME NEW t \in Sessions, CheckAnswered(t) PROVE AheadInv(s)'
  <2>1. /\ UNCHANGED <<call, ahead, slot>>
        /\ attempt' = [attempt EXCEPT ![t] = None]
        /\ checking' = [checking EXCEPT ![t] = None]
    BY <1>4 DEF CheckAnswered, reportAttempt
  <2>2. CASE t = s
    BY <2>1, <2>2 DEF AheadInv, TypeOK
  <2>3. CASE t # s
    <3>1. attempt'[s] = attempt[s] /\ checking'[s] = checking[s]
      BY <2>1, <2>3 DEF TypeOK
    <3>2. QED
      BY <1>1, <2>1, <3>1 DEF Unchecked
  <2>4. QED
    BY <2>2, <2>3
<1>5. ASSUME NEW e \in Callers, Arm(e) PROVE AheadInv(s)'
  <2>1. /\ call[e].at = "arm" /\ call[e].s \in Sessions /\ UNCHANGED <<slot, checking>>
        /\ attempt' = [attempt EXCEPT ![call[e].s] = e]
        /\ ahead' = [ahead EXCEPT ![e] = Unchecked(call[e].s)]
    BY <1>5, Calling DEF Arm
  <2>2. /\ \A b \in Callers \ {e} : call'[b] = call[b]
        /\ call'[e].at = "push" /\ call'[e].s = call[e].s
    BY <1>5, CallAt DEF Arm
  <2>3. CASE call[e].s = s
    <3>1. attempt'[s] = e /\ ahead'[e] = Unchecked(s)
      BY <2>1, <2>3 DEF TypeOK
    <3>2. Unchecked(s)' \subseteq Unchecked(s) \cup {e}
      BY <2>1, <2>2 DEF Unchecked
    <3>3. QED
      BY <3>1, <3>2 DEF AheadInv
  <2>4. CASE call[e].s # s
    <3>1. attempt'[s] = attempt[s] /\ attempt[s] # e
      BY <2>1, <2>4 DEF TypeOK, OwnInv
    <3>2. Unchecked(s)' \subseteq Unchecked(s)
      BY <2>1, <2>2, <2>4 DEF Unchecked
    <3>3. attempt[s] # None => attempt[s] \in Callers
      BY DEF TypeOK
    <3>4. attempt[s] # None => ahead'[attempt[s]] = ahead[attempt[s]]
      BY <2>1, <3>1, <3>3 DEF TypeOK
    <3>5. QED
      BY <3>1, <3>2, <3>4 DEF AheadInv
  <2>5. QED
    BY <2>3, <2>4
<1>6. ASSUME NEW e \in Callers, Push(e) PROVE AheadInv(s)'
  <2>1. /\ call[e].at = "push" /\ call[e].s \in Sessions /\ call[e].f \in Fields
        /\ UNCHANGED <<attempt, checking, ahead>>
    BY <1>6, Calling DEF Push
  <2>2. (\A b \in Callers \ {e} : call'[b] = call[b]) /\ call'[e].at \in {"verdict", "ended"}
    BY <1>6, CallAt DEF Push, Ended
  <2>3. \/ slot' = slot
        \/ slot' = [slot EXCEPT ![call[e].s] = [slot[call[e].s] EXCEPT ![call[e].f] = e]]
    BY <1>6 DEF Push
  <2>4. \A d \in Callers, f \in Fields :
           slot'[s][f] = d => slot[s][f] = d \/ (d = e /\ call[e].s = s)
    <3>1. slot[call[e].s] \in [Fields -> Callers \cup {None}]
      BY <2>1 DEF TypeOK
    <3> DEFINE b == [slot[call[e].s] EXCEPT ![call[e].f] = e]
    <3>2. \A d \in Callers, f \in Fields : b[f] = d => slot[call[e].s][f] = d \/ d = e
      BY <3>1
    <3>3. slot' = slot \/ slot' = [slot EXCEPT ![call[e].s] = b]
      BY <2>3
    <3> HIDE DEF b
    <3>4. QED
      BY <2>1, <3>2, <3>3 DEF TypeOK
  <2>5. Unchecked(s)' \subseteq Unchecked(s)
    BY <2>1, <2>2, <2>4 DEF Unchecked
  <2>6. QED
    BY <1>1, <2>1, <2>5
<1>7. ASSUME NEW e \in Callers, \/ SubmitEnds(e)
                                \/ \E t \in Sessions, f \in Fields : Submit(e, t, f)
      PROVE  AheadInv(s)'
  <2>1. UNCHANGED <<attempt, slot, checking, ahead>>
    BY <1>7 DEF SubmitEnds, Submit
  <2>2. (\A b \in Callers \ {e} : call'[b] = call[b]) /\ call'[e].at \in {"arm", "ended"}
    BY <1>7, CallAt DEF Submit, SubmitEnds, Ended, TypeOK
  <2>3. Unchecked(s)' \subseteq Unchecked(s)
    BY <2>1, <2>2 DEF Unchecked
  <2>4. QED
    BY <1>1, <2>1, <2>3
<1>8. QED
  BY <1>2, <1>3, <1>4, <1>5, <1>6, <1>7, SubmitFrame

\* Every step keeps the invariant.
LEMMA Step == LoginInv /\ [Next]_vars => LoginInv'
<1> SUFFICES ASSUME LoginInv, [Next]_vars PROVE LoginInv'
  OBVIOUS
<1>1. TypeOK /\ \A s \in Users : s \in Sessions
  BY DEF LoginInv, Sessions
<1>2. TypeOK'
  BY <1>1, TypeStep
<1>3. \A s \in Sessions : StartInv(s)' /\ CodeInv(s)' /\ CheckInv(s)'
  BY <1>1, StartKeeps, CodeKeeps, CheckKeeps DEF LoginInv
<1>4. \A s \in Sessions : RowInv(s)' /\ ClientInv(s)' /\ InstanceInv(s)'
  BY <1>1, RowKeeps, ClientKeeps, InstanceKeeps DEF LoginInv
<1>5. \A s \in Sessions : AheadInv(s)'
  BY <1>1, AheadKeeps DEF LoginInv
<1>6. \A d \in Deleters : DeleteInv(d)'
  BY <1>1, DeleteKeeps DEF LoginInv
<1>7. \A c \in Callers : SubmitInv(c)' /\ OwnInv(c)'
  BY <1>1, SubmitKeeps, OwnKeeps DEF LoginInv
<1>8. QED
  BY <1>2, <1>3, <1>4, <1>5, <1>6, <1>7 DEF LoginInv

\* The invariant always holds.
LEMMA Always == Spec => []LoginInv
<1>1. Init => LoginInv
  BY Start
<1>2. LoginInv /\ [Next]_vars => LoginInv'
  BY Step
<1>3. QED
  BY <1>1, <1>2, PTL DEF Spec

-----------------------------------------------------------------------------
(* Theorems.                                                               *)

\* However many values are refused and logins restarted, Telegram sends one login code
\* per create and one per resend (EveryCodeAskedFor).
THEOREM CodesAskedFor == Spec => []EveryCodeAskedFor
<1>1. LoginInv => EveryCodeAskedFor
  BY DEF LoginInv, EveryCodeAskedFor, CodeInv, TypeOK
<1>2. QED
  BY <1>1, Always, PTL

\* A submit whose value has been checked finds a verdict in its channel, or was
\* disarmed by a later submit; the verdict is of its own value or of one that was not
\* answered yet when it armed (VerdictReachesSubmitter).
THEOREM VerdictsReach == Spec => []VerdictReachesSubmitter
<1>1. LoginInv => VerdictReachesSubmitter
  BY DEF LoginInv, VerdictReachesSubmitter, SubmitInv, OwnInv
<1>2. QED
  BY <1>1, Always, PTL

\* A session that says authorized has its client, unless it is a bot whose request
\* gave up waiting (AuthorizedHasClient).
THEOREM AuthorizedMeansClient == Spec => []AuthorizedHasClient
<1>1. LoginInv => AuthorizedHasClient
  BY DEF LoginInv, AuthorizedHasClient, ClientInv
<1>2. QED
  BY <1>1, Always, PTL

\* A user login's row shows its status in memory, but for a failed write, a peer that
\* expired it and a deletion (RowMirrorsStatus).
THEOREM RowsMirror == Spec => []RowMirrorsStatus
<1>1. LoginInv => RowMirrorsStatus
  BY DEF LoginInv, RowMirrorsStatus, RowInv, Sessions
<1>2. QED
  BY <1>1, Always, PTL

\* A deletion that aborted the login and waited for its end removes the directory of no running instance
\* (AbortedIsGone).
THEOREM AbortsComplete == Spec => []AbortedIsGone
<1>1. LoginInv => AbortedIsGone
  BY DEF LoginInv, AbortedIsGone, DeleteInv
<1>2. QED
  BY <1>1, Always, PTL
=============================================================================
