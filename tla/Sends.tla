------------------------------- MODULE Sends -------------------------------
(***************************************************************************)
(* Sends, from the call to the registry.  TDLib answers a send at once     *)
(* with messages under temporary ids; what became of a message comes on    *)
(* the update stream, perhaps before the call has noted the id.  The       *)
(* worker keeps, by temporary id, the uploads to remove when the outcome   *)
(* is known, and hands outcomes through a bounded queue to a writer that   *)
(* puts them into the registry, where clients ask for them.                *)
(*                                                                         *)
(* Source: internal/session/sends.go, internal/session/uploads.go,         *)
(* internal/store/store.go, and the tail of Manager.Call.  Composed with   *)
(* Uploads.                                                                *)
(***************************************************************************)
EXTENDS Uploads, FiniteSets

CONSTANTS
    Msgs,       \* messages, by what keys them in the registry: session, chat, id
    IdOf,       \* IdOf[m]: the temporary id alone
    Calls,      \* calls, each made at most once
    MsgsOf,     \* MsgsOf[c]: the messages call c sends, two or more for an album
    Scheduled,  \* the calls that schedule their messages
    SendQueue,  \* sendQueue
    Budgets     \* how many uploads, requests, sends, faults and purges there may be: the
                \* alternatives an instance starts from

Acts == {"upload", "request", "send", "fault", "purge"}
Ids  == {IdOf[m] : m \in Msgs}

ASSUME SendsAssumption ==
    /\ MsgsOf \in [Calls -> SUBSET Msgs]
    /\ \A c, d \in Calls : c # d => MsgsOf[c] \cap MsgsOf[d] = {}
    /\ IdOf \in [Msgs -> Ids]
    /\ Scheduled \subseteq Calls
    /\ SendQueue \in Nat \ {0}
    /\ Budgets \subseteq [Acts -> Nat]

VARIABLES
    td,        \* td[m]: the message in TDLib
    news,      \* messages whose outcome is on the update stream, unhandled
    pending,   \* pending[i]: the upload directories to remove with id i
    queue,     \* m.sends: resolved sends on their way to the registry
    call,      \* call[c]
    row,       \* row[m]: its status in sent_message
    lost,      \* history: outcomes dropped, or not recorded
    budget

sendVars == <<td, news, pending, queue, call, row, lost>>
vars     == <<stage, length, file, there, old, doomed, handed, app, aged, aborted,
              td, news, pending, queue, call, row, lost, budget>>

Outcomes == {"sent", "failed"}
Underway == {"sending", "scheduled"}
NoCall   == [ups |-> {}, left |-> {}, at |-> "none"]
CallSet  == [ups : SUBSET Uploads, left : SUBSET Msgs, at : {"track", "register", "ended"}]

TypeOK ==
    /\ UploadsTypeOK
    /\ td \in [Msgs -> {"none"} \cup Underway \cup Outcomes]
    /\ news \subseteq Msgs
    /\ pending \in [Ids -> SUBSET Uploads]
    /\ queue \in Seq([m : Msgs, out : Outcomes])
    /\ Len(queue) <= SendQueue
    /\ call \in [Calls -> CallSet \cup {NoCall}]
    /\ row \in [Msgs -> {"none", "pending"} \cup Outcomes]
    /\ lost \subseteq Msgs
    /\ budget \in [Acts -> Nat]

Spend(k) ==
    /\ budget[k] > 0
    /\ budget' = [budget EXCEPT ![k] = @ - 1]

-----------------------------------------------------------------------------
(* Call, from guardLocalPaths on.                                          *)

\* A call whose files are all on the uploads volume reaches TDLib, which answers with
\* the messages, sending or scheduled.  An answer that names no message (a profile
\* photo) is a call of no messages.
Send(c, ups) ==
    /\ call[c] = NoCall
    /\ ups \subseteq handed
    /\ Spend("send")
    /\ td' = [m \in Msgs |-> IF m \notin MsgsOf[c] THEN td[m]
                            ELSE IF c \in Scheduled THEN "scheduled" ELSE "sending"]
    /\ call' = [call EXCEPT ![c] =
          [ups |-> ups, left |-> IF c \in Scheduled THEN {} ELSE MsgsOf[c], at |-> "track"]]
    /\ UNCHANGED <<uploadVars, news, pending, queue, row, lost>>

\* trackUpload: all the call's directories under each of its messages' ids.
trackUpload(c) ==
    /\ call[c].at = "track"
    /\ pending' = IF call[c].ups = {} THEN pending
                  ELSE [i \in Ids |-> IF \E m \in MsgsOf[c] : IdOf[m] = i
                                      THEN call[c].ups ELSE pending[i]]
    /\ call' = [call EXCEPT ![c].at = "register"]
    /\ UNCHANGED <<uploadVars, td, news, queue, row, lost, budget>>

\* Variant of RegisterSend: the registration overwrites.
RegisterSendOver(m) == row' = [row EXCEPT ![m] = "pending"]

\* INSERT ... ON CONFLICT DO NOTHING.
RegisterSend(m) == row' = [row EXCEPT ![m] = IF @ = "none" THEN "pending" ELSE @]

\* registerSends: a statement per message that was still sending in the answer; one
\* that fails is only logged.
registerSends(c) ==
    /\ call[c].at = "register"
    /\ \/ \E m \in call[c].left :
             /\ \/ RegisterSend(m) /\ UNCHANGED budget
                \/ Spend("fault") /\ UNCHANGED row
             /\ call' = [call EXCEPT ![c].left = @ \ {m}]
       \/ /\ call[c].left = {}
          /\ call' = [call EXCEPT ![c].at = "ended"]
          /\ UNCHANGED <<row, budget>>
    /\ UNCHANGED <<uploadVars, td, news, pending, queue, lost>>

-----------------------------------------------------------------------------
(* The outcome.                                                            *)

\* TDLib has sent the message, or given up.
Resolves(m, out) ==
    /\ td[m] \in Underway
    /\ td' = [td EXCEPT ![m] = out]
    /\ news' = news \cup {m}
    /\ UNCHANGED <<uploadVars, pending, queue, call, row, lost, budget>>

\* finishUpload: what is kept under the id goes, directories and entry.
finishUpload(m) ==
    /\ there' = there \ pending[IdOf[m]]
    /\ pending' = [pending EXCEPT ![IdOf[m]] = {}]

\* Variant of noteSendOutcome: only a success is an outcome.
noteSendSuccess(m) ==
    IF td[m] = "sent" /\ Len(queue) < SendQueue
    THEN queue' = Append(queue, [m |-> m, out |-> td[m]]) /\ UNCHANGED lost
    ELSE UNCHANGED <<queue, lost>>

\* The non-blocking handoff to the writer: a full queue drops the outcome.
noteSendOutcome(m) ==
    IF Len(queue) < SendQueue
    THEN queue' = Append(queue, [m |-> m, out |-> td[m]]) /\ UNCHANGED lost
    ELSE lost' = lost \cup {m} /\ UNCHANGED queue

\* updateHandler, for updateMessageSendSucceeded and updateMessageSendFailed.
updateHandler(m) ==
    /\ m \in news
    /\ news' = news \ {m}
    /\ finishUpload(m)
    /\ noteSendOutcome(m)
    /\ UNCHANGED <<stage, length, file, old, doomed, handed, app, aged, aborted,
                   td, call, row, budget>>

\* runSendWriter: RecordSendOutcome puts the outcome in, over whatever is there.
runSendWriter ==
    /\ queue # <<>>
    /\ queue' = Tail(queue)
    /\ \/ /\ row' = [row EXCEPT ![Head(queue).m] = Head(queue).out]
          /\ UNCHANGED <<lost, budget>>
       \/ /\ Spend("fault")
          /\ lost' = lost \cup {Head(queue).m}
          /\ UNCHANGED row
    /\ UNCHANGED <<uploadVars, td, news, pending, call>>

\* SEND_TTL has passed since the row was made: the call that made it is long over.
PurgeSends(m) ==
    /\ row[m] # "none"
    /\ \A c \in Calls : m \in MsgsOf[c] => call[c].at = "ended"
    /\ Spend("purge")
    /\ row' = [row EXCEPT ![m] = "none"]
    /\ UNCHANGED <<uploadVars, td, news, pending, queue, call, lost>>

\* The worker dies, or hands the session over: its maps, queue and calls are gone, and
\* updates TDLib had not handed over may be.
Crash ==
    /\ Spend("fault")
    /\ pending' = [i \in Ids |-> {}]
    /\ queue' = <<>>
    /\ call' = [c \in Calls |-> IF call[c].at \in {"track", "register"}
                                THEN [call[c] EXCEPT !.at = "ended", !.left = {}] ELSE call[c]]
    /\ \E gone \in SUBSET news :
          /\ news' = news \ gone
          /\ lost' = lost \cup gone \cup {queue[i].m : i \in 1 .. Len(queue)}
    /\ UNCHANGED <<uploadVars, td, row>>

-----------------------------------------------------------------------------
Init ==
    /\ UploadsInit
    /\ td = [m \in Msgs |-> "none"]
    /\ news = {}
    /\ pending = [i \in Ids |-> {}]
    /\ queue = <<>>
    /\ call = [c \in Calls |-> NoCall]
    /\ row = [m \in Msgs |-> "none"]
    /\ lost = {}
    /\ budget \in Budgets

\* The upload store; the budget bounds what clients begin.
Store ==
    /\ \/ Shoots /\ Spend("upload")
       \/ Asks /\ Spend("request")
       \/ Proceeds /\ UNCHANGED budget
    /\ UNCHANGED sendVars

Handle == \E m \in Msgs : updateHandler(m)

Next ==
    \/ Store
    \/ \E c \in Calls : \/ \E ups \in SUBSET handed : Send(c, ups)
                        \/ trackUpload(c) \/ registerSends(c)
    \/ \E m \in Msgs : PurgeSends(m) \/ \E out \in Outcomes : Resolves(m, out)
    \/ Handle \/ runSendWriter \/ Crash

\* TDLib's receiver and the writer are loops; the sweep runs every ten minutes.
Fairness ==
    /\ WF_vars(Handle) /\ WF_vars(runSendWriter)
    /\ UploadFairness

Spec == Init /\ [][Next]_vars /\ Fairness

-----------------------------------------------------------------------------
(* Properties.                                                             *)

\* The registry never shows an outcome that is not the message's, and once an outcome
\* is there a registration that lands late leaves it alone: a client sees pending only
\* while the outcome is still on its way, or was dropped, failed to be written or fell
\* to a crash (RegisterSend, RecordSendOutcome).
RowTellsOutcome ==
    \A m \in Msgs :
        /\ row[m] \in Outcomes => row[m] = td[m]
        /\ (row[m] = "pending" /\ td[m] \in Outcomes) =>
              \/ m \in news \cup lost
              \/ \E i \in 1 .. Len(queue) : queue[i].m = m

\* The uploads of a call are there for TDLib to read until one of its messages, or a
\* message of the same temporary id, is confirmed: nothing else but the client, another
\* call of the same uploads, or a time as long as UPLOAD_TTL without a chunk takes them
\* away (finishUpload, Sweep).
UploadsKept ==
    \A c \in Calls :
        (/\ \A m \in MsgsOf[c], k \in Msgs : IdOf[k] = IdOf[m] => td[k] \notin Outcomes
         /\ \A d \in Calls \ {c} : call[d].ups \cap call[c].ups = {})
            => call[c].ups \subseteq there \cup aged \cup aborted

\* Every outcome TDLib reports leaves pending in the end, if it is not dropped or its
\* write does not fail (runSendWriter).
SendsResolve ==
    \A m \in Msgs : (row[m] = "pending" /\ m \in news) ~> (row[m] # "pending" \/ m \in lost)

\* No upload stays on the volume for ever, sent or not, whatever the worker that knew
\* of it forgot (Sweep).
UploadsGo == \A u \in Uploads : u \in there ~> u \notin there
=============================================================================
