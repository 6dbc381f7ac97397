------------------------------ MODULE Uploads ------------------------------
(***************************************************************************)
(* The upload store: files a client sends to a gateway, in one request or  *)
(* in chunks, on a volume the workers share.  Gateways serve any number of *)
(* requests at once without a lock, and every worker sweeps the volume:    *)
(* a chunk's check, its read and its write are separate steps, and so are  *)
(* a sweep's look at a directory and its removal.                          *)
(*                                                                         *)
(* A file is the sequence of its bytes.  Byte i of what the client means   *)
(* to upload is written i, a byte nobody wrote is 0.                       *)
(*                                                                         *)
(* Source: internal/upload/store.go, internal/router/files.go.  The        *)
(* module has no specification of its own: Sends composes it.              *)
(***************************************************************************)
EXTENDS Integers, Sequences

CONSTANTS
    Uploads,    \* upload ids; newID never repeats one
    Appends,    \* chunk requests, each made at most once
    Lengths,    \* the sizes of the files clients upload
    MaxTotal,   \* maxTotal
    Chunks      \* the sizes of the chunks they send

ASSUME UploadsAssumption ==
    /\ Lengths \subseteq Nat
    /\ MaxTotal \in Nat
    /\ Chunks \subseteq Nat \ {0}

VARIABLES
    stage,      \* stage[u]: how the upload was started
    length,     \* length[u]: the size of the client's file
    file,       \* file[u]: the bytes in the file
    there,      \* the uploads whose directory exists
    old,        \* those whose directory was last modified more than the TTL ago
    doomed,     \* those a sweep has found old and is about to remove
    handed,     \* those whose path a client was told
    app,        \* app[a]: a chunk request
    aged,       \* history: those that have been old
    aborted     \* history: those a client has deleted

uploadVars == <<stage, length, file, there, old, doomed, handed, app, aged, aborted>>

Stages == {"none", "streaming", "single", "failed", "resumable"}
NoApp  == [u |-> "none", off |-> 0, n |-> 0, at |-> "none"]
AppSet == [u : Uploads, off : Nat, n : Nat, at : {"read", "write", "ended"}]

UploadsTypeOK ==
    /\ stage \in [Uploads -> Stages]
    /\ length \in [Uploads -> Nat]
    /\ file \in [Uploads -> Seq(Nat)]
    /\ there \subseteq Uploads
    /\ old \subseteq Uploads
    /\ doomed \subseteq Uploads
    /\ handed \subseteq Uploads
    /\ app \in [Appends -> AppSet \cup {NoApp}]
    /\ aged \subseteq Uploads
    /\ aborted \subseteq Uploads

UploadsInit ==
    /\ stage = [u \in Uploads |-> "none"]
    /\ length = [u \in Uploads |-> 0]
    /\ file = [u \in Uploads |-> <<>>]
    /\ there = {} /\ old = {} /\ doomed = {} /\ handed = {}
    /\ app = [a \in Appends |-> NoApp]
    /\ aged = {} /\ aborted = {}

-----------------------------------------------------------------------------
Larger(a, b) == IF a < b THEN b ELSE a

\* The first n bytes of a client's file.
Bytes(n) == [i \in 1 .. n |-> i]

\* Variant of WriteAt: the chunk goes to where the file ends now.
WriteAtEnd(f, off, n) ==
    [i \in 1 .. Len(f) + n |-> IF i <= Len(f) THEN f[i] ELSE off + i - Len(f)]

\* n bytes of the client's file, from its offset off, written at that offset.
WriteAt(f, off, n) ==
    [i \in 1 .. Larger(Len(f), off + n) |->
        IF off < i /\ i <= off + n THEN i ELSE IF i <= Len(f) THEN f[i] ELSE 0]

\* Status, and the Stat of Append and Complete.
Received(u) == Len(file[u])

\* readMeta finds the directory, and metadata in it.
HasMeta(u) == u \in there /\ stage[u] = "resumable"

Fresh(u, st, n) ==
    /\ stage[u] = "none"
    /\ stage' = [stage EXCEPT ![u] = st]
    /\ length' = [length EXCEPT ![u] = n]
    /\ there' = there \cup {u}

\* createOrUpload without Upload-Length: the body is streamed into a new directory.
SingleShot(u, n) ==
    /\ Fresh(u, "streaming", n)
    /\ UNCHANGED <<file, old, doomed, handed, app, aged, aborted>>

\* The body has arrived; what is written to a directory removed meanwhile is lost,
\* unnoticed.  A body that breaks off or is too large takes the directory with it.
SingleShotEnds(u) ==
    /\ stage[u] = "streaming"
    /\ \/ /\ stage' = [stage EXCEPT ![u] = "single"]
          /\ handed' = handed \cup {u}
          /\ file' = IF u \in there THEN [file EXCEPT ![u] = Bytes(length[u])] ELSE file
          /\ UNCHANGED there
       \/ /\ stage' = [stage EXCEPT ![u] = "failed"]
          /\ there' = there \ {u}
          /\ UNCHANGED <<handed, file>>
    /\ UNCHANGED <<length, old, doomed, app, aged, aborted>>

Create(u, n) ==
    /\ n > 0 /\ n <= MaxTotal
    /\ Fresh(u, "resumable", n)
    /\ UNCHANGED <<file, old, doomed, handed, app, aged, aborted>>

\* appendChunk, up to the read of the body: the offset is the current size.
AppendChecks(a, u, n) ==
    /\ app[a] = NoApp
    /\ HasMeta(u)
    /\ app' = [app EXCEPT ![a] = [u |-> u, off |-> Received(u), n |-> n, at |-> "read"]]
    /\ UNCHANGED <<stage, length, file, there, old, doomed, handed, aged, aborted>>

AppendEnds(a) == app' = [app EXCEPT ![a].at = "ended"]

\* The body is read and the file opened - or the body breaks off, is too long, or the
\* file is gone.
AppendReads(a) ==
    /\ app[a].at = "read"
    /\ \/ /\ app[a].off + app[a].n <= length[app[a].u]
          /\ app[a].u \in there
          /\ app' = [app EXCEPT ![a].at = "write"]
       \/ AppendEnds(a)
    /\ UNCHANGED <<stage, length, file, there, old, doomed, handed, aged, aborted>>

\* The chunk is written and the directory's time refreshed; a write that fails has
\* written any part of it and refreshes nothing.
AppendWrites(a) ==
    /\ app[a].at = "write"
    /\ LET u == app[a].u
       IN  \E k \in 0 .. app[a].n :
              /\ file' = IF u \in there THEN [file EXCEPT ![u] = WriteAt(@, app[a].off, k)]
                         ELSE file
              /\ old' = IF k = app[a].n THEN old \ {u} ELSE old
    /\ AppendEnds(a)
    /\ UNCHANGED <<stage, length, there, doomed, handed, aged, aborted>>

Complete(u) ==
    /\ HasMeta(u)
    /\ Received(u) = length[u]
    /\ handed' = handed \cup {u}
    /\ UNCHANGED <<stage, length, file, there, old, doomed, app, aged, aborted>>

\* A client knows the id of an upload it began, and of a path it was told.
Abort(u) ==
    /\ stage[u] = "resumable" \/ u \in handed
    /\ there' = there \ {u}
    /\ aborted' = aborted \cup {u}
    /\ UNCHANGED <<stage, length, file, old, doomed, handed, app, aged>>

\* UPLOAD_TTL passes since the directory was last modified.
Age(u) ==
    /\ u \in there \ old
    /\ old' = old \cup {u}
    /\ aged' = aged \cup {u}
    /\ UNCHANGED <<stage, length, file, there, doomed, handed, app, aborted>>

\* Variant of SweepLooks: every directory is an abandoned one.
SweepLooksAny(u) ==
    /\ u \in there
    /\ doomed' = doomed \cup {u}
    /\ UNCHANGED <<stage, length, file, there, old, handed, app, aged, aborted>>

\* Variant of SweepLooks: only directories with metadata are uploads.
SweepLooksMeta(u) ==
    /\ u \in there /\ u \in old /\ HasMeta(u)
    /\ doomed' = doomed \cup {u}
    /\ UNCHANGED <<stage, length, file, there, old, handed, app, aged, aborted>>

\* Sweep, for one directory: its time is read, then it is removed.
SweepLooks(u) ==
    /\ u \in there /\ u \in old
    /\ doomed' = doomed \cup {u}
    /\ UNCHANGED <<stage, length, file, there, old, handed, app, aged, aborted>>

SweepRemoves(u) ==
    /\ u \in doomed
    /\ doomed' = doomed \ {u}
    /\ there' = there \ {u}
    /\ UNCHANGED <<stage, length, file, old, handed, app, aged, aborted>>

Shoots  == \E u \in Uploads, n \in Lengths : SingleShot(u, n)
Asks    == \E u \in Uploads : \/ \E n \in Lengths : Create(u, n)
                             \/ \E a \in Appends, n \in Chunks : AppendChecks(a, u, n)
                             \/ Abort(u)
Goes(u) == \/ SingleShotEnds(u) \/ Complete(u) \/ Age(u) \/ SweepLooks(u) \/ SweepRemoves(u)
Proceeds == \/ \E u \in Uploads : Goes(u)
            \/ \E a \in Appends : AppendReads(a) \/ AppendWrites(a)

\* Time passes and the sweeps go on; clients need not do anything.
UploadFairness ==
    \A u \in Uploads : WF_uploadVars(Age(u)) /\ WF_uploadVars(SweepLooks(u))
                       /\ WF_uploadVars(SweepRemoves(u))

-----------------------------------------------------------------------------
\* A path a client was told leads to the client's whole file for as long as the
\* directory is there: no request that was on its way at Complete changes it.
HandedIsWhole == \A u \in handed \cap there : file[u] = Bytes(length[u])
=============================================================================
