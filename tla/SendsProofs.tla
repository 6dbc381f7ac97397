---------------------------- MODULE SendsProofs ----------------------------
(***************************************************************************)
(* Proofs about Sends and Uploads, for any number of uploads, chunk        *)
(* requests, calls and messages and whatever temporary ids collide.        *)
(***************************************************************************)
EXTENDS Sends, SequenceTheorems, TLAPS

-----------------------------------------------------------------------------
(* Files.                                                                  *)

\* Writing bytes of the client's file at an offset inside what is already there leaves
\* a beginning of the client's file, no shorter than before (Append, WriteAt).
LEMMA WriteKeepsPrefix ==
    ASSUME NEW f \in Seq(Nat), f = Bytes(Len(f)),
           NEW off \in Nat, NEW k \in Nat, off <= Len(f)
    PROVE  /\ WriteAt(f, off, k) \in Seq(Nat)
           /\ Len(WriteAt(f, off, k)) = Larger(Len(f), off + k)
           /\ WriteAt(f, off, k) = Bytes(Larger(Len(f), off + k))
<1> DEFINE n == Larger(Len(f), off + k)
<1>1. n \in Nat /\ n >= Len(f) /\ n >= off + k /\ (n = Len(f) \/ n = off + k)
  <2>1. Len(f) \in Nat
    OBVIOUS
  <2>2. QED
    BY <2>1 DEF Larger
<1>2. \A i \in 1 .. Len(f) : f[i] = i
  BY DEF Bytes
<1>3. \A i \in 1 .. n :
         (IF off < i /\ i <= off + k THEN i ELSE IF i <= Len(f) THEN f[i] ELSE 0) = i
  BY <1>1, <1>2
<1>4. WriteAt(f, off, k) = Bytes(n)
  BY <1>3 DEF WriteAt, Bytes
<1>5. Bytes(n) \in Seq(Nat) /\ Len(Bytes(n)) = n
  BY <1>1 DEF Bytes
<1>6. QED
  BY <1>4, <1>5

\* The beginnings of the client's file are sequences of the expected length.
LEMMA BytesSeq ==
    ASSUME NEW n \in Nat
    PROVE  Bytes(n) \in Seq(Nat) /\ Len(Bytes(n)) = n
  BY DEF Bytes

-----------------------------------------------------------------------------
(* The upload store.                                                       *)

\* What the upload store's variables satisfy between steps.
FilesInv == \A u \in Uploads :
    /\ file[u] = Bytes(Len(file[u]))
    /\ Len(file[u]) <= length[u]
    /\ stage[u] \in {"none", "streaming"} => Len(file[u]) = 0
ChunksInv == \A a \in Appends :
    app[a] # NoApp =>
        /\ stage[app[a].u] = "resumable"
        /\ app[a].off <= Len(file[app[a].u])
        /\ app[a].at = "write" => app[a].off + app[a].n <= length[app[a].u]
HandedInv == \A u \in handed :
    /\ stage[u] \in {"single", "resumable"}
    /\ u \in there => Len(file[u]) = length[u]
SweepInv == old \subseteq aged /\ doomed \subseteq aged

UploadsInv == UploadsTypeOK /\ FilesInv /\ ChunksInv /\ HandedInv /\ SweepInv

\* An upload that a client began is not on the volume, though no client deleted it and
\* it was never old.
Gone(u) == stage[u] \notin {"none", "failed"} /\ u \notin there \cup aged \cup aborted

\* The outcome of m is on the stream, in the queue, or lost.
Tracked(m) == m \in news \cup lost \/ \E i \in 1 .. Len(queue) : queue[i].m = m

\* A message with the temporary id of one of c's messages is confirmed.
Confirmed(c) == \E m \in MsgsOf[c], k \in Msgs : IdOf[k] = IdOf[m] /\ td[k] \in Outcomes

\* The upload store starts in its invariant.
LEMMA UploadsStart == UploadsInit => UploadsInv
<1> SUFFICES ASSUME UploadsInit PROVE UploadsInv
  OBVIOUS
<1> USE DEF UploadsInit
<1>1. UploadsTypeOK
  BY DEF UploadsTypeOK, Stages
<1>2. FilesInv
  <2>1. <<>> = Bytes(0)
    <3>1. Bytes(0) \in Seq(Nat) /\ Len(Bytes(0)) = 0
      BY BytesSeq
    <3>2. QED
      BY <3>1, EmptySeq
  <2>2. Len(<<>>) = 0
    BY EmptySeq
  <2> SUFFICES ASSUME NEW u \in Uploads
               PROVE  /\ file[u] = Bytes(Len(file[u]))
                      /\ Len(file[u]) <= length[u]
                      /\ Len(file[u]) = 0
    BY DEF FilesInv
  <2>3. file[u] = <<>> /\ length[u] = 0
    OBVIOUS
  <2>4. Len(file[u]) = 0
    BY <2>2, <2>3
  <2>5. QED
    BY <2>1, <2>3, <2>4
<1>3. ChunksInv /\ HandedInv /\ SweepInv
  BY DEF ChunksInv, HandedInv, SweepInv
<1>4. QED
  BY <1>1, <1>2, <1>3 DEF UploadsInv

\* A new upload disturbs none of the others.
LEMMA FreshKeeps ==
    ASSUME UploadsInv, NEW u \in Uploads, NEW n \in Lengths, NEW st \in {"streaming", "resumable"},
           Fresh(u, st, n), UNCHANGED <<file, old, doomed, handed, app, aged, aborted>>
    PROVE  UploadsInv'
<1> USE DEF UploadsInv, Fresh
<1>1. n \in Nat
  BY UploadsAssumption
<1>2. UploadsTypeOK'
  BY <1>1 DEF UploadsTypeOK, Stages
<1>3. FilesInv'
  BY <1>1 DEF UploadsTypeOK, FilesInv
<1>4. ChunksInv'
  <2> SUFFICES ASSUME NEW a \in Appends, app[a] # NoApp
               PROVE  /\ stage'[app[a].u] = "resumable"
                      /\ app[a].off <= Len(file[app[a].u])
                      /\ app[a].at = "write" => app[a].off + app[a].n <= length'[app[a].u]
    BY DEF ChunksInv
  <2>1. app[a].u \in Uploads /\ app[a].u # u
    BY DEF ChunksInv, UploadsTypeOK, AppSet
  <2>2. QED
    BY <2>1 DEF ChunksInv, UploadsTypeOK
<1>5. HandedInv' /\ SweepInv'
  BY DEF HandedInv, SweepInv, UploadsTypeOK
<1>6. QED
  BY <1>2, <1>3, <1>4, <1>5

\* A single-shot upload that ends has its whole file, or removes it.
LEMMA StreamEndKeeps ==
    ASSUME UploadsInv, NEW u \in Uploads, SingleShotEnds(u)
    PROVE  UploadsInv'
<1> USE DEF UploadsInv, SingleShotEnds
<1>1. length[u] \in Nat /\ Bytes(length[u]) \in Seq(Nat) /\ Len(Bytes(length[u])) = length[u]
  BY BytesSeq DEF UploadsTypeOK
<1>2. UploadsTypeOK'
  BY <1>1 DEF UploadsTypeOK, Stages
<1>3. FilesInv'
  BY <1>1 DEF UploadsTypeOK, FilesInv
<1>4. ChunksInv'
  <2> SUFFICES ASSUME NEW a \in Appends, app[a] # NoApp
               PROVE  /\ stage'[app[a].u] = "resumable"
                      /\ app[a].off <= Len(file'[app[a].u])
                      /\ app[a].at = "write" => app[a].off + app[a].n <= length[app[a].u]
    BY DEF ChunksInv
  <2>1. app[a].u \in Uploads /\ app[a].u # u
    BY DEF ChunksInv, UploadsTypeOK, AppSet
  <2>2. stage'[app[a].u] = stage[app[a].u] /\ file'[app[a].u] = file[app[a].u]
    BY <2>1 DEF UploadsTypeOK
  <2>3. QED
    BY <2>2 DEF ChunksInv
<1>5. HandedInv' /\ SweepInv'
  BY <1>1 DEF HandedInv, SweepInv, UploadsTypeOK
<1>6. QED
  BY <1>2, <1>3, <1>4, <1>5

\* The checks of a chunk change nothing on disk.
LEMMA AppendChecksKeeps ==
    ASSUME UploadsInv, NEW a \in Appends, NEW u \in Uploads, NEW n \in Chunks,
           AppendChecks(a, u, n)
    PROVE  UploadsInv'
<1> USE DEF UploadsInv, AppendChecks
<1>1. n \in Nat /\ Len(file[u]) \in Nat /\ stage[u] = "resumable"
  BY UploadsAssumption DEF UploadsTypeOK, HasMeta
<1>2. UploadsTypeOK'
  BY <1>1 DEF UploadsTypeOK, AppSet, Received
<1>3. FilesInv' /\ HandedInv' /\ SweepInv'
  BY DEF FilesInv, HandedInv, SweepInv
<1>4. ChunksInv'
  BY <1>1 DEF ChunksInv, Received, UploadsTypeOK
<1>5. QED
  BY <1>2, <1>3, <1>4

\* Reading the body of a chunk changes nothing on disk.
LEMMA AppendReadsKeeps ==
    ASSUME UploadsInv, NEW a \in Appends, AppendReads(a)
    PROVE  UploadsInv'
<1> USE DEF UploadsInv, AppendReads, AppendEnds
<1>1. app[a] \in AppSet
  BY DEF UploadsTypeOK, NoApp
<1>2. PICK st \in {"write", "ended"} :
         /\ app' = [app EXCEPT ![a].at = st]
         /\ st = "write" => app[a].off + app[a].n <= length[app[a].u]
  OBVIOUS
<1>3. /\ [app[a] EXCEPT !.at = st] \in AppSet
      /\ \A b \in Appends : app'[b] = IF b = a THEN [app[a] EXCEPT !.at = st] ELSE app[b]
  BY <1>1, <1>2 DEF UploadsTypeOK, AppSet
<1>4. UploadsTypeOK'
  <2>1. app' \in [Appends -> AppSet \cup {NoApp}]
    BY <1>2, <1>3 DEF UploadsTypeOK
  <2>2. QED
    BY <2>1 DEF UploadsTypeOK
<1>5. FilesInv' /\ HandedInv' /\ SweepInv'
  BY DEF FilesInv, HandedInv, SweepInv
<1>6. ChunksInv'
  <2> SUFFICES ASSUME NEW b \in Appends, app'[b] # NoApp
               PROVE  /\ stage[app'[b].u] = "resumable"
                      /\ app'[b].off <= Len(file[app'[b].u])
                      /\ app'[b].at = "write" => app'[b].off + app'[b].n <= length[app'[b].u]
    BY DEF ChunksInv
  <2>1. CASE b # a
    BY <2>1, <1>3 DEF ChunksInv
  <2>2. CASE b = a
    <3>1. app[a] # NoApp
      BY DEF NoApp
    <3>2. /\ app'[a].u = app[a].u /\ app'[a].off = app[a].off
          /\ app'[a].n = app[a].n /\ app'[a].at = st
      BY <1>1, <1>3 DEF AppSet
    <3>3. QED
      BY <2>2, <3>1, <3>2, <1>2 DEF ChunksInv
  <2>3. QED
    BY <2>1, <2>2
<1>7. QED
  BY <1>4, <1>5, <1>6

\* The step the argument is about: a chunk lands that was checked against an earlier,
\* shorter file.
LEMMA AppendWritesKeeps ==
    ASSUME UploadsInv, NEW a \in Appends, AppendWrites(a)
    PROVE  UploadsInv'
<1> DEFINE u == app[a].u
<1>1. app[a] \in AppSet /\ app[a].at = "write" /\ app[a] # NoApp
  BY DEF UploadsInv, UploadsTypeOK, AppendWrites, NoApp
<1>2. /\ u \in Uploads /\ app[a].off \in Nat /\ app[a].n \in Nat
      /\ file[u] \in Seq(Nat) /\ Len(file[u]) \in Nat /\ length[u] \in Nat
  BY <1>1 DEF UploadsInv, UploadsTypeOK, AppSet
<1>3. PICK k \in 0 .. app[a].n :
         /\ file' = IF u \in there THEN [file EXCEPT ![u] = WriteAt(@, app[a].off, k)] ELSE file
         /\ old' = IF k = app[a].n THEN old \ {u} ELSE old
  BY DEF AppendWrites
<1>4. k \in Nat /\ k <= app[a].n
  BY <1>2, <1>3
<1>5. /\ stage[u] = "resumable" /\ app[a].off <= Len(file[u])
      /\ app[a].off + app[a].n <= length[u] /\ Len(file[u]) <= length[u]
      /\ file[u] = Bytes(Len(file[u]))
  BY <1>1, <1>2 DEF UploadsInv, ChunksInv, FilesInv
<1> DEFINE w == WriteAt(file[u], app[a].off, k)
<1>6. /\ w \in Seq(Nat) /\ w = Bytes(Len(w))
      /\ Len(w) \in Nat /\ Len(w) >= Len(file[u]) /\ Len(w) <= length[u]
  <2>1. /\ w \in Seq(Nat) /\ Len(w) = Larger(Len(file[u]), app[a].off + k)
        /\ w = Bytes(Larger(Len(file[u]), app[a].off + k))
    BY <1>2, <1>4, <1>5, WriteKeepsPrefix
  <2>2. Larger(Len(file[u]), app[a].off + k) <= length[u]
    BY <1>2, <1>4, <1>5 DEF Larger
  <2>3. Larger(Len(file[u]), app[a].off + k) >= Len(file[u])
    BY <1>2, <1>4 DEF Larger
  <2>4. QED
    BY <2>1, <2>2, <2>3
<1>7. /\ file' \in [Uploads -> Seq(Nat)]
      /\ \A x \in Uploads : \/ file'[x] = file[x]
                            \/ x = u /\ file'[x] = w
  BY <1>2, <1>3, <1>6 DEF UploadsInv, UploadsTypeOK
<1> HIDE DEF w, u
<1>8. UNCHANGED <<stage, length, there, doomed, handed, aged, aborted>> /\ AppendEnds(a)
  BY DEF AppendWrites
<1>9. UploadsTypeOK'
  BY <1>1, <1>3, <1>7, <1>8 DEF UploadsInv, UploadsTypeOK, AppendEnds, AppSet
<1>10. FilesInv'
  <2> SUFFICES ASSUME NEW x \in Uploads
               PROVE  /\ file'[x] = Bytes(Len(file'[x]))
                      /\ Len(file'[x]) <= length[x]
                      /\ stage[x] \in {"none", "streaming"} => Len(file'[x]) = 0
    BY <1>8 DEF FilesInv
  <2>1. CASE file'[x] = file[x]
    BY <2>1 DEF UploadsInv, FilesInv
  <2>2. CASE x = u /\ file'[x] = w
    BY <2>2, <1>5, <1>6
  <2>3. QED
    BY <1>7, <2>1, <2>2
<1>11. \A x \in Uploads : Len(file'[x]) \in Nat /\ Len(file'[x]) >= Len(file[x])
  <2>1. \A x \in Uploads : Len(file[x]) \in Nat
    BY DEF UploadsInv, UploadsTypeOK
  <2>2. QED
    BY <2>1, <1>6, <1>7
<1>12. ChunksInv'
  <2> SUFFICES ASSUME NEW b \in Appends, app'[b] # NoApp
               PROVE  /\ stage[app'[b].u] = "resumable"
                      /\ app'[b].off <= Len(file'[app'[b].u])
                      /\ app'[b].at = "write" => app'[b].off + app'[b].n <= length[app'[b].u]
    BY <1>8 DEF ChunksInv
  <2>1. /\ app[b] # NoApp /\ app[b] \in AppSet
        /\ app'[b].u = app[b].u /\ app'[b].off = app[b].off /\ app'[b].n = app[b].n
        /\ app'[b].at = "write" => app[b].at = "write"
    BY <1>1, <1>8 DEF UploadsInv, UploadsTypeOK, AppendEnds, AppSet
  <2>2. app[b].u \in Uploads /\ app[b].off \in Nat /\ Len(file[app[b].u]) \in Nat
    BY <2>1 DEF UploadsInv, UploadsTypeOK, AppSet
  <2>3. app[b].off <= Len(file'[app[b].u])
    BY <2>1, <2>2, <1>11 DEF UploadsInv, ChunksInv
  <2>4. QED
    BY <2>1, <2>3 DEF UploadsInv, ChunksInv
<1>13. HandedInv'
  <2> SUFFICES ASSUME NEW x \in handed
               PROVE  /\ stage[x] \in {"single", "resumable"}
                      /\ x \in there => Len(file'[x]) = length[x]
    BY <1>8 DEF HandedInv
  <2>1. x \in Uploads /\ length[x] \in Nat
    BY DEF UploadsInv, UploadsTypeOK
  <2>2. Len(file'[x]) <= length[x] /\ Len(file'[x]) >= Len(file[x]) /\ Len(file'[x]) \in Nat
    BY <2>1, <1>8, <1>10, <1>11 DEF FilesInv
  <2>3. QED
    BY <2>1, <2>2 DEF UploadsInv, HandedInv
<1>14. SweepInv'
  BY <1>3, <1>8 DEF UploadsInv, SweepInv
<1>15. QED
  BY <1>9, <1>10, <1>12, <1>13, <1>14 DEF UploadsInv

\* The other steps of the store only add to handed what is whole, or change sets.
LEMMA SetStepsKeep ==
    ASSUME UploadsInv, NEW u \in Uploads,
           Complete(u) \/ Abort(u) \/ Age(u) \/ SweepLooks(u) \/ SweepRemoves(u)
    PROVE  UploadsInv'
<1> USE DEF UploadsInv, Complete, Abort, Age, SweepLooks, SweepRemoves
<1>1. UNCHANGED <<stage, length, file, app>>
  OBVIOUS
<1>2. UploadsTypeOK'
  BY DEF UploadsTypeOK
<1>3. FilesInv' /\ ChunksInv'
  BY <1>1 DEF FilesInv, ChunksInv
<1>4. HandedInv'
  BY DEF HandedInv, HasMeta, Received
<1>5. SweepInv'
  BY DEF SweepInv
<1>6. QED
  BY <1>2, <1>3, <1>4, <1>5

\* Every step of the upload store keeps its invariant.
LEMMA UploadsStep ==
    ASSUME UploadsInv, Shoots \/ Asks \/ Proceeds
    PROVE  UploadsInv'
<1>1. ASSUME NEW u \in Uploads, NEW n \in Lengths, SingleShot(u, n) \/ Create(u, n)
      PROVE  UploadsInv'
  BY <1>1, FreshKeeps DEF SingleShot, Create
<1>2. ASSUME NEW u \in Uploads, SingleShotEnds(u) PROVE UploadsInv'
  BY <1>2, StreamEndKeeps
<1>3. ASSUME NEW a \in Appends, NEW u \in Uploads, NEW n \in Chunks, AppendChecks(a, u, n)
      PROVE  UploadsInv'
  BY <1>3, AppendChecksKeeps
<1>4. ASSUME NEW a \in Appends, AppendReads(a) \/ AppendWrites(a) PROVE UploadsInv'
  BY <1>4, AppendReadsKeeps, AppendWritesKeeps
<1>5. ASSUME NEW u \in Uploads,
             Complete(u) \/ Abort(u) \/ Age(u) \/ SweepLooks(u) \/ SweepRemoves(u)
      PROVE  UploadsInv'
  BY <1>5, SetStepsKeep
<1>6. QED
  BY <1>1, <1>2, <1>3, <1>4, <1>5 DEF Shoots, Asks, Proceeds, Goes

\* An upload leaves the volume by a request of a client, by the sweep once it has been
\* old, or before anyone was told its path; what was handed out stays handed out.
LEMMA UploadsLeave ==
    ASSUME UploadsInv, Shoots \/ Asks \/ Proceeds
    PROVE  /\ handed \subseteq handed'
           /\ \A u \in Uploads :
                 Gone(u)' => Gone(u)
<1>1. ASSUME NEW u \in Uploads, NEW n \in Lengths, SingleShot(u, n) \/ Create(u, n)
      PROVE  handed \subseteq handed' /\ \A x \in Uploads : Gone(x)' => Gone(x)
  BY <1>1 DEF SingleShot, Create, Fresh, Gone, UploadsInv, UploadsTypeOK
<1>2. ASSUME NEW u \in Uploads, SingleShotEnds(u)
      PROVE  handed \subseteq handed' /\ \A x \in Uploads : Gone(x)' => Gone(x)
  BY <1>2 DEF SingleShotEnds, Gone, UploadsInv, UploadsTypeOK
<1>3. ASSUME NEW a \in Appends,
             AppendReads(a) \/ AppendWrites(a)
                \/ \E u \in Uploads, n \in Chunks : AppendChecks(a, u, n)
      PROVE  handed \subseteq handed' /\ \A x \in Uploads : Gone(x)' => Gone(x)
  <2>1. UNCHANGED <<stage, there, handed, aged, aborted>>
    BY <1>3 DEF AppendReads, AppendWrites, AppendChecks
  <2>2. QED
    BY <2>1 DEF Gone
<1>4. ASSUME NEW u \in Uploads,
             Complete(u) \/ Abort(u) \/ Age(u) \/ SweepLooks(u) \/ SweepRemoves(u)
      PROVE  handed \subseteq handed' /\ \A x \in Uploads : Gone(x)' => Gone(x)
  BY <1>4 DEF Complete, Abort, Age, SweepLooks, SweepRemoves, Gone, UploadsInv, SweepInv
<1>5. QED
  BY <1>1, <1>2, <1>3, <1>4 DEF Shoots, Asks, Proceeds, Goes

-----------------------------------------------------------------------------
(* Sends.                                                                  *)

\* A message is with TDLib only once its call was made, and what the stream, the queue
\* and the registry say of its outcome is TDLib's.
OrderInv ==
    /\ \A c \in Calls : call[c] = NoCall => \A m \in MsgsOf[c] : td[m] = "none"
    /\ \A c \in Calls : call[c].left \subseteq MsgsOf[c]
    /\ \A m \in Msgs : row[m] \in Outcomes => row[m] = td[m]
    /\ \A i \in 1 .. Len(queue) : queue[i].out = td[queue[i].m]
    /\ \A m \in news : td[m] \in Outcomes

\* An outcome that the registry does not have is on its way or lost, or the row was
\* purged after the call ended.
OutcomeInv == \A m \in Msgs :
    (td[m] \in Outcomes /\ row[m] \notin Outcomes) =>
        \/ Tracked(m)
        \/ row[m] = "none" /\ \A c \in Calls : m \in MsgsOf[c] => call[c].at = "ended"

\* What is kept under an id are the uploads of one call that sent a message of that id,
\* and an upload is gone only with a confirmation, if it is not the client or the time.
KeepInv ==
    /\ \A c \in Calls : call[c].ups \subseteq handed
    /\ \A i \in Ids : pending[i] # {} =>
          \E d \in Calls : pending[i] = call[d].ups /\ \E k \in MsgsOf[d] : IdOf[k] = i
    /\ \A u \in Uploads : Gone(u) =>
          \E d \in Calls : u \in call[d].ups /\ Confirmed(d)

SendsInv == TypeOK /\ UploadsInv /\ OrderInv /\ OutcomeInv /\ KeepInv

\* The invariant holds at the start.
LEMMA Start == Init => SendsInv
<1> SUFFICES ASSUME Init PROVE SendsInv
  OBVIOUS
<1> USE DEF Init
<1>1. UploadsInv
  BY UploadsStart
<1>2. /\ <<>> \in Seq([m : Msgs, out : Outcomes]) /\ Len(<<>>) = 0
  BY EmptySeq
<1>3. TypeOK
  BY <1>1, <1>2, SendsAssumption DEF TypeOK, UploadsInv
<1>4. OrderInv
  BY <1>2, SendsAssumption DEF OrderInv, NoCall, Outcomes
<1>5. OutcomeInv
  BY DEF OutcomeInv, Outcomes
<1>6. KeepInv
  BY DEF KeepInv, NoCall, Gone, UploadsInit
<1>7. QED
  BY <1>1, <1>3, <1>4, <1>5, <1>6 DEF SendsInv

\* An entry of the outcome queue is a send and what became of it.
LEMMA QueueEntries ==
    ASSUME SendsInv, NEW i \in 1 .. Len(queue)
    PROVE  queue[i].m \in Msgs /\ queue[i].out \in Outcomes
<1>1. queue \in Seq([m : Msgs, out : Outcomes])
  BY DEF SendsInv, TypeOK
<1>2. queue[i] \in [m : Msgs, out : Outcomes]
  BY <1>1, ElementOfSeq
<1>3. QED
  BY <1>2

\* Steps of the upload store keep the invariant.
LEMMA StoreKeeps ==
    ASSUME SendsInv, Store
    PROVE  SendsInv'
<1>1. UNCHANGED sendVars /\ (Shoots \/ Asks \/ Proceeds) /\ budget' \in [Acts -> Nat]
  BY DEF Store, Spend, SendsInv, TypeOK, Acts
<1>2. UploadsInv'
  BY <1>1, UploadsStep DEF SendsInv
<1>3. TypeOK'
  BY <1>1, <1>2 DEF TypeOK, SendsInv, UploadsInv, sendVars
<1>4. OrderInv'
  BY <1>1 DEF SendsInv, OrderInv, sendVars
<1>5. OutcomeInv'
  BY <1>1 DEF SendsInv, OutcomeInv, Tracked, sendVars
<1>6. KeepInv'
  <2>1. handed \subseteq handed' /\ \A u \in Uploads : Gone(u)' => Gone(u)
    BY <1>1, UploadsLeave DEF SendsInv
  <2>2. \A c \in Calls : Confirmed(c)' <=> Confirmed(c)
    BY <1>1 DEF Confirmed, sendVars
  <2>3. UNCHANGED <<call, pending>>
    BY <1>1 DEF sendVars
  <2>4. QED
    BY <2>1, <2>2, <2>3 DEF SendsInv, KeepInv
<1>7. QED
  BY <1>2, <1>3, <1>4, <1>5, <1>6 DEF SendsInv

\* A new send.
LEMMA SendKeeps ==
    ASSUME SendsInv, NEW c \in Calls, NEW ups \in SUBSET handed, Send(c, ups)
    PROVE  SendsInv'
<1> DEFINE new == [ups |-> ups, left |-> IF c \in Scheduled THEN {} ELSE MsgsOf[c],
                   at |-> "track"]
<1>1. /\ call[c] = NoCall /\ call' = [call EXCEPT ![c] = new]
      /\ UNCHANGED <<uploadVars, news, pending, queue, row, lost>>
      /\ budget' \in [Acts -> Nat]
  BY DEF Send, Spend, SendsInv, TypeOK, Acts
<1>2. new \in CallSet /\ new.ups = ups /\ new.left \subseteq MsgsOf[c] /\ new # NoCall
      /\ new.at # "ended"
  BY SendsAssumption DEF CallSet, NoCall, SendsInv, TypeOK, UploadsTypeOK
<1>3. call' \in [Calls -> CallSet \cup {NoCall}]
      /\ \A d \in Calls : call'[d] = IF d = c THEN new ELSE call[d]
  BY <1>1, <1>2 DEF SendsInv, TypeOK
<1> HIDE DEF new
<1>4. td' \in [Msgs -> {"none"} \cup Underway \cup Outcomes]
  BY DEF Send, SendsInv, TypeOK, Underway
<1>5. /\ \A m \in Msgs : m \notin MsgsOf[c] => td'[m] = td[m]
      /\ \A m \in MsgsOf[c] : td[m] = "none" /\ td'[m] \in Underway
  BY <1>1, SendsAssumption DEF Send, SendsInv, TypeOK, Underway, OrderInv
<1>6. \A m \in Msgs : td[m] \in Outcomes => td'[m] = td[m]
  BY <1>5 DEF Outcomes
<1>7. \A m \in Msgs : td'[m] \in Outcomes => td'[m] = td[m]
  BY <1>5 DEF Outcomes, Underway
<1>8. UploadsInv' /\ UNCHANGED <<stage, there, handed, aged, aborted>>
  BY <1>1 DEF SendsInv, UploadsInv, uploadVars, UploadsTypeOK, FilesInv, ChunksInv,
              HandedInv, SweepInv
<1>9. TypeOK'
  BY <1>1, <1>3, <1>4, <1>8 DEF TypeOK, SendsInv, UploadsInv
<1>10. OrderInv'
  <2>1. \A d \in Calls : call'[d] = NoCall => \A m \in MsgsOf[d] : td'[m] = "none"
    BY <1>2, <1>3, <1>5, SendsAssumption DEF SendsInv, OrderInv
  <2>2. \A d \in Calls : call'[d].left \subseteq MsgsOf[d]
    BY <1>2, <1>3 DEF SendsInv, OrderInv
  <2>3. \A i \in 1 .. Len(queue) : queue[i].m \in Msgs /\ queue[i].out \in Outcomes
    BY QueueEntries
  <2>4. QED
    BY <1>1, <1>6, <2>1, <2>2, <2>3 DEF SendsInv, OrderInv, TypeOK
<1>11. OutcomeInv'
  <2> SUFFICES ASSUME NEW m \in Msgs, td'[m] \in Outcomes, row[m] \notin Outcomes
               PROVE  \/ Tracked(m)'
                      \/ row[m] = "none"
                         /\ \A d \in Calls : m \in MsgsOf[d] => call'[d].at = "ended"
    BY <1>1 DEF OutcomeInv
  <2>1. Tracked(m)' <=> Tracked(m)
    BY <1>1 DEF Tracked
  <2>2. m \notin MsgsOf[c] /\ td[m] \in Outcomes
    BY <1>5, <1>7 DEF Outcomes, Underway
  <2>3. QED
    BY <2>1, <2>2, <1>3 DEF SendsInv, OutcomeInv
<1>12. KeepInv'
  <2>1. \A d \in Calls : call'[d].ups \subseteq handed
    BY <1>2, <1>3 DEF SendsInv, KeepInv
  <2>2. \A d \in Calls : call[d].ups # {} => call'[d].ups = call[d].ups
    BY <1>1, <1>3 DEF NoCall
  <2>3. \A d \in Calls : Confirmed(d) => Confirmed(d)'
    BY <1>6 DEF Confirmed
  <2>4. \A u \in Uploads : Gone(u)' <=> Gone(u)
    BY <1>8 DEF Gone
  <2>5. \A i \in Ids : pending[i] # {} =>
           \E d \in Calls : pending[i] = call'[d].ups /\ \E k \in MsgsOf[d] : IdOf[k] = i
    BY <2>2 DEF SendsInv, KeepInv
  <2>6. \A u \in Uploads : Gone(u) => \E d \in Calls : u \in call'[d].ups /\ Confirmed(d)'
    BY <2>2, <2>3 DEF SendsInv, KeepInv
  <2>7. QED
    BY <1>1, <1>8, <2>1, <2>4, <2>5, <2>6 DEF KeepInv
<1>13. QED
  BY <1>8, <1>9, <1>10, <1>11, <1>12 DEF SendsInv

\* A step that leaves the store alone keeps its invariant.
LEMMA StoreAlone ==
    ASSUME SendsInv, UNCHANGED uploadVars
    PROVE  /\ UploadsInv' /\ UNCHANGED <<stage, there, handed, aged, aborted>>
           /\ \A u \in Uploads : Gone(u)' <=> Gone(u)
  BY DEF SendsInv, UploadsInv, uploadVars, UploadsTypeOK, FilesInv, ChunksInv, HandedInv,
         SweepInv, Gone

\* trackUpload.
LEMMA TrackKeeps ==
    ASSUME SendsInv, NEW c \in Calls, trackUpload(c)
    PROVE  SendsInv'
<1>1. /\ UploadsInv' /\ UNCHANGED <<stage, there, handed, aged, aborted>>
      /\ \A u \in Uploads : Gone(u)' <=> Gone(u)
  BY StoreAlone DEF trackUpload
<1>2. UNCHANGED <<td, news, queue, row, lost, budget>>
  BY DEF trackUpload
<1>3. call[c] \in CallSet /\ call[c].at = "track" /\ call[c] # NoCall
  BY DEF trackUpload, SendsInv, TypeOK, NoCall
<1>4. /\ [call[c] EXCEPT !.at = "register"] \in CallSet
      /\ [call[c] EXCEPT !.at = "register"].ups = call[c].ups
      /\ [call[c] EXCEPT !.at = "register"].left = call[c].left
      /\ [call[c] EXCEPT !.at = "register"].at = "register"
  BY <1>3 DEF CallSet
<1>5. /\ call' \in [Calls -> CallSet \cup {NoCall}]
      /\ \A d \in Calls : /\ call'[d].ups = call[d].ups
                          /\ call'[d].left = call[d].left
                          /\ call'[d] = NoCall => call[d] = NoCall
                          /\ call[d].at = "ended" => call'[d].at = "ended"
  BY <1>3, <1>4 DEF trackUpload, SendsInv, TypeOK, NoCall
<1>6. pending' \in [Ids -> SUBSET Uploads]
      /\ \A i \in Ids : \/ pending'[i] = pending[i]
                        \/ pending'[i] = call[c].ups /\ \E m \in MsgsOf[c] : IdOf[m] = i
  BY <1>3 DEF trackUpload, SendsInv, TypeOK, CallSet
<1>7. TypeOK'
  BY <1>1, <1>2, <1>5, <1>6 DEF TypeOK, SendsInv, UploadsInv
<1>8. OrderInv'
  BY <1>2, <1>5 DEF SendsInv, OrderInv
<1>9. OutcomeInv'
  BY <1>2, <1>5 DEF SendsInv, OutcomeInv, Tracked
<1>10. KeepInv'
  <2>1. \A d \in Calls : call'[d].ups \subseteq handed'
    BY <1>1, <1>5 DEF SendsInv, KeepInv
  <2>2. \A d \in Calls : Confirmed(d)' <=> Confirmed(d)
    BY <1>2 DEF Confirmed
  <2>3. \A i \in Ids : pending'[i] # {} =>
           \E d \in Calls : pending'[i] = call'[d].ups /\ \E k \in MsgsOf[d] : IdOf[k] = i
    <3> SUFFICES ASSUME NEW i \in Ids, pending'[i] # {}
                 PROVE  \E d \in Calls : pending'[i] = call[d].ups
                                         /\ \E k \in MsgsOf[d] : IdOf[k] = i
      BY <1>5
    <3>1. QED
      BY <1>6 DEF SendsInv, KeepInv
  <2>4. \A u \in Uploads : Gone(u)' => \E d \in Calls : u \in call'[d].ups /\ Confirmed(d)'
    BY <1>1, <1>5, <2>2 DEF SendsInv, KeepInv
  <2>5. QED
    BY <2>1, <2>3, <2>4 DEF KeepInv
<1>11. QED
  BY <1>1, <1>7, <1>8, <1>9, <1>10 DEF SendsInv

\* registerSends.
LEMMA RegisterKeeps ==
    ASSUME SendsInv, NEW c \in Calls, registerSends(c)
    PROVE  SendsInv'
<1>1. /\ UploadsInv' /\ UNCHANGED <<stage, there, handed, aged, aborted>>
      /\ \A u \in Uploads : Gone(u)' <=> Gone(u)
  BY StoreAlone DEF registerSends
<1>2. UNCHANGED <<td, news, pending, queue, lost>>
  BY DEF registerSends
<1>3. call[c] \in CallSet /\ call[c].at = "register" /\ call[c] # NoCall
  BY DEF registerSends, SendsInv, TypeOK, NoCall
<1>4. budget' \in [Acts -> Nat]
  BY SMTT(30) DEF registerSends, Spend, SendsInv, TypeOK, Acts
<1>5. \E left \in SUBSET call[c].left, at \in {"register", "ended"} :
         call' = [call EXCEPT ![c] = [call[c] EXCEPT !.left = left, !.at = at]]
  <2>1. ASSUME NEW m \in call[c].left, call' = [call EXCEPT ![c].left = @ \ {m}]
        PROVE  call' = [call EXCEPT ![c] = [call[c] EXCEPT !.left = call[c].left \ {m},
                                                           !.at = "register"]]
    BY <2>1, <1>3 DEF CallSet
  <2>2. ASSUME call' = [call EXCEPT ![c].at = "ended"]
        PROVE  call' = [call EXCEPT ![c] = [call[c] EXCEPT !.left = call[c].left,
                                                           !.at = "ended"]]
    BY <2>2, <1>3 DEF CallSet
  <2>3. QED
    BY <2>1, <2>2 DEF registerSends
<1>6. PICK left \in SUBSET call[c].left, at \in {"register", "ended"} :
         call' = [call EXCEPT ![c] = [call[c] EXCEPT !.left = left, !.at = at]]
  BY <1>5
<1>7. /\ [call[c] EXCEPT !.left = left, !.at = at] \in CallSet
      /\ [call[c] EXCEPT !.left = left, !.at = at].ups = call[c].ups
      /\ [call[c] EXCEPT !.left = left, !.at = at].left = left
      /\ [call[c] EXCEPT !.left = left, !.at = at].at = at
  BY <1>3 DEF CallSet
<1>8. /\ call' \in [Calls -> CallSet \cup {NoCall}]
      /\ \A d \in Calls : /\ call'[d].ups = call[d].ups
                          /\ call'[d].left \subseteq call[d].left
                          /\ call'[d] = NoCall => call[d] = NoCall
                          /\ call[d].at = "ended" => call'[d].at = "ended"
  BY <1>3, <1>6, <1>7 DEF SendsInv, TypeOK, NoCall
<1>9. /\ row' \in [Msgs -> {"none", "pending"} \cup Outcomes]
      /\ \A m \in Msgs : \/ row'[m] = row[m]
                         \/ m \in call[c].left /\ row'[m] = "pending" /\ row[m] = "none"
  BY DEF registerSends, RegisterSend, SendsInv, TypeOK
<1>10. TypeOK'
  BY <1>1, <1>2, <1>4, <1>8, <1>9 DEF TypeOK, SendsInv, UploadsInv
<1>11. OrderInv'
  <2>1. \A m \in Msgs : row'[m] \in Outcomes => row'[m] = td[m]
    BY <1>9 DEF SendsInv, OrderInv, Outcomes
  <2>2. QED
    BY <2>1, <1>2, <1>8 DEF SendsInv, OrderInv
<1>12. OutcomeInv'
  <2> SUFFICES ASSUME NEW m \in Msgs, td[m] \in Outcomes, row'[m] \notin Outcomes
               PROVE  \/ Tracked(m)
                      \/ row'[m] = "none"
                         /\ \A d \in Calls : m \in MsgsOf[d] => call'[d].at = "ended"
    BY <1>2 DEF OutcomeInv, Tracked
  <2>1. CASE row'[m] = row[m]
    BY <2>1, <1>8 DEF SendsInv, OutcomeInv
  <2>2. CASE m \in call[c].left /\ row[m] = "none"
    BY <2>2, <1>3 DEF SendsInv, OutcomeInv, OrderInv, Outcomes
  <2>3. QED
    BY <1>9, <2>1, <2>2
<1>13. KeepInv'
  <2>1. \A d \in Calls : Confirmed(d)' <=> Confirmed(d)
    BY <1>2 DEF Confirmed
  <2>2. QED
    BY <1>1, <1>2, <1>8, <2>1 DEF SendsInv, KeepInv
<1>14. QED
  BY <1>1, <1>10, <1>11, <1>12, <1>13 DEF SendsInv

\* TDLib resolves a send, and the receiver handles it.
LEMMA ResolvesKeeps ==
    ASSUME SendsInv, NEW m \in Msgs, NEW out \in Outcomes, Resolves(m, out)
    PROVE  SendsInv'
<1>1. /\ UploadsInv' /\ UNCHANGED <<stage, there, handed, aged, aborted>>
      /\ \A u \in Uploads : Gone(u)' <=> Gone(u)
  BY StoreAlone DEF Resolves
<1>2. /\ UNCHANGED <<pending, queue, call, row, lost, budget>> /\ news' = news \cup {m}
      /\ td[m] \in Underway
  BY DEF Resolves
<1>3. /\ td' \in [Msgs -> {"none"} \cup Underway \cup Outcomes]
      /\ \A k \in Msgs : td'[k] = IF k = m THEN out ELSE td[k]
  BY DEF Resolves, SendsInv, TypeOK
<1>4. \A k \in Msgs : td[k] \in Outcomes => td'[k] = td[k]
  BY <1>2, <1>3 DEF Underway, Outcomes
<1>5. TypeOK'
  BY <1>1, <1>2, <1>3 DEF TypeOK, SendsInv, UploadsInv
<1>6. OrderInv'
  <2>1. \A c \in Calls : call[c] = NoCall => \A k \in MsgsOf[c] : td'[k] = "none"
    BY <1>2, <1>3, SendsAssumption DEF SendsInv, OrderInv, Underway
  <2>2. \A i \in 1 .. Len(queue) : queue[i].out = td'[queue[i].m]
    BY <1>4, QueueEntries DEF SendsInv, OrderInv
  <2>3. \A k \in Msgs : row[k] \in Outcomes => row[k] = td'[k]
    BY <1>4 DEF SendsInv, OrderInv
  <2>4. \A k \in news' : td'[k] \in Outcomes
    BY <1>2, <1>3 DEF SendsInv, OrderInv, TypeOK
  <2>5. QED
    BY <1>2, <2>1, <2>2, <2>3, <2>4 DEF SendsInv, OrderInv
<1>7. OutcomeInv'
  BY <1>2, <1>3 DEF SendsInv, OutcomeInv, Tracked
<1>8. KeepInv'
  <2>1. \A d \in Calls : Confirmed(d) => Confirmed(d)'
    BY <1>4 DEF Confirmed
  <2>2. QED
    BY <1>1, <1>2, <2>1 DEF SendsInv, KeepInv
<1>9. QED
  BY <1>1, <1>5, <1>6, <1>7, <1>8 DEF SendsInv

\* The confirmation of a message removes what is kept under its id: uploads of a call
\* that now has a message of a confirmed id.
LEMMA HandlerKeeps ==
    ASSUME SendsInv, NEW m \in Msgs, updateHandler(m)
    PROVE  SendsInv'
<1> DEFINE i == IdOf[m]
<1>1. /\ UNCHANGED <<stage, length, file, old, doomed, handed, app, aged, aborted,
                     td, call, row, budget>>
      /\ news' = news \ {m} /\ m \in news
      /\ there' = there \ pending[i]
      /\ pending' = [pending EXCEPT ![i] = {}]
      /\ noteSendOutcome(m)
  BY DEF updateHandler, finishUpload
<1>2. td[m] \in Outcomes /\ i \in Ids
  BY <1>1 DEF SendsInv, OrderInv, Ids
<1>3. UploadsInv'
  <2>1. UploadsTypeOK'
    BY <1>1 DEF SendsInv, UploadsInv, UploadsTypeOK
  <2>2. FilesInv' /\ ChunksInv' /\ HandedInv' /\ SweepInv'
    BY <1>1 DEF SendsInv, UploadsInv, FilesInv, ChunksInv, HandedInv, SweepInv
  <2>3. QED
    BY <2>1, <2>2 DEF UploadsInv
<1>4. /\ queue' \in Seq([m : Msgs, out : Outcomes]) /\ Len(queue') <= SendQueue
      /\ \A j \in 1 .. Len(queue') : queue'[j].out = td[queue'[j].m]
      /\ lost' \subseteq Msgs /\ lost \subseteq lost'
      /\ \A k \in Msgs : (\E j \in 1 .. Len(queue) : queue[j].m = k)
                            => \E j \in 1 .. Len(queue') : queue'[j].m = k
      /\ m \in lost' \/ \E j \in 1 .. Len(queue') : queue'[j].m = m
  <2> DEFINE e == [m |-> m, out |-> td[m]]
  <2>1. /\ queue \in Seq([m : Msgs, out : Outcomes]) /\ Len(queue) \in Nat
        /\ Len(queue) <= SendQueue /\ SendQueue \in Nat /\ lost \subseteq Msgs
        /\ \A j \in 1 .. Len(queue) : queue[j].out = td[queue[j].m]
    BY SendsAssumption DEF SendsInv, TypeOK, OrderInv
  <2>2. CASE Len(queue) < SendQueue
    <3>1. queue' = Append(queue, e) /\ lost' = lost /\ e.m = m /\ e.out = td[m]
      BY <2>2, <1>1 DEF noteSendOutcome
    <3>2. e \in [m : Msgs, out : Outcomes]
      BY <1>2
    <3> HIDE DEF e
    <3>3. /\ queue' \in Seq([m : Msgs, out : Outcomes])
          /\ Len(queue') = Len(queue) + 1
          /\ \A j \in 1 .. Len(queue) : queue'[j] = queue[j]
          /\ queue'[Len(queue) + 1] = e
      BY <2>1, <3>1, <3>2, AppendProperties
    <3>4. 1 .. Len(queue') = (1 .. Len(queue)) \cup {Len(queue) + 1}
      BY <2>1, <3>3
    <3>5. \A j \in 1 .. Len(queue') : queue'[j].out = td[queue'[j].m]
      BY <3>1, <3>3, <3>4, <2>1
    <3>6. QED
      BY <2>1, <2>2, <3>1, <3>3, <3>4, <3>5
  <2>3. CASE ~(Len(queue) < SendQueue)
    BY <2>1, <2>3, <1>1 DEF noteSendOutcome
  <2>4. QED
    BY <2>2, <2>3
<1>5. pending' \in [Ids -> SUBSET Uploads] /\ \A j \in Ids : pending'[j] # {} => pending'[j] = pending[j]
  BY <1>1, <1>2 DEF SendsInv, TypeOK
<1>6. TypeOK'
  BY <1>1, <1>3, <1>4, <1>5 DEF TypeOK, SendsInv, UploadsInv
<1>7. OrderInv'
  BY <1>1, <1>4 DEF SendsInv, OrderInv
<1>8. OutcomeInv'
  <2>1. \A k \in Msgs : Tracked(k) => Tracked(k)'
    BY <1>1, <1>4 DEF Tracked
  <2>2. QED
    BY <1>1, <2>1 DEF SendsInv, OutcomeInv
<1>9. KeepInv'
  <2>1. \A d \in Calls : Confirmed(d)' <=> Confirmed(d)
    BY <1>1 DEF Confirmed
  <2>2. \A u \in Uploads : Gone(u)' => Gone(u) \/ u \in pending[i]
    BY <1>1 DEF Gone
  <2>3. \A u \in pending[i] : \E d \in Calls : u \in call[d].ups /\ Confirmed(d)
    <3> SUFFICES ASSUME NEW u \in pending[i]
                 PROVE  \E d \in Calls : u \in call[d].ups /\ Confirmed(d)
      OBVIOUS
    <3>1. PICK d \in Calls : pending[i] = call[d].ups /\ \E k \in MsgsOf[d] : IdOf[k] = i
      BY <1>2 DEF SendsInv, KeepInv
    <3>2. Confirmed(d)
      BY <3>1, <1>2 DEF Confirmed
    <3>3. QED
      BY <3>1, <3>2
  <2>4. \A u \in Uploads : Gone(u)' => \E d \in Calls : u \in call'[d].ups /\ Confirmed(d)'
    BY <1>1, <2>1, <2>2, <2>3 DEF SendsInv, KeepInv
  <2>5. QED
    BY <1>1, <1>5, <2>4 DEF SendsInv, KeepInv
<1>10. QED
  BY <1>3, <1>6, <1>7, <1>8, <1>9 DEF SendsInv

\* The writer takes an outcome off the queue.
LEMMA WriterKeeps ==
    ASSUME SendsInv, runSendWriter
    PROVE  SendsInv'
<1> DEFINE h == Head(queue)
<1>1. /\ UploadsInv' /\ UNCHANGED <<stage, there, handed, aged, aborted>>
      /\ \A u \in Uploads : Gone(u)' <=> Gone(u)
  BY StoreAlone DEF runSendWriter
<1>2. /\ UNCHANGED <<td, news, pending, call>> /\ queue # <<>> /\ queue' = Tail(queue)
  BY DEF runSendWriter
<1>3. budget' \in [Acts -> Nat]
  BY DEF runSendWriter, Spend, SendsInv, TypeOK, Acts
<1>4. /\ queue \in Seq([m : Msgs, out : Outcomes]) /\ Len(queue) \in Nat /\ Len(queue) # 0
      /\ Len(queue) <= SendQueue /\ SendQueue \in Nat
  BY <1>2, SendsAssumption, EmptySeq DEF SendsInv, TypeOK
<1>5. /\ queue' \in Seq([m : Msgs, out : Outcomes])
      /\ Len(queue') = Len(queue) - 1
      /\ \A j \in 1 .. Len(queue') : queue'[j] = queue[j + 1]
      /\ h = queue[1]
  BY <1>2, <1>4, HeadTailProperties
<1>6. 1 \in 1 .. Len(queue) /\ \A j \in 1 .. Len(queue') : j + 1 \in 1 .. Len(queue)
  BY <1>4, <1>5
<1>7. h.m \in Msgs /\ h.out \in Outcomes /\ h.out = td[h.m]
  BY <1>5, <1>6, QueueEntries DEF SendsInv, OrderInv
<1>8. \A j \in 1 .. Len(queue) : j = 1 \/ (j - 1 \in 1 .. Len(queue') /\ queue'[j - 1] = queue[j])
  BY <1>4, <1>5
<1> HIDE DEF h
<1>9. \/ lost' = lost /\ row' = [row EXCEPT ![h.m] = h.out]
      \/ lost' = lost \cup {h.m} /\ row' = row
  BY DEF runSendWriter, h
<1>10. TypeOK'
  <2>1. Len(queue') <= SendQueue
    BY <1>4, <1>5
  <2>2. row' \in [Msgs -> {"none", "pending"} \cup Outcomes] /\ lost' \subseteq Msgs
    BY <1>7, <1>9 DEF SendsInv, TypeOK
  <2>3. QED
    BY <1>1, <1>2, <1>3, <1>5, <2>1, <2>2 DEF TypeOK, SendsInv, UploadsInv
<1>11. OrderInv'
  <2>1. \A j \in 1 .. Len(queue') : queue'[j].out = td[queue'[j].m]
    BY <1>5, <1>6 DEF SendsInv, OrderInv
  <2>2. \A m \in Msgs : row'[m] \in Outcomes => row'[m] = td[m]
    BY <1>7, <1>9 DEF SendsInv, OrderInv, TypeOK
  <2>3. QED
    BY <1>2, <2>1, <2>2 DEF SendsInv, OrderInv
<1>12. OutcomeInv'
  <2> SUFFICES ASSUME NEW m \in Msgs, td[m] \in Outcomes, row'[m] \notin Outcomes
               PROVE  \/ Tracked(m)'
                      \/ row'[m] = "none"
                         /\ \A d \in Calls : m \in MsgsOf[d] => call[d].at = "ended"
    BY <1>2 DEF OutcomeInv
  <2>1. row'[m] = row[m]
    BY <1>7, <1>9 DEF SendsInv, TypeOK
  <2>2. Tracked(m) => Tracked(m)'
    <3>1. CASE m \in news \cup lost
      BY <3>1, <1>2, <1>9 DEF Tracked
    <3>2. ASSUME NEW j \in 1 .. Len(queue), queue[j].m = m PROVE Tracked(m)'
      <4>1. CASE j = 1
        <5>1. h.m = m
          BY <4>1, <3>2, <1>5
        <5>2. m \in lost'
          BY <5>1, <1>7, <1>9 DEF SendsInv, TypeOK
        <5>3. QED
          BY <5>2 DEF Tracked
      <4>2. CASE j # 1
        <5>1. j - 1 \in 1 .. Len(queue') /\ queue'[j - 1].m = m
          BY <4>2, <3>2, <1>8
        <5>2. QED
          BY <5>1 DEF Tracked
      <4>3. QED
        BY <4>1, <4>2
    <3>3. QED
      BY <3>1, <3>2 DEF Tracked
  <2>3. QED
    BY <2>1, <2>2 DEF SendsInv, OutcomeInv
<1>13. KeepInv'
  <2>1. \A d \in Calls : Confirmed(d)' <=> Confirmed(d)
    BY <1>2 DEF Confirmed
  <2>2. QED
    BY <1>1, <1>2, <2>1 DEF SendsInv, KeepInv
<1>14. QED
  BY <1>1, <1>10, <1>11, <1>12, <1>13 DEF SendsInv

\* Old rows are purged.
LEMMA PurgeKeeps ==
    ASSUME SendsInv, NEW m \in Msgs, PurgeSends(m)
    PROVE  SendsInv'
<1>1. /\ UploadsInv' /\ UNCHANGED <<stage, there, handed, aged, aborted>>
      /\ \A u \in Uploads : Gone(u)' <=> Gone(u)
  BY StoreAlone DEF PurgeSends
<1>2. /\ UNCHANGED <<td, news, pending, queue, call, lost>> /\ row' = [row EXCEPT ![m] = "none"]
      /\ \A c \in Calls : m \in MsgsOf[c] => call[c].at = "ended"
      /\ budget' \in [Acts -> Nat]
  BY DEF PurgeSends, Spend, SendsInv, TypeOK, Acts
<1>3. TypeOK'
  BY <1>1, <1>2 DEF TypeOK, SendsInv, UploadsInv
<1>4. OrderInv'
  BY <1>2 DEF SendsInv, OrderInv, TypeOK, Outcomes
<1>5. OutcomeInv'
  BY <1>2 DEF SendsInv, OutcomeInv, TypeOK, Tracked
<1>6. KeepInv'
  <2>1. \A d \in Calls : Confirmed(d)' <=> Confirmed(d)
    BY <1>2 DEF Confirmed
  <2>2. QED
    BY <1>1, <1>2, <2>1 DEF SendsInv, KeepInv
<1>7. QED
  BY <1>1, <1>3, <1>4, <1>5, <1>6 DEF SendsInv

\* The worker stops: its memory goes, the registry and the volume stay.
LEMMA CrashKeeps ==
    ASSUME SendsInv, Crash
    PROVE  SendsInv'
<1>1. /\ UploadsInv' /\ UNCHANGED <<stage, there, handed, aged, aborted>>
      /\ \A u \in Uploads : Gone(u)' <=> Gone(u)
  BY StoreAlone DEF Crash
<1>2. /\ UNCHANGED <<td, row>> /\ queue' = <<>> /\ pending' = [i \in Ids |-> {}]
      /\ budget' \in [Acts -> Nat]
  <2>1. budget \in [Acts -> Nat] /\ Spend("fault")
    BY DEF Crash, SendsInv, TypeOK
  <2>2. budget' \in [Acts -> Nat]
    BY <2>1 DEF Spend, Acts
  <2>3. QED
    BY <2>2 DEF Crash
<1>3. /\ \A d \in Calls : /\ call'[d].ups = call[d].ups
                          /\ call'[d].left \subseteq call[d].left
                          /\ call'[d] = NoCall => call[d] = NoCall
                          /\ call[d].at = "ended" => call'[d].at = "ended"
                          /\ call'[d] \in CallSet \cup {NoCall}
      /\ call' \in [Calls -> CallSet \cup {NoCall}]
  <2>1. \A d \in Calls : call[d] \in CallSet \cup {NoCall}
    BY DEF SendsInv, TypeOK
  <2>2. ASSUME NEW d \in Calls, call[d].at \in {"track", "register"}
        PROVE  /\ call[d] \in CallSet
               /\ call'[d] = [call[d] EXCEPT !.at = "ended", !.left = {}]
    <3>1. call[d] # NoCall
      BY <2>2 DEF NoCall
    <3>2. QED
      BY <2>1, <2>2, <3>1 DEF Crash
  <2>3. ASSUME NEW d \in Calls, call[d].at \notin {"track", "register"}
        PROVE  call'[d] = call[d]
    BY <2>3 DEF Crash
  <2>4. ASSUME NEW d \in Calls, call[d].at \in {"track", "register"}
        PROVE  /\ call'[d] \in CallSet /\ call'[d].ups = call[d].ups
               /\ call'[d].left = {} /\ call'[d].at = "ended" /\ call'[d] # NoCall
    <3>1. call[d] \in CallSet /\ call'[d] = [call[d] EXCEPT !.at = "ended", !.left = {}]
      BY <2>2, <2>4
    <3> DEFINE r == [call[d] EXCEPT !.at = "ended", !.left = {}]
    <3>2. r \in CallSet /\ r.ups = call[d].ups /\ r.left = {} /\ r.at = "ended"
      BY <3>1 DEF CallSet
    <3>3. call'[d] = r
      BY <3>1
    <3> HIDE DEF r
    <3>4. NoCall.at = "none"
      BY DEF NoCall
    <3>5. QED
      BY <3>2, <3>3, <3>4
  <2>5. call' = [d \in Calls |-> call'[d]]
    BY DEF Crash
  <2>6. QED
    BY <2>1, <2>3, <2>4, <2>5
<1>4. /\ news' \subseteq news /\ lost' \subseteq Msgs
      /\ \A m \in Msgs : Tracked(m) => m \in news' \cup lost'
  <2>1. \A i \in 1 .. Len(queue) : queue[i].m \in Msgs
    BY QueueEntries
  <2>2. QED
    BY <2>1 DEF Crash, Tracked, SendsInv, TypeOK
<1>5. /\ queue' \in Seq([m : Msgs, out : Outcomes]) /\ Len(queue') = 0
  BY <1>2, EmptySeq
<1>6. TypeOK'
  BY <1>1, <1>2, <1>3, <1>4, <1>5, SendsAssumption DEF TypeOK, SendsInv, UploadsInv
<1>7. OrderInv'
  BY <1>2, <1>3, <1>4, <1>5 DEF SendsInv, OrderInv
<1>8. OutcomeInv'
  <2>1. \A m \in Msgs : Tracked(m) => Tracked(m)'
    BY <1>4 DEF Tracked
  <2>2. QED
    BY <1>2, <1>3, <2>1 DEF SendsInv, OutcomeInv
<1>9. KeepInv'
  <2>1. \A d \in Calls : Confirmed(d)' <=> Confirmed(d)
    BY <1>2 DEF Confirmed
  <2>2. QED
    BY <1>1, <1>2, <1>3, <2>1 DEF SendsInv, KeepInv
<1>10. QED
  BY <1>1, <1>6, <1>7, <1>8, <1>9 DEF SendsInv

\* Nothing happens.
LEMMA StutterKeeps ==
    ASSUME SendsInv, UNCHANGED vars
    PROVE  SendsInv'
<1>1. UploadsInv' /\ \A u \in Uploads : Gone(u)' <=> Gone(u)
  BY StoreAlone DEF vars, uploadVars
<1>2. TypeOK'
  BY <1>1 DEF vars, TypeOK, SendsInv, UploadsInv
<1>3. OrderInv' /\ OutcomeInv'
  BY DEF vars, SendsInv, OrderInv, OutcomeInv, Tracked
<1>4. KeepInv'
  BY <1>1 DEF vars, SendsInv, KeepInv, Confirmed
<1>5. QED
  BY <1>1, <1>2, <1>3, <1>4 DEF SendsInv

\* Every step keeps the invariant.
LEMMA Step == SendsInv /\ [Next]_vars => SendsInv'
<1> SUFFICES ASSUME SendsInv, [Next]_vars PROVE SendsInv'
  OBVIOUS
<1>1. CASE Store
  BY <1>1, StoreKeeps
<1>2. ASSUME NEW c \in Calls, NEW ups \in SUBSET handed, Send(c, ups) PROVE SendsInv'
  BY <1>2, SendKeeps
<1>3. ASSUME NEW c \in Calls, trackUpload(c) \/ registerSends(c) PROVE SendsInv'
  BY <1>3, TrackKeeps, RegisterKeeps
<1>4. ASSUME NEW m \in Msgs, PurgeSends(m) \/ updateHandler(m) PROVE SendsInv'
  BY <1>4, PurgeKeeps, HandlerKeeps
<1>5. ASSUME NEW m \in Msgs, NEW out \in Outcomes, Resolves(m, out) PROVE SendsInv'
  BY <1>5, ResolvesKeeps
<1>6. CASE runSendWriter \/ Crash
  BY <1>6, WriterKeeps, CrashKeeps
<1>7. CASE UNCHANGED vars
  BY <1>7, StutterKeeps
<1>8. QED
  BY <1>1, <1>2, <1>3, <1>4, <1>5, <1>6, <1>7 DEF Next, Handle

\* The invariant always holds.
LEMMA Always == Spec => []SendsInv
  BY Start, Step, PTL DEF Spec

-----------------------------------------------------------------------------
(* The theorems.                                                           *)

\* Every variable keeps its type; in particular the send-outcome queue never holds more
\* than sendQueue entries (noteSendOutcome's non-blocking handoff).
THEOREM TypeCorrect == Spec => []TypeOK
<1>1. SendsInv => TypeOK
  BY DEF SendsInv
<1>2. QED
  BY <1>1, Always, PTL

\* However chunk requests race, break off or repeat, a path handed out by Complete or by
\* a single-shot upload leads to the client's whole file while it is on the volume.
THEOREM WholeFiles == Spec => []HandedIsWhole
<1>1. SendsInv => HandedIsWhole
  <2> SUFFICES ASSUME SendsInv, NEW u \in handed \cap there
               PROVE  file[u] = Bytes(length[u])
    BY DEF HandedIsWhole
  <2>1. u \in Uploads /\ Len(file[u]) = length[u]
    BY DEF SendsInv, UploadsInv, UploadsTypeOK, HandedInv
  <2>2. QED
    BY <2>1 DEF SendsInv, UploadsInv, FilesInv
<1>2. QED
  BY <1>1, Always, PTL

\* The registry shows no outcome but TDLib's, and pending only while the outcome is on
\* its way or was lost, in whatever order registration and outcome are written.
THEOREM OutcomesTold == Spec => []RowTellsOutcome
<1>1. SendsInv => RowTellsOutcome
  <2> SUFFICES ASSUME SendsInv, NEW m \in Msgs
               PROVE  /\ row[m] \in Outcomes => row[m] = td[m]
                      /\ (row[m] = "pending" /\ td[m] \in Outcomes) => Tracked(m)
    BY DEF RowTellsOutcome, Tracked
  <2>1. row[m] \in Outcomes => row[m] = td[m]
    BY DEF SendsInv, OrderInv
  <2>2. (row[m] = "pending" /\ td[m] \in Outcomes) => Tracked(m)
    BY DEF SendsInv, OutcomeInv, Outcomes
  <2>3. QED
    BY <2>1, <2>2
<1>2. QED
  BY <1>1, Always, PTL

\* An upload a call sent stays on the volume until a message with the id of one of the
\* call's is confirmed, unless a client or another call removes it or it grows old.
THEOREM KeptUntilConfirmed == Spec => []UploadsKept
<1>1. SendsInv => UploadsKept
  <2> SUFFICES ASSUME SendsInv, NEW c \in Calls,
                      \A m \in MsgsOf[c], k \in Msgs : IdOf[k] = IdOf[m] => td[k] \notin Outcomes,
                      \A d \in Calls \ {c} : call[d].ups \cap call[c].ups = {},
                      NEW u \in call[c].ups
               PROVE  u \in there \cup aged \cup aborted
    BY DEF UploadsKept
  <2>1. u \in Uploads /\ stage[u] \in {"single", "resumable"}
    BY DEF SendsInv, KeepInv, UploadsInv, UploadsTypeOK, HandedInv
  <2>2. ~Confirmed(c)
    BY DEF Confirmed
  <2>3. ~Gone(u)
    BY <2>1, <2>2 DEF SendsInv, KeepInv
  <2>4. QED
    BY <2>1, <2>3 DEF Gone
<1>2. QED
  BY <1>1, Always, PTL
=============================================================================
