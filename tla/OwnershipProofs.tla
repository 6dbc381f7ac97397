-------------------------- MODULE OwnershipProofs --------------------------
(***************************************************************************)
(* The safety properties of Ownership for every set of workers and         *)
(* sessions, every capacity and every number of faults; HolderOwns and     *)
(* NoLeakedClient for a fleet without lapses, shutdowns and deletions.     *)
(***************************************************************************)
EXTENDS Ownership, FiniteSetTheorems, TLAPS

\* The limit BalanceClaim hands to ClaimOrphans is an integer, whatever the load.
LEMMA ClaimLimitType ==
  ASSUME TypeOK, NEW w \in Workers
  PROVE  ClaimLimit(w) \in Int
  <1>1. IsFiniteSet(OwnedBy(w)) /\ IsFiniteSet(Authorized) /\ IsFiniteSet(LiveWorkers(w))
    BY FS_Subset, ConstantsAssumption DEF OwnedBy, Authorized, LiveWorkers
  <1>2. IsFiniteSet({s \in Sessions : live[w][s] # "none"})
    BY FS_Subset, ConstantsAssumption
  <1>3. Mine(w) \in Int /\ HeldN(w) \in Int
    BY <1>1, <1>2, FS_CardinalityType DEF Mine, HeldN
  <1>4. Share(w) \in Int
    BY <1>1, FS_CardinalityType DEF Share
  <1>5. QED
    BY <1>3, <1>4, ConstantsAssumption DEF ClaimLimit, Smaller

\* Every step of the fleet keeps the variables in their types.
LEMMA TypeStep ==
  ASSUME TypeOK, [Next]_vars
  PROVE  TypeOK'
  <1> USE DEF Statuses, Procs, Entries, Insts, Steps, NoCreate, Creates, NoDelete, Deletes,
              Kinds, registry, memory, pass, handlers
  <1>1. ASSUME NEW w \in Workers, ReconcileStart(w) PROVE TypeOK'
    BY <1>1, TypeOK DEF TypeOK, ReconcileStart, At, Goto, StaleLogins, Running
  <1>2. ASSUME NEW w \in Workers, FenceQuery(w) PROVE TypeOK'
    BY <1>2, TypeOK DEF TypeOK, FenceQuery, At, Goto, ForeignOwned, LiveWorkers, Exists, Running
  <1>3. ASSUME NEW w \in Workers, FenceDone(w) PROVE TypeOK'
    BY <1>3, TypeOK DEF TypeOK, FenceDone, At, Goto, Running
  <1>4. ASSUME NEW w \in Workers, AdoptQuery(w) PROVE TypeOK'
    BY <1>4, TypeOK DEF TypeOK, AdoptQuery, At, Goto, ListOwned, OwnedBy, Authorized, Running
  <1>5. ASSUME NEW w \in Workers, AdoptDone(w) PROVE TypeOK'
    BY <1>5, TypeOK DEF TypeOK, AdoptDone, At, Goto, Running
  <1>6. ASSUME NEW w \in Workers, BalanceShed(w) PROVE TypeOK'
    BY <1>6, TypeOK DEF TypeOK, BalanceShed, At, Goto, Running, ShedPicks, ReadyAt
  <1>7. ASSUME NEW w \in Workers, BalanceClaim(w) PROVE TypeOK'
    BY <1>7, TypeOK, ClaimLimitType DEF TypeOK, BalanceClaim, At, Goto, Running, MayClaim
  <1>8. ASSUME NEW w \in Workers, Balanced(w) PROVE TypeOK'
    BY <1>8, TypeOK DEF TypeOK, Balanced, At, Goto, EndPass, Running
  <1>9. ASSUME NEW w \in Workers, ClaimOrphans(w) PROVE TypeOK'
    BY <1>9, TypeOK DEF TypeOK, ClaimOrphans, At, Goto, Orphans, Authorized, Running
  <1>10. ASSUME NEW w \in Workers, ShedRelease(w) PROVE TypeOK'
    BY <1>10, TypeOK DEF TypeOK, ShedRelease, Put, SetOwner, Running
  <1>11. ASSUME NEW w \in Workers, PassDone(w) PROVE TypeOK'
    BY <1>11, TypeOK DEF TypeOK, PassDone, At, Goto, EndPass, Running
  <1>12. ASSUME NEW w \in Workers, NEW s \in Sessions, FenceReassert(w, s) PROVE TypeOK'
    BY <1>12, TypeOK DEF TypeOK, FenceReassert, At, Goto, SetOwner, Running
  <1>13. ASSUME NEW w \in Workers, NEW s \in Sessions, FenceDrop(w, s) PROVE TypeOK'
    BY <1>13, TypeOK DEF TypeOK, FenceDrop, At, Goto, Put, Running
  <1>14. ASSUME NEW w \in Workers, NEW s \in Sessions, AdoptOne(w, s) PROVE TypeOK'
    BY <1>14, TypeOK DEF TypeOK, AdoptOne, At, Goto, Hydrate, Put, Running
  <1>15. ASSUME NEW w \in Workers, NEW s \in Sessions, ClaimOne(w, s) PROVE TypeOK'
    BY <1>15, TypeOK DEF TypeOK, ClaimOne, At, Goto, Hydrate, Put, Running
  <1>16. ASSUME NEW w \in Workers, NEW s \in Sessions, SkipOne(w, s) PROVE TypeOK'
    BY <1>16, TypeOK DEF TypeOK, SkipOne, At, Goto, Running
  <1>17. ASSUME NEW w \in Workers, NEW s \in Sessions, ShedClose(w, s) PROVE TypeOK'
    BY <1>17, TypeOK DEF TypeOK, ShedClose, At, Goto, Running
  <1>18. ASSUME NEW w \in Workers, NEW s \in Sessions, OpenLock(w, s) PROVE TypeOK'
    BY <1>18, TypeOK DEF TypeOK, OpenLock, Opening, LockHeld, Running
  <1>19. ASSUME NEW w \in Workers, NEW s \in Sessions, OpenMissing(w, s) PROVE TypeOK'
    BY <1>19, TypeOK
    DEF TypeOK, OpenMissing, Opening, HydrateFails, Put, SetStatus, Exists, LockHeld,
        Running
  <1>20. ASSUME NEW w \in Workers, NEW s \in Sessions, OpenLocked(w, s) PROVE TypeOK'
    BY <1>20, TypeOK DEF TypeOK, OpenLocked, Opening, HydrateFails, Put, Running
  <1>21. ASSUME NEW w \in Workers, NEW s \in Sessions, OpenFails(w, s) PROVE TypeOK'
    BY <1>21, TypeOK DEF TypeOK, OpenFails, Opening, HydrateFails, Put, Spend, Running
  <1>22. ASSUME NEW w \in Workers, NEW s \in Sessions, OpenExpired(w, s) PROVE TypeOK'
    BY <1>22, TypeOK
    DEF TypeOK, OpenExpired, Opening, HydrateFails, Put, SetStatus, Exists, Spend, Running
  <1>23. ASSUME NEW w \in Workers, NEW s \in Sessions, OpenReady(w, s) PROVE TypeOK'
    BY <1>23, TypeOK DEF TypeOK, OpenReady, Opening, SetStatus, Exists, Running
  <1>24. ASSUME NEW w \in Workers, NEW s \in Sessions, CreateSession(w, s) PROVE TypeOK'
    BY <1>24, TypeOK DEF TypeOK, CreateSession, CreateStep
  <1>25. ASSUME NEW w \in Workers, NEW s \in Sessions, SetSessionDBDir(w, s) PROVE TypeOK'
    BY <1>25, TypeOK DEF TypeOK, SetSessionDBDir, Creating, CreateStep, Exists, Spend, Running
  <1>26. ASSUME NEW w \in Workers, NEW s \in Sessions, SetSessionOwner(w, s) PROVE TypeOK'
    <2>1. create' \in [Sessions -> Creates \cup {NoCreate}]
      BY <1>26, TypeOK DEF TypeOK, SetSessionOwner, CreateStep
    <2>2. CASE owner' = SetOwner(s, w) /\ UNCHANGED <<budget, unowned>>
      BY <1>26, <2>1, <2>2, TypeOK DEF TypeOK, SetSessionOwner, SetOwner, Exists
    <2>3. CASE Spend("error") /\ unowned' = unowned \cup {s} /\ UNCHANGED owner
      BY <1>26, <2>1, <2>3, TypeOK DEF TypeOK, SetSessionOwner, Spend
    <2>4. QED
      BY <1>26, <2>2, <2>3 DEF SetSessionOwner
  <1>27. ASSUME NEW w \in Workers, NEW s \in Sessions, StartLogin(w, s) PROVE TypeOK'
    BY <1>27, TypeOK DEF TypeOK, StartLogin, Creating, Put, Running
  <1>28. ASSUME NEW w \in Workers, NEW s \in Sessions, LoginReady(w, s) PROVE TypeOK'
    BY <1>28, TypeOK DEF TypeOK, LoginReady, LoggingIn, SetStatus, Exists, Running
  <1>29. ASSUME NEW w \in Workers, NEW s \in Sessions, LoginFails(w, s) PROVE TypeOK'
    BY <1>29, TypeOK DEF TypeOK, LoginFails, LoggingIn, SetStatus, Exists, Running
  <1>30. ASSUME NEW w \in Workers, NEW s \in Sessions, DeleteStart(w, s) PROVE TypeOK'
    <2>1. retry' \in [Workers -> SUBSET Sessions]
      BY <1>30, TypeOK DEF TypeOK, DeleteStart
    <2>2. del' \in [Sessions -> Deletes \cup {NoDelete}]
      <3>1. \E st \in {"await", "close", "row"} : del' = [del EXCEPT ![s] = [by |-> w, at |-> st]]
        BY <1>30 DEF DeleteStart, DeleteStep
      <3>2. QED
        BY <3>1, TypeOK DEF TypeOK
    <2>3. budget' \in [Kinds -> Nat]
      BY <1>30, TypeOK DEF TypeOK, DeleteStart, Spend
    <2>4. QED
      BY <2>1, <2>2, <2>3, <1>30, TypeOK DEF TypeOK, DeleteStart
  <1>31. ASSUME NEW w \in Workers, NEW s \in Sessions, DeleteAwait(w, s) PROVE TypeOK'
    <2>1. budget' \in [Kinds -> Nat]
      <3>1. CASE UNCHANGED budget
        BY <3>1, TypeOK DEF TypeOK
      <3>2. CASE Spend("error")
        BY <3>2, TypeOK DEF TypeOK, Spend
      <3>3. QED
        BY <1>31, <3>1, <3>2 DEF DeleteAwait
    <2>2. QED
      BY <1>31, <2>1, TypeOK DEF TypeOK, DeleteAwait, DeleteStep
  <1>32. ASSUME NEW w \in Workers, NEW s \in Sessions, DeleteClose(w, s) PROVE TypeOK'
    <2>1. CASE inst' = [inst EXCEPT ![w][s] =
                        IF live[w][s] = "ready" /\ @ = "open" THEN "closing" ELSE @]
      BY <2>1, <1>32, TypeOK
      DEF TypeOK, DeleteClose, DeleteStep, Running
    <2>2. CASE /\ live[w][s] = "login" /\ inst[w][s] = "opening"
             /\ inst' = [inst EXCEPT ![w][s] = "closing"]
      BY <2>2, <1>32, TypeOK
      DEF TypeOK, DeleteClose, DeleteStep, Running
    <2>3. QED
      BY <2>1, <2>2, <1>32 DEF DeleteClose
  <1>33. ASSUME NEW w \in Workers, NEW s \in Sessions, DeleteDrop(w, s) PROVE TypeOK'
    BY <1>33, TypeOK DEF TypeOK, DeleteDrop, DeleteStep, Put, Running
  <1>34. ASSUME NEW w \in Workers, NEW s \in Sessions, DeleteRow(w, s) PROVE TypeOK'
    <2>1. del' \in [Sessions -> Deletes \cup {NoDelete}]
      <3>1. \/ del' = [del EXCEPT ![s] = [by |-> w, at |-> "dir"]]
            \/ del' = [del EXCEPT ![s] = NoDelete]
        BY <1>34 DEF DeleteRow, DeleteStep
      <3>2. CASE del' = [del EXCEPT ![s] = NoDelete]
        BY <3>2, TypeOK DEF TypeOK
      <3>3. CASE del' = [del EXCEPT ![s] = [by |-> w, at |-> "dir"]]
        BY <3>3, TypeOK DEF TypeOK
      <3>4. QED
        BY <3>1, <3>2, <3>3
    <2>2. QED
      BY <1>34, <2>1, TypeOK DEF TypeOK, DeleteRow
  <1>35. ASSUME NEW w \in Workers, NEW s \in Sessions, DeleteRowFails(w, s) PROVE TypeOK'
    BY <1>35, TypeOK DEF TypeOK, DeleteRowFails, Spend, Running
  <1>36. ASSUME NEW w \in Workers, NEW s \in Sessions, DeleteDir(w, s) PROVE TypeOK'
    BY <1>36, TypeOK DEF TypeOK, DeleteDir, Running
  <1>37. ASSUME NEW w \in Workers, ShutdownStart(w) PROVE TypeOK'
    BY <1>37, TypeOK DEF TypeOK, ShutdownStart, Spend, ReadyAt
  <1>38. ASSUME NEW w \in Workers, ShutdownClose(w) PROVE TypeOK'
    <2>1. budget' \in [Kinds -> Nat]
      <3>1. CASE UNCHANGED budget
        BY <3>1, TypeOK DEF TypeOK
      <3>2. CASE Spend("error")
        BY <3>2, TypeOK DEF TypeOK, Spend
      <3>3. QED
        BY <1>38, <3>1, <3>2 DEF ShutdownClose
    <2>2. QED
      BY <1>38, <2>1, TypeOK DEF TypeOK, ShutdownClose
  <1>39. ASSUME NEW w \in Workers, ReleaseSessions(w) PROVE TypeOK'
    <2>1. CASE owner' = [s \in Sessions |-> IF s \in OwnedBy(w) THEN None ELSE owner[s]] /\ UNCHANGED budget
      BY <2>1, <1>39, TypeOK DEF TypeOK, ReleaseSessions, Spend, OwnedBy, Authorized
    <2>2. CASE Spend("error") /\ UNCHANGED owner
      BY <2>2, <1>39, TypeOK DEF TypeOK, ReleaseSessions, Spend, OwnedBy, Authorized
    <2>3. QED
      BY <2>1, <2>2, <1>39 DEF ReleaseSessions
  <1>40. ASSUME NEW w \in Workers, DeregisterWorker(w) PROVE TypeOK'
    <2>1. CASE /\ alive' = alive \ {w}
               /\ cut' = [u \in Workers |-> IF pc[u] = "idle" THEN cut[u] ELSE cut[u] \cup {w}]
               /\ UNCHANGED budget
      BY <2>1, <1>40, TypeOK DEF TypeOK, DeregisterWorker, Spend
    <2>2. CASE Spend("error") /\ UNCHANGED <<alive, cut>>
      BY <2>2, <1>40, TypeOK DEF TypeOK, DeregisterWorker, Spend
    <2>3. QED
      BY <2>1, <2>2, <1>40 DEF DeregisterWorker
  <1>41. ASSUME NEW w \in Workers, Exit(w) PROVE TypeOK'
    BY <1>41, TypeOK DEF TypeOK, Exit, ProcessEnds, EndPass, Goto
  <1>42. ASSUME NEW w \in Workers, Beat(w) PROVE TypeOK'
    BY <1>42, TypeOK DEF TypeOK, Beat, SeenNow
  <1>43. ASSUME NEW w \in Workers, GoStale(w) PROVE TypeOK'
    <2>1. budget' \in [Kinds -> Nat]
      BY <1>43, TypeOK DEF TypeOK, GoStale, Spend, Kinds
    <2>2. /\ alive' \subseteq Workers
          /\ cut' \in [Workers -> SUBSET Workers]
      BY <1>43, TypeOK DEF TypeOK, GoStale
    <2>3. QED
      BY <1>43, <2>1, <2>2, TypeOK DEF TypeOK, GoStale
  <1>44. ASSUME NEW w \in Workers, Crash(w) PROVE TypeOK'
    BY <1>44, TypeOK DEF TypeOK, Crash, ProcessEnds, EndPass, Goto, Spend, Running
  <1>45. ASSUME NEW w \in Workers, Restart(w) PROVE TypeOK'
    BY <1>45, TypeOK DEF TypeOK, Restart, SeenNow
  <1>46. ASSUME NEW w \in Workers, NEW q \in Steps, NEW r \in Steps, QueryFails(w, q, r) PROVE TypeOK'
    BY <1>46, TypeOK DEF TypeOK, QueryFails, At, Goto, Spend, Running
  <1>47. ASSUME NEW w \in Workers, BalanceFails(w) PROVE TypeOK'
    BY <1>47, TypeOK DEF TypeOK, BalanceFails, At, Goto, EndPass, Spend, Running
  <1>48. ASSUME NEW w \in Workers, ShedReleaseFails(w) PROVE TypeOK'
    BY <1>48, TypeOK DEF TypeOK, ShedReleaseFails, Put, Spend, Running
  <1>49. ASSUME NEW w \in Workers, NEW s \in Sessions, RowFails(w, s) PROVE TypeOK'
    BY <1>49, TypeOK DEF TypeOK, RowFails, At, Goto, Spend, Running
  <1>50. ASSUME NEW w \in Workers, NEW s \in Sessions, RetryReady(w, s) PROVE TypeOK'
    BY <1>50, TypeOK DEF TypeOK, RetryReady
  <1>51. ASSUME NEW w \in Workers, NEW s \in Sessions, Closed(w, s) PROVE TypeOK'
    BY <1>51, TypeOK DEF TypeOK, Closed
  <1>52. ASSUME UNCHANGED vars PROVE TypeOK'
    BY <1>52, TypeOK DEF TypeOK, vars
  <1>53. QED
    BY <1>1, <1>2, <1>3, <1>4, <1>5, <1>6, <1>7, <1>8, <1>9, <1>10, <1>11, <1>12, <1>13,
       <1>14, <1>15, <1>16, <1>17, <1>18, <1>19, <1>20, <1>21, <1>22, <1>23, <1>24, <1>25,
       <1>26, <1>27, <1>28, <1>29, <1>30, <1>31, <1>32, <1>33, <1>34, <1>35, <1>36, <1>37,
       <1>38, <1>39, <1>40, <1>41, <1>42, <1>43, <1>44, <1>45, <1>46, <1>47, <1>48, <1>49,
       <1>50, <1>51, <1>52
    DEF Next, Reconcile, Open, Login, DeleteSession, Shutdown, Environment

\* The variables of the ownership protocol keep their types in every behaviour.
THEOREM TypeCorrect == Spec => []TypeOK
  <1>1. Init => TypeOK
    BY ConstantsAssumption
    DEF Init, TypeOK, Statuses, Procs, Entries, Insts, Steps, NoCreate, Creates, NoDelete,
        Deletes, Kinds,
        registry, memory, pass, handlers
  <1>2. TypeOK /\ [Next]_vars => TypeOK'
    BY TypeStep
  <1>3. QED
    BY <1>1, <1>2, PTL DEF Spec

-----------------------------------------------------------------------------
(* The inductive invariant.  ServedOnce follows from two facts that are    *)
(* inductive only together: TDLib's lock admits one instance per session   *)
(* (OneLock), and a serving entry has an open instance (ReadyIsBacked).    *)
(* The lock needs a session nobody created to be untouched (Untouched), and *)
(* a restarted process to come up with an empty live map (DownClean).      *)

\* At most one process has a TDLib instance on the directory of a session.
OneLock ==
    \A s \in Sessions : \A v, w \in Workers :
       inst[v][s] # "none" /\ inst[w][s] # "none" => v = w

\* A process that is down has no entries and no instances.
DownClean ==
    \A w \in Workers, s \in Sessions :
       proc[w] = "down" => live[w][s] = "none" /\ inst[w][s] = "none"

\* A session without a row, or whose create is not done with it, was never loaded,
\* opened or queued anywhere.
Untouched ==
    /\ \A s \in Sessions : create[s] # NoCreate => row[s] \in {"connecting", "deleted"}
    /\ \A w \in Workers, s \in Sessions :
         row[s] = "absent" \/ create[s] # NoCreate =>
            inst[w][s] = "none" /\ live[w][s] = "none" /\ s \notin todo[w] /\ cur[w] # s

Safe == OneLock /\ DownClean /\ Untouched /\ ReadyIsBacked

\* The create of an authorized session is done with it.
LEMMA AuthorizedDone ==
  ASSUME Untouched
  PROVE  \A s \in Authorized : row[s] # "absent" /\ create[s] = NoCreate
  BY Untouched DEF Untouched, Authorized

\* Every step of the fleet preserves the invariant.
LEMMA SafeStep ==
  ASSUME TypeOK, Safe, [Next]_vars
  PROVE  Safe'
  <1> USE DEF Statuses, Procs, Entries, Insts, Steps, NoCreate, Creates, NoDelete, Deletes,
              Kinds, registry, memory, pass, handlers, TypeOK
  <1>1. ASSUME NEW w \in Workers, ReconcileStart(w) PROVE Safe'
    BY <1>1, TypeOK, Safe, ConstantsAssumption
    DEF Safe, OneLock, DownClean, Untouched, ReadyIsBacked, Serving, ReconcileStart, At,
        Goto, StaleLogins, Running
  <1>2. ASSUME NEW w \in Workers, FenceQuery(w) PROVE Safe'
    BY <1>2, TypeOK, Safe, ConstantsAssumption
    DEF Safe, OneLock, DownClean, Untouched, ReadyIsBacked, Serving, FenceQuery, At, Goto,
        ForeignOwned, LiveWorkers, Exists, Running
  <1>3. ASSUME NEW w \in Workers, FenceDone(w) PROVE Safe'
    BY <1>3, TypeOK, Safe, ConstantsAssumption
    DEF Safe, OneLock, DownClean, Untouched, ReadyIsBacked, Serving, FenceDone, At, Goto,
        Running
  <1>4. ASSUME NEW w \in Workers, AdoptQuery(w) PROVE Safe'
    <2>1. todo' = [todo EXCEPT ![w] = ListOwned(w)] /\ ListOwned(w) \subseteq Authorized
      BY <1>4 DEF AdoptQuery, Goto, ListOwned, OwnedBy
    <2>2. Untouched'
      BY <1>4, <2>1, Safe, AuthorizedDone DEF Safe, Untouched, AdoptQuery
    <2>3. QED
      BY <1>4, <2>2, TypeOK, Safe, ConstantsAssumption
      DEF Safe, OneLock, DownClean, ReadyIsBacked, Serving, AdoptQuery, At, Goto, Running
  <1>5. ASSUME NEW w \in Workers, AdoptDone(w) PROVE Safe'
    BY <1>5, TypeOK, Safe, ConstantsAssumption
    DEF Safe, OneLock, DownClean, Untouched, ReadyIsBacked, Serving, AdoptDone, At, Goto,
        Running
  <1>6. ASSUME NEW w \in Workers, BalanceShed(w) PROVE Safe'
    BY <1>6, TypeOK, Safe, ConstantsAssumption
    DEF Safe, OneLock, DownClean, Untouched, ReadyIsBacked, Serving, BalanceShed, At,
        Goto, Running, ShedPicks, ReadyAt
  <1>7. ASSUME NEW w \in Workers, BalanceClaim(w) PROVE Safe'
    BY <1>7, TypeOK, Safe, ConstantsAssumption
    DEF Safe, OneLock, DownClean, Untouched, ReadyIsBacked, Serving, BalanceClaim, At,
        Goto, Running, MayClaim
  <1>8. ASSUME NEW w \in Workers, Balanced(w) PROVE Safe'
    BY <1>8, TypeOK, Safe, ConstantsAssumption
    DEF Safe, OneLock, DownClean, Untouched, ReadyIsBacked, Serving, Balanced, At, Goto,
        EndPass, Running
  <1>9. ASSUME NEW w \in Workers, ClaimOrphans(w) PROVE Safe'
    <2>1. PICK got \in SUBSET Orphans(w) : todo' = [todo EXCEPT ![w] = got]
      BY <1>9 DEF ClaimOrphans, Goto
    <2>2. got \subseteq Authorized
      BY <2>1 DEF Orphans
    <2>3. Untouched'
      BY <1>9, <2>1, <2>2, Safe, AuthorizedDone DEF Safe, Untouched, ClaimOrphans
    <2>4. QED
      BY <1>9, <2>3, TypeOK, Safe, ConstantsAssumption
      DEF Safe, OneLock, DownClean, ReadyIsBacked, Serving, ClaimOrphans, At, Goto, Running
  <1>10. ASSUME NEW w \in Workers, ShedRelease(w) PROVE Safe'
    BY <1>10, TypeOK, Safe, ConstantsAssumption
    DEF Safe, OneLock, DownClean, Untouched, ReadyIsBacked, Serving, ShedRelease, Put,
        SetOwner, Running
  <1>11. ASSUME NEW w \in Workers, PassDone(w) PROVE Safe'
    BY <1>11, TypeOK, Safe, ConstantsAssumption
    DEF Safe, OneLock, DownClean, Untouched, ReadyIsBacked, Serving, PassDone, At, Goto,
        EndPass, Running
  <1>12. ASSUME NEW w \in Workers, NEW s \in Sessions, FenceReassert(w, s) PROVE Safe'
    BY <1>12, TypeOK, Safe, ConstantsAssumption
    DEF Safe, OneLock, DownClean, Untouched, ReadyIsBacked, Serving, FenceReassert, At,
        Goto, SetOwner, Running
  <1>13. ASSUME NEW w \in Workers, NEW s \in Sessions, FenceDrop(w, s) PROVE Safe'
    BY <1>13, TypeOK, Safe, ConstantsAssumption
    DEF Safe, OneLock, DownClean, Untouched, ReadyIsBacked, Serving, FenceDrop, At, Goto,
        Put, Running
  <1>14. ASSUME NEW w \in Workers, NEW s \in Sessions, AdoptOne(w, s) PROVE Safe'
    BY <1>14, TypeOK, Safe, ConstantsAssumption
    DEF Safe, OneLock, DownClean, Untouched, ReadyIsBacked, Serving, AdoptOne, At, Goto,
        Hydrate, Put, Running
  <1>15. ASSUME NEW w \in Workers, NEW s \in Sessions, ClaimOne(w, s) PROVE Safe'
    BY <1>15, TypeOK, Safe, ConstantsAssumption
    DEF Safe, OneLock, DownClean, Untouched, ReadyIsBacked, Serving, ClaimOne, At, Goto,
        Hydrate, Put, Running
  <1>16. ASSUME NEW w \in Workers, NEW s \in Sessions, SkipOne(w, s) PROVE Safe'
    BY <1>16, TypeOK, Safe, ConstantsAssumption
    DEF Safe, OneLock, DownClean, Untouched, ReadyIsBacked, Serving, SkipOne, At, Goto,
        Running
  <1>17. ASSUME NEW w \in Workers, NEW s \in Sessions, ShedClose(w, s) PROVE Safe'
    BY <1>17, TypeOK, Safe, ConstantsAssumption
    DEF Safe, OneLock, DownClean, Untouched, ReadyIsBacked, Serving, ShedClose, At, Goto,
        Running
  <1>18. ASSUME NEW w \in Workers, NEW s \in Sessions, OpenLock(w, s) PROVE Safe'
    BY <1>18, TypeOK, Safe, ConstantsAssumption
    DEF Safe, OneLock, DownClean, Untouched, ReadyIsBacked, Serving, OpenLock, Opening,
        LockHeld, Running
  <1>19. ASSUME NEW w \in Workers, NEW s \in Sessions, OpenMissing(w, s) PROVE Safe'
    BY <1>19, TypeOK, Safe, ConstantsAssumption
    DEF Safe, OneLock, DownClean, Untouched, ReadyIsBacked, Serving, OpenMissing, Opening,
        HydrateFails, Put, SetStatus, Exists, LockHeld, Running
  <1>20. ASSUME NEW w \in Workers, NEW s \in Sessions, OpenLocked(w, s) PROVE Safe'
    BY <1>20, TypeOK, Safe, ConstantsAssumption
    DEF Safe, OneLock, DownClean, Untouched, ReadyIsBacked, Serving, OpenLocked, Opening,
        HydrateFails, Put, Running
  <1>21. ASSUME NEW w \in Workers, NEW s \in Sessions, OpenFails(w, s) PROVE Safe'
    BY <1>21, TypeOK, Safe, ConstantsAssumption
    DEF Safe, OneLock, DownClean, Untouched, ReadyIsBacked, Serving, OpenFails, Opening,
        HydrateFails, Put, Spend, Running
  <1>22. ASSUME NEW w \in Workers, NEW s \in Sessions, OpenExpired(w, s) PROVE Safe'
    BY <1>22, TypeOK, Safe, ConstantsAssumption
    DEF Safe, OneLock, DownClean, Untouched, ReadyIsBacked, Serving, OpenExpired, Opening,
        HydrateFails, Put, SetStatus, Exists, Spend, Running
  <1>23. ASSUME NEW w \in Workers, NEW s \in Sessions, OpenReady(w, s) PROVE Safe'
    BY <1>23, TypeOK, Safe, ConstantsAssumption
    DEF Safe, OneLock, DownClean, Untouched, ReadyIsBacked, Serving, OpenReady, Opening,
        SetStatus, Exists, Running
  <1>24. ASSUME NEW w \in Workers, NEW s \in Sessions, CreateSession(w, s) PROVE Safe'
    BY <1>24, TypeOK, Safe, ConstantsAssumption
    DEF Safe, OneLock, DownClean, Untouched, ReadyIsBacked, Serving, CreateSession,
        CreateStep
  <1>25. ASSUME NEW w \in Workers, NEW s \in Sessions, SetSessionDBDir(w, s) PROVE Safe'
    BY <1>25, TypeOK, Safe, ConstantsAssumption
    DEF Safe, OneLock, DownClean, Untouched, ReadyIsBacked, Serving, SetSessionDBDir,
        Creating, CreateStep, Exists, Spend, Running
  <1>26. ASSUME NEW w \in Workers, NEW s \in Sessions, SetSessionOwner(w, s) PROVE Safe'
    BY <1>26, TypeOK, Safe, ConstantsAssumption
    DEF Safe, OneLock, DownClean, Untouched, ReadyIsBacked, Serving, SetSessionOwner,
        Creating, CreateStep, SetOwner, Exists, Spend, Running
  <1>27. ASSUME NEW w \in Workers, NEW s \in Sessions, StartLogin(w, s) PROVE Safe'
    <2>1. create[s] # NoCreate
      BY <1>27, ConstantsAssumption DEF StartLogin, Creating
    <2>2. \A v \in Workers : inst[v][s] = "none" /\ live[v][s] = "none" /\ s \notin todo[v] /\ cur[v] # s
      BY <2>1, Safe DEF Safe, Untouched
    <2>3. row[s] # "absent"
      BY <2>1, Safe DEF Safe, Untouched
    <2>4. Untouched'
      BY <1>27, <2>3, Safe DEF Safe, Untouched, StartLogin, Put
    <2>5. QED
      BY <1>27, <2>2, <2>4, TypeOK, Safe
      DEF Safe, OneLock, DownClean, ReadyIsBacked, Serving, StartLogin, Creating, Put,
          Running
  <1>28. ASSUME NEW w \in Workers, NEW s \in Sessions, LoginReady(w, s) PROVE Safe'
    BY <1>28, TypeOK, Safe, ConstantsAssumption
    DEF Safe, OneLock, DownClean, Untouched, ReadyIsBacked, Serving, LoginReady,
        LoggingIn, SetStatus, Exists, Running
  <1>29. ASSUME NEW w \in Workers, NEW s \in Sessions, LoginFails(w, s) PROVE Safe'
    BY <1>29, TypeOK, Safe, ConstantsAssumption
    DEF Safe, OneLock, DownClean, Untouched, ReadyIsBacked, Serving, LoginFails,
        LoggingIn, SetStatus, Exists, Running
  <1>30. ASSUME NEW w \in Workers, NEW s \in Sessions, DeleteStart(w, s) PROVE Safe'
    BY <1>30, TypeOK, Safe, ConstantsAssumption
    DEF Safe, OneLock, DownClean, Untouched, ReadyIsBacked, Serving, DeleteStart,
        DeleteStep, Spend
  <1>31. ASSUME NEW w \in Workers, NEW s \in Sessions, DeleteAwait(w, s) PROVE Safe'
    BY <1>31, TypeOK, Safe, ConstantsAssumption
    DEF Safe, OneLock, DownClean, Untouched, ReadyIsBacked, Serving, DeleteAwait,
        DeleteStep, Spend, Running
  <1>32. ASSUME NEW w \in Workers, NEW s \in Sessions, DeleteClose(w, s) PROVE Safe'
    <2>1. CASE inst' = [inst EXCEPT ![w][s] =
                        IF live[w][s] = "ready" /\ @ = "open" THEN "closing" ELSE @]
      BY <2>1, <1>32, TypeOK, Safe, ConstantsAssumption
      DEF Safe, OneLock, DownClean, Untouched, ReadyIsBacked, Serving, DeleteClose,
          DeleteStep, Running
    <2>2. CASE /\ live[w][s] = "login" /\ inst[w][s] = "opening"
             /\ inst' = [inst EXCEPT ![w][s] = "closing"]
      BY <2>2, <1>32, TypeOK, Safe, ConstantsAssumption
      DEF Safe, OneLock, DownClean, Untouched, ReadyIsBacked, Serving, DeleteClose,
          DeleteStep, Running
    <2>3. QED
      BY <2>1, <2>2, <1>32 DEF DeleteClose
  <1>33. ASSUME NEW w \in Workers, NEW s \in Sessions, DeleteDrop(w, s) PROVE Safe'
    BY <1>33, TypeOK, Safe, ConstantsAssumption
    DEF Safe, OneLock, DownClean, Untouched, ReadyIsBacked, Serving, DeleteDrop,
        DeleteStep, Put, Running
  <1>34. ASSUME NEW w \in Workers, NEW s \in Sessions, DeleteRow(w, s) PROVE Safe'
    BY <1>34, TypeOK, Safe, ConstantsAssumption
    DEF Safe, OneLock, DownClean, Untouched, ReadyIsBacked, Serving, DeleteRow,
        DeleteStep, Running
  <1>35. ASSUME NEW w \in Workers, NEW s \in Sessions, DeleteRowFails(w, s) PROVE Safe'
    BY <1>35, TypeOK, Safe, ConstantsAssumption
    DEF Safe, OneLock, DownClean, Untouched, ReadyIsBacked, Serving, DeleteRowFails, Running
  <1>36. ASSUME NEW w \in Workers, NEW s \in Sessions, DeleteDir(w, s) PROVE Safe'
    BY <1>36, TypeOK, Safe, ConstantsAssumption
    DEF Safe, OneLock, DownClean, Untouched, ReadyIsBacked, Serving, DeleteDir, Running
  <1>37. ASSUME NEW w \in Workers, ShutdownStart(w) PROVE Safe'
    BY <1>37, TypeOK, Safe, ConstantsAssumption
    DEF Safe, OneLock, DownClean, Untouched, ReadyIsBacked, Serving, ShutdownStart, Spend,
        ReadyAt
  <1>38. ASSUME NEW w \in Workers, ShutdownClose(w) PROVE Safe'
    BY <1>38, TypeOK, Safe, ConstantsAssumption
    DEF Safe, OneLock, DownClean, Untouched, ReadyIsBacked, Serving, ShutdownClose, Spend
  <1>39. ASSUME NEW w \in Workers, ReleaseSessions(w) PROVE Safe'
    BY <1>39, TypeOK, Safe, ConstantsAssumption
    DEF Safe, OneLock, DownClean, Untouched, ReadyIsBacked, Serving, ReleaseSessions, Spend,
        OwnedBy, Authorized
  <1>40. ASSUME NEW w \in Workers, DeregisterWorker(w) PROVE Safe'
    BY <1>40, TypeOK, Safe, ConstantsAssumption
    DEF Safe, OneLock, DownClean, Untouched, ReadyIsBacked, Serving, DeregisterWorker, Spend
  <1>41. ASSUME NEW w \in Workers, Exit(w) PROVE Safe'
    BY <1>41, TypeOK, Safe, ConstantsAssumption
    DEF Safe, OneLock, DownClean, Untouched, ReadyIsBacked, Serving, Exit, ProcessEnds,
        EndPass, Goto
  <1>42. ASSUME NEW w \in Workers, Beat(w) PROVE Safe'
    BY <1>42, TypeOK, Safe, ConstantsAssumption
    DEF Safe, OneLock, DownClean, Untouched, ReadyIsBacked, Serving, Beat, SeenNow
  <1>43. ASSUME NEW w \in Workers, GoStale(w) PROVE Safe'
    BY <1>43, TypeOK, Safe, ConstantsAssumption
    DEF Safe, OneLock, DownClean, Untouched, ReadyIsBacked, Serving, GoStale, Spend
  <1>44. ASSUME NEW w \in Workers, Crash(w) PROVE Safe'
    BY <1>44, TypeOK, Safe, ConstantsAssumption
    DEF Safe, OneLock, DownClean, Untouched, ReadyIsBacked, Serving, Crash, ProcessEnds,
        EndPass, Goto, Spend, Running
  <1>45. ASSUME NEW w \in Workers, Restart(w) PROVE Safe'
    BY <1>45, TypeOK, Safe, ConstantsAssumption
    DEF Safe, OneLock, DownClean, Untouched, ReadyIsBacked, Serving, Restart, SeenNow
  <1>46. ASSUME NEW w \in Workers, NEW q \in Steps, NEW r \in Steps, QueryFails(w, q, r) PROVE Safe'
    BY <1>46, TypeOK, Safe, ConstantsAssumption
    DEF Safe, OneLock, DownClean, Untouched, ReadyIsBacked, Serving, QueryFails, At, Goto,
        Spend, Running
  <1>47. ASSUME NEW w \in Workers, BalanceFails(w) PROVE Safe'
    BY <1>47, TypeOK, Safe, ConstantsAssumption
    DEF Safe, OneLock, DownClean, Untouched, ReadyIsBacked, Serving, BalanceFails, At,
        Goto, EndPass, Spend, Running
  <1>48. ASSUME NEW w \in Workers, ShedReleaseFails(w) PROVE Safe'
    BY <1>48, TypeOK, Safe, ConstantsAssumption
    DEF Safe, OneLock, DownClean, Untouched, ReadyIsBacked, Serving, ShedReleaseFails,
        Put, Spend, Running
  <1>49. ASSUME NEW w \in Workers, NEW s \in Sessions, RowFails(w, s) PROVE Safe'
    BY <1>49, TypeOK, Safe, ConstantsAssumption
    DEF Safe, OneLock, DownClean, Untouched, ReadyIsBacked, Serving, RowFails, At, Goto,
        Spend, Running
  <1>50. ASSUME NEW w \in Workers, NEW s \in Sessions, RetryReady(w, s) PROVE Safe'
    BY <1>50, TypeOK, Safe, ConstantsAssumption
    DEF Safe, OneLock, DownClean, Untouched, ReadyIsBacked, Serving, RetryReady
  <1>51. ASSUME NEW w \in Workers, NEW s \in Sessions, Closed(w, s) PROVE Safe'
    BY <1>51, TypeOK, Safe, ConstantsAssumption
    DEF Safe, OneLock, DownClean, Untouched, ReadyIsBacked, Serving, Closed
  <1>52. ASSUME UNCHANGED vars PROVE Safe'
    BY <1>52, TypeOK, Safe, ConstantsAssumption
    DEF Safe, OneLock, DownClean, Untouched, ReadyIsBacked, Serving, vars
  <1>53. QED
    BY <1>1, <1>2, <1>3, <1>4, <1>5, <1>6, <1>7, <1>8, <1>9, <1>10, <1>11, <1>12, <1>13,
       <1>14, <1>15, <1>16, <1>17, <1>18, <1>19, <1>20, <1>21, <1>22, <1>23, <1>24, <1>25,
       <1>26, <1>27, <1>28, <1>29, <1>30, <1>31, <1>32, <1>33, <1>34, <1>35, <1>36, <1>37,
       <1>38, <1>39, <1>40, <1>41, <1>42, <1>43, <1>44, <1>45, <1>46, <1>47, <1>48, <1>49,
       <1>50, <1>51, <1>52
    DEF Next, Reconcile, Open, Login, DeleteSession, Shutdown, Environment

\* In every behaviour a serving entry has an open TDLib instance behind it.
THEOREM Backed == Spec => []ReadyIsBacked
  <1>1. Init => Safe
    BY ConstantsAssumption DEF Init, Safe, OneLock, DownClean, Untouched, ReadyIsBacked, Serving
  <1>2. TypeOK /\ Safe /\ [Next]_vars => Safe'
    BY SafeStep
  <1>3. Safe => ReadyIsBacked
    BY DEF Safe
  <1>4. QED
    BY <1>1, <1>2, <1>3, TypeCorrect, PTL DEF Spec

\* In every behaviour at most one worker serves a session.
THEOREM Exclusive == Spec => []ServedOnce
  <1>1. Init => Safe
    BY ConstantsAssumption DEF Init, Safe, OneLock, DownClean, Untouched, ReadyIsBacked, Serving
  <1>2. TypeOK /\ Safe /\ [Next]_vars => Safe'
    BY SafeStep
  <1>3. Safe => ServedOnce
    BY DEF Safe, OneLock, ReadyIsBacked, ServedOnce
  <1>4. QED
    BY <1>1, <1>2, <1>3, TypeCorrect, PTL DEF Spec

-----------------------------------------------------------------------------
(* A healthy fleet: workers may crash, restart and meet errors, but no     *)
(* running worker misses its heartbeats, none is shut down and nothing is  *)
(* deleted.  Then ownership, the live map and the locks agree.             *)

HealthyFleet ==
    \A b \in Budgets : b["lapse"] = 0 /\ b["shutdown"] = 0 /\ b["delete"] = 0

\* None of the excluded faults happens, a running worker is alive to every
\* cutoff, and a dead one has no pass under way.
Calm ==
    /\ budget["lapse"] = 0 /\ budget["shutdown"] = 0 /\ budget["delete"] = 0
    /\ \A s \in Sessions : del[s] = NoDelete /\ row[s] # "deleted"
    /\ \A w \in Workers :
         /\ proc[w] \in {"up", "down"}
         /\ proc[w] = "up" => w \in alive /\ \A u \in Workers : w \notin cut[u]
         /\ proc[w] = "down" => pc[w] = "idle" /\ todo[w] = {} /\ cur[w] = None

\* What a worker holds, or is about to put in its map, is registered to it.  A
\* session whose SetSessionOwner failed is left out, here and below.
Held ==
    /\ \A w \in Workers, s \in Sessions \ unowned : live[w][s] # "none" => owner[s] = w
    /\ \A s \in Sessions \ unowned : create[s].at = "login" => owner[s] = create[s].by

\* What a pass is about to open or shed is registered to it; a claimed session
\* is not held yet, one to be shed is held.
Queued ==
    \A w \in Workers, s \in Sessions \ unowned : s \in todo[w] =>
       /\ owner[s] = w
       /\ cur[w] # s
       /\ pc[w] \in {"adopting", "claiming", "shedding"}
       /\ pc[w] = "claiming" => live[w][s] = "none"
       /\ pc[w] = "shedding" => live[w][s] = "ready"

\* What a pass is opening or closing right now.
Current ==
    \A w \in Workers, s \in Sessions \ unowned : cur[w] = s =>
       /\ owner[s] = w
       /\ \/ pc[w] \in {"adopting", "claiming"} /\ live[w][s] = "opening"
          \/ pc[w] = "shedding" /\ live[w][s] = "ready" /\ inst[w][s] # "open"

\* Every TDLib instance that is open or being opened can be reached.
Instances ==
    \A w \in Workers, s \in Sessions \ unowned :
       /\ inst[w][s] = "open" => live[w][s] = "ready"
       /\ inst[w][s] = "opening" =>
            live[w][s] = "login" \/ (cur[w] = s /\ pc[w] \in {"adopting", "claiming"})

Healthy == Calm /\ Held /\ Queued /\ Current /\ Instances

\* Every step of a healthy fleet preserves the agreement.
LEMMA HealthyStep ==
  ASSUME TypeOK, Safe, Healthy, [Next]_vars
  PROVE  Healthy'
  <1> USE DEF Statuses, Procs, Entries, Insts, Steps, NoCreate, Creates, NoDelete, Deletes,
              Kinds, registry, memory, pass, handlers, TypeOK, Safe, DownClean, Untouched
  <1>1. ASSUME NEW w \in Workers, ReconcileStart(w) PROVE Healthy'
    BY <1>1, TypeOK, Safe, Healthy, ConstantsAssumption
    DEF Healthy, Calm, Held, Queued, Current, Instances, ReconcileStart, At, Goto,
        StaleLogins, Running
  <1>2. ASSUME NEW w \in Workers, FenceQuery(w) PROVE Healthy'
    BY <1>2, TypeOK, Safe, Healthy, ConstantsAssumption
    DEF Healthy, Calm, Held, Queued, Current, Instances, FenceQuery, At, Goto,
        ForeignOwned, LiveWorkers, Exists, Running
  <1>3. ASSUME NEW w \in Workers, FenceDone(w) PROVE Healthy'
    BY <1>3, TypeOK, Safe, Healthy, ConstantsAssumption
    DEF Healthy, Calm, Held, Queued, Current, Instances, FenceDone, At, Goto, Running
  <1>4. ASSUME NEW w \in Workers, AdoptQuery(w) PROVE Healthy'
    BY <1>4, TypeOK, Safe, Healthy, ConstantsAssumption
    DEF Healthy, Calm, Held, Queued, Current, Instances, AdoptQuery, At, Goto, ListOwned,
        OwnedBy,
        Authorized, Running
  <1>5. ASSUME NEW w \in Workers, AdoptDone(w) PROVE Healthy'
    BY <1>5, TypeOK, Safe, Healthy, ConstantsAssumption
    DEF Healthy, Calm, Held, Queued, Current, Instances, AdoptDone, At, Goto, Running
  <1>6. ASSUME NEW w \in Workers, BalanceShed(w) PROVE Healthy'
    BY <1>6, TypeOK, Safe, Healthy, ConstantsAssumption
    DEF Healthy, Calm, Held, Queued, Current, Instances, BalanceShed, At, Goto, Running,
        ShedPicks, ReadyAt
  <1>7. ASSUME NEW w \in Workers, BalanceClaim(w) PROVE Healthy'
    BY <1>7, TypeOK, Safe, Healthy, ConstantsAssumption
    DEF Healthy, Calm, Held, Queued, Current, Instances, BalanceClaim, At, Goto, Running,
        MayClaim
  <1>8. ASSUME NEW w \in Workers, Balanced(w) PROVE Healthy'
    BY <1>8, TypeOK, Safe, Healthy, ConstantsAssumption
    DEF Healthy, Calm, Held, Queued, Current, Instances, Balanced, At, Goto, EndPass,
        Running
  <1>9. ASSUME NEW w \in Workers, ClaimOrphans(w) PROVE Healthy'
    <2>1. PICK got \in SUBSET Orphans(w) :
               /\ owner' = [s \in Sessions |-> IF s \in got THEN w ELSE owner[s]]
               /\ pc' = [pc EXCEPT ![w] = "claiming"]
               /\ todo' = [todo EXCEPT ![w] = got]
      BY <1>9 DEF ClaimOrphans, Goto
    <2>2. \A v \in Workers : proc[v] = "up" => v \notin cut[w]
      BY Healthy DEF Healthy, Calm
    <2>3. \A v \in Workers, s \in Sessions \ unowned :
            live[v][s] # "none" => proc[v] = "up" /\ owner[s] = v
      BY Safe, Healthy DEF Healthy, Calm, Held
    <2>4. \A s \in got : create[s] = NoCreate
      BY <2>1, Safe, AuthorizedDone DEF Safe, Orphans
    <2>5. \A s \in got \ unowned : \A v \in Workers : live[v][s] = "none" /\ cur[v] # s /\ s \notin todo[v]
      <3> SUFFICES ASSUME NEW s \in got \ unowned, NEW v \in Workers
                   PROVE  live[v][s] = "none" /\ cur[v] # s /\ s \notin todo[v]
        OBVIOUS
      <3>1. s \in Sessions /\ (owner[s] = None \/ owner[s] \in cut[w])
        BY <2>1 DEF Orphans, Authorized
      <3>2. proc[v] = "up" => owner[s] # v
        BY <2>2, <3>1, ConstantsAssumption
      <3>3. live[v][s] = "none"
        BY <2>3, <3>1, <3>2
      <3>4. cur[v] = s \/ s \in todo[v] => proc[v] = "up" /\ owner[s] = v
        BY <3>1, Healthy, ConstantsAssumption DEF Healthy, Calm, Queued, Current
      <3>5. QED
        BY <3>2, <3>3, <3>4
    <2>6. Calm'
      BY <1>9, <2>1, Healthy DEF Healthy, Calm, ClaimOrphans, At, Running
    <2>7. Held'
      <3>1. \A s \in got : create[s].at # "login"
        BY <2>4
      <3>2. QED
        BY <1>9, <2>1, <2>5, <3>1, Healthy DEF Healthy, Held, ClaimOrphans
    <2>8. Queued'
      BY <1>9, <2>1, <2>5, Healthy DEF Healthy, Queued, ClaimOrphans, At
    <2>9. Current' /\ Instances'
      BY <1>9, <2>1, <2>5, Healthy DEF Healthy, Current, Instances, ClaimOrphans, At
    <2>10. QED
      BY <2>6, <2>7, <2>8, <2>9 DEF Healthy
  <1>10. ASSUME NEW w \in Workers, ShedRelease(w) PROVE Healthy'
    BY <1>10, TypeOK, Safe, Healthy, ConstantsAssumption
    DEF Healthy, Calm, Held, Queued, Current, Instances, ShedRelease, Put, SetOwner,
        Running
  <1>11. ASSUME NEW w \in Workers, PassDone(w) PROVE Healthy'
    BY <1>11, TypeOK, Safe, Healthy, ConstantsAssumption
    DEF Healthy, Calm, Held, Queued, Current, Instances, PassDone, At, Goto, EndPass,
        Running
  <1>12. ASSUME NEW w \in Workers, NEW s \in Sessions, FenceReassert(w, s) PROVE Healthy'
    BY <1>12, TypeOK, Safe, Healthy, ConstantsAssumption
    DEF Healthy, Calm, Held, Queued, Current, Instances, FenceReassert, At, Goto,
        SetOwner, Running
  <1>13. ASSUME NEW w \in Workers, NEW s \in Sessions, FenceDrop(w, s) PROVE Healthy'
    BY <1>13, TypeOK, Safe, Healthy, ConstantsAssumption
    DEF Healthy, Calm, Held, Queued, Current, Instances, FenceDrop, At, Goto, Put, Running
  <1>14. ASSUME NEW w \in Workers, NEW s \in Sessions, AdoptOne(w, s) PROVE Healthy'
    BY <1>14, TypeOK, Safe, Healthy, ConstantsAssumption
    DEF Healthy, Calm, Held, Queued, Current, Instances, AdoptOne, At, Goto, Hydrate, Put,
        Running, AdoptSkips
  <1>15. ASSUME NEW w \in Workers, NEW s \in Sessions, ClaimOne(w, s) PROVE Healthy'
    BY <1>15, TypeOK, Safe, Healthy, ConstantsAssumption
    DEF Healthy, Calm, Held, Queued, Current, Instances, ClaimOne, At, Goto, Hydrate, Put,
        Running
  <1>16. ASSUME NEW w \in Workers, NEW s \in Sessions, SkipOne(w, s) PROVE Healthy'
    BY <1>16, TypeOK, Safe, Healthy, ConstantsAssumption
    DEF Healthy, Calm, Held, Queued, Current, Instances, SkipOne, At, Goto, Running
  <1>17. ASSUME NEW w \in Workers, NEW s \in Sessions, ShedClose(w, s) PROVE Healthy'
    BY <1>17, TypeOK, Safe, Healthy, ConstantsAssumption
    DEF Healthy, Calm, Held, Queued, Current, Instances, ShedClose, At, Goto, Running
  <1>18. ASSUME NEW w \in Workers, NEW s \in Sessions, OpenLock(w, s) PROVE Healthy'
    BY <1>18, TypeOK, Safe, Healthy, ConstantsAssumption
    DEF Healthy, Calm, Held, Queued, Current, Instances, OpenLock, Opening, LockHeld,
        Running
  <1>19. ASSUME NEW w \in Workers, NEW s \in Sessions, OpenMissing(w, s) PROVE Healthy'
    BY <1>19, TypeOK, Safe, Healthy, ConstantsAssumption
    DEF Healthy, Calm, Held, Queued, Current, Instances, OpenMissing, Opening,
        HydrateFails, Put, SetStatus, Exists, LockHeld, Running
  <1>20. ASSUME NEW w \in Workers, NEW s \in Sessions, OpenLocked(w, s) PROVE Healthy'
    BY <1>20, TypeOK, Safe, Healthy, ConstantsAssumption
    DEF Healthy, Calm, Held, Queued, Current, Instances, OpenLocked, Opening,
        HydrateFails, Put, Running
  <1>21. ASSUME NEW w \in Workers, NEW s \in Sessions, OpenFails(w, s) PROVE Healthy'
    BY <1>21, TypeOK, Safe, Healthy, ConstantsAssumption
    DEF Healthy, Calm, Held, Queued, Current, Instances, OpenFails, Opening, HydrateFails,
        Put, Spend, Running
  <1>22. ASSUME NEW w \in Workers, NEW s \in Sessions, OpenExpired(w, s) PROVE Healthy'
    BY <1>22, TypeOK, Safe, Healthy, ConstantsAssumption
    DEF Healthy, Calm, Held, Queued, Current, Instances, OpenExpired, Opening,
        HydrateFails, Put, SetStatus, Exists, Spend, Running
  <1>23. ASSUME NEW w \in Workers, NEW s \in Sessions, OpenReady(w, s) PROVE Healthy'
    BY <1>23, TypeOK, Safe, Healthy, ConstantsAssumption
    DEF Healthy, Calm, Held, Queued, Current, Instances, OpenReady, Opening, SetStatus,
        Exists, Running
  <1>24. ASSUME NEW w \in Workers, NEW s \in Sessions, CreateSession(w, s) PROVE Healthy'
    BY <1>24, TypeOK, Safe, Healthy, ConstantsAssumption
    DEF Healthy, Calm, Held, Queued, Current, Instances, CreateSession, CreateStep
  <1>25. ASSUME NEW w \in Workers, NEW s \in Sessions, SetSessionDBDir(w, s) PROVE Healthy'
    BY <1>25, TypeOK, Safe, Healthy, ConstantsAssumption
    DEF Healthy, Calm, Held, Queued, Current, Instances, SetSessionDBDir, Creating,
        CreateStep, Exists, Spend, Running
  <1>26. ASSUME NEW w \in Workers, NEW s \in Sessions, SetSessionOwner(w, s) PROVE Healthy'
    BY <1>26, TypeOK, Safe, Healthy, ConstantsAssumption
    DEF Healthy, Calm, Held, Queued, Current, Instances, SetSessionOwner, Creating,
        CreateStep, SetOwner, Exists, Spend, Running
  <1>27. ASSUME NEW w \in Workers, NEW s \in Sessions, StartLogin(w, s) PROVE Healthy'
    <2>1. create[s] # NoCreate /\ create[s].at = "login" /\ create[s].by = w
      BY <1>27, ConstantsAssumption DEF StartLogin, Creating
    <2>2. \A v \in Workers : inst[v][s] = "none" /\ live[v][s] = "none" /\ s \notin todo[v] /\ cur[v] # s
      BY <2>1, Safe
    <2>3. s \notin unowned => owner[s] = w
      BY <2>1, Healthy DEF Healthy, Held
    <2>4. Calm'
      BY <1>27, Healthy DEF Healthy, Calm, StartLogin
    <2>5. Held'
      <3>1. create' = [create EXCEPT ![s] = NoCreate] /\ live' = [live EXCEPT ![w][s] = "login"]
            /\ owner' = owner /\ unowned' = unowned
        BY <1>27 DEF StartLogin, Put
      <3>2. QED
        BY <3>1, <2>3, Healthy DEF Healthy, Held
    <2>6. Queued' /\ Current' /\ Instances'
      BY <1>27, <2>2, Healthy DEF Healthy, Queued, Current, Instances, StartLogin, Put
    <2>7. QED
      BY <2>4, <2>5, <2>6 DEF Healthy
  <1>28. ASSUME NEW w \in Workers, NEW s \in Sessions, LoginReady(w, s) PROVE Healthy'
    BY <1>28, TypeOK, Safe, Healthy, ConstantsAssumption
    DEF Healthy, Calm, Held, Queued, Current, Instances, LoginReady, LoggingIn, SetStatus,
        Exists, Running
  <1>29. ASSUME NEW w \in Workers, NEW s \in Sessions, LoginFails(w, s) PROVE Healthy'
    BY <1>29, TypeOK, Safe, Healthy, ConstantsAssumption
    DEF Healthy, Calm, Held, Queued, Current, Instances, LoginFails, LoggingIn, SetStatus,
        Exists, Running
  <1>30. ASSUME NEW w \in Workers, NEW s \in Sessions, DeleteStart(w, s) PROVE Healthy'
    BY <1>30, TypeOK, Safe, Healthy, ConstantsAssumption
    DEF Healthy, Calm, Held, Queued, Current, Instances, DeleteStart, DeleteStep, Spend
  <1>31. ASSUME NEW w \in Workers, NEW s \in Sessions, DeleteAwait(w, s) PROVE Healthy'
    BY <1>31, TypeOK, Safe, Healthy, ConstantsAssumption
    DEF Healthy, Calm, Held, Queued, Current, Instances, DeleteAwait, DeleteStep, Spend,
        Running
  <1>32. ASSUME NEW w \in Workers, NEW s \in Sessions, DeleteClose(w, s) PROVE Healthy'
    BY <1>32, TypeOK, Safe, Healthy, ConstantsAssumption
    DEF Healthy, Calm, Held, Queued, Current, Instances, DeleteClose, DeleteStep, Running
  <1>33. ASSUME NEW w \in Workers, NEW s \in Sessions, DeleteDrop(w, s) PROVE Healthy'
    BY <1>33, TypeOK, Safe, Healthy, ConstantsAssumption
    DEF Healthy, Calm, Held, Queued, Current, Instances, DeleteDrop, DeleteStep, Put,
        Running
  <1>34. ASSUME NEW w \in Workers, NEW s \in Sessions, DeleteRow(w, s) PROVE Healthy'
    BY <1>34, TypeOK, Safe, Healthy, ConstantsAssumption
    DEF Healthy, Calm, Held, Queued, Current, Instances, DeleteRow, DeleteStep, Running
  <1>35. ASSUME NEW w \in Workers, NEW s \in Sessions, DeleteRowFails(w, s) PROVE Healthy'
    BY <1>35, TypeOK, Safe, Healthy, ConstantsAssumption
    DEF Healthy, Calm, Held, Queued, Current, Instances, DeleteRowFails, Spend, Running
  <1>36. ASSUME NEW w \in Workers, NEW s \in Sessions, DeleteDir(w, s) PROVE Healthy'
    BY <1>36, TypeOK, Safe, Healthy, ConstantsAssumption
    DEF Healthy, Calm, Held, Queued, Current, Instances, DeleteDir, Running
  <1>37. ASSUME NEW w \in Workers, ShutdownStart(w) PROVE Healthy'
    BY <1>37, TypeOK, Safe, Healthy, ConstantsAssumption
    DEF Healthy, Calm, Held, Queued, Current, Instances, ShutdownStart, Spend, ReadyAt
  <1>38. ASSUME NEW w \in Workers, ShutdownClose(w) PROVE Healthy'
    BY <1>38, TypeOK, Safe, Healthy, ConstantsAssumption
    DEF Healthy, Calm, Held, Queued, Current, Instances, ShutdownClose, Spend
  <1>39. ASSUME NEW w \in Workers, ReleaseSessions(w) PROVE Healthy'
    BY <1>39, TypeOK, Safe, Healthy, ConstantsAssumption
    DEF Healthy, Calm, Held, Queued, Current, Instances, ReleaseSessions, Spend, OwnedBy,
        Authorized
  <1>40. ASSUME NEW w \in Workers, DeregisterWorker(w) PROVE Healthy'
    <2>1. FALSE
      BY <1>40, Healthy DEF Healthy, Calm, DeregisterWorker
    <2>2. QED
      BY <2>1
  <1>41. ASSUME NEW w \in Workers, Exit(w) PROVE Healthy'
    BY <1>41, TypeOK, Safe, Healthy, ConstantsAssumption
    DEF Healthy, Calm, Held, Queued, Current, Instances, Exit, ProcessEnds, EndPass, Goto
  <1>42. ASSUME NEW w \in Workers, Beat(w) PROVE Healthy'
    BY <1>42, TypeOK, Safe, Healthy, ConstantsAssumption
    DEF Healthy, Calm, Held, Queued, Current, Instances, Beat, SeenNow
  <1>43. ASSUME NEW w \in Workers, GoStale(w) PROVE Healthy'
    BY <1>43, TypeOK, Safe, Healthy, ConstantsAssumption
    DEF Healthy, Calm, Held, Queued, Current, Instances, GoStale, Spend
  <1>44. ASSUME NEW w \in Workers, Crash(w) PROVE Healthy'
    BY <1>44, TypeOK, Safe, Healthy, ConstantsAssumption
    DEF Healthy, Calm, Held, Queued, Current, Instances, Crash, ProcessEnds, EndPass,
        Goto, Spend, Running
  <1>45. ASSUME NEW w \in Workers, Restart(w) PROVE Healthy'
    BY <1>45, TypeOK, Safe, Healthy, ConstantsAssumption
    DEF Healthy, Calm, Held, Queued, Current, Instances, Restart, SeenNow
  <1>46. ASSUME NEW w \in Workers, NEW q \in Steps, NEW r \in Steps, QueryFails(w, q, r) PROVE Healthy'
    BY <1>46, TypeOK, Safe, Healthy, ConstantsAssumption
    DEF Healthy, Calm, Held, Queued, Current, Instances, QueryFails, At, Goto, Spend,
        Running
  <1>47. ASSUME NEW w \in Workers, BalanceFails(w) PROVE Healthy'
    BY <1>47, TypeOK, Safe, Healthy, ConstantsAssumption
    DEF Healthy, Calm, Held, Queued, Current, Instances, BalanceFails, At, Goto, EndPass,
        Spend, Running
  <1>48. ASSUME NEW w \in Workers, ShedReleaseFails(w) PROVE Healthy'
    BY <1>48, TypeOK, Safe, Healthy, ConstantsAssumption
    DEF Healthy, Calm, Held, Queued, Current, Instances, ShedReleaseFails, Put, Spend,
        Running
  <1>49. ASSUME NEW w \in Workers, NEW s \in Sessions, RowFails(w, s) PROVE Healthy'
    BY <1>49, TypeOK, Safe, Healthy, ConstantsAssumption
    DEF Healthy, Calm, Held, Queued, Current, Instances, RowFails, At, Goto, Spend,
        Running
  <1>50. ASSUME NEW w \in Workers, NEW s \in Sessions, RetryReady(w, s) PROVE Healthy'
    BY <1>50, TypeOK, Safe, Healthy, ConstantsAssumption
    DEF Healthy, Calm, Held, Queued, Current, Instances, RetryReady
  <1>51. ASSUME NEW w \in Workers, NEW s \in Sessions, Closed(w, s) PROVE Healthy'
    BY <1>51, TypeOK, Safe, Healthy, ConstantsAssumption
    DEF Healthy, Calm, Held, Queued, Current, Instances, Closed
  <1>52. ASSUME UNCHANGED vars PROVE Healthy'
    BY <1>52, TypeOK, Safe, Healthy, ConstantsAssumption
    DEF Healthy, Calm, Held, Queued, Current, Instances, vars
  <1>53. QED
    BY <1>1, <1>2, <1>3, <1>4, <1>5, <1>6, <1>7, <1>8, <1>9, <1>10, <1>11, <1>12, <1>13,
       <1>14, <1>15, <1>16, <1>17, <1>18, <1>19, <1>20, <1>21, <1>22, <1>23, <1>24, <1>25,
       <1>26, <1>27, <1>28, <1>29, <1>30, <1>31, <1>32, <1>33, <1>34, <1>35, <1>36, <1>37,
       <1>38, <1>39, <1>40, <1>41, <1>42, <1>43, <1>44, <1>45, <1>46, <1>47, <1>48, <1>49,
       <1>50, <1>51, <1>52
    DEF Next, Reconcile, Open, Login, DeleteSession, Shutdown, Environment

\* A healthy fleet starts with nothing served and nothing under way.
LEMMA HealthyInit ==
  ASSUME HealthyFleet, Init
  PROVE  Safe /\ Healthy
  <1>1. Safe
    BY ConstantsAssumption, Init DEF Init, Safe, OneLock, DownClean, Untouched, ReadyIsBacked, Serving
  <1>2. budget["lapse"] = 0 /\ budget["shutdown"] = 0 /\ budget["delete"] = 0
    BY HealthyFleet, Init DEF Init, HealthyFleet
  <1>3. Calm
    BY <1>2, Init DEF Init, Calm
  <1>4. Held /\ Queued /\ Current /\ Instances
    BY ConstantsAssumption, Init DEF Init, NoCreate, Held, Queued, Current, Instances
  <1>5. QED
    BY <1>1, <1>3, <1>4 DEF Healthy

\* In a healthy fleet the registry sends a session's requests to the worker that
\* holds it, however the passes of the workers interleave with crashes.
THEOREM RoutedToHolder == HealthyFleet => (Spec => []HolderOwns)
  <1> SUFFICES ASSUME HealthyFleet PROVE Spec => []HolderOwns
    OBVIOUS
  <1>1. Init => Safe /\ Healthy
    BY HealthyInit
  <1>2. TypeOK /\ Safe /\ Healthy /\ [Next]_vars => Safe' /\ Healthy'
    BY SafeStep, HealthyStep
  <1>3. Healthy => HolderOwns
    BY DEF Healthy, Held, HolderOwns
  <1>4. QED
    BY <1>1, <1>2, <1>3, TypeCorrect, PTL DEF Spec

\* In a healthy fleet no process keeps a client its live map does not lead to.
THEOREM NothingLeaks == HealthyFleet => (Spec => []NoLeakedClient)
  <1> SUFFICES ASSUME HealthyFleet PROVE Spec => []NoLeakedClient
    OBVIOUS
  <1>1. Init => Safe /\ Healthy
    BY HealthyInit
  <1>2. TypeOK /\ Safe /\ Healthy /\ [Next]_vars => Safe' /\ Healthy'
    BY SafeStep, HealthyStep
  <1>3. Healthy => NoLeakedClient
    BY DEF Healthy, Instances, NoLeakedClient
  <1>4. QED
    BY <1>1, <1>2, <1>3, TypeCorrect, PTL DEF Spec

-----------------------------------------------------------------------------
(* A claim never takes from the living.                                    *)

\* A worker that is alive now is alive to every pass's cutoff, however old;
\* a session has no owner before its create has written one.
Cutoffs ==
    /\ \A u \in Workers : cut[u] \cap alive = {}
    /\ \A s \in Sessions :
         row[s] = "absent" \/ create[s].at \in {"path", "owner"} => owner[s] = None

\* Every step keeps the cutoffs behind the heartbeats.
LEMMA CutoffStep ==
  ASSUME TypeOK, Safe, Cutoffs, [Next]_vars
  PROVE  Cutoffs'
  <1> USE DEF Statuses, Procs, Entries, Insts, Steps, NoCreate, Creates, NoDelete, Deletes,
              Kinds, registry, memory, pass, handlers, TypeOK, Safe, Untouched
  <1>1. ASSUME NEW w \in Workers, ReconcileStart(w) PROVE Cutoffs'
    BY <1>1, TypeOK, Safe, Cutoffs, ConstantsAssumption
    DEF Cutoffs, ReconcileStart, At, Goto, StaleLogins, Running
  <1>2. ASSUME NEW w \in Workers, FenceQuery(w) PROVE Cutoffs'
    BY <1>2, TypeOK, Safe, Cutoffs, ConstantsAssumption
    DEF Cutoffs, FenceQuery, At, Goto, ForeignOwned, LiveWorkers, Exists, Running
  <1>3. ASSUME NEW w \in Workers, FenceDone(w) PROVE Cutoffs'
    BY <1>3, TypeOK, Safe, Cutoffs, ConstantsAssumption
    DEF Cutoffs, FenceDone, At, Goto, Running
  <1>4. ASSUME NEW w \in Workers, AdoptQuery(w) PROVE Cutoffs'
    BY <1>4, TypeOK, Safe, Cutoffs, ConstantsAssumption
    DEF Cutoffs, AdoptQuery, At, Goto, ListOwned, OwnedBy, Authorized, Running
  <1>5. ASSUME NEW w \in Workers, AdoptDone(w) PROVE Cutoffs'
    BY <1>5, TypeOK, Safe, Cutoffs, ConstantsAssumption
    DEF Cutoffs, AdoptDone, At, Goto, Running
  <1>6. ASSUME NEW w \in Workers, BalanceShed(w) PROVE Cutoffs'
    BY <1>6, TypeOK, Safe, Cutoffs, ConstantsAssumption
    DEF Cutoffs, BalanceShed, At, Goto, Running, ShedPicks, ReadyAt
  <1>7. ASSUME NEW w \in Workers, BalanceClaim(w) PROVE Cutoffs'
    BY <1>7, TypeOK, Safe, Cutoffs, ConstantsAssumption
    DEF Cutoffs, BalanceClaim, At, Goto, Running, MayClaim
  <1>8. ASSUME NEW w \in Workers, Balanced(w) PROVE Cutoffs'
    BY <1>8, TypeOK, Safe, Cutoffs, ConstantsAssumption
    DEF Cutoffs, Balanced, At, Goto, EndPass, Running
  <1>9. ASSUME NEW w \in Workers, ClaimOrphans(w) PROVE Cutoffs'
    <2>1. PICK got \in SUBSET Orphans(w) :
               /\ owner' = [s \in Sessions |-> IF s \in got THEN w ELSE owner[s]]
               /\ todo' = [todo EXCEPT ![w] = got]
      BY <1>9 DEF ClaimOrphans, Goto
    <2>2. \A s \in got : row[s] # "absent" /\ create[s] = NoCreate
      BY <2>1, Safe, AuthorizedDone DEF Safe, Orphans
    <2>3. \A s \in got : create[s].at = "none"
      BY <2>2
    <2>4. QED
      BY <1>9, <2>1, <2>2, <2>3, Cutoffs DEF Cutoffs, ClaimOrphans
  <1>10. ASSUME NEW w \in Workers, ShedRelease(w) PROVE Cutoffs'
    BY <1>10, TypeOK, Safe, Cutoffs, ConstantsAssumption
    DEF Cutoffs, ShedRelease, Put, SetOwner, Running, Exists
  <1>11. ASSUME NEW w \in Workers, PassDone(w) PROVE Cutoffs'
    BY <1>11, TypeOK, Safe, Cutoffs, ConstantsAssumption
    DEF Cutoffs, PassDone, At, Goto, EndPass, Running
  <1>12. ASSUME NEW w \in Workers, NEW s \in Sessions, FenceReassert(w, s) PROVE Cutoffs'
    BY <1>12, TypeOK, Safe, Cutoffs, ConstantsAssumption
    DEF Cutoffs, FenceReassert, At, Goto, SetOwner, Running, Exists
  <1>13. ASSUME NEW w \in Workers, NEW s \in Sessions, FenceDrop(w, s) PROVE Cutoffs'
    BY <1>13, TypeOK, Safe, Cutoffs, ConstantsAssumption
    DEF Cutoffs, FenceDrop, At, Goto, Put, Running
  <1>14. ASSUME NEW w \in Workers, NEW s \in Sessions, AdoptOne(w, s) PROVE Cutoffs'
    BY <1>14, TypeOK, Safe, Cutoffs, ConstantsAssumption
    DEF Cutoffs, AdoptOne, At, Goto, Hydrate, Put, Running
  <1>15. ASSUME NEW w \in Workers, NEW s \in Sessions, ClaimOne(w, s) PROVE Cutoffs'
    BY <1>15, TypeOK, Safe, Cutoffs, ConstantsAssumption
    DEF Cutoffs, ClaimOne, At, Goto, Hydrate, Put, Running
  <1>16. ASSUME NEW w \in Workers, NEW s \in Sessions, SkipOne(w, s) PROVE Cutoffs'
    BY <1>16, TypeOK, Safe, Cutoffs, ConstantsAssumption DEF Cutoffs, SkipOne, At, Goto, Running
  <1>17. ASSUME NEW w \in Workers, NEW s \in Sessions, ShedClose(w, s) PROVE Cutoffs'
    BY <1>17, TypeOK, Safe, Cutoffs, ConstantsAssumption
    DEF Cutoffs, ShedClose, At, Goto, Running
  <1>18. ASSUME NEW w \in Workers, NEW s \in Sessions, OpenLock(w, s) PROVE Cutoffs'
    BY <1>18, TypeOK, Safe, Cutoffs, ConstantsAssumption
    DEF Cutoffs, OpenLock, Opening, LockHeld, Running
  <1>19. ASSUME NEW w \in Workers, NEW s \in Sessions, OpenMissing(w, s) PROVE Cutoffs'
    BY <1>19, TypeOK, Safe, Cutoffs, ConstantsAssumption
    DEF Cutoffs, OpenMissing, Opening, HydrateFails, Put, SetStatus, Exists, LockHeld,
        Running
  <1>20. ASSUME NEW w \in Workers, NEW s \in Sessions, OpenLocked(w, s) PROVE Cutoffs'
    BY <1>20, TypeOK, Safe, Cutoffs, ConstantsAssumption
    DEF Cutoffs, OpenLocked, Opening, HydrateFails, Put, Running
  <1>21. ASSUME NEW w \in Workers, NEW s \in Sessions, OpenFails(w, s) PROVE Cutoffs'
    BY <1>21, TypeOK, Safe, Cutoffs, ConstantsAssumption
    DEF Cutoffs, OpenFails, Opening, HydrateFails, Put, Spend, Running
  <1>22. ASSUME NEW w \in Workers, NEW s \in Sessions, OpenExpired(w, s) PROVE Cutoffs'
    BY <1>22, TypeOK, Safe, Cutoffs, ConstantsAssumption
    DEF Cutoffs, OpenExpired, Opening, HydrateFails, Put, SetStatus, Exists, Spend,
        Running
  <1>23. ASSUME NEW w \in Workers, NEW s \in Sessions, OpenReady(w, s) PROVE Cutoffs'
    BY <1>23, TypeOK, Safe, Cutoffs, ConstantsAssumption
    DEF Cutoffs, OpenReady, Opening, SetStatus, Exists, Running
  <1>24. ASSUME NEW w \in Workers, NEW s \in Sessions, CreateSession(w, s) PROVE Cutoffs'
    BY <1>24, TypeOK, Safe, Cutoffs, ConstantsAssumption DEF Cutoffs, CreateSession, CreateStep
  <1>25. ASSUME NEW w \in Workers, NEW s \in Sessions, SetSessionDBDir(w, s) PROVE Cutoffs'
    BY <1>25, TypeOK, Safe, Cutoffs, ConstantsAssumption DEF Cutoffs, SetSessionDBDir, Creating, CreateStep, Exists, Spend, Running
  <1>26. ASSUME NEW w \in Workers, NEW s \in Sessions, SetSessionOwner(w, s) PROVE Cutoffs'
    BY <1>26, TypeOK, Safe, Cutoffs, ConstantsAssumption DEF Cutoffs, SetSessionOwner, Creating, CreateStep, SetOwner, Exists, Spend, Running
  <1>27. ASSUME NEW w \in Workers, NEW s \in Sessions, StartLogin(w, s) PROVE Cutoffs'
    BY <1>27, TypeOK, Safe, Cutoffs, ConstantsAssumption DEF Cutoffs, StartLogin, Creating, Put, Running
  <1>28. ASSUME NEW w \in Workers, NEW s \in Sessions, LoginReady(w, s) PROVE Cutoffs'
    BY <1>28, TypeOK, Safe, Cutoffs, ConstantsAssumption
    DEF Cutoffs, LoginReady, LoggingIn, SetStatus, Exists, Running
  <1>29. ASSUME NEW w \in Workers, NEW s \in Sessions, LoginFails(w, s) PROVE Cutoffs'
    BY <1>29, TypeOK, Safe, Cutoffs, ConstantsAssumption
    DEF Cutoffs, LoginFails, LoggingIn, SetStatus, Exists, Running
  <1>30. ASSUME NEW w \in Workers, NEW s \in Sessions, DeleteStart(w, s) PROVE Cutoffs'
    BY <1>30, TypeOK, Safe, Cutoffs, ConstantsAssumption
    DEF Cutoffs, DeleteStart, DeleteStep, Spend
  <1>31. ASSUME NEW w \in Workers, NEW s \in Sessions, DeleteAwait(w, s) PROVE Cutoffs'
    BY <1>31, TypeOK, Safe, Cutoffs, ConstantsAssumption
    DEF Cutoffs, DeleteAwait, DeleteStep, Spend, Running
  <1>32. ASSUME NEW w \in Workers, NEW s \in Sessions, DeleteClose(w, s) PROVE Cutoffs'
    BY <1>32, TypeOK, Safe, Cutoffs, ConstantsAssumption
    DEF Cutoffs, DeleteClose, DeleteStep, Running
  <1>33. ASSUME NEW w \in Workers, NEW s \in Sessions, DeleteDrop(w, s) PROVE Cutoffs'
    BY <1>33, TypeOK, Safe, Cutoffs, ConstantsAssumption
    DEF Cutoffs, DeleteDrop, DeleteStep, Put, Running
  <1>34. ASSUME NEW w \in Workers, NEW s \in Sessions, DeleteRow(w, s) PROVE Cutoffs'
    BY <1>34, TypeOK, Safe, Cutoffs, ConstantsAssumption
    DEF Cutoffs, DeleteRow, DeleteStep, Running
  <1>35. ASSUME NEW w \in Workers, NEW s \in Sessions, DeleteRowFails(w, s) PROVE Cutoffs'
    BY <1>35, TypeOK, Safe, Cutoffs, ConstantsAssumption
    DEF Cutoffs, DeleteRowFails, Spend, Running
  <1>36. ASSUME NEW w \in Workers, NEW s \in Sessions, DeleteDir(w, s) PROVE Cutoffs'
    BY <1>36, TypeOK, Safe, Cutoffs, ConstantsAssumption DEF Cutoffs, DeleteDir, Running
  <1>37. ASSUME NEW w \in Workers, ShutdownStart(w) PROVE Cutoffs'
    BY <1>37, TypeOK, Safe, Cutoffs, ConstantsAssumption
    DEF Cutoffs, ShutdownStart, Spend, ReadyAt
  <1>38. ASSUME NEW w \in Workers, ShutdownClose(w) PROVE Cutoffs'
    BY <1>38, TypeOK, Safe, Cutoffs, ConstantsAssumption DEF Cutoffs, ShutdownClose, Spend
  <1>39. ASSUME NEW w \in Workers, ReleaseSessions(w) PROVE Cutoffs'
    BY <1>39, TypeOK, Safe, Cutoffs, ConstantsAssumption
    DEF Cutoffs, ReleaseSessions, Spend, OwnedBy, Authorized
  <1>40. ASSUME NEW w \in Workers, DeregisterWorker(w) PROVE Cutoffs'
    <2>1. CASE /\ alive' = alive \ {w}
               /\ cut' = [u \in Workers |-> IF pc[u] = "idle" THEN cut[u] ELSE cut[u] \cup {w}]
               /\ UNCHANGED budget
      BY <2>1, <1>40, TypeOK, Safe, Cutoffs, ConstantsAssumption DEF Cutoffs, DeregisterWorker, Spend
    <2>2. CASE Spend("error") /\ UNCHANGED <<alive, cut>>
      BY <2>2, <1>40, TypeOK, Safe, Cutoffs, ConstantsAssumption DEF Cutoffs, DeregisterWorker, Spend
    <2>3. QED
      BY <2>1, <2>2, <1>40 DEF DeregisterWorker
  <1>41. ASSUME NEW w \in Workers, Exit(w) PROVE Cutoffs'
    BY <1>41, TypeOK, Safe, Cutoffs, ConstantsAssumption
    DEF Cutoffs, Exit, ProcessEnds, EndPass, Goto
  <1>42. ASSUME NEW w \in Workers, Beat(w) PROVE Cutoffs'
    BY <1>42, TypeOK, Safe, Cutoffs, ConstantsAssumption DEF Cutoffs, Beat, SeenNow
  <1>43. ASSUME NEW w \in Workers, GoStale(w) PROVE Cutoffs'
    BY <1>43, TypeOK, Safe, Cutoffs, ConstantsAssumption DEF Cutoffs, GoStale, Spend
  <1>44. ASSUME NEW w \in Workers, Crash(w) PROVE Cutoffs'
    BY <1>44, TypeOK, Safe, Cutoffs, ConstantsAssumption
    DEF Cutoffs, Crash, ProcessEnds, EndPass, Goto, Spend, Running
  <1>45. ASSUME NEW w \in Workers, Restart(w) PROVE Cutoffs'
    BY <1>45, TypeOK, Safe, Cutoffs, ConstantsAssumption DEF Cutoffs, Restart, SeenNow
  <1>46. ASSUME NEW w \in Workers, NEW q \in Steps, NEW r \in Steps, QueryFails(w, q, r) PROVE Cutoffs'
    BY <1>46, TypeOK, Safe, Cutoffs, ConstantsAssumption
    DEF Cutoffs, QueryFails, At, Goto, Spend, Running
  <1>47. ASSUME NEW w \in Workers, BalanceFails(w) PROVE Cutoffs'
    BY <1>47, TypeOK, Safe, Cutoffs, ConstantsAssumption
    DEF Cutoffs, BalanceFails, At, Goto, EndPass, Spend, Running
  <1>48. ASSUME NEW w \in Workers, ShedReleaseFails(w) PROVE Cutoffs'
    BY <1>48, TypeOK, Safe, Cutoffs, ConstantsAssumption
    DEF Cutoffs, ShedReleaseFails, Put, Spend, Running
  <1>49. ASSUME NEW w \in Workers, NEW s \in Sessions, RowFails(w, s) PROVE Cutoffs'
    BY <1>49, TypeOK, Safe, Cutoffs, ConstantsAssumption
    DEF Cutoffs, RowFails, At, Goto, Spend, Running
  <1>50. ASSUME NEW w \in Workers, NEW s \in Sessions, RetryReady(w, s) PROVE Cutoffs'
    BY <1>50, TypeOK, Safe, Cutoffs, ConstantsAssumption DEF Cutoffs, RetryReady
  <1>51. ASSUME NEW w \in Workers, NEW s \in Sessions, Closed(w, s) PROVE Cutoffs'
    BY <1>51, TypeOK, Safe, Cutoffs, ConstantsAssumption DEF Cutoffs, Closed
  <1>52. ASSUME UNCHANGED vars PROVE Cutoffs'
    BY <1>52, TypeOK, Safe, Cutoffs, ConstantsAssumption DEF Cutoffs, vars
  <1>53. QED
    BY <1>1, <1>2, <1>3, <1>4, <1>5, <1>6, <1>7, <1>8, <1>9, <1>10, <1>11, <1>12, <1>13,
       <1>14, <1>15, <1>16, <1>17, <1>18, <1>19, <1>20, <1>21, <1>22, <1>23, <1>24, <1>25,
       <1>26, <1>27, <1>28, <1>29, <1>30, <1>31, <1>32, <1>33, <1>34, <1>35, <1>36, <1>37,
       <1>38, <1>39, <1>40, <1>41, <1>42, <1>43, <1>44, <1>45, <1>46, <1>47, <1>48, <1>49,
       <1>50, <1>51, <1>52
    DEF Next, Reconcile, Open, Login, DeleteSession, Shutdown, Environment

\* No step takes a session from a worker that is alive.
LEMMA KeptStep ==
  ASSUME TypeOK, Safe, Cutoffs, [Next]_vars
  PROVE  KeptByTheLiving
  <1> USE DEF Statuses, Procs, Entries, Insts, Steps, NoCreate, Creates, NoDelete, Deletes,
              Kinds, registry, memory, pass, handlers, TypeOK, Cutoffs
  <1>1. ASSUME NEW w \in Workers, ReconcileStart(w) PROVE KeptByTheLiving
    BY <1>1, TypeOK, Safe, Cutoffs, ConstantsAssumption
    DEF KeptByTheLiving, ReconcileStart, At, Goto, StaleLogins, Running
  <1>2. ASSUME NEW w \in Workers, FenceQuery(w) PROVE KeptByTheLiving
    BY <1>2, TypeOK, Safe, Cutoffs, ConstantsAssumption
    DEF KeptByTheLiving, FenceQuery, At, Goto, ForeignOwned, LiveWorkers, Exists, Running
  <1>3. ASSUME NEW w \in Workers, FenceDone(w) PROVE KeptByTheLiving
    BY <1>3, TypeOK, Safe, Cutoffs, ConstantsAssumption
    DEF KeptByTheLiving, FenceDone, At, Goto, Running
  <1>4. ASSUME NEW w \in Workers, AdoptQuery(w) PROVE KeptByTheLiving
    BY <1>4, TypeOK, Safe, Cutoffs, ConstantsAssumption
    DEF KeptByTheLiving, AdoptQuery, At, Goto, ListOwned, OwnedBy, Authorized, Running
  <1>5. ASSUME NEW w \in Workers, AdoptDone(w) PROVE KeptByTheLiving
    BY <1>5, TypeOK, Safe, Cutoffs, ConstantsAssumption
    DEF KeptByTheLiving, AdoptDone, At, Goto, Running
  <1>6. ASSUME NEW w \in Workers, BalanceShed(w) PROVE KeptByTheLiving
    BY <1>6, TypeOK, Safe, Cutoffs, ConstantsAssumption
    DEF KeptByTheLiving, BalanceShed, At, Goto, Running, ShedPicks, ReadyAt
  <1>7. ASSUME NEW w \in Workers, BalanceClaim(w) PROVE KeptByTheLiving
    BY <1>7, TypeOK, Safe, Cutoffs, ConstantsAssumption
    DEF KeptByTheLiving, BalanceClaim, At, Goto, Running, MayClaim
  <1>8. ASSUME NEW w \in Workers, Balanced(w) PROVE KeptByTheLiving
    BY <1>8, TypeOK, Safe, Cutoffs, ConstantsAssumption
    DEF KeptByTheLiving, Balanced, At, Goto, EndPass, Running
  <1>9. ASSUME NEW w \in Workers, ClaimOrphans(w) PROVE KeptByTheLiving
    BY <1>9, TypeOK, Safe, Cutoffs, ConstantsAssumption
    DEF KeptByTheLiving, ClaimOrphans, At, Goto, Orphans, Authorized, Running
  <1>10. ASSUME NEW w \in Workers, ShedRelease(w) PROVE KeptByTheLiving
    BY <1>10, TypeOK, Safe, Cutoffs, ConstantsAssumption
    DEF KeptByTheLiving, ShedRelease, Put, SetOwner, Running
  <1>11. ASSUME NEW w \in Workers, PassDone(w) PROVE KeptByTheLiving
    BY <1>11, TypeOK, Safe, Cutoffs, ConstantsAssumption
    DEF KeptByTheLiving, PassDone, At, Goto, EndPass, Running
  <1>12. ASSUME NEW w \in Workers, NEW s \in Sessions, FenceReassert(w, s) PROVE KeptByTheLiving
    BY <1>12, TypeOK, Safe, Cutoffs, ConstantsAssumption
    DEF KeptByTheLiving, FenceReassert, At, Goto, SetOwner, Running
  <1>13. ASSUME NEW w \in Workers, NEW s \in Sessions, FenceDrop(w, s) PROVE KeptByTheLiving
    BY <1>13, TypeOK, Safe, Cutoffs, ConstantsAssumption
    DEF KeptByTheLiving, FenceDrop, At, Goto, Put, Running
  <1>14. ASSUME NEW w \in Workers, NEW s \in Sessions, AdoptOne(w, s) PROVE KeptByTheLiving
    BY <1>14, TypeOK, Safe, Cutoffs, ConstantsAssumption
    DEF KeptByTheLiving, AdoptOne, At, Goto, Hydrate, Put, Running
  <1>15. ASSUME NEW w \in Workers, NEW s \in Sessions, ClaimOne(w, s) PROVE KeptByTheLiving
    BY <1>15, TypeOK, Safe, Cutoffs, ConstantsAssumption
    DEF KeptByTheLiving, ClaimOne, At, Goto, Hydrate, Put, Running
  <1>16. ASSUME NEW w \in Workers, NEW s \in Sessions, SkipOne(w, s) PROVE KeptByTheLiving
    BY <1>16, TypeOK, Safe, Cutoffs, ConstantsAssumption
    DEF KeptByTheLiving, SkipOne, At, Goto, Running
  <1>17. ASSUME NEW w \in Workers, NEW s \in Sessions, ShedClose(w, s) PROVE KeptByTheLiving
    BY <1>17, TypeOK, Safe, Cutoffs, ConstantsAssumption
    DEF KeptByTheLiving, ShedClose, At, Goto, Running
  <1>18. ASSUME NEW w \in Workers, NEW s \in Sessions, OpenLock(w, s) PROVE KeptByTheLiving
    BY <1>18, TypeOK, Safe, Cutoffs, ConstantsAssumption
    DEF KeptByTheLiving, OpenLock, Opening, LockHeld, Running
  <1>19. ASSUME NEW w \in Workers, NEW s \in Sessions, OpenMissing(w, s) PROVE KeptByTheLiving
    BY <1>19, TypeOK, Safe, Cutoffs, ConstantsAssumption
    DEF KeptByTheLiving, OpenMissing, Opening, HydrateFails, Put, SetStatus, Exists,
        LockHeld, Running
  <1>20. ASSUME NEW w \in Workers, NEW s \in Sessions, OpenLocked(w, s) PROVE KeptByTheLiving
    BY <1>20, TypeOK, Safe, Cutoffs, ConstantsAssumption
    DEF KeptByTheLiving, OpenLocked, Opening, HydrateFails, Put, Running
  <1>21. ASSUME NEW w \in Workers, NEW s \in Sessions, OpenFails(w, s) PROVE KeptByTheLiving
    BY <1>21, TypeOK, Safe, Cutoffs, ConstantsAssumption
    DEF KeptByTheLiving, OpenFails, Opening, HydrateFails, Put, Spend, Running
  <1>22. ASSUME NEW w \in Workers, NEW s \in Sessions, OpenExpired(w, s) PROVE KeptByTheLiving
    BY <1>22, TypeOK, Safe, Cutoffs, ConstantsAssumption
    DEF KeptByTheLiving, OpenExpired, Opening, HydrateFails, Put, SetStatus, Exists,
        Spend, Running
  <1>23. ASSUME NEW w \in Workers, NEW s \in Sessions, OpenReady(w, s) PROVE KeptByTheLiving
    BY <1>23, TypeOK, Safe, Cutoffs, ConstantsAssumption
    DEF KeptByTheLiving, OpenReady, Opening, SetStatus, Exists, Running
  <1>24. ASSUME NEW w \in Workers, NEW s \in Sessions, CreateSession(w, s) PROVE KeptByTheLiving
    BY <1>24, TypeOK, Safe, Cutoffs, ConstantsAssumption DEF KeptByTheLiving, CreateSession, CreateStep
  <1>25. ASSUME NEW w \in Workers, NEW s \in Sessions, SetSessionDBDir(w, s) PROVE KeptByTheLiving
    BY <1>25, TypeOK, Safe, Cutoffs, ConstantsAssumption DEF KeptByTheLiving, SetSessionDBDir, Creating, CreateStep, Exists, Spend, Running
  <1>26. ASSUME NEW w \in Workers, NEW s \in Sessions, SetSessionOwner(w, s) PROVE KeptByTheLiving
    <2>1. owner[s] = None
      BY <1>26, Cutoffs DEF Cutoffs, SetSessionOwner, Creating
    <2>2. owner[s] \notin alive
      BY <2>1, TypeOK, ConstantsAssumption
    <2>3. \A t \in Sessions : t # s => owner'[t] = owner[t]
      BY <1>26, TypeOK DEF SetSessionOwner, SetOwner
    <2>4. QED
      BY <2>2, <2>3 DEF KeptByTheLiving
  <1>27. ASSUME NEW w \in Workers, NEW s \in Sessions, StartLogin(w, s) PROVE KeptByTheLiving
    BY <1>27, TypeOK, Safe, Cutoffs, ConstantsAssumption DEF KeptByTheLiving, StartLogin, Creating, Put, Running
  <1>28. ASSUME NEW w \in Workers, NEW s \in Sessions, LoginReady(w, s) PROVE KeptByTheLiving
    BY <1>28, TypeOK, Safe, Cutoffs, ConstantsAssumption
    DEF KeptByTheLiving, LoginReady, LoggingIn, SetStatus, Exists, Running
  <1>29. ASSUME NEW w \in Workers, NEW s \in Sessions, LoginFails(w, s) PROVE KeptByTheLiving
    BY <1>29, TypeOK, Safe, Cutoffs, ConstantsAssumption
    DEF KeptByTheLiving, LoginFails, LoggingIn, SetStatus, Exists, Running
  <1>30. ASSUME NEW w \in Workers, NEW s \in Sessions, DeleteStart(w, s) PROVE KeptByTheLiving
    BY <1>30, TypeOK, Safe, Cutoffs, ConstantsAssumption
    DEF KeptByTheLiving, DeleteStart, DeleteStep, Spend
  <1>31. ASSUME NEW w \in Workers, NEW s \in Sessions, DeleteAwait(w, s) PROVE KeptByTheLiving
    BY <1>31, TypeOK, Safe, Cutoffs, ConstantsAssumption
    DEF KeptByTheLiving, DeleteAwait, DeleteStep, Spend, Running
  <1>32. ASSUME NEW w \in Workers, NEW s \in Sessions, DeleteClose(w, s) PROVE KeptByTheLiving
    BY <1>32, TypeOK, Safe, Cutoffs, ConstantsAssumption
    DEF KeptByTheLiving, DeleteClose, DeleteStep, Running
  <1>33. ASSUME NEW w \in Workers, NEW s \in Sessions, DeleteDrop(w, s) PROVE KeptByTheLiving
    BY <1>33, TypeOK, Safe, Cutoffs, ConstantsAssumption
    DEF KeptByTheLiving, DeleteDrop, DeleteStep, Put, Running
  <1>34. ASSUME NEW w \in Workers, NEW s \in Sessions, DeleteRow(w, s) PROVE KeptByTheLiving
    BY <1>34, TypeOK, Safe, Cutoffs, ConstantsAssumption
    DEF KeptByTheLiving, DeleteRow, DeleteStep, Running
  <1>35. ASSUME NEW w \in Workers, NEW s \in Sessions, DeleteRowFails(w, s) PROVE KeptByTheLiving
    BY <1>35, TypeOK, Safe, Cutoffs, ConstantsAssumption
    DEF KeptByTheLiving, DeleteRowFails, Spend, Running
  <1>36. ASSUME NEW w \in Workers, NEW s \in Sessions, DeleteDir(w, s) PROVE KeptByTheLiving
    BY <1>36, TypeOK, Safe, Cutoffs, ConstantsAssumption DEF KeptByTheLiving, DeleteDir, Running
  <1>37. ASSUME NEW w \in Workers, ShutdownStart(w) PROVE KeptByTheLiving
    BY <1>37, TypeOK, Safe, Cutoffs, ConstantsAssumption
    DEF KeptByTheLiving, ShutdownStart, Spend, ReadyAt
  <1>38. ASSUME NEW w \in Workers, ShutdownClose(w) PROVE KeptByTheLiving
    BY <1>38, TypeOK, Safe, Cutoffs, ConstantsAssumption
    DEF KeptByTheLiving, ShutdownClose, Spend
  <1>39. ASSUME NEW w \in Workers, ReleaseSessions(w) PROVE KeptByTheLiving
    BY <1>39, TypeOK, Safe, Cutoffs, ConstantsAssumption
    DEF KeptByTheLiving, ReleaseSessions, Spend, OwnedBy, Authorized
  <1>40. ASSUME NEW w \in Workers, DeregisterWorker(w) PROVE KeptByTheLiving
    BY <1>40, TypeOK, Safe, Cutoffs, ConstantsAssumption DEF KeptByTheLiving, DeregisterWorker, Spend
  <1>41. ASSUME NEW w \in Workers, Exit(w) PROVE KeptByTheLiving
    BY <1>41, TypeOK, Safe, Cutoffs, ConstantsAssumption
    DEF KeptByTheLiving, Exit, ProcessEnds, EndPass, Goto
  <1>42. ASSUME NEW w \in Workers, Beat(w) PROVE KeptByTheLiving
    BY <1>42, TypeOK, Safe, Cutoffs, ConstantsAssumption DEF KeptByTheLiving, Beat, SeenNow
  <1>43. ASSUME NEW w \in Workers, GoStale(w) PROVE KeptByTheLiving
    BY <1>43, TypeOK, Safe, Cutoffs, ConstantsAssumption DEF KeptByTheLiving, GoStale, Spend
  <1>44. ASSUME NEW w \in Workers, Crash(w) PROVE KeptByTheLiving
    BY <1>44, TypeOK, Safe, Cutoffs, ConstantsAssumption
    DEF KeptByTheLiving, Crash, ProcessEnds, EndPass, Goto, Spend, Running
  <1>45. ASSUME NEW w \in Workers, Restart(w) PROVE KeptByTheLiving
    BY <1>45, TypeOK, Safe, Cutoffs, ConstantsAssumption DEF KeptByTheLiving, Restart, SeenNow
  <1>46. ASSUME NEW w \in Workers, NEW q \in Steps, NEW r \in Steps, QueryFails(w, q, r) PROVE KeptByTheLiving
    BY <1>46, TypeOK, Safe, Cutoffs, ConstantsAssumption
    DEF KeptByTheLiving, QueryFails, At, Goto, Spend, Running
  <1>47. ASSUME NEW w \in Workers, BalanceFails(w) PROVE KeptByTheLiving
    BY <1>47, TypeOK, Safe, Cutoffs, ConstantsAssumption
    DEF KeptByTheLiving, BalanceFails, At, Goto, EndPass, Spend, Running
  <1>48. ASSUME NEW w \in Workers, ShedReleaseFails(w) PROVE KeptByTheLiving
    BY <1>48, TypeOK, Safe, Cutoffs, ConstantsAssumption
    DEF KeptByTheLiving, ShedReleaseFails, Put, Spend, Running
  <1>49. ASSUME NEW w \in Workers, NEW s \in Sessions, RowFails(w, s) PROVE KeptByTheLiving
    BY <1>49, TypeOK, Safe, Cutoffs, ConstantsAssumption
    DEF KeptByTheLiving, RowFails, At, Goto, Spend, Running
  <1>50. ASSUME NEW w \in Workers, NEW s \in Sessions, RetryReady(w, s) PROVE KeptByTheLiving
    BY <1>50, TypeOK, Safe, Cutoffs, ConstantsAssumption DEF KeptByTheLiving, RetryReady
  <1>51. ASSUME NEW w \in Workers, NEW s \in Sessions, Closed(w, s) PROVE KeptByTheLiving
    BY <1>51, TypeOK, Safe, Cutoffs, ConstantsAssumption DEF KeptByTheLiving, Closed
  <1>52. ASSUME UNCHANGED vars PROVE KeptByTheLiving
    BY <1>52, TypeOK, Safe, Cutoffs, ConstantsAssumption DEF KeptByTheLiving, vars
  <1>53. QED
    BY <1>1, <1>2, <1>3, <1>4, <1>5, <1>6, <1>7, <1>8, <1>9, <1>10, <1>11, <1>12, <1>13,
       <1>14, <1>15, <1>16, <1>17, <1>18, <1>19, <1>20, <1>21, <1>22, <1>23, <1>24, <1>25,
       <1>26, <1>27, <1>28, <1>29, <1>30, <1>31, <1>32, <1>33, <1>34, <1>35, <1>36, <1>37,
       <1>38, <1>39, <1>40, <1>41, <1>42, <1>43, <1>44, <1>45, <1>46, <1>47, <1>48, <1>49,
       <1>50, <1>51, <1>52
    DEF Next, Reconcile, Open, Login, DeleteSession, Shutdown, Environment

\* In every behaviour, under every fault, a live worker loses a session only to
\* the holder of its client, to a release or to a deletion.
THEOREM NotTakenFromTheLiving == Spec => HolderWins
  <1>1. Init => Safe /\ Cutoffs
    BY ConstantsAssumption
    DEF Init, Safe, OneLock, DownClean, Untouched, ReadyIsBacked, Serving, Cutoffs
  <1>2. TypeOK /\ Safe /\ Cutoffs /\ [Next]_vars => Safe' /\ Cutoffs'
    BY SafeStep, CutoffStep
  <1>3. TypeOK /\ Safe /\ Cutoffs /\ [Next]_vars => [KeptByTheLiving]_vars
    BY KeptStep
  <1>4. QED
    BY <1>1, <1>2, <1>3, TypeCorrect, PTL DEF Spec, HolderWins

-----------------------------------------------------------------------------
(* The active holder wins.                                                 *)

\* One step of ActiveHolderKept.
KeptServing ==
    \A w \in Workers, s \in Sessions \ unowned :
       Serving(w, s) /\ proc'[w] = "up" => live'[w][s] = "ready"

\* No step of a healthy fleet but its own shed takes a working client out of a
\* worker's live map.
LEMMA ServingStep ==
  ASSUME TypeOK, Healthy, Safe, [Next]_vars
  PROVE  KeptServing
  <1> USE DEF registry, memory, pass, handlers, TypeOK, KeptServing, Serving
  <1>1. CASE UNCHANGED live
    BY <1>1
  <1>2. ASSUME NEW w \in Workers, Reconcile(w) PROVE KeptServing
    <2>1. CASE \/ ReconcileStart(w) \/ FenceQuery(w) \/ FenceDone(w) \/ AdoptQuery(w) \/ AdoptDone(w)
               \/ BalanceShed(w) \/ BalanceClaim(w) \/ Balanced(w) \/ ClaimOrphans(w) \/ PassDone(w)
      BY <1>1, <2>1 DEF ReconcileStart, FenceQuery, FenceDone, AdoptQuery, AdoptDone, BalanceShed,
         BalanceClaim, Balanced, ClaimOrphans, PassDone
    <2>2. CASE ShedRelease(w)
      BY <2>2 DEF ShedRelease, Put
    <2>3. ASSUME NEW s \in Sessions, FenceReassert(w, s) \/ SkipOne(w, s) \/ ShedClose(w, s)
          PROVE  KeptServing
      BY <1>1, <2>3 DEF FenceReassert, SkipOne, ShedClose
    <2>4. ASSUME NEW s \in Sessions, FenceDrop(w, s) PROVE KeptServing
      BY <2>4 DEF FenceDrop, Put
    <2>5. ASSUME NEW s \in Sessions, AdoptOne(w, s) PROVE KeptServing
      BY <2>5 DEF AdoptOne, AdoptSkips, Hydrate, Put
    <2>6. ASSUME NEW s \in Sessions, ClaimOne(w, s) PROVE KeptServing
      <3>1. s \notin unowned => live[w][s] = "none"
        BY <2>6 DEF ClaimOne, At, Healthy, Queued
      <3>2. QED
        BY <2>6, <3>1 DEF ClaimOne, Hydrate, Put
    <2>7. QED
      BY <1>2, <2>1, <2>2, <2>3, <2>4, <2>5, <2>6 DEF Reconcile
  <1>3. ASSUME NEW w \in Workers, Open(w) PROVE KeptServing
    <2> SUFFICES ASSUME NEW s \in Sessions,
                        \/ OpenLock(w, s) \/ OpenMissing(w, s) \/ OpenLocked(w, s)
                        \/ OpenFails(w, s) \/ OpenExpired(w, s) \/ OpenReady(w, s)
                 PROVE  KeptServing
      BY <1>3 DEF Open
    <2>1. CASE OpenLock(w, s)
      BY <1>1, <2>1 DEF OpenLock
    <2>2. CASE OpenReady(w, s)
      BY <2>2 DEF OpenReady
    <2>3. CASE OpenMissing(w, s) \/ OpenLocked(w, s) \/ OpenFails(w, s) \/ OpenExpired(w, s)
      <3>1. Opening(w, s) /\ HydrateFails(w, s)
        BY <2>3 DEF OpenMissing, OpenLocked, OpenFails, OpenExpired
      <3>2. s \notin unowned => live[w][s] = "opening"
        BY <3>1 DEF Opening, Healthy, Current
      <3>3. live' = [live EXCEPT ![w][s] = "none"]
        BY <3>1 DEF HydrateFails, Put
      <3>4. QED
        BY <3>2, <3>3
    <2>4. QED
      BY <2>1, <2>2, <2>3
  <1>4. ASSUME NEW w \in Workers, Login(w) PROVE KeptServing
    <2> SUFFICES ASSUME NEW s \in Sessions,
                        \/ CreateSession(w, s) \/ SetSessionDBDir(w, s) \/ SetSessionOwner(w, s)
                        \/ StartLogin(w, s) \/ LoginReady(w, s) \/ LoginFails(w, s)
                 PROVE  KeptServing
      BY <1>4 DEF Login
    <2>0. CASE CreateSession(w, s) \/ SetSessionDBDir(w, s) \/ SetSessionOwner(w, s)
      BY <1>1, <2>0 DEF CreateSession, SetSessionDBDir, SetSessionOwner
    <2>1. CASE StartLogin(w, s)
      <3>1. live[w][s] = "none"
        BY <2>1, ConstantsAssumption DEF StartLogin, Creating, NoCreate, Safe, Untouched
      <3>2. QED
        BY <2>1, <3>1 DEF StartLogin, Put
    <2>2. CASE LoginReady(w, s)
      BY <2>2 DEF LoginReady
    <2>3. CASE LoginFails(w, s)
      BY <2>3 DEF LoginFails
    <2>4. QED
      BY <2>0, <2>1, <2>2, <2>3
  <1>5. ASSUME NEW w \in Workers PROVE ~DeleteSession(w)
    <2>1. \A s \in Sessions : del[s] = NoDelete
      BY DEF Healthy, Calm
    <2>2. ASSUME NEW s \in Sessions, NEW a PROVE NoDelete # [by |-> w, at |-> a]
      BY ConstantsAssumption DEF NoDelete
    <2>3. \A s \in Sessions : ~DeleteStart(w, s)
      BY DEF DeleteStart, Spend, Healthy, Calm
    <2>4. QED
      BY <2>1, <2>2, <2>3 DEF DeleteSession, DeleteAwait, DeleteClose, DeleteDrop, DeleteRow, DeleteRowFails, DeleteDir
  <1>6. ASSUME NEW w \in Workers PROVE ~Shutdown(w)
    <2>1. proc[w] \in {"up", "down"} /\ ~Spend("shutdown")
      BY DEF Healthy, Calm, Spend
    <2>2. QED
      BY <2>1 DEF Shutdown, ShutdownStart, ShutdownClose, ReleaseSessions, DeregisterWorker, Exit
  <1>7. ASSUME NEW w \in Workers, Environment(w) PROVE KeptServing
    <2>1. CASE \/ Beat(w) \/ GoStale(w) \/ Restart(w) \/ BalanceFails(w)
               \/ QueryFails(w, "fence", "adopt") \/ QueryFails(w, "adopt", "balance")
      BY <1>1, <2>1 DEF Beat, GoStale, Restart, BalanceFails, QueryFails
    <2>2. CASE Crash(w)
      <3>1. /\ proc'[w] = "down"
            /\ \A v \in Workers : v # w => live'[v] = live[v]
        BY <2>2 DEF Crash, ProcessEnds
      <3>2. QED
        BY <3>1
    <2>3. CASE ShedReleaseFails(w)
      BY <2>3 DEF ShedReleaseFails, Put
    <2>4. ASSUME NEW s \in Sessions, RowFails(w, s) \/ RetryReady(w, s) \/ Closed(w, s) PROVE KeptServing
      BY <1>1, <2>4 DEF RowFails, RetryReady, Closed
    <2>5. QED
      BY <1>7, <2>1, <2>2, <2>3, <2>4 DEF Environment
  <1>8. CASE UNCHANGED vars
    BY <1>1, <1>8 DEF vars
  <1>9. QED
    BY <1>2, <1>3, <1>4, <1>5, <1>6, <1>7, <1>8 DEF Next

\* ActiveHolderKept: in a healthy fleet, however its workers crash, restart and meet
\* errors, no claim, adoption or fence replaces a client that works; only the
\* worker's own shed does (reconcile, rehydrateOne).
THEOREM HolderKept ==
  ASSUME HealthyFleet
  PROVE  Spec => ActiveHolderKept
  <1>1. Init => Safe /\ Healthy
    BY HealthyInit
  <1>2. TypeOK /\ Safe /\ Healthy /\ [Next]_vars => Safe' /\ Healthy'
    BY SafeStep, HealthyStep
  <1>3. TypeOK /\ Safe /\ Healthy /\ [Next]_vars => [KeptServing]_vars
    BY ServingStep
  <1>4. QED
    BY <1>1, <1>2, <1>3, TypeCorrect, PTL DEF Spec, ActiveHolderKept, KeptServing

=============================================================================
