----------------------------- MODULE BackendProofs -----------------------------
(* Proofs about the parts of the Web backend that MCBackend composes: CORE's *)
(* directories (CoreDirs), the mapping of the CORE page (CoreMapping), the    *)
(* data sources (DataSources), the XML of sessions (SessionXml), the log of  *)
(* a run (LogStream) and what runs leave behind (RunArtifacts), each for     *)
(* every number of threads, ids, files and events, and what a behaviour of   *)
(* the whole backend keeps of them.                                          *)
EXTENDS MCBackend, JsonStoreProofs, FiniteSetTheorems, SequenceTheorems, TLAPS

------------------------------------------------------------------------------
(* CORE's directories, their cleanups and the builders' ids.                 *)

\* A session live but not in a cleanup's list is young, or the cleanup is excused; and a
\* directory about to be removed is no such session's.
ListTrue(t) ==
  Cleaning(t) =>
    /\ \A i \in Ids : Live(i) /\ i \notin job[t].active /\ i \notin excused[t]
                        => i \in since[t] /\ dir[i] # "old"
    /\ job[t].at = "removes" =>
         /\ job[t].id \in Ids \ job[t].active
         /\ Live(job[t].id) => job[t].id \in excused[t] \/ dir[job[t].id] = "absent"

\* What was stale is so still, and not yet passed over.
StaleTrue(t) ==
  Cleaning(t) =>
    \A i \in stale[t] :
      /\ i \in Ids \ job[t].active /\ session[i] = "absent" /\ dir[i] # "young"
      /\ job[t].at = "checks" => i \in job[t].todo \/ dir[i] = "absent"
      /\ job[t].at = "removes" => i \in job[t].todo \/ i = job[t].id \/ dir[i] = "absent"

CInv ==
  /\ TypeOK
  /\ LiveHasDir
  /\ \A t \in Cleaners : ListTrue(t) /\ StaleTrue(t)

------------------------------------------------------------------------------
(* Types.                                                                    *)

LEMMA CreatesTypes ==
  ASSUME TypeOK, NEW i \in Ids, Creates(i)
  PROVE  DaemonOK' /\ job' = job /\ since' \in [Cleaners -> SUBSET Ids]
         /\ excused' \in [Cleaners -> SUBSET Ids] /\ stale' \in [Cleaners -> SUBSET Ids]
         /\ robbed' \subseteq Ids
<1>1. DaemonOK'
  BY DEF TypeOK, DaemonOK, Creates, CreateSession
<1>2. since' \in [Cleaners -> SUBSET Ids]
  BY DEF TypeOK, Creates
<1>3. excused' \in [Cleaners -> SUBSET Ids]
  BY DEF TypeOK, Creates
<1>4. stale' \in [Cleaners -> SUBSET Ids]
  BY DEF TypeOK, Creates
<1> QED BY <1>1, <1>2, <1>3, <1>4 DEF TypeOK, Creates

LEMMA CleanupTypes ==
  ASSUME TypeOK, NEW t \in Cleaners,
         \/ CleanupLists(t) \/ CleanupGlobs(t) \/ CleanupChecks(t)
         \/ CleanupRemoves(t) \/ CleanupFails(t) \/ CleanupEnds(t)
  PROVE  TypeOK'
<1>1. job[t] \in Jobs /\ 0 \in 0..MaxId /\ Ids \subseteq 0..MaxId
  BY DaemonAssumption DEF TypeOK, Ids
<1>2. ASSUME NEW j \in Jobs, job' = [job EXCEPT ![t] = j] PROVE job' \in [Cleaners -> Jobs]
  BY <1>2 DEF TypeOK
<1>3. CASE CleanupLists(t)
  <2>1. PICK active \in {Known, {}} :
          /\ job' = [job EXCEPT ![t].at = "globs", ![t].active = active]
          /\ excused' = [excused EXCEPT ![t] = IF active = Known THEN {} ELSE Ids]
    BY <1>3 DEF CleanupLists
  <2>2. [job[t] EXCEPT !.at = "globs", !.active = active] \in Jobs
    BY <1>1, <2>1 DEF Jobs, Known
  <2>3. job' \in [Cleaners -> Jobs]
    BY <1>2, <2>1, <2>2 DEF TypeOK
  <2>4. excused' \in [Cleaners -> SUBSET Ids]
    BY <2>1 DEF TypeOK
  <2>5. since' \in [Cleaners -> SUBSET Ids] /\ stale' \in [Cleaners -> SUBSET Ids]
    BY <1>3 DEF TypeOK, CleanupLists
  <2> QED BY <1>3, <2>3, <2>4, <2>5 DEF TypeOK, CleanupLists, daemonVars, DaemonOK
<1>4. CASE CleanupGlobs(t)
  <2>1. [job[t] EXCEPT !.at = "checks", !.todo = {i \in Ids : dir[i] # "absent"}] \in Jobs
    BY <1>1 DEF Jobs
  <2>2. job' \in [Cleaners -> Jobs]
    BY <1>2, <1>4, <2>1 DEF TypeOK, CleanupGlobs
  <2> QED BY <1>4, <2>2 DEF TypeOK, CleanupGlobs, daemonVars, DaemonOK
<1>5. CASE CleanupChecks(t)
  <2>1. PICK i \in job[t].todo :
          job' = [job EXCEPT ![t].todo = @ \ {i},
                             ![t].at = IF Removable(t, i) THEN "removes" ELSE "checks",
                             ![t].id = IF Removable(t, i) THEN i ELSE 0]
    BY <1>5 DEF CleanupChecks
  <2> DEFINE j == [job[t] EXCEPT !.todo = @ \ {i},
                                 !.at = IF Removable(t, i) THEN "removes" ELSE "checks",
                                 !.id = IF Removable(t, i) THEN i ELSE 0]
  <2>2. i \in 0..MaxId
    BY <1>1 DEF Jobs
  <2>3. j \in Jobs
    BY <1>1, <2>2 DEF Jobs
  <2>4. job' = [job EXCEPT ![t] = j]
    BY <2>1 DEF TypeOK
  <2>5. job' \in [Cleaners -> Jobs]
    BY <1>2, <2>3, <2>4
  <2> QED BY <1>5, <2>5 DEF TypeOK, CleanupChecks, daemonVars, DaemonOK
<1>6. CASE CleanupRemoves(t)
  <2>1. [job[t] EXCEPT !.at = "checks", !.id = 0] \in Jobs
    BY <1>1 DEF Jobs
  <2>2. job' \in [Cleaners -> Jobs]
    BY <1>2, <1>6, <2>1 DEF TypeOK, CleanupRemoves
  <2>3. dir' \in [Ids -> {"absent", "young", "old"}]
    BY <1>6 DEF TypeOK, DaemonOK, CleanupRemoves
  <2>4. robbed' \subseteq Ids
    <3>1. excused[t] \subseteq Ids
      BY DEF TypeOK
    <3> QED BY <1>6, <3>1 DEF TypeOK, CleanupRemoves
  <2> QED BY <1>6, <2>2, <2>3, <2>4 DEF TypeOK, CleanupRemoves, DaemonOK
<1>7. CASE CleanupEnds(t)
  <2>1. Idle \in Jobs
    BY <1>1 DEF Idle, Jobs
  <2>2. job' \in [Cleaners -> Jobs]
    BY <1>2, <1>7, <2>1 DEF CleanupEnds
  <2> QED BY <1>7, <2>2 DEF TypeOK, CleanupEnds, daemonVars, DaemonOK
<1>8. CASE CleanupFails(t)
  <2>1. [job[t] EXCEPT !.at = "checks", !.id = 0] \in Jobs
    BY <1>1 DEF Jobs
  <2>2. job' \in [Cleaners -> Jobs]
    BY <1>2, <1>8, <2>1 DEF TypeOK, CleanupFails
  <2>3. dir' \in [Ids -> {"absent", "young", "old"}]
    <3>1. PICK age \in {dir[job[t].id], "young"} : dir' = [dir EXCEPT ![job[t].id] = age]
      BY <1>8 DEF CleanupFails
    <3> QED BY <3>1 DEF TypeOK, DaemonOK
  <2>4. stale' \in [Cleaners -> SUBSET Ids]
    BY <1>8 DEF TypeOK, CleanupFails
  <2> QED BY <1>8, <2>2, <2>3, <2>4 DEF TypeOK, CleanupFails, DaemonOK
<1> QED BY <1>3, <1>4, <1>5, <1>6, <1>7, <1>8

LEMMA CoreTypes ==
  ASSUME TypeOK, (\E i \in Ids : Stops(i) \/ Deletes(i) \/ DeleteFinishes(i)) \/ CoreDies \/ TimePasses
  PROVE  TypeOK'
<1> USE DaemonAssumption
<1>1. CASE \E i \in Ids : Stops(i)
  <2>1. PICK i \in Ids : Stops(i)
    BY <1>1
  <2>2. DaemonOK'
    BY <2>1 DEF TypeOK, DaemonOK, Stops, StopSession
  <2> QED BY <2>1, <2>2 DEF TypeOK, Stops, cleanVars
<1>2. CASE \E i \in Ids : Deletes(i)
  <2>1. PICK i \in Ids : Deletes(i)
    BY <1>2
  <2>2. DaemonOK'
    BY <2>1 DEF TypeOK, DaemonOK, Deletes, DeleteBegins
  <2> QED BY <2>1, <2>2 DEF TypeOK, Deletes, cleanVars
<1>3. CASE \E i \in Ids : DeleteFinishes(i)
  <2>1. PICK i \in Ids : DeleteFinishes(i)
    BY <1>3
  <2>2. DaemonOK'
    BY <2>1 DEF TypeOK, DaemonOK, DeleteFinishes, DeleteEnds
  <2> QED BY <2>1, <2>2 DEF TypeOK, DeleteFinishes, cleanVars
<1>4. CASE CoreDies
  <2>1. DaemonOK'
    BY <1>4 DEF TypeOK, DaemonOK, CoreDies, DaemonDies
  <2> QED BY <1>4, <2>1 DEF TypeOK, CoreDies, cleanVars
<1>5. CASE TimePasses
  <2>1. DaemonOK'
    BY <1>5 DEF TypeOK, DaemonOK, TimePasses, Ages
  <2>2. excused' \in [Cleaners -> SUBSET Ids]
    BY <1>5 DEF TypeOK, TimePasses
  <2> QED BY <1>5, <2>1, <2>2 DEF TypeOK, TimePasses
<1> QED BY <1>1, <1>2, <1>3, <1>4, <1>5

LEMMA BuilderTypes ==
  ASSUME TypeOK, NEW b \in Builders,
         BuilderLists(b) \/ BuilderCreates(b) \/ BuilderCollides(b) \/ BuilderRaises(b)
  PROVE  TypeOK'
<1> USE DaemonAssumption, BuildersAssumption
<1>1. build[b] \in Builds /\ NoBuild \in Builds /\ tried[b] \in SUBSET Ids
  BY DEF TypeOK, Builds, NoBuild
<1>2. ASSUME NEW r \in Builds, build' = [build EXCEPT ![b] = r] PROVE build' \in [Builders -> Builds]
  BY <1>2 DEF TypeOK
<1>3. ASSUME NEW s \in SUBSET Ids, tried' = [tried EXCEPT ![b] = s] PROVE tried' \in [Builders -> SUBSET Ids]
  BY <1>3 DEF TypeOK
<1>4. CASE BuilderLists(b)
  <2>1. PICK next \in {0} \cup {i + 1 : i \in {k \in Known : \A j \in Known : j <= k}} :
          build' = [build EXCEPT ![b] = [at |-> "creates", next |-> next, attempts |-> 0]]
    BY <1>4 DEF BuilderLists
  <2>2. next \in 0..(MaxId + 1)
    BY <2>1 DEF Known, Ids
  <2>3. [at |-> "creates", next |-> next, attempts |-> 0] \in Builds
    BY <2>2 DEF Builds
  <2>4. build' \in [Builders -> Builds]
    BY <1>2, <2>1, <2>3
  <2>5. tried' \in [Builders -> SUBSET Ids]
    BY <1>4 DEF TypeOK, BuilderLists
  <2> QED BY <1>4, <2>4, <2>5 DEF TypeOK, BuilderLists, daemonVars, cleanVars, DaemonOK
<1>5. CASE BuilderCreates(b)
  <2>1. PICK i \in Ids : Creates(i)
    BY <1>5 DEF BuilderCreates
  <2>2. build' \in [Builders -> Builds]
    BY <1>1, <1>2, <1>5 DEF BuilderCreates
  <2>3. tried' \in [Builders -> SUBSET Ids]
    BY <1>5 DEF TypeOK, BuilderCreates
  <2> QED BY <2>1, <2>2, <2>3, CreatesTypes DEF TypeOK
<1>6. CASE BuilderRaises(b)
  <2>1. build' \in [Builders -> Builds]
    BY <1>1, <1>2, <1>6 DEF BuilderRaises
  <2>2. tried' \in [Builders -> SUBSET Ids]
    BY <1>6 DEF TypeOK, BuilderRaises
  <2> QED BY <1>6, <2>1, <2>2 DEF TypeOK, BuilderRaises, daemonVars, cleanVars, DaemonOK
<1>7. CASE BuilderCollides(b)
  <2>1. PICK i \in Ids :
          IF build[b].attempts + 1 < MaxAttempts
          THEN /\ build' = [build EXCEPT ![b].next = i + 1, ![b].attempts = @ + 1]
               /\ tried' = [tried EXCEPT ![b] = @ \cup {i}]
          ELSE /\ build' = [build EXCEPT ![b] = NoBuild]
               /\ tried' = [tried EXCEPT ![b] = {}]
    BY <1>7 DEF BuilderCollides
  <2>2. CASE build[b].attempts + 1 < MaxAttempts
    <3>1. i + 1 \in 0..(MaxId + 1) /\ build[b].attempts + 1 \in 0..(MaxAttempts - 1)
      BY <1>1, <2>2 DEF Ids, Builds
    <3>2. [build[b] EXCEPT !.next = i + 1, !.attempts = @ + 1] \in Builds
      BY <1>1, <3>1 DEF Builds
    <3>3. build' = [build EXCEPT ![b] = [build[b] EXCEPT !.next = i + 1, !.attempts = @ + 1]]
      BY <2>1, <2>2 DEF TypeOK
    <3>4. tried' \in [Builders -> SUBSET Ids]
      BY <1>1, <1>3, <2>1, <2>2
    <3> QED BY <1>2, <1>7, <3>2, <3>3, <3>4 DEF TypeOK, BuilderCollides, daemonVars, cleanVars, DaemonOK
  <2>3. CASE ~(build[b].attempts + 1 < MaxAttempts)
    <3>1. build' \in [Builders -> Builds] /\ tried' \in [Builders -> SUBSET Ids]
      BY <1>1, <1>2, <1>3, <2>1, <2>3
    <3> QED BY <1>7, <3>1 DEF TypeOK, BuilderCollides, daemonVars, cleanVars, DaemonOK
  <2> QED BY <2>2, <2>3
<1> QED BY <1>4, <1>5, <1>6, <1>7

LEMMA NextTypes == TypeOK /\ [Next]_vars => TypeOK'
<1> SUFFICES ASSUME TypeOK, [Next]_vars PROVE TypeOK'
  OBVIOUS
<1>1. CASE UserOpens
  <2>1. PICK i \in Ids : Creates(i) /\ UNCHANGED <<build, tried>>
    BY <1>1 DEF UserOpens
  <2> QED BY <2>1, CreatesTypes DEF TypeOK
<1>2. CASE UNCHANGED vars
  BY <1>2 DEF TypeOK, DaemonOK, vars, daemonVars, cleanVars
<1> QED BY <1>1, <1>2, CleanupTypes, CoreTypes, BuilderTypes DEF Next

------------------------------------------------------------------------------
(* Live sessions and stale directories.                                      *)

\* What the invariant speaks of.
invVars == <<session, dir, job, since, excused, stale, robbed>>

LEMMA OthersKeep ==
  ASSUME CInv, TypeOK', UNCHANGED invVars
  PROVE  CInv'
BY DEF CInv, invVars, LiveHasDir, ListTrue, StaleTrue, Live, Cleaning

LEMMA CreatesKeeps ==
  ASSUME CInv, TypeOK', NEW i \in Ids, Creates(i)
  PROVE  CInv'
<1> USE DEF CInv
<1>1. /\ session' = [session EXCEPT ![i] = "live"] /\ dir' = [dir EXCEPT ![i] = "young"]
      /\ dir[i] = "absent" /\ job' = job /\ robbed' = robbed \ {i}
      /\ since' = [t \in Cleaners |-> IF Cleaning(t) THEN since[t] \cup {i} ELSE since[t]]
      /\ excused' = [t \in Cleaners |-> IF job[t].at = "removes" /\ job[t].id = i
                                        THEN excused[t] \cup {i} ELSE excused[t]]
      /\ stale' = [t \in Cleaners |-> stale[t] \ {i}]
      /\ session \in [Ids -> {"absent", "live", "stopped"}] /\ dir \in [Ids -> {"absent", "young", "old"}]
  BY DEF Creates, CreateSession, Collides, TypeOK, DaemonOK
<1>2. /\ \A k \in Ids \ {i} : session'[k] = session[k] /\ dir'[k] = dir[k]
      /\ session'[i] = "live" /\ dir'[i] = "young"
  BY <1>1
<1>3. LiveHasDir'
  BY <1>1, <1>2 DEF LiveHasDir, Live
<1>4. ASSUME NEW t \in Cleaners PROVE ListTrue(t)'
  <2> SUFFICES ASSUME Cleaning(t)' PROVE ListTrue(t)'
    BY DEF ListTrue
  <2>1. Cleaning(t) /\ since'[t] = since[t] \cup {i} /\ excused[t] \subseteq excused'[t] /\ job'[t] = job[t]
    BY <1>1 DEF Cleaning
  <2>2. \A k \in Ids : Live(k)' /\ k \notin job'[t].active /\ k \notin excused'[t]
                        => k \in since'[t] /\ dir'[k] # "old"
    BY <1>2, <2>1 DEF ListTrue, Live
  <2>3. ASSUME job'[t].at = "removes"
        PROVE  /\ job'[t].id \in Ids \ job'[t].active
               /\ Live(job[t].id)' => job'[t].id \in excused'[t] \/ dir'[job'[t].id] = "absent"
    <3>1. CASE job[t].id = i
      <4>1. i \in excused'[t]
        BY <1>1, <2>1, <2>3, <3>1
      <4> QED BY <2>1, <2>3, <3>1, <4>1 DEF ListTrue
    <3>2. CASE job[t].id # i
      <4>1. /\ job[t].id \in Ids \ job[t].active
            /\ Live(job[t].id) => job[t].id \in excused[t] \/ dir[job[t].id] = "absent"
        BY <2>1, <2>3 DEF ListTrue
      <4>2. session'[job[t].id] = session[job[t].id] /\ dir'[job[t].id] = dir[job[t].id]
        BY <1>2, <3>2, <4>1
      <4> QED BY <2>1, <4>1, <4>2 DEF Live
    <3> QED BY <3>1, <3>2
  <2> QED BY <2>2, <2>3 DEF ListTrue
<1>5. ASSUME NEW t \in Cleaners PROVE StaleTrue(t)'
  <2>1. stale'[t] = stale[t] \ {i} /\ job'[t] = job[t]
    BY <1>1
  <2> QED BY <1>2, <2>1 DEF StaleTrue, Cleaning
<1> QED BY <1>3, <1>4, <1>5

\* A step that only ends sessions and removes directories.
LEMMA EndingKeeps ==
  ASSUME CInv, TypeOK', UNCHANGED <<job, since, excused, stale>>,
         \A i \in Ids : Live(i)' => Live(i) /\ (i \in robbed => i \in robbed'),
         \A i \in Ids : session[i] = "absent" => session'[i] = "absent",
         \A i \in Ids : dir'[i] = dir[i] \/ dir'[i] = "absent",
         \A i \in Ids : Live(i)' /\ dir'[i] # dir[i] => i \in robbed'
  PROVE  CInv'
<1> USE DEF CInv
<1>1. LiveHasDir'
  BY DEF LiveHasDir
<1>2. ASSUME NEW t \in Cleaners PROVE ListTrue(t)'
  <2>1. job[t].at = "removes" => job[t].id \in Ids \/ ~Cleaning(t)
    BY DEF ListTrue
  <2> QED BY <2>1 DEF ListTrue, Cleaning
<1>3. ASSUME NEW t \in Cleaners PROVE StaleTrue(t)'
  <2>1. stale[t] \subseteq Ids
    BY DEF TypeOK
  <2> QED BY <2>1 DEF StaleTrue, Cleaning
<1> QED BY <1>1, <1>2, <1>3

LEMMA TimeKeeps ==
  ASSUME CInv, TypeOK', TimePasses
  PROVE  CInv'
<1> USE DEF CInv
<1>1. /\ dir' = [i \in Ids |-> IF dir[i] = "young" THEN "old" ELSE dir[i]]
      /\ excused' = [t \in Cleaners |-> IF Cleaning(t) THEN excused[t] \cup since[t] ELSE excused[t]]
      /\ UNCHANGED <<session, job, since, stale, robbed>>
  BY DEF TimePasses, Ages
<1>2. \A i \in Ids : dir'[i] # "young" /\ (dir'[i] = "absent" <=> dir[i] = "absent")
  BY <1>1 DEF TypeOK, DaemonOK
<1>3. LiveHasDir'
  BY <1>1, <1>2 DEF LiveHasDir, Live
<1>4. ASSUME NEW t \in Cleaners PROVE ListTrue(t)'
  <2>1. Cleaning(t)' => Cleaning(t) /\ excused'[t] = excused[t] \cup since[t]
    BY <1>1 DEF Cleaning
  <2> QED BY <1>1, <1>2, <2>1 DEF ListTrue, Live
<1>5. ASSUME NEW t \in Cleaners PROVE StaleTrue(t)'
  <2>1. stale[t] \subseteq Ids
    BY DEF TypeOK
  <2> QED BY <1>1, <1>2, <2>1 DEF StaleTrue, Cleaning
<1> QED BY <1>3, <1>4, <1>5

LEMMA CleanupKeeps ==
  ASSUME CInv, TypeOK', NEW t \in Cleaners,
         \/ CleanupLists(t) \/ CleanupGlobs(t) \/ CleanupChecks(t)
         \/ CleanupRemoves(t) \/ CleanupFails(t) \/ CleanupEnds(t)
  PROVE  CInv'
<1> USE DEF CInv
<1>1. /\ session' = session
      /\ \A u \in Cleaners \ {t} : job'[u] = job[u] /\ since'[u] = since[u] /\ excused'[u] = excused[u]
  BY DEF TypeOK, CleanupLists, CleanupGlobs, CleanupChecks, CleanupRemoves, CleanupFails, CleanupEnds, daemonVars
<1>2. job[t] \in Jobs /\ stale[t] \subseteq Ids
  BY DEF TypeOK
\* The other cleanups only see a directory go.
<1>3. ASSUME NEW u \in Cleaners \ {t}, stale'[u] = stale[u],
             \A i \in Ids : dir'[i] = dir[i] \/ dir'[i] = "absent"
      PROVE  ListTrue(u)' /\ StaleTrue(u)'
  <2>1. ListTrue(u)'
    <3>1. Cleaning(u) /\ job[u].at = "removes" => job[u].id \in Ids
      BY DEF ListTrue
    <3> QED BY <1>1, <1>3, <3>1 DEF ListTrue, Cleaning, Live
  <2>2. StaleTrue(u)'
    <3>1. stale[u] \subseteq Ids
      BY DEF TypeOK
    <3> QED BY <1>1, <1>3, <3>1 DEF StaleTrue, Cleaning
  <2> QED BY <2>1, <2>2
<1>4. ASSUME UNCHANGED <<dir, robbed>>, \A u \in Cleaners \ {t} : stale'[u] = stale[u],
             ListTrue(t)', StaleTrue(t)'
      PROVE  CInv'
  <2>1. LiveHasDir'
    BY <1>1, <1>4 DEF LiveHasDir, Live
  <2>2. \A u \in Cleaners \ {t} : ListTrue(u)' /\ StaleTrue(u)'
    BY <1>1, <1>3, <1>4
  <2> QED BY <1>4, <2>1, <2>2
<1>5. CASE CleanupLists(t)
  <2>1. PICK active \in {Known, {}} :
          /\ job' = [job EXCEPT ![t].at = "globs", ![t].active = active]
          /\ excused' = [excused EXCEPT ![t] = IF active = Known THEN {} ELSE Ids]
    BY <1>5 DEF CleanupLists
  <2>2. /\ job'[t].at = "globs" /\ job'[t].active = active
        /\ excused'[t] = IF active = Known THEN {} ELSE Ids
        /\ stale'[t] = {i \in Ids \ Known : dir[i] = "old"}
    BY <1>2, <1>5, <2>1 DEF TypeOK, Jobs, CleanupLists
  <2>3. ListTrue(t)'
    BY <1>1, <2>2 DEF ListTrue, Live, Known
  <2>4. StaleTrue(t)'
    <3>1. dir' = dir
      BY <1>5 DEF CleanupLists, daemonVars
    <3> QED BY <1>1, <2>1, <2>2, <3>1 DEF StaleTrue, Known
  <2>5. \A u \in Cleaners \ {t} : stale'[u] = stale[u]
    BY <1>5 DEF TypeOK, CleanupLists
  <2> QED BY <1>4, <1>5, <2>3, <2>4, <2>5 DEF CleanupLists, daemonVars
<1>6. CASE CleanupGlobs(t)
  <2>1. /\ job[t].at = "globs" /\ job'[t].at = "checks" /\ job'[t].active = job[t].active
        /\ job'[t].todo = {i \in Ids : dir[i] # "absent"}
        /\ UNCHANGED <<dir, robbed, since, excused, stale>>
    BY <1>2, <1>6 DEF TypeOK, Jobs, CleanupGlobs, daemonVars
  <2>2. ListTrue(t)'
    BY <1>1, <2>1 DEF ListTrue, Live, Cleaning
  <2>3. StaleTrue(t)'
    BY <1>1, <1>2, <2>1 DEF StaleTrue, Cleaning
  <2> QED BY <1>4, <2>1, <2>2, <2>3
<1>7. CASE CleanupChecks(t)
  <2>1. PICK i \in job[t].todo :
          job' = [job EXCEPT ![t].todo = @ \ {i},
                             ![t].at = IF Removable(t, i) THEN "removes" ELSE "checks",
                             ![t].id = IF Removable(t, i) THEN i ELSE 0]
    BY <1>7 DEF CleanupChecks
  <2>2. /\ job[t].at = "checks" /\ UNCHANGED <<dir, robbed, since, excused, stale>>
        /\ job'[t].active = job[t].active /\ job'[t].todo = job[t].todo \ {i} /\ i \in Ids
        /\ job'[t].at = IF Removable(t, i) THEN "removes" ELSE "checks"
        /\ job'[t].id = IF Removable(t, i) THEN i ELSE 0
    BY <1>2, <1>7, <2>1 DEF TypeOK, Jobs, CleanupChecks, daemonVars
  <2>3. dir[i] \in {"absent", "young", "old"}
    BY <2>2 DEF TypeOK, DaemonOK
  <2>4. ListTrue(t)'
    BY <1>1, <2>2, <2>3 DEF ListTrue, Live, Cleaning, Removable
  <2>5. StaleTrue(t)'
    <3>1. \A k \in stale[t] : k \in Ids \ job[t].active /\ session[k] = "absent" /\ dir[k] # "young"
                              /\ (k \in job[t].todo \/ dir[k] = "absent")
      BY <2>2 DEF StaleTrue, Cleaning
    <3>2. i \in stale[t] => Removable(t, i)
      BY <3>1 DEF Removable
    <3>3. ASSUME NEW k \in stale[t] PROVE k \in job'[t].todo \/ k = job'[t].id \/ dir[k] = "absent"
      BY <2>2, <3>1, <3>2, <3>3
    <3>4. stale'[t] = stale[t] /\ session' = session /\ dir' = dir /\ job'[t].active = job[t].active
          /\ (job'[t].at = "checks" => job'[t].id = 0)
      BY <1>1, <2>2
    <3>5. 0 \notin Ids
      BY DaemonAssumption DEF Ids
    <3> HIDE DEF Ids
    <3> QED BY <3>1, <3>3, <3>4, <3>5 DEF StaleTrue
  <2> QED BY <1>4, <2>2, <2>4, <2>5
<1>8. CASE CleanupRemoves(t)
  <2> DEFINE i == job[t].id
  <2>1. /\ job[t].at = "removes" /\ dir' = [dir EXCEPT ![i] = "absent"]
        /\ robbed' = (IF Live(i) /\ i \in excused[t] THEN robbed \cup {i} ELSE robbed)
        /\ UNCHANGED <<since, excused, stale>>
        /\ job'[t].active = job[t].active /\ job'[t].todo = job[t].todo /\ job'[t].at = "checks"
    BY <1>2, <1>8 DEF TypeOK, Jobs, CleanupRemoves
  <2>2. i \in Ids /\ (Live(i) => i \in excused[t] \/ dir[i] = "absent")
    BY <2>1 DEF ListTrue, Cleaning
  <2>3. /\ \A k \in Ids \ {i} : dir'[k] = dir[k]
        /\ dir'[i] = "absent"
    BY <2>1, <2>2 DEF TypeOK, DaemonOK
  <2> HIDE DEF i
  <2>4. LiveHasDir'
    BY <1>1, <2>1, <2>2, <2>3 DEF LiveHasDir, Live
  <2>5. ListTrue(t)'
    BY <1>1, <2>1, <2>3 DEF ListTrue, Live, Cleaning
  <2>6. StaleTrue(t)'
    BY <1>1, <1>2, <2>1, <2>3 DEF StaleTrue, Cleaning, i
  <2>7. \A u \in Cleaners \ {t} : ListTrue(u)' /\ StaleTrue(u)'
    BY <1>3, <2>1, <2>3
  <2> QED BY <2>4, <2>5, <2>6, <2>7
<1>9. CASE CleanupEnds(t)
  <2>1. UNCHANGED <<dir, robbed>> /\ job'[t] = Idle /\ \A u \in Cleaners \ {t} : stale'[u] = stale[u]
    BY <1>9 DEF TypeOK, CleanupEnds, daemonVars
  <2>2. ~Cleaning(t)'
    BY <2>1 DEF Cleaning, Idle
  <2> QED BY <1>4, <2>1, <2>2 DEF ListTrue, StaleTrue
\* What could not be removed is young now, or as it was, and expected of no cleanup.
<1>10. CASE CleanupFails(t)
  <2>1. /\ job[t].at = "removes" /\ dir[job[t].id] # "absent"
        /\ stale' = [u \in Cleaners |-> stale[u] \ {job[t].id}]
        /\ UNCHANGED <<since, excused, robbed>>
        /\ job'[t].active = job[t].active /\ job'[t].todo = job[t].todo /\ job'[t].at = "checks"
    BY <1>2, <1>10 DEF TypeOK, Jobs, CleanupFails
  <2>2. PICK age \in {dir[job[t].id], "young"} : dir' = [dir EXCEPT ![job[t].id] = age]
    BY <1>10 DEF CleanupFails
  <2>3. job[t].id \in Ids
    BY <2>1 DEF ListTrue, Cleaning
  <2>4. /\ \A k \in Ids \ {job[t].id} : dir'[k] = dir[k]
        /\ dir'[job[t].id] \in {dir[job[t].id], "young"}
    BY <2>2, <2>3 DEF TypeOK, DaemonOK
  <2>5. \A k \in Ids : /\ dir'[k] = "old" => dir[k] = "old"
                       /\ dir'[k] = "absent" <=> dir[k] = "absent"
    BY <2>1, <2>4
  <2>6. LiveHasDir'
    BY <1>1, <2>1, <2>5 DEF LiveHasDir, Live
  <2>7. ASSUME NEW u \in Cleaners PROVE ListTrue(u)'
    <3>1. \/ job'[u] = job[u]
          \/ Cleaning(u) /\ job'[u].at = "checks" /\ job'[u].active = job[u].active
      <4>1. CASE u = t
        BY <2>1, <4>1 DEF Cleaning
      <4>2. ASSUME u # t PROVE job'[u] = job[u]
        BY <1>1, <4>2
      <4> QED BY <4>1, <4>2
    <3>2. Cleaning(u) /\ job[u].at = "removes" => job[u].id \in Ids
      BY DEF ListTrue
    <3> QED BY <1>1, <2>1, <2>5, <3>1, <3>2 DEF ListTrue, Cleaning, Live
  <2>8. ASSUME NEW u \in Cleaners PROVE StaleTrue(u)'
    <3>1. stale'[u] = stale[u] \ {job[t].id} /\ stale[u] \subseteq Ids
      BY <2>1 DEF TypeOK
    <3>2. \A k \in stale'[u] : k \in stale[u] /\ k # job[t].id /\ dir'[k] = dir[k]
      BY <2>4, <3>1
    <3>3. u # t => job'[u] = job[u]
      BY <1>1
    <3> QED BY <1>1, <2>1, <3>2, <3>3 DEF StaleTrue, Cleaning
  <2> QED BY <2>6, <2>7, <2>8
<1> QED BY <1>5, <1>6, <1>7, <1>8, <1>9, <1>10

LEMMA NextKeeps == CInv /\ [Next]_vars => CInv'
<1> SUFFICES ASSUME CInv, [Next]_vars PROVE CInv'
  OBVIOUS
<1>0. TypeOK /\ LiveHasDir /\ TypeOK'
  BY NextTypes DEF CInv
<1>1. ASSUME NEW i \in Ids, Stops(i) PROVE CInv'
  BY <1>0, <1>1, EndingKeeps DEF Stops, StopSession, cleanVars, Live, Known, TypeOK, DaemonOK
<1>2. ASSUME NEW i \in Ids, Deletes(i) PROVE CInv'
  BY <1>0, <1>2, EndingKeeps DEF Deletes, DeleteBegins, cleanVars, Live, TypeOK, DaemonOK
<1>3. ASSUME NEW i \in Ids, DeleteFinishes(i) PROVE CInv'
  BY <1>0, <1>3, EndingKeeps DEF DeleteFinishes, DeleteEnds, cleanVars, Live, TypeOK, DaemonOK
<1>4. CASE CoreDies
  BY <1>0, <1>4, EndingKeeps DEF CoreDies, DaemonDies, cleanVars, Live, TypeOK, DaemonOK
<1>5. ASSUME NEW b \in Builders, BuilderLists(b) \/ BuilderCollides(b) \/ BuilderRaises(b)
      PROVE  CInv'
  <2>1. UNCHANGED invVars
    BY <1>5 DEF BuilderLists, BuilderCollides, BuilderRaises, daemonVars, cleanVars, invVars
  <2> QED BY <1>0, <2>1, OthersKeep
<1>6. CASE UserOpens \/ \E b \in Builders : BuilderCreates(b)
  <2>1. PICK i \in Ids : Creates(i)
    BY <1>6 DEF UserOpens, BuilderCreates
  <2> QED BY <1>0, <2>1, CreatesKeeps
<1>7. CASE UNCHANGED vars
  <2>1. UNCHANGED invVars
    BY <1>7 DEF vars, daemonVars, cleanVars, invVars
  <2> QED BY <1>0, <2>1, OthersKeep
<1> QED BY <1>0, <1>1, <1>2, <1>3, <1>4, <1>5, <1>6, <1>7, CleanupKeeps, TimeKeeps DEF Next

LEMMA InitCInv == Init => CInv
<1> SUFFICES ASSUME Init PROVE CInv
  OBVIOUS
<1>1. DaemonOK
  BY DaemonAssumption DEF Init, DaemonInit, DaemonOK
<1>2. Idle \in Jobs /\ NoBuild \in Builds
  BY DaemonAssumption, BuildersAssumption DEF Idle, Jobs, NoBuild, Builds
<1>3. TypeOK
  BY <1>1, <1>2 DEF Init, TypeOK
<1>4. LiveHasDir
  BY DEF Init, DaemonInit, LiveHasDir, Live
<1>5. \A t \in Cleaners : ~Cleaning(t)
  BY DEF Init, Cleaning, Idle
<1> QED BY <1>3, <1>4, <1>5 DEF CInv, ListTrue, StaleTrue

------------------------------------------------------------------------------
(* Builders.                                                                 *)

\* A builder's next id is above those it ran into, and counted.
LEMMA CollidesCounts ==
  ASSUME TypeOK, TriesAnew, NEW b \in Builders, BuilderCollides(b)
  PROVE  /\ Cardinality(tried'[b]) = build'[b].attempts
         /\ build'[b].attempts > 0 => \A i \in tried'[b] : build'[b].next > i
<1>1. build[b] \in Builds /\ tried[b] \subseteq Ids /\ MaxId \in Nat
  BY DaemonAssumption DEF TypeOK
<1>2. IsFiniteSet(tried[b])
  <2>1. 1 \in Int /\ MaxId \in Int
    BY <1>1
  <2>2. IsFiniteSet(Ids)
    BY <2>1, FS_Interval DEF Ids
  <2> QED BY <1>1, <2>2, FS_Subset
<1>3. PICK i \in Ids :
        /\ Asked(b, i)
        /\ IF build[b].attempts + 1 < MaxAttempts
           THEN /\ build' = [build EXCEPT ![b].next = i + 1, ![b].attempts = @ + 1]
                /\ tried' = [tried EXCEPT ![b] = @ \cup {i}]
           ELSE /\ build' = [build EXCEPT ![b] = NoBuild]
                /\ tried' = [tried EXCEPT ![b] = {}]
  BY DEF BuilderCollides
<1>4. i \in Nat /\ \A k \in tried[b] : k \in Nat \ {0}
  BY <1>1 DEF Ids
<1>5. \A k \in tried[b] : i > k
  <2>1. CASE tried[b] = {}
    BY <2>1
  <2>2. CASE tried[b] # {}
    <3>1. Cardinality(tried[b]) # 0
      BY <1>2, <2>2, FS_EmptySet
    <3>2. build[b].attempts > 0
      BY <1>1, <3>1 DEF TriesAnew, Builds
    <3>3. \A k \in tried[b] : build[b].next > k
      BY <3>2 DEF TriesAnew
    <3>4. build[b].next # 0
      BY <1>4, <2>2, <3>3
    <3> QED BY <1>3, <3>3, <3>4 DEF Asked
  <2> QED BY <2>1, <2>2
<1>6. CASE build[b].attempts + 1 < MaxAttempts
  <2>1. build'[b].next = i + 1 /\ build'[b].attempts = build[b].attempts + 1 /\ tried'[b] = tried[b] \cup {i}
    BY <1>1, <1>3, <1>6 DEF TypeOK, Builds
  <2>2. i \notin tried[b]
    BY <1>4, <1>5
  <2>3. Cardinality(tried[b] \cup {i}) = Cardinality(tried[b]) + 1
    BY <1>2, <2>2, FS_AddElement
  <2>4. \A k \in tried'[b] : i + 1 > k
    BY <1>4, <1>5, <2>1
  <2> QED BY <2>1, <2>3, <2>4 DEF TriesAnew
<1>7. CASE ~(build[b].attempts + 1 < MaxAttempts)
  <2>1. build'[b] = NoBuild /\ tried'[b] = {}
    BY <1>3, <1>7 DEF TypeOK
  <2> QED BY <2>1, FS_EmptySet DEF NoBuild
<1> QED BY <1>6, <1>7

LEMMA NextTries == TypeOK /\ TriesAnew /\ [Next]_vars => TriesAnew'
<1> SUFFICES ASSUME TypeOK, TriesAnew, [Next]_vars PROVE TriesAnew'
  OBVIOUS
<1>1. CASE UNCHANGED <<build, tried>>
  BY <1>1 DEF TriesAnew
<1>2. ASSUME NEW b \in Builders,
             BuilderLists(b) \/ BuilderCreates(b) \/ BuilderCollides(b) \/ BuilderRaises(b)
      PROVE  TriesAnew'
  <2>1. \A c \in Builders \ {b} : build'[c] = build[c] /\ tried'[c] = tried[c]
    BY <1>2 DEF TypeOK, BuilderLists, BuilderCreates, BuilderCollides, BuilderRaises
  <2>2. ASSUME build'[b].attempts = 0, tried'[b] = {} PROVE TriesAnew'
    BY <2>1, <2>2, FS_EmptySet DEF TriesAnew
  <2>3. CASE BuilderLists(b)
    <3>1. build'[b].attempts = 0 /\ tried'[b] = {}
      BY <2>3 DEF TypeOK, BuilderLists
    <3> QED BY <2>2, <3>1
  <2>4. CASE BuilderCreates(b) \/ BuilderRaises(b)
    <3>1. build'[b] = NoBuild /\ tried'[b] = {}
      BY <2>4 DEF TypeOK, BuilderCreates, BuilderRaises
    <3> QED BY <2>2, <3>1 DEF NoBuild
  <2>5. CASE BuilderCollides(b)
    BY <2>1, <2>5, CollidesCounts DEF TriesAnew
  <2> QED BY <1>2, <2>3, <2>4, <2>5
<1>3. ASSUME NEW t \in Cleaners,
             \/ CleanupLists(t) \/ CleanupGlobs(t) \/ CleanupChecks(t)
             \/ CleanupRemoves(t) \/ CleanupFails(t) \/ CleanupEnds(t)
      PROVE  UNCHANGED <<build, tried>>
  BY <1>3 DEF CleanupLists, CleanupGlobs, CleanupChecks, CleanupRemoves, CleanupFails, CleanupEnds
<1>4. ASSUME NEW i \in Ids, Stops(i) \/ Deletes(i) \/ DeleteFinishes(i)
      PROVE  UNCHANGED <<build, tried>>
  BY <1>4 DEF Stops, Deletes, DeleteFinishes
<1>5. CASE UserOpens \/ CoreDies \/ TimePasses \/ UNCHANGED vars
  <2>1. UNCHANGED <<build, tried>>
    BY <1>5 DEF UserOpens, CoreDies, TimePasses, vars
  <2> QED BY <1>1, <2>1
<1> QED BY <1>1, <1>2, <1>3, <1>4, <1>5 DEF Next

------------------------------------------------------------------------------
(* Theorems.                                                                 *)

\* The inductive invariant.
THEOREM Invariance == Spec => []CInv
<1> QED BY InitCInv, NextKeeps, PTL DEF Spec

\* CORE, the cleanups and the builders keep their types.
THEOREM TypeCorrect == Spec => []TypeOK
<1>1. CInv => TypeOK
  BY DEF CInv
<1> QED BY <1>1, Invariance, PTL

\* A live session keeps its directory but for the races LiveHasDir names, for any number
\* of cleanups at once.
THEOREM LiveSessionsKeepTheirs == Spec => []LiveHasDir
<1>1. CInv => LiveHasDir
  BY DEF CInv
<1> QED BY <1>1, Invariance, PTL

\* A cleanup passes over nothing that was stale when it began.
THEOREM StaleDirectoriesGo == Spec => []StaleGoes
<1>1. CInv => StaleGoes
  BY DEF CInv, StaleTrue, StaleGoes, Cleaning
<1> QED BY <1>1, Invariance, PTL

\* A builder never asks twice for an id it has run into, for any number of attempts.
THEOREM BuildersTryAnew == Spec => []TriesAnew
<1>1. Init => TriesAnew
  BY FS_EmptySet DEF Init, TriesAnew, NoBuild
<1>2. TypeOK /\ TriesAnew /\ [Next]_vars => TriesAnew'
  BY NextTries
<1> QED BY <1>1, <1>2, TypeCorrect, PTL DEF Spec

------------------------------------------------------------------------------
(* The mapping of the CORE page.                                             *)

MapEntries == [file : Files, id : Mapping!Ids]
MapLists == SUBSET MapEntries
MapWorks == [op : {"none", "map", "save", "remove"}, file : Files \cup {Mapping!NoFile}, id : {0} \cup Mapping!Ids]

MappingTypes ==
  /\ work \in [Threads -> MapWorks]
  /\ session \in [Mapping!Ids -> {"absent", "live", "stopped"}]
  /\ opened \in [Mapping!Ids -> Files \cup {Mapping!NoFile}]
  /\ muddled \in BOOLEAN

\* A thread at work has a file, and saves exactly when it is at that.
MapAtWork ==
  \A t \in Threads : /\ work[t].op = "none" => work[t] = Mapping!Idle
                     /\ work[t].op # "none" => work[t].file \in Files
                     /\ work[t].op = "remove" => work[t].id = 0
                     /\ work[t].op = "save" <=> Saving(t)

\* A list of entries of sessions that were opened from their files, one for a file.
GenuineList(list) ==
  /\ \A e \in list : <<e.file, e.id>> \in given
  /\ \A d, e \in list : d.file = e.file => d = e

AllGenuine ==
  /\ GenuineList(Parsed(main)) /\ GenuineList(Parsed(tmp))
  /\ \A t \in Threads : GenuineList(copy[t])
  /\ \A t \in Threads : work[t].id # 0 => <<work[t].file, work[t].id>> \in given

\* What a thread saves is what it loaded but for its own file, of which it has the entry
\* of the session it opened, if it opened one.
OwnEntryOnly ==
  \A t \in Threads : Saving(t) =>
    \A e \in copy[t] : IF e.file = work[t].file THEN e.id = work[t].id ELSE e \in base[t]

MapInv == SInv(MapLists) /\ MappingTypes /\ MapAtWork /\ AllGenuine /\ OwnEntryOnly

\* Where nothing has met or been cut short, each file is in the hands of one thread, ...
OneEach ==
  ~muddled => \A t, u \in Threads : t # u /\ work[t].file = work[u].file => work[t].file = Mapping!NoFile

OpenedAs(f, i) == f \in xmls /\ (f \notin parted => i \in Mapping!Known /\ opened[i] = f)

\* ... the sessions of threads at work are there, and so are those of the entries of
\* files that no thread is at.
WorkCurrent ==
  ~muddled => \A t \in Threads : work[t].id # 0 => OpenedAs(work[t].file, work[t].id)
EntriesCurrent ==
  ~muddled /\ overlapped = {} =>
    \A e \in Parsed(main) : ~Mapping!Busy(e.file) => OpenedAs(e.file, e.id)

CurrentInv == OneEach /\ WorkCurrent /\ EntriesCurrent

------------------------------------------------------------------------------
(* The store the mapping is kept in is JsonStore's.                          *)

LEMMA MappingStore ==
  /\ \A f : Mapping!Parsed(f) = Parsed(f)
  /\ \A t, v : Mapping!Loads(t, v) <=> Loads(t, v)
  /\ \A t : Mapping!SaveStep(t) <=> SaveStep(t)
  /\ Mapping!StoreCrash <=> StoreCrash
  /\ Mapping!StoreInit <=> StoreInit
  /\ UNCHANGED Mapping!storeVars <=> UNCHANGED storeVars
<1> USE DEF Mapping!fileVars, fileVars, Mapping!Saving, Saving, Mapping!Alone, Alone,
        Mapping!Goes, Goes, Mapping!NoteUnreadable, NoteUnreadable, Mapping!Blank, Blank,
        Mapping!Torn, Torn, Mapping!Absent, Absent, Mapping!Json, Json, Mapping!Parsed, Parsed
<1>1. \A f : Mapping!Parsed(f) = Parsed(f)
  OBVIOUS
<1>2. \A t, v : Mapping!Loads(t, v) <=> Loads(t, v)
  BY DEF Mapping!Loads, Loads
<1>3. \A t : Mapping!SaveStep(t) <=> SaveStep(t)
  <2> SUFFICES ASSUME NEW t PROVE Mapping!SaveStep(t) <=> SaveStep(t)
    OBVIOUS
  <2>1. Mapping!Opens(t) <=> Opens(t)
    BY DEF Mapping!Opens, Opens, Mapping!OpenTmp, OpenTmp
  <2>2. Mapping!Dumps(t) <=> Dumps(t)
    BY DEF Mapping!Dumps, Dumps, Mapping!DumpAndClose, DumpAndClose, Mapping!AfterDump, AfterDump
  <2>3. Mapping!Ends(t) <=> Ends(t)
    BY DEF Mapping!Ends, Ends
  <2>4. Mapping!Replaces(t) <=> Replaces(t)
    BY <2>3 DEF Mapping!Replaces, Replaces, Mapping!Replace, Replace, Mapping!Renamed, Renamed
  <2>5. Mapping!ReplaceRaises(t) <=> ReplaceRaises(t)
    BY <2>3 DEF Mapping!ReplaceRaises, ReplaceRaises
  <2>6. Mapping!Removes(t) <=> Removes(t)
    BY <2>3 DEF Mapping!Removes, Removes, Mapping!RemoveTmp, RemoveTmp
  <2> QED BY <2>1, <2>2, <2>4, <2>5, <2>6 DEF Mapping!SaveStep, SaveStep
<1>4. Mapping!StoreCrash <=> StoreCrash
  BY DEF Mapping!StoreCrash, StoreCrash, Mapping!CloseAll, CloseAll
<1>5. Mapping!StoreInit <=> StoreInit
  BY DEF Mapping!StoreInit, StoreInit, Mapping!FileInit, FileInit
<1>6. UNCHANGED Mapping!storeVars <=> UNCHANGED storeVars
  BY DEF Mapping!storeVars, storeVars, Mapping!histVars, histVars
<1> QED BY <1>1, <1>2, <1>3, <1>4, <1>5, <1>6

------------------------------------------------------------------------------
(* The mapping is a store: each step is one of the store, or leaves it.      *)

LEMMA ListsRead == StoreOK(MapLists) => Parsed(main) \in MapLists
BY DEF StoreOK, FileOK, Parsed, Absent, Blank, Torn, MapLists

LEMMA UpdatedIsList ==
  ASSUME MapInv, NEW t \in Threads, work[t].op = "map"
  PROVE  Mapping!Updated(work[t].file, work[t].id) \in MapLists
<1>1. Parsed(main) \in MapLists
  BY ListsRead DEF MapInv, SInv
<1>2. work[t].file \in Files /\ work[t].id \in {0} \cup Mapping!Ids
  BY DEF MapInv, MappingTypes, MapAtWork, MapWorks
<1>3. work[t].id # 0 => Mapping!Entry(work[t].file, work[t].id) \in MapEntries
  BY <1>2 DEF Mapping!Entry, MapEntries
<1> QED BY <1>1, <1>3, MappingStore DEF Mapping!Updated, MapLists

LEMMA NextIsStoreNext == MapInv /\ [Mapping!MappingNext]_(Mapping!mappingVars) => [StoreNext(MapLists)]_storeVars
<1> SUFFICES ASSUME MapInv, [Mapping!MappingNext]_(Mapping!mappingVars) PROVE [StoreNext(MapLists)]_storeVars
  OBVIOUS
<1>1. ASSUME NEW t \in Threads, Mapping!MapsFile(t)
      PROVE  StoreNext(MapLists)
  <2>1. Mapping!Updated(work[t].file, work[t].id) \in MapLists
    BY <1>1, UpdatedIsList, MappingStore DEF Mapping!MapsFile
  <2> QED BY <1>1, <2>1, MappingStore DEF Mapping!MapsFile, StoreNext
<1>2. ASSUME NEW t \in Threads, Mapping!SavesMapping(t)
      PROVE  StoreNext(MapLists)
  BY <1>2, MappingStore DEF Mapping!SavesMapping, StoreNext
<1>3. CASE Mapping!ServerDies
  BY <1>3, MappingStore DEF Mapping!ServerDies, StoreNext
<1>4. ASSUME NEW t \in Threads, NEW f \in Files \cup {Mapping!NoFile}, NEW i \in Mapping!Ids,
             Mapping!CoreStart(t, f) \/ Mapping!DeletesFile(t, f) \/ Mapping!DeletesSession(t, i, f) \/ Mapping!RemovesFile(t)
      PROVE  UNCHANGED storeVars
  BY <1>4, MappingStore DEF Mapping!CoreStart, Mapping!DeletesFile, Mapping!DeletesSession, Mapping!RemovesFile
<1>5. ASSUME NEW i \in Mapping!Ids, Mapping!OtherSession(i) \/ Mapping!CoreStop(i) \/ Mapping!CoreCloses(i)
      PROVE  UNCHANGED storeVars
  BY <1>5, MappingStore DEF Mapping!OtherSession, Mapping!CoreStop, Mapping!CoreCloses
<1>6. CASE Mapping!CoreDies
  BY <1>6, MappingStore DEF Mapping!CoreDies
<1>7. CASE UNCHANGED Mapping!mappingVars
  BY <1>7, MappingStore DEF Mapping!mappingVars
<1>8. ASSUME NEW t \in Threads, NEW f \in Files, Mapping!CoreStart(t, f) \/ Mapping!DeletesFile(t, f)
      PROVE  UNCHANGED storeVars
  BY <1>8, MappingStore DEF Mapping!CoreStart, Mapping!DeletesFile
<1>9. ASSUME NEW t \in Threads, Mapping!RemovesFile(t)
      PROVE  UNCHANGED storeVars
  BY <1>9, MappingStore DEF Mapping!RemovesFile
<1> QED BY <1>1, <1>2, <1>3, <1>4, <1>5, <1>6, <1>7, <1>8, <1>9 DEF Mapping!MappingNext

\* A save step leaves what the threads that still save have loaded.
LEMMA SaveStepBase ==
  ASSUME StoreOK(MapLists), NEW t \in Threads, SaveStep(t)
  PROVE  /\ \A u \in Threads \ {t} : base'[u] = base[u]
         /\ Saving(t)' => base'[t] = base[t]
         /\ saving' \in [Threads -> {"no", "open", "dump", "replace", "remove"}]
<1>1. /\ saving \in [Threads -> {"no", "open", "dump", "replace", "remove"}]
      /\ base \in [Threads -> MapLists \cup {{}}]
  BY DEF StoreOK
<1>2. \/ /\ saving'[t] # "no" /\ base' = base
         /\ \E s \in {"dump", "replace", "remove"} : saving' = [saving EXCEPT ![t] = s]
      \/ saving' = [saving EXCEPT ![t] = "no"] /\ base' = [base EXCEPT ![t] = {}]
  BY <1>1 DEF SaveStep, Opens, Dumps, Replaces, ReplaceRaises, Removes, Goes, Ends
<1> QED BY <1>1, <1>2 DEF Saving

------------------------------------------------------------------------------
(* Types, and what threads have at hand.                                     *)

\* What an action does to the work: t takes something up, goes on, or is done with it.
LEMMA MappingNextTypes == MapInv /\ [Mapping!MappingNext]_(Mapping!mappingVars) => MappingTypes'
<1> SUFFICES ASSUME MapInv, [Mapping!MappingNext]_(Mapping!mappingVars) PROVE MappingTypes'
  OBVIOUS
<1>0. /\ work \in [Threads -> MapWorks] /\ session \in [Mapping!Ids -> {"absent", "live", "stopped"}]
      /\ opened \in [Mapping!Ids -> Files \cup {Mapping!NoFile}] /\ muddled \in BOOLEAN
  BY DEF MapInv, MappingTypes
<1>i. Mapping!Idle \in MapWorks
  BY DEF Mapping!Idle, MapWorks
<1>r. \A f \in Files : [op |-> "remove", file |-> f, id |-> 0] \in MapWorks
  BY DEF MapWorks
<1>1. ASSUME NEW i \in Mapping!Ids, Mapping!OtherSession(i)
      PROVE  MappingTypes'
  BY <1>0, <1>1, MappingStore DEF Mapping!OtherSession, Mapping!CreateSession, MappingTypes
<1>2. ASSUME NEW t \in Threads, NEW f \in Files, Mapping!CoreStart(t, f)
      PROVE  MappingTypes'
  <2>1. PICK i \in Mapping!Ids : /\ Mapping!CreateSession(i)
                                 /\ work' = [work EXCEPT ![t] = [op |-> "map", file |-> f, id |-> i]]
                                 /\ opened' = [opened EXCEPT ![i] = f]
    BY <1>2, MappingStore DEF Mapping!CoreStart
  <2>2. [op |-> "map", file |-> f, id |-> i] \in MapWorks
    BY DEF MapWorks
  <2>3. muddled' \in BOOLEAN
    BY <1>2, MappingStore DEF Mapping!CoreStart
  <2> QED BY <1>0, <2>1, <2>2, <2>3 DEF Mapping!CreateSession, MappingTypes
<1>3. ASSUME NEW t \in Threads, Mapping!MapsFile(t)
      PROVE  MappingTypes'
  <2>1. [work[t] EXCEPT !.op = "save"] \in MapWorks
    BY <1>0 DEF MapWorks
  <2>2. work' = [work EXCEPT ![t] = [work[t] EXCEPT !.op = "save"]]
    BY <1>3, MappingStore DEF Mapping!MapsFile
  <2> QED BY <1>0, <1>3, <2>1, <2>2, MappingStore DEF Mapping!MapsFile, Mapping!daemonVars, MappingTypes
<1>4. ASSUME NEW t \in Threads, Mapping!SavesMapping(t)
      PROVE  MappingTypes'
  <2>1. work' \in [Threads -> MapWorks]
    BY <1>0, <1>i, <1>4, MappingStore DEF Mapping!SavesMapping
  <2>2. muddled' \in BOOLEAN
    BY <1>4, MappingStore DEF Mapping!SavesMapping
  <2> QED BY <1>0, <1>4, <2>1, <2>2, MappingStore DEF Mapping!SavesMapping, Mapping!daemonVars, MappingTypes
<1>5. ASSUME NEW i \in Mapping!Ids, Mapping!CoreStop(i)
      PROVE  MappingTypes'
  BY <1>0, <1>5, MappingStore DEF Mapping!CoreStop, Mapping!StopSession, MappingTypes
<1>6. ASSUME NEW t \in Threads, NEW i \in Mapping!Ids, NEW f \in Files \cup {Mapping!NoFile}, Mapping!DeletesSession(t, i, f)
      PROVE  MappingTypes'
  <2>1. work' \in [Threads -> MapWorks]
    BY <1>0, <1>i, <1>r, <1>6, MappingStore DEF Mapping!DeletesSession
  <2>2. muddled' \in BOOLEAN
    BY <1>6, MappingStore DEF Mapping!DeletesSession
  <2> QED BY <1>0, <1>6, <2>1, <2>2, MappingStore DEF Mapping!DeletesSession, Mapping!DeleteBegins, MappingTypes
<1>7. ASSUME NEW t \in Threads, NEW f \in Files, Mapping!DeletesFile(t, f)
      PROVE  MappingTypes'
  <2>1. work' \in [Threads -> MapWorks]
    BY <1>0, <1>r, <1>7, MappingStore DEF Mapping!DeletesFile
  <2>2. muddled' \in BOOLEAN
    BY <1>7, MappingStore DEF Mapping!DeletesFile
  <2> QED BY <1>0, <1>7, <2>1, <2>2, MappingStore DEF Mapping!DeletesFile, Mapping!daemonVars, MappingTypes
<1>8. ASSUME NEW t \in Threads, Mapping!RemovesFile(t)
      PROVE  MappingTypes'
  <2>1. [work[t] EXCEPT !.op = "map"] \in MapWorks
    BY <1>0 DEF MapWorks
  <2>2. work' = [work EXCEPT ![t] = [work[t] EXCEPT !.op = "map"]]
    BY <1>8, MappingStore DEF Mapping!RemovesFile
  <2> QED BY <1>0, <1>8, <2>1, <2>2, MappingStore DEF Mapping!RemovesFile, Mapping!daemonVars, MappingTypes
<1>9. CASE Mapping!ServerDies
  <2>1. muddled' \in BOOLEAN /\ work' \in [Threads -> MapWorks]
    BY <1>9, <1>i, MappingStore DEF Mapping!ServerDies
  <2> QED BY <1>0, <1>9, <2>1, MappingStore DEF Mapping!ServerDies, Mapping!daemonVars, MappingTypes
<1>10. CASE Mapping!CoreDies
  BY <1>0, <1>10, MappingStore DEF Mapping!CoreDies, Mapping!DaemonDies, MappingTypes
<1>11. ASSUME NEW i \in Mapping!Ids, Mapping!CoreCloses(i)
       PROVE  MappingTypes'
  BY <1>0, <1>11, MappingStore DEF Mapping!CoreCloses, Mapping!DeleteEnds, Mapping!ownVars, MappingTypes
<1>12. CASE UNCHANGED Mapping!mappingVars
  BY <1>0, <1>12, MappingStore DEF Mapping!mappingVars, Mapping!ownVars, Mapping!daemonVars, MappingTypes
<1> QED BY <1>1, <1>2, <1>3, <1>4, <1>5, <1>6, <1>7, <1>8, <1>9, <1>10, <1>11, <1>12 DEF Mapping!MappingNext

\* A step that leaves the store: the work of a thread at most begins with a session given
\* to its file, or goes on without one.
LEMMA WorkKeeps ==
  ASSUME MapInv, MappingTypes', SInv(MapLists)', UNCHANGED storeVars, given \subseteq given',
         \A t \in Threads :
           \/ work'[t] = work[t]
           \/ /\ work[t].op # "save" /\ work'[t].op \in {"map", "remove"} /\ work'[t].file \in Files
              /\ \/ work'[t].id = 0
                 \/ work'[t].op = "map" /\ <<work'[t].file, work'[t].id>> \in given'
           \/ work[t].op # "save" /\ work'[t] = Mapping!Idle
  PROVE  MapInv'
<1>1. UNCHANGED <<main, tmp, fd, saving, copy, base, overlapped, spoilt, removed>>
  BY DEF storeVars, fileVars, histVars
<1>2. MapAtWork /\ AllGenuine /\ OwnEntryOnly
  BY DEF MapInv
<1>3. MapAtWork'
  <2> SUFFICES ASSUME NEW t \in Threads
               PROVE  /\ work'[t].op = "none" => work'[t] = Mapping!Idle
                      /\ work'[t].op # "none" => work'[t].file \in Files
                      /\ work'[t].op = "remove" => work'[t].id = 0
                      /\ work'[t].op = "save" <=> Saving(t)'
    BY Zenon DEF MapAtWork
  <2>1. /\ work[t].op = "none" => work[t] = Mapping!Idle
        /\ work[t].op # "none" => work[t].file \in Files
        /\ work[t].op = "remove" => work[t].id = 0
        /\ work[t].op = "save" <=> saving[t] # "no"
    BY <1>2 DEF MapAtWork, Saving
  <2>2. CASE work'[t] = work[t]
    BY <1>1, <2>1, <2>2 DEF Saving
  <2>3. CASE work[t].op # "save" /\ work'[t] = Mapping!Idle
    BY <1>1, <2>1, <2>3 DEF Saving, Mapping!Idle
  <2> QED BY <1>1, <2>1, <2>2, <2>3 DEF Saving
<1>4. AllGenuine'
  <2>1. \A list : GenuineList(list) => \A e \in list : <<e.file, e.id>> \in given'
    BY DEF GenuineList
  <2>2. \A t \in Threads : work'[t].id # 0 => <<work'[t].file, work'[t].id>> \in given'
    BY <1>2 DEF AllGenuine, Mapping!Idle
  <2> QED BY <1>1, <1>2, <2>1, <2>2 DEF AllGenuine, GenuineList, Parsed
<1>5. OwnEntryOnly'
  <2>1. \A t \in Threads : Saving(t) => work'[t] = work[t]
    BY <1>2 DEF MapAtWork
  <2> QED BY <1>1, <1>2, <2>1 DEF OwnEntryOnly, Saving
<1> QED BY <1>3, <1>4, <1>5 DEF MapInv

LEMMA MapsFileKeeps ==
  ASSUME MapInv, MappingTypes', SInv(MapLists)', NEW t \in Threads, Mapping!MapsFile(t)
  PROVE  MapInv'
<1> DEFINE f == work[t].file
           i == work[t].id
<1>0. MapAtWork /\ AllGenuine /\ OwnEntryOnly /\ work \in [Threads -> MapWorks]
  BY DEF MapInv, MappingTypes
<1>1. /\ work[t].op = "map" /\ saving[t] = "no" /\ saving' = [saving EXCEPT ![t] = "open"]
      /\ copy' = [copy EXCEPT ![t] = Mapping!Updated(f, i)] /\ base' = [base EXCEPT ![t] = Parsed(main)]
      /\ work' = [work EXCEPT ![t].op = "save"] /\ UNCHANGED <<main, tmp, given>>
  BY MappingStore DEF Mapping!MapsFile, Loads, Goes, fileVars
<1>2. /\ saving \in [Threads -> {"no", "open", "dump", "replace", "remove"}]
      /\ copy \in [Threads -> MapLists \cup {{}}] /\ base \in [Threads -> MapLists \cup {{}}]
  BY DEF MapInv, SInv, StoreOK
<1>3. /\ work'[t].op = "save" /\ work'[t].file = f /\ work'[t].id = i
      /\ saving'[t] = "open" /\ copy'[t] = Mapping!Updated(f, i) /\ base'[t] = Parsed(main)
  BY <1>0, <1>1, <1>2 DEF MapWorks
<1>4. \A u \in Threads \ {t} : /\ work'[u] = work[u] /\ saving'[u] = saving[u]
                                /\ copy'[u] = copy[u] /\ base'[u] = base[u]
  BY <1>0, <1>1, <1>2
<1>5. f \in Files
  BY <1>0, <1>1 DEF MapAtWork
<1> HIDE DEF f, i
<1>6. GenuineList(Mapping!Updated(f, i)) /\ \A e \in Mapping!Updated(f, i) : IF e.file = f THEN e.id = i ELSE e \in Parsed(main)
  <2>1. \A e \in Mapping!Updated(f, i) : \/ e.file # f /\ e \in Parsed(main)
                                         \/ i # 0 /\ e = Mapping!Entry(f, i) /\ e.file = f /\ e.id = i
    BY MappingStore DEF Mapping!Updated, Mapping!Entry
  <2>2. i # 0 => <<f, i>> \in given
    BY <1>0 DEF AllGenuine, f, i
  <2>3. GenuineList(Parsed(main))
    BY <1>0 DEF AllGenuine
  <2>4. \A e \in Mapping!Updated(f, i) : <<e.file, e.id>> \in given
    BY <2>1, <2>2, <2>3 DEF GenuineList
  <2>5. \A d, e \in Mapping!Updated(f, i) : d.file = e.file => d = e
    BY <2>1, <2>3 DEF GenuineList
  <2> QED BY <2>1, <2>4, <2>5 DEF GenuineList
<1>7. MapAtWork'
  BY <1>0, <1>3, <1>4, <1>5 DEF MapAtWork, Saving
<1>8. AllGenuine'
  <2>1. \A list : GenuineList(list)' <=> GenuineList(list)
    BY <1>1 DEF GenuineList
  <2>2. \A u \in Threads : GenuineList(copy'[u])
    BY <1>0, <1>3, <1>4, <1>6 DEF AllGenuine
  <2>3. \A u \in Threads : work'[u].id # 0 => <<work'[u].file, work'[u].id>> \in given'
    BY <1>0, <1>1, <1>3, <1>4 DEF AllGenuine, f, i
  <2>4. GenuineList(Parsed(main))' /\ GenuineList(Parsed(tmp))'
    BY <1>0, <1>1 DEF AllGenuine, Parsed, GenuineList
  <2> QED BY <1>1, <2>2, <2>3, <2>4 DEF AllGenuine, GenuineList
<1>9. OwnEntryOnly'
  BY <1>0, <1>3, <1>4, <1>6 DEF OwnEntryOnly, Saving
<1> QED BY <1>7, <1>8, <1>9 DEF MapInv

LEMMA SavesMappingKeeps ==
  ASSUME MapInv, MappingTypes', SInv(MapLists)', NEW t \in Threads, Mapping!SavesMapping(t)
  PROVE  MapInv'
<1>0. MapAtWork /\ AllGenuine /\ OwnEntryOnly /\ work \in [Threads -> MapWorks] /\ StoreOK(MapLists)
  BY DEF MapInv, MappingTypes, SInv
<1>1. /\ work[t].op = "save" /\ SaveStep(t) /\ given' = given
      /\ work' = IF saving'[t] = "no" THEN [work EXCEPT ![t] = Mapping!Idle] ELSE work
  BY MappingStore DEF Mapping!SavesMapping
<1>2. /\ main' \in {main, tmp, Json(copy[t]), Torn}
      /\ tmp' \in {tmp, Json(copy[t]), Torn, Blank, Absent}
      /\ \A u \in Threads \ {t} : saving'[u] = saving[u] /\ copy'[u] = copy[u] /\ base'[u] = base[u]
      /\ Saving(t)' => copy'[t] = copy[t] /\ base'[t] = base[t]
  <2>1. main \in {Blank, Torn} => spoilt
    BY DEF MapInv, SInv
  <2> QED BY <1>0, <1>1, <2>1, SaveStepEffect, SaveStepBase
<1>3. ~Saving(t)' => copy'[t] = {}
  BY DEF SInv, ThreadTrue
<1>4. \A u \in Threads : work'[u] = IF u = t /\ ~Saving(t)' THEN Mapping!Idle ELSE work[u]
  BY <1>0, <1>1 DEF Saving
<1>5. MapAtWork'
  <2>1. \A u \in Threads \ {t} : Saving(u)' <=> Saving(u)
    BY <1>2 DEF Saving
  <2> QED BY <1>0, <1>1, <1>4, <2>1 DEF MapAtWork, Mapping!Idle
<1>6. AllGenuine'
  <2>1. GenuineList({}) /\ GenuineList(copy[t]) /\ GenuineList(Parsed(main)) /\ GenuineList(Parsed(tmp))
    BY <1>0 DEF AllGenuine, GenuineList
  <2>2. Parsed(Json(copy[t])) = copy[t] /\ Parsed(Torn) = {} /\ Parsed(Blank) = {} /\ Parsed(Absent) = {}
    BY DEF Parsed, Json, Torn, Blank, Absent
  <2>3. GenuineList(Parsed(main)') /\ GenuineList(Parsed(tmp)')
    <3>1. Parsed(main)' \in {Parsed(main), Parsed(tmp), copy[t], {}}
      BY <1>2, <2>2 DEF Parsed
    <3>2. Parsed(tmp)' \in {Parsed(tmp), copy[t], {}}
      BY <1>2, <2>2 DEF Parsed
    <3> QED BY <2>1, <3>1, <3>2
  <2>4. \A u \in Threads : GenuineList(copy'[u])
    BY <1>0, <1>2, <1>3, <2>1 DEF AllGenuine
  <2>5. \A u \in Threads : work'[u].id # 0 => <<work'[u].file, work'[u].id>> \in given
    BY <1>0, <1>4 DEF AllGenuine, Mapping!Idle
  <2> QED BY <1>1, <2>3, <2>4, <2>5 DEF AllGenuine, GenuineList
<1>7. OwnEntryOnly'
  <2>1. \A u \in Threads : Saving(u)' => /\ Saving(u) /\ copy'[u] = copy[u] /\ base'[u] = base[u]
                                         /\ work'[u] = work[u]
    BY <1>0, <1>1, <1>2, <1>4 DEF MapAtWork, Saving
  <2> QED BY <1>0, <2>1 DEF OwnEntryOnly
<1> QED BY <1>5, <1>6, <1>7 DEF MapInv

LEMMA ServerDiesKeeps ==
  ASSUME MapInv, MappingTypes', SInv(MapLists)', Mapping!ServerDies
  PROVE  MapInv'
<1>1. /\ UNCHANGED <<main, tmp, given>> /\ copy' = [t \in Threads |-> {}]
      /\ saving' = [t \in Threads |-> "no"] /\ work' = [t \in Threads |-> Mapping!Idle]
  BY MappingStore DEF Mapping!ServerDies, StoreCrash, CloseAll
<1>2. MapAtWork' /\ OwnEntryOnly'
  BY <1>1 DEF MapAtWork, OwnEntryOnly, Saving, Mapping!Idle
<1>3. AllGenuine'
  BY <1>1 DEF MapInv, AllGenuine, GenuineList, Parsed, Mapping!Idle
<1> QED BY <1>2, <1>3 DEF MapInv

\* Whatever threads and sessions do, entries are genuine and threads keep to their own.
LEMMA MapInvKept == MapInv /\ [Mapping!MappingNext]_(Mapping!mappingVars) => MapInv'
<1> SUFFICES ASSUME MapInv, [Mapping!MappingNext]_(Mapping!mappingVars) PROVE MapInv'
  OBVIOUS
<1>0. work \in [Threads -> MapWorks] /\ MapAtWork /\ AllGenuine
  BY DEF MapInv, MappingTypes
<1>t. MappingTypes'
  BY MappingNextTypes
<1>s. SInv(MapLists)'
  <2>1. SInv(MapLists)
    BY DEF MapInv
  <2> QED BY <2>1, NextIsStoreNext, StoreNextKeeps DEF MapLists
<1>1. ASSUME NEW t \in Threads, Mapping!MapsFile(t) \/ Mapping!SavesMapping(t)
      PROVE  MapInv'
  BY <1>1, <1>t, <1>s, MapsFileKeeps, SavesMappingKeeps
<1>2. CASE Mapping!ServerDies
  BY <1>2, <1>t, <1>s, ServerDiesKeeps
<1>3. ASSUME NEW i \in Mapping!Ids, Mapping!OtherSession(i) \/ Mapping!CoreStop(i) \/ Mapping!CoreCloses(i)
      PROVE  MapInv'
  <2>1. UNCHANGED <<storeVars, work, given>>
    BY <1>3, MappingStore DEF Mapping!OtherSession, Mapping!CoreStop, Mapping!CoreCloses, Mapping!ownVars
  <2> QED BY <1>t, <1>s, <2>1, WorkKeeps
<1>4. CASE Mapping!CoreDies \/ UNCHANGED Mapping!mappingVars
  <2>1. UNCHANGED <<storeVars, work, given>>
    BY <1>4, MappingStore DEF Mapping!CoreDies, Mapping!mappingVars, Mapping!ownVars
  <2> QED BY <1>t, <1>s, <2>1, WorkKeeps
<1>5. ASSUME NEW t \in Threads, NEW f \in Files, Mapping!CoreStart(t, f)
      PROVE  MapInv'
  <2>1. PICK i \in Mapping!Ids : work' = [work EXCEPT ![t] = [op |-> "map", file |-> f, id |-> i]]
                         /\ given' = given \cup {<<f, i>>}
    BY <1>5, MappingStore DEF Mapping!CoreStart
  <2>2. work[t] = Mapping!Idle /\ UNCHANGED storeVars
    BY <1>5, MappingStore DEF Mapping!CoreStart
  <2>3. \A u \in Threads : work'[u] = IF u = t THEN [op |-> "map", file |-> f, id |-> i] ELSE work[u]
    BY <1>0, <2>1
  <2>4. work[t].op # "save"
    BY <2>2 DEF Mapping!Idle
  <2>5. <<work'[t].file, work'[t].id>> \in given' /\ work'[t].op = "map" /\ work'[t].file \in Files
    BY <2>1, <2>3
  <2> QED BY <1>t, <1>s, <2>1, <2>2, <2>3, <2>4, <2>5, WorkKeeps
<1>6. ASSUME NEW t \in Threads, NEW f \in Files \cup {Mapping!NoFile}, NEW i \in Mapping!Ids, Mapping!DeletesSession(t, i, f)
      PROVE  MapInv'
  <2>1. UNCHANGED <<storeVars, given>> /\ work[t].op # "save"
    BY <1>6, MappingStore DEF Mapping!DeletesSession, Mapping!Idle
  <2>2. \A u \in Threads : work'[u] = IF u # t THEN work[u] ELSE
          IF f = Mapping!NoFile THEN Mapping!Idle ELSE [op |-> "remove", file |-> f, id |-> 0]
    BY <1>0, <1>6, MappingStore DEF Mapping!DeletesSession
  <2> QED BY <1>t, <1>s, <2>1, <2>2, WorkKeeps
<1>7. ASSUME NEW t \in Threads, NEW f \in Files, Mapping!DeletesFile(t, f)
      PROVE  MapInv'
  <2>1. UNCHANGED <<storeVars, given>> /\ work[t].op # "save"
    BY <1>7, MappingStore DEF Mapping!DeletesFile, Mapping!Idle
  <2>2. work' = [work EXCEPT ![t] = [op |-> "remove", file |-> f, id |-> 0]]
    BY <1>7, MappingStore DEF Mapping!DeletesFile
  <2>3. \A u \in Threads : work'[u] = IF u = t THEN [op |-> "remove", file |-> f, id |-> 0] ELSE work[u]
    BY <1>0, <2>2
  <2> QED BY <1>t, <1>s, <2>1, <2>3, WorkKeeps
<1>8. ASSUME NEW t \in Threads, Mapping!RemovesFile(t)
      PROVE  MapInv'
  <2>1. UNCHANGED <<storeVars, given>> /\ work[t].op = "remove" /\ work' = [work EXCEPT ![t].op = "map"]
    BY <1>8, MappingStore DEF Mapping!RemovesFile
  <2>2. work'[t].op = "map" /\ work'[t].file \in Files /\ work'[t].id = 0
    BY <1>0, <2>1 DEF MapAtWork, MapWorks
  <2>3. \A u \in Threads \ {t} : work'[u] = work[u]
    BY <1>0, <2>1
  <2> QED BY <1>t, <1>s, <2>1, <2>2, <2>3, WorkKeeps
<1> QED BY <1>1, <1>2, <1>3, <1>4, <1>5, <1>6, <1>7, <1>8 DEF Mapping!MappingNext

LEMMA InitMapInv == Mapping!MappingInit => MapInv
<1> SUFFICES ASSUME Mapping!MappingInit PROVE MapInv
  OBVIOUS
<1>1. SInv(MapLists)
  BY InitSInv, MappingStore DEF Mapping!MappingInit
<1>2. MappingTypes
  BY MappingStore DEF Mapping!MappingInit, Mapping!DaemonInit, MappingTypes, Mapping!Idle, MapWorks
<1>3. MapAtWork /\ AllGenuine /\ OwnEntryOnly
  BY MappingStore DEF Mapping!MappingInit, StoreInit, FileInit, MapAtWork, AllGenuine, OwnEntryOnly, GenuineList, Saving,
         Parsed, Absent, Mapping!Idle
<1> QED BY <1>1, <1>2, <1>3 DEF MapInv

------------------------------------------------------------------------------
(* What is current: each action by itself, with the file names apart from     *)
(* the absence of one.                                                        *)

CurrInv == MapInv /\ CurrentInv

\* A session that comes takes an id that is not known: nothing at hand or stored names it.
LEMMA SessionComes ==
  ASSUME CurrInv, NEW i \in Mapping!Ids, Mapping!LowestFree(i), Mapping!CreateSession(i), NEW f, opened' = [opened EXCEPT ![i] = f],
         UNCHANGED <<xmls, parted>>
  PROVE  \A g, j : OpenedAs(g, j) => OpenedAs(g, j)'
<1>1. /\ session \in [Mapping!Ids -> {"absent", "live", "stopped"}] /\ opened \in [Mapping!Ids -> Files \cup {Mapping!NoFile}]
      /\ i \notin Mapping!Known /\ session' = [session EXCEPT ![i] = "live"]
  BY DEF CurrInv, MapInv, MappingTypes, Mapping!LowestFree, Mapping!CreateSession
<1>2. \A j \in Mapping!Known : j # i /\ j \in Mapping!Known' /\ opened'[j] = opened[j]
  BY <1>1 DEF Mapping!Known
<1> QED BY <1>2 DEF OpenedAs

\* One that goes without its file parts it; the file g that is deleted with it excepted.
LEMMA SessionGoes ==
  ASSUME CurrInv, NEW i \in Mapping!Ids, Mapping!DeleteBegins(i), NEW g, Mapping!Parts(i, g), UNCHANGED <<xmls, opened>>
  PROVE  \A f \in Files : \A j : f \notin {g, Mapping!NoFile} /\ OpenedAs(f, j) => OpenedAs(f, j)'
<1>1. session \in [Mapping!Ids -> {"absent", "live", "stopped"}] /\ session' = [session EXCEPT ![i] = "absent"]
  BY DEF CurrInv, MapInv, MappingTypes, Mapping!DeleteBegins
<1>2. Mapping!Known \ {i} \subseteq Mapping!Known'
  BY <1>1 DEF Mapping!Known
<1> QED BY <1>2 DEF Mapping!Parts, OpenedAs

LEMMA AllSessionsGo ==
  ASSUME CurrInv, Mapping!CoreDies, Mapping!NoFile \notin Files
  PROVE  \A f \in Files : \A j : OpenedAs(f, j) => OpenedAs(f, j)'
BY MappingStore DEF Mapping!CoreDies, OpenedAs

\* Steps that leave the store and what the threads have at hand.
LEMMA RestKeeps ==
  ASSUME CurrInv, MapInv', UNCHANGED <<storeVars, work, muddled>>,
         \A f \in Files : \A j : OpenedAs(f, j) => OpenedAs(f, j)'
  PROVE  CurrentInv'
<1>1. UNCHANGED <<main, overlapped>>
  BY DEF storeVars, fileVars, histVars
<1>2. \A t \in Threads : work[t].id # 0 => work[t].file \in Files
  BY DEF CurrInv, MapInv, MapAtWork, Mapping!Idle
<1>3. \A e \in Parsed(main) : e.file \in Files
  <2>1. Parsed(main) \in MapLists
    BY ListsRead DEF CurrInv, MapInv, SInv
  <2> QED BY <2>1 DEF MapLists, MapEntries
<1>4. OneEach' /\ WorkCurrent'
  BY <1>2 DEF CurrInv, CurrentInv, OneEach, WorkCurrent
<1>5. EntriesCurrent'
  BY <1>1, <1>3 DEF CurrInv, CurrentInv, EntriesCurrent, Mapping!Busy, Parsed
<1> QED BY <1>4, <1>5 DEF CurrentInv

\* A thread takes up a file that no other is at, or rests after a session.
LEMMA TakesUp ==
  ASSUME CurrInv, MapInv', Mapping!NoFile \notin Files, NEW t \in Threads, work[t] = Mapping!Idle,
         UNCHANGED storeVars,
         \A u \in Threads \ {t} : work'[u] = work[u],
         muddled' = (muddled \/ Mapping!Busy(work'[t].file)),
         work'[t].id # 0 => OpenedAs(work[t].file, work[t].id)',
         \A f \in Files \ {work'[t].file} : \A j : OpenedAs(f, j) => OpenedAs(f, j)'
  PROVE  CurrentInv'
<1>1. UNCHANGED <<main, overlapped>>
  BY DEF storeVars, fileVars, histVars
<1>2. \A u \in Threads : work[u].id # 0 => work[u].file \in Files
  BY DEF CurrInv, MapInv, MapAtWork, Mapping!Idle
<1>3. \A e \in Parsed(main) : e.file \in Files
  <2>1. Parsed(main) \in MapLists
    BY ListsRead DEF CurrInv, MapInv, SInv
  <2> QED BY <2>1 DEF MapLists, MapEntries
<1>4. ~muddled' => ~muddled /\ \A u \in Threads : work[u].file = work'[t].file => work'[t].file = Mapping!NoFile
  BY DEF Mapping!Busy
<1>5. OneEach'
  BY <1>4 DEF CurrInv, CurrentInv, OneEach
<1>6. WorkCurrent'
  <2> SUFFICES ASSUME ~muddled', NEW u \in Threads, work'[u].id # 0
               PROVE  OpenedAs(work[u].file, work[u].id)'
    BY DEF WorkCurrent
  <2>1. CASE u # t
    <3>1. OpenedAs(work[u].file, work[u].id) /\ work'[u] = work[u]
      BY <1>4, <2>1 DEF CurrInv, CurrentInv, WorkCurrent
    <3>2. work[u].file \in Files \ {work'[t].file}
      BY <1>2, <1>4, <3>1
    <3> QED BY <3>1, <3>2 DEF OpenedAs
  <2> QED BY <2>1
<1>7. EntriesCurrent'
  <2>1. \A f \in Files : ~Mapping!Busy(f)' => ~Mapping!Busy(f) /\ f # work'[t].file
    BY DEF Mapping!Busy, Mapping!Idle
  <2> QED BY <1>1, <1>3, <1>4, <2>1 DEF CurrInv, CurrentInv, EntriesCurrent, Parsed
<1> QED BY <1>5, <1>6, <1>7 DEF CurrentInv

LEMMA CoreStartCurrent ==
  ASSUME CurrInv, MapInv', Mapping!NoFile \notin Files, NEW t \in Threads, NEW f \in Files, Mapping!CoreStart(t, f)
  PROVE  CurrentInv'
<1>1. PICK i \in Mapping!Ids : /\ Mapping!LowestFree(i) /\ Mapping!CreateSession(i)
                               /\ work' = [work EXCEPT ![t] = [op |-> "map", file |-> f, id |-> i]]
                               /\ opened' = [opened EXCEPT ![i] = f]
  BY MappingStore DEF Mapping!CoreStart
<1>2. /\ work[t] = Mapping!Idle /\ f \in xmls /\ UNCHANGED <<xmls, parted, storeVars>>
      /\ muddled' = (muddled \/ Mapping!Busy(f))
  BY MappingStore DEF Mapping!CoreStart
<1>3. /\ work \in [Threads -> MapWorks] /\ opened \in [Mapping!Ids -> Files \cup {Mapping!NoFile}]
      /\ session \in [Mapping!Ids -> {"absent", "live", "stopped"}]
  BY DEF CurrInv, MapInv, MappingTypes
<1>4. /\ work'[t].file = f /\ work'[t].id = i
      /\ \A u \in Threads \ {t} : work'[u] = work[u]
  BY <1>1, <1>3
<1>5. OpenedAs(f, i)'
  BY <1>1, <1>2, <1>3 DEF OpenedAs, Mapping!Known, Mapping!CreateSession
<1>6. \A g, j : OpenedAs(g, j) => OpenedAs(g, j)'
  BY <1>1, <1>2, SessionComes
<1> QED BY <1>2, <1>4, <1>5, <1>6, TakesUp DEF OpenedAs

LEMMA DeletesCurrent ==
  ASSUME CurrInv, MapInv', Mapping!NoFile \notin Files, NEW t \in Threads, NEW i \in Mapping!Ids, NEW f \in Files \cup {Mapping!NoFile},
         Mapping!DeletesSession(t, i, f) \/ Mapping!DeletesFile(t, f)
  PROVE  CurrentInv'
<1>1. /\ work[t] = Mapping!Idle /\ UNCHANGED <<xmls, opened, storeVars>>
      /\ muddled' = (muddled \/ Mapping!Busy(f))
  BY MappingStore DEF Mapping!DeletesSession, Mapping!DeletesFile
<1>2. work \in [Threads -> MapWorks]
  BY DEF CurrInv, MapInv, MappingTypes
<1>3. /\ work'[t].file = f /\ work'[t].id = 0
      /\ \A u \in Threads \ {t} : work'[u] = work[u]
  BY <1>2, MappingStore DEF Mapping!DeletesSession, Mapping!DeletesFile, Mapping!Idle
<1>4. \A g \in Files : \A j : g \notin {f, Mapping!NoFile} /\ OpenedAs(g, j) => OpenedAs(g, j)'
  <2>1. CASE Mapping!DeletesSession(t, i, f)
    <3>1. Mapping!DeleteBegins(i) /\ Mapping!Parts(i, f)
      BY <2>1, MappingStore DEF Mapping!DeletesSession
    <3> QED BY <1>1, <3>1, SessionGoes
  <2>2. CASE Mapping!DeletesFile(t, f)
    BY <2>2, MappingStore DEF Mapping!DeletesFile, Mapping!daemonVars, OpenedAs, Mapping!Known
  <2> QED BY <2>1, <2>2
<1> QED BY <1>1, <1>3, <1>4, TakesUp

\* The file removed is in this thread's hands alone, and stays there.
LEMMA RemovesFileCurrent ==
  ASSUME CurrInv, MapInv', Mapping!NoFile \notin Files, NEW t \in Threads, Mapping!RemovesFile(t)
  PROVE  CurrentInv'
<1> DEFINE g == work[t].file
<1>0. MapAtWork /\ work \in [Threads -> MapWorks]
  BY DEF CurrInv, MapInv, MappingTypes
<1>1. /\ work[t].op = "remove" /\ work' = [work EXCEPT ![t].op = "map"] /\ xmls' = xmls \ {g}
      /\ UNCHANGED <<session, opened, parted, muddled, main, overlapped>>
  BY MappingStore DEF Mapping!RemovesFile, storeVars, fileVars, histVars, Mapping!daemonVars
<1>2. g \in Files /\ work[t].id = 0
  BY <1>0, <1>1 DEF MapAtWork
<1>3. \A u \in Threads : work'[u].file = work[u].file /\ work'[u].id = work[u].id
  BY <1>0, <1>1 DEF MapWorks
<1>4. \A f, j : f # g /\ OpenedAs(f, j) => OpenedAs(f, j)'
  BY <1>1 DEF OpenedAs, Mapping!Known
<1>5. OneEach'
  BY <1>1, <1>3 DEF CurrInv, CurrentInv, OneEach
<1>6. WorkCurrent'
  <2> SUFFICES ASSUME ~muddled, NEW u \in Threads, work[u].id # 0
               PROVE  OpenedAs(work[u].file, work[u].id)'
    BY <1>1, <1>3 DEF WorkCurrent
  <2>1. work[u].file # g
    BY <1>2 DEF CurrInv, CurrentInv, OneEach
  <2>2. OpenedAs(work[u].file, work[u].id)
    BY DEF CurrInv, CurrentInv, WorkCurrent
  <2>3. xmls' = xmls \ {g} /\ UNCHANGED <<session, opened, parted>>
    BY <1>1
  <2> QED BY <1>3, <2>1, <2>2, <2>3 DEF OpenedAs, Mapping!Known
<1>7. EntriesCurrent'
  <2>1. \A f : Mapping!Busy(f)' <=> Mapping!Busy(f)
    BY <1>3 DEF Mapping!Busy
  <2>2. Mapping!Busy(g)
    BY <1>2 DEF Mapping!Busy
  <2> QED BY <1>1, <1>4, <2>1, <2>2 DEF CurrInv, CurrentInv, EntriesCurrent, Parsed
<1> QED BY <1>5, <1>6, <1>7 DEF CurrentInv

LEMMA MapsFileCurrent ==
  ASSUME CurrInv, MapInv', NEW t \in Threads, Mapping!MapsFile(t)
  PROVE  CurrentInv'
<1>0. work \in [Threads -> MapWorks]
  BY DEF CurrInv, MapInv, MappingTypes
<1>1. /\ UNCHANGED <<session, opened, parted, muddled, main, xmls>> /\ overlapped \subseteq overlapped'
      /\ work' = [work EXCEPT ![t].op = "save"]
  BY MappingStore DEF Mapping!MapsFile, Loads, fileVars, Mapping!daemonVars
<1>2. \A u \in Threads : work'[u].file = work[u].file /\ work'[u].id = work[u].id
  BY <1>0, <1>1 DEF MapWorks
<1>3. \A f, j : OpenedAs(f, j)' <=> OpenedAs(f, j)
  BY <1>1 DEF OpenedAs, Mapping!Known
<1>4. OneEach' /\ WorkCurrent'
  BY <1>1, <1>2, <1>3 DEF CurrInv, CurrentInv, OneEach, WorkCurrent
<1>5. EntriesCurrent'
  BY <1>1, <1>2, <1>3 DEF CurrInv, CurrentInv, EntriesCurrent, Parsed, Mapping!Busy
<1> QED BY <1>4, <1>5 DEF CurrentInv

\* A save that nothing overlaps puts the thread's copy in place at one go: the entry of its
\* own file is current because its work is, the others because they were.
LEMMA SavesMappingCurrent ==
  ASSUME CurrInv, MapInv', Mapping!NoFile \notin Files, NEW t \in Threads, Mapping!SavesMapping(t)
  PROVE  CurrentInv'
<1>0. /\ MapAtWork /\ OwnEntryOnly /\ SInv(MapLists) /\ work \in [Threads -> MapWorks]
      /\ saving \in [Threads -> {"no", "open", "dump", "replace", "remove"}]
  BY DEF CurrInv, MapInv, MappingTypes, SInv, StoreOK
<1>1. /\ work[t].op = "save" /\ SaveStep(t) /\ muddled' = (muddled \/ overlapped # {})
      /\ work' = IF saving'[t] = "no" THEN [work EXCEPT ![t] = Mapping!Idle] ELSE work
      /\ UNCHANGED <<session, opened, parted, xmls>>
  BY MappingStore DEF Mapping!SavesMapping, Mapping!daemonVars
<1>2. \A u \in Threads : \/ work'[u] = work[u]
                         \/ u = t /\ work'[u] = Mapping!Idle /\ saving'[t] = "no"
  BY <1>0, <1>1
<1>3. \A f, j : OpenedAs(f, j)' <=> OpenedAs(f, j)
  BY <1>1 DEF OpenedAs, Mapping!Known
<1>4. OneEach' /\ WorkCurrent'
  <2>1. OneEach /\ WorkCurrent /\ (~muddled' => ~muddled)
    BY <1>1 DEF CurrInv, CurrentInv
  <2>2. Mapping!Idle.file = Mapping!NoFile /\ Mapping!Idle.id = 0
    BY DEF Mapping!Idle
  <2>3. OneEach'
    BY <1>2, <2>1, <2>2 DEF OneEach
  <2>4. WorkCurrent'
    BY <1>1, <1>2, <2>1, <2>2 DEF WorkCurrent, OpenedAs, Mapping!Known
  <2> QED BY <2>3, <2>4
<1>5. EntriesCurrent'
  <2> SUFFICES ASSUME ~muddled, overlapped = {}, NEW e \in Parsed(main)', ~Mapping!Busy(e.file)'
               PROVE  OpenedAs(e.file, e.id)
    BY <1>1, <1>3 DEF EntriesCurrent
  <2>1. Saving(t) /\ Alone(t) /\ ThreadTrue(t)
    BY <1>0, <1>1 DEF MapAtWork, Alone, SInv
  <2>2. saving[t] # "remove" /\ (saving[t] = "dump" => fd[t] = "tmp")
    BY <2>1 DEF ThreadTrue
  <2>3. base[t] = Parsed(main) /\ (saving[t] = "replace" => tmp = Json(copy[t]))
    BY <1>0, <2>1 DEF SInv, AloneIsAtomic
  <2>4. WorkCurrent /\ EntriesCurrent
    BY DEF CurrInv, CurrentInv
  <2>5. ~ReplaceRaises(t) /\ ~Removes(t)
    BY <2>2, <2>3 DEF ReplaceRaises, Removes, Goes, Json, Absent
  <2>6. CASE Opens(t) \/ Dumps(t)
    <3>1. main' = main
      BY <2>2, <2>6 DEF Opens, Dumps, Goes, OpenTmp, DumpAndClose
    <3>2. saving'[t] # "no"
      BY <1>0, <2>6 DEF Opens, Dumps, Goes
    <3> QED BY <1>1, <2>4, <3>1, <3>2 DEF EntriesCurrent, Parsed, Mapping!Busy
  <2>7. CASE Replaces(t)
    <3>1. saving[t] = "replace" /\ saving'[t] = "no" /\ main' = tmp
      BY <1>0, <2>7 DEF Replaces, Goes, Replace
    <3>2. e \in copy[t]
      BY <2>3, <3>1 DEF Parsed, Json
    <3>3. IF e.file = work[t].file THEN e.id = work[t].id ELSE e \in Parsed(main)
      BY <1>0, <2>1, <2>3, <3>2 DEF OwnEntryOnly
    <3>4. e.id # 0
      <4>1. Parsed(main)' \in MapLists
        BY ListsRead DEF MapInv, SInv, StoreOK, FileOK, Parsed, MapLists, Absent, Blank, Torn
      <4> QED BY <4>1 DEF MapLists, MapEntries, Mapping!Ids
    <3>5. CASE e.file = work[t].file
      BY <2>4, <3>3, <3>4, <3>5 DEF WorkCurrent
    <3>6. CASE e.file # work[t].file
      <4>1. ~Mapping!Busy(e.file)
        BY <1>2, <3>6 DEF Mapping!Busy
      <4> QED BY <2>4, <3>3, <3>6, <4>1 DEF EntriesCurrent
    <3> QED BY <3>5, <3>6
  <2> QED BY <1>1, <2>5, <2>6, <2>7 DEF SaveStep
<1> QED BY <1>4, <1>5 DEF CurrentInv

\* A crash that cuts nobody short changes nothing; the others muddle.
LEMMA ServerDiesCurrent ==
  ASSUME CurrInv, Mapping!ServerDies
  PROVE  CurrentInv'
<1>1. /\ UNCHANGED <<session, opened, parted, xmls, main>>
      /\ work' = [t \in Threads |-> Mapping!Idle]
      /\ muddled' = (muddled \/ \E t \in Threads : work[t] # Mapping!Idle)
  BY MappingStore DEF Mapping!ServerDies, StoreCrash, CloseAll, Mapping!daemonVars
<1>2. OneEach' /\ WorkCurrent'
  BY <1>1 DEF OneEach, WorkCurrent, Mapping!Idle
<1>3. EntriesCurrent'
  <2> SUFFICES ASSUME ~muddled, \A t \in Threads : work[t] = Mapping!Idle
               PROVE  EntriesCurrent'
    BY <1>1 DEF EntriesCurrent
  <2>1. overlapped = {}
    <3>1. \A t \in Threads : ~Saving(t)
      <4>1. MapAtWork
        BY DEF CurrInv, MapInv
      <4>2. Mapping!Idle.op # "save"
        BY DEF Mapping!Idle
      <4> QED BY <4>1, <4>2 DEF MapAtWork
    <3> QED BY <3>1 DEF CurrInv, MapInv, SInv, ThreadTrue, StoreOK
  <2>2. \A f : ~Mapping!Busy(f)
    BY DEF Mapping!Busy, Mapping!Idle
  <2> QED BY <1>1, <2>1, <2>2 DEF CurrInv, CurrentInv, EntriesCurrent, OpenedAs, Mapping!Known, Parsed
<1> QED BY <1>2, <1>3 DEF CurrentInv

LEMMA MappingKept == Mapping!NoFile \notin Files /\ CurrInv /\ [Mapping!MappingNext]_(Mapping!mappingVars) => CurrInv'
<1> SUFFICES ASSUME Mapping!NoFile \notin Files, CurrInv, [Mapping!MappingNext]_(Mapping!mappingVars) PROVE CurrInv'
  OBVIOUS
<1>0. MapInv'
  BY MapInvKept DEF CurrInv
<1>1. ASSUME NEW t \in Threads, NEW f \in Files, Mapping!CoreStart(t, f) \/ Mapping!DeletesFile(t, f)
      PROVE  CurrentInv'
  <2>1. CASE Mapping!DeletesFile(t, f)
    <3>1. /\ work[t] = Mapping!Idle /\ work' = [work EXCEPT ![t] = [op |-> "remove", file |-> f, id |-> 0]]
          /\ muddled' = (muddled \/ Mapping!Busy(f)) /\ UNCHANGED <<storeVars, session, opened, parted, xmls>>
      BY <2>1, MappingStore DEF Mapping!DeletesFile, Mapping!daemonVars
    <3>2. work \in [Threads -> MapWorks]
      BY DEF CurrInv, MapInv, MappingTypes
    <3>3. /\ work'[t].file = f /\ work'[t].id = 0
          /\ \A u \in Threads \ {t} : work'[u] = work[u]
      BY <3>1, <3>2
    <3>4. \A g, j : OpenedAs(g, j) => OpenedAs(g, j)'
      BY <3>1 DEF OpenedAs, Mapping!Known
    <3> QED BY <1>0, <3>1, <3>3, <3>4, TakesUp
  <2> QED BY <1>0, <1>1, <2>1, CoreStartCurrent
<1>2. ASSUME NEW t \in Threads, NEW i \in Mapping!Ids, NEW f \in Files \cup {Mapping!NoFile}, Mapping!DeletesSession(t, i, f)
      PROVE  CurrentInv'
  BY <1>0, <1>2, DeletesCurrent
<1>3. ASSUME NEW t \in Threads, Mapping!MapsFile(t) \/ Mapping!SavesMapping(t) \/ Mapping!RemovesFile(t)
      PROVE  CurrentInv'
  BY <1>0, <1>3, MapsFileCurrent, SavesMappingCurrent, RemovesFileCurrent
<1>4. ASSUME NEW i \in Mapping!Ids, Mapping!OtherSession(i) \/ Mapping!CoreStop(i) \/ Mapping!CoreCloses(i)
      PROVE  CurrentInv'
  <2>1. UNCHANGED <<storeVars, work, muddled, xmls, parted>>
    BY <1>4, MappingStore DEF Mapping!OtherSession, Mapping!CoreStop, Mapping!CoreCloses, Mapping!ownVars
  <2>2. \A f, j : OpenedAs(f, j) => OpenedAs(f, j)'
    <3>1. CASE Mapping!OtherSession(i)
      BY <2>1, <3>1, SessionComes, MappingStore DEF Mapping!OtherSession
    <3>2. CASE Mapping!CoreStop(i) \/ Mapping!CoreCloses(i)
      <4>1. session \in [Mapping!Ids -> {"absent", "live", "stopped"}]
        BY DEF CurrInv, MapInv, MappingTypes
      <4>2. Mapping!Known' = Mapping!Known /\ opened' = opened
        BY <3>2, <4>1, MappingStore DEF Mapping!CoreStop, Mapping!StopSession, Mapping!CoreCloses, Mapping!DeleteEnds, Mapping!ownVars, Mapping!Known
      <4> QED BY <2>1, <4>2 DEF OpenedAs
    <3> QED BY <1>4, <3>1, <3>2
  <2> QED BY <1>0, <2>1, <2>2, RestKeeps
<1>5. CASE Mapping!ServerDies
  BY <1>0, <1>5, ServerDiesCurrent DEF CurrInv
<1>6. CASE Mapping!CoreDies
  <2>1. UNCHANGED <<storeVars, work, muddled>>
    BY <1>6, MappingStore DEF Mapping!CoreDies
  <2> QED BY <1>0, <1>6, <2>1, AllSessionsGo, RestKeeps DEF CurrInv
<1>7. CASE UNCHANGED Mapping!mappingVars
  <2>1. UNCHANGED <<storeVars, work, muddled, session, opened, xmls, parted>>
    BY <1>7, MappingStore DEF Mapping!mappingVars, Mapping!ownVars, Mapping!daemonVars
  <2>2. \A f, j : OpenedAs(f, j) => OpenedAs(f, j)'
    BY <2>1 DEF OpenedAs, Mapping!Known
  <2> QED BY <1>0, <2>1, <2>2, RestKeeps DEF CurrInv
<1>8. CurrentInv'
  BY <1>1, <1>2, <1>3, <1>4, <1>5, <1>6, <1>7 DEF Mapping!MappingNext, CurrInv
<1> QED BY <1>0, <1>8 DEF CurrInv

LEMMA MappingBegins == Mapping!MappingInit => CurrInv
<1> SUFFICES ASSUME Mapping!MappingInit PROVE CurrInv
  OBVIOUS
<1>1. MapInv
  BY InitMapInv
<1>2. CurrentInv
  BY MappingStore DEF Mapping!MappingInit, StoreInit, FileInit, CurrentInv, OneEach, WorkCurrent, EntriesCurrent,
         Parsed, Absent, Mapping!Idle
<1> QED BY <1>1, <1>2 DEF CurrInv

------------------------------------------------------------------------------
(* Theorems.                                                                 *)

\* The inductive invariant of the mapping.
THEOREM MappingInvariance ==
  ASSUME Mapping!NoFile \notin Files
  PROVE  Mapping!MappingSpec => []CurrInv
<1> QED
  BY MappingBegins, MappingKept, PTL DEF Mapping!MappingSpec

\* Every entry the store ever holds names a session that was opened from its file, and no file
\* has two, whatever requests overlap, saves fail or servers die.
THEOREM EntriesAreGenuine ==
  ASSUME Mapping!NoFile \notin Files
  PROVE  Mapping!MappingSpec => []Mapping!EntriesGenuine
<1>1. CurrInv => Mapping!EntriesGenuine
  BY MappingStore DEF CurrInv, MapInv, AllGenuine, GenuineList, Mapping!EntriesGenuine
<1> QED
  BY <1>1, MappingInvariance, PTL

LEMMA CurrentRows == CurrInv => Mapping!RowsCurrent
<1> SUFFICES ASSUME CurrInv, NEW f \in Files, f \notin parted, ~muddled, overlapped = {}, ~Mapping!Busy(f)
             PROVE  /\ \A i \in Mapping!Rows(f) : i \in Mapping!Known /\ opened[i] = f
                    /\ f \notin xmls => \A e \in Parsed(main) : e.file # f
  BY MappingStore DEF Mapping!RowsCurrent
<1>1. \A e \in Parsed(main) : e.file = f => OpenedAs(f, e.id)
  BY DEF CurrInv, CurrentInv, EntriesCurrent
<1> QED BY <1>1, MappingStore DEF Mapping!Rows, OpenedAs

\* Where no session has gone without its file and nothing has met or been cut short, the page
\* shows sessions that exist and files that are there.
THEOREM RowsAreCurrent ==
  ASSUME Mapping!NoFile \notin Files
  PROVE  Mapping!MappingSpec => []Mapping!RowsCurrent
<1> QED
  BY CurrentRows, MappingInvariance, PTL

------------------------------------------------------------------------------
(* The sources and their list.                                               *)

SrcEntries == [id : Files, on : BOOLEAN]
SrcLists == SUBSET SrcEntries
SrcWorks ==
  [at : {"idle", "validate", "save", "remove", "check", "rewrite"}, id : Files \cup {Sources!NoSource}]
Has(list, i) == \E e \in list : e.id = i

\* A thread has a source while it is at work, and the list in hand unless it still validates
\* an upload; who meets another is noted with its source.
SrcTypes ==
  /\ work \in [Threads -> SrcWorks] /\ csv \subseteq used /\ used \subseteq Files
  /\ \A t \in Threads : /\ work[t].at = "idle" => work[t] = Sources!Idle
                        /\ work[t].at # "idle" => work[t].id \in Files
                        /\ Saving(t) <=> work[t].at \notin {"idle", "validate"}
                        /\ work[t].at \notin {"idle", "save"} => work[t].id \in used
                        /\ t \in overlapped => work[t].id \in tangled

\* Lists are of sources that were uploaded, and no source is uploaded twice.
UploadedOnly ==
  /\ \A e \in Parsed(main) \cup Parsed(tmp) : e.id \in used
  /\ \A t \in Threads : \A e \in copy[t] : e.id \in used
  /\ \A t, u \in Threads :
       work[t].at = "validate" /\ work[u].at = "validate" /\ work[t].id = work[u].id => t = u

Settled(i) == \A t \in Threads : Saving(t) => work[t].id # i
Validated(i) == \E t \in Threads : work[t].at = "validate" /\ work[t].id = i
Written == \E t \in Threads : saving[t] \in {"dump", "replace", "remove"}

\* Who writes the list for another source has what the file has of this one.
Agreed(i) ==
  Settled(i) =>
    /\ \A t \in Threads : Saving(t) => (Has(copy[t], i) <=> Has(Parsed(main), i))
    /\ Written /\ tmp.st = "json" => (Has(tmp.val, i) <=> Has(Parsed(main), i))

\* The file of a source is there while its entry is, but for what a request for it has
\* done to the one and is about to do to the other.
FileAndEntry(i) ==
  /\ Validated(i) => /\ i \in csv /\ ~Has(Parsed(main), i)
                     /\ \A t \in Threads : ~Has(copy[t], i)
  /\ Settled(i) /\ ~Validated(i) => (Has(Parsed(main), i) <=> i \in csv)
  /\ \A t \in Threads : work[t].id = i =>
       /\ work[t].at = "remove" => ~Has(copy[t], i) /\ ~Validated(i)
       /\ work[t].at = "check" => Has(copy[t], i) /\ ~Validated(i) /\ i \in csv
       /\ work[t].at = "rewrite" => Has(copy[t], i) /\ ~Validated(i)
       /\ work[t].at = "save" => (Has(copy[t], i) <=> i \in csv /\ ~Validated(i))

SrcInv ==
  /\ SInv(SrcLists) /\ SrcTypes /\ UploadedOnly
  /\ ~spoilt => \A i \in Files \ tangled : Agreed(i) /\ FileAndEntry(i)

LEMMA SourcesStore ==
  /\ \A f : Sources!Parsed(f) = Parsed(f)
  /\ \A t, v : Sources!Loads(t, v) <=> Loads(t, v)
  /\ \A t : Sources!SaveStep(t) <=> SaveStep(t)
  /\ Sources!StoreCrash <=> StoreCrash
  /\ Sources!StoreInit <=> StoreInit
  /\ UNCHANGED Sources!storeVars <=> UNCHANGED storeVars
<1> USE DEF Sources!fileVars, fileVars, Sources!Saving, Saving, Sources!Alone, Alone,
        Sources!Goes, Goes, Sources!NoteUnreadable, NoteUnreadable, Sources!Blank, Blank,
        Sources!Torn, Torn, Sources!Absent, Absent, Sources!Json, Json, Sources!Parsed, Parsed
<1>1. \A f : Sources!Parsed(f) = Parsed(f)
  OBVIOUS
<1>2. \A t, v : Sources!Loads(t, v) <=> Loads(t, v)
  BY DEF Sources!Loads, Loads
<1>3. \A t : Sources!SaveStep(t) <=> SaveStep(t)
  <2> SUFFICES ASSUME NEW t PROVE Sources!SaveStep(t) <=> SaveStep(t)
    OBVIOUS
  <2>1. Sources!Opens(t) <=> Opens(t)
    BY DEF Sources!Opens, Opens, Sources!OpenTmp, OpenTmp
  <2>2. Sources!Dumps(t) <=> Dumps(t)
    BY DEF Sources!Dumps, Dumps, Sources!DumpAndClose, DumpAndClose, Sources!AfterDump, AfterDump
  <2>3. Sources!Ends(t) <=> Ends(t)
    BY DEF Sources!Ends, Ends
  <2>4. Sources!Replaces(t) <=> Replaces(t)
    BY <2>3 DEF Sources!Replaces, Replaces, Sources!Replace, Replace, Sources!Renamed, Renamed
  <2>5. Sources!ReplaceRaises(t) <=> ReplaceRaises(t)
    BY <2>3 DEF Sources!ReplaceRaises, ReplaceRaises
  <2>6. Sources!Removes(t) <=> Removes(t)
    BY <2>3 DEF Sources!Removes, Removes, Sources!RemoveTmp, RemoveTmp
  <2> QED BY <2>1, <2>2, <2>4, <2>5, <2>6 DEF Sources!SaveStep, SaveStep
<1>4. Sources!StoreCrash <=> StoreCrash
  BY DEF Sources!StoreCrash, StoreCrash, Sources!CloseAll, CloseAll
<1>5. Sources!StoreInit <=> StoreInit
  BY DEF Sources!StoreInit, StoreInit, Sources!FileInit, FileInit
<1>6. UNCHANGED Sources!storeVars <=> UNCHANGED storeVars
  BY DEF Sources!storeVars, storeVars, Sources!histVars, histVars
<1> QED BY <1>1, <1>2, <1>3, <1>4, <1>5, <1>6

LEMMA ListsOfSources ==
  ASSUME SInv(SrcLists)
  PROVE  /\ Parsed(main) \in SrcLists /\ Parsed(tmp) \in SrcLists
         /\ \A t \in Threads : copy[t] \in SrcLists
<1>1. FileOK(SrcLists) /\ copy \in [Threads -> SrcLists \cup {{}}]
  BY DEF SInv, StoreOK
<1>2. {} \in SrcLists
  BY DEF SrcLists
<1>3. Parsed(main) \in SrcLists /\ Parsed(tmp) \in SrcLists
  BY <1>1, <1>2 DEF FileOK, Parsed, Absent, Blank, Torn
<1> QED BY <1>1, <1>2, <1>3

LEMMA ToggledIsList ==
  ASSUME NEW list \in SrcLists, NEW i
  PROVE  /\ {IF e.id = i THEN Sources!Source(i, ~e.on) ELSE e : e \in list} \in SrcLists
         /\ \A j : Has({IF e.id = i THEN Sources!Source(i, ~e.on) ELSE e : e \in list}, j) <=> Has(list, j)
<1> DEFINE toggled == {IF e.id = i THEN Sources!Source(i, ~e.on) ELSE e : e \in list}
<1>1. \A e \in list : e \in SrcEntries /\ e.id \in Files /\ e.on \in BOOLEAN
  BY DEF SrcLists, SrcEntries
<1>2. \A e \in list : /\ (IF e.id = i THEN Sources!Source(i, ~e.on) ELSE e) \in SrcEntries
                      /\ (IF e.id = i THEN Sources!Source(i, ~e.on) ELSE e).id = e.id
  BY <1>1 DEF Sources!Source, SrcEntries
<1>3. toggled \in SrcLists
  BY <1>2 DEF SrcLists
<1>4. \A j : Has(toggled, j) <=> Has(list, j)
  BY <1>2 DEF Has
<1> QED BY <1>3, <1>4

\* What a request makes of the list it loads.
TakesUpList(t, i, v, at) ==
  /\ work[t].at = "idle" \/ (work[t].at = "validate" /\ work[t].id = i)
  /\ Loads(t, v)
  /\ work' \in [Threads -> SrcWorks] /\ work'[t].at = at /\ work'[t].id = i
  /\ \A u \in Threads \ {t} : work'[u] = work[u]
  /\ tangled' = tangled \cup ({work'[u].id : u \in overlapped'} \ {Sources!NoSource})
  /\ csv' = csv /\ used' = used

\* ... which is of its own source only, and of that in step with what it is about to do.
OwnSourceOnly(i, v, at) ==
  /\ v \in SrcLists /\ at \in {"save", "remove", "check", "rewrite"}
  /\ at # "save" => i \in used
  /\ \A e \in v : e.id \in used
  /\ \A j : j # i => (Has(v, j) <=> Has(Parsed(main), j))
InStep(t, i, v, at) ==
  LET validated == \E u \in Threads \ {t} : work[u].at = "validate" /\ work[u].id = i IN
  /\ at = "remove" => ~Has(v, i) /\ ~validated
  /\ at = "check" => Has(v, i) /\ ~validated /\ i \in csv
  /\ at = "rewrite" => Has(v, i) /\ ~validated
  /\ at = "save" => (Has(v, i) <=> i \in csv /\ ~validated)
  /\ validated => ~Has(v, i)

LEMMA TakesUpFacts ==
  ASSUME SInv(SrcLists), SrcTypes, NEW t \in Threads, NEW i \in Files, NEW v, NEW at, TakesUpList(t, i, v, at)
  PROVE  /\ saving[t] = "no" /\ ~Saving(t) /\ saving'[t] = "open" /\ Saving(t)'
         /\ \A u \in Threads \ {t} : /\ work'[u] = work[u] /\ saving'[u] = saving[u] /\ copy'[u] = copy[u]
                                     /\ Saving(u)' <=> Saving(u)
         /\ copy'[t] = v
         /\ main' = main /\ tmp' = tmp /\ spoilt' = spoilt /\ csv' = csv /\ used' = used
         /\ overlapped' = IF \A u \in Threads \ {t} : ~Saving(u) THEN overlapped
                          ELSE overlapped \cup {u \in Threads \ {t} : Saving(u)} \cup {t}
         /\ t \notin overlapped
<1>1. /\ saving[t] = "no" /\ saving' = [saving EXCEPT ![t] = "open"]
      /\ copy' = [copy EXCEPT ![t] = v] /\ UNCHANGED <<main, tmp, fd, spoilt>>
      /\ LET others == {u \in Threads \ {t} : Saving(u)} IN
           overlapped' = IF others = {} THEN overlapped ELSE overlapped \cup others \cup {t}
  BY DEF TakesUpList, Loads, Goes, fileVars
<1>2. /\ saving \in [Threads -> {"no", "open", "dump", "replace", "remove"}]
      /\ copy \in [Threads -> SrcLists \cup {{}}] /\ work \in [Threads -> SrcWorks]
  BY DEF SInv, StoreOK, SrcTypes
<1>3. \A u \in Threads \ {t} : work'[u] = work[u]
  BY DEF TakesUpList
<1>4. overlapped' = IF \A u \in Threads \ {t} : ~Saving(u) THEN overlapped
                          ELSE overlapped \cup {u \in Threads \ {t} : Saving(u)} \cup {t}
  BY <1>1
<1>5. t \notin overlapped
  BY <1>1 DEF SInv, ThreadTrue, Saving
<1>6. csv' = csv /\ used' = used
  BY DEF TakesUpList
<1>7. \A u \in Threads \ {t} : saving'[u] = saving[u] /\ copy'[u] = copy[u]
  BY <1>1, <1>2
<1>8. saving'[t] = "open" /\ copy'[t] = v
  BY <1>1, <1>2
<1>9. Saving(t)' /\ ~Saving(t) /\ \A u \in Threads \ {t} : Saving(u)' <=> Saving(u)
  BY <1>1, <1>7, <1>8 DEF Saving
<1> QED BY <1>1, <1>3, <1>4, <1>5, <1>6, <1>7, <1>8, <1>9

LEMMA TakesUpTypes ==
  ASSUME SInv(SrcLists), SrcTypes, UploadedOnly, Sources!NoSource \notin Files,
         NEW t \in Threads, NEW i \in Files, NEW v, NEW at,
         TakesUpList(t, i, v, at), OwnSourceOnly(i, v, at)
  PROVE  SrcTypes' /\ UploadedOnly' /\ tangled \subseteq tangled'
         /\ \A u \in overlapped' : work'[u].id \in tangled'
<1>0. /\ at \in {"save", "remove", "check", "rewrite"} /\ (at # "save" => i \in used)
      /\ \A e \in v : e.id \in used
  BY DEF OwnSourceOnly
<1>1. /\ saving[t] = "no" /\ ~Saving(t) /\ saving'[t] = "open" /\ Saving(t)'
      /\ \A u \in Threads \ {t} : /\ work'[u] = work[u] /\ saving'[u] = saving[u] /\ copy'[u] = copy[u]
                                  /\ Saving(u)' <=> Saving(u)
      /\ copy'[t] = v
      /\ main' = main /\ tmp' = tmp /\ spoilt' = spoilt /\ csv' = csv /\ used' = used
      /\ overlapped' = IF \A u \in Threads \ {t} : ~Saving(u) THEN overlapped
                       ELSE overlapped \cup {u \in Threads \ {t} : Saving(u)} \cup {t}
      /\ t \notin overlapped
  BY TakesUpFacts
<1>2. work'[t].at = at /\ work'[t].id = i /\ work' \in [Threads -> SrcWorks]
  BY DEF TakesUpList
<1>3. tangled' = tangled \cup ({work'[u].id : u \in overlapped'} \ {Sources!NoSource})
  BY DEF TakesUpList
<1>4. overlapped \subseteq Threads
  BY DEF SInv, StoreOK
<1>5. \A u \in overlapped' : work'[u].id \in tangled'
  <2>1. \A u \in Threads : Saving(u)' => work'[u].id \in Files
    BY <1>0, <1>1, <1>2 DEF SrcTypes
  <2>2. \A u \in overlapped' : u \in Threads /\ Saving(u)'
    BY <1>1, <1>4 DEF SInv, ThreadTrue
  <2> QED BY <1>3, <2>1, <2>2
<1>6. SrcTypes'
  <2>1. \A u \in Threads \ {t} : Saving(u)' <=> work'[u].at \notin {"idle", "validate"}
    BY <1>1 DEF SrcTypes
  <2> QED BY <1>0, <1>1, <1>2, <1>5, <2>1 DEF SrcTypes
<1>7. UploadedOnly'
  <2>1. Parsed(main)' = Parsed(main) /\ Parsed(tmp)' = Parsed(tmp)
    BY <1>1 DEF Parsed
  <2>2. \A u, w \in Threads :
          work'[u].at = "validate" /\ work'[w].at = "validate" /\ work'[u].id = work'[w].id => u = w
    BY <1>0, <1>1, <1>2 DEF UploadedOnly
  <2>3. \A u \in Threads : \A e \in copy'[u] : e.id \in used'
    BY <1>0, <1>1 DEF UploadedOnly
  <2> QED BY <1>1, <2>1, <2>2, <2>3 DEF UploadedOnly
<1> QED BY <1>3, <1>5, <1>6, <1>7

LEMMA TakesUpOthers ==
  ASSUME SrcInv, Sources!NoSource \notin Files,
         NEW t \in Threads, NEW i \in Files, NEW v, NEW at,
         TakesUpList(t, i, v, at), OwnSourceOnly(i, v, at),
         NEW j \in Files \ tangled', j # i, ~spoilt
  PROVE  Agreed(j)' /\ FileAndEntry(j)'
<1>0. SInv(SrcLists) /\ SrcTypes /\ UploadedOnly
  BY DEF SrcInv
<1>1. /\ saving[t] = "no" /\ ~Saving(t) /\ saving'[t] = "open" /\ Saving(t)'
      /\ \A u \in Threads \ {t} : /\ work'[u] = work[u] /\ saving'[u] = saving[u] /\ copy'[u] = copy[u]
                                  /\ Saving(u)' <=> Saving(u)
      /\ copy'[t] = v
      /\ main' = main /\ tmp' = tmp /\ spoilt' = spoilt /\ csv' = csv /\ used' = used
      /\ overlapped' = IF \A u \in Threads \ {t} : ~Saving(u) THEN overlapped
                       ELSE overlapped \cup {u \in Threads \ {t} : Saving(u)} \cup {t}
      /\ t \notin overlapped
  BY <1>0, TakesUpFacts
<1>2. /\ tangled \subseteq tangled' /\ \A u \in overlapped' : work'[u].id \in tangled'
  BY <1>0, TakesUpTypes
<1>3. work'[t].at = at /\ work'[t].id = i /\ at \in {"save", "remove", "check", "rewrite"}
  BY DEF TakesUpList, OwnSourceOnly
<1>4. Agreed(j) /\ FileAndEntry(j)
  BY <1>1, <1>2 DEF SrcInv
<1>5. Settled(j)
  <2> SUFFICES ASSUME NEW u \in Threads, Saving(u) PROVE work[u].id # j
    BY DEF Settled
  <2>1. u # t /\ u \in overlapped'
    BY <1>1
  <2> QED BY <1>1, <1>2, <2>1
<1>6. Parsed(main)' = Parsed(main) /\ (Has(v, j) <=> Has(Parsed(main), j))
  BY <1>1 DEF Parsed, OwnSourceOnly
<1>7. Validated(j)' <=> Validated(j)
  <2>1. ~(work[t].at = "validate" /\ work[t].id = j)
    BY DEF TakesUpList
  <2> QED BY <1>1, <1>3, <2>1 DEF Validated
<1>8. Agreed(j)'
  <2>1. Written' => Written
    BY <1>1 DEF Written
  <2> QED BY <1>1, <1>4, <1>5, <1>6, <2>1 DEF Agreed, Has
<1>9. FileAndEntry(j)'
  <2>1. Validated(j)' => /\ j \in csv' /\ ~Has(Parsed(main), j)'
                         /\ \A u \in Threads : ~Has(copy[u], j)'
    BY <1>1, <1>4, <1>6, <1>7 DEF FileAndEntry, Has
  <2>2. ~Validated(j)' => (Has(Parsed(main), j)' <=> j \in csv')
    BY <1>1, <1>4, <1>5, <1>6, <1>7 DEF FileAndEntry, Has
  <2>3. \A u \in Threads : work'[u].id = j => u # t
    BY <1>3
  <2>4. \A u \in Threads : work'[u].id = j =>
       /\ work'[u].at = "remove" => ~Has(copy[u], j)' /\ ~Validated(j)'
       /\ work'[u].at = "check" => Has(copy[u], j)' /\ ~Validated(j)' /\ j \in csv'
       /\ work'[u].at = "rewrite" => Has(copy[u], j)' /\ ~Validated(j)'
       /\ work'[u].at = "save" => (Has(copy[u], j)' <=> j \in csv' /\ ~Validated(j)')
    BY <1>1, <1>4, <1>7, <2>3 DEF FileAndEntry, Has
  <2> QED BY <2>1, <2>2, <2>4 DEF FileAndEntry
<1> QED BY <1>8, <1>9

LEMMA TakesUpOwn ==
  ASSUME SrcInv, Sources!NoSource \notin Files,
         NEW t \in Threads, NEW i \in Files, NEW v, NEW at,
         TakesUpList(t, i, v, at), OwnSourceOnly(i, v, at), InStep(t, i, v, at),
         i \notin tangled', ~spoilt
  PROVE  Agreed(i)' /\ FileAndEntry(i)'
<1>0. SInv(SrcLists) /\ SrcTypes /\ UploadedOnly
  BY DEF SrcInv
<1>1. /\ saving[t] = "no" /\ ~Saving(t) /\ saving'[t] = "open" /\ Saving(t)'
      /\ \A u \in Threads \ {t} : /\ work'[u] = work[u] /\ saving'[u] = saving[u] /\ copy'[u] = copy[u]
                                  /\ Saving(u)' <=> Saving(u)
      /\ copy'[t] = v
      /\ main' = main /\ tmp' = tmp /\ spoilt' = spoilt /\ csv' = csv /\ used' = used
      /\ overlapped' = IF \A u \in Threads \ {t} : ~Saving(u) THEN overlapped
                       ELSE overlapped \cup {u \in Threads \ {t} : Saving(u)} \cup {t}
      /\ t \notin overlapped
  BY <1>0, TakesUpFacts
<1>2. /\ tangled \subseteq tangled' /\ \A u \in overlapped' : work'[u].id \in tangled'
  BY <1>0, TakesUpTypes
<1>3. work'[t].at = at /\ work'[t].id = i /\ at \in {"save", "remove", "check", "rewrite"}
  BY DEF TakesUpList, OwnSourceOnly
<1>4. Agreed(i) /\ FileAndEntry(i)
  BY <1>1, <1>2 DEF SrcInv
<1>5. \A u \in Threads \ {t} : ~Saving(u)
  BY <1>1, <1>2, <1>3
<1>6. \A u \in Threads \ {t} : copy[u] = {} /\ work'[u].at \in {"idle", "validate"}
  BY <1>0, <1>1, <1>5 DEF SInv, ThreadTrue, SrcTypes
<1>7. Agreed(i)'
  BY <1>1, <1>3 DEF Agreed, Settled
<1>8. Validated(i)' <=> \E u \in Threads \ {t} : work[u].at = "validate" /\ work[u].id = i
  BY <1>1, <1>3 DEF Validated
<1>9. Validated(i)' => Validated(i)
  BY <1>8 DEF Validated
<1>10. FileAndEntry(i)'
  <2>1. Validated(i)' => /\ i \in csv' /\ ~Has(Parsed(main), i)'
                         /\ \A u \in Threads : ~Has(copy[u], i)'
    <3>1. Validated(i)' => ~Has(v, i)
      BY <1>8 DEF InStep
    <3>2. Parsed(main)' = Parsed(main)
      BY <1>1 DEF Parsed
    <3> QED BY <1>1, <1>4, <1>6, <1>9, <3>1, <3>2 DEF FileAndEntry, Has
  <2>2. ~Settled(i)'
    BY <1>1, <1>3 DEF Settled
  <2>3. /\ at = "remove" => ~Has(v, i) /\ ~Validated(i)'
        /\ at = "check" => Has(v, i) /\ ~Validated(i)' /\ i \in csv'
        /\ at = "rewrite" => Has(v, i) /\ ~Validated(i)'
        /\ at = "save" => (Has(v, i) <=> i \in csv' /\ ~Validated(i)')
    BY <1>1, <1>8 DEF InStep
  <2>4. Has(copy[t], i)' <=> Has(v, i)
    BY <1>1 DEF Has
  <2>5. \A u \in Threads : work'[u].id = i =>
       /\ work'[u].at = "remove" => ~Has(copy[u], i)' /\ ~Validated(i)'
       /\ work'[u].at = "check" => Has(copy[u], i)' /\ ~Validated(i)' /\ i \in csv'
       /\ work'[u].at = "rewrite" => Has(copy[u], i)' /\ ~Validated(i)'
       /\ work'[u].at = "save" => (Has(copy[u], i)' <=> i \in csv' /\ ~Validated(i)')
    BY <1>3, <1>6, <2>3, <2>4
  <2> QED BY <2>1, <2>2, <2>5 DEF FileAndEntry
<1> QED BY <1>7, <1>10

\* A request changes nothing of the list, and at most the file of its own source.
Stays(t) ==
  /\ UNCHANGED storeVars /\ tangled' = tangled
  /\ \A u \in Threads \ {t} : work'[u] = work[u]
  /\ Saving(t) => work'[t].id = work[t].id

LEMMA StaysKeeps ==
  ASSUME NEW t \in Threads, Stays(t), SInv(SrcLists)
  PROVE  /\ UNCHANGED <<main, tmp, saving, copy, overlapped, spoilt>> /\ SInv(SrcLists)'
         /\ \A u : Saving(u)' <=> Saving(u)
         /\ \A j : Agreed(j)' <=> Agreed(j)
         /\ \A j : Settled(j)' <=> Settled(j)
<1>1. UNCHANGED <<main, tmp, fd, saving, copy, base, overlapped, spoilt, removed>>
  BY DEF Stays, storeVars, histVars, fileVars
<1>2. SInv(SrcLists)'
  BY <1>1 DEF SInv, StoreOK, FileOK, ThreadTrue, AloneIsAtomic, RemovedStays, Alone, Saving, Parsed
<1>3. \A u : Saving(u)' <=> Saving(u)
  BY <1>1 DEF Saving
<1>4. \A j : Settled(j)' <=> Settled(j)
  BY <1>3 DEF Settled, Stays
<1>5. \A j : Agreed(j)' <=> Agreed(j)
  <2>1. Written' <=> Written
    BY <1>1 DEF Written
  <2> QED BY <1>1, <1>3, <1>4, <2>1 DEF Agreed, Has, Parsed
<1> QED BY <1>1, <1>2, <1>3, <1>4, <1>5

LEMMA StaysForOthers ==
  ASSUME SrcInv, NEW t \in Threads, Stays(t), NEW j \in Files \ tangled, ~spoilt, j # work[t].id,
         work'[t].id # j, j \in csv' <=> j \in csv
  PROVE  Agreed(j)' /\ FileAndEntry(j)'
<1>1. /\ UNCHANGED <<main, tmp, saving, copy, overlapped, spoilt>>
      /\ (Settled(j)' <=> Settled(j)) /\ (Agreed(j)' <=> Agreed(j))
  BY StaysKeeps DEF SrcInv
<1>2. Agreed(j) /\ FileAndEntry(j)
  BY DEF SrcInv
<1>3. Validated(j)' <=> Validated(j)
  BY DEF Validated, Stays
<1>4. \A u \in Threads : work'[u].id = j => u # t /\ work'[u] = work[u]
  BY DEF Stays
<1>5. FileAndEntry(j)'
  <2>1. \A u \in Threads : work'[u].id = j =>
       /\ work'[u].at = "remove" => ~Has(copy[u], j)' /\ ~Validated(j)'
       /\ work'[u].at = "check" => Has(copy[u], j)' /\ ~Validated(j)' /\ j \in csv'
       /\ work'[u].at = "rewrite" => Has(copy[u], j)' /\ ~Validated(j)'
       /\ work'[u].at = "save" => (Has(copy[u], j)' <=> j \in csv' /\ ~Validated(j)')
    BY <1>1, <1>2, <1>3, <1>4 DEF FileAndEntry, Has
  <2>2. Validated(j)' => /\ j \in csv' /\ ~Has(Parsed(main), j)'
                         /\ \A u \in Threads : ~Has(copy[u], j)'
    BY <1>1, <1>2, <1>3 DEF FileAndEntry, Has, Parsed
  <2>3. Settled(j)' /\ ~Validated(j)' => (Has(Parsed(main), j)' <=> j \in csv')
    BY <1>1, <1>2, <1>3 DEF FileAndEntry, Has, Parsed
  <2> QED BY <2>1, <2>2, <2>3 DEF FileAndEntry
<1> QED BY <1>1, <1>2, <1>5

\* The types after such a step, from what the request is at then.
LEMMA StaysTypes ==
  ASSUME SrcInv, NEW t \in Threads, Stays(t), work' \in [Threads -> SrcWorks],
         csv' \subseteq used', used' \subseteq Files, used \subseteq used',
         work'[t].at = "idle" => work'[t] = Sources!Idle,
         work'[t].at # "idle" => work'[t].id \in Files,
         Saving(t) <=> work'[t].at \notin {"idle", "validate"},
         work'[t].at \notin {"idle", "save"} => work'[t].id \in used',
         work'[t].at = "validate" => work'[t].id \notin used
  PROVE  SInv(SrcLists)' /\ SrcTypes' /\ UploadedOnly'
<1>1. /\ UNCHANGED <<main, tmp, saving, copy, overlapped, spoilt>> /\ SInv(SrcLists)'
      /\ \A u : Saving(u)' <=> Saving(u)
  BY StaysKeeps DEF SrcInv
<1>2. SInv(SrcLists) /\ SrcTypes /\ UploadedOnly
  BY DEF SrcInv
<1>3. tangled' = tangled /\ \A u \in Threads \ {t} : work'[u] = work[u]
  BY DEF Stays
<1>4. \A u \in Threads : u \in overlapped' => work'[u].id \in tangled'
  <2>1. \A u \in overlapped : Saving(u) /\ u \in Threads
    BY <1>2 DEF SInv, StoreOK, ThreadTrue
  <2> QED BY <1>1, <1>2, <1>3, <2>1 DEF SrcTypes, Stays
<1>5. SrcTypes'
  BY <1>1, <1>2, <1>3, <1>4 DEF SrcTypes
<1>6. UploadedOnly'
  <2>1. \A u, w \in Threads :
          work'[u].at = "validate" /\ work'[w].at = "validate" /\ work'[u].id = work'[w].id => u = w
    <3>1. \A u \in Threads \ {t} : work'[u].at = "validate" => work'[u].id \in used
      BY <1>2, <1>3 DEF SrcTypes
    <3> QED BY <1>2, <1>3, <3>1 DEF UploadedOnly
  <2>2. \A e \in Parsed(main)' \cup Parsed(tmp)' : e.id \in used'
    BY <1>1, <1>2 DEF UploadedOnly, Parsed
  <2>3. \A u \in Threads : \A e \in copy'[u] : e.id \in used'
    BY <1>1, <1>2 DEF UploadedOnly
  <2> QED BY <2>1, <2>2, <2>3 DEF UploadedOnly
<1> QED BY <1>1, <1>5, <1>6

\* ... and, from what it is in of its own source, the whole invariant.
LEMMA StaysInv ==
  ASSUME SrcInv, NEW t \in Threads, Stays(t), SInv(SrcLists)', SrcTypes', UploadedOnly',
         NEW i \in Files, work[t].id \in {i, Sources!NoSource}, work'[t].id \in {i, Sources!NoSource},
         Sources!NoSource \notin Files,
         \A j : j # i => (j \in csv' <=> j \in csv),
         ~spoilt /\ i \notin tangled => FileAndEntry(i)'
  PROVE  SrcInv'
<1>1. spoilt' = spoilt /\ tangled' = tangled
  BY StaysKeeps DEF SrcInv, Stays
<1>2. ASSUME NEW j \in Files \ tangled, ~spoilt PROVE Agreed(j)' /\ FileAndEntry(j)'
  <2>1. CASE j = i
    <3>1. Agreed(j)
      BY <1>2 DEF SrcInv
    <3>2. Agreed(j)'
      BY <3>1, StaysKeeps DEF SrcInv
    <3> QED BY <1>2, <2>1, <3>2
  <2>2. CASE j # i
    BY <1>2, <2>2, StaysForOthers
  <2> QED BY <2>1, <2>2
<1> QED BY <1>1, <1>2 DEF SrcInv

LEMMA TurnsFacts ==
  ASSUME SrcTypes, NEW t \in Threads, NEW at, Sources!Turns(t, at),
         at \in {"idle", "validate", "save", "remove", "check", "rewrite"}
  PROVE  /\ work'[t].at = at /\ work'[t].id = work[t].id /\ work' \in [Threads -> SrcWorks]
         /\ \A u \in Threads \ {t} : work'[u] = work[u]
<1>1. work \in [Threads -> SrcWorks] /\ work' = [work EXCEPT ![t].at = at]
  BY DEF SrcTypes, Sources!Turns
<1>2. work[t] \in SrcWorks
  BY <1>1
<1>3. work'[t].at = at /\ work'[t].id = work[t].id
  BY <1>1, <1>2 DEF SrcWorks
<1>4. work' \in [Threads -> SrcWorks]
  BY <1>1, <1>2 DEF SrcWorks
<1>5. \A u \in Threads \ {t} : work'[u] = work[u]
  BY <1>1
<1> QED BY <1>3, <1>4, <1>5

\* Nobody else writes the list while a request for a source nobody met does.
LEMMA OnlySaver ==
  ASSUME SInv(SrcLists), SrcTypes, NEW t \in Threads, Saving(t), work[t].id \notin tangled
  PROVE  /\ Alone(t) /\ work[t].id \in Files /\ work[t].at \in {"save", "remove", "check", "rewrite"}
         /\ \A u \in Threads \ {t} : /\ ~Saving(u) /\ copy[u] = {}
                                     /\ work[u].at \in {"idle", "validate"}
                                     /\ work[u].at = "idle" => work[u] = Sources!Idle
<1>1. Alone(t)
  BY DEF SrcTypes, Alone
<1>2. \A u \in Threads \ {t} : ~Saving(u)
  BY <1>1 DEF SInv, ThreadTrue
<1>3. \A u \in Threads \ {t} : copy[u] = {}
  BY <1>2 DEF SInv, ThreadTrue
<1>4. \A u \in Threads : work[u] \in SrcWorks
  BY DEF SrcTypes
<1>5. work[t].id \in Files /\ work[t].at \in {"save", "remove", "check", "rewrite"}
  BY <1>4 DEF SrcTypes, SrcWorks
<1> QED BY <1>1, <1>2, <1>3, <1>5 DEF SrcTypes

LEMMA UploadsKeep ==
  ASSUME SrcInv, Sources!NoSource \notin Files, NEW t \in Threads, NEW i \in Files, Sources!Uploads(t, i)
  PROVE  SrcInv'
<1>1. /\ work[t] = Sources!Idle /\ i \notin used
      /\ csv' = csv \cup {i} /\ used' = used \cup {i} /\ tangled' = tangled
      /\ work' = [work EXCEPT ![t] = [at |-> "validate", id |-> i]]
      /\ UNCHANGED storeVars
  BY SourcesStore DEF Sources!Uploads
<1>2. SInv(SrcLists) /\ SrcTypes /\ UploadedOnly
  BY DEF SrcInv
<1>3. work[t].at = "idle" /\ work[t].id = Sources!NoSource /\ ~Saving(t)
  BY <1>1, <1>2 DEF Sources!Idle, SrcTypes
<1>4. /\ work'[t].at = "validate" /\ work'[t].id = i /\ work' \in [Threads -> SrcWorks]
      /\ \A u \in Threads \ {t} : work'[u] = work[u]
  <2>1. [at |-> "validate", id |-> i] \in SrcWorks
    BY DEF SrcWorks
  <2> QED BY <1>1, <1>2, <2>1 DEF SrcTypes
<1>5. Stays(t)
  BY <1>1, <1>3, <1>4 DEF Stays
<1>6. SInv(SrcLists)' /\ SrcTypes' /\ UploadedOnly'
  <2>1. csv' \subseteq used' /\ used' \subseteq Files /\ used \subseteq used'
    BY <1>1, <1>2 DEF SrcTypes
  <2>2. work'[t].id \in used'
    BY <1>1, <1>4
  <2> QED BY <1>1, <1>3, <1>4, <1>5, <2>1, <2>2, StaysTypes
<1>7. ~spoilt /\ i \notin tangled => FileAndEntry(i)'
  <2> SUFFICES ASSUME ~spoilt, i \notin tangled PROVE FileAndEntry(i)'
    OBVIOUS
  <2>1. UNCHANGED <<main, copy>>
    BY <1>2, <1>5, StaysKeeps
  <2>2. ~Has(Parsed(main), i) /\ \A u \in Threads : ~Has(copy[u], i)
    BY <1>1, <1>2 DEF UploadedOnly, Has
  <2>3. Validated(i)' /\ i \in csv'
    BY <1>1, <1>4 DEF Validated
  <2>4. ~Has(Parsed(main), i)' /\ \A u \in Threads : ~Has(copy[u], i)'
    BY <2>1, <2>2 DEF Has, Parsed
  <2>5. \A u \in Threads : work'[u].id = i => work'[u].at \notin {"remove", "check", "rewrite"}
    BY <1>1, <1>2, <1>4 DEF SrcTypes
  <2> QED BY <2>3, <2>4, <2>5 DEF FileAndEntry
<1> QED BY <1>1, <1>3, <1>4, <1>5, <1>6, <1>7, StaysInv

LEMMA RejectsKeep ==
  ASSUME SrcInv, Sources!NoSource \notin Files, NEW t \in Threads, Sources!Rejects(t)
  PROVE  SrcInv'
<1>1. /\ work[t].at = "validate" /\ csv' = csv \ {work[t].id}
      /\ work' = [work EXCEPT ![t] = Sources!Idle]
      /\ UNCHANGED storeVars /\ used' = used /\ tangled' = tangled
  BY SourcesStore DEF Sources!Rejects
<1>2. SInv(SrcLists) /\ SrcTypes /\ UploadedOnly
  BY DEF SrcInv
<1>3. PICK i \in Files : i = work[t].id
  BY <1>1, <1>2 DEF SrcTypes
<1>4. ~Saving(t)
  BY <1>1, <1>2 DEF SrcTypes
<1>5. /\ work'[t] = Sources!Idle /\ work'[t].at = "idle" /\ work'[t].id = Sources!NoSource
      /\ work' \in [Threads -> SrcWorks]
      /\ \A u \in Threads \ {t} : work'[u] = work[u]
  <2>1. Sources!Idle \in SrcWorks
    BY DEF SrcWorks, Sources!Idle
  <2> QED BY <1>1, <1>2, <2>1 DEF SrcTypes, Sources!Idle
<1>6. Stays(t)
  BY <1>1, <1>4, <1>5 DEF Stays
<1>7. SInv(SrcLists)' /\ SrcTypes' /\ UploadedOnly'
  <2>1. csv' \subseteq used' /\ used' \subseteq Files /\ used \subseteq used'
    BY <1>1, <1>2 DEF SrcTypes
  <2> QED BY <1>4, <1>5, <1>6, <2>1, StaysTypes
<1>8. ~spoilt /\ i \notin tangled => FileAndEntry(i)'
  <2> SUFFICES ASSUME ~spoilt, i \notin tangled PROVE FileAndEntry(i)'
    OBVIOUS
  <2>1. UNCHANGED <<main, copy>>
    BY <1>2, <1>6, StaysKeeps
  <2>2. Validated(i) /\ FileAndEntry(i)
    BY <1>1, <1>3 DEF Validated, SrcInv
  <2>3. ~Has(Parsed(main), i)' /\ \A u \in Threads : ~Has(copy[u], i)'
    BY <2>1, <2>2 DEF Has, Parsed, FileAndEntry
  <2>4. ~Validated(i)' /\ i \notin csv'
    BY <1>1, <1>2, <1>3, <1>5 DEF Validated, UploadedOnly
  <2>5. \A u \in Threads : work'[u].id = i => work'[u].at \notin {"remove", "check", "rewrite"}
    BY <1>5, <2>2 DEF FileAndEntry
  <2> QED BY <2>3, <2>4, <2>5 DEF FileAndEntry
<1> QED BY <1>1, <1>3, <1>5, <1>6, <1>7, <1>8, StaysInv

\* A step of a request that has the list in hand, before it writes it.
LEMMA StepsOnKeep ==
  ASSUME SrcInv, Sources!NoSource \notin Files, NEW t \in Threads, NEW at,
         at \in {"save", "rewrite"}, Sources!Turns(t, at), UNCHANGED storeVars,
         used' = used, tangled' = tangled, work[t].at \in {"remove", "check", "rewrite"},
         \A j : j # work[t].id => (j \in csv' <=> j \in csv),
         csv' \subseteq csv \cup {work[t].id},
         ~spoilt /\ work[t].id \notin tangled =>
           /\ at = "rewrite" => Has(copy[t], work[t].id) /\ ~Validated(work[t].id)
           /\ at = "save" => (Has(copy[t], work[t].id) <=> work[t].id \in csv')
           /\ ~Validated(work[t].id)
  PROVE  SrcInv'
<1>1. SInv(SrcLists) /\ SrcTypes /\ UploadedOnly
  BY DEF SrcInv
<1>2. PICK i \in Files : i = work[t].id
  BY <1>1 DEF SrcTypes
<1>3. Saving(t) /\ i \in used
  BY <1>1, <1>2 DEF SrcTypes
<1>4. /\ work'[t].at = at /\ work'[t].id = i /\ work' \in [Threads -> SrcWorks]
      /\ \A u \in Threads \ {t} : work'[u] = work[u]
  BY <1>1, <1>2, TurnsFacts
<1>5. Stays(t)
  BY <1>2, <1>4 DEF Stays
<1>6. SInv(SrcLists)' /\ SrcTypes' /\ UploadedOnly'
  <2>1. csv' \subseteq used' /\ used' \subseteq Files /\ used \subseteq used'
    BY <1>1, <1>2, <1>3 DEF SrcTypes
  <2> QED BY <1>3, <1>4, <1>5, <2>1, StaysTypes
<1>7. ~spoilt /\ i \notin tangled => FileAndEntry(i)'
  <2> SUFFICES ASSUME ~spoilt, i \notin tangled PROVE FileAndEntry(i)'
    OBVIOUS
  <2>1. copy' = copy /\ Saving(t)'
    BY <1>1, <1>3, <1>5, StaysKeeps
  <2>2. \A u \in Threads \ {t} : work[u].at \in {"idle", "validate"}
    BY <1>1, <1>2, <1>3, OnlySaver
  <2>3. ~Validated(i)'
    BY <1>2, <1>4 DEF Validated
  <2>4. ~Settled(i)'
    BY <1>4, <2>1 DEF Settled
  <2>5. \A u \in Threads : work'[u].id = i /\ work'[u].at \notin {"idle", "validate"} => u = t
    BY <1>4, <2>2
  <2>6. Has(copy[t], i)' <=> Has(copy[t], i)
    BY <2>1 DEF Has
  <2> QED BY <1>2, <1>4, <2>3, <2>4, <2>5, <2>6 DEF FileAndEntry
<1> QED BY <1>2, <1>4, <1>5, <1>6, <1>7, StaysInv

LEMMA CsvStepsKeep ==
  ASSUME SrcInv, Sources!NoSource \notin Files, NEW t \in Threads,
         Sources!RemovesCsv(t) \/ Sources!Checks(t) \/ Sources!Rewrites(t)
  PROVE  SrcInv'
<1>0. UNCHANGED storeVars /\ used' = used /\ tangled' = tangled
  BY SourcesStore DEF Sources!RemovesCsv, Sources!Checks, Sources!Rewrites
<1>1. ~spoilt /\ work[t].id \notin tangled /\ work[t].at \in {"remove", "check", "rewrite"}
        => work[t].id \in Files /\ FileAndEntry(work[t].id)
  BY DEF SrcInv, SrcTypes
<1>2. CASE Sources!RemovesCsv(t)
  <2>1. work[t].at = "remove" /\ csv' = csv \ {work[t].id} /\ Sources!Turns(t, "save")
    BY <1>2 DEF Sources!RemovesCsv
  <2>2. ~spoilt /\ work[t].id \notin tangled => ~Has(copy[t], work[t].id) /\ ~Validated(work[t].id)
    BY <1>1, <2>1 DEF FileAndEntry
  <2> QED BY <1>0, <2>1, <2>2, StepsOnKeep
<1>3. CASE Sources!Checks(t)
  <2>1. /\ work[t].at = "check" /\ csv' = csv
        /\ Sources!Turns(t, "rewrite") \/ Sources!Turns(t, "save")
    BY <1>3 DEF Sources!Checks
  <2>2. ~spoilt /\ work[t].id \notin tangled =>
          Has(copy[t], work[t].id) /\ ~Validated(work[t].id) /\ work[t].id \in csv'
    BY <1>1, <2>1 DEF FileAndEntry
  <2> QED BY <1>0, <2>1, <2>2, StepsOnKeep
<1>4. CASE Sources!Rewrites(t)
  <2>1. work[t].at = "rewrite" /\ csv' = csv \cup {work[t].id} /\ Sources!Turns(t, "save")
    BY <1>4 DEF Sources!Rewrites
  <2>2. ~spoilt /\ work[t].id \notin tangled =>
          Has(copy[t], work[t].id) /\ ~Validated(work[t].id) /\ work[t].id \in csv'
    BY <1>1, <2>1 DEF FileAndEntry
  <2> QED BY <1>0, <2>1, <2>2, StepsOnKeep
<1> QED BY <1>2, <1>3, <1>4

LEMMA TakesUpKeeps ==
  ASSUME SrcInv, Sources!NoSource \notin Files,
         NEW t \in Threads, NEW i \in Files, NEW v, NEW at,
         TakesUpList(t, i, v, at), OwnSourceOnly(i, v, at),
         ~spoilt /\ i \notin tangled /\ Settled(i) => InStep(t, i, v, at)
  PROVE  SrcInv'
<1>1. SInv(SrcLists) /\ SrcTypes /\ UploadedOnly
  BY DEF SrcInv
<1>2. SrcTypes' /\ UploadedOnly' /\ tangled \subseteq tangled' /\ \A u \in overlapped' : work'[u].id \in tangled'
  BY <1>1, TakesUpTypes
<1>3. SInv(SrcLists)'
  <2>1. {} \in SrcLists /\ StoreNext(SrcLists)
    BY DEF SrcLists, StoreNext, TakesUpList, OwnSourceOnly
  <2> QED BY <1>1, <2>1, StoreNextKeeps
<1>4. ASSUME NEW j \in Files \ tangled', ~spoilt' PROVE Agreed(j)' /\ FileAndEntry(j)'
  <2>1. ~spoilt
    BY <1>1, <1>4, TakesUpFacts
  <2>2. CASE j # i
    BY <1>4, <2>1, <2>2, TakesUpOthers
  <2>3. CASE j = i
    <3>1. work'[t].id = i
      BY DEF TakesUpList
    <3>2. t \notin overlapped'
      BY <1>2, <1>4, <2>3, <3>1
    <3>3. \A u \in Threads \ {t} : ~Saving(u)
      BY <1>1, <3>2, TakesUpFacts
    <3>4. Settled(i)
      BY <1>1, <3>3, TakesUpFacts DEF Settled
    <3>5. InStep(t, i, v, at)
      BY <1>2, <1>4, <2>1, <2>3, <3>4
    <3> QED BY <1>4, <2>1, <2>3, <3>5, TakesUpOwn
  <2> QED BY <2>2, <2>3
<1> QED BY <1>2, <1>3, <1>4 DEF SrcInv

LEMMA BeginsTakesUp ==
  ASSUME SrcInv, NEW t \in Threads, NEW i \in Files, NEW v, NEW at, Sources!Begins(t, i, v, at),
         at \in {"save", "remove", "check", "rewrite"}
  PROVE  TakesUpList(t, i, v, at) /\ work[t].at = "idle"
<1>1. /\ work[t] = Sources!Idle /\ Loads(t, v) /\ work' = [work EXCEPT ![t] = [at |-> at, id |-> i]]
      /\ tangled' = tangled \cup ({work'[u].id : u \in overlapped'} \ {Sources!NoSource})
      /\ UNCHANGED <<csv, used>>
  BY SourcesStore DEF Sources!Begins, Sources!Entangles
<1>2. work[t].at = "idle"
  BY <1>1 DEF Sources!Idle
<1>3. work \in [Threads -> SrcWorks] /\ [at |-> at, id |-> i] \in SrcWorks
  BY DEF SrcInv, SrcTypes, SrcWorks
<1>4. /\ work' \in [Threads -> SrcWorks] /\ work'[t].at = at /\ work'[t].id = i
      /\ \A u \in Threads \ {t} : work'[u] = work[u]
  BY <1>1, <1>3
<1> QED BY <1>1, <1>2, <1>4 DEF TakesUpList

\* What the file says of a source nobody writes the list for.
LEMMA SettledFacts ==
  ASSUME SrcInv, NEW i \in Files, ~spoilt, i \notin tangled, Settled(i)
  PROVE  Has(Parsed(main), i) <=> i \in csv /\ ~Validated(i)
BY DEF SrcInv, FileAndEntry

LEMMA BeginsKeep ==
  ASSUME SrcInv, Sources!NoSource \notin Files, NEW t \in Threads, NEW i \in Files,
         Sources!Toggles(t, i) \/ Sources!Deletes(t, i) \/ Sources!Refreshes(t, i) \/ Sources!Edits(t, i)
  PROVE  SrcInv'
<1>0. SInv(SrcLists) /\ SrcTypes /\ UploadedOnly
  BY DEF SrcInv
<1>1. Sources!Listed(i) <=> Has(Parsed(main), i)
  BY SourcesStore DEF Sources!Listed, Has
<1>2. Parsed(main) \in SrcLists /\ \A e \in Parsed(main) : e.id \in used
  BY <1>0, ListsOfSources DEF UploadedOnly
<1>3. Has(Parsed(main), i) => i \in used
  BY <1>2 DEF Has
<1>4. work[t].at = "idle" =>
        (Validated(i) <=> \E u \in Threads \ {t} : work[u].at = "validate" /\ work[u].id = i)
  BY DEF Validated
<1>5. CASE Sources!Toggles(t, i)
  <2> DEFINE v == {IF e.id = i THEN Sources!Source(i, ~e.on) ELSE e : e \in Parsed(main)}
  <2>1. Sources!Begins(t, i, v, "save")
    BY <1>5, SourcesStore DEF Sources!Toggles
  <2>2. v \in SrcLists /\ \A j : Has(v, j) <=> Has(Parsed(main), j)
    BY <1>2, ToggledIsList
  <2>3. \A e \in v : e.id \in used
    <3>1. \A e \in v : Has(v, e.id)
      BY DEF Has
    <3>2. \A e \in v : Has(Parsed(main), e.id)
      BY <2>2, <3>1
    <3> QED BY <1>2, <3>2 DEF Has
  <2> HIDE DEF v
  <2>4. OwnSourceOnly(i, v, "save")
    BY <2>2, <2>3 DEF OwnSourceOnly
  <2>5. TakesUpList(t, i, v, "save") /\ work[t].at = "idle"
    BY <2>1, BeginsTakesUp
  <2>6. ~spoilt /\ i \notin tangled /\ Settled(i) => InStep(t, i, v, "save")
    BY <1>4, <2>2, <2>5, SettledFacts DEF InStep
  <2> QED BY <2>4, <2>5, <2>6, TakesUpKeeps
<1>6. CASE Sources!Deletes(t, i)
  <2> DEFINE v == {e \in Parsed(main) : e.id # i}
             at == IF Has(Parsed(main), i) THEN "remove" ELSE "save"
  <2>1. Sources!Begins(t, i, v, at)
    BY <1>1, <1>6, SourcesStore DEF Sources!Deletes
  <2>2. ~Has(v, i) /\ \A j : j # i => (Has(v, j) <=> Has(Parsed(main), j))
    BY DEF Has
  <2>3. OwnSourceOnly(i, v, at)
    BY <1>2, <1>3, <2>2 DEF OwnSourceOnly, SrcLists
  <2>4. TakesUpList(t, i, v, at) /\ work[t].at = "idle"
    BY <2>1, BeginsTakesUp
  <2>5. ~spoilt /\ i \notin tangled /\ Settled(i) => InStep(t, i, v, at)
    BY <1>4, <2>2, <2>4, SettledFacts DEF InStep
  <2> QED BY <2>3, <2>4, <2>5, TakesUpKeeps
<1>7. CASE Sources!Refreshes(t, i)
  <2> DEFINE at == IF Has(Parsed(main), i) THEN "check" ELSE "save"
  <2>1. Sources!Begins(t, i, Parsed(main), at)
    BY <1>1, <1>7, SourcesStore DEF Sources!Refreshes
  <2>2. OwnSourceOnly(i, Parsed(main), at)
    BY <1>2, <1>3 DEF OwnSourceOnly
  <2>3. TakesUpList(t, i, Parsed(main), at) /\ work[t].at = "idle"
    BY <2>1, BeginsTakesUp
  <2>4. ~spoilt /\ i \notin tangled /\ Settled(i) => InStep(t, i, Parsed(main), at)
    BY <1>4, <2>3, SettledFacts DEF InStep
  <2> QED BY <2>2, <2>3, <2>4, TakesUpKeeps
<1>8. CASE Sources!Edits(t, i)
  <2>1. Sources!Begins(t, i, Parsed(main), "rewrite") /\ Has(Parsed(main), i)
    BY <1>1, <1>8, SourcesStore DEF Sources!Edits
  <2>2. OwnSourceOnly(i, Parsed(main), "rewrite")
    BY <1>2, <1>3, <2>1 DEF OwnSourceOnly
  <2>3. TakesUpList(t, i, Parsed(main), "rewrite") /\ work[t].at = "idle"
    BY <2>1, BeginsTakesUp
  <2>4. ~spoilt /\ i \notin tangled /\ Settled(i) => InStep(t, i, Parsed(main), "rewrite")
    BY <1>4, <2>1, <2>3, SettledFacts DEF InStep
  <2> QED BY <2>2, <2>3, <2>4, TakesUpKeeps
<1> QED BY <1>5, <1>6, <1>7, <1>8

LEMMA AppendsKeep ==
  ASSUME SrcInv, Sources!NoSource \notin Files, NEW t \in Threads, Sources!Appends(t)
  PROVE  SrcInv'
<1>0. SInv(SrcLists) /\ SrcTypes /\ UploadedOnly
  BY DEF SrcInv
<1>1. /\ work[t].at = "validate"
      /\ Loads(t, Parsed(main) \cup {Sources!Source(work[t].id, TRUE)})
      /\ Sources!Turns(t, "save")
      /\ tangled' = tangled \cup ({work'[u].id : u \in overlapped'} \ {Sources!NoSource})
      /\ UNCHANGED <<csv, used>>
  BY SourcesStore DEF Sources!Appends, Sources!Entangles
<1>2. PICK i \in Files : i = work[t].id /\ i \in used
  BY <1>0, <1>1 DEF SrcTypes
<1> DEFINE v == Parsed(main) \cup {Sources!Source(i, TRUE)}
<1>3. /\ work' \in [Threads -> SrcWorks] /\ work'[t].at = "save" /\ work'[t].id = i
      /\ \A u \in Threads \ {t} : work'[u] = work[u]
  BY <1>0, <1>1, <1>2, TurnsFacts
<1>4. TakesUpList(t, i, v, "save")
  BY <1>1, <1>2, <1>3 DEF TakesUpList
<1>5. Has(v, i) /\ \A j : j # i => (Has(v, j) <=> Has(Parsed(main), j))
  <2>1. Sources!Source(i, TRUE).id = i
    BY DEF Sources!Source
  <2>2. \A e \in v : e \in Parsed(main) \/ e.id = i
    BY <2>1
  <2>3. Parsed(main) \subseteq v /\ Sources!Source(i, TRUE) \in v
    OBVIOUS
  <2> HIDE DEF v
  <2>4. Has(v, i)
    BY <2>1, <2>3 DEF Has
  <2>5. \A j : j # i => (Has(v, j) <=> Has(Parsed(main), j))
    BY <2>2, <2>3 DEF Has
  <2> QED BY <2>4, <2>5
<1>6. v \in SrcLists /\ \A e \in v : e.id \in used
  <2>1. Parsed(main) \in SrcLists /\ \A e \in Parsed(main) : e.id \in used
    BY <1>0, ListsOfSources DEF UploadedOnly
  <2>2. Sources!Source(i, TRUE) \in SrcEntries /\ Sources!Source(i, TRUE).id = i
    BY DEF Sources!Source, SrcEntries
  <2> QED BY <1>2, <2>1, <2>2 DEF SrcLists
<1> HIDE DEF v
<1>7. OwnSourceOnly(i, v, "save")
  BY <1>5, <1>6 DEF OwnSourceOnly
<1>8. ~spoilt /\ i \notin tangled => InStep(t, i, v, "save")
  <2>1. ~ \E u \in Threads \ {t} : work[u].at = "validate" /\ work[u].id = i
    BY <1>0, <1>1, <1>2 DEF UploadedOnly
  <2>2. ~spoilt /\ i \notin tangled => i \in csv
    BY <1>1, <1>2 DEF SrcInv, FileAndEntry, Validated
  <2> QED BY <1>5, <2>1, <2>2 DEF InStep
<1> QED BY <1>4, <1>7, <1>8, TakesUpKeeps

\* Which of the two files a save step changes, and when.
LEMMA SaveMoves ==
  ASSUME SInv(SrcLists), NEW t \in Threads, SaveStep(t)
  PROVE  /\ \/ main' = main
            \/ main' = tmp /\ tmp # Absent /\ saving[t] = "replace"
            \/ saving[t] = "dump" /\ main' \in {Json(copy[t]), Torn}
         /\ \/ tmp' \in {Blank, Absent}
            \/ saving[t] \in {"dump", "replace", "remove"} /\ tmp' \in {tmp, Json(copy[t]), Torn}
<1>1. CASE Opens(t)
  BY <1>1 DEF Opens, OpenTmp
<1>2. CASE Dumps(t)
  <2>1. AfterDump(t, tmp, copy[t]) \subseteq {Json(copy[t]), Torn}
        /\ AfterDump(t, main, copy[t]) \subseteq {Json(copy[t]), Torn}
    BY DEF AfterDump
  <2> QED BY <1>2, <2>1 DEF Dumps, DumpAndClose, Goes
<1>3. CASE Replaces(t)
  BY <1>3 DEF Replaces, Replace, Goes
<1>4. CASE ReplaceRaises(t)
  BY <1>4 DEF ReplaceRaises, fileVars
<1>5. CASE Removes(t)
  BY <1>5 DEF Removes, RemoveTmp
<1> QED BY <1>1, <1>2, <1>3, <1>4, <1>5 DEF SaveStep

\* A save that nobody met ends with its own list in the file.
LEMMA AloneSaves ==
  ASSUME SInv(SrcLists), NEW t \in Threads, Alone(t), SaveStep(t)
  PROVE  \/ Saving(t)' /\ main' = main
         \/ ~Saving(t)' /\ main' = Json(copy[t])
<1>1. /\ saving[t] # "remove"
      /\ saving[t] = "dump" => fd[t] = "tmp"
      /\ saving[t] = "replace" => tmp = Json(copy[t])
      /\ saving \in [Threads -> {"no", "open", "dump", "replace", "remove"}]
  BY DEF SInv, ThreadTrue, AloneIsAtomic, StoreOK
<1>2. CASE Opens(t)
  BY <1>1, <1>2 DEF Opens, OpenTmp, Goes, Saving
<1>3. CASE Dumps(t)
  BY <1>1, <1>3 DEF Dumps, DumpAndClose, Goes, Saving
<1>4. CASE Replaces(t)
  BY <1>1, <1>4 DEF Replaces, Replace, Goes, Saving
<1>5. CASE ReplaceRaises(t)
  <2>1. saving[t] = "replace" /\ tmp = Absent
    BY <1>5 DEF ReplaceRaises, Goes
  <2> QED BY <1>1, <2>1 DEF Json, Absent
<1>6. CASE Removes(t)
  BY <1>1, <1>6 DEF Removes, Goes
<1> QED BY <1>2, <1>3, <1>4, <1>5, <1>6 DEF SaveStep

SavesFacts(t) ==
  /\ work[t].at = "save" /\ Saving(t) /\ SaveStep(t)
  /\ csv' = csv /\ used' = used /\ tangled' = tangled
  /\ \A u \in Threads \ {t} : /\ work'[u] = work[u] /\ saving'[u] = saving[u] /\ copy'[u] = copy[u]
                              /\ Saving(u)' <=> Saving(u)
  /\ Saving(t)' => work'[t] = work[t] /\ copy'[t] = copy[t]
  /\ ~Saving(t)' => work'[t] = Sources!Idle
  /\ work' \in [Threads -> SrcWorks]
  /\ spoilt' = (spoilt \/ main' \in {Blank, Torn})
  /\ overlapped' \subseteq overlapped

LEMMA SavesListFacts ==
  ASSUME SInv(SrcLists), SrcTypes, NEW t \in Threads, Sources!SavesList(t)
  PROVE  SavesFacts(t) /\ SInv(SrcLists)'
<1>1. /\ work[t].at = "save" /\ SaveStep(t)
      /\ work' = IF saving'[t] = "no" THEN [work EXCEPT ![t] = Sources!Idle] ELSE work
      /\ UNCHANGED <<csv, used, tangled>>
  BY SourcesStore DEF Sources!SavesList
<1>2. /\ Saving(t) /\ spoilt' = (spoilt \/ main' \in {Blank, Torn})
      /\ \A u \in Threads \ {t} : saving'[u] = saving[u] /\ copy'[u] = copy[u]
      /\ Saving(t)' => copy'[t] = copy[t]
      /\ overlapped' \subseteq overlapped
  BY <1>1, SaveStepEffect DEF SInv
<1>3. work \in [Threads -> SrcWorks] /\ Sources!Idle \in SrcWorks
  BY DEF SrcTypes, SrcWorks, Sources!Idle
<1>4. /\ \A u \in Threads \ {t} : work'[u] = work[u]
      /\ Saving(t)' => work'[t] = work[t]
      /\ ~Saving(t)' => work'[t] = Sources!Idle
      /\ work' \in [Threads -> SrcWorks]
  BY <1>1, <1>3 DEF Saving
<1>5. \A u \in Threads \ {t} : Saving(u)' <=> Saving(u)
  BY <1>2 DEF Saving
<1>6. SInv(SrcLists)'
  <2>1. {} \in SrcLists /\ StoreNext(SrcLists)
    BY <1>1 DEF SrcLists, StoreNext
  <2> QED BY <2>1, StoreNextKeeps
<1> QED BY <1>1, <1>2, <1>4, <1>5, <1>6 DEF SavesFacts

LEMMA SavesTypes ==
  ASSUME SInv(SrcLists), SrcTypes, UploadedOnly, Sources!NoSource \notin Files,
         NEW t \in Threads, SavesFacts(t), SInv(SrcLists)'
  PROVE  SrcTypes' /\ UploadedOnly'
<1>1. \A u \in Threads : u \in overlapped' => Saving(u)'
  BY DEF SInv, ThreadTrue
<1>2. SrcTypes'
  <2>1. ~Saving(t)' => work'[t].at = "idle"
    BY DEF SavesFacts, Sources!Idle
  <2>2. Saving(t)' => work'[t].at = "save" /\ work'[t].id = work[t].id
    BY DEF SavesFacts
  <2>3. \A u \in Threads : work'[u].at = "idle" => work'[u] = Sources!Idle
    BY <2>2 DEF SavesFacts, SrcTypes
  <2>4. \A u \in Threads : /\ work'[u].at # "idle" => work'[u].id \in Files
                           /\ Saving(u)' <=> work'[u].at \notin {"idle", "validate"}
                           /\ work'[u].at \notin {"idle", "save"} => work'[u].id \in used'
    BY <2>1, <2>2 DEF SavesFacts, SrcTypes
  <2>5. \A u \in Threads : u \in overlapped' => work'[u].id \in tangled'
    BY <1>1 DEF SavesFacts, SrcTypes
  <2> QED BY <2>3, <2>4, <2>5 DEF SavesFacts, SrcTypes
<1>3. UploadedOnly'
  <2>1. copy[t] \in SrcLists /\ \A e \in copy[t] : e.id \in used
    BY ListsOfSources DEF UploadedOnly
  <2>2. Parsed(main)' \subseteq Parsed(main) \cup Parsed(tmp) \cup copy[t]
    BY SaveMoves DEF SavesFacts, Parsed, Json, Torn
  <2>3. Parsed(tmp)' \subseteq Parsed(tmp) \cup copy[t]
    BY SaveMoves DEF SavesFacts, Parsed, Json, Torn, Blank, Absent
  <2>4. \A e \in Parsed(main)' \cup Parsed(tmp)' : e.id \in used'
    BY <2>1, <2>2, <2>3 DEF UploadedOnly, SavesFacts
  <2>5. \A u \in Threads : \A e \in copy'[u] : e.id \in used'
    <3>1. ~Saving(t)' => copy'[t] = {}
      BY DEF SInv, ThreadTrue
    <3> QED BY <3>1 DEF UploadedOnly, SavesFacts
  <2>6. \A u, w \in Threads :
          work'[u].at = "validate" /\ work'[w].at = "validate" /\ work'[u].id = work'[w].id => u = w
    <3>1. work'[t].at # "validate"
      BY DEF SavesFacts, Sources!Idle
    <3> QED BY <3>1 DEF UploadedOnly, SavesFacts
  <2> QED BY <2>4, <2>5, <2>6 DEF UploadedOnly
<1> QED BY <1>2, <1>3

LEMMA SavesForOthers ==
  ASSUME SrcInv, Sources!NoSource \notin Files, NEW t \in Threads, SavesFacts(t), SInv(SrcLists)',
         NEW j \in Files \ tangled, j # work[t].id, ~spoilt'
  PROVE  Agreed(j)' /\ FileAndEntry(j)'
<1>0. SInv(SrcLists) /\ SrcTypes /\ UploadedOnly
  BY DEF SrcInv
<1>1. ~spoilt /\ main' \notin {Blank, Torn}
  BY DEF SavesFacts
<1>2. Agreed(j) /\ FileAndEntry(j)
  BY <1>1 DEF SrcInv
<1>3. Settled(j)
  <2> SUFFICES ASSUME NEW u \in Threads, Saving(u), work[u].id = j PROVE FALSE
    BY DEF Settled
  <2> QED BY <1>0, OnlySaver DEF SavesFacts
<1>4. \A u \in Threads : Saving(u) => (Has(copy[u], j) <=> Has(Parsed(main), j))
  BY <1>2, <1>3 DEF Agreed
<1>5. Has(copy[t], j) <=> Has(Parsed(main), j)
  BY <1>4 DEF SavesFacts
<1>6. Has(Parsed(main)', j) <=> Has(Parsed(main), j)
  <2>1. CASE main' = main
    BY <2>1 DEF Parsed
  <2>2. CASE main' = tmp /\ tmp # Absent /\ saving[t] = "replace"
    <3>1. tmp.st = "json" /\ Written
      BY <1>0, <1>1, <2>2 DEF SInv, StoreOK, FileOK, Written
    <3> QED BY <1>2, <1>3, <2>2, <3>1 DEF Agreed, Parsed
  <2>3. CASE main' = Json(copy[t])
    BY <1>5, <2>3 DEF Parsed, Json
  <2> QED BY <1>0, <1>1, <2>1, <2>2, <2>3, SaveMoves DEF SavesFacts
<1>7. \A u \in Threads : work'[u].id = j => u # t /\ work'[u] = work[u] /\ copy'[u] = copy[u]
  BY DEF SavesFacts, Sources!Idle
<1>8. Validated(j)' <=> Validated(j)
  BY DEF Validated, SavesFacts, Sources!Idle
<1>9. \A u \in Threads : ~Saving(u)' => copy'[u] = {}
  BY DEF SInv, ThreadTrue
<1>10. Agreed(j)'
  <2>1. \A u \in Threads : Saving(u)' => (Has(copy'[u], j) <=> Has(Parsed(main)', j))
    BY <1>4, <1>6 DEF SavesFacts
  <2>2. ASSUME Written', tmp'.st = "json" PROVE Has(tmp'.val, j) <=> Has(Parsed(main)', j)
    <3>1. saving[t] \in {"dump", "replace", "remove"} /\ tmp' \in {tmp, Json(copy[t])}
      BY <1>0, <2>2, SaveMoves DEF SavesFacts, Torn, Blank, Absent
    <3>2. Written
      BY <3>1 DEF Written
    <3> QED BY <1>2, <1>3, <1>5, <1>6, <2>2, <3>1, <3>2 DEF Agreed, Json
  <2> QED BY <2>1, <2>2 DEF Agreed, Has
<1>11. FileAndEntry(j)'
  <2>1. Validated(j)' => j \in csv' /\ ~Has(Parsed(main)', j) /\ \A u \in Threads : ~Has(copy'[u], j)
    <3>1. Validated(j) => \A u \in Threads : ~Has(copy'[u], j)
      BY <1>2, <1>9 DEF FileAndEntry, SavesFacts, Has
    <3> QED BY <1>2, <1>6, <1>8, <3>1 DEF FileAndEntry, SavesFacts
  <2>2. ~Validated(j)' => (Has(Parsed(main)', j) <=> j \in csv')
    BY <1>2, <1>3, <1>6, <1>8 DEF FileAndEntry, SavesFacts
  <2>3. \A u \in Threads : work'[u].id = j =>
       /\ work'[u].at = "remove" => ~Has(copy'[u], j) /\ ~Validated(j)'
       /\ work'[u].at = "check" => Has(copy'[u], j) /\ ~Validated(j)' /\ j \in csv'
       /\ work'[u].at = "rewrite" => Has(copy'[u], j) /\ ~Validated(j)'
       /\ work'[u].at = "save" => (Has(copy'[u], j) <=> j \in csv' /\ ~Validated(j)')
    <3>1. csv' = csv
      BY DEF SavesFacts
    <3> QED BY <1>2, <1>7, <1>8, <3>1 DEF FileAndEntry
  <2> QED BY <2>1, <2>2, <2>3 DEF FileAndEntry, Has
<1> QED BY <1>10, <1>11

LEMMA SavesOwn ==
  ASSUME SrcInv, Sources!NoSource \notin Files, NEW t \in Threads, SavesFacts(t), SInv(SrcLists)',
         NEW i \in Files \ tangled, i = work[t].id, ~spoilt'
  PROVE  Agreed(i)' /\ FileAndEntry(i)'
<1>0. SInv(SrcLists) /\ SrcTypes /\ UploadedOnly
  BY DEF SrcInv
<1>1. ~spoilt /\ Agreed(i) /\ FileAndEntry(i) /\ work[t].at = "save" /\ csv' = csv
  BY DEF SavesFacts, SrcInv
<1>2. /\ Alone(t)
      /\ \A u \in Threads \ {t} : ~Saving(u) /\ copy[u] = {} /\ work[u].at \in {"idle", "validate"}
  BY <1>0, OnlySaver DEF SavesFacts
<1>3. Validated(i)' <=> Validated(i)
  BY <1>1 DEF Validated, SavesFacts, Sources!Idle
<1>4. CASE Saving(t)' /\ main' = main
  <2>1. work'[t] = work[t] /\ copy'[t] = copy[t]
    BY <1>4 DEF SavesFacts
  <2>2. ~Settled(i)'
    BY <1>4, <2>1 DEF Settled
  <2>3. \A u \in Threads : work'[u] = work[u] /\ copy'[u] = copy[u]
    BY <2>1 DEF SavesFacts
  <2>4. \A u \in Threads : work'[u].id = i =>
       /\ work'[u].at = "remove" => ~Has(copy'[u], i) /\ ~Validated(i)'
       /\ work'[u].at = "check" => Has(copy'[u], i) /\ ~Validated(i)' /\ i \in csv'
       /\ work'[u].at = "rewrite" => Has(copy'[u], i) /\ ~Validated(i)'
       /\ work'[u].at = "save" => (Has(copy'[u], i) <=> i \in csv' /\ ~Validated(i)')
    BY <1>1, <1>3, <2>3 DEF FileAndEntry
  <2>5. Validated(i)' => i \in csv' /\ ~Has(Parsed(main)', i) /\ \A u \in Threads : ~Has(copy'[u], i)
    BY <1>1, <1>3, <1>4, <2>3 DEF FileAndEntry, Parsed
  <2> QED BY <2>2, <2>4, <2>5 DEF Agreed, FileAndEntry, Has
<1>5. CASE ~Saving(t)' /\ main' = Json(copy[t])
  <2>1. \A u \in Threads : ~Saving(u)' /\ work'[u].at \in {"idle", "validate"}
    BY <1>2, <1>5 DEF SavesFacts, Sources!Idle
  <2>2. \A u \in Threads : copy'[u] = {}
    BY <2>1 DEF SInv, ThreadTrue
  <2>3. Has(Parsed(main)', i) <=> Has(copy[t], i)
    BY <1>5 DEF Parsed, Json
  <2>4. Has(copy[t], i) <=> i \in csv /\ ~Validated(i)
    BY <1>1 DEF FileAndEntry
  <2>5. Agreed(i)'
    <3>1. ~Written'
      BY <2>1 DEF Written, Saving
    <3> QED BY <2>1, <3>1 DEF Agreed
  <2>6. Validated(i)' => i \in csv' /\ ~Has(Parsed(main)', i) /\ \A u \in Threads : ~Has(copy'[u], i)
    BY <1>1, <1>3, <2>2, <2>3, <2>4 DEF FileAndEntry, Has
  <2>7. ~Validated(i)' => (Has(Parsed(main)', i) <=> i \in csv')
    BY <1>1, <1>3, <2>3, <2>4
  <2>8. FileAndEntry(i)'
    BY <2>1, <2>6, <2>7 DEF FileAndEntry, Has
  <2> QED BY <2>5, <2>8
<1> QED BY <1>0, <1>2, <1>4, <1>5, AloneSaves DEF SavesFacts

LEMMA SavesKeep ==
  ASSUME SrcInv, Sources!NoSource \notin Files, NEW t \in Threads, Sources!SavesList(t)
  PROVE  SrcInv'
<1>1. SavesFacts(t) /\ SInv(SrcLists)'
  BY SavesListFacts DEF SrcInv
<1>2. SrcTypes' /\ UploadedOnly'
  BY <1>1, SavesTypes DEF SrcInv
<1>3. ASSUME ~spoilt', NEW j \in Files \ tangled PROVE Agreed(j)' /\ FileAndEntry(j)'
  BY <1>1, <1>3, SavesForOthers, SavesOwn
<1>4. tangled' = tangled
  BY <1>1 DEF SavesFacts
<1> QED BY <1>1, <1>2, <1>3, <1>4 DEF SrcInv

LEMMA DeathKeeps ==
  ASSUME SrcInv, Sources!NoSource \notin Files, Sources!ServerDies
  PROVE  SrcInv'
<1>1. /\ StoreCrash
      /\ tangled' = tangled \cup ({work[t].id : t \in Threads} \ {Sources!NoSource})
      /\ work' = [t \in Threads |-> Sources!Idle]
      /\ UNCHANGED <<csv, used>>
  BY SourcesStore DEF Sources!ServerDies
<1>2. SInv(SrcLists) /\ SrcTypes /\ UploadedOnly
  BY DEF SrcInv
<1>3. /\ UNCHANGED <<main, tmp, spoilt>> /\ saving' = [t \in Threads |-> "no"]
      /\ copy' = [t \in Threads |-> {}] /\ overlapped' = {}
  BY <1>1 DEF StoreCrash, CloseAll
<1>4. SInv(SrcLists)'
  <2>1. {} \in SrcLists /\ StoreNext(SrcLists)
    BY <1>1 DEF SrcLists, StoreNext
  <2> QED BY <1>2, <2>1, StoreNextKeeps
<1>5. \A t \in Threads : ~Saving(t)' /\ work'[t] = Sources!Idle /\ work'[t].at = "idle" /\ copy'[t] = {}
  BY <1>1, <1>3 DEF Saving, Sources!Idle
<1>6. SrcTypes'
  <2>1. work' \in [Threads -> SrcWorks]
    BY <1>1 DEF SrcWorks, Sources!Idle
  <2> QED BY <1>1, <1>2, <1>3, <1>5, <2>1 DEF SrcTypes
<1>7. UploadedOnly'
  BY <1>1, <1>2, <1>3, <1>5 DEF UploadedOnly, Parsed
<1>8. ASSUME ~spoilt', NEW j \in Files \ tangled' PROVE Agreed(j)' /\ FileAndEntry(j)'
  <2>1. ~spoilt /\ j \notin tangled /\ \A t \in Threads : work[t].id # j
    BY <1>1, <1>3, <1>8
  <2>2. FileAndEntry(j) /\ Settled(j) /\ ~Validated(j)
    BY <2>1 DEF SrcInv, Settled, Validated
  <2>3. Has(Parsed(main), j) <=> j \in csv
    BY <2>2 DEF FileAndEntry
  <2>4. ~Validated(j)' /\ ~Written'
    BY <1>3, <1>5 DEF Validated, Written
  <2>5. Agreed(j)'
    BY <1>5, <2>4 DEF Agreed
  <2>6. Has(Parsed(main), j)' <=> j \in csv'
    BY <1>1, <1>3, <2>3 DEF Has, Parsed
  <2> QED BY <1>5, <2>4, <2>5, <2>6 DEF FileAndEntry
<1> QED BY <1>4, <1>6, <1>7, <1>8 DEF SrcInv

LEMMA SourcesBegin == Sources!SourcesInit => SrcInv
<1> SUFFICES ASSUME Sources!SourcesInit PROVE SrcInv
  OBVIOUS
<1>1. /\ StoreInit /\ work = [t \in Threads |-> Sources!Idle]
      /\ csv = {} /\ used = {} /\ tangled = {}
  BY SourcesStore DEF Sources!SourcesInit
<1>2. SInv(SrcLists)
  BY <1>1, InitSInv
<1>3. /\ main = Absent /\ tmp = Absent /\ saving = [t \in Threads |-> "no"]
      /\ copy = [t \in Threads |-> {}] /\ overlapped = {}
  BY <1>1 DEF StoreInit, FileInit
<1>4. \A t \in Threads : ~Saving(t) /\ work[t] = Sources!Idle /\ work[t].at = "idle" /\ copy[t] = {}
  BY <1>1, <1>3 DEF Saving, Sources!Idle
<1>5. Parsed(main) = {} /\ Parsed(tmp) = {}
  BY <1>3 DEF Parsed, Absent
<1>6. SrcTypes
  <2>1. work \in [Threads -> SrcWorks]
    BY <1>1 DEF SrcWorks, Sources!Idle
  <2> QED BY <1>1, <1>3, <1>4, <2>1 DEF SrcTypes
<1>7. UploadedOnly
  BY <1>4, <1>5 DEF UploadedOnly
<1>8. ASSUME NEW j \in Files PROVE Agreed(j) /\ FileAndEntry(j)
  <2>1. ~Validated(j) /\ ~Written
    BY <1>3, <1>4 DEF Validated, Written
  <2> QED BY <1>1, <1>4, <1>5, <2>1 DEF Agreed, FileAndEntry, Has
<1> QED BY <1>2, <1>6, <1>7, <1>8 DEF SrcInv

LEMMA SourcesRest == SrcInv /\ UNCHANGED Sources!sourcesVars => SrcInv'
<1> SUFFICES ASSUME SrcInv, UNCHANGED Sources!sourcesVars PROVE SrcInv'
  OBVIOUS
<1>1. UNCHANGED storeVars /\ UNCHANGED <<work, csv, used, tangled>>
  BY SourcesStore DEF Sources!sourcesVars
<1>2. UNCHANGED <<main, tmp, fd, saving, copy, base, overlapped, spoilt, removed>>
  BY <1>1 DEF storeVars, histVars, fileVars
<1>3. SInv(SrcLists)'
  BY <1>2 DEF SrcInv, SInv, StoreOK, FileOK, ThreadTrue, AloneIsAtomic, RemovedStays, Alone, Saving, Parsed
<1>4. \A u : Saving(u)' <=> Saving(u)
  BY <1>2 DEF Saving
<1>5. SrcTypes' /\ UploadedOnly'
  BY <1>1, <1>2, <1>4 DEF SrcInv, SrcTypes, UploadedOnly, Parsed
<1>6. \A j : (Agreed(j)' <=> Agreed(j)) /\ (FileAndEntry(j)' <=> FileAndEntry(j))
  BY <1>1, <1>2, <1>4 DEF Agreed, FileAndEntry, Settled, Validated, Written, Has, Parsed
<1> QED BY <1>1, <1>2, <1>3, <1>5, <1>6 DEF SrcInv

LEMMA SourcesStep ==
  Sources!NoSource \notin Files /\ SrcInv /\ [Sources!SourcesNext]_(Sources!sourcesVars) => SrcInv'
<1> SUFFICES ASSUME Sources!NoSource \notin Files, SrcInv, [Sources!SourcesNext]_(Sources!sourcesVars)
             PROVE  SrcInv'
  OBVIOUS
<1>1. CASE UNCHANGED Sources!sourcesVars
  BY <1>1, SourcesRest
<1>2. ASSUME NEW t \in Threads, NEW i \in Files,
             \/ Sources!Uploads(t, i) \/ Sources!Toggles(t, i) \/ Sources!Deletes(t, i)
             \/ Sources!Refreshes(t, i) \/ Sources!Edits(t, i)
      PROVE  SrcInv'
  BY <1>2, UploadsKeep, BeginsKeep
<1>3. ASSUME NEW t \in Threads,
             \/ Sources!Rejects(t) \/ Sources!Appends(t) \/ Sources!RemovesCsv(t)
             \/ Sources!Checks(t) \/ Sources!Rewrites(t) \/ Sources!SavesList(t)
      PROVE  SrcInv'
  BY <1>3, RejectsKeep, AppendsKeep, CsvStepsKeep, SavesKeep
<1>4. CASE Sources!ServerDies
  BY <1>4, DeathKeeps
<1> QED BY <1>1, <1>2, <1>3, <1>4 DEF Sources!SourcesNext

LEMMA SourcesHold == SrcInv => Sources!SourcesHaveFiles
<1> SUFFICES ASSUME SrcInv, ~spoilt, NEW i \in used \ tangled, \A t \in Threads : work[t].id # i
             PROVE  Sources!Listed(i) <=> i \in csv
  BY DEF Sources!SourcesHaveFiles
<1>1. i \in Files
  BY DEF SrcInv, SrcTypes
<1>2. Settled(i) /\ ~Validated(i)
  BY DEF Settled, Validated
<1>3. Has(Parsed(main), i) <=> i \in csv
  BY <1>1, <1>2 DEF SrcInv, FileAndEntry
<1> QED BY <1>3, SourcesStore DEF Sources!Listed, Has

------------------------------------------------------------------------------
(* The log of a run.                                                         *)

StreamTypes ==
  /\ log \in Seq(Nat)
  /\ lines \in Nat
  /\ streams \in [Threads -> [at : {"new", "backlog", "tail", "poll", "end"}, pos : Nat]]
  /\ sent \in [Threads -> SUBSET Nat]
  /\ late \in [Threads -> Nat]
  /\ buried \subseteq Nat

\* The CLI's n-th line is the n-th of the log: what cancels add comes after its lines, and
\* its next line takes that place.
InPlace ==
  /\ offset = lines /\ lines <= Len(log)
  /\ \A n \in 1..lines : log[n] = n

\* A stream has sent the lines it has read past, and those there were at its last read;
\* the others that were written since were written over a marker.
ReadAreSent ==
  \A s \in Threads :
    /\ streams[s].pos <= Len(log) /\ late[s] <= lines
    /\ \A n \in (1..lines) \ buried :
         n <= streams[s].pos \/ n <= late[s] => n \in sent[s]

StreamInv == StreamTypes /\ InPlace /\ ReadAreSent

------------------------------------------------------------------------------
LEMMA InitStreamInv == Stream!StreamInit => StreamInv
<1> SUFFICES ASSUME Stream!StreamInit PROVE StreamInv
  OBVIOUS
<1> USE DEF Stream!StreamInit
<1>1. StreamTypes
  BY DEF StreamTypes
<1>2. Len(log) = 0
  OBVIOUS
<1> QED BY <1>1, <1>2 DEF StreamInv, InPlace, ReadAreSent

\* A line goes to its place, at the end of the log or over what a cancel has added.
LEMMA WritesLineKeeps == StreamInv /\ Stream!WritesLine => StreamInv'
<1> SUFFICES ASSUME StreamInv, Stream!WritesLine PROVE StreamInv'
  OBVIOUS
<1>0. /\ log \in Seq(Nat) /\ Len(log) \in Nat /\ lines \in Nat /\ offset = lines
      /\ lines <= Len(log) /\ \A n \in 1..lines : log[n] = n
      /\ lines' = lines + 1 /\ offset' = lines + 1
  BY DEF StreamInv, StreamTypes, InPlace, Stream!WritesLine
<1>1. /\ log' \in Seq(Nat)
      /\ lines + 1 <= Len(log') /\ Len(log) <= Len(log')
      /\ log'[lines + 1] = lines + 1
      /\ \A n \in 1..lines : log'[n] = log[n]
  <2>1. CASE offset < Len(log)
    <3>1. log' = [log EXCEPT ![lines + 1] = lines + 1] /\ lines + 1 \in 1..Len(log)
      BY <1>0, <2>1 DEF Stream!WritesLine
    <3>2. /\ log' \in Seq(Nat) /\ Len(log') = Len(log)
          /\ \A n \in 1..Len(log) : log'[n] = IF n = lines + 1 THEN lines + 1 ELSE log[n]
      BY <1>0, <3>1, ExceptSeq
    <3>3. lines + 1 \in 1..Len(log)
      BY <3>1
    <3> QED BY <1>0, <3>2, <3>3
  <2>2. CASE ~(offset < Len(log))
    <3>1. log' = Append(log, lines + 1) /\ lines = Len(log)
      BY <1>0, <2>2 DEF Stream!WritesLine
    <3>2. lines = Len(log)
      BY <3>1
    <3>3. /\ log' \in Seq(Nat) /\ Len(log') = lines + 1 /\ log'[lines + 1] = lines + 1
          /\ \A n \in 1..lines : log'[n] = log[n]
      BY <1>0, <3>1, AppendProperties
    <3> QED BY <1>0, <3>2, <3>3
  <2> QED BY <2>1, <2>2
<1>2. StreamTypes'
  <2>1. lines' \in Nat /\ buried' \subseteq Nat
    <3>1. buried' \in {buried, buried \cup {lines + 1}}
      BY DEF Stream!WritesLine
    <3>2. buried \subseteq Nat /\ lines' \in Nat /\ lines + 1 \in Nat
      BY <1>0 DEF StreamInv, StreamTypes
    <3> QED BY <3>1, <3>2
  <2>2. UNCHANGED <<streams, sent, late>>
    BY DEF Stream!WritesLine
  <2> QED BY <1>1, <2>1, <2>2 DEF StreamInv, StreamTypes
<1>3. InPlace'
  <2>1. ASSUME NEW n \in 1..(lines + 1) PROVE log'[n] = n
    <3>1. CASE n = lines + 1
      BY <1>1, <3>1
    <3>2. CASE n # lines + 1
      <4>1. n \in 1..lines
        BY <1>0, <3>2
      <4>2. log'[n] = log[n] /\ log[n] = n
        BY <1>0, <1>1, <4>1
      <4> QED BY <4>2
    <3> QED BY <3>1, <3>2
  <2>2. \A n \in 1..lines' : log'[n] = n
    BY <1>0, <2>1
  <2>3. offset' = lines' /\ lines' <= Len(log')
    BY <1>0, <1>1
  <2> QED BY <2>2, <2>3 DEF InPlace
<1>4. ASSUME NEW s \in Threads PROVE ReadAreSent!(s)'
  <2>1. streams[s].pos <= Len(log') /\ late[s] <= lines + 1
    BY <1>0, <1>1 DEF StreamInv, StreamTypes, ReadAreSent
  <2>2. ASSUME NEW n \in (1..(lines + 1)) \ buried', n <= streams[s].pos \/ n <= late[s]
        PROVE  n \in sent[s]
    <3>1. CASE n = lines + 1
      \* It is not where the stream has been: then it was written over a marker.
      <4>1. n <= streams[s].pos
        BY <1>0, <2>2, <3>1 DEF StreamInv, StreamTypes, ReadAreSent
      <4>2. offset < Len(log)
        BY <1>0, <3>1, <4>1 DEF StreamInv, StreamTypes, ReadAreSent
      <4> QED BY <1>0, <2>2, <3>1, <4>2 DEF Stream!WritesLine
    <3>2. CASE n # lines + 1
      BY <1>0, <2>2, <3>2 DEF StreamInv, ReadAreSent, Stream!WritesLine
    <3> QED BY <3>1, <3>2
  <2> QED BY <1>0, <2>1, <2>2 DEF Stream!WritesLine
<1> QED BY <1>2, <1>3, <1>4 DEF StreamInv, ReadAreSent

\* A cancel only adds to the log.
LEMMA MarksKeeps == StreamInv /\ Stream!Marks => StreamInv'
<1> SUFFICES ASSUME StreamInv, Stream!Marks PROVE StreamInv'
  OBVIOUS
<1> USE DEF StreamInv, StreamTypes, InPlace, Stream!Marks
<1>1. /\ log' \in Seq(Nat) /\ Len(log') \in Nat /\ Len(log) \in Nat /\ Len(log') >= Len(log)
      /\ \A n \in 1..Len(log) : log'[n] = log[n]
  <2>1. CASE log' = log
    BY <2>1
  <2>2. CASE log' = log \o <<Stream!Marker, Stream!Marker>>
    BY <2>2 DEF Stream!Marker
  <2> QED BY <2>1, <2>2
<1>2. StreamTypes'
  BY <1>1
<1>3. InPlace'
  <2>1. /\ offset = lines /\ lines \in Nat /\ lines <= Len(log)
        /\ \A n \in 1..lines : log[n] = n
        /\ offset' = offset /\ lines' = lines
    OBVIOUS
  <2> HIDE DEF StreamInv, StreamTypes, Stream!Marks
  <2> QED BY <1>1, <2>1
<1>4. ReadAreSent'
  BY <1>1 DEF ReadAreSent
<1> QED BY <1>2, <1>3, <1>4

\* A read sends all that is in the log beyond where the stream has been.
LEMMA ReadsKeeps == \A s \in Threads : StreamInv /\ Stream!Reads(s) => StreamInv'
<1> SUFFICES ASSUME NEW s \in Threads, StreamInv, Stream!Reads(s) PROVE StreamInv'
  OBVIOUS
<1> USE DEF StreamInv, StreamTypes, InPlace, Stream!Reads
<1>0. Len(log) \in Nat /\ streams[s].pos \in Nat
  OBVIOUS
<1>1. {log[n] : n \in (streams[s].pos + 1)..Len(log)} \subseteq Nat
  BY <1>0
<1>2. StreamTypes' /\ InPlace'
  BY <1>0, <1>1
<1>3. ASSUME NEW u \in Threads PROVE ReadAreSent!(u)'
  <2>1. CASE u # s
    BY <2>1 DEF ReadAreSent
  <2>2. CASE u = s
    <3>1. streams'[s].pos = Len(log) /\ late'[s] = lines
      BY <2>2
    <3>2. ASSUME NEW n \in (1..lines) \ buried PROVE n \in sent'[s]
      <4>1. CASE n <= streams[s].pos
        BY <4>1 DEF ReadAreSent
      <4>2. CASE ~(n <= streams[s].pos)
        <5>1. n \in (streams[s].pos + 1)..Len(log) /\ log[n] = n
          BY <1>0, <4>2
        <5>2. n \in {log[m] : m \in (streams[s].pos + 1)..Len(log)}
          BY <5>1
        <5> QED BY <5>2
      <4> QED BY <4>1, <4>2
    <3> QED BY <2>2, <3>1, <3>2, <1>0
  <2> QED BY <2>1, <2>2
<1> QED BY <1>2, <1>3 DEF ReadAreSent

\* The poll that follows leaves where the stream has been.
LEMMA PollsKeeps == \A s \in Threads : StreamInv /\ Stream!Polls(s) => StreamInv'
<1> SUFFICES ASSUME NEW s \in Threads, StreamInv, Stream!Polls(s) PROVE StreamInv'
  OBVIOUS
<1> USE DEF StreamInv, StreamTypes, InPlace, Stream!Polls
<1>1. \A u \in Threads : streams'[u].pos = streams[u].pos
  OBVIOUS
<1>2. StreamTypes' /\ InPlace'
  OBVIOUS
<1> QED BY <1>1, <1>2 DEF ReadAreSent

LEMMA StreamNextKeeps == StreamInv /\ [Stream!StreamNext]_(Stream!streamVars) => StreamInv'
<1> SUFFICES ASSUME StreamInv, [Stream!StreamNext]_(Stream!streamVars) PROVE StreamInv'
  OBVIOUS
<1>1. CASE UNCHANGED <<log, lines, offset, streams, sent, late, buried>>
  BY <1>1 DEF StreamInv, StreamTypes, InPlace, ReadAreSent
<1>2. CASE Stream!CliEnds \/ Stream!OthersSetDone \/ Stream!Cancels \/ Stream!Terminates \/ Stream!CancelWaits \/ Stream!CancelSetsDone
  BY <1>1, <1>2 DEF Stream!CliEnds, Stream!OthersSetDone, Stream!Cancels, Stream!Terminates, Stream!CancelWaits, Stream!CancelSetsDone
<1>3. CASE UNCHANGED Stream!streamVars
  BY <1>1, <1>3 DEF Stream!streamVars
<1> QED
  BY <1>2, <1>3, WritesLineKeeps, MarksKeeps, ReadsKeeps, PollsKeeps DEF Stream!StreamNext

------------------------------------------------------------------------------
\* What a stream holds of the log: the lines of the CLI are where they were written, and
\* those it has read past are sent.
THEOREM StreamInvariance == Stream!StreamSpec => []StreamInv
<1> QED
  BY InitStreamInv, StreamNextKeeps, PTL DEF Stream!StreamSpec

\* stream_logs: a stream that has ended has sent every line of the CLI but those written
\* after its last read or over a marker, for any number of streams and cancellations.
THEOREM StreamsSendTheirLines == Stream!StreamSpec => []Stream!LinesSent
<1>1. StreamInv => Stream!LinesSent
  BY DEF StreamInv, StreamTypes, InPlace, ReadAreSent, Stream!LinesSent
<1> QED
  BY <1>1, StreamInvariance, PTL
-----------------------------------------------------------------------------
(* The XML of sessions *)

XmlWorks ==
  [at : {"idle", "list", "copy", "save", "fall back"}, id : Nat, asked : Nat, seen : Nat, tries : Nat]

XmlTypes ==
  /\ events \in Nat
  /\ session \in [Xml!Ids -> {"absent", "live", "stopped"}]
  /\ who \in [Xml!Ids -> Nat]
  /\ work \in [Threads -> XmlWorks]
  /\ \A r \in results : r.asked \in Nat

\* The number a session got tells it from all others, of before and after.
Numbered ==
  /\ \A i \in Xml!Known : who[i] > events
  /\ \A i \in Xml!Known : \A j \in Xml!Known : who[i] = who[j] => i = j
  /\ \A t \in Threads : work[t].asked # 0 => work[t].asked > events
  /\ \A r \in results : r.asked # 0 => r.asked > events

\* A session that is still there is so under the id it was asked for by, and is what a
\* request has seen and got.
Alive(n) == \E i \in Xml!Known : who[i] = n
AskedFor ==
  \A t \in Threads : work[t].asked # 0 =>
    \A i \in Xml!Known : who[i] = work[t].asked =>
      i = work[t].id /\ (work[t].at = "copy" => work[t].seen = work[t].asked)
Got == \A r \in results : r.asked # 0 /\ Alive(r.asked) /\ ~r.failed => r.of = r.asked

XmlInv == XmlTypes /\ Numbered /\ AskedFor /\ Got

LEMMA XmlBegins == Xml!XmlInit => XmlInv
<1> SUFFICES ASSUME Xml!XmlInit PROVE XmlInv
  OBVIOUS
<1>1. /\ session = [i \in Xml!Ids |-> "absent"] /\ who = [i \in Xml!Ids |-> 0] /\ results = {}
      /\ work = [t \in Threads |-> Xml!Idle] /\ events = MaxEvents - 1
  BY DEF Xml!XmlInit, Xml!DaemonInit
<1>2. Xml!Known = {}
  BY <1>1 DEF Xml!Known
<1>3. Xml!Idle \in XmlWorks /\ Xml!Idle.asked = 0
  BY DEF Xml!Idle, XmlWorks
<1>4. events \in Nat
  BY <1>1, EventsAssumption
<1> QED BY <1>1, <1>2, <1>3, <1>4 DEF XmlInv, XmlTypes, Numbered, AskedFor, Got

\* No session comes, and none changes its number: the requests may go on as they say.
LEMMA XmlKept ==
  ASSUME XmlInv, XmlTypes', Xml!Known' \subseteq Xml!Known, who' = who, events' = events,
         NEW t \in Threads, \A u \in Threads \ {t} : work'[u] = work[u],
         work'[t].asked \in {0, work[t].asked},
         work'[t].asked # 0 => \A i \in Xml!Known : who[i] = work'[t].asked =>
           i = work'[t].id /\ (work'[t].at = "copy" => work'[t].seen = work'[t].asked),
         \A r \in results' : \/ r \in results
                             \/ /\ r.asked = work[t].asked
                                /\ r.asked # 0 /\ Alive(r.asked) /\ ~r.failed => r.of = r.asked
  PROVE  XmlInv'
<1>1. \A n : Alive(n)' => Alive(n)
  BY DEF Alive
<1>2. Numbered'
  BY DEF XmlInv, Numbered
<1>3. AskedFor'
  BY DEF XmlInv, AskedFor
<1>4. Got'
  BY <1>1 DEF XmlInv, Got
<1> QED BY <1>2, <1>3, <1>4 DEF XmlInv

LEMMA XmlOpens ==
  ASSUME XmlInv, NEW i \in Xml!Ids, Xml!OpensSession(i)
  PROVE  XmlInv'
<1>1. /\ events > 0 /\ events' = events - 1 /\ i \notin Xml!Known
      /\ session' = [session EXCEPT ![i] = "live"] /\ who' = [who EXCEPT ![i] = events]
      /\ work' = work /\ results' = results
  BY DEF Xml!OpensSession, Xml!Event, Xml!LowestFree, Xml!CreateSession
<1>2. XmlTypes
  BY DEF XmlInv
<1>3. XmlTypes'
  BY <1>1, <1>2 DEF XmlTypes
<1>4. /\ Xml!Known' = Xml!Known \cup {i}
      /\ \A j \in Xml!Known : j # i /\ who'[j] = who[j] /\ who[j] \in Nat
      /\ who'[i] = events /\ events \in Nat
  BY <1>1, <1>2 DEF XmlTypes, Xml!Known
<1>5. \A t \in Threads : work[t].asked \in Nat
  BY <1>2 DEF XmlTypes, XmlWorks
<1>6. \A r \in results : r.asked \in Nat
  BY <1>2 DEF XmlTypes
<1>7. Numbered'
  BY <1>1, <1>4, <1>5, <1>6 DEF XmlInv, Numbered
<1>8. AskedFor'
  <2> SUFFICES ASSUME NEW t \in Threads, work[t].asked # 0, NEW j \in Xml!Known',
                      who'[j] = work[t].asked
               PROVE  j = work[t].id /\ (work[t].at = "copy" => work[t].seen = work[t].asked)
    BY <1>1 DEF AskedFor
  <2>1. work[t].asked > events
    BY DEF XmlInv, Numbered
  <2>2. j # i
    BY <1>4, <1>5, <2>1
  <2> QED BY <1>4, <2>2 DEF XmlInv, AskedFor
<1>9. Got'
  <2> SUFFICES ASSUME NEW r \in results, r.asked # 0, Alive(r.asked)', ~r.failed
               PROVE  r.of = r.asked
    BY <1>1 DEF Got
  <2>1. r.asked > events
    BY DEF XmlInv, Numbered
  <2>2. Alive(r.asked)
    BY <1>4, <1>6, <2>1 DEF Alive
  <2> QED BY <2>2 DEF XmlInv, Got
<1> QED BY <1>3, <1>7, <1>8, <1>9 DEF XmlInv

LEMMA XmlCloses ==
  ASSUME XmlInv, NEW i \in Xml!Ids, Xml!ClosesSession(i)
  PROVE  XmlInv'
<1>1. /\ UNCHANGED <<work, who, results, events>>
      /\ \/ session' = session
         \/ session' = [session EXCEPT ![i] = "absent"]
         \/ i \in Xml!Known /\ session' = [session EXCEPT ![i] = "stopped"]
  BY DEF Xml!ClosesSession, Xml!DeleteBegins, Xml!StopSession, Xml!DeleteEnds
<1>2. XmlTypes
  BY DEF XmlInv
<1>3. XmlTypes' /\ Xml!Known' \subseteq Xml!Known
  BY <1>1, <1>2 DEF XmlTypes, Xml!Known
<1>4. \A n : Alive(n)' => Alive(n)
  BY <1>1, <1>3 DEF Alive
<1>5. Numbered' /\ AskedFor' /\ Got'
  BY <1>1, <1>3, <1>4 DEF XmlInv, Numbered, AskedFor, Got
<1> QED BY <1>3, <1>5 DEF XmlInv

LEMMA XmlAsks ==
  ASSUME XmlInv, NEW t \in Threads, NEW i \in Xml!Ids \cup {0}, Xml!Asks(t, i)
  PROVE  XmlInv'
<1> DEFINE num == IF i = 0 THEN 0 ELSE who[i]
<1>1. /\ events > 0 /\ events' = events - 1 /\ i \in Xml!Known \cup {0}
      /\ UNCHANGED <<session, who, results>>
      /\ work' = [work EXCEPT ![t] = [Xml!Idle EXCEPT !.at = "list", !.id = i, !.asked = num]]
  BY DEF Xml!Asks, Xml!Event, Xml!daemonVars
<1>2. XmlTypes
  BY DEF XmlInv
<1>3. num \in Nat /\ i \in Nat /\ (num # 0 => i \in Xml!Known /\ who[i] = num)
  BY <1>1, <1>2, DaemonAssumption DEF XmlTypes, Xml!Ids, Xml!Known
<1> HIDE DEF num
<1>4. work'[t] = [Xml!Idle EXCEPT !.at = "list", !.id = i, !.asked = num]
  BY <1>1, <1>2 DEF XmlTypes
<1>5. /\ work'[t] \in XmlWorks
      /\ work'[t].asked = num /\ work'[t].id = i /\ work'[t].at = "list"
  <2>1. work'[t] = [at |-> "list", id |-> i, asked |-> num, seen |-> 0, tries |-> 0]
    BY <1>4 DEF Xml!Idle
  <2> QED BY <1>3, <2>1 DEF XmlWorks
<1>6. \A u \in Threads \ {t} : work'[u] = work[u]
  BY <1>1, <1>2 DEF XmlTypes
<1>7. work' \in [Threads -> XmlWorks]
  BY <1>1, <1>2, <1>5 DEF XmlTypes
<1>8. XmlTypes' /\ Xml!Known' = Xml!Known
  BY <1>1, <1>2, <1>7 DEF XmlTypes, Xml!Known
<1>9. \A j \in Xml!Known : who[j] \in Nat
  BY <1>2 DEF XmlTypes, Xml!Known
<1>10. Numbered'
  <2>1. \A u \in Threads : work'[u].asked # 0 => work'[u].asked > events'
    <3> SUFFICES ASSUME NEW u \in Threads, work'[u].asked # 0 PROVE work'[u].asked > events'
      OBVIOUS
    <3>1. CASE u = t
      BY <1>1, <1>2, <1>3, <1>5, <3>1 DEF XmlInv, XmlTypes, Numbered
    <3>2. CASE u # t
      <4>1. work[u].asked > events /\ work[u].asked \in Nat
        BY <1>2, <1>6, <3>2 DEF XmlInv, XmlTypes, XmlWorks, Numbered
      <4> QED BY <1>1, <1>2, <1>6, <3>2, <4>1 DEF XmlTypes
    <3> QED BY <3>1, <3>2
  <2>2. \A r \in results : r.asked \in Nat
    BY <1>2 DEF XmlTypes
  <2>3. \A j \in Xml!Known : who[j] > events'
    BY <1>1, <1>2, <1>9 DEF XmlInv, XmlTypes, Numbered
  <2>4. \A r \in results : r.asked # 0 => r.asked > events'
    BY <1>1, <1>2, <2>2 DEF XmlInv, XmlTypes, Numbered
  <2> QED BY <1>1, <1>8, <2>1, <2>3, <2>4 DEF XmlInv, Numbered
<1>11. AskedFor'
  <2> SUFFICES ASSUME NEW u \in Threads, work'[u].asked # 0, NEW j \in Xml!Known,
                      who[j] = work'[u].asked
               PROVE  j = work'[u].id /\ (work'[u].at = "copy" => work'[u].seen = work'[u].asked)
    BY <1>1, <1>8 DEF AskedFor
  <2>1. CASE u = t
    BY <1>3, <1>5, <2>1 DEF XmlInv, Numbered
  <2>2. CASE u # t
    BY <1>6, <2>2 DEF XmlInv, AskedFor
  <2> QED BY <2>1, <2>2
<1>12. Got'
  BY <1>1, <1>8 DEF XmlInv, Got, Alive
<1> QED BY <1>8, <1>10, <1>11, <1>12 DEF XmlInv

\* One request goes on, and the sessions stay as they are.
GoesOn(t, w, R) ==
  /\ work' \in [Threads -> XmlWorks] /\ work'[t] = w
  /\ \A u \in Threads \ {t} : work'[u] = work[u]
  /\ results' = results \cup R
  /\ UNCHANGED <<session, who, events>>

LEMMA XmlGoesOn ==
  ASSUME XmlInv, NEW t \in Threads, NEW w \in XmlWorks,
         NEW R, GoesOn(t, w, R), w.asked \in {0, work[t].asked},
         w.asked # 0 => \A i \in Xml!Known : who[i] = w.asked =>
           i = w.id /\ (w.at = "copy" => w.seen = w.asked),
         \A r \in R : /\ r.asked = work[t].asked
                      /\ r.asked # 0 /\ Alive(r.asked) /\ ~r.failed => r.of = r.asked
  PROVE  XmlInv'
<1>1. /\ work' \in [Threads -> XmlWorks] /\ work'[t] = w
      /\ \A u \in Threads \ {t} : work'[u] = work[u]
      /\ results' = results \cup R /\ UNCHANGED <<session, who, events>>
  BY DEF GoesOn
<1>2. XmlTypes
  BY DEF XmlInv
<1>3. \A r \in results' : r.asked \in Nat
  <2>1. work[t].asked \in Nat
    BY <1>2 DEF XmlTypes, XmlWorks
  <2> QED BY <1>1, <1>2, <2>1 DEF XmlTypes
<1>4. XmlTypes'
  BY <1>1, <1>2, <1>3 DEF XmlTypes
<1>5. Xml!Known' = Xml!Known
  BY <1>1 DEF Xml!Known
<1> QED BY <1>1, <1>4, <1>5, XmlKept

\* Where a request stands, without the record it is kept in.
LEMMA XmlStands ==
  ASSUME XmlInv, NEW t \in Threads
  PROVE  /\ work[t] \in XmlWorks
         /\ work[t].id \in Nat /\ work[t].asked \in Nat /\ work[t].seen \in Nat
         /\ work[t].tries \in Nat
         /\ \A i \in Xml!Known : who[i] \in Nat /\ i \in Nat
         /\ work \in [Threads -> XmlWorks]
<1>1. XmlTypes
  BY DEF XmlInv
<1>2. /\ work[t] \in XmlWorks /\ DOMAIN work = Threads
     
  BY <1>1 DEF XmlTypes
<1>3. /\ work[t].id \in Nat /\ work[t].asked \in Nat /\ work[t].seen \in Nat
      /\ work[t].tries \in Nat
  BY <1>2 DEF XmlWorks
<1>4. \A i \in Xml!Known : who[i] \in Nat /\ i \in Nat
  <2>1. \A i \in Xml!Ids : who[i] \in Nat
    BY <1>1 DEF XmlTypes
  <2>2. \A i \in Xml!Ids : i \in Nat
    BY DaemonAssumption DEF Xml!Ids
  <2> QED BY <2>1, <2>2 DEF Xml!Known
<1> QED BY <1>1, <1>2, <1>3, <1>4 DEF XmlTypes

\* The request is over with a file of that session, or none.
LEMMA XmlReturns ==
  ASSUME XmlInv, NEW t \in Threads, NEW of, NEW failed,
         Xml!Returns(t, of, failed), UNCHANGED <<session, who, events>>,
         work[t].asked # 0 /\ Alive(work[t].asked) /\ ~failed => of = work[t].asked
  PROVE  XmlInv'
<1>1. PICK r : r = [asked |-> work[t].asked, of |-> of, failed |-> failed]
  OBVIOUS
<1>2. r.asked = work[t].asked /\ r.of = of /\ r.failed = failed
  BY <1>1
<1>3. Xml!Idle \in XmlWorks /\ Xml!Idle.asked = 0
  BY DEF Xml!Idle, XmlWorks
<1>4. GoesOn(t, Xml!Idle, {r})
  <2>1. work' = [work EXCEPT ![t] = Xml!Idle] /\ results' = results \cup {r}
    BY <1>1 DEF Xml!Returns
  <2>2. work \in [Threads -> XmlWorks]
    BY XmlStands
  <2> QED BY <1>3, <2>1, <2>2 DEF GoesOn
<1>5. \A q \in {r} : /\ q.asked = work[t].asked
                     /\ q.asked # 0 /\ Alive(q.asked) /\ ~q.failed => q.of = q.asked
  BY <1>2
<1> QED BY <1>3, <1>4, <1>5, XmlGoesOn

\* The request goes on at another step, with the session it has or another.
LEMMA XmlGoesTo ==
  ASSUME XmlInv, NEW t \in Threads, work' \in [Threads -> XmlWorks],
         \A u \in Threads \ {t} : work'[u] = work[u],
         UNCHANGED <<session, who, results, events>>, work'[t].asked = work[t].asked,
         \A i \in Xml!Known : work[t].asked # 0 /\ who[i] = work[t].asked =>
           i = work'[t].id /\ (work'[t].at = "copy" => work'[t].seen = work[t].asked)
  PROVE  XmlInv'
<1>1. GoesOn(t, work'[t], {})
  BY DEF GoesOn
<1>2. PICK w \in XmlWorks : w = work'[t]
  OBVIOUS
<1> QED BY <1>1, <1>2, XmlGoesOn

\* The request goes on with the session it has.
LEMMA XmlStays ==
  ASSUME XmlInv, NEW t \in Threads, work' \in [Threads -> XmlWorks],
         \A u \in Threads \ {t} : work'[u] = work[u],
         UNCHANGED <<session, who, results, events>>,
         work'[t].asked = work[t].asked, work'[t].id = work[t].id, work'[t].at # "copy"
  PROVE  XmlInv'
<1>1. \A i \in Xml!Known : work[t].asked # 0 /\ who[i] = work[t].asked => i = work[t].id
  BY DEF XmlInv, AskedFor
<1> QED BY <1>1, XmlGoesTo

LEMMA XmlLists ==
  ASSUME XmlInv, NEW t \in Threads, Xml!ListsSessions(t)
  PROVE  XmlInv'
<1>1. UNCHANGED <<session, who, events>> /\ work \in [Threads -> XmlWorks]
  BY XmlStands DEF Xml!ListsSessions, Xml!daemonVars
<1>2. CASE Xml!Known = {} /\ Xml!Returns(t, 0, TRUE)
  BY <1>1, <1>2, XmlReturns
<1>3. ASSUME NEW i \in Xml!Chosen(t), results' = results,
             work' = [work EXCEPT ![t].at = "copy", ![t].id = i, ![t].seen = who[i]]
      PROVE  XmlInv'
  <2>1. i \in Xml!Known
    BY DEF Xml!Chosen, Xml!Known
  <2>2. PICK b \in Nat, d \in Nat : b = i /\ d = who[i]
    BY <2>1, XmlStands
  <2>3. work' = [work EXCEPT ![t].at = "copy", ![t].id = b, ![t].seen = d]
    BY <1>3, <2>2
  <2>4. work' \in [Threads -> XmlWorks]
    <3>1. work[t] \in XmlWorks
      BY <1>1
    <3>2. [work[t] EXCEPT !.at = "copy", !.id = b, !.seen = d] \in XmlWorks
      BY <3>1 DEF XmlWorks
    <3>3. work' = [work EXCEPT ![t] = [work[t] EXCEPT !.at = "copy", !.id = b, !.seen = d]]
      BY <1>1, <2>3
    <3> QED BY <1>1, <3>2, <3>3
  <2>5. work'[t].asked = work[t].asked /\ work'[t].id = b /\ work'[t].seen = d
    BY <1>1, <2>3 DEF XmlWorks
  <2>6. \A u \in Threads \ {t} : work'[u] = work[u]
    BY <1>1, <2>3
  <2>7. ASSUME work[t].asked # 0, NEW j \in Xml!Known, who[j] = work[t].asked
        PROVE  j = i
    <3>1. j = work[t].id
      BY <2>7 DEF XmlInv, AskedFor
    <3> QED BY <3>1 DEF Xml!Chosen
  <2> HIDE <1>3
  <2>8. results' = results
    BY <1>3
  <2> QED BY <1>1, <2>2, <2>4, <2>5, <2>6, <2>7, <2>8, XmlGoesTo
<1> QED BY <1>2, <1>3 DEF Xml!ListsSessions

LEMMA XmlCopies ==
  ASSUME XmlInv, NEW t \in Threads, Xml!CopiesXml(t)
  PROVE  XmlInv'
<1>1. /\ UNCHANGED <<session, who, events>> /\ work[t].at = "copy"
      /\ work \in [Threads -> XmlWorks]
  BY XmlStands DEF Xml!CopiesXml, Xml!daemonVars
<1>2. CASE Xml!Returns(t, work[t].seen, FALSE)
  <2>1. work[t].asked # 0 /\ Alive(work[t].asked) => work[t].seen = work[t].asked
    BY <1>1 DEF XmlInv, AskedFor, Alive
  <2>2. work[t].seen \in Nat
    BY XmlStands
  <2> QED BY <1>1, <1>2, <2>1, <2>2, XmlReturns
<1>3. CASE results' = results /\ work' = [work EXCEPT ![t].at = "save"]
  <2>1. work' \in [Threads -> XmlWorks]
    BY <1>1, <1>3 DEF XmlWorks
  <2>2. /\ work'[t].asked = work[t].asked /\ work'[t].id = work[t].id
        /\ work'[t].at # "copy"
    BY <1>1, <1>3 DEF XmlWorks
  <2>3. \A u \in Threads \ {t} : work'[u] = work[u]
    BY <1>1, <1>3
  <2> QED BY <1>1, <1>3, <2>1, <2>2, <2>3, XmlStays
<1> QED BY <1>2, <1>3 DEF Xml!CopiesXml

LEMMA XmlSaves ==
  ASSUME XmlInv, NEW t \in Threads, Xml!SavesXml(t)
  PROVE  XmlInv'
<1>1. UNCHANGED <<session, who, events>> /\ work \in [Threads -> XmlWorks]
  BY XmlStands DEF Xml!SavesXml, Xml!daemonVars
<1>2. CASE work[t].id \in Xml!Known /\ Xml!Returns(t, who[work[t].id], FALSE)
  <2>1. work[t].asked # 0 /\ Alive(work[t].asked) => who[work[t].id] = work[t].asked
    BY DEF XmlInv, AskedFor, Alive
  <2>2. who[work[t].id] \in Nat
    BY <1>2, XmlStands
  <2> QED BY <1>1, <1>2, <2>1, <2>2, XmlReturns
<1>3. CASE results' = results /\ work' = [work EXCEPT ![t].at = "fall back"]
  <2>1. work' \in [Threads -> XmlWorks]
    BY <1>1, <1>3 DEF XmlWorks
  <2>2. /\ work'[t].asked = work[t].asked /\ work'[t].id = work[t].id
        /\ work'[t].at # "copy"
    BY <1>1, <1>3 DEF XmlWorks
  <2>3. \A u \in Threads \ {t} : work'[u] = work[u]
    BY <1>1, <1>3
  <2> QED BY <1>1, <1>3, <2>1, <2>2, <2>3, XmlStays
<1>4. PICK n \in Nat : n = work[t].tries + 1
  <2>1. work[t].tries \in Nat
    BY XmlStands
  <2> QED BY <2>1
<1>5. ASSUME results' = results, NEW at \in {"save", "fall back"},
             work' = [work EXCEPT ![t].tries = n, ![t].at = at]
      PROVE  XmlInv'
  <2>1. work' \in [Threads -> XmlWorks]
    BY <1>1, <1>5 DEF XmlWorks
  <2>2. /\ work'[t].asked = work[t].asked /\ work'[t].id = work[t].id
        /\ work'[t].at # "copy"
    BY <1>1, <1>5 DEF XmlWorks
  <2>3. \A u \in Threads \ {t} : work'[u] = work[u]
    BY <1>1, <1>5
  <2> QED BY <1>1, <1>5, <2>1, <2>2, <2>3, XmlStays
<1>6. (IF work[t].tries = 2 THEN "fall back" ELSE "save") \in {"save", "fall back"}
  OBVIOUS
<1> QED BY <1>2, <1>3, <1>4, <1>5, <1>6 DEF Xml!SavesXml

LEMMA XmlFallsBack ==
  ASSUME XmlInv, NEW t \in Threads, Xml!FallsBack(t)
  PROVE  XmlInv'
<1>1. /\ UNCHANGED <<session, who, events>>
      /\ Xml!Returns(t, Xml!Latest(work[t].id), TRUE)
  BY DEF Xml!FallsBack, Xml!daemonVars
<1> QED BY <1>1, XmlReturns

LEMMA XmlStep == XmlInv /\ [Xml!XmlNext]_(Xml!xmlVars) => XmlInv'
<1> SUFFICES ASSUME XmlInv, [Xml!XmlNext]_(Xml!xmlVars) PROVE XmlInv'
  OBVIOUS
<1>1. CASE UNCHANGED Xml!xmlVars
  <2>1. UNCHANGED <<session, work, who, results, events>>
    BY <1>1 DEF Xml!xmlVars, Xml!daemonVars
  <2>2. Xml!Known' = Xml!Known
    BY <2>1 DEF Xml!Known
  <2>3. XmlTypes' /\ Numbered'
    BY <2>1, <2>2 DEF XmlInv, XmlTypes, Numbered
  <2>4. AskedFor' /\ Got'
    BY <2>1, <2>2 DEF XmlInv, AskedFor, Got, Alive
  <2> QED BY <2>3, <2>4 DEF XmlInv
<1>2. CASE \E i \in Xml!Ids : Xml!OpensSession(i) \/ Xml!ClosesSession(i)
  BY <1>2, XmlOpens, XmlCloses
<1>3. ASSUME NEW t \in Threads,
             \/ \E i \in Xml!Ids \cup {0} : Xml!Asks(t, i)
             \/ Xml!ListsSessions(t) \/ Xml!CopiesXml(t) \/ Xml!SavesXml(t) \/ Xml!FallsBack(t)
      PROVE  XmlInv'
  BY <1>3, XmlAsks, XmlLists, XmlCopies, XmlSaves, XmlFallsBack
<1> QED BY <1>1, <1>2, <1>3 DEF Xml!XmlNext

LEMMA XmlHolds == XmlInv => Xml!XmlOfOwnSession
BY DEF XmlInv, Got, Alive, Xml!XmlOfOwnSession

------------------------------------------------------------------------------
(* What runs leave behind.                                                    *)

ArtStages ==
  {"idle", "plan", "answer", "build", "segment", "rules", "traffic", "flows", "allow", "report",
   "summary", "markdown", "start", "ended"}
ArtOwners == Threads \cup {Artifacts!Preview}
ArtRuns ==
  [at : ArtStages, made : SUBSET Artifacts!Dirs, own : SUBSET Artifacts!Dirs,
   lists : [Artifacts!Dirs -> SUBSET ArtOwners], said : SUBSET {"summary", "report"}]
ArtWorks ==
  [at : {"idle", "xml", "rewrite", "append", "done"}, report : Threads \cup {Artifacts!None},
   summary : Threads \cup {Artifacts!None}]

CliTypes ==
  /\ conf \in [Threads -> Artifacts!AllConfs] /\ run \in [Threads -> ArtRuns]
  /\ xml \in [ScenarioFiles -> {"all", "first", "torn", "gone"}]
  /\ shared \in [Artifacts!Dirs -> SUBSET ArtOwners]
  /\ foreign \in [Threads -> SUBSET Artifacts!Dirs]
  /\ reports \in Seq(Threads) /\ summaries \in Seq(Threads)

\* A directory a run has filled lists what it did, unless another has changed it since; a run
\* fills each of them once, and its report lists what was in them.
DirsTrue(r) ==
  /\ run[r].at \in {"idle", "plan", "answer", "build", "segment", "rules", "ended"} => run[r].made = {}
  /\ run[r].at \in {"traffic", "flows"} => "traffic" \notin run[r].made
  /\ \A d \in run[r].made \ foreign[r] : shared[d] = {r}
  /\ \A d \in run[r].own : run[r].lists[d] = {r}

\* What is found of a run that has ended stays true of it.
Paired(r, report, summary) ==
  /\ run[r].at = "ended"
  /\ "report" \in run[r].said => report = r
  /\ Artifacts!In(summaries, r) /\ report = r => summary = r
  /\ summary \notin {Artifacts!None, report} /\ report # Artifacts!None =>
       summary = r /\ "report" \notin run[r].said
FoundPaired ==
  /\ work \in [Threads -> ArtWorks]
  /\ \A r \in Threads : work[r].at \in {"xml", "rewrite", "append"} =>
                          Paired(r, work[r].report, work[r].summary)
  /\ \A e \in entries : e.run \in Threads /\ Paired(e.run, e.report, e.summary)

FilesTrue ==
  /\ \A f \in ScenarioFiles : xml[f] = "torn" =>
       \E r \in Threads : conf[r].file = f /\ work[r].at = "rewrite"
  /\ \A r \in Threads : run[r].at \notin {"idle", "ended"} /\ xml[conf[r].file] = "gone" /\ conf[r].web =>
       r \in meddled

ArtInv == CliTypes /\ (\A r \in Threads : DirsTrue(r)) /\ FoundPaired /\ FilesTrue

\* Steps of a run that change how far it has come, or what is said of it, change nothing else.
LEMMA GoesFacts ==
  ASSUME CliTypes, NEW r \in Threads, NEW at \in ArtStages, Artifacts!Goes(r, at)
  PROVE  /\ run' \in [Threads -> ArtRuns] /\ \A u \in Threads \ {r} : run'[u] = run[u]
         /\ run'[r].at = at /\ run'[r].made = run[r].made /\ run'[r].own = run[r].own
         /\ run'[r].lists = run[r].lists /\ run'[r].said = run[r].said
<1>1. run \in [Threads -> ArtRuns] /\ run' = [run EXCEPT ![r].at = at]
  BY DEF CliTypes, Artifacts!Goes
<1>2. run[r] \in ArtRuns
  BY <1>1
<1>3. run'[r] = [run[r] EXCEPT !.at = at]
  BY <1>1
<1>4. [run[r] EXCEPT !.at = at] \in ArtRuns
  BY <1>2 DEF ArtRuns
<1>5. run' \in [Threads -> ArtRuns] /\ \A u \in Threads \ {r} : run'[u] = run[u]
  BY <1>1, <1>3, <1>4
<1> QED BY <1>2, <1>3, <1>5 DEF ArtRuns

LEMMA EndsFacts ==
  ASSUME CliTypes, NEW r \in Threads, Artifacts!Ends(r)
  PROVE  /\ run' \in [Threads -> ArtRuns] /\ \A u \in Threads \ {r} : run'[u] = run[u]
         /\ run'[r].at = "ended" /\ run'[r].made = {} /\ run'[r].own = {} /\ run'[r].said = run[r].said
<1> DEFINE ended == [Artifacts!NewRun EXCEPT !.at = "ended", !.said = run[r].said]
<1>1. run \in [Threads -> ArtRuns] /\ run' = [run EXCEPT ![r] = ended]
  BY DEF CliTypes, Artifacts!Ends
<1>2. run[r].said \in SUBSET {"summary", "report"}
  BY <1>1 DEF ArtRuns
<1>3. Artifacts!NewRun \in ArtRuns
  BY DEF Artifacts!NewRun, ArtRuns, ArtStages, ArtOwners
<1>4. ended \in ArtRuns
  BY <1>2, <1>3 DEF ArtRuns, ArtStages
<1>5. ended.at = "ended" /\ ended.made = {} /\ ended.own = {} /\ ended.said = run[r].said
  BY DEF Artifacts!NewRun
<1>6. run'[r] = ended /\ \A u \in Threads \ {r} : run'[u] = run[u]
  BY <1>1
<1> QED BY <1>1, <1>4, <1>5, <1>6

\* Whoever changes the directories: what others have filled is no longer theirs.
LEMMA FillsOthers ==
  ASSUME CliTypes, NEW r, NEW D \in SUBSET Artifacts!Dirs, NEW whose \in SUBSET ArtOwners,
         Artifacts!Fills(r, D, whose), NEW u \in Threads, u # r, run'[u] = run[u], DirsTrue(u)
  PROVE  DirsTrue(u)'
<1>1. run[u].made \in SUBSET Artifacts!Dirs
  BY DEF CliTypes, ArtRuns
<1>2. /\ \A d \in Artifacts!Dirs : shared'[d] = IF d \in D THEN whose ELSE shared[d]
      /\ foreign'[u] = foreign[u] \cup D
  BY DEF CliTypes, Artifacts!Fills
<1>3. \A d \in run'[u].made \ foreign'[u] : shared'[d] = {u}
  BY <1>1, <1>2 DEF DirsTrue
<1> QED BY <1>3 DEF DirsTrue

\* A step of one run, or its start: it adds to the files, and the directories stay true to all.
CliMoves(r) ==
  /\ conf' = conf /\ xml' = xml /\ run[r].at # "ended"
  /\ \A u \in Threads \ {r} : run'[u] = run[u]
  /\ reports' \in {reports, Append(reports, r)} /\ summaries' \in {summaries, Append(summaries, r)}
  /\ CliTypes' /\ \A u \in Threads : DirsTrue(u)'

\* Steps that leave the directories alone.
LEMMA QuietMove ==
  ASSUME CliTypes, \A u \in Threads : DirsTrue(u), NEW r \in Threads, run[r].at # "ended",
         run' \in [Threads -> ArtRuns], \A u \in Threads \ {r} : run'[u] = run[u],
         UNCHANGED <<conf, xml, shared, foreign>>,
         reports' \in {reports, Append(reports, r)}, summaries' \in {summaries, Append(summaries, r)},
         DirsTrue(r)'
  PROVE  CliMoves(r)
<1>1. CliTypes'
  <2>1. Append(reports, r) \in Seq(Threads) /\ Append(summaries, r) \in Seq(Threads)
    BY DEF CliTypes
  <2>2. reports' \in Seq(Threads) /\ summaries' \in Seq(Threads)
    BY <2>1 DEF CliTypes
  <2> QED BY <2>2 DEF CliTypes
<1>2. \A u \in Threads \ {r} : DirsTrue(u)'
  BY DEF DirsTrue
<1> QED BY <1>1, <1>2 DEF CliMoves

LEMMA EndsMove ==
  ASSUME CliTypes, \A u \in Threads : DirsTrue(u), NEW r \in Threads, run[r].at # "ended",
         Artifacts!Ends(r), UNCHANGED <<conf, xml, shared, foreign, reports, summaries>>
  PROVE  CliMoves(r)
<1>1. /\ run' \in [Threads -> ArtRuns] /\ \A u \in Threads \ {r} : run'[u] = run[u]
      /\ run'[r].at = "ended" /\ run'[r].made = {} /\ run'[r].own = {}
  BY EndsFacts
<1>2. DirsTrue(r)'
  BY <1>1 DEF DirsTrue
<1> QED BY <1>1, <1>2, QuietMove

NothingMade == {"idle", "plan", "answer", "build", "segment", "rules", "ended"}

LEMMA GoesMove ==
  ASSUME CliTypes, \A u \in Threads : DirsTrue(u), NEW r \in Threads, NEW at \in ArtStages,
         run[r].at # "ended", Artifacts!Goes(r, at), UNCHANGED <<conf, xml, shared, foreign>>,
         reports' \in {reports, Append(reports, r)}, summaries' \in {summaries, Append(summaries, r)},
         at \in NothingMade \/ at \in {"traffic", "flows"} => run[r].at \in NothingMade
  PROVE  CliMoves(r)
<1>1. /\ run' \in [Threads -> ArtRuns] /\ \A u \in Threads \ {r} : run'[u] = run[u]
      /\ run'[r].at = at /\ run'[r].made = run[r].made /\ run'[r].own = run[r].own
      /\ run'[r].lists = run[r].lists
  BY GoesFacts
<1>2. DirsTrue(r)
  OBVIOUS
<1>3. run[r].at \in NothingMade => run[r].made = {}
  BY <1>2 DEF DirsTrue, NothingMade
<1>4. DirsTrue(r)'
  BY <1>1, <1>2, <1>3 DEF DirsTrue, NothingMade
<1> QED BY <1>1, <1>4, QuietMove

\* Steps that change them.
LEMMA FillingMove ==
  ASSUME CliTypes, \A u \in Threads : DirsTrue(u), NEW r \in Threads, run[r].at # "ended",
         NEW D \in SUBSET Artifacts!Dirs, NEW whose \in SUBSET ArtOwners, Artifacts!Fills(r, D, whose),
         run' \in [Threads -> ArtRuns], \A u \in Threads \ {r} : run'[u] = run[u],
         UNCHANGED <<conf, xml, reports, summaries>>, DirsTrue(r)'
  PROVE  CliMoves(r)
<1>1. /\ shared' \in [Artifacts!Dirs -> SUBSET ArtOwners]
      /\ foreign' \in [Threads -> SUBSET Artifacts!Dirs]
  BY DEF CliTypes, Artifacts!Fills
<1>2. CliTypes'
  BY <1>1 DEF CliTypes
<1>3. \A u \in Threads \ {r} : DirsTrue(u)'
  BY FillsOthers
<1> QED BY <1>2, <1>3 DEF CliMoves

LEMMA StartsMove ==
  ASSUME CliTypes, \A u \in Threads : DirsTrue(u), NEW r \in Threads, Artifacts!Starts(r)
  PROVE  CliMoves(r)
<1>1. /\ run[r].at = "idle" /\ Artifacts!Goes(r, "plan")
      /\ UNCHANGED <<conf, xml, shared, foreign, reports, summaries>>
  BY DEF Artifacts!Starts, Artifacts!At, Artifacts!KeepsDirs, Artifacts!KeepsFiles, Artifacts!KeepsWorld
<1> QED BY <1>1, GoesMove DEF ArtStages, NothingMade

LEMMA AnswersMove ==
  ASSUME CliTypes, \A u \in Threads : DirsTrue(u), NEW r \in Threads, Artifacts!Answers(r)
  PROVE  CliMoves(r)
<1>1. /\ run[r].at = "answer" /\ (Artifacts!Ends(r) \/ Artifacts!Goes(r, "build"))
      /\ UNCHANGED <<conf, xml, reports, summaries>>
      /\ \/ UNCHANGED <<shared, foreign>>
         \/ \E D \in SUBSET Artifacts!Dirs : Artifacts!Fills(r, D, {Artifacts!Preview})
  BY DEF Artifacts!Answers, Artifacts!At, Artifacts!KeepsDirs, Artifacts!KeepsFiles, Artifacts!KeepsWorld
<1>2. CASE UNCHANGED <<shared, foreign>>
  BY <1>1, <1>2, GoesMove, EndsMove DEF ArtStages, NothingMade
<1>3. CASE \E D \in SUBSET Artifacts!Dirs : Artifacts!Fills(r, D, {Artifacts!Preview})
  <2>1. PICK D \in SUBSET Artifacts!Dirs : Artifacts!Fills(r, D, {Artifacts!Preview})
    BY <1>3
  <2>2. run[r].made = {} /\ \A d \in run[r].own : run[r].lists[d] = {r}
    BY <1>1 DEF DirsTrue
  <2>3. /\ run' \in [Threads -> ArtRuns] /\ \A u \in Threads \ {r} : run'[u] = run[u]
        /\ run'[r].made = {}
        /\ \/ run'[r].own = {}
           \/ run'[r].own = run[r].own /\ run'[r].lists = run[r].lists
    BY <1>1, <2>2, GoesFacts, EndsFacts DEF ArtStages
  <2>4. DirsTrue(r)'
    BY <2>2, <2>3 DEF DirsTrue
  <2> QED BY <1>1, <2>1, <2>3, <2>4, FillingMove DEF ArtOwners
<1> QED BY <1>1, <1>2, <1>3

LEMMA CleansSegmentsMove ==
  ASSUME CliTypes, \A u \in Threads : DirsTrue(u), NEW r \in Threads, Artifacts!CleansSegments(r)
  PROVE  CliMoves(r)
<1>1. /\ run[r].at = "segment" /\ UNCHANGED <<conf, xml, reports, summaries>>
      /\ \/ Artifacts!Goes(r, "traffic") /\ UNCHANGED <<shared, foreign>>
         \/ Artifacts!Goes(r, "rules") /\ Artifacts!Fills(r, {"segments"}, {})
  BY DEF Artifacts!CleansSegments, Artifacts!At, Artifacts!KeepsDirs, Artifacts!KeepsFiles,
         Artifacts!KeepsWorld
<1>2. CASE Artifacts!Goes(r, "traffic") /\ UNCHANGED <<shared, foreign>>
  BY <1>1, <1>2, GoesMove DEF ArtStages, NothingMade
<1>3. CASE Artifacts!Goes(r, "rules") /\ Artifacts!Fills(r, {"segments"}, {})
  <2>1. run[r].made = {} /\ \A d \in run[r].own : run[r].lists[d] = {r}
    BY <1>1 DEF DirsTrue
  <2>2. /\ run' \in [Threads -> ArtRuns] /\ \A u \in Threads \ {r} : run'[u] = run[u]
        /\ run'[r].at = "rules" /\ run'[r].made = {}
        /\ run'[r].own = run[r].own /\ run'[r].lists = run[r].lists
    BY <1>3, <2>1, GoesFacts DEF ArtStages
  <2>3. DirsTrue(r)'
    BY <2>1, <2>2 DEF DirsTrue
  <2> QED BY <1>1, <1>3, <2>2, <2>3, FillingMove DEF Artifacts!Dirs
<1> QED BY <1>1, <1>2, <1>3

LEMMA CleansTrafficMove ==
  ASSUME CliTypes, \A u \in Threads : DirsTrue(u), NEW r \in Threads, Artifacts!CleansTraffic(r)
  PROVE  CliMoves(r)
<1>1. /\ run[r].at = "traffic" /\ UNCHANGED <<conf, xml, reports, summaries>>
      /\ \/ Artifacts!Ends(r) /\ UNCHANGED <<shared, foreign>>
         \/ Artifacts!Goes(r, "report") /\ UNCHANGED <<shared, foreign>>
         \/ Artifacts!Goes(r, "flows") /\ Artifacts!Fills(r, {"traffic"}, {})
  BY DEF Artifacts!CleansTraffic, Artifacts!At, Artifacts!KeepsDirs, Artifacts!KeepsFiles,
         Artifacts!KeepsWorld
<1>2. CASE /\ Artifacts!Ends(r) \/ Artifacts!Goes(r, "report")
           /\ UNCHANGED <<shared, foreign>>
  BY <1>1, <1>2, GoesMove, EndsMove DEF ArtStages, NothingMade
<1>3. CASE Artifacts!Goes(r, "flows") /\ Artifacts!Fills(r, {"traffic"}, {})
  <2>1. /\ "traffic" \notin run[r].made /\ run[r].made \in SUBSET Artifacts!Dirs
        /\ \A d \in run[r].made \ foreign[r] : shared[d] = {r}
        /\ \A d \in run[r].own : run[r].lists[d] = {r}
    BY <1>1 DEF DirsTrue, CliTypes, ArtRuns
  <2>2. /\ run' \in [Threads -> ArtRuns] /\ \A u \in Threads \ {r} : run'[u] = run[u]
        /\ run'[r].at = "flows" /\ run'[r].made = run[r].made
        /\ run'[r].own = run[r].own /\ run'[r].lists = run[r].lists
    BY <1>3, GoesFacts DEF ArtStages
  <2>3. /\ \A d \in Artifacts!Dirs : shared'[d] = IF d \in {"traffic"} THEN {} ELSE shared[d]
        /\ foreign'[r] = foreign[r] \ {"traffic"}
    BY <1>3 DEF CliTypes, Artifacts!Fills
  <2>4. DirsTrue(r)'
    BY <2>1, <2>2, <2>3 DEF DirsTrue
  <2> QED BY <1>1, <1>3, <2>2, <2>4, FillingMove DEF Artifacts!Dirs
<1> QED BY <1>1, <1>2, <1>3

\* A run that has written a directory's summary is the only one in it.
LEMMA WritesMove ==
  ASSUME CliTypes, \A u \in Threads : DirsTrue(u), NEW r \in Threads, NEW d \in Artifacts!Dirs,
         NEW to \in {"traffic", "allow", "report"}, Artifacts!Writes(r, d, to), run[r].at # "ended",
         to = "traffic" => run[r].at = "rules" /\ d = "segments"
  PROVE  CliMoves(r)
<1>1. /\ UNCHANGED <<conf, xml, reports, summaries>>
      /\ \/ Artifacts!Goes(r, to) /\ UNCHANGED <<shared, foreign>>
         \/ /\ run' = [run EXCEPT ![r].at = to, ![r].made = @ \cup {d}]
            /\ Artifacts!Fills(r, {d}, {r})
  BY DEF Artifacts!Writes, Artifacts!KeepsDirs, Artifacts!KeepsFiles, Artifacts!KeepsWorld
<1>2. CASE Artifacts!Goes(r, to) /\ UNCHANGED <<shared, foreign>>
  BY <1>1, <1>2, GoesMove DEF ArtStages, NothingMade
<1>3. CASE /\ run' = [run EXCEPT ![r].at = to, ![r].made = @ \cup {d}]
           /\ Artifacts!Fills(r, {d}, {r})
  <2>1. /\ run \in [Threads -> ArtRuns] /\ run[r] \in ArtRuns
        /\ \A e \in run[r].made \ foreign[r] : shared[e] = {r}
        /\ \A e \in run[r].own : run[r].lists[e] = {r}
        /\ run[r].at = "rules" => run[r].made = {}
    BY DEF DirsTrue, CliTypes
  <2>2. run'[r] = [run[r] EXCEPT !.at = to, !.made = @ \cup {d}]
    BY <1>3, <2>1
  <2>3. /\ run'[r].at = to /\ run'[r].made = run[r].made \cup {d}
        /\ run'[r].own = run[r].own /\ run'[r].lists = run[r].lists
        /\ run'[r] \in ArtRuns
    <3>1. [run[r] EXCEPT !.at = to, !.made = @ \cup {d}] \in ArtRuns
      BY <2>1 DEF ArtRuns, ArtStages
    <3>2. run'[r] \in ArtRuns
      BY <2>2, <3>1
    <3> QED BY <2>1, <2>2, <3>2 DEF ArtRuns
  <2>4. run' \in [Threads -> ArtRuns] /\ \A u \in Threads \ {r} : run'[u] = run[u]
    BY <1>3, <2>1, <2>3
  <2>5. /\ \A e \in Artifacts!Dirs : shared'[e] = IF e \in {d} THEN {r} ELSE shared[e]
        /\ foreign'[r] = foreign[r] \ {d}
    BY <1>3 DEF CliTypes, Artifacts!Fills
  <2>6. run[r].made \in SUBSET Artifacts!Dirs
    BY <2>1 DEF ArtRuns
  <2>7. DirsTrue(r)'
    BY <2>1, <2>3, <2>5, <2>6 DEF DirsTrue
  <2> QED BY <1>1, <1>3, <2>4, <2>7, FillingMove DEF ArtOwners
<1> QED BY <1>1, <1>2, <1>3

\* Rules that let flows through are added to those another may have written.
LEMMA AllowsMove ==
  ASSUME CliTypes, \A u \in Threads : DirsTrue(u), NEW r \in Threads, Artifacts!Allows(r)
  PROVE  CliMoves(r)
<1> DEFINE whose == shared["segments"] \cup {r}
<1>1. /\ run[r].at = "allow" /\ Artifacts!Goes(r, "report")
      /\ UNCHANGED <<conf, xml, reports, summaries>>
      /\ UNCHANGED <<shared, foreign>> \/ Artifacts!Fills(r, {"segments"}, whose)
  BY DEF Artifacts!Allows, Artifacts!At, Artifacts!KeepsDirs, Artifacts!KeepsFiles, Artifacts!KeepsWorld
<1>2. CASE UNCHANGED <<shared, foreign>>
  BY <1>1, <1>2, GoesMove DEF ArtStages, NothingMade
<1>3. CASE Artifacts!Fills(r, {"segments"}, whose)
  <2>0. "segments" \in Artifacts!Dirs /\ whose \in SUBSET ArtOwners
    BY DEF CliTypes, Artifacts!Dirs, ArtOwners
  <2>1. /\ \A e \in run[r].made \ foreign[r] : shared[e] = {r}
        /\ \A e \in run[r].own : run[r].lists[e] = {r}
        /\ run[r].made \in SUBSET Artifacts!Dirs
    BY DEF DirsTrue, CliTypes, ArtRuns
  <2>2. /\ run' \in [Threads -> ArtRuns] /\ \A u \in Threads \ {r} : run'[u] = run[u]
        /\ run'[r].at = "report" /\ run'[r].made = run[r].made
        /\ run'[r].own = run[r].own /\ run'[r].lists = run[r].lists
    BY <1>1, GoesFacts DEF ArtStages
  <2>3. /\ \A e \in Artifacts!Dirs : shared'[e] = IF e \in {"segments"} THEN whose ELSE shared[e]
        /\ foreign'[r] = IF whose \subseteq {r} THEN foreign[r] \ {"segments"} ELSE foreign[r]
    <3> HIDE DEF whose
    <3> QED BY <1>3 DEF CliTypes, Artifacts!Fills
  <2>4. \A e \in run'[r].made \ foreign'[r] : shared'[e] = {r}
    <3> SUFFICES ASSUME NEW e \in run'[r].made \ foreign'[r] PROVE shared'[e] = {r}
      OBVIOUS
    <3>1. CASE e # "segments"
      BY <2>1, <2>2, <2>3, <3>1
    <3>2. CASE e = "segments"
      <4>1. whose \subseteq {r}
        BY <2>1, <2>2, <2>3, <3>2
      <4> QED BY <2>0, <2>3, <3>2, <4>1
    <3> QED BY <3>1, <3>2
  <2>5. DirsTrue(r)'
    BY <2>1, <2>2, <2>4 DEF DirsTrue
  <2> HIDE DEF whose
  <2> QED BY <1>1, <1>3, <2>0, <2>2, <2>5, FillingMove
<1> QED BY <1>1, <1>2, <1>3

LEMMA ListsMove ==
  ASSUME CliTypes, \A u \in Threads : DirsTrue(u), NEW r \in Threads, Artifacts!Lists(r)
  PROVE  CliMoves(r)
<1>1. /\ run[r].at = "report" /\ UNCHANGED <<conf, xml, shared, foreign, reports, summaries>>
      /\ \/ Artifacts!Goes(r, "start")
         \/ run' = [run EXCEPT ![r].at = "summary", ![r].lists = shared,
                               ![r].own = run[r].made \ foreign[r]]
  BY DEF Artifacts!Lists, Artifacts!At, Artifacts!KeepsDirs, Artifacts!KeepsFiles, Artifacts!KeepsWorld
<1>2. CASE Artifacts!Goes(r, "start")
  BY <1>1, <1>2, GoesMove DEF ArtStages, NothingMade
<1>3. CASE run' = [run EXCEPT ![r].at = "summary", ![r].lists = shared,
                             ![r].own = run[r].made \ foreign[r]]
  <2>1. /\ run \in [Threads -> ArtRuns] /\ run[r] \in ArtRuns
        /\ \A e \in run[r].made \ foreign[r] : shared[e] = {r}
        /\ shared \in [Artifacts!Dirs -> SUBSET ArtOwners]
    BY DEF DirsTrue, CliTypes
  <2>2. run'[r] = [run[r] EXCEPT !.at = "summary", !.lists = shared, !.own = run[r].made \ foreign[r]]
    BY <1>3, <2>1
  <2>3. /\ run'[r].at = "summary" /\ run'[r].made = run[r].made
        /\ run'[r].own = run[r].made \ foreign[r] /\ run'[r].lists = shared
        /\ run'[r] \in ArtRuns
    <3>1. run[r].made \ foreign[r] \in SUBSET Artifacts!Dirs
      BY <2>1 DEF ArtRuns
    <3>2. [run[r] EXCEPT !.at = "summary", !.lists = shared, !.own = run[r].made \ foreign[r]] \in ArtRuns
      BY <2>1, <3>1 DEF ArtRuns, ArtStages
    <3>3. run'[r] \in ArtRuns
      BY <2>2, <3>2
    <3> QED BY <2>1, <2>2, <3>3 DEF ArtRuns
  <2>4. run' \in [Threads -> ArtRuns] /\ \A u \in Threads \ {r} : run'[u] = run[u]
    BY <1>3, <2>1, <2>3
  <2>5. DirsTrue(r)'
    BY <1>1, <2>1, <2>3 DEF DirsTrue
  <2> QED BY <1>1, <2>4, <2>5, QuietMove
<1> QED BY <1>1, <1>2, <1>3

\* What the log says of a run's files is said while it makes them.
LEMMA SaysMove ==
  ASSUME CliTypes, \A u \in Threads : DirsTrue(u), NEW r \in Threads,
         NEW at \in {"markdown", "start"}, NEW said \in SUBSET {"summary", "report"},
         run[r].at # "ended", run' = [run EXCEPT ![r].at = at, ![r].said = said],
         UNCHANGED <<conf, xml, shared, foreign>>,
         reports' \in {reports, Append(reports, r)}, summaries' \in {summaries, Append(summaries, r)}
  PROVE  CliMoves(r)
<1>1. run \in [Threads -> ArtRuns] /\ run[r] \in ArtRuns
  BY DEF CliTypes
<1>2. run'[r] = [run[r] EXCEPT !.at = at, !.said = said]
  BY <1>1
<1>3. /\ run'[r].at = at /\ run'[r].made = run[r].made
      /\ run'[r].own = run[r].own /\ run'[r].lists = run[r].lists
      /\ run'[r] \in ArtRuns
  BY <1>1, <1>2 DEF ArtRuns, ArtStages
<1>4. run' \in [Threads -> ArtRuns] /\ \A u \in Threads \ {r} : run'[u] = run[u]
  BY <1>1, <1>3
<1>5. DirsTrue(r)'
  <2>1. /\ \A e \in run[r].made \ foreign[r] : shared[e] = {r}
        /\ \A e \in run[r].own : run[r].lists[e] = {r}
    BY DEF DirsTrue
  <2> QED BY <1>3, <2>1 DEF DirsTrue
<1> QED BY <1>4, <1>5, QuietMove

LEMMA WritesSummaryMove ==
  ASSUME CliTypes, \A u \in Threads : DirsTrue(u), NEW r \in Threads, Artifacts!WritesSummary(r)
  PROVE  CliMoves(r)
<1>1. PICK said \in {{}, {"summary"}} :
        /\ run' = [run EXCEPT ![r].at = "markdown", ![r].said = said]
        /\ summaries' \in {summaries, Append(summaries, r)}
  BY DEF Artifacts!WritesSummary
<1>2. run[r].at = "summary" /\ UNCHANGED <<conf, xml, shared, foreign, reports>>
  BY DEF Artifacts!WritesSummary, Artifacts!At, Artifacts!KeepsDirs, Artifacts!KeepsWorld
<1> QED BY <1>1, <1>2, SaysMove

LEMMA WritesReportMove ==
  ASSUME CliTypes, \A u \in Threads : DirsTrue(u), NEW r \in Threads, Artifacts!WritesReport(r)
  PROVE  CliMoves(r)
<1>1. /\ run[r].at = "markdown" /\ UNCHANGED <<conf, xml, shared, foreign, summaries>>
      /\ reports' \in {reports, Append(reports, r)}
      /\ \/ Artifacts!Goes(r, "start")
         \/ run' = [run EXCEPT ![r].at = "start", ![r].said = @ \cup {"report"}]
  BY DEF Artifacts!WritesReport, Artifacts!At, Artifacts!KeepsDirs, Artifacts!KeepsWorld
<1>2. CASE Artifacts!Goes(r, "start")
  BY <1>1, <1>2, GoesMove DEF ArtStages, NothingMade
<1>3. CASE run' = [run EXCEPT ![r].at = "start", ![r].said = @ \cup {"report"}]
  <2>1. run[r].said \cup {"report"} \in SUBSET {"summary", "report"}
    BY DEF CliTypes, ArtRuns
  <2>2. run' = [run EXCEPT ![r].at = "start", ![r].said = run[r].said \cup {"report"}]
    BY <1>3
  <2> QED BY <1>1, <2>1, <2>2, SaysMove
<1> QED BY <1>1, <1>2, <1>3

LEMMA CliStepMoves ==
  ASSUME CliTypes, \A u \in Threads : DirsTrue(u), NEW r \in Threads, Artifacts!CliStep(r)
  PROVE  CliMoves(r) /\ run[r].at # "idle"
<1>1. CASE Artifacts!IsKilled(r)
  <2>1. /\ run[r].at \notin {"idle", "ended"} /\ Artifacts!Ends(r)
        /\ UNCHANGED <<conf, xml, shared, foreign, reports, summaries>>
    BY <1>1 DEF Artifacts!IsKilled, Artifacts!KeepsDirs, Artifacts!KeepsFiles
  <2> QED BY <2>1, EndsMove
<1>2. CASE Artifacts!Plans(r)
  <2>1. /\ run[r].at = "plan" /\ UNCHANGED <<conf, xml, shared, foreign, reports, summaries>>
        /\ Artifacts!Goes(r, "build") \/ Artifacts!Goes(r, "answer") \/ Artifacts!Ends(r)
    BY <1>2 DEF Artifacts!Plans, Artifacts!At, Artifacts!KeepsDirs, Artifacts!KeepsFiles,
                Artifacts!KeepsWorld
  <2> QED BY <2>1, GoesMove, EndsMove DEF ArtStages, NothingMade
<1>3. CASE Artifacts!Answers(r)
  BY <1>3, AnswersMove DEF Artifacts!Answers, Artifacts!At
<1>4. CASE Artifacts!Builds(r)
  <2>1. /\ run[r].at = "build" /\ UNCHANGED <<conf, xml, shared, foreign, reports, summaries>>
        /\ Artifacts!Goes(r, "segment") \/ Artifacts!Goes(r, "summary") \/ Artifacts!Ends(r)
    BY <1>4 DEF Artifacts!Builds, Artifacts!At, Artifacts!KeepsDirs, Artifacts!KeepsFiles,
                Artifacts!KeepsWorld
  <2> QED BY <2>1, GoesMove, EndsMove DEF ArtStages, NothingMade
<1>5. CASE Artifacts!CleansSegments(r)
  BY <1>5, CleansSegmentsMove DEF Artifacts!CleansSegments, Artifacts!At
<1>6. CASE Artifacts!WritesRules(r)
  <2>1. run[r].at = "rules" /\ Artifacts!Writes(r, "segments", "traffic")
    BY <1>6 DEF Artifacts!WritesRules, Artifacts!At
  <2> QED BY <2>1, WritesMove DEF Artifacts!Dirs
<1>7. CASE Artifacts!CleansTraffic(r)
  BY <1>7, CleansTrafficMove DEF Artifacts!CleansTraffic, Artifacts!At
<1>8. CASE Artifacts!WritesFlows(r)
  <2>1. PICK to \in {"allow", "report"} : Artifacts!Writes(r, "traffic", to)
    BY <1>8 DEF Artifacts!WritesFlows
  <2>2. run[r].at = "flows"
    BY <1>8 DEF Artifacts!WritesFlows, Artifacts!At
  <2> QED BY <2>1, <2>2, WritesMove DEF Artifacts!Dirs
<1>9. CASE Artifacts!Allows(r)
  BY <1>9, AllowsMove DEF Artifacts!Allows, Artifacts!At
<1>10. CASE Artifacts!Lists(r)
  BY <1>10, ListsMove DEF Artifacts!Lists, Artifacts!At
<1>11. CASE Artifacts!WritesSummary(r)
  BY <1>11, WritesSummaryMove DEF Artifacts!WritesSummary, Artifacts!At
<1>12. CASE Artifacts!WritesReport(r)
  BY <1>12, WritesReportMove DEF Artifacts!WritesReport, Artifacts!At
<1>13. CASE Artifacts!StartsSession(r)
  <2>1. /\ run[r].at = "start" /\ Artifacts!Ends(r)
        /\ UNCHANGED <<conf, xml, shared, foreign, reports, summaries>>
    BY <1>13 DEF Artifacts!StartsSession, Artifacts!At, Artifacts!KeepsDirs, Artifacts!KeepsFiles,
                 Artifacts!KeepsWorld
  <2> QED BY <2>1, EndsMove
<1> QED BY <1>1, <1>2, <1>3, <1>4, <1>5, <1>6, <1>7, <1>8, <1>9, <1>10, <1>11, <1>12, <1>13
        DEF Artifacts!CliStep

LEMMA InAppend ==
  ASSUME NEW s \in Seq(Threads), NEW r \in Threads, NEW u \in Threads, u # r
  PROVE  Artifacts!In(Append(s, r), u) <=> Artifacts!In(s, u)
<1>1. /\ DOMAIN Append(s, r) = 1..(Len(s) + 1) /\ DOMAIN s = 1..Len(s) /\ Len(s) \in Nat
      /\ \A i \in 1..Len(s) : Append(s, r)[i] = s[i]
      /\ Append(s, r)[Len(s) + 1] = r
  OBVIOUS
<1>2. \A i \in 1..(Len(s) + 1) : i \in 1..Len(s) \/ i = Len(s) + 1
  BY <1>1
<1> QED BY <1>1, <1>2 DEF Artifacts!In

\* What is found of a run that has ended: nothing another does changes it.
LEMMA MovesKeepFound ==
  ASSUME ArtInv, NEW r \in Threads, CliMoves(r), Artifacts!KeepsOwn
  PROVE  FoundPaired'
<1>0. CliTypes /\ FoundPaired
  BY DEF ArtInv
<1>1. /\ run[r].at # "ended" /\ \A u \in Threads \ {r} : run'[u] = run[u]
      /\ summaries' \in {summaries, Append(summaries, r)} /\ work' = work /\ entries' = entries
  BY DEF CliMoves, Artifacts!KeepsOwn
<1>2. summaries \in Seq(Threads)
  BY <1>0 DEF CliTypes
<1>3. \A u \in Threads : run[u].at = "ended" =>
        /\ run'[u] = run[u]
        /\ Artifacts!In(summaries', u) <=> Artifacts!In(summaries, u)
  <2> SUFFICES ASSUME NEW u \in Threads, run[u].at = "ended"
               PROVE  /\ run'[u] = run[u]
                      /\ Artifacts!In(summaries', u) <=> Artifacts!In(summaries, u)
    OBVIOUS
  <2>1. u # r /\ run'[u] = run[u]
    BY <1>1
  <2>2. Artifacts!In(Append(summaries, r), u) <=> Artifacts!In(summaries, u)
    BY <1>2, <2>1, InAppend
  <2> QED BY <1>1, <2>1, <2>2
<1>4. \A u \in Threads : run[u].at = "ended" =>
        /\ run'[u] = run[u]
        /\ (\E i \in DOMAIN summaries' : summaries'[i] = u) <=> (\E i \in DOMAIN summaries : summaries[i] = u)
  BY <1>3 DEF Artifacts!In
<1> QED BY <1>0, <1>1, <1>4 DEF FoundPaired, Paired, Artifacts!In

LEMMA FoundSame ==
  ASSUME run' = run, summaries' = summaries, work' \in [Threads -> ArtWorks],
         \A u \in Threads : work'[u].at \in {"xml", "rewrite", "append"} =>
                             Paired(u, work'[u].report, work'[u].summary),
         \A e \in entries' : e.run \in Threads /\ Paired(e.run, e.report, e.summary)
  PROVE  FoundPaired'
BY DEF FoundPaired, Paired, Artifacts!In

LEMMA MovesKeep ==
  ASSUME ArtInv, NEW r \in Threads, CliMoves(r), Artifacts!KeepsOwn,
         run[r].at = "idle" /\ conf[r].web => xml[conf[r].file] # "gone"
  PROVE  ArtInv'
<1>1. /\ conf' = conf /\ xml' = xml /\ run[r].at # "ended" /\ CliTypes'
      /\ \A u \in Threads \ {r} : run'[u] = run[u]
      /\ work' = work /\ meddled' = meddled /\ \A u \in Threads : DirsTrue(u)'
  BY DEF CliMoves, Artifacts!KeepsOwn
<1>2. FilesTrue'
  BY <1>1 DEF FilesTrue, ArtInv
<1> QED BY <1>1, <1>2, MovesKeepFound DEF ArtInv

\* The Web backend's own steps leave the runs, their directories and their files alone.
LEMMA OwnKeeps ==
  ASSUME ArtInv, Artifacts!KeepsCli, xml' \in [ScenarioFiles -> {"all", "first", "torn", "gone"}]
  PROVE  /\ CliTypes' /\ \A u \in Threads : DirsTrue(u)'
         /\ conf' = conf /\ run' = run /\ summaries' = summaries
<1>1. UNCHANGED <<conf, run, shared, foreign, reports, summaries>>
  BY DEF Artifacts!KeepsCli
<1>2. CliTypes'
  BY <1>1 DEF ArtInv, CliTypes
<1>3. \A u \in Threads : DirsTrue(u)'
  BY <1>1 DEF ArtInv, DirsTrue
<1> QED BY <1>1, <1>2, <1>3

LEMMA LatestIsRun ==
  ASSUME NEW s \in Seq(Threads)
  PROVE  Artifacts!Latest(s) \in Threads \cup {Artifacts!None}
<1>1. s # <<>> => Len(s) \in DOMAIN s
  OBVIOUS
<1>2. \A i \in DOMAIN s : s[i] \in Threads
  OBVIOUS
<1> QED BY <1>1, <1>2 DEF Artifacts!Latest

\* What the finalizer finds of a run that has ended is paired.
LEMMA FoundIsPaired ==
  ASSUME ArtInv, Artifacts!None \notin Threads, NEW r \in Threads, run[r].at = "ended"
  PROVE  LET report == Artifacts!FoundReport(r)
             summary == Artifacts!FoundSummary(r, report)
         IN  /\ Paired(r, report, summary)
             /\ report \in Threads \cup {Artifacts!None} /\ summary \in Threads \cup {Artifacts!None}
<1> DEFINE report == Artifacts!FoundReport(r)
           summary == Artifacts!FoundSummary(r, report)
<1>1. reports \in Seq(Threads) /\ summaries \in Seq(Threads)
  BY DEF ArtInv, CliTypes
<1>2. report = IF "report" \in run[r].said THEN r ELSE Artifacts!Latest(reports)
  BY DEF Artifacts!FoundReport
<1>3. summary = IF "summary" \in run[r].said THEN r
                ELSE IF report = Artifacts!None THEN Artifacts!Latest(summaries)
                ELSE IF Artifacts!In(summaries, report) THEN report ELSE Artifacts!None
  BY DEF Artifacts!FoundSummary
<1>4. /\ Artifacts!Latest(reports) \in Threads \cup {Artifacts!None}
      /\ Artifacts!Latest(summaries) \in Threads \cup {Artifacts!None}
  BY <1>1, LatestIsRun
<1> HIDE DEF report, summary
<1>5. report \in Threads \cup {Artifacts!None} /\ summary \in Threads \cup {Artifacts!None}
  BY <1>2, <1>3, <1>4
<1>6. Paired(r, report, summary)
  BY <1>2, <1>3 DEF Paired
<1> USE DEF report, summary
<1> QED BY <1>5, <1>6

LEMMA FindsKeeps ==
  ASSUME ArtInv, Artifacts!None \notin Threads, NEW r \in Threads, Artifacts!Finds(r)
  PROVE  ArtInv'
<1>1. PICK report, summary :
        /\ work' = [work EXCEPT ![r] = [at |-> "xml", report |-> report, summary |-> summary]]
        /\ Paired(r, report, summary)
        /\ report \in Threads \cup {Artifacts!None} /\ summary \in Threads \cup {Artifacts!None}
  BY FoundIsPaired DEF Artifacts!Finds, Artifacts!At
<1>2. /\ Artifacts!KeepsCli /\ xml' = xml /\ entries' = entries /\ meddled' = meddled
      /\ work[r].at = "idle"
  BY DEF Artifacts!Finds, Artifacts!Idle
<1>3. CliTypes /\ FoundPaired /\ FilesTrue
  BY DEF ArtInv
<1>4. /\ CliTypes' /\ \A u \in Threads : DirsTrue(u)'
      /\ conf' = conf /\ run' = run /\ summaries' = summaries
  BY <1>2, <1>3, OwnKeeps DEF CliTypes
<1>5. [at |-> "xml", report |-> report, summary |-> summary] \in ArtWorks
  BY <1>1 DEF ArtWorks
<1>6. work \in [Threads -> ArtWorks] /\ work' \in [Threads -> ArtWorks]
  BY <1>1, <1>3, <1>5 DEF FoundPaired
<1>7. /\ work'[r].at = "xml" /\ work'[r].report = report /\ work'[r].summary = summary
      /\ \A u \in Threads \ {r} : work'[u] = work[u]
  BY <1>1, <1>6
<1>8. \A u \in Threads : work'[u].at \in {"xml", "rewrite", "append"} =>
        Paired(u, work'[u].report, work'[u].summary)
  BY <1>1, <1>3, <1>7 DEF FoundPaired
<1>9. FoundPaired'
  <2>1. \A e \in entries' : e.run \in Threads /\ Paired(e.run, e.report, e.summary)
    BY <1>2, <1>3 DEF FoundPaired
  <2> QED BY <1>4, <1>6, <1>8, <2>1, FoundSame
<1>10. FilesTrue'
  BY <1>2, <1>3, <1>4, <1>7 DEF FilesTrue
<1> QED BY <1>4, <1>9, <1>10 DEF ArtInv

\* The finalizer goes on with what it has found.
LEMMA FinderTurns ==
  ASSUME FoundPaired, NEW r \in Threads, NEW at \in {"rewrite", "append"}, Artifacts!Turns(r, at)
  PROVE  /\ work' \in [Threads -> ArtWorks] /\ \A u \in Threads \ {r} : work'[u] = work[u]
         /\ work'[r].at = at /\ work'[r].report = work[r].report /\ work'[r].summary = work[r].summary
<1>1. work \in [Threads -> ArtWorks] /\ work' = [work EXCEPT ![r].at = at]
  BY DEF FoundPaired, Artifacts!Turns
<1>2. work[r] \in ArtWorks /\ work'[r] = [work[r] EXCEPT !.at = at]
  BY <1>1
<1>3. [work[r] EXCEPT !.at = at] \in ArtWorks
  BY <1>2 DEF ArtWorks
<1>4. work' \in [Threads -> ArtWorks] /\ \A u \in Threads \ {r} : work'[u] = work[u]
  BY <1>1, <1>2, <1>3
<1> QED BY <1>2, <1>4 DEF ArtWorks

LEMMA TurnsKeepFound ==
  ASSUME ArtInv, NEW r \in Threads, NEW at \in {"rewrite", "append"}, Artifacts!Turns(r, at),
         work[r].at \in {"xml", "rewrite"}, entries' = entries, run' = run, summaries' = summaries
  PROVE  FoundPaired'
<1>0. FoundPaired
  BY DEF ArtInv
<1>1. /\ work' \in [Threads -> ArtWorks] /\ \A u \in Threads \ {r} : work'[u] = work[u]
      /\ work'[r].at = at /\ work'[r].report = work[r].report /\ work'[r].summary = work[r].summary
  BY <1>0, FinderTurns
<1>2. \A u \in Threads : work'[u].at \in {"xml", "rewrite", "append"} =>
        Paired(u, work'[u].report, work'[u].summary)
  BY <1>0, <1>1 DEF FoundPaired
<1>3. \A e \in entries' : e.run \in Threads /\ Paired(e.run, e.report, e.summary)
  BY <1>0 DEF FoundPaired
<1> QED BY <1>1, <1>2, <1>3, FoundSame

LEMMA TruncatesKeeps ==
  ASSUME ArtInv, NEW r \in Threads, Artifacts!Truncates(r)
  PROVE  ArtInv'
<1> DEFINE f == conf[r].file
<1>1. /\ work[r].at = "xml" /\ Artifacts!KeepsCli /\ entries' = entries
      /\ \/ /\ xml' = [xml EXCEPT ![f] = "torn"] /\ Artifacts!Turns(r, "rewrite")
            /\ meddled \subseteq meddled'
         \/ Artifacts!Turns(r, "append") /\ xml' = xml /\ meddled' = meddled
  BY DEF Artifacts!Truncates, Artifacts!Meddles
<1>2. CliTypes /\ FoundPaired /\ FilesTrue
  BY DEF ArtInv
<1>3. f \in ScenarioFiles /\ xml \in [ScenarioFiles -> {"all", "first", "torn", "gone"}]
  BY <1>2 DEF CliTypes, Artifacts!AllConfs
<1> HIDE DEF f
<1>4. xml' \in [ScenarioFiles -> {"all", "first", "torn", "gone"}]
  BY <1>1, <1>3
<1>5. /\ CliTypes' /\ \A u \in Threads : DirsTrue(u)'
      /\ conf' = conf /\ run' = run /\ summaries' = summaries
  BY <1>1, <1>4, OwnKeeps
<1>6. FoundPaired'
  BY <1>1, <1>5, TurnsKeepFound
<1>7. CASE /\ xml' = [xml EXCEPT ![f] = "torn"] /\ Artifacts!Turns(r, "rewrite")
           /\ meddled \subseteq meddled'
  <2>1. work'[r].at = "rewrite" /\ \A u \in Threads \ {r} : work'[u] = work[u]
    BY <1>2, <1>7, FinderTurns
  <2>2. \A g \in ScenarioFiles : xml'[g] = IF g = f THEN "torn" ELSE xml[g]
    BY <1>3, <1>7
  <2>3. \A u \in Threads : conf[u].file \in ScenarioFiles
    BY <1>2 DEF CliTypes, Artifacts!AllConfs
  <2>4. \A g \in ScenarioFiles : xml'[g] = "torn" =>
          \E u \in Threads : conf[u].file = g /\ work'[u].at = "rewrite"
    BY <1>1, <1>2, <2>1, <2>2 DEF FilesTrue, f
  <2>5. \A u \in Threads : run[u].at \notin {"idle", "ended"} /\ xml'[conf[u].file] = "gone"
                             /\ conf[u].web => u \in meddled'
    BY <1>2, <1>7, <2>2, <2>3 DEF FilesTrue
  <2>6. FilesTrue'
    BY <1>5, <2>4, <2>5 DEF FilesTrue
  <2> QED BY <1>5, <1>6, <2>6 DEF ArtInv
<1>8. CASE Artifacts!Turns(r, "append") /\ xml' = xml /\ meddled' = meddled
  <2>1. \A u \in Threads \ {r} : work'[u] = work[u]
    BY <1>2, <1>8, FinderTurns
  <2>2. FilesTrue'
    BY <1>1, <1>2, <1>5, <1>8, <2>1 DEF FilesTrue
  <2> QED BY <1>5, <1>6, <2>2 DEF ArtInv
<1> QED BY <1>1, <1>7, <1>8

LEMMA RewritesKeeps ==
  ASSUME ArtInv, NEW r \in Threads, Artifacts!Rewrites(r)
  PROVE  ArtInv'
<1> DEFINE f == conf[r].file
<1>1. /\ work[r].at = "rewrite" /\ Artifacts!KeepsCli /\ entries' = entries /\ meddled' = meddled
      /\ xml' = [xml EXCEPT ![f] = IF @ = "torn" THEN "first" ELSE @]
      /\ Artifacts!Turns(r, "append")
  BY DEF Artifacts!Rewrites
<1>2. CliTypes /\ FoundPaired /\ FilesTrue
  BY DEF ArtInv
<1>3. f \in ScenarioFiles /\ xml \in [ScenarioFiles -> {"all", "first", "torn", "gone"}]
  BY <1>2 DEF CliTypes, Artifacts!AllConfs
<1> HIDE DEF f
<1>4. /\ xml' \in [ScenarioFiles -> {"all", "first", "torn", "gone"}]
      /\ \A g \in ScenarioFiles : xml'[g] = IF g = f /\ xml[g] = "torn" THEN "first" ELSE xml[g]
  BY <1>1, <1>3
<1>5. /\ CliTypes' /\ \A u \in Threads : DirsTrue(u)'
      /\ conf' = conf /\ run' = run /\ summaries' = summaries
  BY <1>1, <1>4, OwnKeeps
<1>6. FoundPaired'
  BY <1>1, <1>5, TurnsKeepFound
<1>7. \A u \in Threads \ {r} : work'[u] = work[u]
  BY <1>1, <1>2, FinderTurns
<1>8. \A u \in Threads : conf[u].file \in ScenarioFiles
  BY <1>2 DEF CliTypes, Artifacts!AllConfs
<1>9. \A g \in ScenarioFiles : xml'[g] = "torn" =>
        \E u \in Threads : conf[u].file = g /\ work'[u].at = "rewrite"
  BY <1>2, <1>4, <1>7 DEF FilesTrue, f
<1>10. \A u \in Threads : run[u].at \notin {"idle", "ended"} /\ xml'[conf[u].file] = "gone"
                            /\ conf[u].web => u \in meddled'
  BY <1>1, <1>2, <1>4, <1>8 DEF FilesTrue
<1>11. FilesTrue'
  BY <1>5, <1>9, <1>10 DEF FilesTrue
<1> QED BY <1>5, <1>6, <1>11 DEF ArtInv

LEMMA AppendsKeeps ==
  ASSUME ArtInv, NEW r \in Threads, Artifacts!Appends(r)
  PROVE  ArtInv'
<1> DEFINE over == [Artifacts!Idle EXCEPT !.at = "done"]
<1>1. /\ work[r].at = "append" /\ Artifacts!KeepsCli /\ xml' = xml /\ meddled' = meddled
      /\ entries' = entries \cup {Artifacts!Entry(r)}
      /\ work' = [work EXCEPT ![r] = [Artifacts!Idle EXCEPT !.at = "done"]]
  BY DEF Artifacts!Appends
<1>2. CliTypes /\ FoundPaired /\ FilesTrue
  BY DEF ArtInv
<1>3. /\ CliTypes' /\ \A u \in Threads : DirsTrue(u)'
      /\ conf' = conf /\ run' = run /\ summaries' = summaries
  BY <1>1, <1>2, OwnKeeps DEF CliTypes
<1>4. over \in ArtWorks /\ over.at = "done"
  BY DEF ArtWorks, Artifacts!Idle
<1>5. work \in [Threads -> ArtWorks] /\ work' = [work EXCEPT ![r] = over]
  BY <1>1, <1>2 DEF FoundPaired
<1> HIDE DEF over
<1>6. /\ work' \in [Threads -> ArtWorks] /\ work'[r].at = "done"
      /\ \A u \in Threads \ {r} : work'[u] = work[u]
  BY <1>4, <1>5
<1>7. Paired(r, work[r].report, work[r].summary)
  BY <1>1, <1>2 DEF FoundPaired
<1>8. \A e \in entries' : e.run \in Threads /\ Paired(e.run, e.report, e.summary)
  BY <1>1, <1>2, <1>7 DEF FoundPaired, Artifacts!Entry
<1>9. \A u \in Threads : work'[u].at \in {"xml", "rewrite", "append"} =>
        Paired(u, work'[u].report, work'[u].summary)
  BY <1>2, <1>6 DEF FoundPaired
<1>10. FoundPaired'
  BY <1>3, <1>6, <1>8, <1>9, FoundSame
<1>11. FilesTrue'
  BY <1>1, <1>2, <1>3, <1>6 DEF FilesTrue
<1> QED BY <1>3, <1>10, <1>11 DEF ArtInv

\* Deleting a run's entries removes its file: whoever still runs with it is told to have lost it.
LEMMA DeleteKeeps ==
  ASSUME ArtInv, NEW r \in Threads, Artifacts!ReportsDelete(r)
  PROVE  ArtInv'
<1> DEFINE f == conf[r].file
<1>1. /\ Artifacts!KeepsCli /\ work' = work /\ entries' \subseteq entries
      /\ xml' = [xml EXCEPT ![f] = "gone"]
      /\ meddled' = meddled \cup {u \in Threads : conf[u].file = f /\ run[u].at # "ended"}
  BY DEF Artifacts!ReportsDelete, Artifacts!Meddles, Artifacts!At
<1>2. CliTypes /\ FoundPaired /\ FilesTrue
  BY DEF ArtInv
<1>3. f \in ScenarioFiles /\ xml \in [ScenarioFiles -> {"all", "first", "torn", "gone"}]
  BY <1>2 DEF CliTypes, Artifacts!AllConfs
<1> HIDE DEF f
<1>4. /\ xml' \in [ScenarioFiles -> {"all", "first", "torn", "gone"}]
      /\ \A g \in ScenarioFiles : xml'[g] = IF g = f THEN "gone" ELSE xml[g]
  BY <1>1, <1>3
<1>5. /\ CliTypes' /\ \A u \in Threads : DirsTrue(u)'
      /\ conf' = conf /\ run' = run /\ summaries' = summaries
  BY <1>1, <1>4, OwnKeeps
<1>6. FoundPaired'
  <2>1. \A e \in entries' : e.run \in Threads /\ Paired(e.run, e.report, e.summary)
    BY <1>1, <1>2 DEF FoundPaired
  <2>2. /\ work' \in [Threads -> ArtWorks]
        /\ \A u \in Threads : work'[u].at \in {"xml", "rewrite", "append"} =>
                              Paired(u, work'[u].report, work'[u].summary)
    BY <1>1, <1>2 DEF FoundPaired
  <2> QED BY <1>5, <2>1, <2>2, FoundSame
<1>7. \A u \in Threads : conf[u].file \in ScenarioFiles
  BY <1>2 DEF CliTypes, Artifacts!AllConfs
<1>8. \A g \in ScenarioFiles : xml'[g] = "torn" =>
        \E u \in Threads : conf[u].file = g /\ work'[u].at = "rewrite"
  BY <1>1, <1>2, <1>4 DEF FilesTrue
<1>9. \A u \in Threads : run[u].at \notin {"idle", "ended"} /\ xml'[conf[u].file] = "gone"
                           /\ conf[u].web => u \in meddled'
  BY <1>1, <1>2, <1>4, <1>7 DEF FilesTrue
<1>10. FilesTrue'
  BY <1>5, <1>8, <1>9 DEF FilesTrue
<1> QED BY <1>5, <1>6, <1>10 DEF ArtInv

LEMMA StatusKeeps ==
  ASSUME ArtInv, NEW r \in Threads, Artifacts!RunStatus(r)
  PROVE  ArtInv'
<1>1. /\ Artifacts!KeepsCli /\ work' = work /\ entries' = entries /\ xml' = xml
      /\ meddled' = meddled
  BY DEF Artifacts!RunStatus
<1>2. /\ CliTypes' /\ \A u \in Threads : DirsTrue(u)'
      /\ conf' = conf /\ run' = run /\ summaries' = summaries
  BY <1>1, OwnKeeps DEF ArtInv, CliTypes
<1>3. FilesTrue'
  BY <1>1, <1>2 DEF FilesTrue, ArtInv
<1>4. FoundPaired'
  BY <1>1, <1>2, FoundSame DEF ArtInv, FoundPaired
<1> QED BY <1>2, <1>3, <1>4 DEF ArtInv

\* A preview takes the directories from everybody.
LEMMA PreviewsKeeps ==
  ASSUME ArtInv, Artifacts!Previews, Artifacts!KeepsOwn
  PROVE  ArtInv'
<1>1. PICK D \in SUBSET Artifacts!Dirs : Artifacts!Fills(Artifacts!Preview, D, {Artifacts!Preview})
  BY DEF Artifacts!Previews
<1>2. UNCHANGED <<conf, run, xml, reports, summaries, work, cached, entries, meddled>>
  BY DEF Artifacts!Previews, Artifacts!KeepsFiles, Artifacts!KeepsOwn
<1>3. CliTypes /\ FoundPaired /\ FilesTrue /\ \A u \in Threads : DirsTrue(u)
  BY DEF ArtInv
<1>4. /\ shared' \in [Artifacts!Dirs -> SUBSET ArtOwners]
      /\ foreign' \in [Threads -> SUBSET Artifacts!Dirs]
      /\ \A d \in Artifacts!Dirs : shared'[d] = IF d \in D THEN {Artifacts!Preview} ELSE shared[d]
      /\ \A u \in Threads : foreign'[u] = IF u # Artifacts!Preview THEN foreign[u] \cup D
                                          ELSE foreign[u] \ D
  BY <1>1, <1>3 DEF CliTypes, Artifacts!Fills, ArtOwners
<1>5. CliTypes'
  BY <1>2, <1>3, <1>4 DEF CliTypes
<1>6. ASSUME NEW u \in Threads PROVE DirsTrue(u)'
  <2>1. run[u].made \in SUBSET Artifacts!Dirs /\ DirsTrue(u)
    BY <1>3 DEF CliTypes, ArtRuns
  <2>2. \A d \in run[u].made \ foreign'[u] : shared'[d] = {u}
    BY <1>4, <2>1 DEF DirsTrue
  <2> QED BY <1>2, <2>1, <2>2 DEF DirsTrue
<1>7. FilesTrue'
  BY <1>2, <1>3 DEF FilesTrue
<1>8. FoundPaired'
  BY <1>2, <1>3, FoundSame DEF FoundPaired
<1> QED BY <1>5, <1>6, <1>7, <1>8 DEF ArtInv

LEMMA ArtifactsBegin == Artifacts!ArtifactsInit => ArtInv
<1> SUFFICES ASSUME Artifacts!ArtifactsInit PROVE ArtInv
  OBVIOUS
<1>1. /\ conf \in [Threads -> Artifacts!AllConfs] /\ run = [r \in Threads |-> Artifacts!NewRun]
      /\ xml = [f \in ScenarioFiles |-> "all"] /\ shared = [d \in Artifacts!Dirs |-> {}]
      /\ foreign = [r \in Threads |-> {}] /\ reports = <<>> /\ summaries = <<>>
      /\ work = [r \in Threads |-> Artifacts!Idle] /\ entries = {}
  BY DEF Artifacts!ArtifactsInit, Artifacts!CliInit
<1>2. /\ Artifacts!NewRun \in ArtRuns /\ Artifacts!NewRun.at = "idle" /\ Artifacts!NewRun.made = {}
      /\ Artifacts!NewRun.own = {}
  BY DEF Artifacts!NewRun, ArtRuns, ArtStages, ArtOwners
<1>3. Artifacts!Idle \in ArtWorks /\ Artifacts!Idle.at = "idle"
  BY DEF Artifacts!Idle, ArtWorks
<1>4. CliTypes
  BY <1>1, <1>2 DEF CliTypes
<1>5. \A r \in Threads : DirsTrue(r)
  BY <1>1, <1>2 DEF DirsTrue
<1>6. FoundPaired
  BY <1>1, <1>3 DEF FoundPaired
<1>7. FilesTrue
  BY <1>1, <1>2 DEF FilesTrue
<1> QED BY <1>4, <1>5, <1>6, <1>7 DEF ArtInv

LEMMA ArtifactsNextKeeps ==
  ASSUME ArtInv, Artifacts!None \notin Threads, Artifacts!ArtifactsNext
  PROVE  ArtInv'
<1>0. CliTypes /\ \A u \in Threads : DirsTrue(u)
  BY DEF ArtInv
<1>1. ASSUME NEW r \in Threads, Artifacts!RunStarts(r) PROVE ArtInv'
  <2>1. /\ conf[r].web => xml[conf[r].file] # "gone"
        /\ Artifacts!Starts(r) /\ Artifacts!KeepsOwn
    BY <1>1 DEF Artifacts!RunStarts
  <2> QED BY <1>0, <2>1, StartsMove, MovesKeep
<1>2. ASSUME NEW r \in Threads, Artifacts!Cli(r) PROVE ArtInv'
  <2>1. Artifacts!CliStep(r) /\ Artifacts!KeepsOwn
    BY <1>2 DEF Artifacts!Cli
  <2>2. CliMoves(r) /\ run[r].at # "idle"
    BY <1>0, <2>1, CliStepMoves
  <2> QED BY <2>1, <2>2, MovesKeep
<1>3. CASE Artifacts!Previews /\ Artifacts!KeepsOwn
  BY <1>3, PreviewsKeeps
<1> QED BY <1>1, <1>2, <1>3, FindsKeeps, TruncatesKeeps, RewritesKeeps, AppendsKeeps, StatusKeeps,
           DeleteKeeps DEF Artifacts!ArtifactsNext

LEMMA ArtifactsStutter ==
  ASSUME ArtInv, UNCHANGED <<conf, run, xml, shared, foreign, reports, summaries, work, entries, meddled>>
  PROVE  ArtInv'
<1>1. CliTypes' /\ FilesTrue' /\ \A u \in Threads : DirsTrue(u)'
  BY DEF ArtInv, CliTypes, FilesTrue, DirsTrue
<1>2. FoundPaired'
  BY FoundSame DEF ArtInv, FoundPaired
<1> QED BY <1>1, <1>2 DEF ArtInv

LEMMA ArtifactsStep ==
  Artifacts!None \notin Threads /\ ArtInv /\ [Artifacts!ArtifactsNext]_(Artifacts!artifactVars) => ArtInv'
<1>1. ASSUME ArtInv, UNCHANGED Artifacts!artifactVars PROVE ArtInv'
  BY <1>1, ArtifactsStutter DEF Artifacts!artifactVars, Artifacts!cliVars
<1> QED BY <1>1, ArtifactsNextKeeps

LEMMA ArtifactsHold ==
  ASSUME ArtInv, Artifacts!None \notin Threads
  PROVE  Artifacts!ArtifactsOwn
<1>1. CliTypes /\ FoundPaired /\ FilesTrue /\ \A u \in Threads : DirsTrue(u)
  BY DEF ArtInv
<1>2. Artifacts!ListsOwn
  BY <1>1 DEF Artifacts!ListsOwn, DirsTrue
<1>3. Artifacts!EntriesPaired
  BY <1>1 DEF Artifacts!EntriesPaired, FoundPaired, Paired
<1>4. ASSUME NEW r \in Threads, "report" \in run[r].said, Artifacts!In(summaries, r)
      PROVE  Artifacts!Answer(r) = [report |-> r, summary |-> r]
  <2>1. Artifacts!FoundSummary(r, r) = r
    BY <1>4 DEF Artifacts!FoundSummary
  <2> QED BY <1>4, <2>1 DEF Artifacts!Answer
<1>5. Artifacts!FilesWhole
  BY <1>1 DEF FilesTrue, Artifacts!FilesWhole
<1> QED BY <1>2, <1>3, <1>4, <1>5 DEF Artifacts!ArtifactsOwn, Artifacts!AnswersOwn

------------------------------------------------------------------------------
(* The whole backend: a behaviour is one of the part it is of.               *)

\* A behaviour of the backend's model is one of the part it is of.
LEMMA BackendBegins ==
  BackendInit => /\ part = "dirs" => Init
                 /\ part = "mapping" => Mapping!MappingInit
                 /\ part = "sources" => Sources!SourcesInit
                 /\ part = "xml" => Xml!XmlInit
                 /\ part = "stream" => Stream!StreamInit
                 /\ part = "artifacts" => Artifacts!ArtifactsInit
BY DEF BackendInit

LEMMA BackendStays ==
  UNCHANGED allVars =>
    /\ part' = part /\ UNCHANGED vars /\ UNCHANGED Mapping!mappingVars
    /\ UNCHANGED Sources!sourcesVars /\ UNCHANGED Xml!xmlVars /\ UNCHANGED Stream!streamVars
    /\ UNCHANGED Artifacts!artifactVars
<1> SUFFICES ASSUME UNCHANGED allVars
             PROVE  /\ part' = part /\ UNCHANGED vars /\ UNCHANGED Mapping!mappingVars
                    /\ UNCHANGED Sources!sourcesVars /\ UNCHANGED Xml!xmlVars
                    /\ UNCHANGED Stream!streamVars /\ UNCHANGED Artifacts!artifactVars
  OBVIOUS
<1>1. /\ part' = part /\ UNCHANGED <<work, events>> /\ UNCHANGED storeVars /\ UNCHANGED daemonVars
      /\ UNCHANGED dirsVars /\ UNCHANGED mappingVars /\ UNCHANGED sourcesVars
      /\ UNCHANGED xmlVars /\ UNCHANGED streamVars /\ UNCHANGED artifactVars
  BY DEF allVars, requestVars
<1>2. UNCHANGED <<main, tmp, fd, saving, copy, base, overlapped, spoilt, removed>>
  BY <1>1 DEF storeVars, fileVars, histVars
<1>3. UNCHANGED <<session, dir, closing>>
  BY <1>1 DEF daemonVars
<1>4. UNCHANGED vars
  BY <1>1 DEF vars, dirsVars
<1>5. UNCHANGED Mapping!mappingVars
  BY <1>1, <1>2, <1>3 DEF Mapping!mappingVars, Mapping!storeVars, Mapping!fileVars,
     Mapping!histVars, Mapping!daemonVars, Mapping!ownVars, mappingVars
<1>6. UNCHANGED Sources!sourcesVars
  BY <1>1, <1>2 DEF Sources!sourcesVars, Sources!storeVars, Sources!fileVars, Sources!histVars, sourcesVars
<1>7. UNCHANGED Xml!xmlVars
  BY <1>1, <1>3 DEF Xml!xmlVars, Xml!daemonVars, xmlVars
<1>8. UNCHANGED Stream!streamVars
  BY <1>1 DEF Stream!streamVars, streamVars
<1>9. UNCHANGED Artifacts!artifactVars
  BY <1>1 DEF Artifacts!artifactVars, Artifacts!cliVars, artifactVars
<1> QED BY <1>1, <1>4, <1>5, <1>6, <1>7, <1>8, <1>9

LEMMA BackendSteps ==
  [BackendNext]_allVars =>
    /\ part' = part
    /\ part = "dirs" => [Next]_vars
    /\ part = "mapping" => [Mapping!MappingNext]_(Mapping!mappingVars)
    /\ part = "sources" => [Sources!SourcesNext]_(Sources!sourcesVars)
    /\ part = "xml" => [Xml!XmlNext]_(Xml!xmlVars)
    /\ part = "stream" => [Stream!StreamNext]_(Stream!streamVars)
    /\ part = "artifacts" => [Artifacts!ArtifactsNext]_(Artifacts!artifactVars)
<1>1. CASE UNCHANGED allVars
  BY <1>1, BackendStays
<1>2. CASE BackendNext
  BY <1>2 DEF BackendNext
<1> QED BY <1>1, <1>2

\* In every behaviour of the backend a live session keeps its directory but for the races
\* LiveHasDir names.
THEOREM LiveSessionsKeepTheirsAlways == BackendSpec => []LiveHasDir
<1> DEFINE DirsKept == (part = "dirs" => CInv) /\ (part # "dirs" => robbed = Ids)
<1>1. BackendInit => DirsKept
  BY InitCInv DEF BackendInit, NoDirs
<1>2. DirsKept /\ [BackendNext]_allVars => DirsKept'
  <2> SUFFICES ASSUME DirsKept, [BackendNext]_allVars PROVE DirsKept'
    OBVIOUS
  <2>1. CASE part = "dirs"
    BY <2>1, BackendSteps, NextKeeps
  <2>2. CASE part # "dirs"
    <3>1. part' = part
      BY BackendSteps
    <3>2. robbed' = robbed
      BY <2>2 DEF BackendNext, allVars, dirsVars, cleanVars
    <3> QED BY <2>2, <3>1, <3>2 DEF Ids
  <2> QED BY <2>1, <2>2
<1>3. DirsKept => LiveHasDir
  BY DEF CInv, LiveHasDir, Ids
<1> QED BY <1>1, <1>2, <1>3, PTL DEF BackendSpec

\* Whatever the CORE page's requests do, every entry of core_sessions.json names a session that
\* was opened from its file, and no file has two.
THEOREM EntriesAlwaysGenuine ==
  ASSUME Mapping!NoFile \notin Files
  PROVE  BackendSpec => []EntriesGenuine
<1>1. BackendInit => (part = "mapping" => CurrInv)
  BY BackendBegins, MappingBegins
<1>2. (part = "mapping" => CurrInv) /\ [BackendNext]_allVars => (part = "mapping" => CurrInv)'
  BY BackendSteps, MappingKept
<1>3. (part = "mapping" => CurrInv) => EntriesGenuine
  BY MappingStore DEF CurrInv, MapInv, AllGenuine, GenuineList, Mapping!EntriesGenuine, EntriesGenuine
<1> QED BY <1>1, <1>2, <1>3, PTL DEF BackendSpec

\* Where no session has gone without its file and nothing has met or been cut short, the rows
\* of the CORE page are sessions that exist and files that are there.
THEOREM RowsAlwaysCurrent ==
  ASSUME Mapping!NoFile \notin Files
  PROVE  BackendSpec => []RowsCurrent
<1>1. BackendInit => (part = "mapping" => CurrInv)
  BY BackendBegins, MappingBegins
<1>2. (part = "mapping" => CurrInv) /\ [BackendNext]_allVars => (part = "mapping" => CurrInv)'
  BY BackendSteps, MappingKept
<1>3. (part = "mapping" => CurrInv) => RowsCurrent
  BY CurrentRows DEF RowsCurrent
<1> QED BY <1>1, <1>2, <1>3, PTL DEF BackendSpec

\* A source of vulnerabilities has its CSV file exactly while it is listed, unless requests for
\* it met or were cut short: no upload, toggle, refresh or deletion of another source parts
\* the two (data_sources_upload, _toggle, _delete, _refresh, _save).
THEOREM SourcesAlwaysHaveFiles ==
  ASSUME Sources!NoSource \notin Files
  PROVE  BackendSpec => []SourcesHaveFiles
<1>1. BackendInit => (part = "sources" => SrcInv)
  BY BackendBegins, SourcesBegin
<1>2. (part = "sources" => SrcInv) /\ [BackendNext]_allVars => (part = "sources" => SrcInv)'
  BY BackendSteps, SourcesStep
<1>3. (part = "sources" => SrcInv) => SourcesHaveFiles
  BY SourcesHold DEF SourcesHaveFiles
<1> QED BY <1>1, <1>2, <1>3, PTL DEF BackendSpec

\* stream_logs: a stream that has ended has sent every line of the CLI but those written after
\* its last read or over a marker.
THEOREM LinesAlwaysSent == BackendSpec => []LinesSent
<1>1. BackendInit => (part = "stream" => StreamInv)
  BY BackendBegins, InitStreamInv
<1>2. (part = "stream" => StreamInv) /\ [BackendNext]_allVars => (part = "stream" => StreamInv)'
  BY BackendSteps, StreamNextKeeps
<1>3. (part = "stream" => StreamInv) => LinesSent
  BY DEF StreamInv, StreamTypes, InPlace, ReadAreSent, Stream!LinesSent, LinesSent
<1> QED BY <1>1, <1>2, <1>3, PTL DEF BackendSpec

\* The XML a request was given for a session that is still there, and that CORE wrote, is that
\* session's, whatever sessions open and close under its id meanwhile.
THEOREM XmlAlwaysOfOwnSession == BackendSpec => []XmlOfOwnSession
<1>1. BackendInit => (part = "xml" => XmlInv)
  BY BackendBegins, XmlBegins
<1>2. (part = "xml" => XmlInv) /\ [BackendNext]_allVars => (part = "xml" => XmlInv)'
  BY BackendSteps, XmlStep
<1>3. (part = "xml" => XmlInv) => XmlOfOwnSession
  BY XmlHolds DEF XmlOfOwnSession
<1> QED BY <1>1, <1>2, <1>3, PTL DEF BackendSpec

\* What runs leave behind is told apart, however many run at once, are killed, fail half-way or
\* are deleted: a report lists its own run's directories unless others changed them, an entry
\* and a status answer pair a run's own report with its own summary, and a scenario file is
\* torn or gone under a run only by the finalizer or the deletion of another of its file
\* (utils/report.py, run_cli_async, run_status, reports_delete).
THEOREM ArtifactsAlwaysOwn ==
  ASSUME Artifacts!None \notin Threads
  PROVE  BackendSpec => []ArtifactsOwn
<1>1. BackendInit => (part = "artifacts" => ArtInv)
  BY BackendBegins, ArtifactsBegin
<1>2. (part = "artifacts" => ArtInv) /\ [BackendNext]_allVars => (part = "artifacts" => ArtInv)'
  BY BackendSteps, ArtifactsStep
<1>3. (part = "artifacts" => ArtInv) => ArtifactsOwn
  BY ArtifactsHold DEF ArtifactsOwn
<1> QED BY <1>1, <1>2, <1>3, PTL DEF BackendSpec
==============================================================================
