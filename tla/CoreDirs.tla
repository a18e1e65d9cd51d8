------------------------------ MODULE CoreDirs ------------------------------
(***************************************************************************)
(* Who makes and removes CORE's session directories: builders that create  *)
(* a session and try higher ids when directories are in the way, users who *)
(* stop and delete sessions, and the cleanup of stale directories, which   *)
(* asks CORE for its sessions once and then goes through /tmp.             *)
(***************************************************************************)
EXTENDS CoreDaemon

CONSTANTS Cleaners,     \* requests to /admin/cleanup_pycore
          Builders,     \* CLI processes that create a session
          MaxAttempts   \* max_attempts of safe_create_session

ASSUME BuildersAssumption == MaxAttempts \in Nat \ {0}

VARIABLES job,          \* what each cleanup does
          build,        \* what each builder does
          tried,        \* history: ids whose directory a builder has run into
          since,        \* history: sessions created since a cleanup got its list
          excused,      \* history: sessions a cleanup cannot tell from stale ones
          stale,        \* history: what a cleanup has been asked to remove
          robbed        \* history: live sessions without a directory, by a known race

cleanVars == <<job, since, excused, stale>>
vars == <<daemonVars, cleanVars, build, tried, robbed>>

Idle == [at |-> "idle", active |-> {}, todo |-> {}, id |-> 0]
Jobs == [at : {"idle", "globs", "checks", "removes"}, active : SUBSET Ids, todo : SUBSET Ids, id : 0..MaxId]
NoBuild == [at |-> "idle", next |-> 0, attempts |-> 0]
Builds == [at : {"idle", "creates"}, next : 0..(MaxId + 1), attempts : 0..(MaxAttempts - 1)]

Live(i) == session[i] = "live"
Cleaning(t) == job[t].at # "idle"

Init ==
  /\ DaemonInit
  /\ job = [t \in Cleaners |-> Idle]
  /\ build = [b \in Builders |-> NoBuild]
  /\ tried = [b \in Builders |-> {}]
  /\ since = [t \in Cleaners |-> {}]
  /\ excused = [t \in Cleaners |-> {}]
  /\ stale = [t \in Cleaners |-> {}]
  /\ robbed = {}

------------------------------------------------------------------------------
(* admin_cleanup_pycore, in request t.                                       *)

\* The list of sessions is empty, too, when CORE cannot be asked.
CleanupLists(t) ==
  /\ job[t].at = "idle"
  /\ \E active \in {Known, {}} :
       /\ job' = [job EXCEPT ![t].at = "globs", ![t].active = active]
       /\ excused' = [excused EXCEPT ![t] = IF active = Known THEN {} ELSE Ids]
  /\ since' = [since EXCEPT ![t] = {}]
  /\ stale' = [stale EXCEPT ![t] = {i \in Ids \ Known : dir[i] = "old"}]
  /\ UNCHANGED <<daemonVars, build, tried, robbed>>

CleanupGlobs(t) ==
  /\ job[t].at = "globs"
  /\ job' = [job EXCEPT ![t].at = "checks", ![t].todo = {i \in Ids : dir[i] # "absent"}]
  /\ UNCHANGED <<daemonVars, since, excused, stale, build, tried, robbed>>

Removable_AnyAge(t, i) == i \notin job[t].active
Removable_Younger(t, i) == i \notin job[t].active /\ dir[i] = "young"

\* A directory that is gone by now counts as old.
Removable(t, i) == i \notin job[t].active /\ dir[i] # "young"

CleanupChecks(t) ==
  /\ job[t].at = "checks"
  /\ \E i \in job[t].todo :
       job' = [job EXCEPT ![t].todo = @ \ {i},
                          ![t].at = IF Removable(t, i) THEN "removes" ELSE "checks",
                          ![t].id = IF Removable(t, i) THEN i ELSE 0]
  /\ UNCHANGED <<daemonVars, since, excused, stale, build, tried, robbed>>

CleanupRemoves(t) ==
  /\ job[t].at = "removes"
  /\ LET i == job[t].id IN
       /\ dir' = [dir EXCEPT ![i] = "absent"]
       /\ robbed' = IF Live(i) /\ i \in excused[t] THEN robbed \cup {i} ELSE robbed
  /\ job' = [job EXCEPT ![t].at = "checks", ![t].id = 0]
  /\ UNCHANGED <<session, closing, since, excused, stale, build, tried>>

\* rmtree raises, having emptied some of the directory or nothing: it is kept.
CleanupFails(t) ==
  /\ job[t].at = "removes"
  /\ LET i == job[t].id IN
       /\ dir[i] # "absent"
       /\ \E age \in {dir[i], "young"} : dir' = [dir EXCEPT ![i] = age]
       /\ stale' = [u \in Cleaners |-> stale[u] \ {i}]
  /\ job' = [job EXCEPT ![t].at = "checks", ![t].id = 0]
  /\ UNCHANGED <<session, closing, since, excused, build, tried, robbed>>

CleanupEnds(t) ==
  /\ job[t].at = "checks" /\ job[t].todo = {}
  /\ job' = [job EXCEPT ![t] = Idle]
  /\ since' = [since EXCEPT ![t] = {}]
  /\ excused' = [excused EXCEPT ![t] = {}]
  /\ stale' = [stale EXCEPT ![t] = {}]
  /\ UNCHANGED <<daemonVars, build, tried, robbed>>

------------------------------------------------------------------------------
(* CORE.                                                                     *)

\* A cleanup that is about to remove the directory cannot know of the new session.
Creates(i) ==
  /\ CreateSession(i)
  /\ since' = [t \in Cleaners |-> IF Cleaning(t) THEN since[t] \cup {i} ELSE since[t]]
  /\ excused' = [t \in Cleaners |-> IF job[t].at = "removes" /\ job[t].id = i
                                    THEN excused[t] \cup {i} ELSE excused[t]]
  /\ stale' = [t \in Cleaners |-> stale[t] \ {i}]
  /\ robbed' = robbed \ {i}
  /\ UNCHANGED job

Stops(i) ==
  /\ StopSession(i)
  /\ robbed' = robbed \ {i}
  /\ UNCHANGED <<cleanVars, build, tried>>

Deletes(i) ==
  /\ DeleteBegins(i)
  /\ robbed' = robbed \ {i}
  /\ UNCHANGED <<cleanVars, build, tried>>

\* The directory is a later session's, if this one's was gone before.
DeleteFinishes(i) ==
  /\ DeleteEnds(i)
  /\ robbed' = IF Live(i) THEN robbed \cup {i} ELSE robbed
  /\ UNCHANGED <<cleanVars, build, tried>>

CoreDies ==
  /\ DaemonDies
  /\ robbed' = {}
  /\ UNCHANGED <<cleanVars, build, tried>>

\* A cleanup that has been at it for so long takes young directories for stale ones.
TimePasses ==
  /\ Ages
  /\ excused' = [t \in Cleaners |-> IF Cleaning(t) THEN excused[t] \cup since[t] ELSE excused[t]]
  /\ UNCHANGED <<job, since, stale, build, tried, robbed>>

\* A session that a user opens from a file.
UserOpens == \E i \in Ids : LowestFree(i) /\ Creates(i) /\ UNCHANGED <<build, tried>>

------------------------------------------------------------------------------
(* safe_create_session, in builder b.                                        *)

\* The candidate is above every id of the list, if there is one.
BuilderLists(b) ==
  /\ build[b].at = "idle"
  /\ \E next \in {0} \cup {i + 1 : i \in {k \in Known : \A j \in Known : j <= k}} :
       build' = [build EXCEPT ![b] = [at |-> "creates", next |-> next, attempts |-> 0]]
  /\ tried' = [tried EXCEPT ![b] = {}]
  /\ UNCHANGED <<daemonVars, cleanVars, robbed>>

\* The id CORE will use.
Asked(b, i) == IF build[b].next = 0 THEN LowestFree(i) ELSE i = build[b].next

BuilderCreates(b) ==
  /\ build[b].at = "creates"
  /\ \E i \in Ids : Asked(b, i) /\ Creates(i)
  /\ build' = [build EXCEPT ![b] = NoBuild]
  /\ tried' = [tried EXCEPT ![b] = {}]

BuilderCollides_SameId(b) ==
  /\ build[b].at = "creates"
  /\ \E i \in Ids :
       /\ Asked(b, i) /\ Collides(i)
       /\ IF build[b].attempts + 1 < MaxAttempts
          THEN /\ build' = [build EXCEPT ![b].next = i, ![b].attempts = @ + 1]
               /\ tried' = [tried EXCEPT ![b] = @ \cup {i}]
          ELSE /\ build' = [build EXCEPT ![b] = NoBuild]
               /\ tried' = [tried EXCEPT ![b] = {}]
  /\ UNCHANGED <<daemonVars, cleanVars, robbed>>

BuilderCollides_Forever(b) ==
  /\ build[b].at = "creates"
  /\ \E i \in Ids :
       /\ Asked(b, i) /\ Collides(i)
       /\ build' = [build EXCEPT ![b].next = i + 1, ![b].attempts = @ + 1]
       /\ tried' = [tried EXCEPT ![b] = @ \cup {i}]
  /\ UNCHANGED <<daemonVars, cleanVars, robbed>>

\* The error names the directory: the next id is tried, five times in all.
BuilderCollides(b) ==
  /\ build[b].at = "creates"
  /\ \E i \in Ids :
       /\ Asked(b, i) /\ Collides(i)
       /\ IF build[b].attempts + 1 < MaxAttempts
          THEN /\ build' = [build EXCEPT ![b].next = i + 1, ![b].attempts = @ + 1]
               /\ tried' = [tried EXCEPT ![b] = @ \cup {i}]
          ELSE /\ build' = [build EXCEPT ![b] = NoBuild]
               /\ tried' = [tried EXCEPT ![b] = {}]
  /\ UNCHANGED <<daemonVars, cleanVars, robbed>>

\* Any other error ends it.
BuilderRaises(b) ==
  /\ build[b].at = "creates"
  /\ build' = [build EXCEPT ![b] = NoBuild]
  /\ tried' = [tried EXCEPT ![b] = {}]
  /\ UNCHANGED <<daemonVars, cleanVars, robbed>>

------------------------------------------------------------------------------

Next ==
  \/ \E t \in Cleaners :
       \/ CleanupLists(t) \/ CleanupGlobs(t) \/ CleanupChecks(t)
       \/ CleanupRemoves(t) \/ CleanupFails(t) \/ CleanupEnds(t)
  \/ \E b \in Builders :
       BuilderLists(b) \/ BuilderCreates(b) \/ BuilderCollides(b) \/ BuilderRaises(b)
  \/ \E i \in Ids : Stops(i) \/ Deletes(i) \/ DeleteFinishes(i)
  \/ UserOpens \/ CoreDies \/ TimePasses

Spec == Init /\ [][Next]_vars

------------------------------------------------------------------------------
(* Properties.                                                               *)

\* Types: CORE, the cleanups, the builders.
TypeOK ==
  /\ DaemonOK
  /\ job \in [Cleaners -> Jobs]
  /\ build \in [Builders -> Builds]
  /\ tried \in [Builders -> SUBSET Ids]
  /\ since \in [Cleaners -> SUBSET Ids]
  /\ excused \in [Cleaners -> SUBSET Ids]
  /\ stale \in [Cleaners -> SUBSET Ids]
  /\ robbed \subseteq Ids

\* A live session has its directory, however builders, users, cleanups and CORE's own
\* deletions interleave.  It is robbed of it only by a cleanup that got no list, by one
\* that was thirty seconds late or about to remove a stale directory of the same id, and
\* by CORE's own deletion of an earlier session of that id.
LiveHasDir == \A i \in Ids : Live(i) /\ dir[i] = "absent" => i \in robbed

\* What was stale when a cleanup began is gone when it ends, unless an id was used again or
\* the removal failed: it passes over none, whatever others remove and create meanwhile.
StaleGoes ==
  \A t \in Cleaners : job[t].at \in {"checks", "removes"} =>
    \A i \in stale[t] : i \in job[t].todo \/ i = job[t].id \/ dir[i] = "absent"

\* A builder never asks twice for an id whose directory was in its way.
TriesAnew ==
  \A b \in Builders :
    /\ Cardinality(tried[b]) = build[b].attempts
    /\ build[b].attempts > 0 => \A i \in tried[b] : build[b].next > i

\* "Remove stale /tmp/pycore.* directories not associated with active sessions": a
\* cleanup is never about to remove that of a session live since before it got its list.
SparesActive ==
  \A t \in Cleaners : job[t].at = "removes" /\ Live(job[t].id) => job[t].id \in since[t]
==============================================================================
