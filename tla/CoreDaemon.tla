----------------------------- MODULE CoreDaemon -----------------------------
(***************************************************************************)
(* CORE's sessions and their directories /tmp/pycore.<id>, as the program  *)
(* relies on them: the vendored emulator, not the program's own code.      *)
(***************************************************************************)
EXTENDS Naturals, FiniteSets

CONSTANTS MaxId,        \* bound: session ids
          MaxClosing    \* bound: deletions of one id that are under way

ASSUME DaemonAssumption == MaxId \in Nat /\ MaxClosing \in Nat

VARIABLES session,      \* what CORE's table says of each id
          dir,          \* its directory: how long ago it was last modified
          closing       \* deletions of it that have yet to remove the directory

daemonVars == <<session, dir, closing>>

Ids == 1..MaxId

DaemonInit ==
  /\ session = [i \in Ids |-> "absent"]
  /\ dir = [i \in Ids |-> "absent"]
  /\ closing = [i \in Ids |-> 0]

DaemonOK ==
  /\ session \in [Ids -> {"absent", "live", "stopped"}]
  /\ dir \in [Ids -> {"absent", "young", "old"}]
  /\ closing \in [Ids -> 0..MaxClosing]

Known == {i \in Ids : session[i] # "absent"}

\* Without an id CORE takes the lowest that is not in its table.
LowestFree(i) == i \in Ids \ Known /\ \A j \in 1..(i - 1) : j \in Known

\* Making the directory fails if it exists; an id of the table is not looked at.
Collides(i) == dir[i] # "absent"

CreateSession(i) ==
  /\ ~Collides(i)
  /\ session' = [session EXCEPT ![i] = "live"]
  /\ dir' = [dir EXCEPT ![i] = "young"]
  /\ UNCHANGED closing

\* A stopped session stays in the table, without its directory.
StopSession(i) ==
  /\ i \in Known
  /\ session' = [session EXCEPT ![i] = "stopped"]
  /\ dir' = [dir EXCEPT ![i] = "absent"]
  /\ UNCHANGED closing

\* A deleted session leaves the table first, and its directory goes last.
DeleteBegins(i) ==
  /\ i \in Known /\ closing[i] < MaxClosing
  /\ session' = [session EXCEPT ![i] = "absent"]
  /\ closing' = [closing EXCEPT ![i] = @ + 1]
  /\ UNCHANGED dir

DeleteEnds(i) ==
  /\ closing[i] > 0
  /\ dir' = [dir EXCEPT ![i] = "absent"]
  /\ closing' = [closing EXCEPT ![i] = @ - 1]
  /\ UNCHANGED session

\* The daemon is killed: the directories stay.
DaemonDies ==
  /\ session' = [i \in Ids |-> "absent"]
  /\ closing' = [i \in Ids |-> 0]
  /\ UNCHANGED dir

\* Thirty seconds go by.
Ages ==
  /\ \E i \in Ids : dir[i] = "young"
  /\ dir' = [i \in Ids |-> IF dir[i] = "young" THEN "old" ELSE dir[i]]
  /\ UNCHANGED <<session, closing>>
==============================================================================
