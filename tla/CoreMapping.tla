----------------------------- MODULE CoreMapping -----------------------------
(***************************************************************************)
(* The CORE page: XML files, the sessions opened from them, and the store   *)
(* core_sessions.json that remembers which session was opened from which    *)
(* file.  The store is rewritten without a lock, never asks CORE whether a  *)
(* session still exists, and CORE gives the ids of sessions away again.     *)
(***************************************************************************)
EXTENDS JsonStore, CoreDaemon

CONSTANTS Files,
          MaxEvents     \* bound: requests, and what befalls the sessions besides

VARIABLES work,         \* what each request thread has at hand
          xmls,         \* the files there are
          opened,       \* the file each session was opened from, as CORE's file says
          given,        \* history: <<file, id>> of every session opened from a file
          parted,       \* history: files whose session has gone without them
          events,       \* bound: how many are left
          muddled       \* history: requests for one file, or two rewrites, met, or a crash cut one short

ownVars == <<work, xmls, opened, given, parted, muddled, events>>
mappingVars == <<storeVars, daemonVars, ownVars>>

NoFile == "none"
Idle == [op |-> "none", file |-> NoFile, id |-> 0]
Entry(f, i) == [file |-> f, id |-> i]

MappingInit ==
  /\ StoreInit /\ DaemonInit
  /\ work = [t \in Threads |-> Idle]
  /\ xmls = Files
  /\ opened = [i \in Ids |-> NoFile]
  /\ given = {} /\ parted = {} /\ muddled = FALSE
  /\ events = MaxEvents

Event == events > 0 /\ events' = events - 1

------------------------------------------------------------------------------
\* Somebody else's session: a run of the CLI, or CORE's own GUI.
OtherSession(i) ==
  /\ Event
  /\ LowestFree(i) /\ CreateSession(i)
  /\ opened' = [opened EXCEPT ![i] = NoFile]
  /\ UNCHANGED <<storeVars, work, xmls, given, parted, muddled>>

Busy(f) == f # NoFile /\ \E t \in Threads : work[t].file = f

\* core_start opens the file in CORE, which answers with the id of the new session ...
CoreStart(t, f) ==
  /\ Event
  /\ work[t] = Idle /\ f \in xmls
  /\ \E i \in Ids :
       /\ LowestFree(i) /\ CreateSession(i)
       /\ work' = [work EXCEPT ![t] = [op |-> "map", file |-> f, id |-> i]]
       /\ opened' = [opened EXCEPT ![i] = f]
       /\ given' = given \cup {<<f, i>>}
  /\ muddled' = (muddled \/ Busy(f))
  /\ UNCHANGED <<storeVars, xmls, parted>>

\* ... and only then loads the store to set the file's entry.
Updated_Appended(f, i) == Parsed(main) \cup {Entry(f, i)}
Updated(f, i) ==
  {e \in Parsed(main) : e.file # f} \cup (IF i = 0 THEN {} ELSE {Entry(f, i)})

MapsFile(t) ==
  /\ work[t].op = "map"
  /\ Loads(t, Updated(work[t].file, work[t].id))
  /\ work' = [work EXCEPT ![t].op = "save"]
  /\ UNCHANGED <<daemonVars, xmls, opened, given, parted, muddled, events>>

SavesMapping(t) ==
  /\ work[t].op = "save"
  /\ SaveStep(t)
  /\ work' = IF saving'[t] = "no" THEN [work EXCEPT ![t] = Idle] ELSE work
  /\ muddled' = (muddled \/ overlapped # {})
  /\ UNCHANGED <<daemonVars, xmls, opened, given, parted, events>>

CoreStop(i) ==
  /\ Event
  /\ StopSession(i)
  /\ UNCHANGED <<storeVars, work, xmls, opened, given, parted, muddled>>

\* The file that loses the session i without being deleted by the same request.
Parts(i, f) == parted' = parted \cup ({opened[i]} \ {f, NoFile})

\* core_delete deletes the session the form names, if any, ...
DeletesSession(t, i, f) ==
  /\ Event
  /\ work[t] = Idle /\ (f # NoFile => f \in xmls)
  /\ DeleteBegins(i)
  /\ Parts(i, f)
  /\ work' = [work EXCEPT ![t] = IF f = NoFile THEN Idle ELSE [op |-> "remove", file |-> f, id |-> 0]]
  /\ muddled' = (muddled \/ Busy(f))
  /\ UNCHANGED <<storeVars, xmls, opened, given>>

DeletesFile(t, f) ==
  /\ Event
  /\ work[t] = Idle /\ f \in xmls
  /\ work' = [work EXCEPT ![t] = [op |-> "remove", file |-> f, id |-> 0]]
  /\ muddled' = (muddled \/ Busy(f))
  /\ UNCHANGED <<storeVars, daemonVars, xmls, opened, given, parted>>

\* ... and removes the file the form names, and then its entry.
RemovesFile_EntryKept(t) ==
  /\ work[t].op = "remove"
  /\ xmls' = xmls \ {work[t].file}
  /\ work' = [work EXCEPT ![t] = Idle]
  /\ UNCHANGED <<storeVars, daemonVars, opened, given, parted, muddled, events>>

RemovesFile(t) ==
  /\ work[t].op = "remove"
  /\ xmls' = xmls \ {work[t].file}
  /\ work' = [work EXCEPT ![t].op = "map"]
  /\ UNCHANGED <<storeVars, daemonVars, opened, given, parted, muddled, events>>

\* The Web server dies, or the daemon with all its sessions.
ServerDies ==
  /\ Event
  /\ StoreCrash
  /\ work' = [t \in Threads |-> Idle]
  /\ muddled' = (muddled \/ \E t \in Threads : work[t] # Idle)
  /\ UNCHANGED <<daemonVars, xmls, opened, given, parted>>

CoreDies ==
  /\ Event
  /\ DaemonDies
  /\ parted' = parted \cup ({opened[i] : i \in Known} \ {NoFile})
  /\ UNCHANGED <<storeVars, work, xmls, opened, given, muddled>>

CoreCloses(i) == DeleteEnds(i) /\ UNCHANGED <<storeVars, ownVars>>

MappingNext ==
  \/ \E t \in Threads :
       \/ \E f \in Files : CoreStart(t, f) \/ DeletesFile(t, f)
       \/ \E i \in Ids, f \in Files \cup {NoFile} : DeletesSession(t, i, f)
       \/ MapsFile(t) \/ SavesMapping(t) \/ RemovesFile(t)
  \/ \E i \in Ids : OtherSession(i) \/ CoreStop(i) \/ CoreCloses(i)
  \/ ServerDies \/ CoreDies

MappingSpec == MappingInit /\ [][MappingNext]_mappingVars

------------------------------------------------------------------------------
\* core_page: what CORE says of a file, else what the store remembers, checked or not.
Rows(f) ==
  LET now == {i \in Known : opened[i] = f} IN
    IF now # {} THEN now ELSE {e.id : e \in {d \in Parsed(main) : d.file = f}}

\* An entry is never made up: whatever overlaps, fails or crashes, the session it names
\* was opened from its file, and no file has two.
EntriesGenuine ==
  /\ \A e \in Parsed(main) : <<e.file, e.id>> \in given
  /\ \A d, e \in Parsed(main) : d.file = e.file => d = e

\* The page shows a file with a session that exists and was opened from it, and only files
\* that are there have entries, unless a session has gone without its file, requests for one file
\* or two rewrites of the store met, or a crash cut one short.
RowsCurrent ==
  \A f \in Files :
    f \notin parted /\ ~muddled /\ overlapped = {} /\ ~Busy(f) =>
      /\ \A i \in Rows(f) : i \in Known /\ opened[i] = f
      /\ f \notin xmls => \A e \in Parsed(main) : e.file # f
==============================================================================
