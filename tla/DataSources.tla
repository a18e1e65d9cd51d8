----------------------------- MODULE DataSources -----------------------------
(***************************************************************************)
(* The CSV files of vulnerabilities and the store that lists them: every    *)
(* request works on the list it loaded, while it validates, rewrites or     *)
(* removes the CSV file of one source, and then writes the list back.       *)
(***************************************************************************)
EXTENDS JsonStore, Naturals

CONSTANTS Sources, MaxEvents

VARIABLES work,     \* what each request thread does, with which source
          csv,      \* the sources whose file is there
          used,     \* history: the sources uploaded, whose ids and paths are unique
          tangled,  \* history: sources of requests that met another or were cut short
          events    \* bound: requests and crashes left

sourcesVars == <<storeVars, work, csv, used, tangled, events>>

NoSource == "none"
Idle == [at |-> "idle", id |-> NoSource]
Source(i, on) == [id |-> i, on |-> on]
Listed(i) == \E e \in Parsed(main) : e.id = i

SourcesInit ==
  /\ StoreInit
  /\ work = [t \in Threads |-> Idle]
  /\ csv = {} /\ used = {} /\ tangled = {}
  /\ events = MaxEvents

Event == events > 0 /\ events' = events - 1
Turns(t, at) == work' = [work EXCEPT ![t].at = at]
Entangles == tangled' = tangled \cup ({work'[t].id : t \in overlapped'} \ {NoSource})

\* A request loads the list and will write v back, after it has done what at says.
Begins(t, i, v, at) ==
  /\ Event
  /\ work[t] = Idle
  /\ Loads(t, v)
  /\ work' = [work EXCEPT ![t] = [at |-> at, id |-> i]]
  /\ Entangles
  /\ UNCHANGED <<csv, used>>

\* data_sources_upload saves the file first, validates and normalizes it, ...
Uploads(t, i) ==
  /\ Event
  /\ work[t] = Idle /\ i \notin used
  /\ csv' = csv \cup {i}
  /\ used' = used \cup {i}
  /\ work' = [work EXCEPT ![t] = [at |-> "validate", id |-> i]]
  /\ UNCHANGED <<storeVars, tangled>>

Rejects(t) ==
  /\ work[t].at = "validate"
  /\ csv' = csv \ {work[t].id}
  /\ work' = [work EXCEPT ![t] = Idle]
  /\ UNCHANGED <<storeVars, used, tangled, events>>

\* ... and only then loads the list to append its entry.
Appends(t) ==
  /\ work[t].at = "validate"
  /\ Loads(t, Parsed(main) \cup {Source(work[t].id, TRUE)})
  /\ Turns(t, "save")
  /\ Entangles
  /\ UNCHANGED <<csv, used, events>>

Toggles(t, i) ==
  Begins(t, i, {IF e.id = i THEN Source(i, ~e.on) ELSE e : e \in Parsed(main)}, "save")

Deletes(t, i) ==
  Begins(t, i, {e \in Parsed(main) : e.id # i}, IF Listed(i) THEN "remove" ELSE "save")

RemovesCsv_Late(t) ==
  /\ work[t].at = "remove"
  /\ Turns(t, "save")
  /\ UNCHANGED <<storeVars, csv, used, tangled, events>>

RemovesCsv(t) ==
  /\ work[t].at = "remove"
  /\ csv' = csv \ {work[t].id}
  /\ Turns(t, "save")
  /\ UNCHANGED <<storeVars, used, tangled, events>>

\* Refreshing validates the file, for as long as that takes, with the list in hand ...
Refreshes(t, i) == Begins(t, i, Parsed(main), IF Listed(i) THEN "check" ELSE "save")

Checks(t) ==
  /\ work[t].at = "check"
  /\ \/ work[t].id \in csv /\ Turns(t, "rewrite")
     \/ Turns(t, "save")
  /\ UNCHANGED <<storeVars, csv, used, tangled, events>>

\* ... and replaces it; so does the editor's save, which does not ask for the file.
Edits(t, i) == Listed(i) /\ Begins(t, i, Parsed(main), "rewrite")

Rewrites(t) ==
  /\ work[t].at = "rewrite"
  /\ csv' = csv \cup {work[t].id}
  /\ Turns(t, "save")
  /\ UNCHANGED <<storeVars, used, tangled, events>>

SavesList(t) ==
  /\ work[t].at = "save"
  /\ SaveStep(t)
  /\ work' = IF saving'[t] = "no" THEN [work EXCEPT ![t] = Idle] ELSE work
  /\ UNCHANGED <<csv, used, tangled, events>>

ServerDies ==
  /\ Event
  /\ StoreCrash
  /\ tangled' = tangled \cup ({work[t].id : t \in Threads} \ {NoSource})
  /\ work' = [t \in Threads |-> Idle]
  /\ UNCHANGED <<csv, used>>

SourcesNext ==
  \/ \E t \in Threads :
       \/ \E i \in Sources : Uploads(t, i) \/ Toggles(t, i) \/ Deletes(t, i)
                               \/ Refreshes(t, i) \/ Edits(t, i)
       \/ Rejects(t) \/ Appends(t) \/ RemovesCsv(t) \/ Checks(t) \/ Rewrites(t) \/ SavesList(t)
  \/ ServerDies

\* A source has its file exactly while it is listed, unless a request for that source met
\* another or was cut short, or the list itself has been spoilt: no toggle, refresh or
\* upload of another source, and none that came before or after, can part them.
SourcesHaveFiles ==
  ~spoilt => \A i \in used \ tangled :
    (\A t \in Threads : work[t].id # i) => (Listed(i) <=> i \in csv)
==============================================================================
