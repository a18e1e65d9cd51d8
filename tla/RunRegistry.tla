----------------------------- MODULE RunRegistry -----------------------------
(***************************************************************************)
(* Runs of the topology CLI started by the Web backend: the CLI process,   *)
(* its record in RUNS, the finalizer submitted to the thread pool, the     *)
(* requests that poll, stream, cancel or delete a run, and the history     *)
(* file that finalizers and requests rewrite.                              *)
(*                                                                         *)
(* A thread is a run (its finalizer) or a request thread of the server.    *)
(***************************************************************************)
EXTENDS TmpFile, Integers, Sequences, FiniteSets

CONSTANTS Runs,         \* run ids (uuid4: never used twice)
          Reqs,         \* request threads of the server
          PoolSize,     \* max_workers of _REUSE_ASYNC_POOL
          MaxRestarts   \* bound: how often the server process is restarted

ASSUME ThreadsAssumption == Threads = Runs \cup Reqs /\ Runs \cap Reqs = {}
ASSUME PoolSizeAssumption == PoolSize \in Nat \ {0}
ASSUME MaxRestartsAssumption == MaxRestarts \in Nat

VARIABLES proc,         \* the operating system's view of each CLI process
          reaped,       \* Popen.returncode: what wait() or poll() has collected
          meta,         \* RUNS
          queue,        \* finalizers waiting for a worker of the pool
          th,           \* where each thread is, and its local variables
          restarts,     \* how often the server was restarted
          overlapped,   \* history: threads whose read-modify-write overlaps another
          raced         \* history: two read-modify-writes have overlapped

windowVars == <<overlapped, raced>>
vars == <<fileVars, proc, reaped, meta, queue, th, restarts, windowVars>>

None == "none"
Cancelled == "cancelled"        \* cancel_run's returncode, -1
Codes == {"exit", "signal"}     \* exit codes: the program's own, or the signal's

Exited(r) == proc[r] \in Codes

\* An entry: the run, the thread that made it (the file has its timestamp), and the
\* exit code.  Pages sort entries by time, so the list is a set.
Entries == [run : Runs, by : Threads, rc : Codes]

NoRecord == [known |-> FALSE, done |-> FALSE, returncode |-> None, added |-> FALSE]
NewRecord == [NoRecord EXCEPT !.known = TRUE]

\* The read-modify-write window of a thread: from its load to its replace.
AppendWindow == {"open", "dump", "replace", "unlink"}
DeleteWindow == {"dopen", "ddump", "dreplace"}
Window == AppendWindow \cup DeleteWindow
FinalizerAt == {"wait", "reaped", "setrc"}
StatusAt == {"spoll", "sdone", "ssetrc", "scheck"}
StreamAt == {"tpoll", "tset", "tdone"}
CancelAt == {"cpoll", "cwait", "cdone", "ccheck", "csetrc"}
AppendAt == {"gather", "load", "flag"} \cup AppendWindow
Rest == {"idle", "queued", "finished"}

Resting(at) == [at |-> at, run |-> None, rc |-> None, list |-> {}]

Init ==
  /\ FileInit
  /\ proc = [r \in Runs |-> "unborn"]
  /\ reaped = [r \in Runs |-> None]
  /\ meta = [r \in Runs |-> NoRecord]
  /\ queue = <<>>
  /\ th = [t \in Threads |-> Resting("idle")]
  /\ restarts = 0
  /\ overlapped = {}
  /\ raced = FALSE

At(t, at) == th[t].at = at

\* A thread that comes to rest forgets its local variables.
Goto(t, at) == th' = [th EXCEPT ![t] = IF at \in Rest THEN Resting(at) ELSE [@ EXCEPT !.at = at]]
Enter(t, at, r, c) == th' = [th EXCEPT ![t] = [at |-> at, run |-> r, rc |-> c, list |-> {}]]

------------------------------------------------------------------------------
(* The process, and how the server learns its exit code.                     *)

ProcessExits(r) ==
  /\ \/ proc[r] \in {"running", "signalled"} /\ proc' = [proc EXCEPT ![r] = "exit"]
     \/ proc[r] = "signalled" /\ proc' = [proc EXCEPT ![r] = "signal"]
  /\ UNCHANGED <<fileVars, reaped, meta, queue, th, restarts, windowVars>>

\* Popen.poll(): a thread blocked in wait() holds the lock around waitpid, and poll()
\* then answers None; without one it collects the exit code of a dead process.
Poll(r) ==
  IF reaped[r] = None /\ Exited(r) /\ ~At(r, "wait") THEN proc[r] ELSE reaped[r]

Collect(r) == reaped' = [reaped EXCEPT ![r] = Poll(r)]

Signal_NotSent(r) == proc' = proc

\* proc.terminate() and proc.kill().
Signal(r) == proc' = [proc EXCEPT ![r] = IF @ = "running" THEN "signalled" ELSE @]

------------------------------------------------------------------------------
(* POST /run_cli_async: spawn the CLI, put its record in RUNS, and submit    *)
(* the finalizer, which waits for the process and marks the record.          *)

RunCliAsync(r) ==
  /\ proc[r] = "unborn" /\ At(r, "idle")
  /\ proc' = [proc EXCEPT ![r] = "running"]
  /\ meta' = [meta EXCEPT ![r] = NewRecord]
  /\ queue' = Append(queue, r)
  /\ Goto(r, "queued")
  /\ UNCHANGED <<fileVars, reaped, restarts, windowVars>>

Busy_Leaked == {r \in Runs : ~(th[r].at \in {"idle", "queued"})}

Busy == {r \in Runs : ~(th[r].at \in Rest)}

FinalizerStarts(r) ==
  /\ queue # <<>> /\ Head(queue) = r /\ At(r, "queued")
  /\ Cardinality(Busy) < PoolSize
  /\ queue' = Tail(queue)
  /\ Enter(r, "wait", r, None)
  /\ UNCHANGED <<fileVars, proc, reaped, meta, restarts, windowVars>>

FinalizerReaps_Timeout(r) ==
  /\ At(r, "wait")
  /\ Enter(r, "reaped", r, "signal")
  /\ UNCHANGED <<fileVars, proc, reaped, meta, queue, restarts, windowVars>>

FinalizerReaps(r) ==
  /\ At(r, "wait") /\ Exited(r)
  /\ reaped' = [reaped EXCEPT ![r] = proc[r]]
  /\ Enter(r, "reaped", r, proc[r])
  /\ UNCHANGED <<fileVars, proc, meta, queue, restarts, windowVars>>

\* meta['done'] = True, then meta['returncode'] = rc.
MarkDone(t, from, to) ==
  /\ At(t, from) /\ Goto(t, to)
  /\ meta' = [meta EXCEPT ![th[t].run].done = TRUE]
  /\ UNCHANGED <<fileVars, proc, reaped, queue, restarts, windowVars>>

MarkReturncode(t, from, to, c) ==
  /\ At(t, from) /\ Goto(t, to)
  /\ meta' = [meta EXCEPT ![th[t].run].returncode = c]
  /\ UNCHANGED <<fileVars, proc, reaped, queue, restarts, windowVars>>

FinalizerSetsDone(r) == MarkDone(r, "reaped", "setrc")
FinalizerSetsReturncode(r) == MarkReturncode(r, "setrc", "gather", th[r].rc)

------------------------------------------------------------------------------
(* Appending an entry: artifacts are gathered, and _append_run_history loads,*)
(* extends, dumps and replaces the list.                                     *)

End(t) == IF t \in Runs THEN "finished" ELSE "idle"

GatherStep(t, to) ==
  /\ At(t, "gather") /\ Goto(t, to)
  /\ UNCHANGED <<fileVars, proc, reaped, meta, queue, restarts, windowVars>>

Gather(t) == GatherStep(t, "load")

\* An artifact step raises: the finalizer logs and ends with the flag unset, and
\* run_status sets the flag in its finally clause.
GatherRaises(t) == GatherStep(t, IF t \in Runs THEN "finished" ELSE "flag")

\* t's window opens; whoever is inside its own is overlapped from now on.
OpenWindow(t) ==
  LET others == {u \in Threads \ {t} : th[u].at \in Window} IN
  /\ overlapped' = IF others = {} THEN overlapped ELSE overlapped \cup others \cup {t}
  /\ raced' = (raced \/ others # {})

CloseWindow(t) == overlapped' = overlapped \ {t} /\ raced' = raced

NewEntry_FromRecord(t) ==
  [run |-> th[t].run, by |-> t, rc |-> meta[th[t].run].returncode]

NewEntry(t) == [run |-> th[t].run, by |-> t, rc |-> th[t].rc]

AppendLoads_Fresh(t) ==
  /\ At(t, "load")
  /\ th' = [th EXCEPT ![t].at = "open", ![t].list = {NewEntry(t)}]
  /\ OpenWindow(t)
  /\ UNCHANGED <<fileVars, proc, reaped, meta, queue, restarts>>

AppendLoads(t) ==
  /\ At(t, "load")
  /\ th' = [th EXCEPT ![t].at = "open", ![t].list = Parsed(main) \cup {NewEntry(t)}]
  /\ OpenWindow(t)
  /\ UNCHANGED <<fileVars, proc, reaped, meta, queue, restarts>>

Opens(t) ==
  /\ \/ At(t, "open") /\ Goto(t, "dump")
     \/ At(t, "dopen") /\ Goto(t, "ddump")
  /\ OpenTmp(t)
  /\ UNCHANGED <<proc, reaped, meta, queue, restarts, windowVars>>

Dumps(t) ==
  /\ \/ At(t, "dump") /\ Goto(t, "replace")
     \/ At(t, "ddump") /\ Goto(t, "dreplace")
  /\ DumpAndClose(t, th[t].list)
  /\ UNCHANGED <<proc, reaped, meta, queue, restarts, windowVars>>

\* run_cli has no record to flag.
AfterAppend(t) == IF meta[th[t].run].known THEN "flag" ELSE "idle"

AppendReplaces(t) ==
  /\ At(t, "replace") /\ Goto(t, AfterAppend(t))
  /\ Replace
  /\ CloseWindow(t)
  /\ UNCHANGED <<proc, reaped, meta, queue, restarts>>

\* Another writer has renamed the temporary file: the exception is swallowed, and a
\* temporary file that exists by then, whoever made it, is removed.
AppendReplaceRaises(t) ==
  /\ At(t, "replace") /\ Goto(t, "unlink")
  /\ tmp = Absent
  /\ UNCHANGED <<fileVars, proc, reaped, meta, queue, restarts, windowVars>>

AppendUnlinks(t) ==
  /\ At(t, "unlink") /\ Goto(t, AfterAppend(t))
  /\ RemoveTmp
  /\ CloseWindow(t)
  /\ UNCHANGED <<proc, reaped, meta, queue, restarts>>

SetsHistoryAdded(t) ==
  /\ At(t, "flag") /\ Goto(t, End(t))
  /\ meta' = [meta EXCEPT ![th[t].run].added = TRUE]
  /\ UNCHANGED <<fileVars, proc, reaped, queue, restarts, windowVars>>

------------------------------------------------------------------------------
(* Requests.  Each begins on a run it finds in RUNS.                         *)

Begins(t, at, r) ==
  /\ At(t, "idle")
  /\ meta[r].known
  /\ Enter(t, at, r, None)
  /\ UNCHANGED <<fileVars, proc, reaped, meta, queue, restarts, windowVars>>

\* GET /run_status asks the process only while the record has no exit code; the
\* request that finds one appends to the history.
StatusBegins(t, r) == meta[r].returncode = None /\ Begins(t, "spoll", r)

StatusPolls(t) ==
  LET r == th[t].run IN
  /\ At(t, "spoll")
  /\ Collect(r)
  /\ IF Poll(r) = None THEN Goto(t, "idle") ELSE Enter(t, "sdone", r, Poll(r))
  /\ UNCHANGED <<fileVars, proc, meta, queue, restarts, windowVars>>

StatusSetsDone(t) == MarkDone(t, "sdone", "ssetrc")
StatusSetsReturncode(t) == MarkReturncode(t, "ssetrc", "scheck", th[t].rc)

StatusChecksHistory(t) ==
  /\ At(t, "scheck") /\ Goto(t, IF meta[th[t].run].added THEN "idle" ELSE "gather")
  /\ UNCHANGED <<fileVars, proc, reaped, meta, queue, restarts, windowVars>>

\* GET /stream, as far as it touches the record: it polls every half second until
\* the record is done or the browser goes away.
StreamPolls(t) ==
  LET r == th[t].run IN
  /\ At(t, "tpoll")
  /\ Collect(r)
  /\ CASE Poll(r) # None /\ meta[r].returncode = None -> Enter(t, "tset", r, Poll(r))
       [] meta[r].done /\ (Poll(r) = None \/ meta[r].returncode # None) -> Goto(t, "idle")
       [] OTHER -> th' = th
  /\ UNCHANGED <<fileVars, proc, meta, queue, restarts, windowVars>>

StreamSetsReturncode(t) == MarkReturncode(t, "tset", "tdone", th[t].rc)
StreamSetsDone(t) == MarkDone(t, "tdone", "idle")

StreamDropped(t) ==
  /\ At(t, "tpoll") /\ Goto(t, "idle")
  /\ UNCHANGED <<fileVars, proc, reaped, meta, queue, restarts, windowVars>>

\* POST /cancel_run: terminate, wait at most 5 s, kill if that was not enough.
CancelPolls(t) ==
  LET r == th[t].run IN
  /\ At(t, "cpoll") /\ Goto(t, IF Poll(r) = None THEN "cwait" ELSE "cdone")
  /\ Collect(r)
  /\ IF Poll(r) = None THEN Signal(r) ELSE proc' = proc
  /\ UNCHANGED <<fileVars, meta, queue, restarts, windowVars>>

CancelWaits(t) ==
  LET r == th[t].run IN
  /\ At(t, "cwait") /\ Goto(t, "cdone")
  /\ Collect(r)
  /\ UNCHANGED <<fileVars, proc, meta, queue, restarts, windowVars>>

CancelSetsDone(t) == MarkDone(t, "cdone", "ccheck")

CancelChecksReturncode(t) ==
  /\ At(t, "ccheck") /\ Goto(t, IF meta[th[t].run].returncode = None THEN "csetrc" ELSE "idle")
  /\ UNCHANGED <<fileVars, proc, reaped, meta, queue, restarts, windowVars>>

CancelSetsReturncode(t) == MarkReturncode(t, "csetrc", "idle", Cancelled)

\* POST /run_cli: the request itself runs the CLI to its end, and appends.
SyncBegins(t, r) ==
  /\ At(t, "idle") /\ proc[r] = "unborn"
  /\ proc' = [proc EXCEPT ![r] = "running"]
  /\ Enter(t, "syncwait", r, None)
  /\ UNCHANGED <<fileVars, reaped, meta, queue, restarts, windowVars>>

SyncReaps(t) ==
  LET r == th[t].run IN
  /\ At(t, "syncwait") /\ Exited(r)
  /\ Enter(t, "load", r, proc[r])
  /\ UNCHANGED <<fileVars, proc, reaped, meta, queue, restarts, windowVars>>

\* What comes between the end of the CLI and the append raises: nothing is appended.
SyncRaises(t) ==
  /\ At(t, "syncwait") /\ Exited(th[t].run) /\ Goto(t, "idle")
  /\ UNCHANGED <<fileVars, proc, reaped, meta, queue, restarts, windowVars>>

------------------------------------------------------------------------------
(* POST /reports/delete and /purge_history_for_scenario: load, drop the      *)
(* entries of some runs, dump and replace.                                   *)

Kept(gone) == {e \in Parsed(main) : e.run \notin gone}

DeleteLoads(t, gone) ==
  /\ At(t, "idle")
  /\ th' = [th EXCEPT ![t].at = "dopen", ![t].list = Kept(gone)]
  /\ OpenWindow(t)
  /\ UNCHANGED <<fileVars, proc, reaped, meta, queue, restarts>>

\* reports_delete writes the list back whatever it has found in it.
ReportsDelete(t) == \E gone \in SUBSET Runs \ {{}} : DeleteLoads(t, gone)

\* The purge writes only if the file is readable and something goes.
PurgeHistory(t) ==
  /\ main.st = "json"
  /\ \E gone \in SUBSET Runs : Kept(gone) # main.val /\ DeleteLoads(t, gone)

DeleteReplaces(t) ==
  /\ At(t, "dreplace") /\ Goto(t, "idle")
  /\ Replace
  /\ CloseWindow(t)
  /\ UNCHANGED <<proc, reaped, meta, queue, restarts>>

DeleteReplaceRaises(t) ==
  /\ At(t, "dreplace") /\ Goto(t, "idle")
  /\ tmp = Absent
  /\ CloseWindow(t)
  /\ UNCHANGED <<fileVars, proc, reaped, meta, queue, restarts>>

------------------------------------------------------------------------------
(* The server process dies and is started again: RUNS, the pool and every    *)
(* thread are gone; the CLI processes and the files stay.                    *)
Restart ==
  /\ restarts < MaxRestarts
  /\ restarts' = restarts + 1
  /\ CloseAll
  /\ meta' = [r \in Runs |-> NoRecord]
  /\ queue' = <<>>
  /\ th' = [t \in Threads |-> Resting("idle")]
  /\ overlapped' = {}
  /\ UNCHANGED <<proc, reaped, raced>>

------------------------------------------------------------------------------
Finalizer(r) ==
  \/ FinalizerStarts(r) \/ FinalizerReaps(r)
  \/ FinalizerSetsDone(r) \/ FinalizerSetsReturncode(r)

AppendStep(t) ==
  \/ Gather(t) \/ GatherRaises(t) \/ AppendLoads(t) \/ Opens(t) \/ Dumps(t)
  \/ AppendReplaces(t) \/ AppendReplaceRaises(t) \/ AppendUnlinks(t) \/ SetsHistoryAdded(t)

Request(t) ==
  \/ \E r \in Runs : \/ StatusBegins(t, r)
                     \/ Begins(t, "tpoll", r)
                     \/ Begins(t, "cpoll", r)
                     \/ SyncBegins(t, r)
  \/ StatusPolls(t) \/ StatusSetsDone(t) \/ StatusSetsReturncode(t) \/ StatusChecksHistory(t)
  \/ StreamPolls(t) \/ StreamSetsReturncode(t) \/ StreamSetsDone(t) \/ StreamDropped(t)
  \/ CancelPolls(t) \/ CancelWaits(t) \/ CancelSetsDone(t)
  \/ CancelChecksReturncode(t) \/ CancelSetsReturncode(t)
  \/ SyncReaps(t) \/ SyncRaises(t)
  \/ ReportsDelete(t) \/ PurgeHistory(t) \/ DeleteReplaces(t) \/ DeleteReplaceRaises(t)

Next ==
  \/ \E r \in Runs : ProcessExits(r) \/ RunCliAsync(r) \/ Finalizer(r)
  \/ \E t \in Threads : AppendStep(t)
  \/ \E t \in Reqs : Request(t)
  \/ Restart

\* Server threads run on until they block.  Users need not ask, nor CLIs end.
Fairness == \A r \in Runs : WF_vars(Finalizer(r) \/ AppendStep(r))

Spec == Init /\ [][Next]_vars /\ Fairness

\* The same where no CLI hangs.
SpecCLIsEnd == Spec /\ \A r \in Runs : WF_vars(ProcessExits(r))

------------------------------------------------------------------------------
(* Properties.                                                               *)

\* Types: processes, records, the pool's queue, threads with their local variables,
\* and the history file.
ThreadStates ==
  [at : Rest \cup FinalizerAt \cup StatusAt \cup StreamAt \cup CancelAt \cup AppendAt
          \cup DeleteWindow \cup {"syncwait"},
   run : Runs \cup {None}, rc : Codes \cup {None}, list : SUBSET Entries]

TypeOK ==
  /\ FileOK(SUBSET Entries)
  /\ proc \in [Runs -> {"unborn", "running", "signalled"} \cup Codes]
  /\ reaped \in [Runs -> Codes \cup {None}]
  /\ meta \in [Runs -> [known : BOOLEAN, done : BOOLEAN,
                        returncode : Codes \cup {None, Cancelled}, added : BOOLEAN]]
  /\ queue \in Seq(Runs)
  /\ th \in [Threads -> ThreadStates]
  /\ restarts \in 0..MaxRestarts
  /\ overlapped \subseteq Threads
  /\ raced \in BOOLEAN

\* Whatever finalizers, status requests and deletions do to the file and to their
\* copies of the list, an entry gives a run that has ended and the exit code it ended
\* with: never one still running, never the -1 that cancel_run puts in the record.
Listed == Parsed(main) \cup Parsed(tmp) \cup UNION {th[t].list : t \in Threads}
HistoryGenuine == \A e \in Listed : proc[e.run] = e.rc

\* What the record of a run says is so: an exit code is the process's own, and a run
\* is only reported done (or cancelled) when it has ended or was sent a signal.
OutcomeTrue ==
  \A r \in Runs :
    /\ meta[r].returncode \in Codes => meta[r].returncode = proc[r]
    /\ meta[r].done \/ meta[r].returncode = Cancelled => Exited(r) \/ proc[r] = "signalled"

\* The history file can only be found unreadable (and then reads as empty) if two
\* read-modify-writes have overlapped: a crash at any point of one alone leaves the
\* old list or the new one.
TornOnlyIfRaced == main \in {Blank, Torn} => raced

\* An append that no other read-modify-write overlaps adds its entry and keeps every
\* other, whatever became of the file, of the temporary file or of the server before.
UncontendedAppend ==
  [][\A t \in Threads :
       /\ At(t, "replace") /\ t \notin overlapped /\ ~At(t, "replace")' /\ restarts' = restarts
       => main' = Json(main.val \cup {NewEntry(t)})]_vars

\* If no CLI hangs, every finalizer gets its turn in the pool and ends too, unless the
\* server is restarted, whoever holds the pool, polls, cancels or rewrites the history.
FinalizersEnd == \A r \in Runs : At(r, "queued") ~> th[r].at \in {"finished", "idle"}

\* run_status: "Append history once (success or failure)".
AppendedOnce == \A e, f \in Parsed(main) : e.run = f.run => e = f
==============================================================================
