-------------------------- MODULE RunRegistryProofs --------------------------
(* Proofs about RunRegistry, for every set of runs, request threads, pool    *)
(* size and number of restarts.                                              *)
EXTENDS RunRegistry, SequenceTheorems, TLAPS

------------------------------------------------------------------------------
(* First invariant: what threads hold agrees with the processes.             *)

\* Where a thread has collected the exit code of its run.
HasCode == {"reaped", "setrc", "sdone", "ssetrc", "scheck", "tset", "tdone",
            "gather", "load", "flag"} \cup AppendWindow

\* Where cancel_run knows that the process has ended or been sent a signal.
HasSignalled == {"cwait", "cdone", "ccheck", "csetrc"}

ThreadTrue(t) ==
  /\ th[t].at \notin Rest \cup DeleteWindow => th[t].run \in Runs /\ proc[th[t].run] # "unborn"
  /\ th[t].at \in HasCode => th[t].rc \in Codes /\ proc[th[t].run] = th[t].rc
  /\ th[t].at \in HasSignalled => proc[th[t].run] \in Codes \cup {"signalled"}

ThreadsTrue == \A t \in Threads : ThreadTrue(t)

RecordsTrue ==
  /\ \A r \in Runs : reaped[r] # None => reaped[r] = proc[r]
  /\ \A r \in Runs : meta[r].known => proc[r] # "unborn"
  /\ \A i \in 1..Len(queue) : proc[queue[i]] # "unborn"

IInv == TypeOK /\ ThreadsTrue /\ RecordsTrue /\ HistoryGenuine /\ OutcomeTrue

LEMMA InitIInv == Init => IInv
<1> USE ThreadsAssumption, MaxRestartsAssumption
<1> SUFFICES ASSUME Init PROVE IInv
  OBVIOUS
<1>1. TypeOK
  <2>1. FileOK(SUBSET Entries)
    BY DEF Init, FileInit, FileOK, Absent, Places
  <2>2. th \in [Threads -> ThreadStates]
    BY DEF Init, ThreadStates, Resting, Rest, None
  <2>3. queue \in Seq(Runs)
    BY DEF Init
  <2>4. restarts \in 0..MaxRestarts
    BY DEF Init
  <2>5. meta \in [Runs -> [known : BOOLEAN, done : BOOLEAN,
                          returncode : Codes \cup {None, Cancelled}, added : BOOLEAN]]
    BY DEF Init, NoRecord, None
  <2> QED BY <2>1, <2>2, <2>3, <2>4, <2>5 DEF Init, TypeOK, None
<1>2. ThreadsTrue
  BY DEF Init, ThreadsTrue, ThreadTrue, Resting, Rest, HasCode, HasSignalled, AppendWindow
<1>3. RecordsTrue
  BY DEF Init, RecordsTrue, NoRecord
<1>4. HistoryGenuine
  BY DEF Init, FileInit, Absent, HistoryGenuine, Listed, Parsed, Resting
<1>5. OutcomeTrue
  BY DEF Init, OutcomeTrue, NoRecord, Codes, None, Cancelled
<1> QED BY <1>1, <1>2, <1>3, <1>4, <1>5 DEF IInv

------------------------------------------------------------------------------
(* The file operations: they keep the file's type, and what can be read from *)
(* the file afterwards was in it, in the temporary file or in the list dumped.*)

LEMMA OpenTmpFile ==
  ASSUME NEW V, FileOK(V), NEW t \in Threads, OpenTmp(t)
  PROVE  FileOK(V)' /\ Parsed(main)' \subseteq Parsed(main) /\ Parsed(tmp)' = {}
BY DEF FileOK, OpenTmp, Parsed, Absent, Blank, Torn, Places

LEMMA DumpFile ==
  ASSUME NEW V, FileOK(V), NEW t \in Threads, NEW v \in V, DumpAndClose(t, v)
  PROVE  /\ FileOK(V)'
         /\ Parsed(main)' \subseteq Parsed(main) \cup v
         /\ Parsed(tmp)' \subseteq Parsed(tmp) \cup v
<1>1. ASSUME NEW old PROVE AfterDump(t, old, v) \subseteq {Json(v), Torn}
  BY DEF AfterDump
<1>2. /\ main' = main \/ main' \in {Json(v), Torn}
      /\ tmp' = tmp \/ tmp' \in {Json(v), Torn}
      /\ fd' = [fd EXCEPT ![t] = "closed"]
      /\ tmp' # tmp => tmp # Absent
  BY <1>1 DEF DumpAndClose, FileOK
<1>3. Json(v) # Absent /\ Torn # Absent /\ Parsed(Json(v)) = v /\ Parsed(Torn) = {}
  BY DEF Json, Torn, Absent, Parsed
<1>4. Json(v) \in [st : {"json"}, val : V] /\ Json(v).st = "json"
  BY DEF Json
<1>5. FileOK(V)'
  BY <1>2, <1>3, <1>4 DEF FileOK, Places
<1> QED BY <1>2, <1>3, <1>5 DEF Parsed

LEMMA ReplaceFile ==
  ASSUME NEW V, FileOK(V), Replace
  PROVE  FileOK(V)' /\ Parsed(main)' = Parsed(tmp) /\ Parsed(tmp)' = {}
BY DEF FileOK, Replace, Parsed, Absent, Renamed, Places

LEMMA RemoveTmpFile ==
  ASSUME NEW V, FileOK(V), RemoveTmp
  PROVE  FileOK(V)' /\ Parsed(main)' = Parsed(main) /\ Parsed(tmp)' = {}
BY DEF FileOK, RemoveTmp, Parsed, Absent, Places

LEMMA CloseAllFile ==
  ASSUME NEW V, FileOK(V), CloseAll
  PROVE  FileOK(V)' /\ UNCHANGED <<main, tmp>>
BY DEF FileOK, CloseAll, Places

LEMMA SameFile ==
  ASSUME NEW V, FileOK(V), UNCHANGED fileVars
  PROVE  FileOK(V)' /\ UNCHANGED <<main, tmp>>
BY DEF FileOK, fileVars

------------------------------------------------------------------------------
(* The first invariant is inductive.                                         *)

Ats == Rest \cup FinalizerAt \cup StatusAt \cup StreamAt \cup CancelAt \cup AppendAt
         \cup DeleteWindow \cup {"syncwait"}

\* Processes only move on: to be started, signalled, and over.
ProcGrows ==
  \A r \in Runs : /\ proc[r] \in Codes => proc'[r] = proc[r]
                  /\ proc[r] # "unborn" => proc'[r] # "unborn"
                  /\ proc[r] = "signalled" => proc'[r] \in Codes \cup {"signalled"}

LEMMA GotoThread ==
  ASSUME TypeOK, NEW t \in Threads, NEW at \in Ats, Goto(t, at)
  PROVE  /\ th' \in [Threads -> ThreadStates]
         /\ \A u \in Threads \ {t} : th'[u] = th[u]
         /\ th'[t] = IF at \in Rest THEN Resting(at) ELSE [th[t] EXCEPT !.at = at]
         /\ th'[t].list \subseteq th[t].list
<1> DEFINE next == IF at \in Rest THEN Resting(at) ELSE [th[t] EXCEPT !.at = at]
<1>1. th \in [Threads -> ThreadStates] /\ th' = [th EXCEPT ![t] = next]
  BY DEF TypeOK, Goto
<1>2. next \in ThreadStates /\ next.list \subseteq th[t].list
  <2>1. CASE at \in Rest
    BY <2>1 DEF Resting, ThreadStates, Ats
  <2>2. CASE at \notin Rest
    <3>1. th[t] \in ThreadStates
      BY <1>1
    <3> QED BY <2>2, <3>1 DEF ThreadStates, Ats
  <2> QED BY <2>1, <2>2
<1> HIDE DEF next
<1>3. th' \in [Threads -> ThreadStates] /\ th'[t] = next
  BY <1>1, <1>2
<1>4. \A u \in Threads \ {t} : th'[u] = th[u]
  BY <1>1
<1>5. th'[t] = IF at \in Rest THEN Resting(at) ELSE [th[t] EXCEPT !.at = at]
  BY <1>3 DEF next
<1> QED BY <1>2, <1>3, <1>4, <1>5

LEMMA EnterThread ==
  ASSUME TypeOK, NEW t \in Threads, NEW at \in Ats, NEW r \in Runs,
         NEW c \in Codes \cup {None}, Enter(t, at, r, c)
  PROVE  /\ th' \in [Threads -> ThreadStates]
         /\ \A u \in Threads \ {t} : th'[u] = th[u]
         /\ th'[t] = [at |-> at, run |-> r, rc |-> c, list |-> {}]
         /\ th'[t].list = {}
BY DEF TypeOK, Enter, ThreadStates, Ats

\* A step of thread t: it is enough that t's own state and the records are true, and
\* that the entries in the file and in t's list are old ones or true ones.
LEMMA StepKeeps ==
  ASSUME IInv, TypeOK', ProcGrows, NEW t \in Threads,
         \A u \in Threads \ {t} : th'[u] = th[u],
         ThreadTrue(t)', RecordsTrue', OutcomeTrue',
         \A e \in Parsed(main)' \cup Parsed(tmp)' \cup th'[t].list :
            e \in Listed \/ proc'[e.run] = e.rc
  PROVE  IInv'
<1> USE DEF IInv
<1>1. ThreadsTrue'
  <2> SUFFICES ASSUME NEW u \in Threads, u # t PROVE ThreadTrue(u)'
    BY DEF ThreadsTrue
  <2>1. ThreadTrue(u) /\ th'[u] = th[u]
    BY DEF ThreadsTrue
  <2>2. th[u].at \notin Rest \cup DeleteWindow
          => /\ th[u].run \in Runs /\ proc'[th[u].run] # "unborn"
             /\ proc[th[u].run] = "signalled" => proc'[th[u].run] \in Codes \cup {"signalled"}
             /\ proc[th[u].run] \in Codes => proc'[th[u].run] = proc[th[u].run]
    BY <2>1 DEF ThreadTrue, ProcGrows
  <2>3. th[u].at \in HasCode \cup HasSignalled => th[u].at \notin Rest \cup DeleteWindow
    BY DEF HasCode, HasSignalled, Rest, DeleteWindow, AppendWindow
  <2> QED BY <2>1, <2>2, <2>3 DEF ThreadTrue
<1>2. ASSUME NEW e \in Listed PROVE proc'[e.run] = e.rc
  <2>1. e \in Entries
    BY DEF Listed, TypeOK, FileOK, ThreadStates, Parsed, Absent, Blank, Torn
  <2> QED BY <2>1 DEF HistoryGenuine, ProcGrows, Entries
<1>3. HistoryGenuine'
  BY <1>2 DEF HistoryGenuine, Listed
<1> QED BY <1>1, <1>3

\* A step that changes nothing but the state of thread t, and the queue.
LEMMA ThreadMoves ==
  ASSUME IInv, NEW t \in Threads,
         th' \in [Threads -> ThreadStates], \A u \in Threads \ {t} : th'[u] = th[u],
         ThreadTrue(t)', th'[t].list \subseteq th[t].list,
         queue' = queue \/ (queue # <<>> /\ queue' = Tail(queue)),
         UNCHANGED <<fileVars, proc, reaped, meta, restarts, windowVars>>
  PROVE  IInv'
<1>1. FileOK(SUBSET Entries)' /\ UNCHANGED <<main, tmp>>
  BY SameFile DEF IInv, TypeOK
<1>2. queue' \in Seq(Runs) /\ \A i \in 1..Len(queue') : proc[queue'[i]] # "unborn"
  <2>1. queue \in Seq(Runs) /\ \A i \in 1..Len(queue) : proc[queue[i]] # "unborn"
    BY DEF IInv, TypeOK, RecordsTrue
  <2>2. CASE queue # <<>> /\ queue' = Tail(queue)
    <3>1. /\ queue' \in Seq(Runs) /\ Len(queue') = Len(queue) - 1
          /\ \A i \in 1..Len(queue') : queue'[i] = queue[i + 1]
      BY <2>1, <2>2, HeadTailProperties
    <3>2. \A i \in 1..Len(queue') : i + 1 \in 1..Len(queue)
      BY <2>1, <3>1
    <3> QED BY <2>1, <3>1, <3>2
  <2> QED BY <2>1, <2>2
<1>3. TypeOK'
  BY <1>1, <1>2 DEF IInv, TypeOK, windowVars
<1>4. ProcGrows /\ OutcomeTrue' /\ RecordsTrue'
  BY <1>2 DEF IInv, OutcomeTrue, Exited, ProcGrows, RecordsTrue
<1>5. \A e \in Parsed(main)' \cup Parsed(tmp)' \cup th'[t].list : e \in Listed
  BY <1>1 DEF Listed, Parsed
<1> QED BY <1>2, <1>3, <1>4, <1>5, StepKeeps

LEMMA GotoMoves ==
  ASSUME IInv, NEW t \in Threads, NEW at \in Ats, Goto(t, at),
         ThreadTrue(t)', queue' = queue \/ (queue # <<>> /\ queue' = Tail(queue)),
         UNCHANGED <<fileVars, proc, reaped, meta, restarts, windowVars>>
  PROVE  IInv'
<1>1. TypeOK
  BY DEF IInv
<1>2. /\ th' \in [Threads -> ThreadStates]
      /\ \A u \in Threads \ {t} : th'[u] = th[u]
      /\ th'[t].list \subseteq th[t].list
  BY <1>1, GotoThread
<1> QED BY <1>2, ThreadMoves

LEMMA EnterMoves ==
  ASSUME IInv, NEW t \in Threads, NEW at \in Ats, NEW r \in Runs, NEW c \in Codes \cup {None},
         Enter(t, at, r, c), ThreadTrue(t)',
         queue' = queue \/ (queue # <<>> /\ queue' = Tail(queue)),
         UNCHANGED <<fileVars, proc, reaped, meta, restarts, windowVars>>
  PROVE  IInv'
<1>1. TypeOK
  BY DEF IInv
<1>2. /\ th' \in [Threads -> ThreadStates]
      /\ \A u \in Threads \ {t} : th'[u] = th[u]
      /\ th'[t].list \subseteq th[t].list
  BY <1>1, EnterThread
<1> QED BY <1>2, ThreadMoves

\* Where a thread may go without learning anything new.
LEMMA GotoTrue ==
  ASSUME IInv, NEW t \in Threads, NEW at \in Ats, Goto(t, at), UNCHANGED proc,
         at \notin Rest \cup DeleteWindow =>
            /\ th[t].at \notin Rest \cup DeleteWindow
            /\ at \in HasCode => th[t].at \in HasCode
            /\ at \in HasSignalled => th[t].at \in HasSignalled
  PROVE  ThreadTrue(t)'
<1>1. TypeOK /\ ThreadTrue(t) /\ th[t] \in ThreadStates
  BY DEF IInv, ThreadsTrue, TypeOK
<1>2. th'[t] = IF at \in Rest THEN Resting(at) ELSE [th[t] EXCEPT !.at = at]
  BY <1>1, GotoThread
<1>3. at \in HasCode \cup HasSignalled => at \notin Rest \cup DeleteWindow
  BY DEF HasCode, HasSignalled, Rest, DeleteWindow, AppendWindow
<1>4. CASE at \in Rest \cup DeleteWindow
  BY <1>1, <1>2, <1>3, <1>4 DEF ThreadTrue, Resting, ThreadStates
<1>5. CASE at \notin Rest \cup DeleteWindow
  <2>1. /\ th'[t].at = at /\ th'[t].run = th[t].run /\ th'[t].rc = th[t].rc
    BY <1>1, <1>2, <1>5 DEF ThreadStates
  <2> QED BY <1>1, <1>5, <2>1 DEF ThreadTrue
<1> QED BY <1>4, <1>5

LEMMA EnterTrue ==
  ASSUME IInv, NEW t \in Threads, NEW at \in Ats, NEW r \in Runs, NEW c \in Codes \cup {None},
         Enter(t, at, r, c),
         proc'[r] # "unborn",
         at \in HasCode => c \in Codes /\ proc'[r] = c,
         at \notin HasSignalled
  PROVE  ThreadTrue(t)'
<1>1. TypeOK
  BY DEF IInv
<1>2. th'[t] = [at |-> at, run |-> r, rc |-> c, list |-> {}]
  BY <1>1, EnterThread
<1> QED BY <1>2 DEF ThreadTrue

LEMMA AtFacts ==
  ASSUME IInv, NEW t \in Threads
  PROVE  /\ th[t].at \in Ats /\ th[t].list \subseteq Entries
         /\ th[t].at \notin Rest \cup DeleteWindow => th[t].run \in Runs /\ proc[th[t].run] # "unborn"
         /\ th[t].at \in HasCode => th[t].rc \in Codes /\ proc[th[t].run] = th[t].rc
         /\ th[t].at \in HasSignalled => proc[th[t].run] \in Codes \cup {"signalled"}
BY DEF IInv, TypeOK, ThreadStates, Ats, ThreadsTrue, ThreadTrue

------------------------------------------------------------------------------
(* One lemma per kind of step.                                               *)

LEMMA MarkDoneKeeps ==
  ASSUME IInv, NEW t \in Threads, NEW from \in HasCode \cup HasSignalled, NEW to \in Ats,
         MarkDone(t, from, to),
         to \in Rest \/ (from \in HasCode /\ to \in HasCode \ HasSignalled)
                     \/ (from \in HasSignalled /\ to \in HasSignalled \ HasCode)
  PROVE  IInv'
<1> USE DEF IInv, Ats, Rest, HasCode, HasSignalled, AppendWindow, DeleteWindow
<1> DEFINE r == th[t].run
<1>1. r \in Runs /\ proc[r] # "unborn" /\ proc[r] \in Codes \cup {"signalled"}
  BY AtFacts DEF MarkDone, At
<1>2. ThreadTrue(t)'
  BY GotoTrue DEF MarkDone, At
<1>3. /\ th' \in [Threads -> ThreadStates]
      /\ \A u \in Threads \ {t} : th'[u] = th[u]
      /\ th'[t].list \subseteq th[t].list
  BY GotoThread DEF MarkDone
<1>4. FileOK(SUBSET Entries)' /\ UNCHANGED <<main, tmp>>
  BY SameFile DEF MarkDone, TypeOK
<1>5. TypeOK'
  <2>1. meta' \in [Runs -> [known : BOOLEAN, done : BOOLEAN,
                           returncode : Codes \cup {None, Cancelled}, added : BOOLEAN]]
    <3> DEFINE Records == [known : BOOLEAN, done : BOOLEAN,
                           returncode : Codes \cup {None, Cancelled}, added : BOOLEAN]
    <3>1. meta \in [Runs -> Records] /\ meta' = [meta EXCEPT ![r].done = TRUE]
      BY DEF TypeOK, MarkDone
    <3>2. [meta[r] EXCEPT !.done = TRUE] \in Records
      <4>1. meta[r] \in Records
        BY <1>1, <3>1
      <4> QED BY <4>1
    <3> HIDE DEF Records
    <3>3. meta' \in [Runs -> Records]
      BY <3>1, <3>2
    <3> QED BY <3>3 DEF Records
  <2>2. UNCHANGED <<proc, reaped, queue, restarts, overlapped, raced>>
    BY DEF MarkDone, windowVars
  <2> QED BY <1>3, <1>4, <2>1, <2>2 DEF TypeOK
<1>6. RecordsTrue' /\ OutcomeTrue' /\ ProcGrows
  BY <1>1 DEF RecordsTrue, OutcomeTrue, Exited, MarkDone, TypeOK, ProcGrows
<1>7. \A e \in Parsed(main)' \cup Parsed(tmp)' \cup th'[t].list : e \in Listed
  BY <1>3, <1>4 DEF Listed, Parsed
<1> QED BY <1>2, <1>3, <1>5, <1>6, <1>7, StepKeeps

LEMMA MarkReturncodeKeeps ==
  ASSUME IInv, NEW t \in Threads, NEW from \in HasCode \cup HasSignalled, NEW to \in Ats,
         NEW c \in Codes \cup {Cancelled}, MarkReturncode(t, from, to, c),
         to \in Rest \/ (from \in HasCode /\ to \in HasCode \ HasSignalled),
         (from \in HasCode /\ c = th[t].rc) \/ c = Cancelled
  PROVE  IInv'
<1> USE DEF IInv, Ats, Rest, HasCode, HasSignalled, AppendWindow, DeleteWindow
<1> DEFINE r == th[t].run
<1>1. /\ r \in Runs /\ proc[r] # "unborn" /\ proc[r] \in Codes \cup {"signalled"}
      /\ c \in Codes => proc[r] = c
  BY AtFacts DEF MarkReturncode, At, Codes, Cancelled
<1>2. ThreadTrue(t)'
  BY GotoTrue DEF MarkReturncode, At
<1>3. /\ th' \in [Threads -> ThreadStates]
      /\ \A u \in Threads \ {t} : th'[u] = th[u]
      /\ th'[t].list \subseteq th[t].list
  BY GotoThread DEF MarkReturncode
<1>4. FileOK(SUBSET Entries)' /\ UNCHANGED <<main, tmp>>
  BY SameFile DEF MarkReturncode, TypeOK
<1>5. TypeOK'
  <2>1. meta' \in [Runs -> [known : BOOLEAN, done : BOOLEAN,
                           returncode : Codes \cup {None, Cancelled}, added : BOOLEAN]]
    <3> DEFINE Records == [known : BOOLEAN, done : BOOLEAN,
                           returncode : Codes \cup {None, Cancelled}, added : BOOLEAN]
    <3>1. meta \in [Runs -> Records] /\ meta' = [meta EXCEPT ![r].returncode = c]
      BY DEF TypeOK, MarkReturncode
    <3>2. [meta[r] EXCEPT !.returncode = c] \in Records
      <4>1. meta[r] \in Records
        BY <1>1, <3>1
      <4> QED BY <4>1
    <3> HIDE DEF Records
    <3>3. meta' \in [Runs -> Records]
      BY <1>1, <3>1, <3>2
    <3> QED BY <3>3 DEF Records
  <2>2. UNCHANGED <<proc, reaped, queue, restarts, overlapped, raced>>
    BY DEF MarkReturncode, windowVars
  <2> QED BY <1>3, <1>4, <2>1, <2>2 DEF TypeOK
<1>6. RecordsTrue' /\ OutcomeTrue' /\ ProcGrows
  BY <1>1 DEF RecordsTrue, OutcomeTrue, Exited, MarkReturncode, TypeOK, ProcGrows
<1>7. \A e \in Parsed(main)' \cup Parsed(tmp)' \cup th'[t].list : e \in Listed
  BY <1>3, <1>4 DEF Listed, Parsed
<1> QED BY <1>2, <1>3, <1>5, <1>6, <1>7, StepKeeps

LEMMA PollTrue ==
  ASSUME IInv, NEW r \in Runs
  PROVE  /\ Poll(r) \in Codes \cup {None}
         /\ Poll(r) # None => proc[r] = Poll(r)
BY DEF IInv, TypeOK, RecordsTrue, Poll, Exited

\* A poll of the exit code, by a thread that thereby moves on; proc may be signalled.
LEMMA PollKeeps ==
  ASSUME IInv, NEW t \in Threads, NEW r \in Runs, Collect(r),
         th' \in [Threads -> ThreadStates], \A u \in Threads \ {t} : th'[u] = th[u],
         th'[t].list \subseteq th[t].list, ThreadTrue(t)',
         Signal(r) \/ proc' = proc,
         UNCHANGED <<fileVars, meta, queue, restarts, windowVars>>
  PROVE  IInv'
<1> USE DEF IInv
<1>1. Poll(r) \in Codes \cup {None} /\ (Poll(r) # None => proc[r] = Poll(r))
  BY PollTrue
<1>2. FileOK(SUBSET Entries)' /\ UNCHANGED <<main, tmp>>
  BY SameFile DEF TypeOK
<1>3. TypeOK'
  <2>1. reaped' \in [Runs -> Codes \cup {None}]
    BY <1>1 DEF TypeOK, Collect
  <2>2. proc' \in [Runs -> {"unborn", "running", "signalled"} \cup Codes]
    BY DEF TypeOK, Signal
  <2> QED BY <1>2, <2>1, <2>2 DEF TypeOK, windowVars
<1>4. ProcGrows
  BY DEF ProcGrows, Signal, TypeOK, Codes
<1>5. RecordsTrue'
  <2>1. ASSUME NEW s \in Runs, reaped'[s] # None PROVE reaped'[s] = proc'[s]
    <3>1. reaped[s] # None => proc[s] = reaped[s] /\ proc[s] \in Codes
      BY DEF RecordsTrue, TypeOK, Codes
    <3>2. reaped'[s] = reaped[s] \/ (s = r /\ reaped'[s] = Poll(r))
      BY DEF Collect, TypeOK
    <3> QED BY <1>1, <1>4, <2>1, <3>1, <3>2 DEF ProcGrows
  <2> QED BY <1>4, <2>1 DEF RecordsTrue, ProcGrows, TypeOK
<1>6. OutcomeTrue'
  BY <1>4 DEF OutcomeTrue, Signal, TypeOK, ProcGrows, Exited, Codes
<1>7. \A e \in Parsed(main)' \cup Parsed(tmp)' \cup th'[t].list : e \in Listed
  BY <1>2 DEF Listed, Parsed
<1> QED BY <1>3, <1>4, <1>5, <1>6, <1>7, StepKeeps

\* A step that rewrites files or loads them, and leaves processes and records alone.
LEMMA FileKeeps ==
  ASSUME IInv, NEW t \in Threads,
         th' \in [Threads -> ThreadStates], \A u \in Threads \ {t} : th'[u] = th[u],
         ThreadTrue(t)', FileOK(SUBSET Entries)',
         \A e \in Parsed(main)' \cup Parsed(tmp)' \cup th'[t].list :
            e \in Listed \/ proc[e.run] = e.rc,
         overlapped' \subseteq Threads, raced' \in BOOLEAN,
         UNCHANGED <<proc, reaped, meta, queue, restarts>>
  PROVE  IInv'
<1>1. TypeOK'
  BY DEF IInv, TypeOK
<1>2. ProcGrows /\ RecordsTrue' /\ OutcomeTrue'
  BY DEF IInv, ProcGrows, RecordsTrue, OutcomeTrue, Exited
<1> QED BY <1>1, <1>2, StepKeeps

LEMMA GotoFileKeeps ==
  ASSUME IInv, NEW t \in Threads, NEW at \in Ats, Goto(t, at), ThreadTrue(t)',
         FileOK(SUBSET Entries)', Parsed(main)' \cup Parsed(tmp)' \subseteq Listed,
         overlapped' \subseteq Threads, raced' \in BOOLEAN,
         UNCHANGED <<proc, reaped, meta, queue, restarts>>
  PROVE  IInv'
<1>1. TypeOK
  BY DEF IInv
<1>2. /\ th' \in [Threads -> ThreadStates]
      /\ \A u \in Threads \ {t} : th'[u] = th[u]
      /\ th'[t].list \subseteq Listed
  BY <1>1, GotoThread DEF Listed
<1> QED BY <1>2, FileKeeps

LEMMA WindowTypes ==
  ASSUME TypeOK, NEW t \in Threads, OpenWindow(t) \/ CloseWindow(t) \/ UNCHANGED windowVars
  PROVE  overlapped' \subseteq Threads /\ raced' \in BOOLEAN
BY DEF TypeOK, OpenWindow, CloseWindow, windowVars

------------------------------------------------------------------------------
(* The actions, grouped as in RunRegistry.                                   *)

LEMMA ProcessExitsKeeps ==
  ASSUME IInv, NEW r \in Runs, ProcessExits(r) PROVE IInv'
<1> USE DEF IInv
<1>1. ProcGrows
  BY DEF ProcessExits, ProcGrows, TypeOK, Codes
<1>2. FileOK(SUBSET Entries)' /\ UNCHANGED <<main, tmp>>
  BY SameFile DEF ProcessExits, TypeOK
<1>3. TypeOK'
  BY <1>2 DEF ProcessExits, TypeOK, windowVars, Codes
<1>4. RecordsTrue'
  BY <1>1 DEF ProcessExits, RecordsTrue, ProcGrows, TypeOK
<1>5. OutcomeTrue'
  BY <1>1 DEF ProcessExits, OutcomeTrue, ProcGrows, Exited, TypeOK, Codes
<1>6. ThreadTrue(r)'
  BY <1>1, ThreadsAssumption
     DEF ProcessExits, ThreadsTrue, ThreadTrue, ProcGrows, Codes, HasCode, HasSignalled,
         AppendWindow, Rest, DeleteWindow
<1>7. \A e \in Parsed(main)' \cup Parsed(tmp)' \cup th'[r].list : e \in Listed
  BY <1>2, ThreadsAssumption DEF ProcessExits, Listed, Parsed
<1>8. \A u \in Threads : th'[u] = th[u]
  BY DEF ProcessExits
<1> QED BY <1>1, <1>3, <1>4, <1>5, <1>6, <1>7, <1>8, StepKeeps, ThreadsAssumption

LEMMA FinalizerKeeps ==
  ASSUME IInv, NEW r \in Runs, RunCliAsync(r) \/ Finalizer(r) PROVE IInv'
<1> USE DEF IInv, Ats, Rest, FinalizerAt, HasCode, HasSignalled, AppendAt, AppendWindow, DeleteWindow
<1>0. r \in Threads
  BY ThreadsAssumption
<1>1. CASE RunCliAsync(r)
  <2>1. ProcGrows /\ proc[r] = "unborn"
    BY <1>1 DEF RunCliAsync, ProcGrows, TypeOK, Codes
  <2>2. FileOK(SUBSET Entries)' /\ UNCHANGED <<main, tmp>>
    BY <1>1, SameFile DEF RunCliAsync, TypeOK
  <2>3. /\ th' \in [Threads -> ThreadStates]
        /\ \A u \in Threads \ {r} : th'[u] = th[u]
        /\ th'[r] = Resting("queued")
    BY <1>0, <1>1, GotoThread DEF RunCliAsync
  <2>4. queue' \in Seq(Runs)
    BY <1>1 DEF RunCliAsync, TypeOK
  <2>5. TypeOK'
    BY <1>1, <2>2, <2>3, <2>4 DEF RunCliAsync, TypeOK, windowVars, NewRecord, NoRecord, None
  <2>6. RecordsTrue'
    BY <1>1, <2>1 DEF RunCliAsync, RecordsTrue, TypeOK, NewRecord, NoRecord, Codes, None
  <2>7. OutcomeTrue'
    BY <1>1, <2>1 DEF RunCliAsync, OutcomeTrue, Exited, TypeOK, NewRecord, NoRecord, Codes, None,
                      Cancelled
  <2>8. ThreadTrue(r)'
    BY <2>3 DEF ThreadTrue, Resting
  <2>9. \A e \in Parsed(main)' \cup Parsed(tmp)' \cup th'[r].list : e \in Listed
    BY <2>2, <2>3 DEF Listed, Parsed, Resting
  <2> QED BY <1>0, <2>1, <2>3, <2>5, <2>6, <2>7, <2>8, <2>9, StepKeeps
<1>2. CASE FinalizerStarts(r)
  <2>1. /\ queue # <<>> /\ queue' = Tail(queue) /\ r = queue[1]
        /\ Enter(r, "wait", r, None)
        /\ UNCHANGED <<fileVars, proc, reaped, meta, restarts, windowVars>>
    BY <1>2 DEF FinalizerStarts, TypeOK
  <2>2. proc'[r] # "unborn"
    BY <2>1 DEF RecordsTrue, TypeOK
  <2>3. ThreadTrue(r)'
    BY <1>0, <2>1, <2>2, EnterTrue
  <2> QED BY <1>0, <2>1, <2>3, EnterMoves
<1>3. CASE FinalizerReaps(r)
  <2>1. /\ At(r, "wait") /\ Exited(r) /\ Enter(r, "reaped", r, proc[r])
        /\ reaped' = [reaped EXCEPT ![r] = proc[r]]
        /\ UNCHANGED <<fileVars, proc, meta, queue, restarts, windowVars>>
    BY <1>3 DEF FinalizerReaps
  <2>2. proc[r] \in Codes /\ proc[r] # "unborn"
    BY <2>1 DEF Exited, Codes
  <2>3. ThreadTrue(r)'
    BY <1>0, <2>1, <2>2, EnterTrue
  <2>4. /\ th' \in [Threads -> ThreadStates]
        /\ \A u \in Threads \ {r} : th'[u] = th[u]
        /\ th'[r].list = {}
    BY <1>0, <2>1, <2>2, EnterThread
  <2>5. FileOK(SUBSET Entries)' /\ UNCHANGED <<main, tmp>>
    BY <2>1, SameFile DEF TypeOK
  <2>6. TypeOK'
    BY <2>1, <2>2, <2>4, <2>5 DEF TypeOK, windowVars
  <2>7. RecordsTrue' /\ OutcomeTrue' /\ ProcGrows
    BY <2>1 DEF RecordsTrue, OutcomeTrue, Exited, ProcGrows, TypeOK
  <2>8. \A e \in Parsed(main)' \cup Parsed(tmp)' \cup th'[r].list : e \in Listed
    BY <2>4, <2>5 DEF Listed, Parsed
  <2> QED BY <1>0, <2>3, <2>4, <2>6, <2>7, <2>8, StepKeeps
<1>4. CASE FinalizerSetsDone(r)
  BY <1>0, <1>4, MarkDoneKeeps DEF FinalizerSetsDone
<1>5. CASE FinalizerSetsReturncode(r)
  <2>1. At(r, "setrc") /\ th[r].rc \in Codes
    BY <1>0, <1>5, AtFacts DEF FinalizerSetsReturncode, MarkReturncode, At
  <2> QED BY <1>0, <1>5, <2>1, MarkReturncodeKeeps DEF FinalizerSetsReturncode
<1> QED BY <1>1, <1>2, <1>3, <1>4, <1>5 DEF Finalizer

\* What a step that loads the list opens its window with.
LEMMA LoadsKeeps ==
  ASSUME IInv, NEW t \in Threads, NEW at \in {"open", "dopen"}, NEW list,
         th' = [th EXCEPT ![t].at = at, ![t].list = list], OpenWindow(t),
         at = "open" => th[t].at \in HasCode,
         list \subseteq Entries, \A e \in list : e \in Listed \/ proc[e.run] = e.rc,
         UNCHANGED <<fileVars, proc, reaped, meta, queue, restarts>>
  PROVE  IInv'
<1> USE DEF IInv
<1>1. th[t] \in ThreadStates /\ th \in [Threads -> ThreadStates]
  BY DEF TypeOK
<1>2. th'[t] = [th[t] EXCEPT !.at = at, !.list = list] /\ \A u \in Threads \ {t} : th'[u] = th[u]
  BY <1>1
<1>3. th'[t] \in ThreadStates
  BY <1>1, <1>2 DEF ThreadStates, AppendAt, AppendWindow, DeleteWindow
<1>4. th' \in [Threads -> ThreadStates]
  BY <1>1, <1>3
<1>5. /\ th'[t].at = at /\ th'[t].run = th[t].run /\ th'[t].rc = th[t].rc
      /\ th'[t].list = list
  BY <1>1, <1>2 DEF ThreadStates
<1>6. ThreadTrue(t)'
  BY <1>5, AtFacts
     DEF ThreadTrue, HasCode, HasSignalled, AppendWindow, DeleteWindow, Rest
<1>7. FileOK(SUBSET Entries)' /\ UNCHANGED <<main, tmp>>
  BY SameFile DEF TypeOK
<1>8. \A e \in Parsed(main)' \cup Parsed(tmp)' \cup th'[t].list : e \in Listed \/ proc[e.run] = e.rc
  BY <1>5, <1>7 DEF Listed, Parsed
<1> QED BY <1>2, <1>4, <1>6, <1>7, <1>8, FileKeeps, WindowTypes

LEMMA AppendKeeps ==
  ASSUME IInv, NEW t \in Threads, AppendStep(t) PROVE IInv'
<1> USE DEF IInv, Ats, Rest, HasCode, HasSignalled, AppendAt, AppendWindow, DeleteWindow
<1>1. CASE Gather(t)
  BY <1>1, GotoTrue, GotoMoves DEF Gather, GatherStep, At
<1>2. CASE GatherRaises(t)
  BY <1>2, GotoTrue, GotoMoves DEF GatherRaises, GatherStep, At
<1>3. CASE AppendLoads(t)
  <2>1. NewEntry(t) \in Entries /\ proc[NewEntry(t).run] = NewEntry(t).rc
    BY <1>3, AtFacts DEF AppendLoads, At, NewEntry, Entries
  <2>2. Parsed(main) \subseteq Entries /\ Parsed(main) \subseteq Listed
    BY DEF TypeOK, FileOK, Parsed, Absent, Blank, Torn, Listed
  <2> DEFINE list == Parsed(main) \cup {NewEntry(t)}
  <2>3. /\ th[t].at \in HasCode /\ OpenWindow(t)
        /\ th' = [th EXCEPT ![t].at = "open", ![t].list = list]
        /\ UNCHANGED <<fileVars, proc, reaped, meta, queue, restarts>>
    BY <1>3 DEF AppendLoads, At
  <2>4. list \subseteq Entries /\ \A e \in list : e \in Listed \/ proc[e.run] = e.rc
    BY <2>1, <2>2
  <2> HIDE DEF list
  <2> QED BY ONLY IInv, <2>3, <2>4, LoadsKeeps
<1>4. CASE Opens(t)
  <2>1. FileOK(SUBSET Entries)' /\ Parsed(main)' \cup Parsed(tmp)' \subseteq Listed
    BY <1>4, OpenTmpFile DEF Opens, TypeOK, Listed
  <2>2. CASE At(t, "open") /\ Goto(t, "dump")
    BY <1>4, <2>1, <2>2, GotoTrue, GotoFileKeeps, WindowTypes DEF Opens, At
  <2>3. CASE At(t, "dopen") /\ Goto(t, "ddump")
    BY <1>4, <2>1, <2>3, GotoTrue, GotoFileKeeps, WindowTypes DEF Opens, At
  <2> QED BY <1>4, <2>2, <2>3 DEF Opens
<1>5. CASE Dumps(t)
  <2>1. th[t].list \in SUBSET Entries
    BY AtFacts
  <2>2. FileOK(SUBSET Entries)' /\ Parsed(main)' \cup Parsed(tmp)' \subseteq Listed
    BY <1>5, <2>1, DumpFile DEF Dumps, TypeOK, Listed
  <2>3. CASE At(t, "dump") /\ Goto(t, "replace")
    BY <1>5, <2>2, <2>3, GotoTrue, GotoFileKeeps, WindowTypes DEF Dumps, At
  <2>4. CASE At(t, "ddump") /\ Goto(t, "dreplace")
    BY <1>5, <2>2, <2>4, GotoTrue, GotoFileKeeps, WindowTypes DEF Dumps, At
  <2> QED BY <1>5, <2>3, <2>4 DEF Dumps
<1>6. CASE AppendReplaces(t)
  <2>1. FileOK(SUBSET Entries)' /\ Parsed(main)' \cup Parsed(tmp)' \subseteq Listed
    BY <1>6, ReplaceFile DEF AppendReplaces, TypeOK, Listed
  <2> QED BY <1>6, <2>1, GotoTrue, GotoFileKeeps, WindowTypes DEF AppendReplaces, AfterAppend, At
<1>7. CASE AppendReplaceRaises(t)
  BY <1>7, GotoTrue, GotoMoves DEF AppendReplaceRaises, At
<1>8. CASE AppendUnlinks(t)
  <2>1. FileOK(SUBSET Entries)' /\ Parsed(main)' \cup Parsed(tmp)' \subseteq Listed
    BY <1>8, RemoveTmpFile DEF AppendUnlinks, TypeOK, Listed
  <2> QED BY <1>8, <2>1, GotoTrue, GotoFileKeeps, WindowTypes DEF AppendUnlinks, AfterAppend, At
<1>9. CASE SetsHistoryAdded(t)
  <2>1. At(t, "flag") /\ Goto(t, End(t)) /\ End(t) \in {"idle", "finished"}
    BY <1>9 DEF SetsHistoryAdded, End
  <2>2. th[t].run \in Runs
    BY <2>1, AtFacts DEF At
  <2>3. ThreadTrue(t)'
    BY <1>9, <2>1, GotoTrue DEF SetsHistoryAdded
  <2>4. /\ th' \in [Threads -> ThreadStates]
        /\ \A u \in Threads \ {t} : th'[u] = th[u]
        /\ th'[t].list \subseteq th[t].list
    BY <2>1, GotoThread
  <2>5. FileOK(SUBSET Entries)' /\ UNCHANGED <<main, tmp>>
    BY <1>9, SameFile DEF SetsHistoryAdded, TypeOK
  <2>6. TypeOK'
    BY <1>9, <2>2, <2>4, <2>5 DEF SetsHistoryAdded, TypeOK, windowVars
  <2>7. RecordsTrue' /\ OutcomeTrue' /\ ProcGrows
    BY <1>9, <2>2 DEF SetsHistoryAdded, RecordsTrue, OutcomeTrue, Exited, TypeOK, ProcGrows
  <2>8. \A e \in Parsed(main)' \cup Parsed(tmp)' \cup th'[t].list : e \in Listed
    BY <2>4, <2>5 DEF Listed, Parsed
  <2> QED BY <2>3, <2>4, <2>6, <2>7, <2>8, StepKeeps
<1> QED BY <1>1, <1>2, <1>3, <1>4, <1>5, <1>6, <1>7, <1>8, <1>9 DEF AppendStep

LEMMA StatusKeeps ==
  ASSUME IInv, NEW t \in Threads,
         StatusPolls(t) \/ StatusSetsDone(t) \/ StatusSetsReturncode(t) \/ StatusChecksHistory(t)
  PROVE  IInv'
<1> USE DEF IInv, Ats, Rest, StatusAt, HasCode, HasSignalled, AppendAt, AppendWindow, DeleteWindow
<1>1. CASE StatusPolls(t)
  <2> DEFINE r == th[t].run
  <2>1. r \in Runs /\ proc[r] # "unborn"
    BY <1>1, AtFacts DEF StatusPolls, At
  <2>2. /\ Collect(r) /\ proc' = proc
        /\ UNCHANGED <<fileVars, meta, queue, restarts, windowVars>>
    BY <1>1 DEF StatusPolls
  <2>3. CASE Goto(t, "idle")
    BY <2>1, <2>2, <2>3, GotoThread, GotoTrue, PollKeeps
  <2>4. CASE Poll(r) # None /\ Enter(t, "sdone", r, Poll(r))
    <3>1. Poll(r) \in Codes /\ proc[r] = Poll(r)
      BY <2>1, <2>4, PollTrue
    <3>2. ThreadTrue(t)'
      BY <2>1, <2>2, <2>4, <3>1, EnterTrue
    <3>3. /\ th' \in [Threads -> ThreadStates]
          /\ \A u \in Threads \ {t} : th'[u] = th[u]
          /\ th'[t].list \subseteq th[t].list
      BY <2>1, <2>4, <3>1, EnterThread
    <3> QED BY <2>1, <2>2, <3>2, <3>3, PollKeeps
  <2> QED BY <1>1, <2>3, <2>4 DEF StatusPolls
<1>2. CASE StatusSetsDone(t)
  BY <1>2, MarkDoneKeeps DEF StatusSetsDone
<1>3. CASE StatusSetsReturncode(t)
  <2>1. At(t, "ssetrc") /\ th[t].rc \in Codes
    BY <1>3, AtFacts DEF StatusSetsReturncode, MarkReturncode, At
  <2> QED BY <1>3, <2>1, MarkReturncodeKeeps DEF StatusSetsReturncode
<1>4. CASE StatusChecksHistory(t)
  BY <1>4, GotoTrue, GotoMoves DEF StatusChecksHistory, At
<1> QED BY <1>1, <1>2, <1>3, <1>4

LEMMA StreamKeeps ==
  ASSUME IInv, NEW t \in Threads,
         StreamPolls(t) \/ StreamSetsReturncode(t) \/ StreamSetsDone(t) \/ StreamDropped(t)
  PROVE  IInv'
<1> USE DEF IInv, Ats, Rest, StreamAt, HasCode, HasSignalled, AppendWindow, DeleteWindow
<1>1. CASE StreamPolls(t)
  <2> DEFINE r == th[t].run
  <2>1. r \in Runs /\ proc[r] # "unborn"
    BY <1>1, AtFacts DEF StreamPolls, At
  <2>2. /\ Collect(r) /\ proc' = proc
        /\ UNCHANGED <<fileVars, meta, queue, restarts, windowVars>>
    BY <1>1 DEF StreamPolls
  <2>3. CASE Goto(t, "idle")
    BY <2>1, <2>2, <2>3, GotoThread, GotoTrue, PollKeeps
  <2>4. CASE Poll(r) # None /\ Enter(t, "tset", r, Poll(r))
    <3>1. Poll(r) \in Codes /\ proc[r] = Poll(r)
      BY <2>1, <2>4, PollTrue
    <3>2. ThreadTrue(t)'
      BY <2>1, <2>2, <2>4, <3>1, EnterTrue
    <3>3. /\ th' \in [Threads -> ThreadStates]
          /\ \A u \in Threads \ {t} : th'[u] = th[u]
          /\ th'[t].list \subseteq th[t].list
      BY <2>1, <2>4, <3>1, EnterThread
    <3> QED BY <2>1, <2>2, <3>2, <3>3, PollKeeps
  <2>5. CASE th' = th
    <3>1. th' \in [Threads -> ThreadStates] /\ ThreadTrue(t)'
      BY <2>2, <2>5 DEF TypeOK, ThreadsTrue, ThreadTrue
    <3> QED BY <2>1, <2>2, <2>5, <3>1, PollKeeps
  <2> QED BY <1>1, <2>3, <2>4, <2>5 DEF StreamPolls
<1>2. CASE StreamSetsReturncode(t)
  <2>1. At(t, "tset") /\ th[t].rc \in Codes
    BY <1>2, AtFacts DEF StreamSetsReturncode, MarkReturncode, At
  <2> QED BY <1>2, <2>1, MarkReturncodeKeeps DEF StreamSetsReturncode
<1>3. CASE StreamSetsDone(t)
  BY <1>3, MarkDoneKeeps DEF StreamSetsDone
<1>4. CASE StreamDropped(t)
  BY <1>4, GotoTrue, GotoMoves DEF StreamDropped, At
<1> QED BY <1>1, <1>2, <1>3, <1>4

LEMMA CancelKeeps ==
  ASSUME IInv, NEW t \in Threads,
         \/ CancelPolls(t) \/ CancelWaits(t) \/ CancelSetsDone(t)
         \/ CancelChecksReturncode(t) \/ CancelSetsReturncode(t)
  PROVE  IInv'
<1> USE DEF IInv, Ats, Rest, CancelAt, HasCode, HasSignalled, AppendWindow, DeleteWindow
<1>1. CASE CancelPolls(t)
  <2> DEFINE r == th[t].run
             to == IF Poll(r) = None THEN "cwait" ELSE "cdone"
  <2>1. r \in Runs /\ proc[r] # "unborn"
    BY <1>1, AtFacts DEF CancelPolls, At
  <2>2. /\ Collect(r) /\ Goto(t, to)
        /\ IF Poll(r) = None THEN Signal(r) ELSE proc' = proc
        /\ UNCHANGED <<fileVars, meta, queue, restarts, windowVars>>
    BY <1>1 DEF CancelPolls
  <2>3. /\ th' \in [Threads -> ThreadStates]
        /\ \A u \in Threads \ {t} : th'[u] = th[u]
        /\ th'[t].list \subseteq th[t].list
        /\ th'[t] = [th[t] EXCEPT !.at = to]
    BY <2>2, GotoThread
  <2>4. proc'[r] \in Codes \cup {"signalled"}
    BY <2>1, <2>2, PollTrue DEF Signal, TypeOK, Codes
  <2>5. th'[t].at = to /\ th'[t].run = r
    BY <2>3 DEF TypeOK, ThreadStates
  <2>6. ThreadTrue(t)'
    BY <2>1, <2>4, <2>5 DEF ThreadTrue, Codes
  <2> QED BY <2>1, <2>2, <2>3, <2>6, PollKeeps
<1>2. CASE CancelWaits(t)
  <2>1. th[t].run \in Runs
    BY <1>2, AtFacts DEF CancelWaits, At
  <2> QED BY <1>2, <2>1, GotoThread, GotoTrue, PollKeeps DEF CancelWaits, At
<1>3. CASE CancelSetsDone(t)
  BY <1>3, MarkDoneKeeps DEF CancelSetsDone
<1>4. CASE CancelChecksReturncode(t)
  BY <1>4, GotoTrue, GotoMoves DEF CancelChecksReturncode, At
<1>5. CASE CancelSetsReturncode(t)
  BY <1>5, MarkReturncodeKeeps DEF CancelSetsReturncode
<1> QED BY <1>1, <1>2, <1>3, <1>4, <1>5

LEMMA BeginKeeps ==
  ASSUME IInv, NEW t \in Threads, NEW r \in Runs,
         \/ StatusBegins(t, r) \/ Begins(t, "tpoll", r) \/ Begins(t, "cpoll", r)
         \/ SyncBegins(t, r)
  PROVE  IInv'
<1> USE DEF IInv, Ats, StatusAt, StreamAt, CancelAt, HasCode, HasSignalled, AppendWindow
<1>1. ASSUME NEW at \in {"spoll", "tpoll", "cpoll"}, Begins(t, at, r) PROVE IInv'
  <2>1. proc[r] # "unborn"
    BY <1>1 DEF Begins, RecordsTrue
  <2> QED BY <1>1, <2>1, EnterTrue, EnterMoves DEF Begins
<1>2. CASE SyncBegins(t, r)
  <2>1. ProcGrows /\ proc[r] = "unborn"
    BY <1>2 DEF SyncBegins, ProcGrows, TypeOK, Codes
  <2>2. FileOK(SUBSET Entries)' /\ UNCHANGED <<main, tmp>>
    BY <1>2, SameFile DEF SyncBegins, TypeOK
  <2>3. ThreadTrue(t)'
    BY <1>2, EnterTrue DEF SyncBegins, TypeOK
  <2>4. /\ th' \in [Threads -> ThreadStates]
        /\ \A u \in Threads \ {t} : th'[u] = th[u]
        /\ th'[t].list = {}
    BY <1>2, EnterThread DEF SyncBegins
  <2>5. TypeOK'
    BY <1>2, <2>2, <2>4 DEF SyncBegins, TypeOK, windowVars
  <2>6. RecordsTrue' /\ OutcomeTrue'
    BY <1>2, <2>1 DEF SyncBegins, RecordsTrue, OutcomeTrue, Exited, TypeOK, Codes
  <2>7. \A e \in Parsed(main)' \cup Parsed(tmp)' \cup th'[t].list : e \in Listed
    BY <2>2, <2>4 DEF Listed, Parsed
  <2> QED BY <2>1, <2>3, <2>4, <2>5, <2>6, <2>7, StepKeeps
<1> QED BY <1>1, <1>2 DEF StatusBegins

LEMMA SyncReapsKeeps ==
  ASSUME IInv, NEW t \in Threads, SyncReaps(t) PROVE IInv'
<1> USE DEF IInv, Ats, AppendAt, HasCode, HasSignalled, Rest, DeleteWindow
<1>1. th[t].run \in Runs
  BY AtFacts DEF SyncReaps, At
<1>2. proc[th[t].run] \in Codes /\ proc[th[t].run] # "unborn"
  BY DEF SyncReaps, Exited, Codes
<1>3. ThreadTrue(t)'
  BY <1>1, <1>2, EnterTrue DEF SyncReaps
<1> QED BY <1>1, <1>2, <1>3, EnterMoves DEF SyncReaps

LEMMA SyncRaisesKeeps ==
  ASSUME IInv, NEW t \in Threads, SyncRaises(t) PROVE IInv'
BY GotoTrue, GotoMoves DEF SyncRaises, At, IInv, Ats, Rest, HasCode, HasSignalled

LEMMA DeleteKeeps ==
  ASSUME IInv, NEW t \in Threads,
         ReportsDelete(t) \/ PurgeHistory(t) \/ DeleteReplaces(t) \/ DeleteReplaceRaises(t)
  PROVE  IInv'
<1> USE DEF IInv, Ats, Rest, HasCode, HasSignalled, AppendWindow, DeleteWindow
<1>1. ASSUME NEW gone, DeleteLoads(t, gone) PROVE IInv'
  <2>1. Kept(gone) \subseteq Parsed(main)
    BY DEF Kept
  <2>2. Parsed(main) \subseteq Entries /\ Parsed(main) \subseteq Listed
    BY DEF TypeOK, FileOK, Parsed, Absent, Blank, Torn, Listed
  <2> QED BY <1>1, <2>1, <2>2, LoadsKeeps DEF DeleteLoads
<1>2. CASE DeleteReplaces(t)
  <2>1. FileOK(SUBSET Entries)' /\ Parsed(main)' \cup Parsed(tmp)' \subseteq Listed
    BY <1>2, ReplaceFile DEF DeleteReplaces, TypeOK, Listed
  <2> QED BY <1>2, <2>1, GotoTrue, GotoFileKeeps, WindowTypes DEF DeleteReplaces, At
<1>3. CASE DeleteReplaceRaises(t)
  <2>1. FileOK(SUBSET Entries)' /\ UNCHANGED <<main, tmp>>
    BY <1>3, SameFile DEF DeleteReplaceRaises, TypeOK
  <2>2. Parsed(main)' \cup Parsed(tmp)' \subseteq Listed
    BY <2>1 DEF Parsed, Listed
  <2> QED BY <1>3, <2>1, <2>2, GotoTrue, GotoFileKeeps, WindowTypes DEF DeleteReplaceRaises, At
<1> QED BY <1>1, <1>2, <1>3 DEF ReportsDelete, PurgeHistory

LEMMA RestartKeeps ==
  ASSUME IInv, Restart PROVE IInv'
<1> USE DEF IInv
<1>1. FileOK(SUBSET Entries)' /\ UNCHANGED <<main, tmp>>
  BY CloseAllFile DEF Restart, TypeOK
<1>2. /\ th' \in [Threads -> ThreadStates]
      /\ \A t \in Threads : th'[t] = Resting("idle")
  BY DEF Restart, ThreadStates, Resting, Rest, None
<1>3. meta' \in [Runs -> [known : BOOLEAN, done : BOOLEAN,
                          returncode : Codes \cup {None, Cancelled}, added : BOOLEAN]]
  BY DEF Restart, NoRecord, None
<1>4. TypeOK'
  BY <1>1, <1>2, <1>3, MaxRestartsAssumption DEF Restart, TypeOK
<1>5. ThreadsTrue'
  BY <1>2 DEF ThreadsTrue, ThreadTrue, Resting, Rest, HasCode, HasSignalled, AppendWindow
<1>6. RecordsTrue' /\ OutcomeTrue'
  BY DEF Restart, RecordsTrue, OutcomeTrue, NoRecord, Codes, None, Cancelled
<1>7. HistoryGenuine'
  BY <1>1, <1>2 DEF Restart, HistoryGenuine, Listed, Parsed, Resting
<1> QED BY <1>4, <1>5, <1>6, <1>7

LEMMA StutterKeeps ==
  ASSUME IInv, UNCHANGED vars PROVE IInv'
<1>1. FileOK(SUBSET Entries)' /\ UNCHANGED <<main, tmp>>
  BY SameFile DEF vars, IInv, TypeOK
<1>2. TypeOK'
  BY <1>1 DEF IInv, TypeOK, vars, windowVars
<1>3. ThreadsTrue' /\ RecordsTrue' /\ OutcomeTrue' /\ HistoryGenuine'
  BY <1>1 DEF IInv, vars, ThreadsTrue, ThreadTrue, RecordsTrue, OutcomeTrue, Exited,
              HistoryGenuine, Listed, Parsed
<1> QED BY <1>2, <1>3 DEF IInv

LEMMA NextKeeps == IInv /\ [Next]_vars => IInv'
<1> SUFFICES ASSUME IInv, [Next]_vars PROVE IInv'
  OBVIOUS
<1>1. ASSUME NEW r \in Runs, ProcessExits(r) \/ RunCliAsync(r) \/ Finalizer(r) PROVE IInv'
  BY <1>1, ProcessExitsKeeps, FinalizerKeeps
<1>2. ASSUME NEW t \in Threads, AppendStep(t) PROVE IInv'
  BY <1>2, AppendKeeps
<1>3. ASSUME NEW t \in Reqs, Request(t) PROVE IInv'
  <2>1. t \in Threads
    BY ThreadsAssumption
  <2> QED BY <1>3, <2>1, BeginKeeps, StatusKeeps, StreamKeeps, CancelKeeps, SyncReapsKeeps,
             SyncRaisesKeeps, DeleteKeeps DEF Request
<1> QED BY <1>1, <1>2, <1>3, RestartKeeps, StutterKeeps DEF Next

\* The invariant holds in every reachable state.
THEOREM Invariance == Spec => []IInv
BY InitIInv, NextKeeps, PTL DEF Spec

\* Processes, records, threads and the history file always have their types.
THEOREM TypeCorrect == Spec => []TypeOK
<1>1. IInv => TypeOK
  BY DEF IInv
<1> QED BY <1>1, Invariance, PTL

\* Every entry in the history, or about to be, gives a run that ended and its exit code.
THEOREM HistoryIsGenuine == Spec => []HistoryGenuine
<1>1. IInv => HistoryGenuine
  BY DEF IInv
<1> QED BY <1>1, Invariance, PTL

\* What RUNS says of a run agrees with the process.
THEOREM OutcomesAreTrue == Spec => []OutcomeTrue
<1>1. IInv => OutcomeTrue
  BY DEF IInv
<1> QED BY <1>1, Invariance, PTL

------------------------------------------------------------------------------
(* The history file: what one read-modify-write alone guarantees, whatever   *)
(* crashed, failed or raced before it.                                       *)

\* t is between its load and its replace, and nobody has been so at the same time.
Alone(t) == th[t].at \in Window /\ t \notin overlapped

\* A thread has a file open only to dump into it.  One that is alone has the temporary
\* file to itself, and its list is what the file holds and its own entry.
WindowTrue(t) ==
  /\ fd[t] # "closed" => th[t].at \in {"dump", "ddump"}
  /\ th[t].at = "unlink" => t \in overlapped
  /\ Alone(t) => \A u \in Threads \ {t} : th[u].at \notin Window
  /\ Alone(t) /\ th[t].at \in {"dump", "ddump"} => fd[t] = "tmp" /\ tmp = Blank
  /\ Alone(t) /\ th[t].at \in {"replace", "dreplace"} => tmp = Json(th[t].list)
  /\ Alone(t) /\ th[t].at \in AppendWindow => th[t].list = Parsed(main) \cup {NewEntry(t)}

WInv ==
  /\ \A t \in Threads : WindowTrue(t)
  /\ overlapped # {} => raced
  /\ TornOnlyIfRaced

LEMMA InitWInv == Init => WInv
BY DEF Init, WInv, WindowTrue, Alone, Window, AppendWindow, DeleteWindow, FileInit, Absent, Blank,
       Torn, Resting, TornOnlyIfRaced

\* A step of a thread that is outside its window before and after.
LEMMA OutsideKeeps ==
  ASSUME TypeOK, WInv, NEW t \in Threads, th[t].at \notin Window, th'[t].at \notin Window,
         \A u \in Threads \ {t} : th'[u] = th[u], UNCHANGED <<fileVars, windowVars>>
  PROVE  WInv'
<1> USE DEF WInv, fileVars, windowVars
<1>1. fd[t] = "closed"
  BY DEF WindowTrue, Window, AppendWindow, DeleteWindow
<1>2. ASSUME NEW u \in Threads PROVE WindowTrue(u)'
  <2>1. CASE u = t
    BY <1>1, <2>1 DEF WindowTrue, Alone, Window, AppendWindow, DeleteWindow
  <2>2. CASE u # t
    <3>1. WindowTrue(u) /\ th'[u] = th[u]
      BY <2>2
    <3>2. (\A v \in Threads \ {u} : th[v].at \notin Window)
             => \A v \in Threads \ {u} : th'[v].at \notin Window
      OBVIOUS
    <3> QED BY <3>1, <3>2 DEF WindowTrue, Alone, Parsed, NewEntry
  <2> QED BY <2>1, <2>2
<1> QED BY <1>2 DEF TornOnlyIfRaced

\* A step of a thread inside its window: no other thread is alone.
LEMMA InsideKeeps ==
  ASSUME WInv, NEW t \in Threads, th[t].at \in Window,
         \A u \in Threads \ {t} : th'[u] = th[u] /\ (fd'[u] # "closed" => fd[u] # "closed"),
         UNCHANGED windowVars \/ CloseWindow(t),
         WindowTrue(t)', TornOnlyIfRaced'
  PROVE  WInv'
<1> USE DEF WInv, windowVars, CloseWindow
<1>1. ASSUME NEW u \in Threads, u # t PROVE WindowTrue(u)'
  <2>1. WindowTrue(u) /\ ~Alone(u) /\ th'[u] = th[u]
    BY <1>1 DEF WindowTrue
  <2>2. ~Alone(u)'
    BY <1>1, <2>1 DEF Alone
  <2> QED BY <1>1, <2>1, <2>2 DEF WindowTrue, Alone
<1> QED BY <1>1

\* What a thread inside its window that goes on keeps.
LEMMA InsideGoto ==
  ASSUME TypeOK, NEW t \in Threads, NEW at \in Ats, Goto(t, at)
  PROVE  /\ th'[t].at = at
         /\ \A u \in Threads \ {t} : th'[u] = th[u]
         /\ at \notin Rest => th'[t].list = th[t].list /\ NewEntry(t)' = NewEntry(t)
BY DEF Goto, TypeOK, ThreadStates, Resting, NewEntry

LEMMA LoadsWindow ==
  ASSUME TypeOK, WInv, NEW t \in Threads, NEW at \in {"open", "dopen"}, NEW list,
         th[t].at \notin Window, th' = [th EXCEPT ![t].at = at, ![t].list = list], OpenWindow(t),
         at = "open" => list = Parsed(main) \cup {NewEntry(t)},
         UNCHANGED fileVars
  PROVE  WInv'
<1> USE DEF WInv, fileVars
<1>1. /\ th'[t].at = at /\ th'[t].list = list /\ NewEntry(t)' = NewEntry(t)
      /\ \A u \in Threads \ {t} : th'[u] = th[u]
  BY DEF TypeOK, ThreadStates, NewEntry
<1>2. fd[t] = "closed"
  BY DEF WindowTrue, Window, AppendWindow, DeleteWindow
<1> DEFINE others == {u \in Threads \ {t} : th[u].at \in Window}
<1>3. /\ overlapped' = IF others = {} THEN overlapped ELSE overlapped \cup others \cup {t}
      /\ raced' = (raced \/ others # {})
  BY DEF OpenWindow
<1>4. WindowTrue(t)'
  <2>1. Alone(t)' => others = {}
    BY <1>3 DEF Alone
  <2> QED BY <1>1, <1>2, <2>1 DEF WindowTrue, Parsed, AppendWindow, DeleteWindow
<1>5. ASSUME NEW u \in Threads, u # t PROVE WindowTrue(u)'
  <2>1. WindowTrue(u) /\ th'[u] = th[u] /\ ~Alone(u)'
    BY <1>1, <1>3, <1>5 DEF Alone
  <2>2. u \in overlapped => u \in overlapped'
    BY <1>3
  <2> QED BY <2>1, <2>2 DEF WindowTrue
<1>6. overlapped' # {} => raced'
  BY <1>3
<1>7. TornOnlyIfRaced'
  BY <1>3 DEF TornOnlyIfRaced
<1> QED BY <1>4, <1>5, <1>6, <1>7

LEMMA OpensWindow ==
  ASSUME IInv, WInv, NEW t \in Threads, Opens(t) PROVE WInv'
<1> USE DEF WInv, Window, AppendWindow, DeleteWindow, Ats, AppendAt, Rest
<1>1. PICK at \in {"dump", "ddump"} : Goto(t, at) /\ (at = "dump" <=> th[t].at = "open")
  BY DEF Opens, At
<1>2. /\ OpenTmp(t) /\ UNCHANGED windowVars /\ th[t].at \in {"open", "dopen"}
  BY DEF Opens, At
<1>3. /\ th'[t].at = at /\ th'[t].list = th[t].list /\ NewEntry(t)' = NewEntry(t)
      /\ \A u \in Threads \ {t} : th'[u] = th[u]
  BY <1>1, InsideGoto DEF IInv
<1>4. /\ main' = main /\ tmp' = Blank /\ fd'[t] = "tmp" /\ \A u \in Threads \ {t} : fd'[u] = fd[u]
  BY <1>2 DEF OpenTmp, IInv, TypeOK, FileOK
<1>5. WindowTrue(t)'
  BY <1>1, <1>2, <1>3, <1>4 DEF WindowTrue, Alone, Parsed, windowVars
<1>6. TornOnlyIfRaced'
  BY <1>2, <1>4 DEF TornOnlyIfRaced, windowVars
<1> QED BY <1>2, <1>3, <1>4, <1>5, <1>6, InsideKeeps

LEMMA DumpsWindow ==
  ASSUME IInv, WInv, NEW t \in Threads, Dumps(t) PROVE WInv'
<1> USE DEF WInv, Window, AppendWindow, DeleteWindow, Ats, AppendAt, Rest
<1>1. PICK at \in {"replace", "dreplace"} : Goto(t, at) /\ (at = "replace" <=> th[t].at = "dump")
  BY DEF Dumps, At
<1>2. /\ DumpAndClose(t, th[t].list) /\ UNCHANGED windowVars /\ th[t].at \in {"dump", "ddump"}
  BY DEF Dumps, At
<1>3. /\ th'[t].at = at /\ th'[t].list = th[t].list /\ NewEntry(t)' = NewEntry(t)
      /\ \A u \in Threads \ {t} : th'[u] = th[u]
  BY <1>1, InsideGoto DEF IInv
<1>4. fd'[t] = "closed" /\ \A u \in Threads \ {t} : fd'[u] = fd[u]
  BY <1>2 DEF DumpAndClose, IInv, TypeOK, FileOK
<1>5. CASE Alone(t)
  <2>1. fd[t] = "tmp" /\ tmp = Blank /\ \A u \in Threads \ {t} : fd[u] = "closed"
    BY <1>2, <1>5 DEF WindowTrue
  <2>2. AfterDump(t, tmp, th[t].list) = {Json(th[t].list)}
    BY <2>1 DEF AfterDump, Blank
  <2>3. tmp' = Json(th[t].list) /\ main' = main
    BY <1>2, <2>1, <2>2 DEF DumpAndClose
  <2>4. WindowTrue(t)'
    BY <1>1, <1>2, <1>3, <1>4, <1>5, <2>3 DEF WindowTrue, Alone, Parsed, windowVars
  <2>5. TornOnlyIfRaced'
    BY <1>2, <2>3 DEF TornOnlyIfRaced, windowVars
  <2> QED BY <1>2, <1>3, <1>4, <2>4, <2>5, InsideKeeps
<1>6. CASE ~Alone(t)
  <2>1. t \in overlapped /\ overlapped' = overlapped /\ raced /\ raced'
    BY <1>2, <1>6 DEF Alone, windowVars
  <2>2. WindowTrue(t)' /\ TornOnlyIfRaced'
    BY <1>3, <1>4, <2>1 DEF WindowTrue, Alone, TornOnlyIfRaced
  <2> QED BY <1>2, <1>3, <1>4, <2>2, InsideKeeps
<1> QED BY <1>5, <1>6

LEMMA ReplacesWindow ==
  ASSUME IInv, WInv, NEW t \in Threads, th[t].at \in {"replace", "dreplace"}, Replace,
         CloseWindow(t), NEW at \in {"flag", "idle"}, Goto(t, at)
  PROVE  WInv' /\ (Alone(t) => main' = Json(th[t].list))
<1> USE DEF WInv, Window, AppendWindow, DeleteWindow, Ats, AppendAt, Rest
<1>1. th'[t].at = at /\ \A u \in Threads \ {t} : th'[u] = th[u]
  BY InsideGoto DEF IInv
<1>2. /\ main' = tmp /\ \A u \in Threads : fd'[u] # "closed" => fd[u] # "closed"
      /\ fd[t] = "closed"
  BY DEF Replace, Renamed, IInv, TypeOK, FileOK, Places, WindowTrue
<1>3. WindowTrue(t)'
  BY <1>1, <1>2 DEF WindowTrue, Alone
<1>4. Alone(t) => tmp = Json(th[t].list)
  BY DEF WindowTrue
<1>5. TornOnlyIfRaced'
  <2>1. CASE Alone(t)
    BY <1>2, <1>4, <2>1 DEF TornOnlyIfRaced, Json, Blank, Torn
  <2>2. CASE ~Alone(t)
    BY <2>2 DEF Alone, TornOnlyIfRaced, CloseWindow
  <2> QED BY <2>1, <2>2
<1> QED BY <1>1, <1>2, <1>3, <1>4, <1>5, InsideKeeps

LEMMA RaisesWindow ==
  ASSUME IInv, WInv, NEW t \in Threads,
         AppendReplaceRaises(t) \/ AppendUnlinks(t) \/ DeleteReplaceRaises(t)
  PROVE  WInv'
<1> USE DEF WInv, Window, AppendWindow, DeleteWindow, Ats, AppendAt, Rest
<1>1. PICK at \in {"unlink", "flag", "idle"} :
        /\ Goto(t, at)
        /\ at = "unlink" => AppendReplaceRaises(t)
  BY DEF AppendReplaceRaises, AppendUnlinks, DeleteReplaceRaises, AfterAppend
<1>2. /\ th[t].at \in {"replace", "unlink", "dreplace"}
      /\ UNCHANGED windowVars \/ CloseWindow(t)
      /\ main' = main /\ \A u \in Threads : fd'[u] # "closed" => fd[u] # "closed"
  BY DEF AppendReplaceRaises, AppendUnlinks, DeleteReplaceRaises, At, fileVars, RemoveTmp
<1>3. th'[t].at = at /\ \A u \in Threads \ {t} : th'[u] = th[u]
  BY <1>1, InsideGoto DEF IInv
<1>4. fd'[t] = "closed"
  BY <1>2 DEF WindowTrue, RemoveTmp, AppendUnlinks
<1>5. AppendReplaceRaises(t) => t \in overlapped /\ overlapped' = overlapped
  <2>1. ASSUME AppendReplaceRaises(t) PROVE ~Alone(t) /\ overlapped' = overlapped
    BY <2>1 DEF AppendReplaceRaises, At, WindowTrue, Json, Absent, windowVars
  <2> QED BY <1>2, <2>1 DEF Alone
<1>6. WindowTrue(t)'
  BY <1>1, <1>3, <1>4, <1>5 DEF WindowTrue, Alone
<1>7. TornOnlyIfRaced'
  BY <1>2 DEF TornOnlyIfRaced, windowVars, CloseWindow
<1> QED BY <1>2, <1>3, <1>6, <1>7, InsideKeeps

\* The steps outside every window, and those that load, open, dump, replace or give up.
WindowStep(t) ==
  \/ AppendLoads(t) \/ Opens(t) \/ Dumps(t) \/ AppendReplaces(t) \/ AppendReplaceRaises(t)
  \/ AppendUnlinks(t) \/ ReportsDelete(t) \/ PurgeHistory(t) \/ DeleteReplaces(t)
  \/ DeleteReplaceRaises(t)

LEMMA WindowStepKeeps ==
  ASSUME IInv, WInv, NEW t \in Threads, WindowStep(t) PROVE WInv'
<1> USE DEF IInv, Window, AppendWindow, DeleteWindow
<1>1. CASE AppendLoads(t)
  BY <1>1, LoadsWindow DEF AppendLoads, At
<1>2. ASSUME NEW gone, DeleteLoads(t, gone) PROVE WInv'
  BY <1>2, LoadsWindow DEF DeleteLoads, At
<1>3. CASE AppendReplaces(t)
  BY <1>3, ReplacesWindow DEF AppendReplaces, At, AfterAppend
<1>4. CASE DeleteReplaces(t)
  BY <1>4, ReplacesWindow DEF DeleteReplaces, At
<1> QED BY <1>1, <1>2, <1>3, <1>4, OpensWindow, DumpsWindow, RaisesWindow
        DEF WindowStep, ReportsDelete, PurgeHistory

\* Every other step of the processes and threads.
OtherStep ==
  \/ \E r \in Runs : ProcessExits(r) \/ RunCliAsync(r) \/ Finalizer(r)
  \/ \E t \in Threads : Gather(t) \/ GatherRaises(t) \/ SetsHistoryAdded(t)
  \/ \E t \in Reqs :
       \/ \E r \in Runs : \/ StatusBegins(t, r) \/ Begins(t, "tpoll", r)
                          \/ Begins(t, "cpoll", r) \/ SyncBegins(t, r)
       \/ StatusPolls(t) \/ StatusSetsDone(t) \/ StatusSetsReturncode(t)
       \/ StatusChecksHistory(t) \/ StreamPolls(t) \/ StreamSetsReturncode(t)
       \/ StreamSetsDone(t) \/ StreamDropped(t) \/ CancelPolls(t) \/ CancelWaits(t)
       \/ CancelSetsDone(t) \/ CancelChecksReturncode(t) \/ CancelSetsReturncode(t)
       \/ SyncReaps(t) \/ SyncRaises(t)

LEMMA NextSteps == Next => (\E t \in Threads : WindowStep(t)) \/ OtherStep \/ Restart
BY ThreadsAssumption DEF Next, AppendStep, Request, WindowStep, OtherStep

\* Such a step moves at most one thread, which is outside its window before and after.
Moved(t) ==
  /\ th[t].at \notin Window /\ th'[t].at \notin Window
  /\ \A u \in Threads \ {t} : th'[u] = th[u]
  /\ UNCHANGED <<fileVars, windowVars>>

LEMMA GotoMoved ==
  ASSUME TypeOK, NEW t \in Threads, th[t].at \notin Window, NEW at, at \notin Window,
         Goto(t, at) \/ (\E r, c : Enter(t, at, r, c)) \/ th' = th,
         UNCHANGED <<fileVars, windowVars>>
  PROVE  Moved(t)
<1>1. th[t] \in ThreadStates /\ \A u \in Threads \ {t} : th'[u] = th[u]
  BY DEF TypeOK, Goto, Enter
<1>2. th'[t].at = at \/ th'[t] = th[t]
  BY <1>1 DEF TypeOK, Goto, Enter, Resting, ThreadStates
<1> QED BY <1>1, <1>2 DEF Moved

LEMMA OtherMoves ==
  ASSUME TypeOK, OtherStep
  PROVE  (\E t \in Threads : Moved(t)) \/ UNCHANGED <<fileVars, th, windowVars>>
<1> USE DEF Window, AppendWindow, DeleteWindow, At
<1>1. ASSUME NEW r \in Runs, RunCliAsync(r) \/ Finalizer(r) PROVE Moved(r)
  <2>1. r \in Threads
    BY ThreadsAssumption
  <2> QED BY <1>1, <2>1, GotoMoved
          DEF RunCliAsync, Finalizer, FinalizerStarts, FinalizerReaps, FinalizerSetsDone,
              FinalizerSetsReturncode, MarkDone, MarkReturncode
<1>2. ASSUME NEW t \in Threads, Gather(t) \/ GatherRaises(t) \/ SetsHistoryAdded(t) PROVE Moved(t)
  BY <1>2, GotoMoved DEF Gather, GatherRaises, GatherStep, SetsHistoryAdded, End
<1>3. ASSUME NEW t \in Threads, NEW r \in Runs,
             \/ StatusBegins(t, r) \/ Begins(t, "tpoll", r)
             \/ Begins(t, "cpoll", r) \/ SyncBegins(t, r)
      PROVE  Moved(t)
  BY <1>3, GotoMoved DEF StatusBegins, Begins, SyncBegins
<1>4. ASSUME NEW t \in Threads, StatusPolls(t) \/ StreamPolls(t) \/ CancelPolls(t) \/ CancelWaits(t)
      PROVE  Moved(t)
  BY <1>4, GotoMoved DEF StatusPolls, StreamPolls, CancelPolls, CancelWaits
<1>5. ASSUME NEW t \in Threads,
             \/ StatusSetsDone(t) \/ StatusSetsReturncode(t) \/ StreamSetsReturncode(t)
             \/ StreamSetsDone(t) \/ CancelSetsDone(t) \/ CancelSetsReturncode(t)
      PROVE  Moved(t)
  BY <1>5, GotoMoved
     DEF StatusSetsDone, StatusSetsReturncode, StreamSetsReturncode, StreamSetsDone,
         CancelSetsDone, CancelSetsReturncode, MarkDone, MarkReturncode
<1>6. ASSUME NEW t \in Threads,
             \/ StatusChecksHistory(t) \/ StreamDropped(t) \/ CancelChecksReturncode(t)
             \/ SyncReaps(t) \/ SyncRaises(t)
      PROVE  Moved(t)
  BY <1>6, GotoMoved DEF StatusChecksHistory, StreamDropped, CancelChecksReturncode, SyncReaps,
          SyncRaises
<1>7. ASSUME NEW r \in Runs, ProcessExits(r) PROVE UNCHANGED <<fileVars, th, windowVars>>
  BY <1>7 DEF ProcessExits
<1> QED BY <1>1, <1>2, <1>3, <1>4, <1>5, <1>6, <1>7, ThreadsAssumption DEF OtherStep

LEMMA StillKeeps ==
  ASSUME WInv, UNCHANGED <<fileVars, th, windowVars>> PROVE WInv'
BY DEF WInv, WindowTrue, Alone, fileVars, windowVars, Parsed, NewEntry, TornOnlyIfRaced

LEMMA RestartWindow ==
  ASSUME TypeOK, WInv, Restart PROVE WInv'
<1>1. \A t \in Threads : th'[t].at = "idle" /\ fd'[t] = "closed"
  BY DEF Restart, Resting, CloseAll
<1>2. overlapped' = {} /\ raced' = raced /\ main' = main
  BY DEF Restart, CloseAll
<1> QED BY <1>1, <1>2
        DEF WInv, WindowTrue, Alone, Window, AppendWindow, DeleteWindow, TornOnlyIfRaced

LEMMA NextKeepsW == IInv /\ WInv /\ [Next]_vars => WInv'
<1> SUFFICES ASSUME IInv, WInv, [Next]_vars PROVE WInv'
  OBVIOUS
<1>1. CASE \E t \in Threads : WindowStep(t)
  BY <1>1, WindowStepKeeps
<1>2. CASE OtherStep
  BY <1>2, OtherMoves, OutsideKeeps, StillKeeps DEF Moved, IInv
<1>3. CASE Restart
  BY <1>3, RestartWindow DEF IInv
<1>4. CASE UNCHANGED vars
  BY <1>4, StillKeeps DEF vars
<1> QED BY <1>1, <1>2, <1>3, <1>4, NextSteps

\* The window invariant holds in every reachable state.
THEOREM WindowInvariance == Spec => []WInv
BY InitWInv, NextKeepsW, Invariance, PTL DEF Spec

\* The history file is only ever unreadable if two read-modify-writes have overlapped.
THEOREM TornOnlyIfRacedHolds == Spec => []TornOnlyIfRaced
<1>1. WInv => TornOnlyIfRaced
  BY DEF WInv
<1> QED BY <1>1, WindowInvariance, PTL

\* An append that none overlaps leaves the file's entries and its own, and nothing else.
THEOREM AppendsUncontended == Spec => UncontendedAppend
<1> DEFINE Adds(t) ==
      /\ At(t, "replace") /\ t \notin overlapped /\ ~At(t, "replace")' /\ restarts' = restarts
      => main' = Json(main.val \cup {NewEntry(t)})
<1>1. ASSUME IInv, WInv, [Next]_vars, NEW t \in Threads,
             At(t, "replace"), t \notin overlapped, ~At(t, "replace")', restarts' = restarts
      PROVE  main' = Json(main.val \cup {NewEntry(t)})
  <2>1. Alone(t) /\ th[t].at \in Window /\ th'[t] # th[t]
    BY <1>1 DEF Alone, Window, AppendWindow, At
  <2>2. tmp = Json(th[t].list) /\ th[t].list = Parsed(main) \cup {NewEntry(t)}
    BY <1>1, <2>1 DEF WInv, WindowTrue, At, AppendWindow
  <2>3. Parsed(main) = main.val
    <3>1. main \in {Absent, Blank, Torn} \/ main.st = "json"
      BY <1>1 DEF IInv, TypeOK, FileOK
    <3> QED BY <3>1 DEF Parsed, Absent, Blank, Torn
  <2>4. CASE OtherStep
    BY <1>1, <2>1, <2>4, OtherMoves DEF Moved, IInv
  <2>5. ASSUME NEW u \in Threads, WindowStep(u) PROVE main' = tmp
    <3>1. CASE u = t
      BY <1>1, <2>2, <2>5, <3>1
         DEF WindowStep, AppendLoads, Opens, Dumps, AppendReplaces, AppendReplaceRaises,
             AppendUnlinks, ReportsDelete, PurgeHistory, DeleteLoads, DeleteReplaces,
             DeleteReplaceRaises, At, Replace, Json, Absent
    <3>2. CASE u # t
      <4>1. \/ \E at : Goto(u, at)
            \/ \E at, list : th' = [th EXCEPT ![u].at = at, ![u].list = list]
        BY <2>5
           DEF WindowStep, AppendLoads, Opens, Dumps, AppendReplaces, AppendReplaceRaises,
               AppendUnlinks, ReportsDelete, PurgeHistory, DeleteLoads, DeleteReplaces,
               DeleteReplaceRaises
      <4>2. th'[t] = th[t]
        BY <1>1, <3>2, <4>1 DEF Goto, IInv, TypeOK
      <4> QED BY <2>1, <4>2
    <3> QED BY <3>1, <3>2
  <2>6. CASE Restart
    BY <1>1, <2>6, MaxRestartsAssumption DEF Restart, IInv, TypeOK
  <2>7. CASE UNCHANGED vars
    BY <2>1, <2>7 DEF vars
  <2> QED BY <1>1, <2>2, <2>3, <2>4, <2>5, <2>6, <2>7, NextSteps
<1>2. IInv /\ WInv /\ [Next]_vars => [\A t \in Threads : Adds(t)]_vars
  BY <1>1
<1> QED BY <1>2, Invariance, WindowInvariance, PTL DEF Spec, UncontendedAppend
=============================================================================
