------------------------------ MODULE LogStream ------------------------------
(***************************************************************************)
(* The log of one run: the CLI writes it through a file descriptor with an  *)
(* offset of its own, cancel_run appends a marker at its end, and streams   *)
(* send its text to browsers, reading first and asking for the process      *)
(* afterwards.  The record of the run is module RunRegistry's: here only    *)
(* its done flag is kept.                                                   *)
(***************************************************************************)
EXTENDS Integers, Sequences, FiniteSets

CONSTANTS Threads,      \* browsers that stream the log
          MaxLines,     \* bound: lines the CLI writes
          MaxCancels    \* bound: cancellations

VARIABLES log,          \* the file: numbers of the CLI's lines, or the marker's halves
          cli,          \* the CLI: running, told to stop, or ended
          lines,        \* how many lines it has written
          offset,       \* where it writes the next one
          done,         \* the done flag of the run's record
          cancels,      \* how many cancellations there have been ...
          cancel,       \* ... and where the one under way is
          streams,      \* where each stream is, and up to where it has read
          sent,         \* the lines each stream has sent
          late,         \* history: the lines there were at its last read
          buried        \* history: lines written over a marker

streamVars == <<log, cli, lines, offset, done, cancels, cancel, streams, sent, late, buried>>

Marker == 0             \* "== Run cancelled by user =="

StreamInit ==
  /\ log = <<>> /\ cli = "running" /\ lines = 0 /\ offset = 0
  /\ done = FALSE /\ cancels = 0 /\ cancel = "no"
  /\ streams = [s \in Threads |-> [at |-> "new", pos |-> 0]]
  /\ sent = [s \in Threads |-> {}]
  /\ late = [s \in Threads |-> 0]
  /\ buried = {}

------------------------------------------------------------------------------
\* The file was opened for writing, not for appending: the CLI writes at its own offset.

WritesLine ==
  /\ cli # "ended" /\ lines < MaxLines
  /\ lines' = lines + 1
  /\ offset' = offset + 1
  /\ IF offset < Len(log)
       THEN /\ log' = [log EXCEPT ![offset + 1] = lines + 1]
            /\ buried' = buried \cup {lines + 1}
       ELSE /\ log' = Append(log, lines + 1)
            /\ buried' = buried
  /\ UNCHANGED <<cli, done, cancels, cancel, streams, sent, late>>

CliEnds ==
  /\ cli # "ended"
  /\ cli' = "ended"
  /\ UNCHANGED <<log, lines, offset, done, cancels, cancel, streams, sent, late, buried>>

\* The run's finalizer, or a request for its status, has found it ended.
OthersSetDone ==
  /\ cli = "ended" /\ ~done
  /\ done' = TRUE
  /\ UNCHANGED <<log, cli, lines, offset, cancels, cancel, streams, sent, late, buried>>

\* cancel_run: polls, appends the marker (two lines long here), tells the CLI to stop, ...
Cancels ==
  /\ cancel = "no" /\ cancels < MaxCancels
  /\ cancels' = cancels + 1
  /\ cancel' = IF cli = "ended" THEN "set" ELSE "mark"
  /\ UNCHANGED <<log, cli, lines, offset, done, streams, sent, late, buried>>

Marks ==
  /\ cancel = "mark"
  /\ log' \in {log, log \o <<Marker, Marker>>}
  /\ cancel' = "terminate"
  /\ UNCHANGED <<cli, lines, offset, done, cancels, streams, sent, late, buried>>

Terminates ==
  /\ cancel = "terminate"
  /\ cli' = IF cli = "running" THEN "told" ELSE cli
  /\ cancel' = "wait"
  /\ UNCHANGED <<log, lines, offset, done, cancels, streams, sent, late, buried>>

CancelWaits_Forever ==
  /\ cancel = "wait" /\ cli = "ended"
  /\ cancel' = "set"
  /\ UNCHANGED <<log, cli, lines, offset, done, cancels, streams, sent, late, buried>>


\* ... waits five seconds for it to end, or kills it (a killed process writes no more), ...
CancelWaits ==
  /\ cancel = "wait"
  /\ cli' = "ended"
  /\ cancel' = "set"
  /\ UNCHANGED <<log, lines, offset, done, cancels, streams, sent, late, buried>>

\* ... and sets the done flag.
CancelSetsDone ==
  /\ cancel = "set"
  /\ done' = TRUE
  /\ cancel' = "no"
  /\ UNCHANGED <<log, cli, lines, offset, cancels, streams, sent, late, buried>>

------------------------------------------------------------------------------
\* A stream sends what there is (the backlog at first), and remembers how far it has read.
Reads(s) ==
  /\ streams[s].at \in {"new", "backlog", "tail"}
  /\ sent' = [sent EXCEPT ![s] = @ \cup {log[n] : n \in (streams[s].pos + 1)..Len(log)}]
  /\ late' = [late EXCEPT ![s] = lines]
  /\ streams' = [streams EXCEPT ![s] =
       [at |-> IF @.at = "new" THEN "backlog" ELSE "poll", pos |-> Len(log)]]
  /\ UNCHANGED <<log, cli, lines, offset, done, cancels, cancel, buried>>

Polls_ToEnd(s) ==
  /\ streams[s].at = "poll"
  /\ done' = (done \/ cli = "ended")
  /\ streams' = [streams EXCEPT ![s] = [at |-> IF done' THEN "end" ELSE "tail", pos |-> Len(log)]]
  /\ UNCHANGED <<log, cli, lines, offset, cancels, cancel, sent, late, buried>>

\* Then it polls the process, and ends when that has ended or the flag is set.
Polls(s) ==
  /\ streams[s].at = "poll"
  /\ done' = (done \/ cli = "ended")
  /\ streams' = [streams EXCEPT ![s].at = IF done' THEN "end" ELSE "tail"]
  /\ UNCHANGED <<log, cli, lines, offset, cancels, cancel, sent, late, buried>>

StreamNext ==
  \/ WritesLine \/ CliEnds \/ OthersSetDone
  \/ Cancels \/ Marks \/ Terminates \/ CancelWaits \/ CancelSetsDone
  \/ \E s \in Threads : Reads(s) \/ Polls(s)

StreamSpec == StreamInit /\ [][StreamNext]_streamVars

\* The server goes on with the requests it serves; the CLI may never end by itself.
StreamFairness ==
  /\ WF_streamVars(Marks \/ Terminates \/ CancelWaits \/ CancelSetsDone)
  /\ \A s \in Threads : WF_streamVars(Reads(s) \/ Polls(s))

------------------------------------------------------------------------------
\* A stream that has ended has sent every line of the CLI but those written after its last
\* read or over a marker: nothing is lost between two reads, or between backlog and tail.
LinesSent ==
  \A s \in Threads :
    streams[s].at = "end" => (1..late[s]) \ buried \subseteq sent[s]

\* Cancelling ends every stream, even when the CLI would never end.
CancelEndsStreams == \A s \in Threads : (cancels > 0) ~> (streams[s].at = "end")
==============================================================================
