-------------------------------- MODULE CliRun --------------------------------
(***************************************************************************)
(* Runs of the topology CLI (core_topo_gen/cli.py main, utils/report.py):   *)
(* planning, the dry run's answer, the build, segmentation, traffic, the    *)
(* report with its JSON summary, the start of the session.  Some steps end  *)
(* the run when they fail, others are swallowed.  All runs and previews     *)
(* share the runtime directories /tmp/traffic and /tmp/segmentation, and a  *)
(* report lists the summaries it finds there.                              *)
(***************************************************************************)
EXTENDS Naturals, Sequences, FiniteSets

CONSTANTS Runs, Files,
          Confs,        \* what the runs may ask for, each its own
          MaxEvents     \* bound: what users do besides starting runs

VARIABLES conf,         \* what each run asks for
          run,          \* how far each has come
          xml,          \* the scenario files: "all", "first" (of the scenarios), "torn", "gone"
          shared,       \* whose rules or flows the summary in each directory lists
          foreign,      \* history: directories others have changed since a run last did
          reports, summaries,   \* the Markdown and JSON files, the oldest first
          events        \* bound: how many are left

cliVars == <<conf, run, xml, shared, foreign, reports, summaries, events>>

Dirs == {"traffic", "segments"}
Preview == "preview"

\* web: it is started by the Web backend, not on the command line.  library: its Python has
\* CORE's gRPC library.  routing: counts without a density, or no rows at all; segmentation
\* rows may have no density.
AllConfs ==
  [file : Files, web : BOOLEAN, library : BOOLEAN, dry : {"no", "summary", "full"},
   routing : {"none", "counts", "density"}, segments : {"none", "off", "on"}, traffic : BOOLEAN]

\* made: directories it has filled.  own: those nobody had changed since, and lists: what each
\* listed, when its report was made.  said: the files its log names.
NewRun == [at |-> "idle", made |-> {}, own |-> {}, lists |-> [d \in Dirs |-> {}], said |-> {}]

CliInit ==
  /\ conf \in Confs \cap [Runs -> AllConfs]
  /\ run = [r \in Runs |-> NewRun]
  /\ xml = [f \in Files |-> "all"]
  /\ shared = [d \in Dirs |-> {}]
  /\ foreign = [r \in Runs |-> {}]
  /\ reports = <<>> /\ summaries = <<>>
  /\ events = MaxEvents

At(r, at) == run[r].at = at
Goes(r, at) == run' = [run EXCEPT ![r].at = at]
Ends(r) == run' = [run EXCEPT ![r] = [NewRun EXCEPT !.at = "ended", !.said = run[r].said]]
Readable(r) == xml[conf[r].file] \in {"all", "first"}

\* The directories D come to list what whose did; what others had put there is lost to them.
Fills(who, D, whose) ==
  /\ shared' = [d \in Dirs |-> IF d \in D THEN whose ELSE shared[d]]
  /\ foreign' = [r \in Runs |-> IF r # who THEN foreign[r] \cup D
                                ELSE IF whose \subseteq {r} THEN foreign[r] \ D ELSE foreign[r]]

KeepsDirs == UNCHANGED <<shared, foreign>>
KeepsFiles == UNCHANGED <<reports, summaries>>
KeepsWorld == UNCHANGED <<conf, xml, events>>
Event == events > 0 /\ events' = events - 1

------------------------------------------------------------------------------
(* Outside: somebody starts it, it is killed, or the Web shows a preview.    *)

Starts(r) ==
  /\ At(r, "idle")
  /\ Goes(r, "plan")
  /\ KeepsDirs /\ KeepsFiles /\ KeepsWorld

IsKilled(r) ==
  /\ Event
  /\ run[r].at \notin {"idle", "ended"}
  /\ Ends(r)
  /\ UNCHANGED <<conf, xml>> /\ KeepsDirs /\ KeepsFiles

Previews ==
  /\ Event
  /\ \E D \in SUBSET Dirs \ {{}} : Fills(Preview, D, {Preview})
  /\ UNCHANGED <<conf, run, xml>> /\ KeepsFiles

------------------------------------------------------------------------------
(* main.                                                                     *)

\* A preview plan that cannot be loaded, an XML that cannot be parsed and a plan that
\* cannot be computed end the run.
Plans(r) ==
  /\ At(r, "plan")
  /\ \/ Readable(r) /\ Goes(r, IF conf[r].dry = "no" THEN "build" ELSE "answer")
     \/ Ends(r)
  /\ KeepsDirs /\ KeepsFiles /\ KeepsWorld

\* The answer of a dry run has the plan's items in it, which JSON cannot hold; the exception
\* is swallowed, and the run goes on.
Printable(c) == c.routing = "none" /\ c.segments = "none"

Answers(r) ==
  /\ At(r, "answer")
  /\ IF Printable(conf[r]) THEN Ends(r) ELSE Goes(r, "build")
  /\ \/ KeepsDirs
     \/ conf[r].dry = "full" /\ \E D \in SUBSET Dirs \ {{}} : Fills(r, D, {Preview})
  /\ KeepsFiles /\ KeepsWorld

\* Without the library there is a report all the same, which lists nothing.
Builds(r) ==
  /\ At(r, "build")
  /\ \/ conf[r].library /\ Goes(r, "segment")
     \/ conf[r].library /\ Ends(r)
     \/ ~conf[r].library /\ Goes(r, "summary")
  /\ KeepsDirs /\ KeepsFiles /\ KeepsWorld

\* The directory is emptied before anything is written to it,
CleansSegments(r) ==
  /\ At(r, "segment")
  /\ IF conf[r].segments = "on" THEN Goes(r, "rules") /\ Fills(r, {"segments"}, {})
                                 ELSE Goes(r, "traffic") /\ KeepsDirs
  /\ KeepsFiles /\ KeepsWorld

\* and the summary is written last, unless there is nothing to write or an exception.
Writes(r, d, to) ==
  /\ \/ /\ run' = [run EXCEPT ![r].at = to, ![r].made = @ \cup {d}]
        /\ Fills(r, {d}, {r})
     \/ Goes(r, to) /\ KeepsDirs
  /\ KeepsFiles /\ KeepsWorld

WritesRules(r) == At(r, "rules") /\ Writes(r, "segments", "traffic")

\* The XML is parsed once more for the traffic.
CleansTraffic(r) ==
  /\ At(r, "traffic")
  /\ IF ~Readable(r) THEN Ends(r) /\ KeepsDirs
     ELSE IF conf[r].traffic THEN Goes(r, "flows") /\ Fills(r, {"traffic"}, {})
     ELSE Goes(r, "report") /\ KeepsDirs
  /\ KeepsFiles /\ KeepsWorld

\* Nothing is allowed for flows that were written at the second attempt.
WritesFlows(r) == At(r, "flows") /\ \E to \in {"allow", "report"} : Writes(r, "traffic", to)

\* Rules that let the flows through go into whatever summary of rules is there.
Allows(r) ==
  /\ At(r, "allow")
  /\ Goes(r, "report")
  /\ \/ KeepsDirs
     \/ shared["traffic"] # {} /\ Fills(r, {"segments"}, shared["segments"] \cup {r})
  /\ KeepsFiles /\ KeepsWorld

\* With counts and no density the report asks for the switches of a star there is none of.
Lists(r) ==
  /\ At(r, "report")
  /\ \/ /\ conf[r].routing # "counts"
        /\ run' = [run EXCEPT ![r].at = "summary", ![r].lists = shared,
                              ![r].own = run[r].made \ foreign[r]]
     \/ Goes(r, "start")
  /\ KeepsDirs /\ KeepsFiles /\ KeepsWorld

\* The JSON file comes first; if it cannot be written whole the log does not name it.
WritesSummary(r) ==
  /\ At(r, "summary")
  /\ \E said \in {{}, {"summary"}} :
       /\ run' = [run EXCEPT ![r].at = "markdown", ![r].said = said]
       /\ summaries' \in {Append(summaries, r)} \cup (IF said = {} THEN {summaries} ELSE {})
  /\ UNCHANGED reports /\ KeepsDirs /\ KeepsWorld

WritesReport(r) ==
  /\ At(r, "markdown")
  /\ \/ /\ reports' = Append(reports, r)
        /\ run' = [run EXCEPT ![r].at = "start", ![r].said = @ \cup {"report"}]
     \/ /\ reports' \in {reports, Append(reports, r)}      \* an exception
        /\ Goes(r, "start")
  /\ UNCHANGED summaries /\ KeepsDirs /\ KeepsWorld

\* A session that does not start ends the run as well, with another exit code.
StartsSession(r) ==
  /\ At(r, "start")
  /\ Ends(r)
  /\ KeepsDirs /\ KeepsFiles /\ KeepsWorld

CliStep(r) ==
  \/ IsKilled(r) \/ Plans(r) \/ Answers(r) \/ Builds(r) \/ CleansSegments(r) \/ WritesRules(r)
  \/ CleansTraffic(r) \/ WritesFlows(r) \/ Allows(r) \/ Lists(r) \/ WritesSummary(r)
  \/ WritesReport(r) \/ StartsSession(r)

------------------------------------------------------------------------------
\* A report lists what its own run made: for each directory the run has filled, its summary
\* and nothing else, unless another run or a preview has changed the directory since.
ListsOwn == \A r \in Runs : \A d \in run[r].own : run[r].lists[d] = {r}

\* "Parse and plan only; output plan summary JSON and exit 0": a dry run never has CORE
\* build anything, nor makes a report.
DryRunStops ==
  \A r \in Runs : conf[r].dry # "no" => run[r].at \in {"idle", "plan", "answer", "ended"}
==============================================================================
