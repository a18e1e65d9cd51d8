----------------------------- MODULE RunArtifacts -----------------------------
(***************************************************************************)
(* What the Web backend makes of a run that has ended (run_cli, run_status, *)
(* the finalizer of run_cli_async): it finds the report and the summary in  *)
(* the log or among those of all runs, rewrites the scenario file of the    *)
(* run, and appends an entry to the history, which users delete with its    *)
(* files.  Who appends when, and how the history is written, is module      *)
(* RunRegistry's.                                                           *)
(***************************************************************************)
EXTENDS CliRun

CONSTANT Active         \* files saved while the first of their scenarios was shown

VARIABLES work,         \* how far what follows the end of each run has come, and what it found
          cached,       \* meta['summary_path'] of each run
          entries,      \* the history
          meddled       \* history: runs whose file was rewritten or removed under them

artifactVars == <<cliVars, work, cached, entries, meddled>>

None == "none"
Idle == [at |-> "idle", report |-> None, summary |-> None]

ArtifactsInit ==
  /\ CliInit
  /\ work = [r \in Runs |-> Idle]
  /\ cached = [r \in Runs |-> None]
  /\ entries = {} /\ meddled = {}

KeepsCli == UNCHANGED <<conf, run, shared, foreign, reports, summaries>>
KeepsOwn == UNCHANGED <<work, cached, entries, meddled>>

------------------------------------------------------------------------------
\* run_cli_async refuses a file that is not there; operators give the CLI what they like.
RunStarts(r) ==
  /\ conf[r].web => xml[conf[r].file] # "gone"
  /\ Starts(r)
  /\ KeepsOwn

Cli(r) == CliStep(r) /\ KeepsOwn

Latest(files) == IF files = <<>> THEN None ELSE files[Len(files)]
In(files, r) == \E i \in DOMAIN files : files[i] = r

FoundReport_Latest(r) == Latest(reports)

\* The report the log names, or the newest of any run;
FoundReport(r) == IF "report" \in run[r].said THEN r ELSE Latest(reports)

\* the summary the log names, or the report's own, or the newest when there is no report.
FoundSummary(r, report) ==
  IF "summary" \in run[r].said THEN r
  ELSE IF report = None THEN Latest(summaries)
  ELSE IF In(summaries, report) THEN report ELSE None

Remembers(r, summary) == cached' = [cached EXCEPT ![r] = IF summary = None THEN @ ELSE summary]
Turns(r, at) == work' = [work EXCEPT ![r].at = at]
Entry(r) == [run |-> r, report |-> work[r].report, summary |-> work[r].summary]

Finds(r) ==
  /\ At(r, "ended") /\ conf[r].web /\ work[r] = Idle
  /\ LET report == FoundReport(r)
         summary == FoundSummary(r, report)
     IN  /\ work' = [work EXCEPT ![r] = [at |-> "xml", report |-> report, summary |-> summary]]
         /\ Remembers(r, summary)
  /\ KeepsCli /\ UNCHANGED <<xml, events, entries, meddled>>

\* Whoever still runs with file f may read it once more.
Meddles(f) == meddled' = meddled \cup {r \in Runs : conf[r].file = f /\ ~At(r, "ended")}

\* The first scenario is written to a file of its name in the directory of the run's: to the
\* run's own file, all its scenarios gone, when that has this name.
Truncates(r) ==
  LET f == conf[r].file IN
    /\ work[r].at = "xml"
    /\ IF Readable(r) /\ f \in Active
         THEN xml' = [xml EXCEPT ![f] = "torn"] /\ Turns(r, "rewrite") /\ Meddles(f)
         ELSE Turns(r, "append") /\ UNCHANGED <<xml, meddled>>
    /\ KeepsCli /\ UNCHANGED <<events, cached, entries>>

Rewrites(r) ==
  /\ work[r].at = "rewrite"
  /\ xml' = [xml EXCEPT ![conf[r].file] = IF @ = "torn" THEN "first" ELSE @]
  /\ Turns(r, "append")
  /\ KeepsCli /\ UNCHANGED <<events, cached, entries, meddled>>

Appends(r) ==
  /\ work[r].at = "append"
  /\ entries' = entries \cup {Entry(r)}
  /\ work' = [work EXCEPT ![r] = [Idle EXCEPT !.at = "done"]]
  /\ KeepsCli /\ UNCHANGED <<xml, events, cached, meddled>>

\* What run_status answers: the report the log names; a summary as above, but what was
\* found before comes before the newest.  While a run goes on this is another's.
Answer(r) ==
  LET report == IF "report" \in run[r].said THEN r ELSE None
      found == FoundSummary(r, report)
  IN  [report |-> report,
       summary |-> IF "summary" \notin run[r].said /\ cached[r] # None
                      /\ (report = None \/ found = None) THEN cached[r] ELSE found]

RunStatus(r) ==
  /\ Event
  /\ ~At(r, "idle") /\ conf[r].web
  /\ Remembers(r, Answer(r).summary)
  /\ KeepsCli /\ UNCHANGED <<work, xml, entries, meddled>>

\* reports_delete removes a run's entries, and the files they name but for the reports.
ReportsDelete(r) ==
  LET f == conf[r].file IN
    /\ Event
    /\ \E e \in entries : e.run = r
    /\ entries' = {e \in entries : e.run # r}
    /\ xml' = [xml EXCEPT ![f] = "gone"]
    /\ Meddles(f)
    /\ KeepsCli /\ UNCHANGED <<work, cached>>

ArtifactsNext ==
  \/ \E r \in Runs :
       \/ RunStarts(r) \/ Cli(r) \/ RunStatus(r) \/ ReportsDelete(r)
       \/ Finds(r) \/ Truncates(r) \/ Rewrites(r) \/ Appends(r)
  \/ Previews /\ KeepsOwn

------------------------------------------------------------------------------
\* Reports and summaries are told apart, whatever runs at the same time, is killed, or fails
\* half-way: an entry has its run's own report when the log names one, and its own summary
\* when there is one and no report either of another's is taken for its own; what it shows
\* of two runs is the summary of its own, of which the log names no report.
EntriesPaired ==
  \A e \in entries :
    /\ "report" \in run[e.run].said => e.report = e.run
    /\ In(summaries, e.run) /\ e.report = e.run => e.summary = e.run
    /\ e.summary \notin {None, e.report} /\ e.report # None =>
         e.summary = e.run /\ "report" \notin run[e.run].said

\* What a status request remembers of another run while a run goes on never gets into the
\* answer once the log names the run's report, if it made a summary.
AnswersOwn ==
  \A r \in Runs :
    "report" \in run[r].said /\ In(summaries, r) => Answer(r) = [report |-> r, summary |-> r]

\* A scenario file is only torn while it is rewritten, and a run only finds it torn or gone
\* when another run of the file was finalized or deleted meanwhile.
FilesWhole ==
  /\ \A f \in Files : xml[f] = "torn" =>
       \E r \in Runs : conf[r].file = f /\ work[r].at = "rewrite"
  /\ \A r \in Runs : run[r].at \in {"plan", "traffic"} /\ xml[conf[r].file] = "gone" /\ conf[r].web =>
       r \in meddled

ArtifactsOwn == ListsOwn /\ EntriesPaired /\ AnswersOwn /\ FilesWhole
==============================================================================
