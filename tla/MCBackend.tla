------------------------------ MODULE MCBackend ------------------------------
(* What the Web backend does besides keeping accounts, plans and the records of   *)
(* runs, one part at a time: CORE's directories, the CORE page, the data sources,  *)
(* the XML of sessions, the log of a run, and what a run leaves behind.            *)
EXTENDS JsonStore, CoreDirs, Sequences, TLC

CONSTANTS Files, MaxEvents, MaxLines, MaxCancels
CONSTANTS ScenarioFiles, ActiveFiles, Confs    \* of RunArtifacts
CONSTANTS t1, t2, f1, f2, c1, b1

ASSUME EventsAssumption == MaxEvents \in Nat \ {0}

TwoThreads == {t1, t2}
TwoFiles == {f1, f2}
OneFile == {f1}
OneCleaner == {c1}
OneBuilder == {b1}

\* Two runs of one file: a run of the Web and one that allows its traffic by the other's
\* rules; dry runs of either kind next to a run; two of the Web, one of them without a
\* report; one where CORE's library is missing.
Conf(web, library, dry, routing, segments, traffic) ==
  [file |-> f1, web |-> web, library |-> library, dry |-> dry,
   routing |-> routing, segments |-> segments, traffic |-> traffic]
Web(routing, segments, traffic) == Conf(TRUE, TRUE, "no", routing, segments, traffic)
Operator(dry, routing, segments, traffic) == Conf(FALSE, TRUE, dry, routing, segments, traffic)
Both(a, b) == [t \in {t1, t2} |-> IF t = t1 THEN a ELSE b]
FiveConfs ==
  {Both(Web("density", "on", FALSE), Operator("no", "none", "none", TRUE)),
   Both(Web("none", "on", TRUE), Operator("full", "none", "none", FALSE)),
   Both(Operator("no", "density", "none", TRUE), Operator("summary", "none", "none", FALSE)),
   Both(Web("counts", "none", FALSE), Web("none", "on", FALSE)),
   Both(Conf(TRUE, FALSE, "no", "counts", "none", FALSE), Operator("summary", "none", "off", FALSE))}

VARIABLES part, work, events,
          xmls, opened, given, parted, muddled,
          csv, used, tangled,
          who, saved, results,
          conf, run, xml, shared, foreign, reports, summaries, cached, entries, meddled,
          log, cli, lines, offset, done, cancels, cancel, streams, sent, late, buried

Mapping == INSTANCE CoreMapping WITH MaxEvents <- MaxEvents - 1, MaxClosing <- MaxClosing - 1
Sources == INSTANCE DataSources WITH Sources <- Files
Xml == INSTANCE SessionXml WITH MaxEvents <- MaxEvents - 1, MaxClosing <- MaxClosing - 1
Artifacts == INSTANCE RunArtifacts
  WITH Runs <- Threads, Files <- ScenarioFiles, Active <- ActiveFiles, MaxEvents <- MaxEvents - 3
Stream == INSTANCE LogStream

requestVars == <<work, events>>
dirsVars == <<cleanVars, build, tried, robbed>>
mappingVars == <<xmls, opened, given, parted, muddled>>
sourcesVars == <<csv, used, tangled>>
xmlVars == <<who, saved, results>>
streamVars ==
  <<log, cli, lines, offset, done, cancels, cancel, streams, sent, late, buried>>
artifactVars ==
  <<conf, run, xml, shared, foreign, reports, summaries, cached, entries, meddled>>
allVars == <<part, requestVars, storeVars, daemonVars, dirsVars, mappingVars, sourcesVars, xmlVars,
             streamVars, artifactVars>>

\* In the other parts nothing is said of who robs whom.
NoDirs ==
  /\ job = [t \in Cleaners |-> Idle] /\ build = [b \in Builders |-> NoBuild]
  /\ tried = [b \in Builders |-> {}] /\ since = [t \in Cleaners |-> {}]
  /\ excused = [t \in Cleaners |-> {}] /\ stale = [t \in Cleaners |-> {}]
  /\ robbed = Ids
NoRequests == work = <<>> /\ events = 0
NoMapping == xmls = {} /\ opened = <<>> /\ given = {} /\ parted = {} /\ muddled = FALSE
NoSources == csv = {} /\ used = {} /\ tangled = {}
NoXml == who = <<>> /\ saved = <<>> /\ results = {}
NoArtifacts ==
  /\ conf = <<>> /\ run = <<>> /\ xml = <<>> /\ shared = <<>> /\ foreign = <<>>
  /\ reports = <<>> /\ summaries = <<>> /\ cached = <<>> /\ entries = {} /\ meddled = {}
NoStream ==
  /\ log = <<>> /\ cli = "none" /\ lines = 0 /\ offset = 0 /\ done = FALSE /\ cancels = 0
  /\ cancel = "no" /\ sent = <<>> /\ late = <<>> /\ buried = {}
  /\ streams = [s \in Threads |-> [at |-> "none", pos |-> 0]]

BackendInit ==
  \/ /\ part = "dirs" /\ Init
     /\ StoreInit /\ NoRequests /\ NoMapping /\ NoSources /\ NoXml /\ NoStream /\ NoArtifacts
  \/ /\ part = "mapping" /\ Mapping!MappingInit
     /\ NoDirs /\ NoSources /\ NoXml /\ NoStream /\ NoArtifacts
  \/ /\ part = "sources" /\ Sources!SourcesInit /\ DaemonInit
     /\ NoDirs /\ NoMapping /\ NoXml /\ NoStream /\ NoArtifacts
  \/ /\ part = "xml" /\ Xml!XmlInit /\ StoreInit
     /\ NoDirs /\ NoMapping /\ NoSources /\ NoStream /\ NoArtifacts
  \/ /\ part = "stream" /\ Stream!StreamInit /\ StoreInit /\ DaemonInit /\ NoRequests
     /\ NoDirs /\ NoMapping /\ NoSources /\ NoXml /\ NoArtifacts
  \/ /\ part = "artifacts" /\ Artifacts!ArtifactsInit /\ StoreInit /\ DaemonInit
     /\ NoDirs /\ NoMapping /\ NoSources /\ NoXml /\ NoStream

BackendNext ==
  /\ part' = part
  /\ \/ /\ part = "dirs" /\ Next
        /\ UNCHANGED <<requestVars, storeVars, mappingVars, sourcesVars, xmlVars, streamVars,
                       artifactVars>>
     \/ /\ part = "mapping" /\ Mapping!MappingNext
        /\ UNCHANGED <<dirsVars, sourcesVars, xmlVars, streamVars, artifactVars>>
     \/ /\ part = "sources" /\ Sources!SourcesNext
        /\ UNCHANGED <<daemonVars, dirsVars, mappingVars, xmlVars, streamVars, artifactVars>>
     \/ /\ part = "xml" /\ Xml!XmlNext
        /\ UNCHANGED <<storeVars, dirsVars, mappingVars, sourcesVars, streamVars, artifactVars>>
     \/ /\ part = "stream" /\ Stream!StreamNext
        /\ UNCHANGED <<requestVars, storeVars, daemonVars, dirsVars, mappingVars, sourcesVars,
                       xmlVars, artifactVars>>
     \/ /\ part = "artifacts" /\ Artifacts!ArtifactsNext
        /\ UNCHANGED <<storeVars, daemonVars, dirsVars, mappingVars, sourcesVars, xmlVars,
                       streamVars>>

BackendSpec == BackendInit /\ [][BackendNext]_allVars
BackendFairSpec == BackendSpec /\ Stream!StreamFairness

EntriesGenuine == part = "mapping" => Mapping!EntriesGenuine
RowsCurrent == part = "mapping" => Mapping!RowsCurrent
SourcesHaveFiles == part = "sources" => Sources!SourcesHaveFiles
XmlOfOwnSession == part = "xml" => Xml!XmlOfOwnSession
LinesSent == part = "stream" => Stream!LinesSent
CancelEndsStreams == Stream!CancelEndsStreams
ArtifactsOwn == part = "artifacts" => Artifacts!ArtifactsOwn
DryRunStops == part = "artifacts" => Artifacts!DryRunStops
==============================================================================
