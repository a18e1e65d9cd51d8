# AgentCyTE in TLA+

AgentCyTE turns a scenario file (XML, written by a Web editor) into a network
topology of the CORE emulator. A Flask backend (`webapp/app_backend.py`) holds
scenarios, accounts and runs, computes previews, and starts the topology CLI
(`core_topo_gen/cli.py`) as a child process; the CLI plans counts, groups and
addresses, builds the topology through CORE's gRPC interface, adds services,
segmentation and traffic, and writes a report.

This directory holds specifications of that program, TLC configurations that
check them on small instances, and proofs that TLAPS checks for every instance.

    tlc -workers 2 -config RunLifecycle.cfg MCRunRegistry.tla
    tlc -workers 2 -config Backend.cfg MCBackend.tla
    tlapm RunRegistryProofs.tla

## 1. Inventory

Paths are relative to the repository. "State" is what a component keeps between
two operations.

| Component | State | Operations | Interacts with | Hard behaviour | Correct when |
|---|---|---|---|---|---|
| Runs of the CLI (`app_backend.py` 1379-1409, 3750-3915, 4697-5120, 5867-5950, 6698-6764) | `RUNS` (memory), `outputs/run_history.json`, the child processes, the pool of four finalizers | start (synchronous, asynchronous), finalize, status, stream, cancel, delete reports, purge a scenario | CLI process, CORE sessions (artifacts), history pages | every request is a thread, a finalizer per run; unlocked read-modify-write of one file through one temporary file; exit codes reaped by whoever polls first; restarts | a record and the history only say what happened; nothing is lost where nothing races; each finalizer ends |
| Plan cache (`planning/plan_cache.py`, `app_backend.py` 3922-4038, `planning/orchestrator.py`) | `outputs/plan_cache.json`, a lock | hash, look up, compute, save | scenario file, planners | concurrent previews, a dump that raises, crashes, the file changing under a preview, 50 entries | behaves as an atomic bounded cache whose plans belong to their keys |
| CORE sessions (`app_backend.py` 2336-2572, 5202-5800) | `core_sessions.json` (file to session id), CORE's own sessions, `/tmp/pycore.*` | list, start, stop, delete, save XML, clean up | CORE daemon (external) | session ids are used again; unreachable daemon; unlocked mapping | the mapping never names another file's session; cleanup spares live sessions |
| Accounts (`app_backend.py` 1036-1310) | `users.db.json`, signed cookies | log in, create, delete, change passwords, seed an administrator at start | all pages | unlocked read-modify-write; torn file reads as empty | an administrator always remains; a deleted account stays deleted |
| Data sources (`app_backend.py` 1821-1870, 5955-6060, 6635-6696) | `data_sources/_state.json`, CSV files | upload, toggle, delete, refresh, save | vulnerability planning | validation, which is slow, between load and save | state and files agree; no upload is lost |
| Log streaming (`app_backend.py` 5867-5950) | log file of a run, position of each reader | stream, cancel marker | child process writing the log | the child writes and exits between a read and a poll | what was logged reaches the browser before the end |
| Scenario editor (`app_backend.py` 3540-3750, 5123-5195) | scenario files, base upload | save, load, upload and remove a base | plan cache, runs | files named by the second | a save is what is loaded next |
| Allocators (`utils/allocators.py`) | pools, next address per pool, subnets handed out | next subnet, random subnet, next address, next MAC | previews, builder | overlapping and small pools, two kinds of call | subnets never overlap; exhaustion is reported only when true |
| Count planners (`planning/*_plan.py`, `utils/allocation.py`, `planning/pool.py`, `planning/constraints.py`) | none | largest remainder, router counts, flow counts, segment counts | orchestrator, CLI | rounding, ties, zero weights | totals are met exactly |
| Router and switch plan (`planning/router_host_plan.py`) | degrees, groups | group hosts behind switches, target degrees | preview, builder | bounds that cannot be met | each host in one group, group sizes within bounds |
| Full preview (`planning/full_preview.py`) | addresses, links, `/tmp/segmentation`, `/tmp/traffic` | build a preview, copy scripts | allocators, planners | degree sequences, pools running out, runs using the same directories | simple connected graph, unique addresses |
| Topology builder (`builders/topology.py`) | interface counters, existing links, CORE session | add nodes, links, switches | CORE | link calls retried in other forms | one link per pair, one interface id per link end |
| Segmentation (`utils/segmentation.py`) and traffic (`utils/traffic.py`) | rules, subnets, flows | plan and write rules, allow flows | builder, services | default-deny order, NAT chains | a flow that is generated is allowed |
| Services (`utils/services.py`), hardware in the loop (`utils/hitl.py`) | node objects, interface numbers | spread services over hosts; attach RJ45 nodes to routers and switches, or to ones made for them | builder, CORE | Random rows, rounding; calls that fail, interfaces made earlier | each service on as many hosts as asked; no interface used twice |
| CLI (`cli.py`), reports (`utils/report.py`, `app_backend.py` 1410-1560, 4690-4753) | `/tmp/segmentation`, `/tmp/traffic`, `reports/`, scenario files | plan, answer a dry run, build, segment, write traffic, report, start; find, rewrite and delete what runs left | all above, other runs and previews | steps that fail silently or end the run, shared directories, kills | a report and an entry show their own run's work |
| Parsers, Web shell, custom services, validation scripts, vulnerability downloads | none of their own | parse, render, deploy | | | |
| CORE emulator (`vendor/core`) | sessions | third-party | | | modelled from its use only |

## 2. Plan

Order of work; all modules exist.

1. `TmpFile`: a JSON file rewritten through one fixed `.tmp` name by many
   threads, shared by every component that persists this way.
2. `RunRegistry` (on `TmpFile`): the runs. `BoundedCache`: the promise of the
   plan cache; `PlanCache` (on `TmpFile`): the code, a refinement of it.
3. `SubnetAllocators`.
4. `JsonStore` (on `TmpFile`): a store that requests load, change and write back
   whole; `Accounts`, `CoreMapping` and `DataSources` on it.
5. `CoreDaemon`: CORE's sessions and directories, external; `CoreDirs`,
   `CoreMapping` and `SessionXml` on it.
6. `LogStream`: the child's writes, the streams' offsets, cancellation.
7. `CountPlanning`, `HostServices`, `RouterHostPlan`, `PreviewRouters`,
   `PreviewHosts`, `TrafficFlows`: the algorithms of the plan and the preview.
8. `Wiring` (a link as `add_link` makes it), `PreviewTopology`, `TopologyBuild`, `RouterMesh`,
   `StarTopology`, `HitlAttach`: what is built in CORE.
9. `Segmentation` with the allow rules for traffic; `PreviewScripts` (runtime
   directories shared by previews and runs).
10. `CliRun`: the phases of a run; `RunArtifacts` on it: what the backend makes of
    what a run leaves behind.

`TopologyParts` and `GenerationParts` instantiate the generators that are proved about, over one
request `req` and one `plan`; `MCGeneration` and `MCBackend` compose all parts for TLC.

Left: downloads of vulnerabilities, the base upload and saving of scenarios, what a
report says. Theorems left: that the grouping of hosts is a partition (`GroupsFit`) and the
other properties of section 5 that only TLC checks; that `RunRegistry`'s history, without
overlaps, implements an append-only log.

## 3. Modules, code and properties

### `TmpFile`

`main` is the persistent file, `tmp` the temporary file all threads share, `fd`
which file each thread has open. A file holds `Json(v)`, is `Blank` (truncated),
`Torn` (not JSON) or `Absent`. `OpenTmp` truncates the file that has the name
now; a thread that opened it before and dumps after leaves its text over the
other's; `Replace` renames the name, and descriptors opened before keep writing
into what is now the persistent file, as POSIX has it. `Parsed` reads as the
loaders do: absent or unreadable is empty. Dumping without an overlap writes the
whole text in one step: nobody reads the temporary file by name, and a crash in
the middle leaves a file that the next `open(..., 'w')` truncates.

### `RunRegistry`

| Variable | Code |
|---|---|
| `proc`, `reaped` | the child, and `Popen.returncode` of its handle |
| `meta[r]` | `RUNS[r]`: `done`, `returncode`, `history_added` |
| `queue`, `Busy` | `_REUSE_ASYNC_POOL` |
| `th[t]` | the program counter and locals of a finalizer or request thread |
| `main`, `tmp`, `fd` | `run_history.json` |
| `restarts` | the server was killed and started: `RUNS` and threads are gone, files and children stay |
| `overlapped`, `raced` | history variables: which read-modify-writes overlapped |

A thread is a finalizer (`_wait_and_finalize_async`: `FinalizerStarts`,
`FinalizerReaps`, `FinalizerSetsDone`, `FinalizerSetsReturncode`, `Gather`,
`GatherRaises`) or a request: `Status*` (`run_status`), `Stream*`
(`stream_logs`), `Cancel*` (`cancel_run`), `Sync*` (`run_cli`), `Delete*`
(`reports_delete`), `PurgeHistory`. `_append_run_history` is shared: `AppendLoads`,
`Opens`, `Dumps`, `AppendReplaces`, `AppendReplaceRaises`, `AppendUnlinks`. One
step is one access to shared state: a load, an assignment to a field of `meta`, a
`poll()`, a file operation. An exit code is the program's own ("exit") or that of
a signal ("signal"), so that a cancelled run's true code differs from `-1`.

- `OutcomeTrue`: an exit code in a record is the process's own, and a run is
  reported done only when it has ended or was sent a signal.
- `HistoryGenuine`: entries, in the file and in every thread's copy, are of runs
  that ended, with their own exit code.
- `TornOnlyIfRaced`: the file is unreadable only if two read-modify-writes
  overlapped; a crash in the middle of one never does it.
- `UncontendedAppend`: an append that nothing overlapped keeps all entries and
  adds its own, whatever stale temporary file a crash left.
- `FinalizersEnd`: a queued finalizer gets its worker and ends.
- `AppendedOnce` is violated: see Findings.

### `BoundedCache` and `PlanCache`

`BoundedCache` says what the cache promises: `Save` is one atomic step, keeps the
plan saved, replaces the one under the same key and drops others, oldest first,
only to keep to the capacity. `PlanCache` is the code: `HashXmlFile`,
`TryGetCachedPlan`, `ParsesNodes` and `ParsesRest` (the parsers read the file
again, one after the other), `SaveBegins` (lock, load, prune), `Opens`, `Dumps`,
`DumpRaises`, `Replaces`; `Preview` is the choice between them, `RewriteXml` a
save of the scenario meanwhile, `Tick` the clock in whole seconds, `Crash` the
server's death. A plan is what it was computed from. Contents in `Rich` have
routing or segmentation items, on which `json.dump` raises.

- `BehavesAtomically`: `PlanCache` implements `BoundedCache` with `cache` mapped to
  what a reader parses from the file.
- `EntriesGenuine`: plans were computed from the file of their key's hash and for
  its scenario and seed, unless the file was rewritten during a preview (`mixed`,
  a history variable).
- `LockHeld`: the lock is held exactly by a request inside the save (proved only).
- `PreviewCached` is violated: see Findings.

### `SubnetAllocators`

`MultiPoolSubnetAllocator`, the only subnet allocator `make_subnet_allocator`
returns. Addresses are numbers, `Slot` of them a /24. `pools` is the shuffled and
rotated list, in which a network may occur twice (the list of all regions has
repeated blocks), `next` the address each pool goes on from (pools that begin at
the same address share it, as in the dictionary), `taken` the set `_allocated`.
`NextSubnet` scans the pools in turn, each over `max_slots + 1` addresses with
wrap-around (`Tried`); `NextSubnetRaises` is `IPv4Network` refusing a small pool
that does not begin at a /24; `NoneLeft` the `RuntimeError`; `NextRandomSubnet`
any free slot of any pool (its draws may also all miss: then it is `NextSubnet`).

- `Disjoint`: subnets handed out never share an address.
- `InPools`: they lie in a pool; only a pool smaller than a /24 is exceeded.
- `NoneLeftIsTrue`: the error is raised only when no pool has a free subnet.
- `FairTurns`: a pool is not used again before every other with a free subnet.

The run `generation` checks the last three as `PoolsServed`.

Previews and the switch plan each make an allocator of their own over the same
pools; that subnets of two allocators are apart is not claimed.

### `JsonStore` and `Accounts`

`JsonStore` is what `_load_users`/`_save_users` and their copies for sessions and
data sources have in common: a thread loads the whole list (`Loads`), changes its
copy, and writes it back through the shared temporary file (`Opens`, `Dumps`,
`Replaces`, `ReplaceRaises`, `Removes`); nothing is locked. Its constant
`RemovesTmp` tells the stores that remove a temporary file left over by a failed
rename from those that do not. History variables note which read-modify-writes
overlapped and what was removed.

- `AloneIsAtomic`: a read-modify-write that no other overlaps replaces the file's
  list by its own in one step, whatever crashes and failures left behind.
- `RemovedStays`: what such a request removed does not come back by itself, however
  later saves overlap or fail: only when it is put in anew.
- `SpoiltByOverlap`: the file is unreadable, and so empty to every reader, only
  after saves that overlapped.

`Accounts` gives the store its lists. `Seeds` and `Serves` are the start of the
server (`_ensure_admin_user`), the requests `Login`, `Logout`, `UsersCreate`,
`UsersDelete`, `UsersPassword`, `MePassword`; `cookie` is the name and role in a
client's signed cookie, which is trusted until it logs out, even if the account
is gone. `RequireAdmin` looks at the cookie only, as the code does.

- `AdminRemains`: a server that serves a file nobody spoilt has an administrator:
  each request that saves has seen one besides whom it deletes.
- `NamesUnique`: no two users of such a file share a name.

### `CoreDaemon` and `CoreDirs`

`CoreDaemon` is external: CORE's table of sessions, the directory of each id with
its age (`young` is less than the 30 s of the cleanup), and deletions that have left
the table and not yet removed the directory. CORE gives out the lowest id that is not
in its table, and making a directory that exists fails. `CoreDirs` adds the
program: `CleanupLists`, `CleanupGlobs`, `CleanupChecks`, `CleanupRemoves`,
`CleanupFails`, `CleanupEnds` are `admin_cleanup_pycore`, one step per look at the
world (the list of sessions, `/tmp`, each directory's age, each removal);
`BuilderLists`, `BuilderCreates`, `BuilderCollides`, `BuilderRaises` are
`safe_create_session` in a CLI process; `UserOpens`, `Stops` and `Deletes` the
requests to the backend. The check of `safe_create_session` for files in the
directory of the session just made never succeeds with the vendored CORE, whose
`mkdir` made it a moment ago, and is left out; so is a session whose opening fails
after it was created.

- `LiveHasDir`: a live session keeps its directory but for the races it names:
  a cleanup that got no list, one more than 30 s late or already at the removal of a
  stale directory of the same id, and CORE's own late deletion (`excused` and
  `robbed` say which sessions these are).
- `StaleGoes`: a cleanup removes all that was stale when it began, unless the id
  is used again or the removal fails.
- `TriesAnew`: a builder's next id is above all those it ran into.
- `SparesActive` is violated: see Findings.

### `CoreMapping`

The CORE page on `JsonStore` and `CoreDaemon`: `work` is what each request thread has at
hand, `xmls` the files there are, `opened` the file each session was opened from, as
CORE's own table says, and the store's `main` is `core_sessions.json`. `CoreStart` opens a
file in CORE; `MapsFile` loads the store only after CORE has answered, `SavesMapping`
writes it back (`core_start`); `DeletesSession`, `DeletesFile`, `RemovesFile` are
`core_delete`. `OtherSession` is a session the page did not open, `CoreStop` a stop,
`ServerDies` and `CoreDies` the deaths of the backend and of the daemon.

- `EntriesGenuine`: an entry names a session that was opened from its file, and no file has two.
- `RowsCurrent`: what the page shows for a file exists and was opened from it, and only files
  there are have entries, unless a session has gone without its file (CORE gives its id
  away again), requests for one file or two rewrites met, or a crash cut one short.

### `DataSources`

`_load_data_sources_state`/`_save_data_sources_state` on `JsonStore`, with `csv` the files on
disk: `Uploads` saves the file, `Rejects` or `Appends` follow validation; `Toggles`, `Deletes`
with `RemovesCsv`, `Refreshes` with `Checks` and `Rewrites`, and `Edits` begin with the list
loaded and end with `SavesList`, however long the step between takes.

- `SourcesHaveFiles`: a source has its file exactly while it is listed, unless a request for it
  met another or was cut short, or the list was spoilt.

### `SessionXml`

`_grpc_save_current_session_xml` around a run: `ListsSessions` takes the session
asked for if it is in CORE's list and another if not, `CopiesXml` copies the file there
is, `SavesXml` has CORE write it, up to three times, `FallsBack` takes an older file. `who` is the
session that has an id now.

- `XmlOfOwnSession`: while the session asked for is in CORE's table, the file is its own, unless
  CORE did not write it.

### `LogStream`

The log file as the child writes it, through a descriptor with an offset of its own
(`WritesLine`), and as `cancel_run` appends its marker to it (`Cancels`, `Marks`, `Terminates`,
`CancelWaits`, `CancelSetsDone`): the child's next line then lands on the marker. `Reads` and
`Polls` are a turn of `stream_logs`: read first, then ask for the process.

- `LinesSent`: a stream that has ended has sent every line but those written after its last
  read (the hazard at `app_backend.py` 5903) or over a marker.
- `CancelEndsStreams`: after a cancel every stream ends, even if the CLI would not.

### `CliRun` and `RunArtifacts`

`CliRun` is `main` as a sequence of phases (`run[r].at`), each with the outcomes its
`try` leaves: `Plans` and `CleansTraffic` (which parses the file again) end the run when they
fail; `Answers`, `Writes*`, `Allows`, `Lists` are swallowed. `shared` says whose summary
is in each runtime directory, `foreign` which of them others have changed since a run
filled it. `IsKilled` and `Previews` come from outside. `RunArtifacts` adds the backend: `Finds` (report and
summary from the log, or the newest there is), `Truncates` and `Rewrites`
(`_write_single_scenario_xml` rewrites the run's own file in place), `Appends`, `RunStatus`, which
remembers the summary it found, and `ReportsDelete`.

- `ArtifactsOwn` is `ListsOwn` (a report lists what its own run wrote unless another run or
  preview has changed the directory since), `EntriesPaired` (report and summary of an
  entry are of one run but where its log names no report), `AnswersOwn` (once the log
  names the report, a status answer has report and summary of that run, whatever it
  remembered before) and `FilesWhole` (a scenario file is torn only while rewritten, and
  gone for a run only if another run of the file was finalized or deleted meanwhile).
- `DryRunStops` is violated: see Findings.

### Planning: `CountPlanning`, `HostServices`, `RouterHostPlan`

These and the following modules have two variables: `req`, what the code is called with, and
`plan`, its local variables with a program counter; random choices are left open.

`CountPlanning` has `CountsRoles` (the CLI's own count, `cli.py` 396) and the planners of each section
(`PlansNodes` to `PlansTraffic`), with largest remainders in exact arithmetic.

- `CountsMet`: shares add up to what is shared, each within one of its exact share, and counts
  are added in full.
- `RouterCountsAgree`: plan and builder count the routers alike and leave none without a host.
- `HostCapKept`: the CLI makes as many hosts as asked for, or as `--max-nodes` allows, if the
  factors add up to no more than one. Otherwise, with roles named Random and with a cap its
  total may differ from the plan's, which `app_backend.py` shows.

`HostServices` is `distribute_services` (`SpreadsRow`, one row after the other, those with a count first)
and the addition to the nodes (`AddsServices`).

- `ServicesSpread`: no host gets a service twice; in the end each service is on as many hosts as
  the row that asks for most of it wants, even where Random rows took some of it first, and on
  no more than all rows that may give it; nodes have what was given. Checked within `CountsMet`.

`RouterHostPlan` has `PlansSingle`, `PlansExact`, `PlansNonuniform`, `SkipsRouter` and the sizing by ratio
(`StartsSizing`, `PicksSize`, `EndsSizing`).

- `HostsInOneGroup`, `SwitchTargetMet`, `GroupSizesWithinBounds`, together `GroupsFit`: a host is
  behind one switch, its router's; a number asked for is met; sizes keep to the bounds
  where they can be kept.

### Links, addresses, flows: `PreviewRouters`, `RouterMesh`, `PreviewHosts`, `TrafficFlows`

`PreviewRouters` draws the graph of the preview (`Draws`: chains, hubs, Havel-Hakimi and ring
sequences, one mode each) and bridges it to the base scenario; `RouterMesh` the one of a topology
built without a preview, with its protocols and the links within each.

- `SequencesRealized`: a degree sequence that was begun never gets stuck, so that the code's
  other attempts are never needed. `DegreesMet`: every router has its degree, but one that has
  one less when the sum would be odd. `DegreesBounded`, `MeshAsAsked` say the same of the mesh.
- `RoutersConnected`, `MeshConnected`: every router reaches every other, in the modes that
  promise it (mode Exact of the mesh makes no link at all, `topology.py` 2247-2272, and is not
  among them). `BridgeClusterClosed`: the cluster shown is cut off from the rest of the base.

`PreviewHosts` gives addresses (`NumbersRouters`, `AddressesLan`, `AddressesRest`), services,
vulnerabilities and flows; `TrafficFlows` is `generate_traffic_scripts`. The plan of a router
with one switch has addresses for its hosts already (`Prefilled`, `host_if_ips`), which
`AddressesLan` keeps (`Keeps`); what hosts are left take the slots of another reckoning (`Reserved`).

- `AddressesDistinct`: each node has an address of its own, unless the block of single addresses
  was also handed out as a LAN, or a LAN is full; the property says who may share with whom even then.
  Two hosts behind one switch share one only where both reckonings meet: in a LAN with less than
  two addresses to spare, of a router's only switch (253 hosts in a /24: the last two get the same).
- `FlowsAsAsked`: an item with a count has so many flows, the last of the others one of each
  selected host, and no two flows share a receiver's port.

### `PreviewScripts` and `Segmentation`

`PreviewScripts` lets previews and runs empty and fill the runtime directory name by name (`Lists`,
`Unlinks`, `Cleaned`, `Writes`, `Filled`). A run makes no preview of its own: `cli.py` 561 imports
the function inside `main`, so that its use before is an error, which is swallowed.

- `OwnScriptsUnlessTouched`: at the end the directory holds exactly one's own scripts, unless someone
  else has changed it since it was listed.

`Segmentation` places the slots (`PlacesNat`, `PlacesFirewall`, `PlacesCustom` and what skips them),
then accepts the flows (`AllowsFlow`, `PassesFlow`), verifies them and forwards ports. `req.prior` is the
summary that earlier runs left, with rules of any type, and `req.numbers` the numbers in the names
of their scripts. A run that plans (`Starts`) only learns from it which nodes are taken; one that
does not, with density 0 or no items (`Skips`), keeps rules and scripts (`Kept`), and numbers its
own from 1 again: `Standing` says whose script is still the one of its rule.

- `SlotsPlaced`, `NatApart`: with clean routers enough every slot is placed, NAT slots first; a
  router that translates addresses does it once and does not filter.
- `AllowRulesSuffice`: where a script that a node executes drops a flow by name, translates
  addresses or lets nothing in, another rule accepts it, unless the rule that did was an
  earlier run's and its script has been written over (`Overwritten`).
- `FlowsPass` is violated: see Findings.

### Building: `Wiring`, `PreviewTopology`, `TopologyBuild`, `StarTopology`, `HitlAttach`

The builders with the calls that add a link failing now and then (`losses`); `Wiring` says which interface a
link takes of each of its nodes. `PreviewTopology`
realizes a preview: `LinksSwitch`, `AttachesHost`, `AttachesDirect`, `LinksRouters`. `TopologyBuild` deals the
hosts (`AddsHost`), then moves them behind switches (`LinksSwitch`, `RehomesHost`) or behind one LAN
switch per router (`AggregatesLan`, `MovesHost`); `plan_r2s_grouping` makes no group of fewer than
two hosts (`GroupsRouter`). `StarTopology` has no routers: `StartsStar` and `AddsStarHost` make a star,
`StartsAccess` and `AddsAccessHost` access switches. A link that is not made is minded by neither; a
session that cannot look up a switch ends the build (`MissesSwitch`). `HitlAttach` tries
the attachments of each hardware interface in the order of its preference
(`TakesRouter`, `TakesSwitch`, `MakesRouter`, `MakesSwitch`, `FallsBack`) and adds the RJ45 node.

- `InterfacesDistinct`: no interface is used by two links, whichever calls failed, and in a star or behind
  access switches each node has its link but for as many as calls failed (hosts moved behind
  a LAN switch are excepted: they all ask for one number of it, `topology.py` 2979, which CORE
  refuses from the second on; it happens only where the grouping planner raised).
- `HostsRealized`, `HostsAttached`: a host has one link at most, in the end to its router or its switch;
  a failed call costs no more than it must. The address reported is that of the link.
- `DockersPlaced`: each slot is one docker node of a plain host, or the build stops.
- `Rj45sConnected`: an RJ45 node reaches the topology by one link of its own.
- `Rj45sAccepted` is violated: see Findings.

## 4. Runs

| Run | Instance | Shows |
|---|---|---|
| `run_lifecycle` | 2 runs, 1 request thread, 1 pool worker, no restart, CLIs end | `TypeOK`, `OutcomeTrue`, `FinalizersEnd` |
| `history_file` | 1 run, 2 request threads, 1 restart | `HistoryGenuine`, `TornOnlyIfRaced`, `UncontendedAppend` |
| `appended_twice` | 1 run, 2 request threads | two entries for one run |
| `plan_cache` | 2 requests, 2 contents (1 rich), 2 selectors, capacity 2, 1 tick, 1 crash, 1 rewrite | the refinement, `EntriesGenuine` |
| `preview_uncached` | the same without tick, crash and rewrite | a preview that leaves no plan |
| `accounts` | 2 request threads, 1 client, 2 names, 4 requests, 1 death of the server | all properties of `JsonStore` and `Accounts` |
| `backend` | one part at a time: `CoreDirs` (1 cleanup, 1 builder with 2 attempts, 2 ids, 2 deletions under way), `CoreMapping` and `SessionXml` (2 requests, 2 files or ids, 3 events, 1 deletion under way), `DataSources` (2 requests, 2 sources, 4 events), `LogStream` (2 streams, 3 lines, 2 cancels), `RunArtifacts` (2 runs in 5 combinations, 1 event) | the properties of these modules |
| `cleanup_unlisted` | `CoreDirs` as above | a live session's directory about to be removed |
| `dry_run` | as `backend` | a dry run that builds a topology |
| `generation` | one part at a time: a /24 of 2 addresses and every list of up to 3 of 5 pools for the allocator, the requests of `MCGeneration` for the others | the properties of these modules |
| `flows_blocked` | as `generation` | a flow that a firewall stops |
| `rj45_refused` | as `generation` | an RJ45 link that CORE refuses |

The two runs that check one part at a time are each one state machine whose variable
`part` never changes; variables of other parts keep one value. A property such as
`InterfacesDistinct` of `MCGeneration` says of each part what that part's module calls so.

Bounds. Two runs with one worker make a finalizer wait for another, the case a pool
of four shares; three threads (one finalizer and two requests) give all pairs of
read-modify-writes with a third to observe. One restart separates "before" and
"after", and nothing but the files carries over. A capacity of two is exceeded by
the two selectors of a plain content with a rewrite, and one tick gives equal and
different times of saving. The five pools contain one inside another that begins
where it does, a separate one, an aligned and an unaligned pool smaller than a /24.
Four requests are an administrator's creation of a user, two deletions and a password
change in any order and overlap, and the death comes at any point of a save. One
cleanup is enough for TLC because cleanups only meet in directories that vanish,
which CORE does as well; the theorems have any number. Two attempts have a retry and
a last failure, as five have, and two ids an id that is used again while another is
live. Three events are the opening of a session, its deletion and a second opening under
the same id, the order in which a mapping goes stale; four are an upload with a toggle, a
deletion and a crash around it. Three lines and two cancels give a line before, over and
after a marker, and a cancel of a run already marked. The five pairs of runs are those in which
the steps of `main` that fail, or are left out, differ, next to a run of the other kind.

Requests of `generation`: sections of up to two rows of each kind with counts, factors and none,
densities below and above one, up to 9 hosts and 3 routers for groups (17 to 20 where the
deal in turns of 8 ends), up to 6 routers with degrees from 0 to 5, LANs with 2 to 6
addresses, up to 3 hosts for flows and services, segmentation with one or two routers and
rules from earlier runs (one rule; or a drop or a guard with the accept rules of one run or two, on
one port or two, under numbers of their own or the same), previews whose switches share hosts or
name routers that do not exist,
up to two calls that fail, one or two hardware interfaces of every preference. Each set has
the values on both sides of the branches of its code: none, one, two of the same, more than fit.

`MaxRequests`, `MaxId`, `MaxClosing`, `MaxAttempts`, `MaxEvents`, `MaxLines`, `MaxCancels`,
`MaxRestarts`, `MaxClock`, `MaxCrashes`, `MaxRewrites` and `MaxPools` are the bounds
on counters and lists; each is a constant that a theorem leaves open.

Deadlock is not checked where the system may stop: with all runs finished and no
user asking anything more a server idles (`RunRegistry`, `Accounts`, `MCBackend`), an
allocator is not called again, and a plan, a topology or a CLI run ends (`MCGeneration`).

Fairness. In `RunRegistry` finalizers are fair (`WF` on each finalizer's next step):
they run in threads of a pool the interpreter schedules, and
their steps block only in `p.wait()`. `SpecCLIsEnd` adds that a CLI process ends.
No request is fair: users need not ask. Gathering artifacts (gRPC calls without
a deadline) is taken to return; that is an assumption, listed as a hazard.
In `LogStream` the steps of a cancel that has begun and the steps of each stream are weakly
fair: they are threads of the server that wait at most five seconds and half a
second. The CLI is not fair there: it may go on, or stop writing, for ever.
The other modules have no fairness.

### Findings

- `appended_twice`: the finalizer never looks at `history_added`, so a status
  request that appends first leaves two entries for one run
  (`app_backend.py` 4944-4963 against the comment at 4993, "Append history once").
- `preview_uncached`: plans of scenarios with routing or segmentation items hold
  dataclass objects, on which `json.dump` raises; the page swallows it and nothing
  is ever cached for them (`plan_cache.py` 36, `orchestrator.py` 126 and 133,
  against `API.md` 36).
- `cleanup_unlisted`: `_list_active_core_sessions` returns an empty list when CORE
  cannot be asked, and the cleanup takes that for "no active session"
  (`app_backend.py` 5326 against the docstring at 5736, "not associated with active
  sessions").

- `flows_blocked`: `write_allow_rules_for_flows` opens the forwarding of a router only
  where a NAT rule is, while firewall scripts set it to DROP as well: a flow across
  such a router that none of its rules names gets no ACCEPT (`segmentation.py` 1207
  against the docstring at 1131 and the comment at 1201).
  Flows are stopped in a second way, which the exception `Overwritten` of `AllowRulesSuffice`
  and `FlowsPass` names (without it TLC finds the case): with density 0 the planner is skipped and the directory of an earlier run kept
  (`cli.py` 844); a flow that one of its accept rules covers gets no rule, while the script of
  that rule is written over by another flow's, which is numbered from 1 again, and the kept
  script that drops the flow still runs (`segmentation.py` 1174 and 1347).
- `rj45_refused`: `_next_iface_id` looks for interfaces on node objects that, with the
  vendored client, have none: an RJ45 node attached to a router is given the number of
  an interface the builder made, CORE refuses it, and the session does not start
  (`hitl.py` 168, `vendor/core/nodes/base.py` 271, against the docstring at
  `hitl.py` 439).
- `dry_run`: `json.dumps` raises on the routing and segmentation items of a dry run's
  answer, the exception is swallowed, and the run builds the topology
  (`cli.py` 605 and 619 against the help text at 275).

## 5. Proofs

All theorems hold for every value of the constants that satisfies the named
`ASSUME`s: threads are runs and requests, disjoint; a pool has a worker; a capacity
is positive; a network begins at a multiple of its length, which divides or is
divided by a /24.

- `RunRegistryProofs`: `TypeOK`, `HistoryGenuine` and `OutcomeTrue` of every
  behaviour. They are not inductive: an entry is made from a thread's local exit
  code, and a record from what a thread has reaped. The invariant
  `IInv` adds `ThreadsTrue` (what a thread holds between reaping and recording is
  the process's own code) and `RecordsTrue` (what a handle holds is the process's
  code; the process of a known record or a queued run was started).
  Also `TornOnlyIfRaced` and `UncontendedAppend`, from an invariant
  `WInv` of the windows: a thread whose window nothing overlapped holds the list
  that is in the file, the only descriptor on the temporary file is its own, and
  after its dump the temporary file holds its list.
- `PlanCacheProofs`: `TypeOK`, `LockHeld`, the refinement of `BoundedCache`
  (initial state and each step; only `Replaces` maps to `Save`) and
  `EntriesGenuine`. The invariant says that the file is always readable, that a
  request in the save holds what the file holds with its own entry, pruned, and
  that no other has the temporary file open.
- `JsonStoreProofs`: `StoreInvariance`: every behaviour of `StoreSpec(Contents)`, of
  a store of whatever contents, has `AloneIsAtomic`, `RemovedStays` and
  `SpoiltByOverlap`. The invariant says what a thread alone on the file
  holds, and which lists can have been written.
- `AccountsProofs`: all properties of the run. `AccountsAreAStore` (the accounts
  implement a store of lists of users) brings in the theorem above; `AdminRemains` and `NamesUnique` follow from `GInv`:
  every list that a thread holds to write, or that is in a file, is good (has an
  administrator, names differ) unless the file was spoilt.
- `PlanningProofs`, of the allocator: `TypeOK` and `Disjoint`. The invariant says that what
  was handed out is what is marked, at multiples of a /24 (the slots of a pool are,
  because its start is a multiple of its length), and multiples that differ are a
  whole /24 apart. Also `InPools`, `NoneLeftIsTrue` and `FairTurns`. The lemma
  `ScanCovers` says that the scan of a pool, from wherever it starts, tries every /24
  of it; the scan is a recursive function, and its induction is by the least
  counterexample (`WFMin` of the library). `TInv` adds that no pool goes on from before
  its start, and that a pool that has been used has since been followed, in the
  rotation, by all those that were used after it.
  Of what is planned: `FlowsCorrect`, `ScriptsCorrect` and `SegmentsCorrect`, each for every
  request, and one lemma for each action. `FlowsInv` says which flows of the items before
  are there and that the next port of a receiver is above those it has; `ScriptsInv` what of
  the directory is one's own at each name of the listing, as long as no other has touched it.
  `SegmentInv` has three parts. `SegmentNodes`: what the planner counts as taken for NAT or a
  firewall covers the nodes its rules are on. `SegmentSlots`: as long as there are clean
  routers, every slot so far has used up one node, so that a clean one is free for the next
  (counted with the cardinalities of the library). `SegmentFlows`: each flow that has been
  seen to, and is blocked anywhere, has a rule that accepts it in every router and at its
  receiver, which later flows and forwarded ports only add to; a rule kept from an earlier run has
  its script or is `Overwritten`, and one of this run has its own, as no two of them have a number
  in common. `FlattenSeq` and `SetToSeq` of
  the community modules, which make the sequence of slots and of new rules, are proved to
  hold what they are made from (`FlattenOf`, by the least counterexample, and `SetToSeqOf`).
- `TopologyProofs`: `PreviewCorrect`, `BuiltCorrect`, `StarCorrect` and `HitlCorrect`. `BuiltInv`
  follows a host from its first link to its switch: what is remembered of it (router, switch,
  address, interface) is the one link it has, through failed calls, the removal of its link
  and the second attempt. `StarInv` and `HitlInv` say that a node's next number is above those
  of its links (of those its session lists), which failed calls leave as a gap and never as a
  second use; `StarInv` counts besides that links made and links lost are as many as were asked for.
- `GenerationProofs`, what these say of `MCGeneration`: the requests it makes are such as the
  theorems assume, so that `PoolsServed`, `FlowsAsAsked`, `OwnScriptsUnlessTouched`,
  `SlotsPlaced`, `AllowRulesSuffice`, `InterfacesDistinct`, `HostsAttached` and `DockersPlaced`
  hold of each of its behaviours.
- `BackendProofs`, of CORE's directories: all properties of the run. `CInv` adds `ListTrue` (a live
  session missing from a cleanup's list was created since and is young, or is
  excused) and `StaleTrue` (what was stale is so still and not yet passed over).
  Of the log: `LinesSent`. `StreamInv` says that the CLI's n-th line is the
  n-th of the log, whatever markers were appended meanwhile, and that a stream has sent
  every line it has read past but those written over a marker.
  Of the CORE page: `EntriesGenuine` and `RowsCurrent`, if `NoFile` is no file.
  `MapInv` brings in the invariant of `JsonStore` (a request's copy differs from what it
  loaded in its own file only) and says that every list in a file or in a request's hands is
  of sessions opened from their files; `CurrentInv` that, outside the races
  `RowsCurrent` names, one session at most is open from a file, and what is remembered of
  it or about to be is that session.
  Of the XML of sessions: `XmlOfOwnSession`. `XmlInv` says that the numbers which tell sessions
  apart are never used again, though ids are, and that while the session a request was made for
  is known, what the request has seen and copied is that session's.
  Of the data sources: `SourcesHaveFiles`, if `NoSource` is no source. `SrcInv` says, of a source
  that is not tangled (no request for it met another or was cut short) while the list is not
  spoilt: a request that writes the list for another source has of this one what the file of the
  list has (`Agreed`), and the CSV file is there while its entry is, but for what the
  one request for it has done to the one and is about to do to the other (`FileAndEntry`).
  Of what runs leave behind: `ArtifactsOwn`, if `None` is no run. `ArtInv` says that a directory
  a run has filled lists that run alone until another changes it, and that a run
  fills each once (`DirsTrue`); that what the finalizer found of a run is of that run from
  then on, in its hands and in the history, whoever adds reports and summaries after
  (`FoundPaired`); and that a run that has begun finds its file gone only if it was meddled with
  (`FilesTrue`).
  `BackendSteps` brings these to the whole backend: a behaviour of `MCBackend` is one of the
  part it is of.

The theorems about single parts (`FlowsCorrect`, `EntriesAreGenuine`, ...) are stated of the
modules themselves, and those named `...Always...` of the composed modules that the runs check.
`StarRequest`, `HitlRequest`, `PreviewRequest`, `BuiltRequest` and `Requests` of `Segmentation` say
what a request is (ids of nodes differ, counts are numbers, flows are between hosts); the requests of `MCGeneration` are shown to be such.

Checked by TLC only: `FinalizersEnd` and `CancelEndsStreams` (liveness under fairness is
out of the proof system's reach);
`CountsMet`, `GroupsFit`, `DegreesMet`, `RoutersConnected` and `AddressesDistinct` of
`MCGeneration`, whose folds and deals over sequences compute by recursion: what those yield
for every input is an induction over data, which the theorems of the library state with an
operator as a parameter that the installed provers cannot instantiate.

## 6. Not modelled

- Parsing and rendering (XML, HTML, what reports say, `planning_metadata.py`, the scenario
  parsers beyond the rows that counts and services read), the text of log lines,
  scripts and commands, positions of nodes, statistics.
- Vulnerabilities (`vuln_process.py`): downloads and docker compose files, each handler of which
  runs git or docker and reports what they say; how many and on which hosts is modelled.
- The scenario editor: saving and loading, the base upload (only the rewriting of a file
  under a preview or a run is modelled), the Web shell, deployment.
- `planning/pool.py` and `constraints.py`, which the preview's code repeats; `UniqueAllocator`,
  which counts up; the removal of orphan switches after a build (`topology.py` 2868-2911,
  3224-3315), which depends on what CORE's session object lists.
- Services of routers beyond their routing protocol and the forms of `services.py`
  for other clients; RJ45 options and the addresses of hardware uplinks.
- Custom services on the CORE machine, validation and schema scripts, which run apart
  from the program; the vendored CORE emulator (external, modelled from its use).

In `RunRegistry` the log, the artifacts of a run and the CLI's own work are abstracted: a
run ends with a code, and gathering artifacts returns or raises; `LogStream`, `RunArtifacts` and
`CliRun` have them. Timestamps of history entries are abstracted to who made the entry.
In `PlanCache` a hash tells all contents apart.
