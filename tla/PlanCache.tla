------------------------------ MODULE PlanCache ------------------------------
(***************************************************************************)
(* The plan cache of the preview pages: requests that hash the scenario    *)
(* file, look the hash up, otherwise compute a plan from the file and save *)
(* it.  One lock of the server process guards the cache file.              *)
(***************************************************************************)
EXTENDS TmpFile, Integers, FiniteSets

CONSTANTS Docs,         \* contents of the scenario file (the hash tells them apart)
          Rich,         \* those with routing or segmentation items
          Selectors,    \* (scenario, seed) as asked for
          Capacity,     \* entries the cache keeps: 50
          None,         \* no thread, no key, no plan
          MaxClock,     \* bound: seconds that pass
          MaxCrashes,   \* bound: how often the server dies
          MaxRewrites   \* bound: how often the scenario file is saved anew

ASSUME RichAssumption == Rich \subseteq Docs
ASSUME CapacityAssumption == Capacity \in Nat \ {0}
ASSUME BoundsAssumption == MaxClock \in Nat /\ MaxCrashes \in Nat /\ MaxRewrites \in Nat

VARIABLES xml,          \* what the scenario file holds
          clock,        \* int(time.time())
          lock,         \* who holds plan_cache._lock
          th,           \* where each request is, and its local variables
          crashes,      \* how often the server has died
          rewrites,     \* how often the scenario file was saved anew
          mixed         \* history: the file was rewritten during a preview of it

vars == <<fileVars, xml, clock, lock, th, crashes, rewrites, mixed>>

Keys == [doc : Docs, sel : Selectors]

\* A plan: what it was computed from.  The parsers read the file one after the other.
Plans == [nodes : Docs, rest : Docs, sel : Selectors]
Entries == [key : Keys, plan : Plans, saved : 0..MaxClock]

ASSUME NoneAssumption == None \notin Threads \cup Keys \cup Plans

Resting == [at |-> "idle", key |-> None, plan |-> None, list |-> {}]

Init ==
  /\ FileInit
  /\ xml \in Docs
  /\ clock = 0
  /\ lock = None
  /\ th = [t \in Threads |-> Resting]
  /\ crashes = 0
  /\ rewrites = 0
  /\ mixed = FALSE

At(t, at) == th[t].at = at
Goto(t, at) == th' = [th EXCEPT ![t].at = at]
Answer(t) == th' = [th EXCEPT ![t] = Resting]

\* The preview has hashed the file and will read it again.
Reads == {"lookup", "nodes", "rest"}
Holds == {"open", "dump", "replace"}

------------------------------------------------------------------------------
(* Around the requests.                                                      *)

\* The scenario file is saved again under its name.
RewriteXml(d) ==
  /\ rewrites < MaxRewrites /\ rewrites' = rewrites + 1
  /\ d # xml /\ xml' = d
  /\ mixed' = (mixed \/ \E t \in Threads : th[t].at \in Reads)
  /\ UNCHANGED <<fileVars, clock, lock, th, crashes>>

Tick ==
  /\ clock < MaxClock /\ clock' = clock + 1
  /\ UNCHANGED <<fileVars, xml, lock, th, crashes, rewrites, mixed>>

Crash ==
  /\ crashes < MaxCrashes /\ crashes' = crashes + 1
  /\ CloseAll
  /\ lock' = None
  /\ th' = [t \in Threads |-> Resting]
  /\ UNCHANGED <<xml, clock, rewrites, mixed>>

------------------------------------------------------------------------------
(* POST /api/plan/preview_full and /plan/full_preview_page.                  *)

HashXmlFile(t) ==
  /\ At(t, "idle")
  /\ \E s \in Selectors :
       th' = [th EXCEPT ![t] = [Resting EXCEPT !.at = "lookup", !.key = [doc |-> xml, sel |-> s]]]
  /\ UNCHANGED <<fileVars, xml, clock, lock, crashes, rewrites, mixed>>

Found(t) == {e \in Parsed(main) : e.key = th[t].key}

\* try_get_cached_plan reads the file under the lock.
TryGetCachedPlan(t) ==
  /\ At(t, "lookup") /\ lock = None
  /\ IF Found(t) = {} THEN Goto(t, "nodes") ELSE Answer(t)
  /\ UNCHANGED <<fileVars, xml, clock, lock, crashes, rewrites, mixed>>

\* compute_full_plan: every parser opens the file anew.
ParsesNodes(t) ==
  /\ At(t, "nodes")
  /\ th' = [th EXCEPT ![t].at = "rest",
                      ![t].plan = [nodes |-> xml, rest |-> xml, sel |-> th[t].key.sel]]
  /\ UNCHANGED <<fileVars, xml, clock, lock, crashes, rewrites, mixed>>

ParsesRest(t) ==
  /\ At(t, "rest")
  /\ th' = [th EXCEPT ![t].at = "save", ![t].plan.rest = xml]
  /\ UNCHANGED <<fileVars, xml, clock, lock, crashes, rewrites, mixed>>

NewEntry_NoSelector(t) ==
  [key |-> [th[t].key EXCEPT !.sel = CHOOSE s \in Selectors : TRUE], plan |-> th[t].plan,
   saved |-> clock]

NewEntry_HashOnly(t) == [key |-> th[t].key.doc, plan |-> th[t].plan, saved |-> clock]

NewEntry(t) == [key |-> th[t].key, plan |-> th[t].plan, saved |-> clock]

\* data['entries'][key] = ...
Inserted(t) == {e \in Parsed(main) : e.key # th[t].key} \cup {NewEntry(t)}

Pruned_NewestFirst(all, new) ==
  IF Cardinality(all) <= Capacity THEN {all}
  ELSE {kept \in SUBSET all :
          /\ Cardinality(kept) = Capacity
          /\ \A old \in all \ kept, k \in kept : old.saved >= k.saved}

\* The sort by saved_at is stable and a new key comes last in the dict: the entry just
\* saved is after every other of the same second, and so kept.
Pruned(all, new) ==
  IF Cardinality(all) <= Capacity THEN {all}
  ELSE {kept \in SUBSET all :
          /\ Cardinality(kept) = Capacity
          /\ \A old \in all \ kept, k \in kept :
               old.saved < k.saved \/ (old.saved = k.saved /\ old # new)}

SaveBegins_Unlocked(t) ==
  /\ At(t, "save")
  /\ \E kept \in Pruned(Inserted(t), NewEntry(t)) :
       th' = [th EXCEPT ![t].at = "open", ![t].list = kept]
  /\ UNCHANGED <<fileVars, xml, clock, lock, crashes, rewrites, mixed>>

\* save_plan_to_cache: the lock is held from here to the end of the write.
SaveBegins(t) ==
  /\ At(t, "save") /\ lock = None
  /\ lock' = t
  /\ \E kept \in Pruned(Inserted(t), NewEntry(t)) :
       th' = [th EXCEPT ![t].at = "open", ![t].list = kept]
  /\ UNCHANGED <<fileVars, xml, clock, crashes, rewrites, mixed>>

Opens(t) ==
  /\ At(t, "open") /\ Goto(t, "dump")
  /\ OpenTmp(t)
  /\ UNCHANGED <<xml, clock, lock, crashes, rewrites, mixed>>

\* Routing and segmentation items are objects json cannot write.
Serializable(plan) == plan.rest \notin Rich

Dumps(t) ==
  /\ At(t, "dump") /\ Goto(t, "replace")
  /\ Serializable(th[t].plan)
  /\ DumpAndClose(t, th[t].list)
  /\ UNCHANGED <<xml, clock, lock, crashes, rewrites, mixed>>

DumpRaises_LockKept(t) ==
  /\ At(t, "dump") /\ Answer(t)
  /\ ~Serializable(th[t].plan)
  /\ TearAndClose(t)
  /\ UNCHANGED <<xml, clock, lock, crashes, rewrites, mixed>>

\* json.dump raises half way; the lock is released, and the page logs and goes on.
DumpRaises(t) ==
  /\ At(t, "dump") /\ Answer(t)
  /\ ~Serializable(th[t].plan)
  /\ TearAndClose(t)
  /\ lock' = None
  /\ UNCHANGED <<xml, clock, crashes, rewrites, mixed>>

Replaces(t) ==
  /\ At(t, "replace") /\ Answer(t)
  /\ Replace
  /\ lock' = None
  /\ UNCHANGED <<xml, clock, crashes, rewrites, mixed>>

------------------------------------------------------------------------------
Preview(t) ==
  \/ TryGetCachedPlan(t) \/ ParsesNodes(t) \/ ParsesRest(t)
  \/ SaveBegins(t) \/ Opens(t) \/ Dumps(t) \/ DumpRaises(t) \/ Replaces(t)

Next ==
  \/ \E t \in Threads : HashXmlFile(t) \/ Preview(t)
  \/ \E d \in Docs : RewriteXml(d)
  \/ Tick \/ Crash

Spec == Init /\ [][Next]_vars

------------------------------------------------------------------------------
(* Properties.                                                               *)

ThreadStates ==
  [at : {"idle", "save"} \cup Reads \cup Holds,
   key : Keys \cup {None}, plan : Plans \cup {None}, list : SUBSET Entries]

\* Types: the file, the clock, the lock and the requests' local variables.
TypeOK ==
  /\ FileOK(SUBSET Entries)
  /\ xml \in Docs
  /\ clock \in 0..MaxClock
  /\ lock \in Threads \cup {None}
  /\ th \in [Threads -> ThreadStates]
  /\ crashes \in 0..MaxCrashes
  /\ rewrites \in 0..MaxRewrites
  /\ mixed \in BOOLEAN

\* A cached plan was computed from the very file whose hash it is kept under, and for
\* the scenario and seed of its key, unless the file was rewritten during a preview.
EntriesGenuine ==
  ~mixed => \A e \in Parsed(main) :
              e.plan = [nodes |-> e.key.doc, rest |-> e.key.doc, sel |-> e.key.sel]

\* Through crashes, failed dumps and concurrent saves, the file behaves as the atomic
\* cache of BoundedCache: saves one at a time, none lost, the new plan kept.
Promise == INSTANCE BoundedCache WITH
  Times <- 0..MaxClock, cache <- Parsed(main)
BehavesAtomically == Promise!Spec

\* Exactly a request inside save_plan_to_cache holds the lock, one at a time, so that a
\* save that raises or a crash never leaves later previews waiting for it.
LockHeld == \A t \in Threads : lock = t <=> th[t].at \in Holds

\* API.md: "Planning preview results are cached in outputs/plan_cache.json, keyed by
\* (xml_hash, scenario, seed)": a preview that computed a plan leaves it there.
PreviewCached ==
  [][\A t \in Threads : th[t].at \in Holds /\ At(t, "idle")' /\ crashes' = crashes
                          => \E e \in Parsed(main') : e.key = th[t].key]_vars
==============================================================================
