--------------------------- MODULE PlanCacheProofs ---------------------------
(* Proofs about PlanCache, for every set of requests, documents, selectors,  *)
(* capacity and bound.                                                       *)
EXTENDS PlanCache, FiniteSetTheorems, TLAPS

\* list is the cache with a plan saved under the key, at some second up to now.
MayBecome(cached, key, plan, list, now) ==
  \E s \in 0..now :
    LET e == [key |-> key, plan |-> plan, saved |-> s] IN
    /\ e \in Promise!Records
    /\ \A f \in cached : f.saved <= s
    /\ list \in Promise!Newest({f \in cached : f.key # key} \cup {e}, e)

\* While the lock is held, the cache in place is what the holder has loaded.
ListPromised(t) ==
  MayBecome(Parsed(main), th[t].key, th[t].plan, th[t].list, clock)

ThreadTrue(t) ==
  /\ th[t].at # "idle" => th[t].key \in Keys
  /\ th[t].at \in {"rest", "save"} \cup Holds => th[t].plan \in Plans
  /\ fd[t] # "closed" => th[t].at = "dump"
  /\ th[t].at = "dump" => fd[t] = "tmp" /\ tmp = Blank
  /\ th[t].at = "replace" => tmp = Json(th[t].list)
  /\ th[t].at \in Holds => ListPromised(t)

Readable ==
  /\ main.st \in {"absent", "json"}
  /\ \A f \in Parsed(main) : f.saved <= clock

IInv == TypeOK /\ LockHeld /\ Readable /\ \A t \in Threads : ThreadTrue(t)

LEMMA InitIInv == Init => IInv
<1> SUFFICES ASSUME Init PROVE IInv
  OBVIOUS
<1> USE BoundsAssumption, NoneAssumption
<1>1. FileOK(SUBSET Entries)
  BY DEF Init, FileInit, FileOK, Absent, Places
<1>2. th \in [Threads -> ThreadStates]
  BY DEF Init, Resting, ThreadStates
<1>3. TypeOK
  <2>1. clock \in 0..MaxClock /\ crashes \in 0..MaxCrashes /\ rewrites \in 0..MaxRewrites
    BY DEF Init
  <2>2. xml \in Docs /\ lock \in Threads \cup {None} /\ mixed \in BOOLEAN
    BY DEF Init
  <2> QED BY <1>1, <1>2, <2>1, <2>2 DEF TypeOK
<1>4. LockHeld /\ Readable
  BY DEF Init, FileInit, Absent, LockHeld, Readable, Parsed, Resting, Holds
<1>5. \A t \in Threads : ThreadTrue(t)
  BY DEF Init, FileInit, ThreadTrue, Resting, Holds
<1> QED BY <1>3, <1>4, <1>5 DEF IInv

------------------------------------------------------------------------------
(* Pruning keeps the plan just saved, and so is what the abstract cache does. *)

LEMMA SameCardinality == \A S : Promise!Cardinality(S) = Cardinality(S)
BY Zenon DEF Cardinality, Promise!Cardinality, IsFiniteSet, Promise!IsFiniteSet

LEMMA PrunedIsNewest ==
  ASSUME NEW all, NEW e \in all, \A f \in all : f.saved \in Int /\ f.saved <= e.saved,
         NEW kept \in Pruned(all, e)
  PROVE  kept \in Promise!Newest(all, e) /\ kept \subseteq all
<1> USE CapacityAssumption, SameCardinality
<1>1. CASE Cardinality(all) <= Capacity
  BY <1>1 DEF Pruned, Promise!Newest
<1>2. CASE ~(Cardinality(all) <= Capacity)
  <2>1. /\ kept \in SUBSET all /\ Cardinality(kept) = Capacity
        /\ \A old \in all \ kept, k \in kept :
             old.saved < k.saved \/ (old.saved = k.saved /\ old # e)
    BY <1>2 DEF Pruned
  <2>2. kept # {}
    BY <2>1, FS_EmptySet
  <2>3. e \in kept
    BY <2>1, <2>2
  <2>4. \A old \in all \ kept, k \in kept : old.saved <= k.saved
    BY <2>1
  <2> QED BY <1>2, <2>1, <2>3, <2>4 DEF Promise!Newest
<1> QED BY <1>1, <1>2

\* What a save loads, inserts and prunes is a list the abstract cache may come to hold.
LEMMA SavePromised ==
  ASSUME IInv, NEW t \in Threads, SaveBegins(t)
  PROVE  /\ th'[t].at = "open" /\ th'[t].key = th[t].key /\ th'[t].plan = th[t].plan
         /\ th'[t].list \in SUBSET Entries
         /\ ListPromised(t)'
<1> USE DEF IInv
<1> DEFINE e == NewEntry(t)
<1>1. PICK kept \in Pruned(Inserted(t), e) : th' = [th EXCEPT ![t].at = "open", ![t].list = kept]
  BY DEF SaveBegins
<1>2. e \in Entries /\ e.saved = clock /\ clock \in 0..MaxClock /\ clock \in Int
      /\ th[t].key \in Keys /\ th[t].plan \in Plans
  BY DEF TypeOK, ThreadTrue, SaveBegins, At, NewEntry, Entries, Holds
<1>3. Parsed(main) \in SUBSET Entries
  BY DEF TypeOK, FileOK, Parsed, Absent, Blank, Torn
<1>4. \A f \in Inserted(t) : f \in Entries /\ f.saved \in Int /\ f.saved <= e.saved
  BY <1>2, <1>3, BoundsAssumption DEF Inserted, Readable, Entries
<1>5. kept \in Promise!Newest(Inserted(t), e) /\ kept \subseteq Inserted(t)
  <2>1. e \in Inserted(t)
    BY DEF Inserted
  <2> HIDE DEF e
  <2> QED BY <1>1, <1>4, <2>1, PrunedIsNewest
<1>6. /\ th'[t].at = "open" /\ th'[t].key = th[t].key /\ th'[t].plan = th[t].plan
      /\ th'[t].list = kept
  BY <1>1 DEF TypeOK, ThreadStates
<1>7. main' = main /\ clock' = clock
  BY DEF SaveBegins, fileVars
<1>8. e \in Promise!Records
  BY <1>2 DEF NewEntry, Promise!Records, Entries
<1>9. MayBecome(Parsed(main), th[t].key, th[t].plan, kept, clock)
  <2>1. clock \in 0..clock
    BY <1>2
  <2>2. \A f \in Parsed(main) : f.saved <= clock
    BY DEF Readable
  <2> QED BY <1>5, <1>8, <2>1, <2>2 DEF MayBecome, NewEntry, Inserted
<1>10. ListPromised(t)'
  BY <1>6, <1>7, <1>9 DEF ListPromised, Parsed
<1> QED BY <1>4, <1>5, <1>6, <1>10

LEMMA PromisedTimes ==
  ASSUME NEW t \in Threads, ListPromised(t), clock \in Int, th[t].list \in SUBSET Entries
  PROVE  \A f \in th[t].list : f.saved <= clock
<1>1. PICK s \in 0..clock :
        LET e == [key |-> th[t].key, plan |-> th[t].plan, saved |-> s] IN
        /\ e \in Promise!Records
        /\ \A f \in Parsed(main) : f.saved <= s
        /\ th[t].list \in Promise!Newest({f \in Parsed(main) : f.key # th[t].key} \cup {e}, e)
  BY DEF ListPromised, MayBecome
<1> DEFINE e == [key |-> th[t].key, plan |-> th[t].plan, saved |-> s]
<1>2. th[t].list \subseteq Parsed(main) \cup {e}
  BY <1>1 DEF Promise!Newest
<1>3. \A f \in th[t].list : f.saved <= s /\ f.saved \in Int
  <2>1. e.saved <= s
    OBVIOUS
  <2>2. \A f \in th[t].list : f.saved \in Int
    BY DEF Entries
  <2> HIDE DEF e
  <2> QED BY <1>1, <1>2, <2>1, <2>2
<1> QED BY <1>3

LEMMA ReplaceTypes ==
  ASSUME NEW V, FileOK(V), Replace PROVE FileOK(V)'
BY DEF FileOK, Replace, Absent, Renamed, Places

------------------------------------------------------------------------------
(* The invariant is inductive.                                               *)

Ats == {"idle", "save"} \cup Reads \cup Holds

\* What the holder's list promises stays so while the cache in place does, and time passes.
LEMMA StillPromised ==
  ASSUME NEW t \in Threads, ListPromised(t), clock \in Int, clock' \in Int, clock <= clock',
         main' = main, th'[t].key = th[t].key, th'[t].plan = th[t].plan,
         th'[t].list = th[t].list
  PROVE  ListPromised(t)'
<1>1. \A s \in 0..clock : s \in 0..clock'
  OBVIOUS
<1>2. Parsed(main)' = Parsed(main)
  BY DEF Parsed
<1> QED BY <1>1, <1>2 DEF ListPromised, MayBecome

\* A request that is not inside save_plan_to_cache steps, and leaves the file alone.
LEMMA OutsideKeeps ==
  ASSUME IInv, NEW t \in Threads, th[t].at \notin Holds, th'[t].at \notin Holds,
         th'[t] \in ThreadStates, th' = [th EXCEPT ![t] = th'[t]],
         th'[t].at # "idle" => th'[t].key \in Keys,
         th'[t].at \in {"rest", "save"} => th'[t].plan \in Plans,
         UNCHANGED <<fileVars, xml, clock, lock, crashes, rewrites, mixed>>
  PROVE  IInv'
<1> USE DEF IInv, fileVars
<1>1. \A u \in Threads \ {t} : th'[u] = th[u]
  BY DEF TypeOK
<1>2. FileOK(SUBSET Entries)'
  BY DEF TypeOK, FileOK
<1>3. th' \in [Threads -> ThreadStates]
  BY DEF TypeOK
<1>4. TypeOK'
  BY <1>2, <1>3 DEF TypeOK
<1>5. LockHeld' /\ Readable'
  BY <1>1 DEF LockHeld, Readable, Parsed
<1>6. ASSUME NEW u \in Threads, u # t PROVE ThreadTrue(u)'
  BY <1>1, <1>6, StillPromised DEF ThreadTrue, TypeOK
<1>7. ThreadTrue(t)'
  BY DEF ThreadTrue, Holds
<1> QED BY <1>4, <1>5, <1>6, <1>7

\* No other request is inside save_plan_to_cache, nor has the file open.
LEMMA HolderAlone ==
  ASSUME IInv, NEW t \in Threads, lock = t
  PROVE  \A u \in Threads \ {t} : th[u].at \notin Holds /\ fd[u] = "closed"
BY DEF IInv, LockHeld, ThreadTrue, Holds

\* The holder steps.
LEMMA HolderKeeps ==
  ASSUME IInv, NEW t \in Threads, lock \in {t, None},
         th'[t] \in ThreadStates, th' = [th EXCEPT ![t] = th'[t]],
         IF th'[t].at \in Holds THEN lock' = t ELSE lock' = None,
         FileOK(SUBSET Entries)', Readable', ThreadTrue(t)',
         \A u \in Threads \ {t} : fd[u] = "closed" => fd'[u] = "closed",
         UNCHANGED <<xml, clock, crashes, rewrites, mixed>>
  PROVE  IInv'
<1> USE DEF IInv
<1>1. \A u \in Threads \ {t} : th'[u] = th[u]
  BY DEF TypeOK
<1>2. \A u \in Threads \ {t} : th[u].at \notin Holds /\ fd[u] = "closed" /\ lock # u
  BY NoneAssumption DEF LockHeld, ThreadTrue, Holds
<1>3. th' \in [Threads -> ThreadStates]
  BY DEF TypeOK
<1>4. TypeOK'
  BY <1>3 DEF TypeOK
<1>5. LockHeld'
  BY <1>1, <1>2, NoneAssumption DEF LockHeld
<1>6. ASSUME NEW u \in Threads, u # t PROVE ThreadTrue(u)'
  BY <1>1, <1>2, <1>6 DEF ThreadTrue, Holds
<1> QED BY <1>4, <1>5, <1>6

LEMMA GotoState ==
  ASSUME TypeOK, NEW t \in Threads, NEW at \in Ats, Goto(t, at)
  PROVE  /\ th'[t] \in ThreadStates /\ th' = [th EXCEPT ![t] = th'[t]]
         /\ th'[t] = [th[t] EXCEPT !.at = at]
         /\ th'[t].at = at /\ th'[t].key = th[t].key /\ th'[t].plan = th[t].plan
         /\ th'[t].list = th[t].list
BY DEF TypeOK, Goto, ThreadStates, Ats

LEMMA AnswerState ==
  ASSUME TypeOK, NEW t \in Threads, Answer(t)
  PROVE  th'[t] \in ThreadStates /\ th' = [th EXCEPT ![t] = th'[t]] /\ th'[t].at = "idle"
BY DEF TypeOK, Answer, Resting, ThreadStates

LEMMA OutsideSteps ==
  ASSUME IInv, NEW t \in Threads,
         HashXmlFile(t) \/ TryGetCachedPlan(t) \/ ParsesNodes(t) \/ ParsesRest(t)
  PROVE  IInv'
<1> USE DEF IInv, Reads, Holds, Ats, At
<1>1. CASE HashXmlFile(t)
  <2>1. PICK s \in Selectors :
          th' = [th EXCEPT ![t] = [Resting EXCEPT !.at = "lookup", !.key = [doc |-> xml, sel |-> s]]]
    BY <1>1 DEF HashXmlFile
  <2>2. [doc |-> xml, sel |-> s] \in Keys
    BY DEF TypeOK, Keys
  <2>3. /\ th'[t] \in ThreadStates /\ th' = [th EXCEPT ![t] = th'[t]]
        /\ th'[t].at = "lookup" /\ th'[t].key \in Keys
    BY <2>1, <2>2 DEF TypeOK, Resting, ThreadStates
  <2> QED BY <1>1, <2>3, OutsideKeeps DEF HashXmlFile
<1>2. CASE TryGetCachedPlan(t)
  <2>1. CASE Goto(t, "nodes")
    <3>1. th[t].key \in Keys /\ th[t].at = "lookup"
      BY <1>2 DEF TryGetCachedPlan, ThreadTrue
    <3>2. /\ th'[t] \in ThreadStates /\ th' = [th EXCEPT ![t] = th'[t]]
          /\ th'[t].at = "nodes" /\ th'[t].key = th[t].key
      BY <2>1, GotoState
    <3> QED BY <1>2, <3>1, <3>2, OutsideKeeps DEF TryGetCachedPlan
  <2>2. CASE Answer(t)
    BY <1>2, <2>2, AnswerState, OutsideKeeps DEF TryGetCachedPlan
  <2> QED BY <1>2, <2>1, <2>2 DEF TryGetCachedPlan
<1>3. CASE ParsesNodes(t)
  <2> DEFINE plan == [nodes |-> xml, rest |-> xml, sel |-> th[t].key.sel]
  <2>1. th[t].key \in Keys /\ plan \in Plans
    BY <1>3 DEF ParsesNodes, ThreadTrue, TypeOK, Keys, Plans
  <2>2. /\ th'[t] \in ThreadStates /\ th' = [th EXCEPT ![t] = th'[t]]
        /\ th'[t].at = "rest" /\ th'[t].key = th[t].key /\ th'[t].plan = plan
    BY <1>3, <2>1 DEF ParsesNodes, TypeOK, ThreadStates
  <2> QED BY <1>3, <2>1, <2>2, OutsideKeeps DEF ParsesNodes
<1>4. CASE ParsesRest(t)
  <2>1. th[t].key \in Keys /\ th[t].plan \in Plans /\ xml \in Docs
    BY <1>4 DEF ParsesRest, ThreadTrue, TypeOK
  <2>2. [th[t].plan EXCEPT !.rest = xml] \in Plans
    BY <2>1 DEF Plans
  <2>3. /\ th'[t] \in ThreadStates /\ th' = [th EXCEPT ![t] = th'[t]]
        /\ th'[t].at = "save" /\ th'[t].key = th[t].key
        /\ th'[t].plan = [th[t].plan EXCEPT !.rest = xml]
    BY <1>4, <2>2 DEF ParsesRest, TypeOK, ThreadStates
  <2> QED BY <1>4, <2>1, <2>2, <2>3, OutsideKeeps DEF ParsesRest
<1> QED BY <1>1, <1>2, <1>3, <1>4

LEMMA HolderSteps ==
  ASSUME IInv, NEW t \in Threads,
         SaveBegins(t) \/ Opens(t) \/ Dumps(t) \/ DumpRaises(t) \/ Replaces(t)
  PROVE  IInv'
<1> USE DEF IInv, Reads, Holds, Ats, At
<1>0. th[t].at \in Holds => lock = t /\ \A u \in Threads \ {t} : fd[u] = "closed"
  BY HolderAlone DEF LockHeld
<1>1. CASE SaveBegins(t)
  <2>1. /\ th'[t].at = "open" /\ th'[t].key = th[t].key /\ th'[t].plan = th[t].plan
        /\ th'[t].list \in SUBSET Entries /\ ListPromised(t)'
    BY <1>1, SavePromised
  <2>2. th'[t] \in ThreadStates /\ th' = [th EXCEPT ![t] = th'[t]]
    BY <1>1, <2>1 DEF SaveBegins, TypeOK, ThreadStates
  <2>3. FileOK(SUBSET Entries)' /\ Readable'
    BY <1>1 DEF SaveBegins, fileVars, TypeOK, FileOK, Readable, Parsed
  <2>4. ThreadTrue(t)'
    BY <1>1, <2>1 DEF ThreadTrue, SaveBegins, fileVars
  <2> QED BY <1>1, <2>1, <2>2, <2>3, <2>4, HolderKeeps DEF SaveBegins, fileVars
<1>2. CASE Opens(t)
  <2>1. /\ th'[t] \in ThreadStates /\ th' = [th EXCEPT ![t] = th'[t]]
        /\ th'[t].at = "dump" /\ th'[t].key = th[t].key /\ th'[t].plan = th[t].plan
        /\ th'[t].list = th[t].list
    BY <1>2, GotoState DEF Opens
  <2>2. /\ main' = main /\ tmp' = Blank /\ fd' = [fd EXCEPT ![t] = "tmp"]
    BY <1>2 DEF Opens, OpenTmp
  <2>3. FileOK(SUBSET Entries)'
    BY <2>2 DEF TypeOK, FileOK, Blank, Absent, Places
  <2>4. Readable' /\ clock' = clock
    BY <1>2, <2>2 DEF Opens, Readable, Parsed
  <2>5. ListPromised(t)'
    BY <1>2, <2>1, <2>2, <2>4, StillPromised DEF Opens, ThreadTrue, TypeOK
  <2>6. ThreadTrue(t)'
    BY <1>2, <2>1, <2>2, <2>5 DEF Opens, ThreadTrue, TypeOK, FileOK
  <2>7. \A u \in Threads \ {t} : fd'[u] = fd[u]
    BY <2>2 DEF TypeOK, FileOK
  <2> QED BY <1>0, <1>2, <2>1, <2>3, <2>4, <2>6, <2>7, HolderKeeps DEF Opens
<1>3. CASE Dumps(t)
  <2>1. /\ th'[t] \in ThreadStates /\ th' = [th EXCEPT ![t] = th'[t]]
        /\ th'[t].at = "replace" /\ th'[t].key = th[t].key /\ th'[t].plan = th[t].plan
        /\ th'[t].list = th[t].list
    BY <1>3, GotoState DEF Dumps
  <2>2. fd[t] = "tmp" /\ tmp = Blank
    BY <1>3 DEF Dumps, ThreadTrue
  <2>3. AfterDump(t, tmp, th[t].list) = {Json(th[t].list)}
    BY <1>0, <1>3, <2>2 DEF AfterDump, Blank, Dumps
  <2>4. main' = main /\ tmp' = Json(th[t].list) /\ fd' = [fd EXCEPT ![t] = "closed"]
    BY <1>3, <2>2, <2>3 DEF Dumps, DumpAndClose
  <2>5. FileOK(SUBSET Entries)'
    BY <2>4 DEF TypeOK, FileOK, Json, Absent, Places, ThreadStates
  <2>6. Readable' /\ clock' = clock
    BY <1>3, <2>4 DEF Dumps, Readable, Parsed
  <2>7. ListPromised(t)'
    BY <1>3, <2>1, <2>4, <2>6, StillPromised DEF Dumps, ThreadTrue, TypeOK
  <2>8. ThreadTrue(t)'
    BY <1>3, <2>1, <2>4, <2>7 DEF Dumps, ThreadTrue, TypeOK, FileOK
  <2>9. \A u \in Threads \ {t} : fd'[u] = fd[u]
    BY <2>4 DEF TypeOK, FileOK
  <2> QED BY <1>0, <1>3, <2>1, <2>5, <2>6, <2>8, <2>9, HolderKeeps DEF Dumps
<1>4. CASE DumpRaises(t)
  <2>1. th'[t] \in ThreadStates /\ th' = [th EXCEPT ![t] = th'[t]] /\ th'[t].at = "idle"
    BY <1>4, AnswerState DEF DumpRaises
  <2>2. fd[t] = "tmp" /\ tmp = Blank
    BY <1>4 DEF DumpRaises, ThreadTrue
  <2>3. main' = main /\ tmp' = Torn /\ fd' = [fd EXCEPT ![t] = "closed"]
    BY <1>4, <2>2 DEF DumpRaises, TearAndClose
  <2>4. FileOK(SUBSET Entries)'
    BY <2>3 DEF TypeOK, FileOK, Torn, Absent, Places
  <2>5. Readable' /\ ThreadTrue(t)'
    BY <1>4, <2>1, <2>3 DEF DumpRaises, Readable, Parsed, ThreadTrue, TypeOK, FileOK
  <2>6. \A u \in Threads \ {t} : fd'[u] = fd[u]
    BY <2>3 DEF TypeOK, FileOK
  <2> QED BY <1>0, <1>4, <2>1, <2>4, <2>5, <2>6, HolderKeeps DEF DumpRaises
<1>5. CASE Replaces(t)
  <2>1. th'[t] \in ThreadStates /\ th' = [th EXCEPT ![t] = th'[t]] /\ th'[t].at = "idle"
    BY <1>5, AnswerState DEF Replaces
  <2>2. tmp = Json(th[t].list) /\ fd[t] = "closed" /\ ListPromised(t)
    BY <1>5 DEF Replaces, ThreadTrue
  <2>3. /\ main' = Json(th[t].list) /\ clock' = clock
        /\ \A u \in Threads : fd'[u] = "closed"
    BY <1>0, <1>5, <2>2 DEF Replaces, Replace, Renamed
  <2>4. FileOK(SUBSET Entries)'
    BY <1>5, ReplaceTypes DEF Replaces, TypeOK
  <2>5. \A f \in th[t].list : f.saved <= clock
    BY <2>2, PromisedTimes DEF TypeOK, ThreadStates
  <2>6. Readable'
    BY <2>3, <2>5 DEF Readable, Parsed, Json
  <2>7. ThreadTrue(t)'
    BY <2>1, <2>3 DEF ThreadTrue
  <2> QED BY <1>0, <1>5, <2>1, <2>3, <2>4, <2>6, <2>7, HolderKeeps DEF Replaces
<1> QED BY <1>1, <1>2, <1>3, <1>4, <1>5

LEMMA AroundKeeps ==
  ASSUME IInv, (\E d \in Docs : RewriteXml(d)) \/ Tick \/ Crash \/ UNCHANGED vars PROVE IInv'
<1> USE DEF IInv
<1>1. CASE Crash
  <2>1. /\ main' = main /\ tmp' = tmp /\ clock' = clock /\ lock' = None
        /\ \A t \in Threads : fd'[t] = "closed" /\ th'[t] = Resting
        /\ th' \in [Threads -> ThreadStates] /\ fd' \in [Threads -> Places]
    BY <1>1 DEF Crash, CloseAll, Places, Resting, ThreadStates
  <2>2. crashes' \in 0..MaxCrashes
    BY <1>1, BoundsAssumption DEF Crash, TypeOK
  <2>3. FileOK(SUBSET Entries)'
    BY <2>1 DEF TypeOK, FileOK
  <2>4. TypeOK'
    BY <1>1, <2>1, <2>2, <2>3 DEF Crash, TypeOK
  <2>5. LockHeld' /\ Readable' /\ \A t \in Threads : ThreadTrue(t)'
    BY <2>1, NoneAssumption DEF LockHeld, Readable, Parsed, ThreadTrue, Resting, Holds
  <2> QED BY <2>4, <2>5
<1>2. CASE (\E d \in Docs : RewriteXml(d)) \/ Tick \/ UNCHANGED vars
  <2>1. /\ UNCHANGED <<fileVars, lock, th>> /\ clock' \in 0..MaxClock /\ clock <= clock'
    BY <1>2, BoundsAssumption DEF RewriteXml, Tick, vars, TypeOK
  <2>2. /\ crashes' \in 0..MaxCrashes /\ rewrites' \in 0..MaxRewrites
    BY <1>2, BoundsAssumption DEF RewriteXml, Tick, vars, TypeOK
  <2>3. xml' \in Docs /\ mixed' \in BOOLEAN
    BY <1>2 DEF RewriteXml, Tick, vars, TypeOK
  <2>4. FileOK(SUBSET Entries)'
    BY <2>1 DEF fileVars, TypeOK, FileOK
  <2>5. TypeOK'
    BY <2>1, <2>2, <2>3, <2>4 DEF TypeOK
  <2>6. clock \in Int /\ clock' \in Int /\ clock <= clock'
    BY <2>1 DEF TypeOK
  <2>7. Readable'
    <3>1. \A f \in Parsed(main) : f.saved \in Int
      BY DEF TypeOK, FileOK, Parsed, Absent, Blank, Torn, Entries
    <3>2. Parsed(main)' = Parsed(main) /\ main' = main
      BY <2>1 DEF fileVars, Parsed
    <3> QED BY <2>6, <3>1, <3>2 DEF Readable
  <2>8. ASSUME NEW t \in Threads PROVE ThreadTrue(t)'
    BY <2>1, <2>6, StillPromised DEF ThreadTrue, fileVars
  <2> QED BY <2>1, <2>5, <2>7, <2>8 DEF LockHeld
<1> QED BY <1>1, <1>2

LEMMA NextKeeps == IInv /\ [Next]_vars => IInv'
BY OutsideSteps, HolderSteps, AroundKeeps DEF Next, Preview

\* The inductive invariant holds in every reachable state.
THEOREM Invariance == Spec => []IInv
BY InitIInv, NextKeeps, PTL DEF Spec

\* The file, the clock, the lock and the requests always have their types.
THEOREM TypeCorrect == Spec => []TypeOK
<1>1. IInv => TypeOK
  BY DEF IInv
<1> QED BY <1>1, Invariance, PTL

\* The lock is held exactly inside save_plan_to_cache, by one request.
THEOREM LockIsHeld == Spec => []LockHeld
<1>1. IInv => LockHeld
  BY DEF IInv
<1> QED BY <1>1, Invariance, PTL

------------------------------------------------------------------------------
(* The cache file implements the atomic cache.                               *)

\* Only the rename changes what the cache file reads as, and it is a save.
LEMMA StepRefines == IInv /\ [Next]_vars => [Promise!Next]_(Parsed(main))
<1> SUFFICES ASSUME IInv, [Next]_vars PROVE Promise!Next \/ Parsed(main)' = Parsed(main)
  OBVIOUS
<1> USE DEF IInv
<1>1. ASSUME NEW t \in Threads, Replaces(t) PROVE Promise!Next
  <2>1. tmp = Json(th[t].list) /\ ListPromised(t)
    BY <1>1 DEF Replaces, ThreadTrue, At, Holds
  <2>2. Parsed(main)' = th[t].list
    BY <1>1, <2>1 DEF Replaces, Replace, Parsed, Json
  <2>3. PICK s \in 0..clock :
          LET e == [key |-> th[t].key, plan |-> th[t].plan, saved |-> s] IN
          /\ e \in Promise!Records
          /\ \A f \in Parsed(main) : f.saved <= s
          /\ th[t].list \in Promise!Newest({f \in Parsed(main) : f.key # th[t].key} \cup {e}, e)
    BY <2>1 DEF ListPromised, MayBecome
  <2> DEFINE e == [key |-> th[t].key, plan |-> th[t].plan, saved |-> s]
  <2>4. Promise!Save(e)
    BY <2>2, <2>3 DEF Promise!Save, Promise!Replaced
  <2>5. e \in Promise!Records
    BY <2>3
  <2> HIDE DEF e
  <2> QED BY <2>4, <2>5 DEF Promise!Next
<1>2. ASSUME NEW t \in Threads, HashXmlFile(t) \/ (Preview(t) /\ ~Replaces(t)) PROVE main' = main
  <2>1. CASE Dumps(t) \/ DumpRaises(t)
    <3>1. fd[t] = "tmp"
      BY <2>1 DEF Dumps, DumpRaises, ThreadTrue, At
    <3> QED BY <2>1, <3>1 DEF Dumps, DumpRaises, DumpAndClose, TearAndClose
  <2> QED BY <1>2, <2>1 DEF Preview, HashXmlFile, TryGetCachedPlan, ParsesNodes, ParsesRest,
                            SaveBegins, Opens, OpenTmp, fileVars
<1>3. CASE (\E d \in Docs : RewriteXml(d)) \/ Tick \/ Crash \/ UNCHANGED vars
  BY <1>3 DEF RewriteXml, Tick, Crash, CloseAll, vars, fileVars, Parsed
<1>4. main' = main => Parsed(main)' = Parsed(main)
  BY DEF Parsed
<1> QED BY <1>1, <1>2, <1>3, <1>4 DEF Next

\* Through crashes, failed dumps and concurrent saves the file behaves as BoundedCache.
THEOREM Refinement == Spec => BehavesAtomically
<1>1. Init => Promise!Init
  BY DEF Init, FileInit, Absent, Parsed, Promise!Init
<1> QED BY <1>1, StepRefines, Invariance, PTL DEF Spec, BehavesAtomically, Promise!Spec

------------------------------------------------------------------------------
(* Plans are kept under the hash of the file they were computed from.        *)

PlanOf(key) == [nodes |-> key.doc, rest |-> key.doc, sel |-> key.sel]
AllGenuine(entries) == \A e \in entries : e.plan = PlanOf(e.key)

\* What a preview knows of the file, as long as it was not rewritten under it.
ThreadGenuine(t) ==
  /\ th[t].at \in Reads => th[t].key.doc = xml
  /\ th[t].at = "rest" => th[t].plan.nodes = xml /\ th[t].plan.sel = th[t].key.sel
  /\ th[t].at \in {"save"} \cup Holds => th[t].plan = PlanOf(th[t].key)
  /\ th[t].at \in Holds => AllGenuine(th[t].list)

GInv == ~mixed => AllGenuine(Parsed(main)) /\ \A t \in Threads : ThreadGenuine(t)

LEMMA InitGInv == Init => GInv
BY DEF Init, FileInit, Absent, Parsed, GInv, AllGenuine, ThreadGenuine, Resting, Reads, Holds

\* A step of request t; the others see the same file and keep what they know.
LEMMA ThreadKeepsGenuine ==
  ASSUME TypeOK, GInv, NEW t \in Threads, th' = [th EXCEPT ![t] = th'[t]],
         mixed' = mixed, xml' = xml,
         ~mixed => ThreadGenuine(t)' /\ AllGenuine(Parsed(main)')
  PROVE  GInv'
<1>1. \A u \in Threads \ {t} : th'[u] = th[u]
  BY DEF TypeOK
<1>2. ASSUME ~mixed, NEW u \in Threads, u # t PROVE ThreadGenuine(u)'
  BY <1>1, <1>2 DEF GInv, ThreadGenuine, AllGenuine
<1> QED BY <1>2 DEF GInv

LEMMA PreviewKeepsGenuine ==
  ASSUME IInv, GInv, NEW t \in Threads, HashXmlFile(t) \/ Preview(t) PROVE GInv'
<1> USE DEF IInv, Reads, Holds, Ats, At
<1>1. mixed' = mixed /\ xml' = xml
  BY DEF HashXmlFile, Preview, TryGetCachedPlan, ParsesNodes, ParsesRest, SaveBegins, Opens,
         Dumps, DumpRaises, Replaces
<1>2. ~Replaces(t) => Parsed(main)' = Parsed(main)
  <2>1. CASE Dumps(t) \/ DumpRaises(t)
    <3>1. fd[t] = "tmp"
      BY <2>1 DEF Dumps, DumpRaises, ThreadTrue
    <3> QED BY <2>1, <3>1 DEF Dumps, DumpRaises, DumpAndClose, TearAndClose, Parsed
  <2> QED BY <2>1 DEF Preview, HashXmlFile, TryGetCachedPlan, ParsesNodes, ParsesRest,
                      SaveBegins, Opens, OpenTmp, fileVars, Parsed
<1>3. CASE HashXmlFile(t)
  <2>1. /\ th' = [th EXCEPT ![t] = th'[t]] /\ th'[t].at = "lookup" /\ th'[t].key.doc = xml
    <3>1. PICK s \in Selectors :
            th' = [th EXCEPT ![t] = [Resting EXCEPT !.at = "lookup", !.key = [doc |-> xml, sel |-> s]]]
      BY <1>3 DEF HashXmlFile
    <3> QED BY <3>1 DEF TypeOK, Resting
  <2>2. ~mixed => ThreadGenuine(t)' /\ AllGenuine(Parsed(main)')
    BY <1>1, <1>2, <1>3, <2>1 DEF ThreadGenuine, GInv, HashXmlFile, Replaces, Parsed, fileVars
  <2> QED BY <1>1, <2>1, <2>2, ThreadKeepsGenuine
<1>4. CASE \E at \in {"nodes", "dump", "replace"} :
             /\ Goto(t, at) /\ ~Replaces(t)
             /\ (at = "nodes" /\ th[t].at = "lookup") \/ (at # "nodes" /\ th[t].at \in Holds)
  <2>1. PICK at \in {"nodes", "dump", "replace"} :
          /\ Goto(t, at) /\ ~Replaces(t)
          /\ (at = "nodes" /\ th[t].at = "lookup") \/ (at # "nodes" /\ th[t].at \in Holds)
    BY <1>4
  <2>2. /\ th' = [th EXCEPT ![t] = th'[t]] /\ th'[t].at = at
        /\ th'[t].key = th[t].key /\ th'[t].plan = th[t].plan /\ th'[t].list = th[t].list
    BY <2>1, GotoState
  <2>3. ~mixed => ThreadGenuine(t)'
    BY <1>1, <2>1, <2>2 DEF GInv, ThreadGenuine
  <2>4. ~mixed => AllGenuine(Parsed(main)')
    BY <1>2, <2>1 DEF GInv
  <2> QED BY <1>1, <2>2, <2>3, <2>4, ThreadKeepsGenuine
<1>5. CASE Answer(t) /\ (Replaces(t) => AllGenuine(Parsed(main)') \/ mixed)
  <2>1. th' = [th EXCEPT ![t] = th'[t]] /\ th'[t].at = "idle"
    BY <1>5, AnswerState
  <2>2. ~mixed => ThreadGenuine(t)'
    BY <2>1 DEF ThreadGenuine
  <2>3. ~mixed => AllGenuine(Parsed(main)')
    BY <1>2, <1>5 DEF GInv
  <2> QED BY <1>1, <2>1, <2>2, <2>3, ThreadKeepsGenuine
<1>6. CASE ParsesNodes(t)
  <2>1. /\ th' = [th EXCEPT ![t] = th'[t]] /\ th'[t].at = "rest" /\ th'[t].key = th[t].key
        /\ th'[t].plan = [nodes |-> xml, rest |-> xml, sel |-> th[t].key.sel]
    BY <1>6 DEF ParsesNodes, TypeOK, ThreadStates
  <2>2. ~mixed => ThreadGenuine(t)'
    BY <1>1, <1>6, <2>1 DEF ParsesNodes, GInv, ThreadGenuine
  <2>3. ~mixed => AllGenuine(Parsed(main)')
    BY <1>2, <1>6 DEF GInv, ParsesNodes, Replaces
  <2> QED BY <1>1, <2>1, <2>2, <2>3, ThreadKeepsGenuine
<1>7. CASE ParsesRest(t)
  <2>1. th[t].plan \in Plans
    BY <1>7 DEF ParsesRest, ThreadTrue
  <2>2. /\ th' = [th EXCEPT ![t] = th'[t]] /\ th'[t].at = "save" /\ th'[t].key = th[t].key
        /\ th'[t].plan = [nodes |-> th[t].plan.nodes, rest |-> xml, sel |-> th[t].plan.sel]
    BY <1>7, <2>1 DEF ParsesRest, TypeOK, ThreadStates, Plans
  <2>3. ~mixed => ThreadGenuine(t)'
    BY <1>7, <2>2 DEF ParsesRest, GInv, ThreadGenuine, PlanOf
  <2>4. ~mixed => AllGenuine(Parsed(main)')
    BY <1>2, <1>7 DEF GInv, ParsesRest, Replaces
  <2> QED BY <1>1, <2>2, <2>3, <2>4, ThreadKeepsGenuine
<1>8. CASE SaveBegins(t)
  <2>1. PICK kept \in Pruned(Inserted(t), NewEntry(t)) :
          th' = [th EXCEPT ![t].at = "open", ![t].list = kept]
    BY <1>8 DEF SaveBegins
  <2>2. /\ th' = [th EXCEPT ![t] = th'[t]] /\ th'[t].at = "open" /\ th'[t].list = kept
        /\ th'[t].key = th[t].key /\ th'[t].plan = th[t].plan
    BY <2>1 DEF TypeOK, ThreadStates
  <2>3. kept \subseteq Inserted(t)
    BY DEF Pruned
  <2>4. ~mixed => th[t].plan = PlanOf(th[t].key) /\ AllGenuine(Parsed(main))
    BY <1>8 DEF SaveBegins, GInv, ThreadGenuine
  <2>5. ~mixed => AllGenuine(kept)
    BY <2>3, <2>4 DEF AllGenuine, Inserted, NewEntry
  <2>6. ~mixed => ThreadGenuine(t)'
    BY <2>2, <2>4, <2>5 DEF ThreadGenuine
  <2>7. ~mixed => AllGenuine(Parsed(main)')
    BY <1>2, <1>8 DEF GInv, SaveBegins, Replaces
  <2> QED BY <1>1, <2>2, <2>6, <2>7, ThreadKeepsGenuine
<1>9. Replaces(t) => AllGenuine(Parsed(main)') \/ mixed
  BY DEF Replaces, Replace, Parsed, Json, ThreadTrue, GInv, ThreadGenuine
<1>10. CASE TryGetCachedPlan(t)
  BY <1>4, <1>5, <1>9, <1>10 DEF TryGetCachedPlan, Replaces
<1>11. CASE Opens(t) \/ Dumps(t)
  BY <1>4, <1>11 DEF Opens, Dumps, Replaces
<1>12. CASE DumpRaises(t) \/ Replaces(t)
  BY <1>5, <1>9, <1>12 DEF DumpRaises, Replaces
<1> QED BY <1>3, <1>6, <1>7, <1>8, <1>10, <1>11, <1>12 DEF Preview

LEMMA AroundKeepsGenuine ==
  ASSUME GInv, (\E d \in Docs : RewriteXml(d)) \/ Tick \/ Crash \/ UNCHANGED vars PROVE GInv'
<1> USE DEF GInv
<1>1. CASE \E d \in Docs : RewriteXml(d)
  <2>1. ~mixed' => ~mixed /\ \A t \in Threads : th[t].at \notin Reads
    BY <1>1 DEF RewriteXml
  <2>2. th' = th /\ main' = main
    BY <1>1 DEF RewriteXml, fileVars
  <2> QED BY <2>1, <2>2 DEF ThreadGenuine, Parsed, Reads
<1>2. CASE Crash
  <2>1. mixed' = mixed /\ main' = main /\ \A t \in Threads : th'[t] = Resting
    BY <1>2 DEF Crash, CloseAll
  <2> QED BY <2>1 DEF ThreadGenuine, Parsed, Resting, Reads, Holds
<1>3. CASE Tick \/ UNCHANGED vars
  BY <1>3 DEF Tick, vars, fileVars, ThreadGenuine, Parsed
<1> QED BY <1>1, <1>2, <1>3

\* Every cached plan was computed from the file its key is the hash of.
THEOREM PlansAreGenuine == Spec => []EntriesGenuine
<1>1. IInv /\ GInv /\ [Next]_vars => GInv'
  BY PreviewKeepsGenuine, AroundKeepsGenuine DEF Next
<1>2. GInv => EntriesGenuine
  BY DEF GInv, EntriesGenuine, AllGenuine, PlanOf
<1> QED BY InitGInv, <1>1, <1>2, Invariance, PTL DEF Spec
==============================================================================
