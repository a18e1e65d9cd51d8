--------------------------- MODULE JsonStoreProofs ---------------------------
(* Proofs about JsonStore, for every set of threads and of contents.         *)
EXTENDS JsonStore, TLAPS

\* A thread that does not save holds nothing, and one has a file open only to dump.
\* One that is alone has the temporary file to itself.
ThreadTrue(t) ==
  /\ ~Saving(t) => copy[t] = {} /\ base[t] = {} /\ t \notin overlapped
  /\ fd[t] # "closed" => saving[t] = "dump"
  /\ Alone(t) => /\ \A u \in Threads \ {t} : ~Saving(u)
                 /\ saving[t] # "remove"
                 /\ saving[t] = "dump" => fd[t] = "tmp" /\ tmp = Blank

SInv(Contents) ==
  /\ StoreOK(Contents)
  /\ \A t \in Threads : ThreadTrue(t)
  /\ AloneIsAtomic
  /\ RemovedStays
  /\ main \in {Blank, Torn} => spoilt

\* What a dump leaves in the two files.
LEMMA DumpFacts ==
  ASSUME NEW Contents, FileOK(Contents), NEW t \in Threads, NEW v \in Contents, DumpAndClose(t, v)
  PROVE  /\ FileOK(Contents)'
         /\ Parsed(main)' \subseteq Parsed(main) \cup v
         /\ Parsed(tmp)' \subseteq Parsed(tmp) \cup v
         /\ fd[t] # "main" => main' = main
         /\ fd[t] = "tmp" /\ tmp = Blank /\ (\A u \in Threads \ {t} : fd[u] = "closed")
              => tmp' = Json(v)
         /\ fd' = [fd EXCEPT ![t] = "closed"]
<1> USE DEF Json, Torn, Blank, Absent
<1>1. AfterDump(t, tmp, v) \subseteq {Json(v), Torn} /\ AfterDump(t, main, v) \subseteq {Json(v), Torn}
  BY DEF AfterDump
<1>2. main' \in {main, Json(v), Torn} /\ tmp' \in {tmp, Json(v), Torn}
  BY <1>1 DEF DumpAndClose
<1>3. fd' = [fd EXCEPT ![t] = "closed"] /\ fd \in [Threads -> Places]
  BY DEF DumpAndClose, FileOK
<1>4. FileOK(Contents)'
  <2>1. \A file \in {main', tmp'} :
          \/ file \in {Absent, Blank, Torn}
          \/ file.st = "json" /\ file \in [st : {"json"}, val : Contents]
    BY <1>2 DEF FileOK
  <2>2. fd' \in [Threads -> Places]
    BY <1>3 DEF Places
  <2>3. \A u \in Threads : fd'[u] = "tmp" => tmp' # Absent
    BY <1>2, <1>3 DEF FileOK
  <2> QED BY <2>1, <2>2, <2>3 DEF FileOK
<1>5. fd[t] = "tmp" /\ tmp = Blank /\ (\A u \in Threads \ {t} : fd[u] = "closed") => tmp' = Json(v)
  BY DEF DumpAndClose, AfterDump
<1> QED BY <1>2, <1>3, <1>4, <1>5 DEF Parsed, DumpAndClose

\* What a save step may leave in the files.
LEMMA SaveStepEffect ==
  ASSUME NEW Contents, StoreOK(Contents), NEW t \in Threads, SaveStep(t), main \in {Blank, Torn} => spoilt
  PROVE  /\ main' \in {main, tmp, Json(copy[t]), Torn} /\ (main' = tmp /\ tmp = Absent => main' = main)
         /\ tmp' \in {tmp, Json(copy[t]), Torn, Blank, Absent}
         /\ Saving(t) /\ spoilt' = (spoilt \/ main' \in {Blank, Torn})
         /\ \A u \in Threads \ {t} : saving'[u] = saving[u] /\ copy'[u] = copy[u]
         /\ Saving(t)' => copy'[t] = copy[t]
         /\ overlapped' \subseteq overlapped
<1>1. /\ saving \in [Threads -> {"no", "open", "dump", "replace", "remove"}]
      /\ copy \in [Threads -> Contents \cup {{}}] /\ spoilt \in BOOLEAN
  BY DEF StoreOK
<1>2. CASE Opens(t)
  BY <1>1, <1>2 DEF Opens, Goes, OpenTmp, NoteUnreadable, Saving
<1>3. CASE Dumps(t)
  <2>1. AfterDump(t, tmp, copy[t]) \subseteq {Json(copy[t]), Torn}
        /\ AfterDump(t, main, copy[t]) \subseteq {Json(copy[t]), Torn}
    BY DEF AfterDump
  <2>2. main' \in {main, Json(copy[t]), Torn} /\ tmp' \in {tmp, Json(copy[t]), Torn}
    BY <1>3, <2>1 DEF Dumps, DumpAndClose
  <2>3. main' = tmp /\ tmp = Absent => main' = main
    BY <2>2 DEF Json, Torn, Absent
  <2> QED BY <1>1, <1>3, <2>2, <2>3 DEF Dumps, Goes, NoteUnreadable, Saving
<1>4. CASE Replaces(t)
  BY <1>1, <1>4 DEF Replaces, Goes, Replace, Ends, NoteUnreadable, Saving
<1>5. CASE ReplaceRaises(t)
  <2>1. /\ saving[t] = "replace" /\ UNCHANGED <<main, tmp>>
        /\ \/ /\ saving' = [saving EXCEPT ![t] = "remove"]
              /\ UNCHANGED <<copy, overlapped, spoilt>>
           \/ /\ saving' = [saving EXCEPT ![t] = "no"] /\ copy' = [copy EXCEPT ![t] = {}]
              /\ overlapped' = overlapped \ {t} /\ spoilt' = (spoilt \/ main' \in {Blank, Torn})
    BY <1>5 DEF ReplaceRaises, Goes, Ends, NoteUnreadable, fileVars
  <2>2. spoilt' = (spoilt \/ main' \in {Blank, Torn})
    BY <1>1, <2>1
  <2> QED BY <1>1, <2>1, <2>2 DEF Saving
<1>6. CASE Removes(t)
  BY <1>1, <1>6 DEF Removes, Goes, RemoveTmp, Ends, NoteUnreadable, Saving
<1> QED BY <1>2, <1>3, <1>4, <1>5, <1>6 DEF SaveStep

LEMMA InitSInv ==
  ASSUME NEW Contents, StoreInit
  PROVE  SInv(Contents)
BY DEF StoreInit, FileInit, SInv, StoreOK, FileOK, ThreadTrue, AloneIsAtomic, RemovedStays,
       Saving, Alone, Absent, Blank, Torn, Json, Parsed, Places

LEMMA LoadsKeeps ==
  ASSUME NEW Contents, SInv(Contents), NEW t \in Threads, NEW v \in Contents, Loads(t, v)
  PROVE  SInv(Contents)'
<1> USE DEF SInv
<1>1. /\ saving[t] = "no" /\ saving' = [saving EXCEPT ![t] = "open"]
      /\ copy' = [copy EXCEPT ![t] = v] /\ base' = [base EXCEPT ![t] = Parsed(main)]
      /\ removed' = removed \ (v \ Parsed(main))
      /\ UNCHANGED <<main, tmp, fd, spoilt>>
  BY DEF Loads, Goes, fileVars
<1>2. /\ FileOK(Contents) /\ fd \in [Threads -> Places]
      /\ saving \in [Threads -> {"no", "open", "dump", "replace", "remove"}]
      /\ copy \in [Threads -> Contents \cup {{}}] /\ base \in [Threads -> Contents \cup {{}}]
      /\ overlapped \subseteq Threads /\ spoilt \in BOOLEAN /\ removed \subseteq UNION Contents
  BY DEF StoreOK, FileOK
<1>3. Parsed(main) \in Contents \cup {{}}
  BY <1>2 DEF FileOK, Parsed, Absent, Blank, Torn
<1> DEFINE others == {u \in Threads \ {t} : Saving(u)}
<1>4. overlapped' = IF others = {} THEN overlapped ELSE overlapped \cup others \cup {t}
  BY DEF Loads
<1>5. StoreOK(Contents)'
  <2>1. FileOK(Contents)'
    BY <1>1, <1>2 DEF FileOK
  <2>2. overlapped' \subseteq Threads
    BY <1>2, <1>4
  <2> QED BY <1>1, <1>2, <1>3, <2>1, <2>2 DEF StoreOK
<1>6. t \notin overlapped /\ fd[t] = "closed"
  BY <1>1 DEF ThreadTrue, Saving
<1>7. \A u \in Threads \ {t} : /\ saving'[u] = saving[u] /\ copy'[u] = copy[u] /\ base'[u] = base[u]
                                /\ ~Alone(u)'
  <2>1. ASSUME NEW u \in Threads \ {t} PROVE ~Alone(u)'
    <3>1. CASE Saving(u)
      BY <1>4, <3>1 DEF Alone
    <3>2. CASE ~Saving(u)
      BY <1>1, <1>2, <3>2 DEF Alone, Saving
    <3> QED BY <3>1, <3>2
  <2> QED BY <1>1, <1>2, <2>1
<1>8. saving'[t] = "open" /\ copy'[t] = v /\ base'[t] = Parsed(main)
  BY <1>1, <1>2
<1>9. \A u \in Threads : ThreadTrue(u)'
  <2>1. ThreadTrue(t)'
    <3>1. Alone(t)' => others = {}
      BY <1>4 DEF Alone
    <3>2. others = {} => \A u \in Threads \ {t} : ~Saving(u)'
      BY <1>7 DEF Saving
    <3> QED BY <1>1, <1>6, <1>8, <3>1, <3>2 DEF ThreadTrue, Saving
  <2>2. ASSUME NEW u \in Threads \ {t} PROVE ThreadTrue(u)'
    <3>1. ~Saving(u) => u \notin overlapped'
      BY <1>4 DEF ThreadTrue
    <3> QED BY <1>1, <1>7, <3>1 DEF ThreadTrue, Saving
  <2> QED BY <2>1, <2>2
<1>10. AloneIsAtomic'
  BY <1>1, <1>7, <1>8 DEF AloneIsAtomic, Parsed
<1>11. RemovedStays'
  <2>1. removed' \cap v = {}
    BY <1>1 DEF RemovedStays
  <2>2. UNION {copy'[u] : u \in Threads} \subseteq v \cup UNION {copy[u] : u \in Threads}
    BY <1>7, <1>8
  <2>3. removed' \subseteq removed
    BY <1>1
  <2> QED BY <1>1, <2>1, <2>2, <2>3 DEF RemovedStays, Parsed
<1> QED BY <1>1, <1>5, <1>9, <1>10, <1>11

\* A save step of t leaves the others what they hold.
OthersKept(t) ==
  \A u \in Threads \ {t} : /\ saving'[u] = saving[u] /\ copy'[u] = copy[u] /\ base'[u] = base[u]
                           /\ (fd'[u] # "closed" => fd[u] # "closed")

\* Such a step is made while t saves, so that nobody else is alone.
LEMMA SaverKeeps ==
  ASSUME NEW Contents, SInv(Contents), StoreOK(Contents)', NEW t \in Threads, Saving(t), OthersKept(t),
         overlapped' \in {overlapped, overlapped \ {t}},
         ThreadTrue(t)',
         Alone(t)' => base'[t] = Parsed(main)' /\ (saving'[t] = "replace" => tmp' = Json(copy'[t])),
         RemovedStays',
         main' \in {Blank, Torn} => spoilt'
  PROVE  SInv(Contents)'
<1> USE DEF SInv
<1>1. \A u \in Threads \ {t} : ~Alone(u) /\ ~Alone(u)'
  <2>1. \A u \in Threads \ {t} : ~Alone(u)
    BY DEF ThreadTrue
  <2> QED BY <2>1 DEF Alone, Saving, OthersKept
<1>2. \A u \in Threads \ {t} : ThreadTrue(u)'
  BY <1>1 DEF ThreadTrue, Saving, OthersKept
<1>3. AloneIsAtomic'
  BY <1>1 DEF AloneIsAtomic
<1> QED BY <1>2, <1>3

LEMMA SaveStepKeeps ==
  ASSUME NEW Contents, SInv(Contents), NEW t \in Threads, SaveStep(t), {} \in Contents
  PROVE  /\ SInv(Contents)'
         /\ spoilt' # spoilt => overlapped # {}
<1> USE DEF SInv
<1>1. /\ FileOK(Contents) /\ fd \in [Threads -> Places]
      /\ saving \in [Threads -> {"no", "open", "dump", "replace", "remove"}]
      /\ copy \in [Threads -> Contents] /\ base \in [Threads -> Contents]
      /\ overlapped \subseteq Threads /\ spoilt \in BOOLEAN /\ removed \subseteq UNION Contents
  BY DEF StoreOK, FileOK
<1>2. CASE Opens(t)
  <2>1. /\ saving[t] = "open" /\ saving' = [saving EXCEPT ![t] = "dump"]
        /\ tmp' = Blank /\ main' = main /\ fd' = [fd EXCEPT ![t] = "tmp"]
        /\ spoilt' = spoilt /\ UNCHANGED <<copy, base, overlapped, removed>>
    BY <1>1, <1>2 DEF Opens, Goes, OpenTmp, NoteUnreadable
  <2>2. FileOK(Contents)'
    BY <1>1, <2>1 DEF FileOK, Places, Absent, Blank, Torn
  <2>3. StoreOK(Contents)' /\ OthersKept(t)
    BY <1>1, <2>1, <2>2 DEF StoreOK, OthersKept
  <2>4. ThreadTrue(t)'
    BY <1>1, <2>1 DEF ThreadTrue, Alone, Saving
  <2>5. RemovedStays'
    BY <2>1 DEF RemovedStays, Parsed, Blank
  <2>6. Alone(t)' => base'[t] = Parsed(main)'
    BY <1>1, <2>1 DEF Alone, Saving, AloneIsAtomic, Parsed
  <2> QED BY <1>1, <2>1, <2>3, <2>4, <2>5, <2>6, SaverKeeps DEF Saving
<1>3. CASE Dumps(t)
  <2>1. /\ saving[t] = "dump" /\ saving' = [saving EXCEPT ![t] = "replace"]
        /\ DumpAndClose(t, copy[t]) /\ spoilt' = (spoilt \/ main' \in {Blank, Torn})
        /\ UNCHANGED <<copy, base, overlapped, removed>>
    BY <1>3 DEF Dumps, Goes, NoteUnreadable
  <2>2. /\ FileOK(Contents)'
        /\ Parsed(main)' \subseteq Parsed(main) \cup copy[t]
        /\ Parsed(tmp)' \subseteq Parsed(tmp) \cup copy[t]
        /\ fd[t] # "main" => main' = main
        /\ fd[t] = "tmp" /\ tmp = Blank /\ (\A u \in Threads \ {t} : fd[u] = "closed")
             => tmp' = Json(copy[t])
        /\ fd' = [fd EXCEPT ![t] = "closed"]
    BY <1>1, <2>1, DumpFacts
  <2>3. StoreOK(Contents)' /\ OthersKept(t)
    BY <1>1, <2>1, <2>2 DEF StoreOK, OthersKept
  <2>4. Alone(t) => main' = main /\ tmp' = Json(copy[t])
    <3>1. Alone(t) => \A u \in Threads \ {t} : fd[u] = "closed"
      BY DEF ThreadTrue, Saving
    <3> QED BY <2>1, <2>2, <3>1 DEF ThreadTrue
  <2>5. ThreadTrue(t)'
    BY <1>1, <2>1, <2>2 DEF ThreadTrue, Alone, Saving
  <2>6. RemovedStays'
    <3>1. copy[t] \subseteq UNION {copy[u] : u \in Threads}
      OBVIOUS
    <3> QED BY <2>1, <2>2, <3>1 DEF RemovedStays
  <2>7. Alone(t)' => base'[t] = Parsed(main)' /\ tmp' = Json(copy'[t])
    BY <1>1, <2>1, <2>4 DEF Alone, Saving, AloneIsAtomic, Parsed
  <2>8. spoilt' # spoilt => overlapped # {}
    BY <1>1, <2>1, <2>4 DEF Alone, Saving
  <2> QED BY <1>1, <2>1, <2>3, <2>5, <2>6, <2>7, <2>8, SaverKeeps DEF Saving
<1>4. CASE Replaces(t)
  <2>1. /\ saving[t] = "replace" /\ saving' = [saving EXCEPT ![t] = "no"]
        /\ tmp # Absent /\ main' = tmp /\ tmp' = Absent
        /\ fd' = [u \in Threads |-> Renamed[fd[u]]]
        /\ removed' = removed \cup (IF Alone(t) THEN base[t] \ copy[t] ELSE {})
        /\ copy' = [copy EXCEPT ![t] = {}] /\ base' = [base EXCEPT ![t] = {}]
        /\ overlapped' = overlapped \ {t} /\ spoilt' = (spoilt \/ main' \in {Blank, Torn})
    BY <1>4 DEF Replaces, Goes, Replace, Ends, NoteUnreadable
  <2>2. \A u \in Threads : /\ Renamed[fd[u]] \in Places /\ Renamed[fd[u]] # "tmp"
                           /\ Renamed[fd[u]] # "closed" => fd[u] # "closed"
    BY <1>1 DEF Renamed, Places
  <2>3. FileOK(Contents)'
    BY <1>1, <2>1, <2>2 DEF FileOK, Absent, Blank, Torn
  <2>4. StoreOK(Contents)' /\ OthersKept(t)
    <3>1. base[t] \ copy[t] \subseteq UNION Contents
      BY <1>1
    <3>2. removed' \subseteq UNION Contents
      BY <1>1, <2>1, <3>1
    <3> QED BY <1>1, <2>1, <2>2, <2>3, <3>2 DEF StoreOK, OthersKept
  <2>5. fd[t] = "closed"
    BY <2>1 DEF ThreadTrue
  <2>6. ThreadTrue(t)'
    BY <1>1, <2>1, <2>2, <2>5 DEF ThreadTrue, Alone, Saving
  <2>7. RemovedStays'
    <3>1. \A u \in Threads : copy'[u] \subseteq copy[u]
      BY <1>1, <2>1
    <3>2. UNION {copy'[u] : u \in Threads} \subseteq UNION {copy[u] : u \in Threads}
      BY <3>1
    <3>3. Parsed(main)' = Parsed(tmp) /\ Parsed(tmp)' = {}
      BY <2>1 DEF Parsed, Absent
    <3>4. CASE ~Alone(t)
      BY <2>1, <3>2, <3>3, <3>4 DEF RemovedStays
    <3>5. CASE Alone(t)
      <4>1. tmp = Json(copy[t])
        BY <2>1, <3>5 DEF AloneIsAtomic
      <4>2. Parsed(tmp) = copy[t]
        BY <4>1 DEF Json, Parsed
      <4>3. \A u \in Threads : copy'[u] = {}
        BY <1>1, <2>1, <3>5 DEF ThreadTrue
      <4> QED BY <2>1, <3>3, <4>2, <4>3 DEF RemovedStays
    <3> QED BY <3>4, <3>5
  <2>8. ~Alone(t)'
    BY <1>1, <2>1 DEF Alone, Saving
  <2>9. spoilt' # spoilt => overlapped # {}
    <3>1. Alone(t) => main' \notin {Blank, Torn}
      BY <2>1 DEF AloneIsAtomic, Json, Blank, Torn
    <3> QED BY <1>1, <2>1, <3>1 DEF Alone, Saving
  <2> QED BY <1>1, <2>1, <2>4, <2>6, <2>7, <2>8, <2>9, SaverKeeps DEF Saving
<1>5. ~Alone(t) \/ tmp # Absent \/ saving[t] # "replace"
  BY DEF AloneIsAtomic, Json, Absent
<1>6. CASE ReplaceRaises(t)
  <2>1. /\ tmp = Absent /\ saving[t] = "replace" /\ UNCHANGED <<main, tmp, fd, removed, spoilt>>
        /\ \/ saving' = [saving EXCEPT ![t] = "remove"] /\ UNCHANGED <<copy, base, overlapped>>
           \/ /\ saving' = [saving EXCEPT ![t] = "no"]
              /\ copy' = [copy EXCEPT ![t] = {}] /\ base' = [base EXCEPT ![t] = {}]
              /\ overlapped' = overlapped \ {t}
    BY <1>1, <1>6 DEF ReplaceRaises, Goes, Ends, NoteUnreadable, fileVars
  <2>2. FileOK(Contents)' /\ fd[t] = "closed" /\ t \in overlapped
    BY <1>1, <1>5, <2>1 DEF FileOK, ThreadTrue, Alone, Saving
  <2>3. StoreOK(Contents)' /\ OthersKept(t)
    BY <1>1, <2>1, <2>2 DEF StoreOK, OthersKept
  <2>4. ThreadTrue(t)' /\ ~Alone(t)'
    BY <1>1, <2>1, <2>2 DEF ThreadTrue, Alone, Saving
  <2>5. RemovedStays'
    <3>1. \A u \in Threads : copy'[u] \subseteq copy[u]
      BY <1>1, <2>1
    <3>2. UNION {copy'[u] : u \in Threads} \subseteq UNION {copy[u] : u \in Threads}
      BY <3>1
    <3> QED BY <2>1, <3>2 DEF RemovedStays, Parsed
  <2> QED BY <2>1, <2>3, <2>4, <2>5, SaverKeeps DEF Saving
<1>7. CASE Removes(t)
  <2>1. /\ saving[t] = "remove" /\ saving' = [saving EXCEPT ![t] = "no"]
        /\ tmp' = Absent /\ main' = main
        /\ fd' = [u \in Threads |-> IF fd[u] = "tmp" THEN "unlinked" ELSE fd[u]]
        /\ copy' = [copy EXCEPT ![t] = {}] /\ base' = [base EXCEPT ![t] = {}]
        /\ overlapped' = overlapped \ {t} /\ spoilt' = spoilt /\ removed' = removed
    BY <1>1, <1>7 DEF Removes, Goes, RemoveTmp, Ends, NoteUnreadable
  <2>2. FileOK(Contents)' /\ fd[t] = "closed"
    BY <1>1, <2>1 DEF FileOK, ThreadTrue, Places, Absent
  <2>3. StoreOK(Contents)' /\ OthersKept(t)
    BY <1>1, <2>1, <2>2 DEF StoreOK, OthersKept
  <2>4. ThreadTrue(t)' /\ ~Alone(t)'
    BY <1>1, <2>1, <2>2 DEF ThreadTrue, Alone, Saving
  <2>5. RemovedStays'
    <3>1. \A u \in Threads : copy'[u] \subseteq copy[u]
      BY <1>1, <2>1
    <3>2. UNION {copy'[u] : u \in Threads} \subseteq UNION {copy[u] : u \in Threads}
      BY <3>1
    <3> QED BY <2>1, <3>2 DEF RemovedStays, Parsed, Absent
  <2> QED BY <2>1, <2>3, <2>4, <2>5, SaverKeeps DEF Saving
<1> QED BY <1>2, <1>3, <1>4, <1>6, <1>7 DEF SaveStep

LEMMA CrashKeeps ==
  ASSUME NEW Contents, SInv(Contents), StoreCrash, {} \in Contents
  PROVE  SInv(Contents)'
<1> USE DEF SInv
<1>1. /\ fd' = [t \in Threads |-> "closed"] /\ UNCHANGED <<main, tmp, spoilt, removed>>
      /\ saving' = [t \in Threads |-> "no"] /\ overlapped' = {}
      /\ copy' = [t \in Threads |-> {}] /\ base' = [t \in Threads |-> {}]
  BY DEF StoreCrash, CloseAll
<1>2. FileOK(Contents)'
  BY <1>1 DEF StoreOK, FileOK, Places
<1>3. StoreOK(Contents)'
  BY <1>1, <1>2 DEF StoreOK
<1>4. \A t \in Threads : ThreadTrue(t)' /\ ~Alone(t)'
  BY <1>1 DEF ThreadTrue, Alone, Saving
<1>5. RemovedStays'
  BY <1>1 DEF RemovedStays, Parsed
<1> QED BY <1>1, <1>3, <1>4, <1>5 DEF AloneIsAtomic

LEMMA StoreNextKeeps ==
  ASSUME NEW Contents, {} \in Contents, SInv(Contents), [StoreNext(Contents)]_storeVars
  PROVE  SInv(Contents)' /\ [spoilt' # spoilt => overlapped # {}]_storeVars
<1>1. CASE UNCHANGED storeVars
  <2>1. UNCHANGED <<main, tmp, fd, saving, copy, base, overlapped, spoilt, removed>>
    BY <1>1 DEF storeVars, histVars, fileVars
  <2>2. SInv(Contents)'
    BY <2>1 DEF SInv, StoreOK, FileOK, ThreadTrue, AloneIsAtomic, RemovedStays, Alone, Saving, Parsed
  <2> QED BY <1>1, <2>2
<1>2. CASE StoreNext(Contents)
  <2>1. ASSUME NEW t \in Threads, NEW v \in Contents, Loads(t, v)
        PROVE  SInv(Contents)' /\ spoilt' = spoilt
    BY <2>1, LoadsKeeps DEF Loads
  <2>2. CASE StoreCrash
    BY <2>2, CrashKeeps DEF StoreCrash
  <2> QED BY <1>2, <2>1, <2>2, SaveStepKeeps DEF StoreNext
<1> QED BY <1>1, <1>2

\* What holds of every store: its types, atomic saves where none overlap, removals that
\* last, and that only overlapping saves spoil the file.
THEOREM StoreInvariance ==
  ASSUME NEW Contents, {} \in Contents
  PROVE  StoreSpec(Contents) => [](SInv(Contents)) /\ SpoiltByOverlap
<1>1. StoreInit => SInv(Contents)
  BY InitSInv
<1>2. SInv(Contents) /\ [StoreNext(Contents)]_storeVars
        => SInv(Contents)' /\ [spoilt' # spoilt => overlapped # {}]_storeVars
  BY StoreNextKeeps
<1> QED
  BY <1>1, <1>2, PTL DEF StoreSpec, SpoiltByOverlap
==============================================================================
