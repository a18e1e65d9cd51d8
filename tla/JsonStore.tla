------------------------------ MODULE JsonStore ------------------------------
(***************************************************************************)
(* The stores of the Web backend whose handlers load a JSON file, change   *)
(* their copy and write it back whole, each in a request thread of its own *)
(* and without a lock: the accounts, and the mapping of files to sessions. *)
(***************************************************************************)
EXTENDS TmpFile

CONSTANT RemovesTmp     \* a save that fails removes the temporary file

VARIABLES saving,       \* where each thread is in its read-modify-write
          copy,         \* the content it is going to write
          base,         \* history: the content it loaded
          overlapped,   \* history: threads whose read-modify-write overlaps another
          spoilt,       \* history: the file has been found blank or torn
          removed       \* history: records taken out by saves that no other overlapped

histVars == <<base, overlapped, spoilt, removed>>
storeVars == <<fileVars, saving, copy, histVars>>

StoreInit ==
  /\ FileInit
  /\ saving = [t \in Threads |-> "no"]
  /\ copy = [t \in Threads |-> {}]
  /\ base = [t \in Threads |-> {}]
  /\ overlapped = {}
  /\ spoilt = FALSE
  /\ removed = {}

Saving(t) == saving[t] # "no"
Alone(t) == Saving(t) /\ t \notin overlapped

Goes(t, from, to) == saving[t] = from /\ saving' = [saving EXCEPT ![t] = to]

NoteUnreadable == spoilt' = (spoilt \/ main' \in {Blank, Torn})

\* t has loaded the file and will write v: whoever is between its own load and replace
\* is overlapped from now on.  What t adds anew may come back.
Loads(t, v) ==
  /\ Goes(t, "no", "open")
  /\ copy' = [copy EXCEPT ![t] = v]
  /\ base' = [base EXCEPT ![t] = Parsed(main)]
  /\ LET others == {u \in Threads \ {t} : Saving(u)} IN
       overlapped' = IF others = {} THEN overlapped ELSE overlapped \cup others \cup {t}
  /\ removed' = removed \ (v \ Parsed(main))
  /\ UNCHANGED <<fileVars, spoilt>>

Opens(t) ==
  /\ Goes(t, "open", "dump")
  /\ OpenTmp(t)
  /\ NoteUnreadable
  /\ UNCHANGED <<copy, base, overlapped, removed>>

Dumps_Merging(t) ==
  /\ Goes(t, "dump", "replace")
  /\ DumpAndClose(t, copy[t] \cup Parsed(main))
  /\ NoteUnreadable
  /\ UNCHANGED <<copy, base, overlapped, removed>>

Dumps(t) ==
  /\ Goes(t, "dump", "replace")
  /\ DumpAndClose(t, copy[t])
  /\ NoteUnreadable
  /\ UNCHANGED <<copy, base, overlapped, removed>>

Ends(t) ==
  /\ copy' = [copy EXCEPT ![t] = {}]
  /\ base' = [base EXCEPT ![t] = {}]
  /\ overlapped' = overlapped \ {t}
  /\ NoteUnreadable

Replaces(t) ==
  /\ Goes(t, "replace", "no")
  /\ Replace
  /\ removed' = removed \cup (IF Alone(t) THEN base[t] \ copy[t] ELSE {})
  /\ Ends(t)

\* Another writer has renamed the temporary file away: the exception is swallowed.
ReplaceRaises(t) ==
  /\ tmp = Absent
  /\ UNCHANGED <<fileVars, removed>>
  /\ \/ RemovesTmp /\ Goes(t, "replace", "remove") /\ UNCHANGED <<copy, base, overlapped, spoilt>>
     \/ ~RemovesTmp /\ Goes(t, "replace", "no") /\ Ends(t)

\* A temporary file that exists by now, whoever made it, is removed.
Removes(t) ==
  /\ Goes(t, "remove", "no")
  /\ RemoveTmp
  /\ Ends(t)
  /\ UNCHANGED removed

SaveStep(t) == Opens(t) \/ Dumps(t) \/ Replaces(t) \/ ReplaceRaises(t) \/ Removes(t)

\* The server process dies.
StoreCrash ==
  /\ CloseAll
  /\ saving' = [t \in Threads |-> "no"]
  /\ copy' = [t \in Threads |-> {}]
  /\ base' = [t \in Threads |-> {}]
  /\ overlapped' = {}
  /\ UNCHANGED <<spoilt, removed>>

\* All the steps of a store of such contents.
StoreNext(Contents) ==
  \/ \E t \in Threads : (\E v \in Contents : Loads(t, v)) \/ SaveStep(t)
  \/ StoreCrash

StoreSpec(Contents) == StoreInit /\ [][StoreNext(Contents)]_storeVars

------------------------------------------------------------------------------
(* Properties of every such store.                                           *)

\* Types: the files, where the threads are and what they hold.
StoreOK(Contents) ==
  /\ FileOK(Contents)
  /\ saving \in [Threads -> {"no", "open", "dump", "replace", "remove"}]
  /\ copy \in [Threads -> Contents \cup {{}}]
  /\ base \in [Threads -> Contents \cup {{}}]
  /\ overlapped \subseteq Threads
  /\ spoilt \in BOOLEAN
  /\ removed \subseteq UNION Contents

\* A read-modify-write that no other overlaps is as good as atomic, whatever crashes,
\* failures and races came before: when it replaces the file, the file is still what it
\* loaded, and what it puts there is its copy.
AloneIsAtomic ==
  \A t \in Threads :
    Alone(t) => base[t] = Parsed(main) /\ (saving[t] = "replace" => tmp = Json(copy[t]))

\* What such a save took out (a deleted account, an old password, a file's session)
\* never comes back by itself, however later saves overlap or fail: only when it is
\* put in anew.
RemovedStays ==
  removed \cap (Parsed(main) \cup Parsed(tmp) \cup UNION {copy[t] : t \in Threads}) = {}

\* The file is only spoilt while saves overlap: never by one that fails, nor by a crash.
SpoiltByOverlap == [][spoilt' # spoilt => overlapped # {}]_storeVars
==============================================================================
