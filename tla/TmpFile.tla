------------------------------- MODULE TmpFile -------------------------------
(***************************************************************************)
(* The way every JSON store of the Web backend rewrites its file: dump the *)
(* new content to <path>.tmp, then os.replace it over <path>.  The name of *)
(* the temporary file is fixed, so all writers share it, and a writer that *)
(* opened it keeps writing to the file it opened wherever that file has    *)
(* been moved in the meantime: that is what fd records.                    *)
(***************************************************************************)
LOCAL INSTANCE Integers

CONSTANT Threads    \* whoever reads or rewrites the file

VARIABLES main,     \* what <path> holds
          tmp,      \* what <path>.tmp holds
          fd        \* where the file each thread has open is linked now

fileVars == <<main, tmp, fd>>

\* A file is absent, blank (opened for writing, nothing flushed yet), torn
\* (what is in it is not JSON), or holds the JSON of a set of records.
Absent == [st |-> "absent", val |-> {}]
Blank == [st |-> "blank", val |-> {}]
Torn == [st |-> "torn", val |-> {}]
Json(v) == [st |-> "json", val |-> v]

Places == {"closed", "tmp", "main", "unlinked"}

\* A tolerant loader: a missing file and a file that is no JSON read as empty.
Parsed(file) == IF file.st = "json" THEN file.val ELSE {}

FileInit ==
  /\ main = Absent
  /\ tmp = Absent
  /\ fd = [t \in Threads |-> "closed"]

OpenTmp_InPlace(t) ==
  /\ main' = Blank
  /\ fd' = [fd EXCEPT ![t] = "main"]
  /\ tmp' = Blank

\* open(tmp, 'w') truncates the file of whoever has it open already.
OpenTmp(t) ==
  /\ tmp' = Blank
  /\ fd' = [fd EXCEPT ![t] = "tmp"]
  /\ main' = main

\* Two writers of one file start at offset 0 each: unless the file is blank and
\* the thread's alone, the shorter text may be followed by the rest of the other.
AfterDump(t, old, v) ==
  IF old.st = "blank" /\ \A u \in Threads \ {t} : fd[u] # fd[t]
    THEN {Json(v)} ELSE {Json(v), Torn}

\* json.dump(v, f) and the close at the end of the with block.
DumpAndClose(t, v) ==
  /\ \/ /\ fd[t] = "tmp"
        /\ tmp' \in AfterDump(t, tmp, v)
        /\ main' = main
     \/ /\ fd[t] = "main"
        /\ main' \in AfterDump(t, main, v)
        /\ tmp' = tmp
     \/ /\ fd[t] = "unlinked"
        /\ UNCHANGED <<main, tmp>>
  /\ fd' = [fd EXCEPT ![t] = "closed"]

\* json.dump raises: what it has written by then stays in the file.
TearAndClose(t) ==
  /\ \/ fd[t] = "tmp" /\ tmp' = Torn /\ main' = main
     \/ fd[t] = "main" /\ main' = Torn /\ tmp' = tmp
     \/ fd[t] = "unlinked" /\ UNCHANGED <<main, tmp>>
  /\ fd' = [fd EXCEPT ![t] = "closed"]

\* os.replace(tmp, path): the file in place is unlinked, tmp takes its name.
Renamed == [closed |-> "closed", tmp |-> "main", main |-> "unlinked", unlinked |-> "unlinked"]

Replace ==
  /\ tmp # Absent
  /\ main' = tmp
  /\ tmp' = Absent
  /\ fd' = [t \in Threads |-> Renamed[fd[t]]]

\* os.remove(tmp) if it exists.
RemoveTmp ==
  /\ tmp' = Absent
  /\ fd' = [t \in Threads |-> IF fd[t] = "tmp" THEN "unlinked" ELSE fd[t]]
  /\ main' = main

\* The process dies: open files are closed, what is on disk stays.
CloseAll ==
  /\ fd' = [t \in Threads |-> "closed"]
  /\ UNCHANGED <<main, tmp>>

FileOK(Values) ==
  /\ \A file \in {main, tmp} :
       \/ file \in {Absent, Blank, Torn}
       \/ file.st = "json" /\ file \in [st : {"json"}, val : Values]
  /\ fd \in [Threads -> Places]
  /\ \A t \in Threads : fd[t] = "tmp" => tmp # Absent
==============================================================================
