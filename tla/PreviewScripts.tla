---------------------------- MODULE PreviewScripts ----------------------------
(***************************************************************************)
(* The directories that hold generated scripts (planning/full_preview.py,   *)
(* utils/segmentation.py, utils/cleanup.py): a preview writes its scripts   *)
(* to a directory named for its seed and copies them to the runtime         *)
(* directory; a run writes its own there, where the nodes of its session    *)
(* execute them.  (The preview a run would make first fails: cli.py imports *)
(* its function further down, inside main.)                                 *)
(*                                                                         *)
(* req: for each preview or run its kind, seed and the names of its         *)
(* scripts; how many old directories the clean-up keeps.  A directory is a  *)
(* function from names to what is in the script: whose it is and from which *)
(* job.  Dirs 0 is the runtime directory.                                   *)
(***************************************************************************)
EXTENDS Naturals, Sequences, Functions, FiniteSets

VARIABLES req, plan

vars == <<req, plan>>

Runtime == 0
Kinds == {"preview", "run"}
Jobs(kind) == IF kind = "run" THEN <<"apply">> ELSE <<"plan", "copy">>
Requests == [users : Seq([kind : Kinds, seed : Nat \ {0}, names : SUBSET Nat]),
             keep : Nat]

Users == DOMAIN req.users
Previews == {u \in Users : req.users[u].kind = "preview"}
Seeds == {req.users[u].seed : u \in Previews}
Empty == [n \in {} |-> 0]

\* newer: for each directory of a seed, those last written after it.  touched: who has
\* changed a directory since a user last listed it.
Begun ==
  [dir |-> [d \in Seeds \cup {Runtime} |-> Empty], newer |-> <<>>,
   pc |-> [u \in Users |-> "idle"], job |-> [u \in Users |-> 1],
   todo |-> [u \in Users |-> {}],
   touched |-> [d \in Seeds \cup {Runtime} |-> [u \in Users |-> {}]]]

Init == req \in Requests /\ plan = Begun

Job(u) == Jobs(req.users[u].kind)[plan.job[u]]
Seed(u) == req.users[u].seed
Target(u) == IF Job(u) = "plan" THEN Seed(u) ELSE Runtime
At(u, pc) == plan.pc[u] = pc /\ UNCHANGED req

Touches(u) ==
  [plan.touched EXCEPT ![Target(u)] = [v \in Users |-> @[v] \cup {u}]]
Used(d) == IF d = Runtime THEN plan.newer
           ELSE [e \in DOMAIN plan.newer \cup {d} |-> IF e = d THEN {} ELSE plan.newer[e] \cup {d}]

Lists_KeepsOld(u) ==
  /\ At(u, "idle")
  /\ plan' = [plan EXCEPT !.pc[u] = "clean", !.newer = Used(Target(u)),
                          !.touched[Target(u)][u] = {}]

\* A job lists the directory it is about to fill,
Lists(u) ==
  /\ At(u, "idle")
  /\ plan' = [plan EXCEPT !.pc[u] = "clean", !.todo[u] = DOMAIN plan.dir[Target(u)],
                          !.newer = Used(Target(u)),
                          !.touched[Target(u)][u] = {}]

\* removes what it listed, file by file,
Unlinks(u) ==
  /\ At(u, "clean")
  /\ \E n \in plan.todo[u] :
       plan' = [plan EXCEPT !.todo[u] = @ \ {n},
                            !.dir[Target(u)] = Restrict(@, DOMAIN @ \ {n}),
                            !.touched = Touches(u)]

\* and takes up what there is to write: a copy, what its preview's directory holds now.
Cleaned(u) ==
  /\ At(u, "clean") /\ plan.todo[u] = {}
  /\ plan' = [plan EXCEPT !.pc[u] = "fill",
                          !.todo[u] = IF Job(u) = "copy" THEN DOMAIN plan.dir[Seed(u)]
                                      ELSE req.users[u].names]

\* A file that has gone in the meantime is not copied.
With(d, n, content) == [m \in DOMAIN d \cup {n} |-> IF m = n THEN content ELSE d[m]]
Writes(u) ==
  /\ At(u, "fill")
  /\ \E n \in plan.todo[u] :
       LET own == [by |-> u, job |-> Job(u)]
           source == plan.dir[Seed(u)]
           content == IF Job(u) # "copy" THEN own ELSE source[n]
           gone == Job(u) = "copy" /\ n \notin DOMAIN source
       IN  plan' = [plan EXCEPT
                     !.todo[u] = @ \ {n},
                     !.dir[Target(u)] = IF gone THEN @ ELSE With(@, n, content),
                     !.newer = Used(Target(u)),
                     !.touched = IF gone THEN @ ELSE Touches(u)]

\* After its copy a preview removes directories of other seeds: the newest few stay, and
\* those not older than a day, among them every one a user is at work with.
AtWork(u) == plan.pc[u] \in {"clean", "fill"} \/ (plan.pc[u] = "idle" /\ plan.job[u] > 1)
InUse == {Seed(u) : u \in {v \in Previews : AtWork(v)}}
Filled(u) ==
  /\ At(u, "fill") /\ plan.todo[u] = {}
  /\ LET removable == {d \in DOMAIN plan.newer \ InUse :
                         d # Seed(u) /\ Cardinality(plan.newer[d] \ {Seed(u)}) >= req.keep}
         last == plan.job[u] = Len(Jobs(req.users[u].kind))
     IN  \E old \in (IF Job(u) = "copy" THEN SUBSET removable ELSE {{}}) :
           plan' = [plan EXCEPT
                     !.pc[u] = IF last THEN "done" ELSE "idle",
                     !.job[u] = IF last THEN @ ELSE @ + 1,
                     !.dir = [d \in DOMAIN @ |-> IF d \in old THEN Empty ELSE @[d]],
                     !.newer = [d \in DOMAIN @ \ old |-> @[d] \ old]]

Next == \E u \in Users : Lists(u) \/ Unlinks(u) \/ Cleaned(u) \/ Writes(u) \/ Filled(u)

Spec == Init /\ [][Next]_vars

-----------------------------------------------------------------------------
\* The scripts a user puts into the runtime directory.
Final(u) == IF req.users[u].kind = "run" THEN "apply" ELSE "plan"
Own(u) == [n \in req.users[u].names |-> [by |-> u, job |-> Final(u)]]
Undisturbed(u, d) == plan.touched[d][u] \subseteq {u}

\* When the session of a run starts, or a preview is shown, the runtime directory holds its
\* own scripts, all of them and none left from before, unless someone else has changed the
\* directory since it was listed; for a preview, also the directory of its seed.
OwnScriptsUnlessTouched ==
  \A u \in Users :
    /\ plan.pc[u] = "done"
    /\ Undisturbed(u, Runtime)
    /\ req.users[u].kind = "run" \/ Undisturbed(u, Seed(u))
    => plan.dir[Runtime] = Own(u)

=============================================================================
