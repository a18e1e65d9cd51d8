---------------------------- MODULE AccountsProofs ----------------------------
(* Proofs about Accounts, for every set of threads, clients, names and       *)
(* passwords and every number of requests and crashes.                       *)
EXTENDS Accounts, JsonStoreProofs

Lists == SUBSET Users

------------------------------------------------------------------------------
(* The accounts are a store: each step is one of the store, or leaves it.    *)

LEMMA NextIsStoreNext == TypeOK /\ [Next]_vars => [StoreNext(Lists)]_storeVars
<1> SUFFICES ASSUME TypeOK, [Next]_vars PROVE [StoreNext(Lists)]_storeVars
  OBVIOUS
<1> USE DEF Lists
<1>0. Parsed(main) \in Lists
  BY DEF TypeOK, StoreOK, FileOK, Parsed, Absent, Blank, Torn
<1>1. CASE EnsureAdminUser
  <2>1. PICK u \in Seeds(Parsed(main)) : Loads(Boot, Parsed(main) \cup {u})
    BY <1>1 DEF EnsureAdminUser
  <2>2. u \in Users
    BY <2>1, NamesAssumption DEF Seeds, Users, Roles
  <2>3. Parsed(main) \cup {u} \in Lists
    BY <1>0, <2>2
  <2> QED BY <2>1, <2>3, BootAssumption DEF StoreNext
<1>2. ASSUME NEW t \in Threads, NEW users \in Lists, Writes(t, users)
      PROVE  StoreNext(Lists)
  BY <1>2 DEF Writes, StoreNext
<1>3. ASSUME NEW t \in Threads, NEW c \in Clients,
             UsersCreate(t, c) \/ UsersDelete(t, c) \/ UsersPassword(t, c) \/ MePassword(t, c)
      PROVE  StoreNext(Lists)
  <2>1. CASE UsersCreate(t, c)
    <3>1. PICK u \in Users : Writes(t, Parsed(main) \cup {u})
      BY <2>1 DEF UsersCreate
    <3>2. Parsed(main) \cup {u} \in Lists
      BY <1>0
    <3> QED BY <1>2, <3>1, <3>2
  <2>2. CASE UsersDelete(t, c)
    <3>1. PICK n \in Names : Writes(t, {u \in Parsed(main) : u.name # n})
      BY <2>2 DEF UsersDelete
    <3>2. {u \in Parsed(main) : u.name # n} \in Lists
      BY <1>0
    <3> QED BY <1>2, <3>1, <3>2
  <2>3. ASSUME NEW u \in Parsed(main), NEW pwd \in Passwords
        PROVE  Changed(Parsed(main), u, pwd) \in Lists
    <3>1. u \in Users
      BY <1>0
    <3>2. [u EXCEPT !.password = pwd] \in Users
      BY <3>1 DEF Users
    <3> QED BY <1>0, <3>2 DEF Changed
  <2>4. CASE UsersPassword(t, c)
    <3>1. PICK n \in Names, pwd \in Passwords :
            \E u \in First(Parsed(main), n) : Writes(t, Changed(Parsed(main), u, pwd))
      BY <2>4 DEF UsersPassword
    <3>2. PICK u \in First(Parsed(main), n) : Writes(t, Changed(Parsed(main), u, pwd))
      BY <3>1
    <3> QED BY <1>2, <2>3, <3>2 DEF First
  <2>5. CASE MePassword(t, c)
    <3>1. PICK pwd \in Passwords :
            \E u \in First(Parsed(main), cookie[c].name) : Writes(t, Changed(Parsed(main), u, pwd))
      BY <2>5 DEF MePassword
    <3>2. PICK u \in First(Parsed(main), cookie[c].name) : Writes(t, Changed(Parsed(main), u, pwd))
      BY <3>1
    <3> QED BY <1>2, <2>3, <3>2 DEF First
  <2> QED BY <1>3, <2>1, <2>2, <2>4, <2>5
<1>4. ASSUME NEW c \in Clients, Login(c) \/ Logout(c)
      PROVE  UNCHANGED storeVars
  BY <1>4 DEF Login, Logout
<1>5. CASE Serves \/ UNCHANGED vars
  BY <1>5 DEF Serves, vars
<1>6. ASSUME NEW t \in Threads, Saves(t)
      PROVE  StoreNext(Lists)
  BY <1>6 DEF Saves, StoreNext
<1>7. CASE Crash
  BY <1>7 DEF Crash, StoreNext
<1> QED BY <1>1, <1>3, <1>4, <1>5, <1>6, <1>7 DEF Next

LEMMA NextTypes == TypeOK /\ StoreOK(Lists)' /\ [Next]_vars => TypeOK'
<1> DEFINE RestOK == /\ phase' \in {"booting", "seeding", "serving"}
                     /\ cookie' \in [Clients -> Cookies]
                     /\ requests' \in 0..MaxRequests
                     /\ crashes' \in 0..MaxCrashes
<1> SUFFICES ASSUME TypeOK, StoreOK(Lists)', [Next]_vars PROVE RestOK
  BY DEF TypeOK, Lists
<1> USE BoundsAssumption
<1>0. /\ phase \in {"booting", "seeding", "serving"} /\ cookie \in [Clients -> Cookies]
      /\ requests \in 0..MaxRequests /\ crashes \in 0..MaxCrashes
  BY DEF TypeOK
<1>1. CASE EnsureAdminUser \/ Serves
  BY <1>0, <1>1 DEF EnsureAdminUser, Serves
<1>2. CASE Crash
  BY <1>0, <1>2 DEF Crash
<1>3. ASSUME NEW c \in Clients, Login(c) \/ Logout(c)
      PROVE  RestOK
  <2>1. PICK k \in Cookies : cookie' = [cookie EXCEPT ![c] = k]
    <3>1. CASE Logout(c)
      BY <3>1 DEF Logout, Cookies
    <3>2. CASE Login(c)
      <4>1. PICK n \in Names : \E u \in First(Parsed(main), n) :
              cookie' = [cookie EXCEPT ![c] = [name |-> n, role |-> u.role]]
        BY <3>2 DEF Login
      <4>2. PICK u \in First(Parsed(main), n) :
              cookie' = [cookie EXCEPT ![c] = [name |-> n, role |-> u.role]]
        BY <4>1
      <4>3. u \in Users
        BY DEF First, TypeOK, StoreOK, FileOK, Parsed, Absent, Blank, Torn
      <4>4. [name |-> n, role |-> u.role] \in Cookies
        BY <4>3 DEF Users, Cookies
      <4> QED BY <4>2, <4>4
    <3> QED BY <1>3, <3>1, <3>2
  <2> QED BY <1>0, <1>3, <2>1 DEF Login, Logout
<1>4. ASSUME NEW t \in Threads, NEW users, Writes(t, users)
      PROVE  RestOK
  BY <1>0, <1>4 DEF Writes
<1>5. ASSUME NEW t \in Threads, NEW c \in Clients,
             UsersCreate(t, c) \/ UsersDelete(t, c) \/ UsersPassword(t, c) \/ MePassword(t, c)
      PROVE  RestOK
  <2>1. \E users : Writes(t, users)
    BY <1>5 DEF UsersCreate, UsersDelete, UsersPassword, MePassword
  <2> QED BY <1>4, <2>1
<1>6. ASSUME NEW t \in Threads, Saves(t)
      PROVE  RestOK
  BY <1>0, <1>6 DEF Saves
<1>7. CASE UNCHANGED vars
  BY <1>0, <1>7 DEF vars
<1> QED BY <1>1, <1>2, <1>3, <1>5, <1>6, <1>7 DEF Next

------------------------------------------------------------------------------
(* Every list ever written has an administrator and one user a name.         *)

Good(users) == HasAdmin(users) /\ \A u, v \in users : u.name = v.name => u = v
GoodFile(file) == file.st = "json" => Good(file.val)

GInv ==
  /\ ~spoilt => /\ GoodFile(main) /\ GoodFile(tmp)
                /\ \A t \in Threads : Saving(t) => Good(copy[t])
  /\ phase # "serving" => /\ \A t \in Threads \ {Boot} : ~Saving(t)
                          /\ overlapped = {}
  /\ phase = "booting" => ~Saving(Boot)
  /\ (phase = "seeding" /\ ~Saving(Boot)) \/ phase = "serving" => main.st = "json" \/ spoilt

AInv == TypeOK /\ SInv(Lists) /\ GInv

\* A request that writes a good list whenever the file has not been spoilt.
LEMMA WritesKeeps ==
  ASSUME AInv, NEW t \in Threads, NEW users, Writes(t, users), ~spoilt => Good(users)
  PROVE  GInv'
<1>1. /\ phase = "serving" /\ phase' = "serving" /\ UNCHANGED <<main, tmp, spoilt>>
      /\ copy' = [copy EXCEPT ![t] = users] /\ copy \in [Threads -> Lists \cup {{}}]
      /\ saving' = [saving EXCEPT ![t] = "open"]
      /\ saving \in [Threads -> {"no", "open", "dump", "replace", "remove"}]
  BY DEF Writes, Loads, Goes, AInv, TypeOK, StoreOK, fileVars, Lists
<1>2. \A u \in Threads : Saving(u)' => copy'[u] = users \/ (copy'[u] = copy[u] /\ Saving(u))
  BY <1>1 DEF Saving
<1> QED BY <1>1, <1>2 DEF AInv, GInv, GoodFile

LEMMA SavesKeeps ==
  ASSUME AInv, NEW t \in Threads, Saves(t)
  PROVE  GInv'
<1> USE DEF AInv, GInv
<1>1. SaveStep(t) /\ phase' = phase
  BY DEF Saves
<1>2. /\ main' \in {main, tmp, Json(copy[t]), Torn} /\ (main' = tmp /\ tmp = Absent => main' = main)
      /\ tmp' \in {tmp, Json(copy[t]), Torn, Blank, Absent}
      /\ Saving(t) /\ spoilt' = (spoilt \/ main' \in {Blank, Torn})
      /\ \A u \in Threads \ {t} : saving'[u] = saving[u] /\ copy'[u] = copy[u]
      /\ Saving(t)' => copy'[t] = copy[t]
      /\ overlapped' \subseteq overlapped
  <2>1. StoreOK(Lists) /\ (main \in {Blank, Torn} => spoilt)
    BY DEF SInv
  <2> HIDE DEF AInv, GInv
  <2> QED BY <1>1, <2>1, SaveStepEffect
<1>3. FileOK(Lists) /\ spoilt \in BOOLEAN
  BY DEF TypeOK, StoreOK, Lists
<1>4. ~spoilt' => GoodFile(main)' /\ GoodFile(tmp)' /\ \A u \in Threads : Saving(u)' => Good(copy'[u])
  <2> SUFFICES ASSUME ~spoilt'
               PROVE  GoodFile(main)' /\ GoodFile(tmp)' /\ \A u \in Threads : Saving(u)' => Good(copy'[u])
    OBVIOUS
  <2>1. ~spoilt /\ GoodFile(main) /\ GoodFile(tmp) /\ Good(copy[t])
    BY <1>2
  <2>2. GoodFile(Json(copy[t])) /\ GoodFile(Torn) /\ GoodFile(Blank) /\ GoodFile(Absent)
    BY <2>1 DEF GoodFile, Json, Torn, Blank, Absent
  <2>3. GoodFile(main)' /\ GoodFile(tmp)'
    BY <1>2, <2>1, <2>2 DEF GoodFile
  <2>4. \A u \in Threads : Saving(u)' => Good(copy'[u])
    BY <1>2, <2>1 DEF Saving
  <2> QED BY <2>3, <2>4
<1>5. main.st = "json" => main'.st = "json" \/ spoilt'
  <2>1. tmp \in {Absent, Blank, Torn} \/ tmp.st = "json"
    BY <1>3 DEF FileOK
  <2>2. CASE main' = tmp
    BY <1>2, <1>3, <2>1, <2>2 DEF Absent
  <2>3. CASE main' # tmp
    <3>1. main' \in {main, Json(copy[t]), Torn} /\ (main' = Torn => spoilt')
      BY <1>2, <2>3
    <3> QED BY <3>1 DEF Json
  <2> QED BY <2>2, <2>3
<1>6. phase = "seeding" /\ ~Saving(Boot)' => main'.st = "json"
  <2> SUFFICES ASSUME phase = "seeding", ~Saving(Boot)' PROVE main'.st = "json"
    OBVIOUS
  <2>1. t = Boot /\ overlapped = {}
    BY <1>2
  <2>2. Alone(Boot) /\ ThreadTrue(Boot)
    BY <1>2, <2>1, BootAssumption DEF Alone, SInv
  <2>3. saving[Boot] # "remove" /\ (saving[Boot] = "replace" => tmp = Json(copy[Boot]))
    BY <2>2, BootAssumption DEF ThreadTrue, SInv, AloneIsAtomic
  <2>4. Replaces(Boot)
    <3>1. saving \in [Threads -> {"no", "open", "dump", "replace", "remove"}]
      BY DEF TypeOK, StoreOK
    <3>2. ~Opens(Boot) /\ ~Dumps(Boot)
      BY <3>1, BootAssumption DEF Opens, Dumps, Goes, Saving
    <3>3. ~ReplaceRaises(Boot) /\ ~Removes(Boot)
      BY <2>3 DEF ReplaceRaises, Removes, Goes, Json, Absent
    <3> QED BY <1>1, <2>1, <3>2, <3>3 DEF SaveStep
  <2> QED BY <2>3, <2>4 DEF Replaces, Goes, Replace, Json
<1>7. phase # "serving" => (\A u \in Threads \ {Boot} : ~Saving(u)') /\ overlapped' = {}
  BY <1>2 DEF Saving
<1>8. phase # "booting"
  BY <1>2
<1>9. phase = "serving" => main'.st = "json" \/ spoilt'
  <2>1. spoilt => spoilt'
    BY <1>2
  <2> QED BY <1>5, <2>1
<1> QED BY <1>1, <1>4, <1>6, <1>7, <1>8, <1>9

LEMMA NextKeeps == AInv /\ [Next]_vars => AInv'
<1> SUFFICES ASSUME AInv, [Next]_vars PROVE AInv'
  OBVIOUS
<1>0. TypeOK /\ SInv(Lists) /\ GInv
  BY DEF AInv
<1>1. SInv(Lists)'
  BY <1>0, NextIsStoreNext, StoreNextKeeps DEF Lists
<1>2. TypeOK'
  BY <1>0, <1>1, NextTypes DEF SInv
<1>3. CASE EnsureAdminUser
  <2>1. PICK u \in Seeds(Parsed(main)) : Loads(Boot, Parsed(main) \cup {u})
    BY <1>3 DEF EnsureAdminUser
  <2>2. /\ phase = "booting" /\ ~HasAdmin(Parsed(main)) /\ phase' = "seeding"
        /\ UNCHANGED <<main, tmp, spoilt>>
        /\ copy' = [copy EXCEPT ![Boot] = Parsed(main) \cup {u}]
        /\ saving' = [saving EXCEPT ![Boot] = "open"]
        /\ copy \in [Threads -> Lists \cup {{}}]
        /\ saving \in [Threads -> {"no", "open", "dump", "replace", "remove"}]
    BY <1>0, <1>3, <2>1 DEF EnsureAdminUser, Loads, Goes, TypeOK, StoreOK, fileVars, Lists
  <2>3. ~spoilt => Good(Parsed(main) \cup {u})
    <3>1. ~spoilt => Parsed(main) = {}
      BY <1>0, <2>2 DEF GInv, GoodFile, Good, Parsed
    <3>2. u.role = "admin"
      BY <2>1 DEF Seeds
    <3> QED BY <3>1, <3>2 DEF Good, HasAdmin
  <2>4. {v \in Threads \ {Boot} : Saving(v)} = {}
    BY <1>0, <2>2 DEF GInv
  <2>5. overlapped' = {}
    BY <1>0, <2>1, <2>2, <2>4 DEF Loads, GInv
  <2>6. \A v \in Threads \ {Boot} : ~Saving(v)'
    BY <2>2, <2>4 DEF Saving
  <2>7. Saving(Boot)' /\ copy'[Boot] = Parsed(main) \cup {u}
    BY <2>2, BootAssumption DEF Saving
  <2>8. GInv'
    BY <1>0, <2>2, <2>3, <2>5, <2>6, <2>7 DEF GInv, GoodFile
  <2> QED BY <1>1, <1>2, <2>8 DEF AInv
<1>4. CASE Serves
  <2>1. /\ phase' = "serving" /\ UNCHANGED <<main, tmp, spoilt, saving, copy, overlapped>>
        /\ (phase = "booting" /\ HasAdmin(Parsed(main))) \/ (phase = "seeding" /\ ~Saving(Boot))
    BY <1>4 DEF Serves, storeVars, fileVars, histVars
  <2>2. HasAdmin(Parsed(main)) => main.st = "json"
    BY DEF HasAdmin, Parsed
  <2>3. GInv'
    BY <1>0, <2>1, <2>2 DEF GInv, GoodFile, Saving
  <2> QED BY <1>1, <1>2, <2>3 DEF AInv
<1>5. CASE Crash
  <2>1. /\ phase' = "booting" /\ UNCHANGED <<main, tmp, spoilt>> /\ overlapped' = {}
        /\ saving' = [t \in Threads |-> "no"]
    BY <1>5 DEF Crash, StoreCrash, CloseAll
  <2>2. \A t \in Threads : ~Saving(t)'
    BY <2>1 DEF Saving
  <2>3. GInv'
    BY <1>0, <2>1, <2>2, BootAssumption DEF GInv, GoodFile
  <2> QED BY <1>1, <1>2, <2>3 DEF AInv
<1>6. ASSUME NEW c \in Clients, Login(c) \/ Logout(c)
      PROVE  GInv'
  <2>1. UNCHANGED <<main, tmp, spoilt, saving, copy, overlapped, phase>>
    BY <1>6 DEF Login, Logout, storeVars, fileVars, histVars
  <2> QED BY <1>0, <2>1 DEF GInv, GoodFile, Saving
<1>7. ASSUME NEW t \in Threads, Saves(t)
      PROVE  GInv'
  BY <1>7, SavesKeeps
<1>8. ASSUME NEW t \in Threads, NEW c \in Clients,
             UsersCreate(t, c) \/ UsersDelete(t, c) \/ UsersPassword(t, c) \/ MePassword(t, c)
      PROVE  GInv'
  <2>1. phase = "serving"
    BY <1>8 DEF UsersCreate, UsersDelete, UsersPassword, MePassword, Writes
  <2>2. ~spoilt => Good(Parsed(main))
    BY <1>0, <2>1 DEF GInv, GoodFile, Parsed
  <2>3. CASE UsersCreate(t, c)
    <3>1. PICK u \in Users : /\ \A v \in Parsed(main) : v.name # u.name
                             /\ Writes(t, Parsed(main) \cup {u})
      BY <2>3 DEF UsersCreate
    <3>2. ~spoilt => Good(Parsed(main) \cup {u})
      BY <2>2, <3>1 DEF Good, HasAdmin
    <3> QED BY <3>1, <3>2, WritesKeeps
  <2>4. CASE UsersDelete(t, c)
    <3>1. PICK n \in Names : /\ HasAdmin({u \in Parsed(main) : u.name # n})
                             /\ Writes(t, {u \in Parsed(main) : u.name # n})
      BY <2>4 DEF UsersDelete
    <3>2. ~spoilt => Good({u \in Parsed(main) : u.name # n})
      BY <2>2, <3>1 DEF Good
    <3> QED BY <3>1, <3>2, WritesKeeps
  <2>5. ASSUME NEW u \in Parsed(main), NEW pwd \in Passwords
        PROVE  ~spoilt => Good(Changed(Parsed(main), u, pwd))
    <3> DEFINE w == [u EXCEPT !.password = pwd]
    <3>1. Parsed(main) \subseteq Users
      BY <1>0 DEF TypeOK, StoreOK, FileOK, Parsed, Absent, Blank, Torn
    <3>2. w.name = u.name /\ w.role = u.role
      BY <3>1 DEF Users
    <3>3. \A v \in Changed(Parsed(main), u, pwd) : v = w \/ (v \in Parsed(main) /\ v # u)
      BY DEF Changed
    <3> HIDE DEF w
    <3>4. HasAdmin(Parsed(main)) => HasAdmin(Changed(Parsed(main), u, pwd))
      <4>1. w \in Changed(Parsed(main), u, pwd) /\ \A v \in Parsed(main) \ {u} : v \in Changed(Parsed(main), u, pwd)
        BY DEF Changed, w
      <4> QED BY <3>2, <4>1 DEF HasAdmin
    <3> QED BY <2>2, <3>2, <3>3, <3>4 DEF Good
  <2>6. CASE UsersPassword(t, c)
    <3>1. PICK n \in Names, pwd \in Passwords :
            \E u \in First(Parsed(main), n) : Writes(t, Changed(Parsed(main), u, pwd))
      BY <2>6 DEF UsersPassword
    <3>2. PICK u \in First(Parsed(main), n) : Writes(t, Changed(Parsed(main), u, pwd))
      BY <3>1
    <3>3. ~spoilt => Good(Changed(Parsed(main), u, pwd))
      BY <2>5, <3>1, <3>2 DEF First
    <3> QED BY <3>2, <3>3, WritesKeeps
  <2>7. CASE MePassword(t, c)
    <3>1. PICK pwd \in Passwords :
            \E u \in First(Parsed(main), cookie[c].name) : Writes(t, Changed(Parsed(main), u, pwd))
      BY <2>7 DEF MePassword
    <3>2. PICK u \in First(Parsed(main), cookie[c].name) : Writes(t, Changed(Parsed(main), u, pwd))
      BY <3>1
    <3>3. ~spoilt => Good(Changed(Parsed(main), u, pwd))
      BY <2>5, <3>1, <3>2 DEF First
    <3> QED BY <3>2, <3>3, WritesKeeps
  <2> QED BY <1>8, <2>3, <2>4, <2>6, <2>7
<1>9. CASE UNCHANGED vars
  <2>1. UNCHANGED <<main, tmp, spoilt, saving, copy, overlapped, phase>>
    BY <1>9 DEF vars, storeVars, fileVars, histVars
  <2>2. GInv'
    BY <1>0, <2>1 DEF GInv, GoodFile, Saving
  <2> QED BY <1>1, <1>2, <2>2 DEF AInv
<1> QED BY <1>1, <1>2, <1>3, <1>4, <1>5, <1>6, <1>7, <1>8, <1>9 DEF Next, AInv

LEMMA InitAInv == Init => AInv
<1> SUFFICES ASSUME Init PROVE AInv
  OBVIOUS
<1>1. SInv(Lists)
  BY InitSInv DEF Init
<1>2. TypeOK
  BY <1>1, BoundsAssumption DEF Init, SInv, TypeOK, Lists, Cookies
<1>3. GInv
  BY BootAssumption DEF Init, StoreInit, FileInit, GInv, GoodFile, Saving, Absent
<1> QED BY <1>1, <1>2, <1>3 DEF AInv

------------------------------------------------------------------------------
(* Theorems.                                                                 *)

\* The inductive invariant of the accounts.
THEOREM Invariance == Spec => []AInv
<1> QED
  BY InitAInv, NextKeeps, PTL DEF Spec

\* The store, the phase and the cookies keep their types.
THEOREM TypeCorrect == Spec => []TypeOK
<1>1. AInv => TypeOK
  BY DEF AInv
<1> QED
  BY <1>1, Invariance, PTL

\* While the server serves there is an administrator, unless the file was spoilt.
THEOREM AnAdminRemains == Spec => []AdminRemains
<1>1. AInv => AdminRemains
  BY DEF AInv, GInv, GoodFile, Good, AdminRemains, Parsed
<1> QED
  BY <1>1, Invariance, PTL

\* No two users share a name, unless the file was spoilt.
THEOREM NamesAreUnique == Spec => []NamesUnique
<1>1. AInv => NamesUnique
  BY DEF AInv, GInv, GoodFile, Good, NamesUnique, Parsed
<1> QED
  BY <1>1, Invariance, PTL

\* The accounts are a store, and have what every store has.
THEOREM AccountsAreAStore == Spec => StoreSpec(Lists)
<1>1. Init => StoreInit
  BY DEF Init
<1>2. AInv /\ [Next]_vars => [StoreNext(Lists)]_storeVars
  BY NextIsStoreNext DEF AInv
<1> QED
  BY <1>1, <1>2, Invariance, PTL DEF Spec, StoreSpec

\* A request that no other overlaps is as good as atomic.
THEOREM LoneRequestsAreAtomic == Spec => []AloneIsAtomic
<1>1. AInv => AloneIsAtomic
  BY DEF AInv, SInv
<1> QED
  BY <1>1, Invariance, PTL

\* A deleted user or an old password does not come back by itself.
THEOREM RemovalsLast == Spec => []RemovedStays
<1>1. AInv => RemovedStays
  BY DEF AInv, SInv
<1> QED
  BY <1>1, Invariance, PTL

\* Only overlapping requests spoil the file.
THEOREM OnlyOverlapsSpoil == Spec => SpoiltByOverlap
<1>1. {} \in Lists
  BY DEF Lists
<1>2. StoreSpec(Lists) => SpoiltByOverlap
  BY <1>1, StoreInvariance
<1> QED
  BY <1>2, AccountsAreAStore
==============================================================================
