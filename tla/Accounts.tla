------------------------------- MODULE Accounts -------------------------------
(***************************************************************************)
(* The accounts of the Web backend: a file of users, the start-up that     *)
(* makes sure of an administrator, and the requests that log in, create    *)
(* and delete users and change passwords.  Who is logged in as what is in  *)
(* the client's signed cookie, not with the server.                        *)
(***************************************************************************)
EXTENDS JsonStore, Naturals

CONSTANTS Boot,         \* the thread that imports the module, before any request
          Clients,      \* browsers
          Names,        \* user names
          Passwords,    \* hashes tell passwords apart
          MaxRequests,  \* bound: requests that save
          MaxCrashes    \* bound: how often the server dies

ASSUME BootAssumption == Boot \in Threads
ASSUME NamesAssumption == {"coreadmin", "admin"} \subseteq Names
ASSUME StoreAssumption == RemovesTmp = TRUE
ASSUME BoundsAssumption == MaxRequests \in Nat /\ MaxCrashes \in Nat

VARIABLES phase,        \* the server is booting, seeding an administrator, or serving
          cookie,       \* session['user'] of each client
          requests,     \* how many have saved
          crashes       \* how often the server has died

vars == <<storeVars, phase, cookie, requests, crashes>>

Roles == {"admin", "user"}
Users == [name : Names, password : Passwords, role : Roles]

\* Of two users of one name the first in the file counts.  Only the start-up adds a
\* user without looking at the names: an administrator, when there was none.
First(users, n) ==
  {u \in users : u.name = n /\ (u.role = "admin" => \A v \in users : v.name = n => v.role = "admin")}

HasAdmin(users) == \E u \in users : u.role = "admin"

NoCookie == [name |-> "nobody", role |-> "none"]
Cookies == [name : Names, role : Roles] \cup {NoCookie}

Init ==
  /\ StoreInit
  /\ phase = "booting"
  /\ cookie = [c \in Clients |-> NoCookie]
  /\ requests = 0
  /\ crashes = 0

------------------------------------------------------------------------------
(* Start-up: _ensure_admin_user.                                             *)

Seeds(users) == [name : {IF users = {} THEN "coreadmin" ELSE "admin"}, password : Passwords, role : {"admin"}]

EnsureAdminUser ==
  /\ phase = "booting" /\ ~HasAdmin(Parsed(main))
  /\ phase' = "seeding"
  /\ \E u \in Seeds(Parsed(main)) : Loads(Boot, Parsed(main) \cup {u})
  /\ UNCHANGED <<cookie, requests, crashes>>

Serves ==
  /\ \/ phase = "booting" /\ HasAdmin(Parsed(main))
     \/ phase = "seeding" /\ ~Saving(Boot)
  /\ phase' = "serving"
  /\ UNCHANGED <<storeVars, cookie, requests, crashes>>

------------------------------------------------------------------------------
(* Requests of a client c, each in a thread t that is free.                  *)

Login(c) ==
  /\ phase = "serving"
  /\ \E n \in Names : \E u \in First(Parsed(main), n) :
       cookie' = [cookie EXCEPT ![c] = [name |-> n, role |-> u.role]]
  /\ UNCHANGED <<storeVars, phase, requests, crashes>>

Logout(c) ==
  /\ phase = "serving"
  /\ cookie' = [cookie EXCEPT ![c] = NoCookie]
  /\ UNCHANGED <<storeVars, phase, requests, crashes>>

\* _require_admin looks at the cookie alone.
RequireAdmin(c) == cookie[c].role = "admin"

Writes(t, users) ==
  /\ phase = "serving"
  /\ requests < MaxRequests
  /\ requests' = requests + 1
  /\ Loads(t, users)
  /\ UNCHANGED <<phase, cookie, crashes>>

UsersCreate_SameName(t, c) ==
  /\ RequireAdmin(c)
  /\ \E u \in Users : u \notin Parsed(main) /\ Writes(t, Parsed(main) \cup {u})

UsersCreate(t, c) ==
  /\ RequireAdmin(c)
  /\ \E u \in Users :
       /\ \A v \in Parsed(main) : v.name # u.name
       /\ Writes(t, Parsed(main) \cup {u})

UsersDelete_AnyAdmin(t, c) ==
  /\ RequireAdmin(c)
  /\ \E n \in Names \ {cookie[c].name} :
       /\ HasAdmin(Parsed(main))
       /\ Writes(t, {u \in Parsed(main) : u.name # n})

\* "At least one admin must remain"; an unknown name is saved all the same.
UsersDelete(t, c) ==
  /\ RequireAdmin(c)
  /\ \E n \in Names \ {cookie[c].name} :
       LET remain == {u \in Parsed(main) : u.name # n} IN
       /\ HasAdmin(remain)
       /\ Writes(t, remain)

Changed_NameAndRole(users, u, pwd) == (users \ {u}) \cup {[name |-> u.name, role |-> u.role]}

Changed(users, u, pwd) == (users \ {u}) \cup {[u EXCEPT !.password = pwd]}

UsersPassword(t, c) ==
  /\ RequireAdmin(c)
  /\ \E n \in Names, pwd \in Passwords : \E u \in First(Parsed(main), n) :
       Writes(t, Changed(Parsed(main), u, pwd))

\* The current password has been asked for: the account must still be there.
MePassword(t, c) ==
  /\ cookie[c] # NoCookie
  /\ \E pwd \in Passwords : \E u \in First(Parsed(main), cookie[c].name) :
       Writes(t, Changed(Parsed(main), u, pwd))

Saves(t) == SaveStep(t) /\ UNCHANGED <<phase, cookie, requests, crashes>>

\* Cookies outlive the server.
Crash ==
  /\ crashes < MaxCrashes
  /\ crashes' = crashes + 1
  /\ StoreCrash
  /\ phase' = "booting"
  /\ UNCHANGED <<cookie, requests>>

Next ==
  \/ EnsureAdminUser \/ Serves \/ Crash
  \/ \E c \in Clients : Login(c) \/ Logout(c)
  \/ \E t \in Threads : Saves(t)
  \/ \E t \in Threads \ {Boot}, c \in Clients :
       UsersCreate(t, c) \/ UsersDelete(t, c) \/ UsersPassword(t, c) \/ MePassword(t, c)

Spec == Init /\ [][Next]_vars

------------------------------------------------------------------------------
(* Properties.                                                               *)

\* Types: the store, the phase, the cookies.
TypeOK ==
  /\ StoreOK(SUBSET Users)
  /\ phase \in {"booting", "seeding", "serving"}
  /\ cookie \in [Clients -> Cookies]
  /\ requests \in 0..MaxRequests
  /\ crashes \in 0..MaxCrashes

\* "At least one admin must remain": while it serves there is one, though requests
\* delete each other's users from copies loaded earlier, and the server dies at any
\* point: every list ever written has one.  Only a spoilt file reads as empty.
AdminRemains == phase = "serving" /\ ~spoilt => HasAdmin(Parsed(main))

\* "Username already exists": no two users share a name, although two requests may
\* create the same one at once, and the start-up does not look.
NamesUnique == ~spoilt => \A u, v \in Parsed(main) : u.name = v.name => u = v
==============================================================================
