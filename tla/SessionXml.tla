------------------------------ MODULE SessionXml ------------------------------
(***************************************************************************)
(* Saving the XML of a session before and after a run: the session is      *)
(* looked up by its id in CORE's list, another is taken when it is gone,    *)
(* and an older file when CORE does not write one.                          *)
(***************************************************************************)
EXTENDS CoreDaemon, Sequences

CONSTANTS Threads, MaxEvents

VARIABLES work,     \* how far each request has come, and with which session
          who,      \* which session has the id now: they are numbered as they come
          saved,    \* the files of core-sessions, oldest first
          results,  \* history: what each request has got
          events    \* bound: sessions opened and requests left

xmlVars == <<daemonVars, work, who, saved, results, events>>

Idle == [at |-> "idle", id |-> 0, asked |-> 0, seen |-> 0, tries |-> 0]

XmlInit ==
  /\ DaemonInit
  /\ work = [t \in Threads |-> Idle]
  /\ who = [i \in Ids |-> 0]
  /\ saved = <<>>
  /\ results = {}
  /\ events = MaxEvents

Event == events > 0 /\ events' = events - 1

OpensSession(i) ==
  /\ Event
  /\ LowestFree(i) /\ CreateSession(i)
  /\ who' = [who EXCEPT ![i] = events]
  /\ UNCHANGED <<work, saved, results>>

ClosesSession(i) ==
  /\ DeleteBegins(i) \/ StopSession(i) \/ DeleteEnds(i)
  /\ UNCHANGED <<work, who, saved, results, events>>

\* For the session of a run that is there, or for whichever there is (0).
Asks(t, i) ==
  /\ Event
  /\ work[t] = Idle /\ i \in Known \cup {0}
  /\ work' = [work EXCEPT ![t] = [Idle EXCEPT !.at = "list", !.id = i,
                                              !.asked = IF i = 0 THEN 0 ELSE who[i]]]
  /\ UNCHANGED <<daemonVars, who, saved, results>>

\* The request ends with a file that shows that session; 0 is none.
Returns(t, of, failed) ==
  /\ results' = results \cup {[asked |-> work[t].asked, of |-> of, failed |-> failed]}
  /\ work' = [work EXCEPT ![t] = Idle]

Chosen_First(t) == Known
Chosen(t) == IF work[t].id \in Known THEN {work[t].id} ELSE Known

ListsSessions(t) ==
  /\ work[t].at = "list"
  /\ \/ Known = {} /\ Returns(t, 0, TRUE)
     \/ \E i \in Chosen(t) :
          /\ results' = results
          /\ work' = [work EXCEPT ![t].at = "copy", ![t].id = i, ![t].seen = who[i]]
  /\ UNCHANGED <<daemonVars, who, saved, events>>

\* The session's own file, or one in its directory, is copied when there is one.
CopiesXml(t) ==
  /\ work[t].at = "copy"
  /\ \/ /\ saved' = Append(saved, [of |-> work[t].seen, id |-> work[t].id])
        /\ Returns(t, work[t].seen, FALSE)
     \/ /\ UNCHANGED <<saved, results>>
        /\ work' = [work EXCEPT ![t].at = "save"]
  /\ UNCHANGED <<daemonVars, who, events>>

\* Otherwise CORE is asked to write it, up to three times; what it wrote must be valid.
SavesXml(t) ==
  /\ work[t].at = "save"
  /\ LET i == work[t].id IN
       \/ /\ i \in Known
          /\ saved' = Append(saved, [of |-> who[i], id |-> i])
          /\ Returns(t, who[i], FALSE)
       \/ /\ i \in Known                    \* the file is not valid and is removed
          /\ work' = [work EXCEPT ![t].at = "fall back"]
          /\ UNCHANGED <<saved, results>>
       \/ /\ work' = [work EXCEPT ![t].tries = @ + 1,
                                  ![t].at = IF work[t].tries = 2 THEN "fall back" ELSE "save"]
          /\ UNCHANGED <<saved, results>>
  /\ UNCHANGED <<daemonVars, who, events>>

\* The newest file of the same id (the files of one id share their stem), or of any.
Latest(i) ==
  LET at(S) == CHOOSE n \in S : \A m \in S : m <= n
      own == {n \in DOMAIN saved : saved[n].id = i}
  IN  IF saved = <<>> THEN 0 ELSE saved[at(IF own = {} THEN DOMAIN saved ELSE own)].of

FallsBack(t) ==
  /\ work[t].at = "fall back"
  /\ Returns(t, Latest(work[t].id), TRUE)
  /\ UNCHANGED <<daemonVars, who, saved, events>>

XmlNext ==
  \/ \E i \in Ids : OpensSession(i) \/ ClosesSession(i)
  \/ \E t \in Threads :
       \/ \E i \in Ids \cup {0} : Asks(t, i)
       \/ ListsSessions(t) \/ CopiesXml(t) \/ SavesXml(t) \/ FallsBack(t)

\* The XML saved for a session shows that session, unless it has left CORE's table by then
\* or CORE did not write it: no request gets another's file while its own session lives.
XmlOfOwnSession ==
  \A r \in results :
    r.asked # 0 /\ r.asked \in {who[i] : i \in Known} /\ ~r.failed => r.of = r.asked
==============================================================================
