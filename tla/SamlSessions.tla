---------------------------- MODULE SamlSessions ----------------------------
(* The SAML provider's sessions. Plugin keeps two maps, sessions by id and    *)
(* lists of ids by NameID, and no lock: the requests of net/http run their    *)
(* reads and writes of the maps in any order, and each is an action here.     *)
(* The operations of single logout (SLOManager) have a lock.                  *)
(*                                                                            *)
(* A list of ids is the set of its ids: ids are appended once, and an id left *)
(* in a list after its session has no effect (GetSessionsByNameID skips it).  *)
EXTENDS Integers

CONSTANTS Procs,    \* requests that the server runs at a time
          Ids,      \* ids of sessions; GenerateID gives each once
          NameIDs,
          Requests, \* ids of LogoutRequests; browsers repeat them
          MaxSent,  \* bound on the operations listed for a request and NameID
          None

ASSUME MaxSentIsNumber == MaxSent \in Nat
ASSUME NoneIsNone == None \notin Ids \cup NameIDs \cup Requests

VARIABLES
  live,       \* the ids in the map sessions
  nameOf,     \* SAMLSession.NameID, which never changes
  index,      \* nameIDToSessions
  req,        \* what each request is doing with the two maps
  states,     \* SLOManager.states: the NameID of each operation
  byName,     \* SLOManager.byNameID: how often a request is listed
  reply,      \* the LogoutResponse each request is handling
  closed,     \* Plugin.Shutdown has been called, and the process is to end
  overlapped  \* history: two requests have used the maps at the same time

rest == <<states, byName, reply, closed>>
maps == <<live, nameOf, index>>
vars == <<maps, req, rest, overlapped>>

(* Of a request: what it is about, its local variables (view: a list it has   *)
(* read, or the rest of it; at: the id at the index of the list it is going   *)
(* to remove; todo: the sessions it still has to delete), and (history)       *)
(* whether it has had the maps to itself so far.                              *)
Phases == {"idle", "stored", "linking", "finding", "sweeping", "chosen", "unlinking", "dropping",
           "closing"}
Request == [phase : Phases, kind : {"none", "login", "one", "name", "all"},
            name : NameIDs \cup {None}, id : Ids \cup {None}, at : Ids \cup {None},
            view : SUBSET Ids, todo : SUBSET Ids, alone : BOOLEAN]

Idle == [phase |-> "idle", kind |-> "none", name |-> None, id |-> None, at |-> None,
         view |-> {}, todo |-> {}, alone |-> TRUE]

Busy(p) == req[p].phase # "idle"
SessionsOf(u) == {s \in live : nameOf[s] = u}

Init == /\ live = {}
        /\ nameOf = [s \in Ids |-> None]
        /\ index = [u \in NameIDs |-> {}]
        /\ req = [p \in Procs |-> Idle]
        /\ states = [r \in Requests |-> None]
        /\ byName = [u \in NameIDs |-> [r \in Requests |-> 0]]
        /\ reply = [p \in Procs |-> None]
        /\ closed = FALSE
        /\ overlapped = FALSE

-----------------------------------------------------------------------------
(* A request comes to the maps while others may be using them. *)
Begin(p, r) ==
  LET others == {q \in Procs \ {p} : Busy(q)}
  IN  /\ ~Busy(p) /\ reply[p] = None
      /\ req' = [q \in Procs |-> IF q = p THEN [r EXCEPT !.alone = others = {}]
                                 ELSE IF q \in others THEN [req[q] EXCEPT !.alone = FALSE]
                                 ELSE req[q]]
      /\ overlapped' = (overlapped \/ others # {})

Continue(p, r) == req' = [req EXCEPT ![p] = r] /\ UNCHANGED overlapped

-----------------------------------------------------------------------------
\* Seeded fault: the session is stored before its NameID is known.
CreateSession_Unnamed(p, s, u) ==
  /\ nameOf[s] = None
  /\ live' = live \cup {s}
  /\ Begin(p, [Idle EXCEPT !.phase = "stored", !.kind = "login", !.name = u, !.id = s])
  /\ UNCHANGED <<nameOf, index, rest>>

(* A login ends in CreateSession, once at the IdP and once at the ACS:        *)
(* sessions[id] = session, then read the list, append, write it.              *)
CreateSession(p, s, u) ==
  /\ nameOf[s] = None
  /\ live' = live \cup {s}
  /\ nameOf' = [nameOf EXCEPT ![s] = u]
  /\ Begin(p, [Idle EXCEPT !.phase = "stored", !.kind = "login", !.name = u, !.id = s])
  /\ UNCHANGED <<index, rest>>

ReadList(p) ==
  /\ req[p].phase = "stored"
  /\ Continue(p, [req[p] EXCEPT !.phase = "linking", !.view = index[req[p].name]])
  /\ UNCHANGED <<maps, rest>>

\* Seeded fault: the list is made anew instead of appended to.
Link_Overwrites(p) ==
  /\ req[p].phase = "linking"
  /\ index' = [index EXCEPT ![req[p].name] = {req[p].id}]
  /\ Continue(p, Idle)
  /\ UNCHANGED <<live, nameOf, rest>>

Link(p) ==
  /\ req[p].phase = "linking"
  /\ index' = [index EXCEPT ![req[p].name] = req[p].view \cup {req[p].id}]
  /\ Continue(p, Idle)
  /\ UNCHANGED <<live, nameOf, rest>>

-----------------------------------------------------------------------------
\* Seeded fault: a NameID without a list stands for everybody.
Finding_Everybody(u) ==
  [Idle EXCEPT !.phase = "finding", !.kind = "name", !.name = u,
               !.view = IF index[u] = {} THEN live ELSE index[u]]

(* Logout. GetSessionsByNameID goes through the list and takes the sessions   *)
(* that exist; then they are deleted one by one.                              *)
Finding(u) == [Idle EXCEPT !.phase = "finding", !.kind = "name", !.name = u, !.view = index[u]]

StartSLO(r, u) ==
  /\ states' = [states EXCEPT ![r] = u]
  /\ byName' = [byName EXCEPT ![u][r] = @ + 1]
  /\ UNCHANGED <<reply, closed>>

HandleLogoutRequest(p, r, u) ==
  /\ byName[u][r] < MaxSent
  /\ StartSLO(r, u)
  /\ Begin(p, Finding(u))
  /\ UNCHANGED maps

DemoLogoutName(p, u) ==
  /\ Begin(p, Finding(u))
  /\ UNCHANGED <<maps, rest>>

DemoLogoutOne(p, s) ==
  /\ s \in live
  /\ Begin(p, [Idle EXCEPT !.phase = "sweeping", !.kind = "one", !.id = s, !.todo = {s}])
  /\ UNCHANGED <<maps, rest>>

(* A range over the map reaches what is there all the time; what comes during *)
(* the loop it may reach.                                                     *)
DemoLogoutAll(p) ==
  /\ Begin(p, [Idle EXCEPT !.phase = "sweeping", !.kind = "all", !.todo = live])
  /\ UNCHANGED <<maps, rest>>

\* Seeded fault: the first session found ends the search.
FindSession_First(p, s) ==
  /\ req[p].phase = "finding" /\ s \in req[p].view
  /\ Continue(p, IF s \in live THEN [req[p] EXCEPT !.phase = "sweeping", !.todo = {s}, !.view = {}]
                                ELSE [req[p] EXCEPT !.view = @ \ {s}])
  /\ UNCHANGED <<maps, rest>>

FindSession(p, s) ==
  /\ req[p].phase = "finding" /\ s \in req[p].view
  /\ Continue(p, [req[p] EXCEPT !.view = @ \ {s},
                                !.todo = IF s \in live THEN @ \cup {s} ELSE @])
  /\ UNCHANGED <<maps, rest>>

Found(p) ==
  /\ req[p].phase = "finding" /\ req[p].view = {}
  /\ Continue(p, [req[p] EXCEPT !.phase = "sweeping"])
  /\ UNCHANGED <<maps, rest>>

(* DeleteSession: nothing if the session is gone, else the list and the map. *)
DeleteSession(p, s) ==
  /\ req[p].phase = "sweeping"
  /\ s \in req[p].todo \/ (req[p].kind = "all" /\ s \in live)
  /\ Continue(p, IF s \in live
                 THEN [req[p] EXCEPT !.phase = "chosen", !.id = s, !.todo = @ \ {s}]
                 ELSE [req[p] EXCEPT !.todo = @ \ {s}])
  /\ UNCHANGED <<maps, rest>>

ReadForDelete(p) ==
  LET list == index[nameOf[req[p].id]]
  IN  /\ req[p].phase = "chosen"
      /\ Continue(p, [req[p] EXCEPT !.phase = IF req[p].id \in list THEN "unlinking" ELSE "dropping",
                                    !.view = list,
                                    !.at = IF req[p].id \in list THEN req[p].id ELSE None])
      /\ UNCHANGED <<maps, rest>>

(* The list a request is working on, if it is. *)
ListOf(p) == IF req[p].phase \in {"linking", "finding"} THEN req[p].name
             ELSE IF req[p].phase = "unlinking" THEN nameOf[req[p].id]
             ELSE None

(* append(list[:i], list[i+1:]...) moves the rest of the list in place, under *)
(* whoever holds the same array (s is None for one who has another). Who is   *)
(* going through it misses the id, or the one that comes to lie where he has  *)
(* been. Who is going to remove an index finds another id there; one that is  *)
(* gone stands for the last id, left there twice. A login appends to what     *)
(* remains.                                                                   *)
Moved(q, p, s) ==
  CASE ListOf(q) # ListOf(p) \/ s \notin req[q].view -> req[q]
    [] req[q].phase = "finding"   -> [req[q] EXCEPT !.view = @ \ {s}]
    [] req[q].phase = "unlinking" -> [req[q] EXCEPT !.view = @ \ {req[p].at}, !.at = s]
    [] OTHER                      -> [req[q] EXCEPT !.view = @ \ {req[p].at}]

Unlink(p) ==
  /\ req[p].phase = "unlinking"
  /\ index' = [index EXCEPT ![nameOf[req[p].id]] = req[p].view \ {req[p].at}]
  /\ \E s \in [Procs -> Ids \cup {None}] :
        req' = [q \in Procs |->
                  IF q = p THEN [req[p] EXCEPT !.phase = "dropping", !.view = {}, !.at = None]
                  ELSE Moved(q, p, s[q])]
  /\ UNCHANGED <<live, nameOf, rest, overlapped>>

Drop(p) ==
  /\ req[p].phase = "dropping"
  /\ live' = live \ {req[p].id}
  /\ Continue(p, [req[p] EXCEPT !.phase = "sweeping", !.id = None, !.view = {}])
  /\ UNCHANGED <<nameOf, index, rest>>

EndLogout(p) ==
  /\ req[p].phase = "sweeping" /\ req[p].todo = {}
  /\ Continue(p, Idle)
  /\ UNCHANGED <<maps, rest>>

-----------------------------------------------------------------------------
(* A LogoutResponse. No participant is ever pending (AddPendingSP has no      *)
(* caller), so MarkSPComplete completes the operation that was found, and the *)
(* one that has its id now is removed.                                        *)
HandleLogoutResponse(p, r) ==
  /\ ~Busy(p) /\ reply[p] = None /\ states[r] # None
  /\ reply' = [reply EXCEPT ![p] = r]
  /\ UNCHANGED <<maps, req, states, byName, overlapped, closed>>

\* Seeded fault: the whole entry of the NameID goes.
CompleteSLO_ForgetsName(p) ==
  LET r == reply[p] IN
  /\ r # None
  /\ IF states[r] = None
     THEN UNCHANGED <<states, byName>>
     ELSE /\ states' = [states EXCEPT ![r] = None]
          /\ byName' = [byName EXCEPT ![states[r]] = [q \in Requests |-> 0]]
  /\ reply' = [reply EXCEPT ![p] = None]
  /\ UNCHANGED <<maps, req, overlapped, closed>>

CompleteSLO(p) ==
  LET r == reply[p] IN
  /\ r # None
  /\ IF states[r] = None
     THEN UNCHANGED <<states, byName>>
     ELSE /\ states' = [states EXCEPT ![r] = None]
          /\ byName' = [byName EXCEPT ![states[r]][r] = IF @ > 0 THEN @ - 1 ELSE 0]
  /\ reply' = [reply EXCEPT ![p] = None]
  /\ UNCHANGED <<maps, req, overlapped, closed>>

-----------------------------------------------------------------------------
(* Plugin.Shutdown, once, makes new maps, one after the other. The server     *)
(* still takes requests: main shuts it down after the plugins.                *)
Shutdown(p) ==
  /\ ~closed /\ closed' = TRUE
  /\ live' = {}
  /\ Begin(p, [Idle EXCEPT !.phase = "closing"])
  /\ UNCHANGED <<nameOf, index, states, byName, reply>>

ShutdownIndex(p) ==
  /\ req[p].phase = "closing"
  /\ index' = [u \in NameIDs |-> {}]
  /\ Continue(p, Idle)
  /\ UNCHANGED <<live, nameOf, rest>>

(* The process ends, also by the runtime's fatal error when it notices        *)
(* concurrent writes of a map, and starts again with nothing.                 *)
Restart ==
  /\ live' = {}
  /\ index' = [u \in NameIDs |-> {}]
  /\ req' = [p \in Procs |-> Idle]
  /\ states' = [r \in Requests |-> None]
  /\ byName' = [u \in NameIDs |-> [r \in Requests |-> 0]]
  /\ reply' = [p \in Procs |-> None]
  /\ closed' = FALSE
  /\ overlapped' = FALSE
  /\ UNCHANGED nameOf

-----------------------------------------------------------------------------
Next ==
  \/ \E p \in Procs :
        \/ ReadList(p) \/ Link(p)
        \/ Found(p) \/ ReadForDelete(p) \/ Unlink(p) \/ Drop(p) \/ EndLogout(p)
        \/ DemoLogoutAll(p) \/ CompleteSLO(p) \/ Shutdown(p) \/ ShutdownIndex(p)
        \/ \E s \in Ids : FindSession(p, s) \/ DeleteSession(p, s) \/ DemoLogoutOne(p, s)
        \/ \E r \in Requests : HandleLogoutResponse(p, r)
        \/ \E u \in NameIDs : \/ DemoLogoutName(p, u)
                              \/ \E s \in Ids : CreateSession(p, s, u)
                              \/ \E r \in Requests : HandleLogoutRequest(p, r, u)
  \/ Restart

Spec == Init /\ [][Next]_vars

-----------------------------------------------------------------------------
TypeOK ==
  /\ live \subseteq Ids
  /\ nameOf \in [Ids -> NameIDs \cup {None}]
  /\ index \in [NameIDs -> SUBSET Ids]
  /\ req \in [Procs -> Request]
  /\ \A p \in Procs : req[p].phase \in {"chosen", "unlinking", "dropping", "stored", "linking"}
                        => req[p].id # None /\ nameOf[req[p].id] # None
  /\ states \in [Requests -> NameIDs \cup {None}]
  /\ byName \in [NameIDs -> [Requests -> 0..MaxSent]]
  /\ reply \in [Procs -> Requests \cup {None}]
  /\ closed \in BOOLEAN
  /\ overlapped \in BOOLEAN

(* As long as requests did not overlap, the two maps agree between requests:  *)
(* every session is listed under its NameID, and nothing else is.             *)
IndexAgrees ==
  (~overlapped /\ \A p \in Procs : ~Busy(p)) => \A u \in NameIDs : index[u] = SessionsOf(u)

(* A logout ends what it is about, if no other request came in between. That  *)
(* of a NameID needs the index, so requests must never have overlapped; the   *)
(* demo's logout of everything goes by the sessions and ends those, too, that *)
(* the index has lost.                                                        *)
Scope(r) == CASE r.kind = "all"  -> live
              [] r.kind = "name" -> SessionsOf(r.name)
              [] OTHER           -> {}

LogoutEndsAll ==
  [][\A p \in Procs : \A r \in {req[p]} :
        (/\ r.phase = "sweeping" /\ ~Busy(p)'
         /\ r.alone /\ (r.kind = "name" => ~overlapped))
        => Scope(r)' = {}]_vars

(* Even when requests race for the lists, a logout of a NameID deletes        *)
(* sessions of that NameID only: no list, stale or moved under it, brings it  *)
(* the id of somebody else.                                                   *)
Deleting(r) == r.todo \cup (IF r.phase \in {"chosen", "unlinking", "dropping"} THEN {r.id} ELSE {})

NoForeignLogout ==
  \A p \in Procs : req[p].kind = "name" =>
     \A s \in Deleting(req[p]) : nameOf[s] = req[p].name

(* An operation that SLOManager tracks is listed under its NameID, however    *)
(* requests are repeated and responses race with them.                        *)
TrackedByName ==
  \A r \in Requests : states[r] # None => byName[states[r]][r] > 0

(* Between requests, as long as the plugin runs, GetSessionsByNameID retrieves *)
(* all sessions of a NameID.                                                   *)
AllSessionsFound ==
  (~closed /\ \A p \in Procs : ~Busy(p)) => \A s \in live : s \in index[nameOf[s]]

=============================================================================
